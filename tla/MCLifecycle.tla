------------------------------ MODULE MCLifecycle ------------------------------
(* AuthorizationLifecycle on small instances. *)
EXTENDS AuthorizationRefinement, TLC

CONSTANTS p1, p2

CodeParties  == [p \in Party |-> "authorization_code"]
\* p1's customer consents on the portal; p2 signs in with the customer's password, or with
\* its own credentials.
CodeAndPassword == [p \in Party |-> IF p = p1 THEN "authorization_code" ELSE "password"]
CodeAndClient   == [p \in Party |-> IF p = p1 THEN "authorization_code"
                                                 ELSE "client_credentials"]

\* Within the bounds of these instances no more rows are ever inserted.
SmallRowId == 1..(MaxToken + MaxRow - 1)

ThreadSymmetry == Permutations(Worker)
=============================================================================
