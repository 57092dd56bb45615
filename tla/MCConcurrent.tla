------------------------------ MODULE MCConcurrent ------------------------------
(***************************************************************************)
(* AuthorizationLifecycle with two threads.  Either the deployment is new, *)
(* or it is an older one, where deleting authorization 1 was cut short     *)
(* before its token was revoked.                                           *)
(***************************************************************************)
EXTENDS MCLifecycle

FirstOld == 10    \* no new deployment of this instance issues so many values

InitAfterDelete ==
    /\ access = {[token |-> FirstOld, party |-> p1, refresh |-> FirstOld + 1]}
    /\ refreshes = {[id |-> FirstOld + 1, party |-> p1, end |-> NoValue]}
    /\ rows = {} /\ codes = {} /\ expired = {} /\ today = 1
    /\ worker = [w \in Worker |-> Idle]
    /\ nextToken = FirstOld + 2 /\ nextRow = 2

\* Every request, and no failure but a restart.
NextConcurrent ==
    \/ \E w \in Worker : Step(w) \/ Begin(w)
    \/ Environment
    \/ Restart

SpecConcurrent == (Init \/ InitAfterDelete) /\ [][NextConcurrent]_vars

-----------------------------------------------------------------------------
(* Requests that begin in this instance, as a bound on its steps. *)

Old == nextToken > FirstOld

\* In the new deployment, anything for the first party, with few token requests; in the old
\* one, token requests only.
Selected(req) ==
    IF Old
    THEN /\ req.at \in {"lookup", "enhance"}
         /\ req.party = p1 \/ nextToken <= FirstOld + 3
    ELSE req.at \in {"lookup", "enhance"} => nextToken <= 3 /\ req.party = p1

FewRequests ==
    /\ \A w \in Worker : At(w, "idle") /\ worker'[w].at # "idle" => Selected(worker'[w])
    /\ Old /\ worker' = worker => UNCHANGED access
    /\ Cardinality(expired') <= 1
=============================================================================
