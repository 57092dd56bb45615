----------------------- MODULE AuthorizationRefinement -----------------------
(***************************************************************************)
(* The authorization handlers against what the customer is promised.       *)
(***************************************************************************)
EXTENDS AuthorizationLifecycle

CONSTANT RowId   \* the authorization ids the promise speaks of

RowStanding(i) ==
    IF \E x \in rows : x.id = i /\ x.status = "1" THEN "active"
    ELSE IF ById(i) # {} THEN "revoked"
    ELSE IF i < nextRow THEN "gone" ELSE "unused"

RowUntil(i) == IF ById(i) = {} THEN 0 ELSE (CHOOSE x \in rows : x.id = i).end

Contract == INSTANCE AuthorizationContract WITH
    Row       <- RowId,
    Day       <- 0..(MaxDay + DefaultDays),
    standing  <- [i \in RowId |-> RowStanding(i)],
    until     <- [i \in RowId |-> RowUntil(i)],
    answering <- {worker[w].row.id : w \in {u \in Worker : At(u, "serving")}},
    today     <- today

\* Requests handled one at a time, with failures, restarts and tokens expiring between
\* any two steps, keep the promise made to the customer about every authorization.
ContractKept == Contract!Spec
=============================================================================
