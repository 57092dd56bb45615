------------------------ MODULE AuthorizationContract ------------------------
(***************************************************************************)
(* What the customer is promised of each authorization, with no token, no  *)
(* database and no thread in sight: a third party is answered only under   *)
(* an authorization that is in force and whose period is not over, and one *)
(* that was revoked or deleted is never in force again.                    *)
(***************************************************************************)
EXTENDS Naturals

CONSTANTS Row,   \* authorization ids
          Day    \* days a period may end on, 0 for no end

Standing == {"unused", "active", "revoked", "gone"}

VARIABLES
    standing,   \* of each authorization
    until,      \* the last day of its period, 0 for no end
    answering,  \* authorizations a request is being answered under
    today

contract == <<standing, until, answering, today>>

Exists(i) == standing[i] \in {"active", "revoked"}

Init ==
    /\ standing = [i \in Row |-> "unused"]
    /\ until = [i \in Row |-> 0]
    /\ answering = {}
    /\ today = 1

\* A new authorization starts in force, for a period that is not over today.
Grant(i, d) ==
    /\ standing[i] = "unused"
    /\ \A j \in Row : j < i => standing[j] # "unused"
    /\ d = 0 \/ d >= today
    /\ standing' = [standing EXCEPT ![i] = "active"]
    /\ until' = [until EXCEPT ![i] = d]
    /\ UNCHANGED <<answering, today>>

Revoke(i) ==
    /\ Exists(i)
    /\ standing' = [standing EXCEPT ![i] = "revoked"]
    /\ UNCHANGED <<until, answering, today>>

ChangeEnd(i, d) ==
    /\ Exists(i)
    /\ until' = [until EXCEPT ![i] = d]
    /\ UNCHANGED <<standing, answering, today>>

Delete(i) ==
    /\ Exists(i)
    /\ standing' = [standing EXCEPT ![i] = "gone"]
    /\ until' = [until EXCEPT ![i] = 0]
    /\ UNCHANGED <<answering, today>>

Answer(i) ==
    /\ standing[i] = "active"
    /\ until[i] = 0 \/ until[i] >= today
    /\ answering' = answering \cup {i}
    /\ UNCHANGED <<standing, until, today>>

Answered(S) ==
    /\ answering' = answering \ S
    /\ UNCHANGED <<standing, until, today>>

NextDay ==
    /\ today' = today + 1
    /\ UNCHANGED <<standing, until, answering>>

Next ==
    \/ \E i \in Row : Revoke(i) \/ Delete(i) \/ Answer(i)
    \/ \E i \in Row, d \in Day : Grant(i, d) \/ ChangeEnd(i, d)
    \/ \E S \in SUBSET answering : Answered(S)
    \/ NextDay

Spec == Init /\ [][Next]_contract
=============================================================================
