----------------------------- MODULE ConsentHabits -----------------------------
(***************************************************************************)
(* Two customers, never in one behaviour: one uses tabs as they come, in a *)
(* session that may end; the other does one thing after another, while     *)
(* tokens expire.                                                          *)
(***************************************************************************)
EXTENDS ConsentSession

VARIABLE habit

InitCustomer == habit \in {"tabs", "orderly"} /\ Init

InTabs == (\E t \in Tab : Browse(t)) \/ SessionEnds \/ Exchanges \/ Withdraw

NextCustomer ==
    /\ UNCHANGED habit
    /\ IF habit = "tabs" THEN InTabs ELSE Orderly

SpecCustomer == InitCustomer /\ [][NextCustomer]_<<vars, habit>>

\* A customer who does one thing after another never authorizes a third party twice for one
\* kind of service, although only the page that offers the usage points looks for it.
OrderlyOncePerKind == habit = "orderly" => OncePerKind
================================================================================
