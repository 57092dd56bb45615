------------------------------- MODULE MCConsent -------------------------------
(* ConsentHabits with an electricity and two gas meters. *)
EXTENDS ConsentHabits, TLC

CONSTANTS electric, gas1, gas2

KindOfMeter   == [u \in UsagePoint |-> IF u = electric THEN "0" ELSE "1"]
AllCompatible == [c \in Client |-> UsagePoint]
\* The third party's whole scope for every meter.
OneScope      == [u \in UsagePoint |-> "all"]

Symmetry == Permutations(Client) \cup Permutations(Tab) \cup Permutations({gas1, gas2})
================================================================================
