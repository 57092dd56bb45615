---------------------------- MODULE MCRegistration ----------------------------
(* ThirdPartyRegistration on small instances. *)
EXTENDS ThirdPartyRegistration, TLC

Symmetry == Permutations(Browser) \cup Permutations(Client) \cup Permutations(Secret)
=============================================================================
