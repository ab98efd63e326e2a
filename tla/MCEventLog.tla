----------------------------- MODULE MCEventLog -----------------------------
(* EventLog for TLC: two sessions and three events. *)
EXTENDS EventLog, TLC

CONSTANTS s1, s2, k1, k2, k3

Sessions == {s1, s2}
ThreeKeys == {k1, k2, k3}
Symmetry == Permutations(ThreeKeys) \cup Permutations(Sessions)
=============================================================================
