------------------------- MODULE MCUnifiedExecutor -------------------------
(* UnifiedExecutor for TLC. *)
EXTENDS UnifiedExecutor, TLC

CONSTANTS p1, p2

OneProcess == {p1}
TwoProcesses == {p1, p2}

\* Three nodes: an LLM call, an approval, and an irreversible sandbox behind it.
SecondNode == {2}
ThirdNode == {3}

\* Two nodes: a sandbox and an irreversible node behind it.
FirstNode == {1}
NoNode == {}

Symmetry == Permutations(Process)
=============================================================================
