---------------------------- MODULE MCRunBudget ----------------------------
(* RunBudget for TLC: layers of two model calls and a sub-workflow.         *)
EXTENDS RunBudget

CONSTANTS n1, n2, s1

CallsAndSub == {n1, n2, s1}
Sub == {s1}
=============================================================================
