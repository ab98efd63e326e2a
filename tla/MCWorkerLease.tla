--------------------------- MODULE MCWorkerLease ---------------------------
(* WorkerLease for TLC: an execution in each of two worker processes, and a *)
(* reclaimer, whose worker id is its own.                                   *)
EXTENDS WorkerLease, TLC

CONSTANTS e1, e2, r1, w1, w2, wr1

TwoExecutions == {e1, e2}
OneReclaimer == {r1}
Workers == {w1, w2, wr1}
ProcessOf == e1 :> w1 @@ e2 :> w2 @@ r1 :> wr1
=============================================================================
