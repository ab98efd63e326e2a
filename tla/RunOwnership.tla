---------------------------- MODULE RunOwnership ----------------------------
(***************************************************************************)
(* What the worker lease promises: at any time a run belongs to at most    *)
(* one worker, and it changes hands only by becoming free, be it that its  *)
(* worker released it or that the lease ran out.                           *)
(***************************************************************************)
CONSTANTS Worker, Nobody

VARIABLE holder

Init == holder = Nobody

Acquire(w) == holder = Nobody /\ holder' = w

Vacate == holder # Nobody /\ holder' = Nobody

Next == Vacate \/ \E w \in Worker : Acquire(w)

Spec == Init /\ [][Next]_holder
=============================================================================
