----------------------------- MODULE EventStream -----------------------------
(***************************************************************************)
(* What the readers of a run's events may count on: the stream grows by    *)
(* whole transactions and only grows.  A transaction's events are new, in  *)
(* an order of their own, and come after every event their appender knew.  *)
(* The events of two transactions may share a sequence number, and later   *)
(* ones may take lower numbers than earlier ones.                          *)
(***************************************************************************)
EXTENDS Naturals

VARIABLE log

Init == log = {}

After(r, rows) == \A k \in r.after : \E b \in rows : b.key = k /\ b.seq < r.seq

Append(rows) ==
    /\ \A a, b \in rows : a.key = b.key \/ a.seq = b.seq => a = b
    /\ \A a \in rows, b \in log : a.key # b.key
    /\ \A r \in rows : After(r, log \cup rows)

Next == log \subseteq log' /\ Append(log' \ log)

Spec == Init /\ [][Next]_log
=============================================================================
