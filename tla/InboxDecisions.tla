--------------------------- MODULE InboxDecisions ---------------------------
(***************************************************************************)
(* The inbox as its users should see it: an item and the memory write      *)
(* behind it are decided in one step, by a request that gives its items    *)
(* one verdict, or by an expiry, which decides only what nobody has        *)
(* decided, once, and as the workspace's policy has it.  No mission's item *)
(* is approved before its run has been told, or could not be.              *)
(***************************************************************************)
EXTENDS Naturals

CONSTANTS
    Item, MemoryItem,
    Policy       \* what becomes of an item that expires

VARIABLES
    item, write,
    told,        \* the items whose runs have been signalled, in vain or not
    expiries

inbox == <<item, write, told, expiries>>

Init ==
    /\ item = [i \in Item |-> "pending"]
    /\ write = [i \in MemoryItem |-> "pending"]
    /\ told = {}
    /\ expiries = [i \in Item |-> 0]

Tell ==
    /\ told \subseteq told'
    /\ UNCHANGED <<item, write, expiries>>

\* The items of is, and no others, are given the verdicts in v; a write goes with its
\* item or stays as it is.
Settle(is, v) ==
    /\ \A i \in Item : item'[i] = IF i \in is THEN v[i] ELSE item[i]
    /\ \A i \in MemoryItem : write'[i] = write[i] \/ (i \in is /\ write'[i] = v[i])
    /\ \A i \in is \ MemoryItem : v[i] = "approved" => i \in told
    /\ UNCHANGED told

\* A request may overrule another one that it did not see.
Answer(is) ==
    /\ \E v \in {"approved", "rejected"} : Settle(is, [i \in Item |-> v])
    /\ UNCHANGED expiries

Expire(is) ==
    /\ \A i \in is : item[i] = "pending" /\ expiries[i] = 0
    /\ Settle(is, Policy)
    /\ \A i \in Item : expiries'[i] = IF i \in is THEN 1 ELSE expiries[i]

Next == Tell \/ \E is \in SUBSET Item : Answer(is) \/ Expire(is)

Spec == Init /\ [][Next]_inbox
=============================================================================
