----------------------------- MODULE DurableRun -----------------------------
(***************************************************************************)
(* What a run promises to whoever reads its stream, as if one call did it  *)
(* all: a node completes at most once and not before its effect, nothing   *)
(* that completed takes effect again, and the run is completed when each   *)
(* node completed or, being a gate, was approved.  An effect may come more *)
(* than once before its completion is on record.                           *)
(***************************************************************************)
EXTENDS Naturals

CONSTANTS
    Node,
    Gate,       \* nodes a human decides
    Watched,    \* nodes whose effects are counted
    Status

VARIABLES
    status,     \* what the stream replays to
    done,       \* [Node -> completions in the stream]
    approved,   \* gates whose answer stands
    fired       \* [Watched -> effects, 2 and more as 2]

run == <<status, done, approved, fired>>

Init ==
    /\ status = "pending"
    /\ done = [n \in Node |-> 0]
    /\ approved = {}
    /\ fired = [n \in Watched |-> 0]

Takes(n) ==
    /\ done[n] = 0
    /\ fired' = [fired EXCEPT ![n] = IF @ < 2 THEN @ + 1 ELSE @]
    /\ UNCHANGED <<status, done, approved>>

Approve(h) ==
    /\ h \notin approved
    /\ approved' = approved \cup {h}
    /\ UNCHANGED <<status, done, fired>>

\* Some nodes complete at once and the run has a new status; it takes an approval
\* back only to pause for another one.
Append(nodes, new, reopened) ==
    /\ \A n \in nodes : done[n] = 0 /\ (n \in Watched => fired[n] > 0)
    /\ done' = [n \in Node |-> IF n \in nodes THEN 1 ELSE done[n]]
    /\ status' = new
    /\ reopened # {} => new = "paused"
    /\ approved' = approved \ reopened
    /\ new = "completed" => \A n \in Node : done'[n] > 0 \/ n \in approved'
    /\ UNCHANGED fired

Next ==
    \/ \E n \in Watched : Takes(n)
    \/ \E h \in Gate : Approve(h)
    \/ \E nodes \in SUBSET (Node \ Gate), new \in Status, reopened \in SUBSET Gate :
          Append(nodes, new, reopened)

Spec == Init /\ [][Next]_run
=============================================================================
