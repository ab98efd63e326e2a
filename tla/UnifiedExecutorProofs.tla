----------------------- MODULE UnifiedExecutorProofs -----------------------
(***************************************************************************)
(* ExecutorInv is inductive, for any number of nodes, processes, faults    *)
(* and retries: a completion waits in the transaction of the process that  *)
(* holds the lease, so whoever looks a node up under the lease sees it.    *)
(***************************************************************************)
EXTENDS UnifiedExecutor, TLAPS

\* log, tx and lease are as they were, for what the invariant says of them.
KeepsWork ==
    /\ log'.done = log.done
    /\ \A q \in Process : tx'[q].done = tx[q].done
    /\ lease'.holder = lease.holder

OthersStay(p) ==
    \A q \in Process \ {p} : pc'[q] = pc[q] /\ node'[q] = node[q] /\ call'[q] = call[q]

\* What a session adds to the stream keeps its type and the completions.
LEMMA LogsKeeps ==
    ASSUME TypeOK, NEW p \in Process, NEW e \in RunEvent, NEW s \in Status, Logs(p, e, s)
    PROVE  /\ tx' \in [Process -> Delta]
           /\ \A q \in Process : tx'[q].done = tx[q].done
<1> DEFINE new == [status |-> s, logged |-> tx[p].logged \cup {e}, done |-> tx[p].done,
                   effects |-> tx[p].effects, items |-> tx[p].items]
<1>1. CASE UNCHANGED tx
  BY <1>1 DEF TypeOK
<1>2. CASE tx' = [tx EXCEPT ![p] = new]
  <2>1. tx[p] \in Delta  BY DEF TypeOK
  <2>2. new \in Delta  BY <2>1 DEF Delta
  <2> HIDE DEF new
  <2>3. tx' \in [Process -> Delta]  BY <1>2, <2>2 DEF TypeOK
  <2>4. \A q \in Process \ {p} : tx'[q] = tx[q]  BY <1>2 DEF TypeOK
  <2>5. tx'[p] = new  BY <1>2 DEF TypeOK
  <2>6. new.done = tx[p].done  BY DEF new
  <2> QED  BY <2>3, <2>4, <2>5, <2>6
<1> QED  BY <1>1, <1>2 DEF Logs

\* Going elsewhere within the call.
LEMMA GoesToKeeps ==
    ASSUME TypeOK, NEW p \in Process, NEW at \in Place, GoesTo(p, at)
    PROVE  /\ pc' \in [Process -> Place] /\ pc'[p] = at /\ OthersStay(p)
           /\ UNCHANGED <<node, call>>
BY DEF GoesTo, TypeOK, OthersStay

\* Ending the strategy or the call.
LEMMA EndsWithKeeps ==
    ASSUME TypeOK, NEW p \in Process, NEW at \in Place,
           NEW s \in Terminal \cup {"none", "paused", "already_running"}, EndsWith(p, at, s)
    PROVE  /\ pc' \in [Process -> Place] /\ pc'[p] = at /\ OthersStay(p)
           /\ call' \in [Process -> Call] /\ call'[p].result = s /\ UNCHANGED node
<1> DEFINE new == [call[p] EXCEPT !.result = s]
<1>1. new \in Call /\ new.result = s  BY DEF TypeOK, Call
<1>2. call' = [call EXCEPT ![p] = new]  BY DEF EndsWith
<1> HIDE DEF new
<1>3. call' \in [Process -> Call] /\ call'[p].result = s  BY <1>1, <1>2 DEF TypeOK
<1>4. pc' \in [Process -> Place] /\ pc'[p] = at /\ OthersStay(p)
  BY <1>2 DEF EndsWith, TypeOK, OthersStay
<1> QED  BY <1>3, <1>4 DEF EndsWith

\* Moving on to the next layer.
LEMMA NextLayerKeeps ==
    ASSUME TypeOK, NEW p \in Process, NEW ok \in BOOLEAN, node[p] <= N, NextLayer(p, ok)
    PROVE  /\ pc' \in [Process -> Place] /\ pc'[p] = "layer" /\ OthersStay(p)
           /\ node' \in [Process -> 1..(N + 1)] /\ call' \in [Process -> Call]
<1> DEFINE new == [attempt |-> 0, anyFailed |-> call[p].anyFailed \/ ~ok,
                   result |-> call[p].result, commits |-> call[p].commits]
<1>1. pc' \in [Process -> Place] /\ pc'[p] = "layer" /\ OthersStay(p)
  BY DEF NextLayer, TypeOK, OthersStay, Place
<1>2. node[p] + 1 \in 1..(N + 1)  BY ExecutorConstAssumption DEF TypeOK
<1>3. node' \in [Process -> 1..(N + 1)]  BY <1>2 DEF NextLayer, TypeOK
<1>4. call[p] \in Call  BY DEF TypeOK
<1>5. new \in Call  BY <1>4, ExecutorConstAssumption DEF Call
<1>6. call' = [call EXCEPT ![p] = new]  BY DEF NextLayer
<1> HIDE DEF new
<1>7. call' \in [Process -> Call]  BY <1>5, <1>6 DEF TypeOK
<1> QED  BY <1>1, <1>3, <1>7

\* The caller's session is over.
LEMMA LeavesKeeps ==
    ASSUME TypeOK, NEW p \in Process, Leaves(p)
    PROVE  /\ pc' \in [Process -> Place] /\ pc'[p] = "idle" /\ OthersStay(p)
           /\ node' \in [Process -> 1..(N + 1)] /\ call' \in [Process -> Call]
           /\ signal' \in [Process -> BOOLEAN]
           /\ tx' \in [Process -> Delta] /\ \A n \in Node : tx'[p].done[n] = 0
           /\ \A q \in Process \ {p} : tx'[q] = tx[q]
<1>1. pc' \in [Process -> Place] /\ pc'[p] = "idle"  BY DEF Leaves, TypeOK, Place
<1>2. OthersStay(p)  BY DEF Leaves, TypeOK, OthersStay
<1>3. node' \in [Process -> 1..(N + 1)]  BY ExecutorConstAssumption DEF Leaves, TypeOK
<1>4. NoCall \in Call  BY ExecutorConstAssumption DEF NoCall, CallWith, Call
<1>5. call' \in [Process -> Call]  BY <1>4 DEF Leaves, TypeOK
<1>6. signal' \in [Process -> BOOLEAN]  BY DEF Leaves, TypeOK
<1>7. NoDelta \in Delta /\ \A n \in Node : NoDelta.done[n] = 0  BY DEF NoDelta, Delta
<1>8. tx' \in [Process -> Delta] /\ tx'[p] = NoDelta
      /\ \A q \in Process \ {p} : tx'[q] = tx[q]
  BY <1>7 DEF Leaves, TypeOK
<1> QED  BY <1>1, <1>2, <1>3, <1>5, <1>6, <1>7, <1>8

\* A step within a call that stores and commits no completion.
LEMMA StepKeeps ==
    ASSUME ExecutorInv, NEW p \in Process, KeepsWork, OthersStay(p),
           pc'[p] # "idle",
           pc'[p] \in Inside => lease.holder = p,
           pc'[p] \in InNode =>
               node'[p] <= N /\ log.done[node'[p]] + tx[p].done[node'[p]] = 0,
           pc'[p] = "finalize" => call'[p].result \in Terminal
    PROVE  LeaseGuardsWork' /\ NodesCompleteOnce' /\ OutcomeKnown'
<1>1. LeaseGuardsWork'
  <2> SUFFICES ASSUME NEW q \in Process
               PROVE  /\ pc'[q] \in Inside => lease'.holder = q
                      /\ \A n \in Node :
                            tx'[q].done[n] # 0 => lease'.holder = q /\ pc'[q] # "idle"
    BY DEF LeaseGuardsWork
  <2> QED  BY DEF ExecutorInv, LeaseGuardsWork, KeepsWork, OthersStay
<1>2. NodesCompleteOnce'
  <2> SUFFICES ASSUME NEW q \in Process
               PROVE  /\ \A n \in Node : log'.done[n] + tx'[q].done[n] <= 1
                      /\ pc'[q] \in InNode =>
                            /\ node'[q] <= N
                            /\ log'.done[node'[q]] + tx'[q].done[node'[q]] = 0
    BY DEF NodesCompleteOnce
  <2> QED  BY DEF ExecutorInv, NodesCompleteOnce, KeepsWork, OthersStay
<1>3. OutcomeKnown'  BY DEF ExecutorInv, OutcomeKnown, OthersStay
<1> QED  BY <1>1, <1>2, <1>3

\* With at most one completion stored anywhere, the view is the sum.
LEMMA ViewIsSum ==
    ASSUME ExecutorInv, NEW p \in Process
    PROVE  /\ View(p) \in Stream
           /\ \A n \in Node : View(p).done[n] = log.done[n] + tx[p].done[n]
<1>1. log \in Stream /\ tx[p] \in Delta  BY DEF ExecutorInv, TypeOK
<1>2. \A n \in Node : log.done[n] \in 0..2 /\ tx[p].done[n] \in 0..2
  BY <1>1 DEF Stream, Delta
<1>3. \A n \in Node : Upto2(log.done[n] + tx[p].done[n]) \in 0..2
  BY <1>2 DEF Upto2
<1>4. View(p) \in Stream
  <2> DEFINE d == [n \in Node |-> Upto2(log.done[n] + tx[p].done[n])]
             st == IF tx[p].status = "same" THEN log.status ELSE tx[p].status
             lg == log.logged \cup tx[p].logged
             ef == log.effects \cup tx[p].effects
  <2>1. d \in [Node -> 0..2]  BY <1>3
  <2>2. st \in Status /\ lg \in SUBSET RunEvent /\ ef \in SUBSET EffectKey
    BY <1>1 DEF Stream, Delta
  <2>3. View(p) = [status |-> st, logged |-> lg, done |-> d, effects |-> ef]  BY DEF View
  <2> HIDE DEF d, st, lg, ef
  <2> QED  BY <2>1, <2>2, <2>3 DEF Stream
<1>5. \A n \in Node : View(p).done[n] = Upto2(log.done[n] + tx[p].done[n])  BY DEF View
<1>6. \A n \in Node : log.done[n] + tx[p].done[n] <= 1
  BY DEF ExecutorInv, NodesCompleteOnce
<1>7. \A n \in Node : Upto2(log.done[n] + tx[p].done[n]) = log.done[n] + tx[p].done[n]
  BY <1>2, <1>6 DEF Upto2
<1> QED  BY <1>4, <1>5, <1>7

-----------------------------------------------------------------------------
(* One lemma per action, or per group of actions that do the same to what the *)
(* invariant speaks of.                                                       *)

\* A run nobody has called: nothing stored, no lease, nobody at work.
LEMMA InitExecutorInv == Init => ExecutorInv
<1> SUFFICES ASSUME Init PROVE ExecutorInv  OBVIOUS
<1> DEFINE none == [n \in Node |-> 0]
<1>1. none \in [Node -> 0..2]  OBVIOUS
<1>2. log \in Stream  BY <1>1 DEF Init, Stream, Status
<1>3. NoDelta \in Delta  BY <1>1 DEF NoDelta, Delta
<1>4. tx \in [Process -> Delta]  BY <1>3 DEF Init
<1>5. pc \in [Process -> Place] /\ node \in [Process -> 1..(N + 1)]
  BY ExecutorConstAssumption DEF Init, Place
<1>6. NoCall \in Call  BY ExecutorConstAssumption DEF NoCall, CallWith, Call
<1>7. call \in [Process -> Call] /\ signal \in [Process -> BOOLEAN]
  BY <1>6 DEF Init
<1>8. lease \in [holder : Process \cup {NoProcess}, durable : BOOLEAN]
  BY DEF Init, NoLease
<1>9. /\ inbox \in [Hitl -> {"none", "pending", "approved", "rejected"}]
      /\ fired \in [Irreversible -> 0..2] /\ faults \in 0..MaxFaults
  BY ExecutorConstAssumption DEF Init
<1>10. TypeOK  BY <1>2, <1>4, <1>5, <1>7, <1>8, <1>9 DEF TypeOK
<1>11. \A p \in Process, n \in Node : log.done[n] = 0 /\ tx[p].done[n] = 0
  BY DEF Init, NoDelta
<1>12. LeaseGuardsWork  BY <1>11 DEF LeaseGuardsWork, Inside, Init
<1>13. NodesCompleteOnce  BY <1>11 DEF NodesCompleteOnce, InNode, Init
<1>14. OutcomeKnown  BY DEF OutcomeKnown, Init
<1> QED  BY <1>10, <1>12, <1>13, <1>14 DEF ExecutorInv

\* A new call has the type of a call.
LEMMA CallWithType ==
    ASSUME NEW r \in Terminal \cup {"none"}, NEW c \in BOOLEAN
    PROVE  CallWith(r, c) \in Call
BY ExecutorConstAssumption DEF CallWith, Call

\* A first call only goes to the claim of the lease.
LEMMA FirstCallKeeps == ASSUME ExecutorInv, NEW p \in Process, FirstCall(p) PROVE ExecutorInv'
<1> USE DEF ExecutorInv
<1>1. pc' \in [Process -> Place] /\ pc'[p] = "claim" /\ OthersStay(p)
  BY DEF FirstCall, TypeOK, OthersStay, Place
<1>2. CallWith("none", TRUE) \in Call  BY CallWithType
<1>3. TypeOK'  BY <1>1, <1>2 DEF FirstCall, TypeOK
<1>4. KeepsWork  BY DEF FirstCall, KeepsWork
<1> QED  BY <1>1, <1>3, <1>4, StepKeeps DEF Inside, InNode

\* A resume stores at most the failure of a run whose stream is corrupt.
LEMMA ResumeKeeps == ASSUME ExecutorInv, NEW p \in Process, Resume(p) PROVE ExecutorInv'
<1> USE DEF ExecutorInv
<1>1. tx' \in [Process -> Delta] /\ \A q \in Process : tx'[q].done = tx[q].done
  <2>1. CASE UNCHANGED tx  BY <2>1 DEF TypeOK
  <2>2. CASE Logs(p, "failed", "failed")
    BY <2>2, LogsKeeps DEF RunEvent, Status, Terminal
  <2> QED  BY <2>1, <2>2 DEF Resume
<1>2. PICK at \in {"returned", "claim"}, commits \in BOOLEAN, r \in Terminal \cup {"none"} :
        /\ pc' = [pc EXCEPT ![p] = at]
        /\ call' = [call EXCEPT ![p] = CallWith(r, commits)]
  BY DEF Resume, Terminal
<1>3. CallWith(r, commits) \in Call  BY CallWithType
<1>4. call' \in [Process -> Call]  BY <1>2, <1>3 DEF TypeOK
<1>5. pc' \in [Process -> Place] /\ pc'[p] \in {"returned", "claim"}
  BY <1>2 DEF TypeOK, Place
<1>6. OthersStay(p)  BY <1>2 DEF Resume, TypeOK, OthersStay
<1>7. signal' \in [Process -> BOOLEAN]  BY DEF Resume, TypeOK
<1>8. TypeOK'  BY <1>1, <1>4, <1>5, <1>7 DEF Resume, TypeOK
<1>9. KeepsWork  BY <1>1 DEF Resume, KeepsWork
<1> QED  BY <1>5, <1>6, <1>8, <1>9, StepKeeps DEF Inside, InNode

\* A claim succeeds only when nobody else is at work on the run.
LEMMA ClaimKeeps == ASSUME ExecutorInv, NEW p \in Process, Claim(p) PROVE ExecutorInv'
<1> USE DEF ExecutorInv
<1>1. /\ pc' \in [Process -> Place] /\ pc'[p] = "leased" /\ OthersStay(p)
      /\ UNCHANGED <<node, call>>
  BY GoesToKeeps DEF Claim, Place
<1>2. lease' \in [holder : Process \cup {NoProcess}, durable : BOOLEAN] /\ lease'.holder = p
  BY DEF Claim, TypeOK
<1>3. TypeOK'  BY <1>1, <1>2 DEF Claim, TypeOK
<1>4. \A q \in Process \ {p} : lease.holder = q => pc[q] = "idle"  BY DEF Claim
<1>5. \A q \in Process \ {p} : pc[q] \notin Inside /\ \A n \in Node : tx[q].done[n] = 0
  BY <1>4 DEF LeaseGuardsWork, Inside
<1>6. LeaseGuardsWork'
  BY <1>1, <1>2, <1>5 DEF LeaseGuardsWork, OthersStay, Claim
<1>7. NodesCompleteOnce'
  BY <1>1 DEF NodesCompleteOnce, OthersStay, Claim, InNode
<1>8. OutcomeKnown'  BY <1>1 DEF OutcomeKnown, OthersStay
<1> QED  BY <1>3, <1>6, <1>7, <1>8

\* Steps that end the strategy or the call, whatever event they store.
LEMMA EndsKeep ==
    ASSUME ExecutorInv, NEW p \in Process, NEW at \in {"returned", "finalize"},
           NEW s \in Terminal \cup {"none", "paused", "already_running"}, EndsWith(p, at, s),
           at = "finalize" => lease.holder = p /\ s \in Terminal,
           tx' \in [Process -> Delta], \A q \in Process : tx'[q].done = tx[q].done,
           UNCHANGED <<log, signal, lease, inbox, fired, faults>>
    PROVE  ExecutorInv'
<1> USE DEF ExecutorInv
<1>1. at \in Place  BY DEF Place
<1>2. /\ pc' \in [Process -> Place] /\ pc'[p] = at /\ OthersStay(p)
      /\ call' \in [Process -> Call] /\ call'[p].result = s /\ UNCHANGED node
  BY <1>1, EndsWithKeeps
<1>3. TypeOK'  BY <1>2 DEF TypeOK
<1>4. KeepsWork  BY DEF KeepsWork
<1> QED  BY <1>2, <1>3, <1>4, StepKeeps DEF Inside, InNode

\* Steps to the next layer.
LEMMA NextLayersKeep ==
    ASSUME ExecutorInv, NEW p \in Process, NEW ok \in BOOLEAN, node[p] <= N, NextLayer(p, ok),
           pc[p] \in Inside,
           UNCHANGED <<log, tx, signal, lease, inbox, fired, faults>>
    PROVE  ExecutorInv'
<1> USE DEF ExecutorInv
<1>1. /\ pc' \in [Process -> Place] /\ pc'[p] = "layer" /\ OthersStay(p)
      /\ node' \in [Process -> 1..(N + 1)] /\ call' \in [Process -> Call]
  BY NextLayerKeeps
<1>2. TypeOK'  BY <1>1 DEF TypeOK
<1>3. KeepsWork  BY DEF KeepsWork
<1>4. lease.holder = p  BY DEF LeaseGuardsWork
<1> QED  BY <1>1, <1>2, <1>3, <1>4, StepKeeps DEF InNode

\* Steps that go on within the call, storing at most an event or an intent.
LEMMA GoesOnKeep ==
    ASSUME ExecutorInv, NEW p \in Process,
           NEW at \in {"leased", "layer", "node", "dispatch", "called", "returned"},
           pc[p] \in Inside, GoesTo(p, at),
           at \in InNode =>
               node[p] <= N /\ log.done[node[p]] + tx[p].done[node[p]] = 0,
           tx' \in [Process -> Delta], \A q \in Process : tx'[q].done = tx[q].done,
           signal' \in [Process -> BOOLEAN], fired' \in [Irreversible -> 0..2],
           UNCHANGED <<log, lease, inbox, faults>>
    PROVE  ExecutorInv'
<1> USE DEF ExecutorInv
<1>1. at \in Place  BY DEF Place
<1>2. pc' \in [Process -> Place] /\ pc'[p] = at /\ OthersStay(p) /\ UNCHANGED <<node, call>>
  BY <1>1, GoesToKeeps
<1>3. TypeOK'  BY <1>2 DEF TypeOK
<1>4. KeepsWork  BY DEF KeepsWork
<1>5. lease.holder = p  BY DEF LeaseGuardsWork
<1> QED  BY <1>2, <1>3, <1>4, <1>5, StepKeeps

\* A denied call returns without a lease and with nothing to commit.
LEMMA DeniedKeeps == ASSUME ExecutorInv, NEW p \in Process, Denied(p) PROVE ExecutorInv'
BY EndsKeep DEF Denied, Returns, ExecutorInv, TypeOK

\* A call whose lease was lost stores the abort and returns.
LEMMA LeaseLostKeeps == ASSUME ExecutorInv, NEW p \in Process, LeaseLost(p) PROVE ExecutorInv'
<1>1. tx' \in [Process -> Delta] /\ \A q \in Process : tx'[q].done = tx[q].done
  BY LogsKeeps DEF LeaseLost, ExecutorInv, RunEvent, Status, Terminal
<1> QED  BY <1>1, EndsKeep DEF LeaseLost, Returns, Terminal

\* A workflow without nodes stores a failure and returns.
LEMMA FailsValidationKeeps ==
    ASSUME ExecutorInv, NEW p \in Process, FailsValidation(p) PROVE ExecutorInv'
<1>1. tx' \in [Process -> Delta] /\ \A q \in Process : tx'[q].done = tx[q].done
  BY LogsKeeps DEF FailsValidation, ExecutorInv, RunEvent, Status, Terminal
<1> QED  BY <1>1, EndsKeep DEF FailsValidation, Returns, Terminal

\* The start stores an event and no completion.
LEMMA StartRunKeeps == ASSUME ExecutorInv, NEW p \in Process, StartRun(p) PROVE ExecutorInv'
<1>1. tx' \in [Process -> Delta] /\ \A q \in Process : tx'[q].done = tx[q].done
  BY LogsKeeps DEF StartRun, ExecutorInv, RunEvent, Status
<1>2. signal' \in [Process -> BOOLEAN]  BY DEF StartRun, ExecutorInv, TypeOK
<1> QED  BY <1>1, <1>2, GoesOnKeep DEF StartRun, Inside, InNode, ExecutorInv, TypeOK

\* An abort between layers is an outcome with a terminal event.
LEMMA StopsAtLayerKeeps ==
    ASSUME ExecutorInv, NEW p \in Process, StopsAtLayer(p) PROVE ExecutorInv'
<1>1. lease.holder = p
  BY DEF StopsAtLayer, AtLayer, ExecutorInv, LeaseGuardsWork, Inside
<1> QED  BY <1>1, EndsKeep DEF StopsAtLayer, Terminal, ExecutorInv, TypeOK

\* A completed node is passed by.
LEMMA SkipsCompletedKeeps ==
    ASSUME ExecutorInv, NEW p \in Process, SkipsCompleted(p) PROVE ExecutorInv'
BY NextLayersKeep DEF SkipsCompleted, AtLayer, Inside

\* A gate's answer is no completion.
LEMMA TakesDecisionKeeps ==
    ASSUME ExecutorInv, NEW p \in Process, TakesDecision(p) PROVE ExecutorInv'
<1>1. (inbox[node[p]] = "approved") \in BOOLEAN  OBVIOUS
<1> QED  BY <1>1, NextLayersKeep DEF TakesDecision, AtLayer, Inside

\* The lookup of the node's completion, made under the lease, sees them all.
LEMMA EntersNodeKeeps ==
    ASSUME ExecutorInv, NEW p \in Process, EntersNode(p) PROVE ExecutorInv'
<1>1. node[p] \in Node  BY DEF EntersNode, AtLayer, ExecutorInv, TypeOK, Node
<1>2. log.done[node[p]] + tx[p].done[node[p]] = 0
  BY <1>1, ViewIsSum DEF EntersNode
<1> QED  BY <1>1, <1>2, GoesOnKeep DEF EntersNode, AtLayer, Inside, Node, ExecutorInv, TypeOK

\* Inside a node the lease is held and the node has no completion anywhere.
LEMMA InNodeFacts ==
    ASSUME ExecutorInv, NEW p \in Process, pc[p] \in InNode
    PROVE  /\ node[p] \in Node /\ node[p] <= N /\ pc[p] \in Inside /\ lease.holder = p
           /\ log.done[node[p]] + tx[p].done[node[p]] = 0
           /\ log.done[node[p]] = 0 /\ tx[p].done[node[p]] = 0
<1> USE DEF ExecutorInv
<1>1. node[p] <= N /\ log.done[node[p]] + tx[p].done[node[p]] = 0
  BY DEF NodesCompleteOnce
<1>2. node[p] \in Node  BY <1>1, ExecutorConstAssumption DEF TypeOK, Node
<1>3. log.done[node[p]] \in 0..2 /\ tx[p].done[node[p]] \in 0..2
  <2>1. log \in Stream /\ tx[p] \in Delta  BY DEF TypeOK
  <2> QED  BY <1>2, <2>1 DEF Stream, Delta
<1>4. pc[p] \in Inside /\ lease.holder = p  BY DEF Inside, InNode, LeaseGuardsWork
<1> QED  BY <1>1, <1>2, <1>3, <1>4

\* An attempt stages at most an intent, or gives the node up.
LEMMA AttemptKeeps == ASSUME ExecutorInv, NEW p \in Process, Attempt(p) PROVE ExecutorInv'
<1>1. pc[p] \in InNode  BY DEF Attempt, InNode
<1>2. CASE NextLayer(p, FALSE) /\ UNCHANGED tx
  BY <1>1, <1>2, InNodeFacts, NextLayersKeep DEF Attempt
<1>3. CASE NextLayer(p, TRUE) /\ UNCHANGED tx
  BY <1>1, <1>3, InNodeFacts, NextLayersKeep DEF Attempt
<1>4. CASE GoesTo(p, "dispatch") /\ UNCHANGED tx
  BY <1>1, <1>4, InNodeFacts, GoesOnKeep DEF Attempt, ExecutorInv, TypeOK
<1>5. CASE GoesTo(p, "dispatch") /\ Stages(p, "intent", node[p])
  <2> DEFINE intent == [type |-> "intent", node |-> node[p], payload |-> "wrapped"]
             new == [tx[p] EXCEPT !.effects = @ \cup {intent}]
  <2>1. intent \in EffectKey  BY <1>1, InNodeFacts DEF EffectKey
  <2>2. tx[p] \in Delta  BY DEF ExecutorInv, TypeOK
  <2>3. tx' = [tx EXCEPT ![p] = new]  BY <1>5 DEF Stages
  <2> HIDE DEF intent
  <2>4. new \in Delta /\ new.done = tx[p].done  BY <2>1, <2>2 DEF Delta
  <2> HIDE DEF new
  <2>5. tx' \in [Process -> Delta] /\ \A q \in Process : tx'[q].done = tx[q].done
    BY <2>3, <2>4 DEF ExecutorInv, TypeOK
  <2> QED  BY <1>1, <1>5, <2>5, InNodeFacts, GoesOnKeep DEF Attempt, ExecutorInv, TypeOK
<1> QED  BY <1>2, <1>3, <1>4, <1>5 DEF Attempt

\* A pause raises an inbox item and stores no completion.
LEMMA InterruptKeeps == ASSUME ExecutorInv, NEW p \in Process, Interrupt(p) PROVE ExecutorInv'
<1> DEFINE new == [status |-> "paused", logged |-> tx[p].logged, done |-> tx[p].done,
                   effects |-> tx[p].effects, items |-> tx[p].items \cup {node[p]}]
<1>1. tx[p] \in Delta  BY DEF ExecutorInv, TypeOK
<1>2. new \in Delta /\ new.done = tx[p].done  BY <1>1 DEF Delta, Status, Interrupt
<1>3. UNCHANGED tx \/ tx' = [tx EXCEPT ![p] = new]  BY DEF Interrupt
<1> HIDE DEF new
<1>4. tx' \in [Process -> Delta] /\ \A q \in Process : tx'[q].done = tx[q].done
  BY <1>2, <1>3 DEF ExecutorInv, TypeOK
<1> QED  BY <1>4, EndsKeep DEF Interrupt, Returns

\* The dispatch of a node changes only what has left the system.
LEMMA FireKeeps == ASSUME ExecutorInv, NEW p \in Process, Fire(p) PROVE ExecutorInv'
<1>1. pc[p] \in InNode  BY DEF Fire, InNode
<1>2. \A n \in Irreversible : Upto2(fired[n] + 1) \in 0..2 /\ fired[n] \in 0..2
  BY DEF Upto2, ExecutorInv, TypeOK
<1>3. fired' \in [Irreversible -> 0..2]  BY <1>2 DEF Fire
<1> QED  BY <1>1, <1>3, InNodeFacts, GoesOnKeep DEF Fire, ExecutorInv, TypeOK

\* The node's first completion, stored under the lease.
LEMMA SucceedsKeeps == ASSUME ExecutorInv, NEW p \in Process, Succeeds(p) PROVE ExecutorInv'
<1> DEFINE done == [n \in Node |-> IF n = node[p] THEN Upto2(tx[p].done[n] + 1)
                                   ELSE tx[p].done[n]]
           effects == tx[p].effects \cup
                         {[type |-> "confirmed", node |-> n, payload |-> "wrapped"] :
                            n \in {node[p]} \cap Irreversible}
           new == [status |-> tx[p].status, logged |-> tx[p].logged, done |-> done,
                   effects |-> effects, items |-> tx[p].items]
<1>1. pc[p] \in InNode  BY DEF Succeeds, InNode
<1>2. /\ node[p] \in Node /\ node[p] <= N /\ lease.holder = p
      /\ log.done[node[p]] = 0 /\ tx[p].done[node[p]] = 0
  BY <1>1, InNodeFacts
<1>3. tx[p] \in Delta  BY DEF ExecutorInv, TypeOK
<1>4. \A n \in Node : tx[p].done[n] \in 0..2  BY <1>3 DEF Delta
<1>5. \A n \in Node : done[n] = IF n = node[p] THEN 1 ELSE tx[p].done[n]
  BY <1>2 DEF Upto2
<1>6. done \in [Node -> 0..2]  BY <1>4, <1>5
<1>7. effects \subseteq EffectKey
  <2>1. {[type |-> "confirmed", node |-> n, payload |-> "wrapped"] :
            n \in {node[p]} \cap Irreversible} \subseteq EffectKey
    BY <1>2 DEF EffectKey
  <2>2. tx[p].effects \subseteq EffectKey  BY <1>3 DEF Delta
  <2> QED  BY <2>1, <2>2
<1>8. tx' = [tx EXCEPT ![p] = new]  BY DEF Succeeds
<1> HIDE DEF done, effects
<1>9. new \in Delta /\ new.done = done  BY <1>3, <1>6, <1>7 DEF Delta
<1> HIDE DEF new
<1>10. tx' \in [Process -> Delta] /\ tx'[p].done = done
       /\ \A q \in Process \ {p} : tx'[q] = tx[q]
  BY <1>8, <1>9 DEF ExecutorInv, TypeOK
<1>11. /\ pc' \in [Process -> Place] /\ pc'[p] = "layer" /\ OthersStay(p)
       /\ node' \in [Process -> 1..(N + 1)] /\ call' \in [Process -> Call]
  BY <1>2, NextLayerKeeps DEF Succeeds, ExecutorInv
<1>12. TypeOK'  BY <1>10, <1>11 DEF Succeeds, ExecutorInv, TypeOK
<1>13. LeaseGuardsWork'
  BY <1>2, <1>10, <1>11 DEF Succeeds, ExecutorInv, LeaseGuardsWork, OthersStay
<1>14. \A n \in Node : log.done[n] + done[n] <= 1
  BY <1>2, <1>5 DEF ExecutorInv, NodesCompleteOnce
<1>15. NodesCompleteOnce'
  BY <1>10, <1>11, <1>14 DEF Succeeds, ExecutorInv, NodesCompleteOnce, OthersStay, InNode
<1>16. OutcomeKnown'  BY <1>11 DEF ExecutorInv, OutcomeKnown, OthersStay
<1> QED  BY <1>12, <1>13, <1>15, <1>16 DEF ExecutorInv

\* A failed attempt is counted, or is the last.
LEMMA FailsKeeps == ASSUME ExecutorInv, NEW p \in Process, Fails(p) PROVE ExecutorInv'
<1>1. pc[p] \in InNode  BY DEF Fails, InNode
<1>2. CASE NextLayer(p, FALSE)
  BY <1>1, <1>2, InNodeFacts, NextLayersKeep DEF Fails
<1>3. CASE call[p].attempt < MaxRetries /\ Retries(p)
  <2> DEFINE new == [call[p] EXCEPT !.attempt = @ + 1]
  <2>1. call[p] \in Call  BY DEF ExecutorInv, TypeOK
  <2>2. new \in Call  BY <1>3, <2>1, ExecutorConstAssumption DEF Call
  <2>3. call' = [call EXCEPT ![p] = new]  BY <1>3 DEF Retries
  <2> HIDE DEF new
  <2>4. call' \in [Process -> Call]  BY <2>2, <2>3 DEF ExecutorInv, TypeOK
  <2>5. pc' \in [Process -> Place] /\ pc'[p] = "node" /\ OthersStay(p) /\ UNCHANGED node
    BY <1>3, <2>3 DEF Retries, ExecutorInv, TypeOK, Place, OthersStay
  <2>6. TypeOK'  BY <2>4, <2>5 DEF Fails, ExecutorInv, TypeOK
  <2>7. KeepsWork  BY DEF Fails, KeepsWork
  <2> QED  BY <1>1, <2>5, <2>6, <2>7, InNodeFacts, StepKeeps DEF ExecutorInv
<1> QED  BY <1>2, <1>3 DEF Fails

\* An error outside the handler gives the node up.
LEMMA NodeRaisesKeeps == ASSUME ExecutorInv, NEW p \in Process, NodeRaises(p) PROVE ExecutorInv'
<1>1. pc[p] \in InNode  BY DEF NodeRaises, InNode
<1> QED  BY <1>1, InNodeFacts, NextLayersKeep DEF NodeRaises

\* Behind the last layer the outcome is completed or failed.
LEMMA LastLayerDoneKeeps ==
    ASSUME ExecutorInv, NEW p \in Process, LastLayerDone(p) PROVE ExecutorInv'
<1>1. lease.holder = p  BY DEF LastLayerDone, ExecutorInv, LeaseGuardsWork, Inside
<1> QED  BY <1>1, EndsKeep DEF LastLayerDone, Terminal, ExecutorInv, TypeOK

\* The terminal event is that of the outcome.
LEMMA FinalizeKeeps == ASSUME ExecutorInv, NEW p \in Process, Finalize(p) PROVE ExecutorInv'
<1>1. call[p].result \in Terminal  BY DEF Finalize, ExecutorInv, OutcomeKnown
<1>2. tx' \in [Process -> Delta] /\ \A q \in Process : tx'[q].done = tx[q].done
  BY <1>1, LogsKeeps DEF Finalize, ExecutorInv, RunEvent, Status
<1>3. signal' \in [Process -> BOOLEAN]  BY DEF Finalize, ExecutorInv, TypeOK
<1> QED  BY <1>2, <1>3, GoesOnKeep DEF Finalize, Inside, InNode, ExecutorInv, TypeOK

\* Nobody but the holder of the lease has completions to commit.
LEMMA OthersHaveNone ==
    ASSUME ExecutorInv, NEW p \in Process, lease.holder = p, NEW q \in Process \ {p}
    PROVE  pc[q] \notin Inside /\ \A n \in Node : tx[q].done[n] = 0
BY DEF ExecutorInv, LeaseGuardsWork

\* A commit in the middle of a node moves the holder's completions into the stream.
LEMMA CommitsMidwayKeeps ==
    ASSUME ExecutorInv, NEW p \in Process, CommitsMidway(p) PROVE ExecutorInv'
<1>1. pc[p] \in InNode  BY DEF CommitsMidway, InNode
<1>2. lease.holder = p /\ log.done[node[p]] + tx[p].done[node[p]] = 0 /\ node[p] \in Node
  BY <1>1, InNodeFacts
<1>3. log' \in Stream /\ \A n \in Node : log'.done[n] = log.done[n] + tx[p].done[n]
  BY ViewIsSum DEF CommitsMidway
<1>4. NoDelta \in Delta /\ \A n \in Node : NoDelta.done[n] = 0  BY DEF NoDelta, Delta
<1>5. /\ tx' \in [Process -> Delta] /\ tx'[p] = NoDelta
      /\ \A q \in Process \ {p} : tx'[q] = tx[q]
  BY <1>4 DEF CommitsMidway, ExecutorInv, TypeOK
<1>6. /\ lease' \in [holder : Process \cup {NoProcess}, durable : BOOLEAN]
      /\ lease'.holder = lease.holder
  <2>1. lease \in [holder : Process \cup {NoProcess}, durable : BOOLEAN]
    BY DEF ExecutorInv, TypeOK
  <2> QED  BY <2>1 DEF CommitsMidway
<1>7. UNCHANGED <<pc, node, call>>  BY DEF CommitsMidway, exe
<1>8. TypeOK'  BY <1>3, <1>5, <1>6, <1>7 DEF CommitsMidway, ExecutorInv, TypeOK
<1>9. LeaseGuardsWork'
  BY <1>4, <1>5, <1>6, <1>7 DEF ExecutorInv, LeaseGuardsWork
<1>10. NodesCompleteOnce'
  <2>1. \A q \in Process, n \in Node : log'.done[n] + tx'[q].done[n] = log.done[n] + tx[p].done[n]
    <3> SUFFICES ASSUME NEW q \in Process, NEW n \in Node
                 PROVE  log'.done[n] + tx'[q].done[n] = log.done[n] + tx[p].done[n]
      OBVIOUS
    <3>1. tx'[q].done[n] = 0  BY <1>2, <1>4, <1>5, OthersHaveNone
    <3>2. log'.done[n] \in 0..2  BY <1>3 DEF Stream
    <3> QED  BY <1>3, <3>1, <3>2
  <2>2. \A q \in Process : pc[q] \in InNode => q = p
    BY <1>2, OthersHaveNone DEF InNode, Inside
  <2> QED  BY <1>2, <1>7, <2>1, <2>2 DEF ExecutorInv, NodesCompleteOnce
<1>11. OutcomeKnown'  BY <1>7 DEF ExecutorInv, OutcomeKnown
<1> QED  BY <1>8, <1>9, <1>10, <1>11 DEF ExecutorInv

\* The commit moves the transaction's completions into the stream.
LEMMA CommitKeeps == ASSUME ExecutorInv, NEW p \in Process, Commit(p) PROVE ExecutorInv'
<1>1. log' \in Stream /\ \A n \in Node : log'.done[n] = log.done[n] + tx[p].done[n]
  BY ViewIsSum DEF Commit
<1>2. /\ pc' \in [Process -> Place] /\ pc'[p] = "idle" /\ OthersStay(p)
      /\ node' \in [Process -> 1..(N + 1)] /\ call' \in [Process -> Call]
      /\ signal' \in [Process -> BOOLEAN]
      /\ tx' \in [Process -> Delta] /\ \A n \in Node : tx'[p].done[n] = 0
      /\ \A q \in Process \ {p} : tx'[q] = tx[q]
  BY LeavesKeeps DEF Commit, ExecutorInv
<1>3. lease' \in [holder : Process \cup {NoProcess}, durable : BOOLEAN]
  BY DEF Commit, NoLease, ExecutorInv, TypeOK
<1>4. inbox' \in [Hitl -> {"none", "pending", "approved", "rejected"}]
  BY DEF Commit, ExecutorInv, TypeOK
<1>5. TypeOK'  BY <1>1, <1>2, <1>3, <1>4 DEF Commit, ExecutorInv, TypeOK
<1>6. \A q \in Process \ {p} : lease.holder = q => lease'.holder = q  BY DEF Commit
<1>7. LeaseGuardsWork'
  BY <1>2, <1>6 DEF ExecutorInv, LeaseGuardsWork, OthersStay, Inside
<1>8. NodesCompleteOnce'
  <2> SUFFICES ASSUME NEW q \in Process
               PROVE  /\ \A n \in Node : log'.done[n] + tx'[q].done[n] <= 1
                      /\ pc'[q] \in InNode =>
                            /\ node'[q] <= N
                            /\ log'.done[node'[q]] + tx'[q].done[node'[q]] = 0
    BY DEF NodesCompleteOnce
  <2>1. \A n \in Node : log.done[n] \in 0..2 /\ tx[p].done[n] \in 0..2
    <3>1. log \in Stream /\ tx[p] \in Delta  BY DEF ExecutorInv, TypeOK
    <3> QED  BY <3>1 DEF Stream, Delta
  <2>2. CASE q = p
    BY <1>1, <1>2, <2>1, <2>2 DEF ExecutorInv, NodesCompleteOnce, InNode
  <2>3. CASE q # p /\ lease.holder = p
    <3>1. pc[q] \notin Inside /\ \A n \in Node : tx[q].done[n] = 0
      BY <2>3, OthersHaveNone
    <3>2. pc'[q] \notin InNode  BY <1>2, <2>3, <3>1 DEF OthersStay, Inside, InNode
    <3> QED  BY <1>1, <1>2, <2>1, <2>3, <3>1, <3>2 DEF ExecutorInv, NodesCompleteOnce
  <2>4. CASE q # p /\ lease.holder # p
    <3>1. \A n \in Node : tx[p].done[n] = 0  BY <2>4 DEF ExecutorInv, LeaseGuardsWork
    <3>2. \A n \in Node : log'.done[n] = log.done[n]  BY <1>1, <2>1, <3>1
    <3>3. tx'[q] = tx[q] /\ pc'[q] = pc[q] /\ node'[q] = node[q]
      BY <1>2, <2>4 DEF OthersStay
    <3>4. pc[q] \in InNode => node[q] \in Node
      BY InNodeFacts
    <3> QED  BY <3>2, <3>3, <3>4 DEF ExecutorInv, NodesCompleteOnce
  <2> QED  BY <2>2, <2>3, <2>4
<1>9. OutcomeKnown'  BY <1>2 DEF ExecutorInv, OutcomeKnown, OthersStay
<1> QED  BY <1>5, <1>7, <1>8, <1>9 DEF ExecutorInv

\* What the transaction held is gone, and the lease with it unless it was committed.
LEMMA UndoKeeps ==
    ASSUME ExecutorInv, NEW p \in Process, Undo(p), faults' \in 0..MaxFaults
    PROVE  ExecutorInv'
<1>1. /\ pc' \in [Process -> Place] /\ pc'[p] = "idle" /\ OthersStay(p)
      /\ node' \in [Process -> 1..(N + 1)] /\ call' \in [Process -> Call]
      /\ signal' \in [Process -> BOOLEAN]
      /\ tx' \in [Process -> Delta] /\ \A n \in Node : tx'[p].done[n] = 0
      /\ \A q \in Process \ {p} : tx'[q] = tx[q]
  BY LeavesKeeps DEF Undo, ExecutorInv
<1>2. lease' \in [holder : Process \cup {NoProcess}, durable : BOOLEAN]
  BY DEF Undo, NoLease, ExecutorInv, TypeOK
<1>3. TypeOK'  BY <1>1, <1>2 DEF Undo, ExecutorInv, TypeOK
<1>4. \A q \in Process \ {p} : lease.holder = q => lease'.holder = q  BY DEF Undo
<1>5. LeaseGuardsWork'
  BY <1>1, <1>4 DEF ExecutorInv, LeaseGuardsWork, OthersStay, Inside
<1>6. \A n \in Node : log.done[n] \in 0..2
  <2>1. log \in Stream  BY DEF ExecutorInv, TypeOK
  <2> QED  BY <2>1 DEF Stream
<1>7. \A n \in Node : log.done[n] + tx'[p].done[n] <= 1
  <2> SUFFICES ASSUME NEW n \in Node PROVE log.done[n] + tx'[p].done[n] <= 1  OBVIOUS
  <2>1. tx[p].done[n] \in 0..2
    <3>1. tx[p] \in Delta  BY DEF ExecutorInv, TypeOK
    <3> QED  BY <3>1 DEF Delta
  <2>2. log.done[n] + tx[p].done[n] <= 1  BY DEF ExecutorInv, NodesCompleteOnce
  <2> QED  BY <1>1, <1>6, <2>1, <2>2
<1>8. NodesCompleteOnce'
  BY <1>1, <1>7 DEF Undo, ExecutorInv, NodesCompleteOnce, OthersStay, InNode
<1>9. OutcomeKnown'  BY <1>1 DEF ExecutorInv, OutcomeKnown, OthersStay
<1> QED  BY <1>3, <1>5, <1>8, <1>9 DEF ExecutorInv

\* A session closed without a commit undoes its call.
LEMMA CloseKeeps == ASSUME ExecutorInv, NEW p \in Process, Close(p) PROVE ExecutorInv'
BY UndoKeeps DEF Close, ExecutorInv, TypeOK

\* A crash or a rollback undoes the call.
LEMMA FaultKeeps == ASSUME ExecutorInv, NEW p \in Process, Fault(p) PROVE ExecutorInv'
<1>1. faults' \in 0..MaxFaults
  BY ExecutorConstAssumption DEF Fault, ExecutorInv, TypeOK
<1> QED  BY <1>1, UndoKeeps DEF Fault

\* Aborts and answers touch no completion, no lease and no place.
LEMMA SignalsKeep ==
    ASSUME ExecutorInv, TypeOK', log'.done = log.done, UNCHANGED <<tx, exe, lease>>
    PROVE  ExecutorInv'
BY DEF ExecutorInv, LeaseGuardsWork, NodesCompleteOnce, OutcomeKnown, exe

\* An abort sets a signal.
LEMMA AbortKeeps == ASSUME ExecutorInv, NEW p \in Process, Abort(p) PROVE ExecutorInv'
<1>1. TypeOK'  BY DEF Abort, ExecutorInv, TypeOK, exe
<1> QED  BY <1>1, SignalsKeep DEF Abort

\* A durable abort stores a request and sets a signal.
LEMMA AbortDurablyKeeps ==
    ASSUME ExecutorInv, NEW p \in Process, AbortDurably(p) PROVE ExecutorInv'
<1> DEFINE new == [log EXCEPT !.logged = @ \cup {"abort_requested"}]
<1>1. log \in Stream  BY DEF ExecutorInv, TypeOK
<1>2. new \in Stream /\ new.done = log.done  BY <1>1 DEF Stream, RunEvent
<1>3. log' = new  BY DEF AbortDurably
<1> HIDE DEF new
<1>4. signal' \in [Process -> BOOLEAN]  BY DEF AbortDurably, ExecutorInv, TypeOK
<1>5. TypeOK'  BY <1>2, <1>3, <1>4 DEF AbortDurably, ExecutorInv, TypeOK, exe
<1> QED  BY <1>2, <1>3, <1>5, SignalsKeep DEF AbortDurably

\* A human answers an inbox item.
LEMMA DecideKeeps == ASSUME ExecutorInv, NEW h \in Hitl, Decide(h) PROVE ExecutorInv'
<1>1. TypeOK'  BY DEF Decide, ExecutorInv, TypeOK, exe
<1> QED  BY <1>1, SignalsKeep DEF Decide

\* Every step of the specification keeps the invariant.
LEMMA NextExecutorInv == ExecutorInv /\ [Next]_vars => ExecutorInv'
<1> SUFFICES ASSUME ExecutorInv, [Next]_vars PROVE ExecutorInv'  OBVIOUS
<1>1. CASE UNCHANGED vars
  BY <1>1 DEF vars, exe, ExecutorInv, TypeOK, LeaseGuardsWork, NodesCompleteOnce, OutcomeKnown
<1>2. ASSUME NEW p \in Process, FirstCall(p) \/ Resume(p) \/ Claim(p) \/ Fault(p)
      PROVE  ExecutorInv'
  BY <1>2, FirstCallKeeps, ResumeKeeps, ClaimKeeps, FaultKeeps
<1>3. ASSUME NEW p \in Process, Abort(p) \/ AbortDurably(p) PROVE ExecutorInv'
  BY <1>3, AbortKeeps, AbortDurablyKeeps
<1>4. ASSUME NEW p \in Process, Step(p) PROVE ExecutorInv'
  <2>1. CASE Denied(p) \/ LeaseLost(p) \/ FailsValidation(p) \/ StartRun(p)
    BY <2>1, DeniedKeeps, LeaseLostKeeps, FailsValidationKeeps, StartRunKeeps
  <2>2. CASE StopsAtLayer(p) \/ SkipsCompleted(p) \/ TakesDecision(p) \/ EntersNode(p)
    BY <2>2, StopsAtLayerKeeps, SkipsCompletedKeeps, TakesDecisionKeeps, EntersNodeKeeps
  <2>3. CASE Attempt(p) \/ Interrupt(p) \/ CommitsMidway(p) \/ Fire(p)
    BY <2>3, AttemptKeeps, InterruptKeeps, CommitsMidwayKeeps, FireKeeps
  <2>4. CASE Succeeds(p) \/ Fails(p) \/ NodeRaises(p)
    BY <2>4, SucceedsKeeps, FailsKeeps, NodeRaisesKeeps
  <2>5. CASE LastLayerDone(p) \/ Finalize(p) \/ Commit(p) \/ Close(p)
    BY <2>5, LastLayerDoneKeeps, FinalizeKeeps, CommitKeeps, CloseKeeps
  <2> QED  BY <1>4, <2>1, <2>2, <2>3, <2>4, <2>5 DEF Step
<1>5. ASSUME NEW h \in Hitl, Decide(h) PROVE ExecutorInv'
  BY <1>5, DecideKeeps
<1> QED  BY <1>1, <1>2, <1>3, <1>4, <1>5 DEF Next

-----------------------------------------------------------------------------
(* The theorems *)

(* In every reachable state whoever works on the run, or has completions of *)
(* its nodes still to commit, holds the run's lease, and no completion is   *)
(* stored a second time (execute, execute_node, executor.py).               *)
THEOREM ExecutorInvariant == Spec => []ExecutorInv
<1> QED  BY InitExecutorInv, NextExecutorInv, PTL DEF Spec

(* No node of the run ever completes twice, so no run becomes one that      *)
(* validate_resume_state refuses (execute_node, executor.py).               *)
THEOREM NodesCompleteAtMostOnce == Spec => []CompletedOnce
<1>1. ExecutorInv => CompletedOnce
  <2> SUFFICES ASSUME ExecutorInv, NEW n \in Node PROVE log.done[n] <= 1
    BY DEF CompletedOnce
  <2>1. PICK p \in Process : TRUE  BY ExecutorConstAssumption
  <2>2. log \in Stream /\ tx[p] \in Delta  BY DEF ExecutorInv, TypeOK
  <2>3. log.done[n] \in 0..2 /\ tx[p].done[n] \in 0..2  BY <2>2 DEF Stream, Delta
  <2>4. log.done[n] + tx[p].done[n] <= 1  BY DEF ExecutorInv, NodesCompleteOnce
  <2> QED  BY <2>3, <2>4
<1> QED  BY <1>1, ExecutorInvariant, PTL

(* A node that has completed is never dispatched again, whichever process   *)
(* the run is resumed in (execute_node, executor.py).                       *)
THEOREM CompletedNodesStayDone == Spec => CompletedNeverRefires
<1>1. ExecutorInv /\ [Next]_vars =>
         [\A p \in Process : Fire(p) => log.done[node[p]] = 0]_vars
  <2> SUFFICES ASSUME ExecutorInv, NEW p \in Process, Fire(p) PROVE log.done[node[p]] = 0
    OBVIOUS
  <2>1. pc[p] \in InNode  BY DEF Fire, InNode
  <2> QED  BY <2>1, InNodeFacts
<1> QED  BY <1>1, ExecutorInvariant, PTL DEF Spec, CompletedNeverRefires
=============================================================================
