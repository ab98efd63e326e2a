-------------------- MODULE UnifiedExecutorOutcomeProofs --------------------
(***************************************************************************)
(* What a run's outcome says of its nodes, for any number of nodes,        *)
(* processes, faults and retries: OutcomeInv, on top of ExecutorInv, is    *)
(* inductive, and CompletedMeansAll, GateHolds and ReportedIsReplayed      *)
(* follow from it.                                                         *)
(***************************************************************************)
EXTENDS UnifiedExecutorProofs

Working == {"layer", "node", "dispatch", "called"}
Ended == log.logged \cap Terminal # {}

\* What process q, or a reader of its commit, takes node n to be done by.
Covered(q, n) == log.done[n] + tx[q].done[n] > 0 \/ (n \in Hitl /\ inbox[n] = "approved")

\* A strategy that saw no failure has left only covered nodes behind.
PrefixCovered(q) ==
    /\ pc[q] \in {"idle", "claim", "leased"} => node[q] = 1
    /\ pc[q] \in Working /\ ~call[q].anyFailed =>
          \A n \in Node : n < node[q] => Covered(q, n)

OutcomeCovered(q) ==
    (pc[q] = "finalize" /\ call[q].result = "completed") \/ tx[q].status = "completed" =>
        \A n \in Node : Covered(q, n)

\* No event completes a gate, and no key is that of a bare effect.
GatesUnlogged(q) ==
    /\ \A h \in Hitl : tx[q].done[h] = 0
    /\ pc[q] = "called" => node[q] \notin Hitl
    /\ \A k \in tx[q].effects : k.payload = "wrapped"

\* What a transaction adds, the lease guards, and in the order of the events.
EventsGuarded(q) ==
    /\ tx[q].status # "same" \/ tx[q].logged # {} \/ tx[q].items # {} =>
          lease.holder = q /\ pc[q] \in Inside \cup {"returned"}
    /\ pc[q] \in Inside =>
          /\ tx[q].logged \subseteq {"started"} /\ tx[q].items = {}
          /\ tx[q].status \in {"same", "executing"}
    /\ pc[q] \in Inside \ {"leased"} => "started" \in log.logged \cup tx[q].logged
    /\ tx[q].status # "pending"
    /\ tx[q].status = "executing" => "started" \in tx[q].logged \ log.logged
    /\ tx[q].status \in Terminal => tx[q].logged \cap Terminal # {}
    /\ tx[q].items # {} =>
          tx[q].status = "paused" /\ "started" \in log.logged \cup tx[q].logged

StatusSeen(q) == IF tx[q].status = "same" THEN log.status ELSE tx[q].status

Reports(q) ==
    pc[q] = "returned" /\ call[q].commits /\ call[q].result # "already_running" /\ ~Ended =>
        lease.holder = q /\ StatusSeen(q) = call[q].result

CallInv(q) ==
    /\ PrefixCovered(q) /\ OutcomeCovered(q) /\ GatesUnlogged(q)
    /\ EventsGuarded(q) /\ Reports(q)

\* The committed stream: an inbox item belongs to a run that started, and a
\* pending one to a run that is paused, unless the run has ended.
StreamInv ==
    /\ CompletedMeansAll
    /\ \A h \in Hitl : log.done[h] = 0
    /\ \A k \in log.effects : k.payload = "wrapped"
    /\ log.status \in Terminal => Ended
    /\ \A h \in Hitl : inbox[h] # "none" => "started" \in log.logged
    /\ \A h \in Hitl : inbox[h] = "pending" /\ ~Ended => log.status = "paused"

OutcomeInv == StreamInv /\ \A q \in Process : CallInv(q)

-----------------------------------------------------------------------------
(* What a step leaves of the others' calls, and what its parts do *)

\* Nobody else's call notices a step that takes nothing back from who holds the
\* lease.
LEMMA OthersUnaffected ==
    ASSUME ExecutorInv, NEW q \in Process, CallInv(q),
           tx'[q] = tx[q], pc'[q] = pc[q], node'[q] = node[q], call'[q] = call[q],
           lease.holder = q /\ pc[q] # "idle" => lease'.holder = q,
           \A n \in Node : log'.done[n] \in Nat /\ log'.done[n] >= log.done[n],
           log.logged \subseteq log'.logged,
           lease.holder = q /\ pc[q] # "idle" =>
               /\ log'.status = log.status
               /\ "started" \in log'.logged => "started" \in log.logged
               /\ \A h \in Hitl : inbox[h] = "approved" => inbox'[h] = "approved"
    PROVE  CallInv(q)'
<1>1. log \in Stream /\ tx[q] \in Delta  BY DEF ExecutorInv, TypeOK
<1>2. \A n \in Node : log.done[n] \in 0..2 /\ tx[q].done[n] \in 0..2
  BY <1>1 DEF Stream, Delta
<1>3. lease.holder = q /\ pc[q] # "idle" => \A n \in Node : Covered(q, n) => Covered(q, n)'
  BY <1>2 DEF Covered
<1>4. pc[q] \in Working \cup {"finalize"} => lease.holder = q /\ pc[q] # "idle"
  BY DEF ExecutorInv, LeaseGuardsWork, Inside, Working
<1>5. tx[q].status # "same" => lease.holder = q /\ pc[q] # "idle"
  BY DEF CallInv, EventsGuarded, Inside
<1>6. PrefixCovered(q)'
  BY <1>3, <1>4 DEF CallInv, PrefixCovered
<1>7. OutcomeCovered(q)'
  BY <1>3, <1>4, <1>5 DEF CallInv, OutcomeCovered
<1>8. GatesUnlogged(q)'
  BY DEF CallInv, GatesUnlogged
<1>9. EventsGuarded(q)'
  <2>1. tx[q].status = "executing" => "started" \notin log'.logged
    BY <1>5 DEF CallInv, EventsGuarded
  <2> QED  BY <2>1 DEF CallInv, EventsGuarded, Inside
<1>10. Reports(q)'
  BY DEF CallInv, Reports, StatusSeen, Ended
<1> QED  BY <1>6, <1>7, <1>8, <1>9, <1>10 DEF CallInv

\* A step of p within its call: nothing is committed, no lease changes hands.
Within(p) ==
    /\ log' = log /\ inbox' = inbox /\ lease'.holder = lease.holder
    /\ OthersStay(p) /\ \A q \in Process \ {p} : tx'[q] = tx[q]

\* A step within a call need only keep what the invariant says of that call.
LEMMA WithinKeeps ==
    ASSUME ExecutorInv, OutcomeInv, NEW p \in Process, Within(p), CallInv(p)'
    PROVE  OutcomeInv'
<1>1. log \in Stream  BY DEF ExecutorInv, TypeOK
<1>2. \A n \in Node : log.done[n] \in 0..2  BY <1>1 DEF Stream
<1>3. \A q \in Process \ {p} : CallInv(q)'
  <2> SUFFICES ASSUME NEW q \in Process \ {p} PROVE CallInv(q)'  OBVIOUS
  <2>1. CallInv(q)  BY DEF OutcomeInv
  <2> QED  BY <1>2, <2>1, OthersUnaffected DEF Within, OthersStay
<1>4. StreamInv'
  BY DEF OutcomeInv, StreamInv, CompletedMeansAll, Within, Ended
<1> QED  BY <1>3, <1>4 DEF OutcomeInv

\* What the append of an event of the run adds.
LEMMA LogsAdds ==
    ASSUME TypeOK, NEW p \in Process, NEW e, NEW s, Logs(p, e, s)
    PROVE  /\ \A q \in Process \ {p} : tx'[q] = tx[q]
           /\ tx'[p].done = tx[p].done /\ tx'[p].effects = tx[p].effects
           /\ tx'[p].items = tx[p].items
           /\ \/ /\ tx'[p].status = s /\ tx'[p].logged = tx[p].logged \cup {e}
                 /\ e \notin log.logged \cup tx[p].logged \/ e \in {"failed", "aborted"}
              \/ /\ tx'[p] = tx[p] /\ e \in log.logged \cup tx[p].logged
<1> DEFINE new == [status |-> s, logged |-> tx[p].logged \cup {e}, done |-> tx[p].done,
                   effects |-> tx[p].effects, items |-> tx[p].items]
<1>1. View(p).logged = log.logged \cup tx[p].logged  BY DEF View
<1>2. CASE UNCHANGED tx /\ e \in View(p).logged
  BY <1>1, <1>2
<1>3. CASE tx' = [tx EXCEPT ![p] = new] /\ (e \notin View(p).logged \/ e \in {"failed", "aborted"})
  <2>1. tx'[p] = new /\ \A q \in Process \ {p} : tx'[q] = tx[q]  BY <1>3 DEF TypeOK
  <2> QED  BY <1>1, <1>3, <2>1
<1> QED  BY <1>2, <1>3 DEF Logs

\* What the move to the next layer remembers of the node left behind.
LEMMA NextLayerMoves ==
    ASSUME TypeOK, NEW p \in Process, NEW ok \in BOOLEAN, NextLayer(p, ok)
    PROVE  /\ pc'[p] = "layer" /\ node'[p] = node[p] + 1 /\ OthersStay(p)
           /\ call'[p].anyFailed = (call[p].anyFailed \/ ~ok)
<1> DEFINE new == [attempt |-> 0, anyFailed |-> call[p].anyFailed \/ ~ok,
                   result |-> call[p].result, commits |-> call[p].commits]
<1>1. call' = [call EXCEPT ![p] = new]  BY DEF NextLayer
<1>2. new.anyFailed = (call[p].anyFailed \/ ~ok)  OBVIOUS
<1> HIDE DEF new
<1>3. call'[p] = new  BY <1>1 DEF TypeOK
<1>4. pc'[p] = "layer" /\ node'[p] = node[p] + 1  BY DEF NextLayer, TypeOK
<1>5. OthersStay(p)  BY <1>1 DEF NextLayer, TypeOK, OthersStay
<1> QED  BY <1>2, <1>3, <1>4, <1>5

\* What p's transaction adds but for completions and keys is as it was.
SameEvents(p) ==
    /\ tx'[p].status = tx[p].status /\ tx'[p].logged = tx[p].logged
    /\ tx'[p].items = tx[p].items

\* Steps within the strategy keep what the invariant says of events.
LEMMA EventsStay ==
    ASSUME ExecutorInv, OutcomeInv, NEW p \in Process, Within(p), SameEvents(p),
           pc[p] \in Working, pc'[p] \in Working
    PROVE  EventsGuarded(p)' /\ Reports(p)' /\ OutcomeCovered(p)'
<1>1. EventsGuarded(p)  BY DEF OutcomeInv, CallInv
<1>2. lease.holder = p  BY DEF ExecutorInv, LeaseGuardsWork, Inside, Working
<1>3. EventsGuarded(p)'
  BY <1>1, <1>2 DEF EventsGuarded, Within, SameEvents, Working, Inside
<1>4. Reports(p)'  BY DEF Reports, Working
<1>5. OutcomeCovered(p)'
  BY <1>1 DEF EventsGuarded, OutcomeCovered, SameEvents, Working, Inside
<1> QED  BY <1>3, <1>4, <1>5

\* A node that was done or approved, or has failed, may be left behind.
LEMMA NextLayerCovers ==
    ASSUME ExecutorInv, OutcomeInv, NEW p \in Process, NEW ok \in BOOLEAN, NextLayer(p, ok),
           Within(p), SameEvents(p), pc[p] \in Working, NEW m \in Node, m = node[p],
           \A n \in Node : Covered(p, n) => Covered(p, n)',
           ok => Covered(p, m)',
           \A h \in Hitl : tx'[p].done[h] = 0,
           \A k \in tx'[p].effects : k.payload = "wrapped"
    PROVE  OutcomeInv'
<1>1. /\ pc'[p] = "layer" /\ node'[p] = node[p] + 1 /\ OthersStay(p)
      /\ call'[p].anyFailed = (call[p].anyFailed \/ ~ok)
  BY NextLayerMoves DEF ExecutorInv
<1>2. EventsGuarded(p)' /\ Reports(p)' /\ OutcomeCovered(p)'
  BY <1>1, EventsStay DEF Working
<1>3. PrefixCovered(p)'
  <2> SUFFICES ASSUME ~call'[p].anyFailed, NEW n \in Node, n < node'[p]
               PROVE  Covered(p, n)'
    BY <1>1 DEF PrefixCovered
  <2>1. ok /\ ~call[p].anyFailed  BY <1>1
  <2>2. n < node[p] \/ n = m  BY <1>1 DEF Node
  <2>3. n < node[p] => Covered(p, n)  BY <2>1 DEF OutcomeInv, CallInv, PrefixCovered
  <2> QED  BY <2>1, <2>2, <2>3
<1>4. GatesUnlogged(p)'  BY <1>1 DEF GatesUnlogged
<1> QED  BY <1>2, <1>3, <1>4, WithinKeeps DEF CallInv

\* A place within the same node: at most a key is staged.
LEMMA StaysInNode ==
    ASSUME ExecutorInv, OutcomeInv, NEW p \in Process, Within(p), SameEvents(p),
           pc[p] \in Working, pc'[p] \in Working, node'[p] = node[p],
           call'[p].anyFailed = call[p].anyFailed,
           pc'[p] = "called" => node[p] \notin Hitl,
           tx'[p].done = tx[p].done,
           \A k \in tx'[p].effects : k.payload = "wrapped"
    PROVE  OutcomeInv'
<1>1. EventsGuarded(p)' /\ Reports(p)' /\ OutcomeCovered(p)'  BY EventsStay
<1>2. PrefixCovered(p)'
  BY DEF OutcomeInv, CallInv, PrefixCovered, Covered, Within, Working
<1>3. GatesUnlogged(p)'
  BY DEF OutcomeInv, CallInv, GatesUnlogged
<1> QED  BY <1>1, <1>2, <1>3, WithinKeeps DEF CallInv

-----------------------------------------------------------------------------
(* One lemma per action, or per group of actions that do the same to what the *)
(* invariant speaks of.                                                       *)

\* A run nobody has called.
LEMMA InitOutcomeInv == Init => OutcomeInv
<1> SUFFICES ASSUME Init PROVE OutcomeInv  OBVIOUS
<1>1. StreamInv  BY ExecutorConstAssumption DEF Init, StreamInv, CompletedMeansAll, Terminal
<1>2. ASSUME NEW q \in Process PROVE CallInv(q)
  <2>1. tx[q] = NoDelta /\ pc[q] = "idle" /\ node[q] = 1  BY DEF Init
  <2> QED
    BY <2>1, ExecutorConstAssumption DEF NoDelta, CallInv, PrefixCovered, OutcomeCovered,
       GatesUnlogged, EventsGuarded, Reports, Working, Inside, Terminal
<1> QED  BY <1>1, <1>2 DEF OutcomeInv

\* A call begins: at the claim of the lease, or returned with an outcome of a run
\* that has ended.
LEMMA BeginsKeeps ==
    ASSUME ExecutorInv, OutcomeInv, NEW p \in Process, pc[p] = "idle", Within(p),
           UNCHANGED <<tx, node>>, pc'[p] \in {"claim", "returned"},
           pc'[p] = "returned" => Ended
    PROVE  OutcomeInv'
<1>1. CallInv(p)  BY DEF OutcomeInv
<1>2. tx[p].status = "same" /\ tx[p].logged = {} /\ tx[p].items = {}
  BY <1>1 DEF CallInv, EventsGuarded, Inside
<1>3. PrefixCovered(p)'  BY <1>1 DEF CallInv, PrefixCovered, Working
<1>4. OutcomeCovered(p)'  BY <1>2 DEF OutcomeCovered
<1>5. GatesUnlogged(p)'  BY <1>1 DEF CallInv, GatesUnlogged
<1>6. EventsGuarded(p)'  BY <1>2 DEF EventsGuarded, Inside, Terminal
<1>7. Reports(p)'  BY DEF Reports, Ended, Within
<1> QED  BY <1>3, <1>4, <1>5, <1>6, <1>7, WithinKeeps DEF CallInv

\* A first call only goes to the claim of the lease.
LEMMA FirstCallCovers ==
    ASSUME ExecutorInv, OutcomeInv, NEW p \in Process, FirstCall(p) PROVE OutcomeInv'
<1>1. pc'[p] = "claim" /\ OthersStay(p)  BY DEF FirstCall, ExecutorInv, TypeOK, OthersStay
<1> QED  BY <1>1, BeginsKeeps DEF FirstCall, Within

\* No run is unresumable: no node completes twice.
LEMMA ResumeCovers ==
    ASSUME ExecutorInv, OutcomeInv, NEW p \in Process, Resume(p) PROVE OutcomeInv'
<1>1. ~Unresumable
  <2> SUFFICES ASSUME NEW n \in Node PROVE ~(log.done[n] > 1)  BY DEF Unresumable
  <2>1. log \in Stream /\ tx[p] \in Delta  BY DEF ExecutorInv, TypeOK
  <2>2. log.done[n] \in 0..2 /\ tx[p].done[n] \in 0..2  BY <2>1 DEF Stream, Delta
  <2> QED  BY <2>2 DEF ExecutorInv, NodesCompleteOnce
<1>2. PICK at \in {"claim", "returned"}, r \in Terminal \cup {"none"}, commits \in BOOLEAN :
        /\ pc' = [pc EXCEPT ![p] = at]
        /\ call' = [call EXCEPT ![p] = CallWith(r, commits)]
        /\ at = "returned" => log.status \in Terminal
        /\ UNCHANGED tx
  BY <1>1 DEF Resume
<1>3. pc'[p] = at /\ OthersStay(p)
  BY <1>2 DEF Resume, ExecutorInv, TypeOK, OthersStay
<1>4. at = "returned" => Ended  BY <1>2 DEF OutcomeInv, StreamInv
<1> QED  BY <1>2, <1>3, <1>4, BeginsKeeps DEF Resume, Within

\* A claim takes the lease from nobody who has something to commit.
LEMMA ClaimCovers ==
    ASSUME ExecutorInv, OutcomeInv, NEW p \in Process, Claim(p) PROVE OutcomeInv'
<1>1. pc'[p] = "leased" /\ OthersStay(p) /\ UNCHANGED <<node, call>>
  BY GoesToKeeps DEF Claim, Place, ExecutorInv
<1>2. lease'.holder = p  BY DEF Claim
<1>3. log \in Stream  BY DEF ExecutorInv, TypeOK
<1>4. \A n \in Node : log.done[n] \in 0..2  BY <1>3 DEF Stream
<1>5. \A q \in Process \ {p} : CallInv(q)'
  <2> SUFFICES ASSUME NEW q \in Process \ {p} PROVE CallInv(q)'  OBVIOUS
  <2>1. CallInv(q)  BY DEF OutcomeInv
  <2>2. ~(lease.holder = q /\ pc[q] # "idle")  BY DEF Claim
  <2> QED  BY <1>1, <1>4, <2>1, <2>2, OthersUnaffected DEF Claim, OthersStay
<1>6. CallInv(p)'
  <2>1. CallInv(p) /\ pc[p] = "claim"  BY DEF OutcomeInv, Claim
  <2>2. tx[p].status = "same" /\ tx[p].logged = {} /\ tx[p].items = {}
    BY <2>1 DEF CallInv, EventsGuarded, Inside
  <2>3. PrefixCovered(p)'  BY <1>1, <2>1 DEF CallInv, PrefixCovered, Working
  <2>4. OutcomeCovered(p)'  BY <1>1, <2>2 DEF OutcomeCovered, Claim
  <2>5. GatesUnlogged(p)'  BY <1>1, <2>1 DEF CallInv, GatesUnlogged, Claim
  <2>6. EventsGuarded(p)'  BY <1>1, <2>2 DEF EventsGuarded, Inside, Terminal, Claim
  <2>7. Reports(p)'  BY <1>1 DEF Reports
  <2> QED  BY <2>3, <2>4, <2>5, <2>6, <2>7 DEF CallInv
<1>7. StreamInv'
  BY DEF OutcomeInv, StreamInv, CompletedMeansAll, Claim, Ended
<1> QED  BY <1>5, <1>6, <1>7 DEF OutcomeInv

\* The call returns, or goes to its terminal event, with nothing new to commit.
LEMMA EndsCover ==
    ASSUME ExecutorInv, OutcomeInv, NEW p \in Process, NEW at \in {"returned", "finalize"},
           NEW s \in Terminal \cup {"none", "paused", "already_running"},
           EndsWith(p, at, s), UNCHANGED <<log, tx, inbox, lease>>,
           at = "finalize" => pc[p] = "layer",
           at = "finalize" /\ s = "completed" => \A n \in Node : Covered(p, n),
           at = "returned" => \/ s = "already_running" /\ pc[p] = "claim"
                              \/ Ended
                              \/ lease.holder = p /\ StatusSeen(p) = s
    PROVE  OutcomeInv'
<1>1. pc'[p] = at /\ OthersStay(p) /\ call'[p].result = s /\ UNCHANGED node
  BY EndsWithKeeps DEF ExecutorInv, Place
<1>2. CallInv(p)  BY DEF OutcomeInv
<1>3. Within(p)  BY <1>1 DEF Within
<1>4. PrefixCovered(p)'  BY <1>1 DEF PrefixCovered, Working
<1>5. OutcomeCovered(p)'
  BY <1>1, <1>2 DEF CallInv, OutcomeCovered, Covered
<1>6. GatesUnlogged(p)'  BY <1>1, <1>2 DEF CallInv, GatesUnlogged
<1>7. EventsGuarded(p)'  BY <1>1, <1>2 DEF CallInv, EventsGuarded, Inside
<1>8. Reports(p)'  BY <1>1 DEF Reports, StatusSeen, Ended
<1> QED  BY <1>3, <1>4, <1>5, <1>6, <1>7, <1>8, WithinKeeps DEF CallInv

\* A denied call returns with nothing to commit.
LEMMA DeniedCovers ==
    ASSUME ExecutorInv, OutcomeInv, NEW p \in Process, Denied(p) PROVE OutcomeInv'
BY EndsCover DEF Denied, Returns

\* A call stores its terminal event and returns what it stored, unless the run had
\* ended before.
LEMMA TerminalCovers ==
    ASSUME ExecutorInv, OutcomeInv, NEW p \in Process, NEW s \in Terminal, Logs(p, s, s),
           pc[p] \in Inside, pc'[p] = "returned", call'[p].result = s, OthersStay(p),
           s = "completed" => \A n \in Node : Covered(p, n),
           UNCHANGED <<log, inbox, lease>>
    PROVE  OutcomeInv'
<1>1. /\ \A q \in Process \ {p} : tx'[q] = tx[q]
      /\ tx'[p].done = tx[p].done /\ tx'[p].effects = tx[p].effects
      /\ tx'[p].items = tx[p].items
      /\ \/ tx'[p].status = s /\ tx'[p].logged = tx[p].logged \cup {s}
         \/ tx'[p] = tx[p] /\ s \in log.logged \cup tx[p].logged
  BY LogsAdds DEF ExecutorInv
<1>2. CallInv(p) /\ lease.holder = p
  BY DEF OutcomeInv, ExecutorInv, LeaseGuardsWork
<1>3. /\ tx[p].logged \subseteq {"started"} /\ tx[p].items = {}
      /\ tx[p].status \in {"same", "executing"}
  BY <1>2 DEF CallInv, EventsGuarded
<1>4. s \notin {"started", "same", "executing", "pending", "paused"}  BY DEF Terminal
<1>5. PrefixCovered(p)'  BY DEF PrefixCovered, Working
<1>6. OutcomeCovered(p)'
  BY <1>1, <1>3 DEF OutcomeCovered, Covered
<1>7. GatesUnlogged(p)'  BY <1>1, <1>2 DEF CallInv, GatesUnlogged
<1>8. EventsGuarded(p)'
  BY <1>1, <1>2, <1>3, <1>4 DEF CallInv, EventsGuarded, Inside
<1>9. Reports(p)'
  <2>1. CASE tx'[p].status = s
    BY <1>2, <1>4, <2>1 DEF Reports, StatusSeen
  <2>2. CASE s \in log.logged \cup tx[p].logged
    BY <1>3, <1>4, <2>2 DEF Reports, Ended
  <2> QED  BY <1>1, <2>1, <2>2
<1>10. Within(p)  BY <1>1 DEF Within
<1> QED  BY <1>5, <1>6, <1>7, <1>8, <1>9, <1>10, WithinKeeps DEF CallInv

\* A call whose lease was lost stores the abort and reports it.
LEMMA LeaseLostCovers ==
    ASSUME ExecutorInv, OutcomeInv, NEW p \in Process, LeaseLost(p) PROVE OutcomeInv'
<1>1. pc'[p] = "returned" /\ OthersStay(p) /\ call'[p].result = "aborted"
  BY EndsWithKeeps DEF LeaseLost, Returns, ExecutorInv, Place, Terminal
<1> QED  BY <1>1, TerminalCovers DEF LeaseLost, Inside, Terminal

\* A workflow without nodes stores a failure and reports it.
LEMMA FailsValidationCovers ==
    ASSUME ExecutorInv, OutcomeInv, NEW p \in Process, FailsValidation(p) PROVE OutcomeInv'
<1>1. pc'[p] = "returned" /\ OthersStay(p) /\ call'[p].result = "failed"
  BY EndsWithKeeps DEF FailsValidation, Returns, ExecutorInv, Place, Terminal
<1> QED  BY <1>1, TerminalCovers DEF FailsValidation, Inside, Terminal

\* The terminal event is that of the outcome.
LEMMA FinalizeCovers ==
    ASSUME ExecutorInv, OutcomeInv, NEW p \in Process, Finalize(p) PROVE OutcomeInv'
<1>1. call[p].result \in Terminal  BY DEF Finalize, ExecutorInv, OutcomeKnown
<1>2. pc'[p] = "returned" /\ OthersStay(p) /\ UNCHANGED <<node, call>>
  BY GoesToKeeps DEF Finalize, Place, ExecutorInv
<1>3. call[p].result = "completed" => \A n \in Node : Covered(p, n)
  BY DEF OutcomeInv, CallInv, OutcomeCovered, Finalize
<1> QED  BY <1>1, <1>2, <1>3, TerminalCovers DEF Finalize, Inside

\* The start is stored once per run.
LEMMA StartRunCovers ==
    ASSUME ExecutorInv, OutcomeInv, NEW p \in Process, StartRun(p) PROVE OutcomeInv'
<1>1. /\ \A q \in Process \ {p} : tx'[q] = tx[q]
      /\ tx'[p].done = tx[p].done /\ tx'[p].effects = tx[p].effects
      /\ tx'[p].items = tx[p].items
      /\ \/ /\ tx'[p].status = "executing" /\ tx'[p].logged = tx[p].logged \cup {"started"}
            /\ "started" \notin log.logged \cup tx[p].logged
         \/ tx'[p] = tx[p] /\ "started" \in log.logged \cup tx[p].logged
  BY LogsAdds DEF StartRun, ExecutorInv
<1>2. pc'[p] = "layer" /\ OthersStay(p) /\ UNCHANGED <<node, call>>
  BY GoesToKeeps DEF StartRun, Place, ExecutorInv
<1>3. CallInv(p) /\ lease.holder = p /\ pc[p] = "leased"
  BY DEF OutcomeInv, ExecutorInv, LeaseGuardsWork, Inside, StartRun
<1>4. PrefixCovered(p)'
  BY <1>2, <1>3 DEF CallInv, PrefixCovered, Node
<1>5. OutcomeCovered(p)'
  BY <1>1, <1>2, <1>3 DEF CallInv, OutcomeCovered, EventsGuarded, Inside
<1>6. GatesUnlogged(p)'  BY <1>1, <1>2, <1>3 DEF CallInv, GatesUnlogged
<1>7. EventsGuarded(p)'
  BY <1>1, <1>2, <1>3 DEF CallInv, EventsGuarded, Inside, StartRun, Terminal
<1>8. Reports(p)'  BY <1>2 DEF Reports
<1>9. Within(p)  BY <1>1, <1>2 DEF Within, StartRun
<1> QED  BY <1>4, <1>5, <1>6, <1>7, <1>8, <1>9, WithinKeeps DEF CallInv

\* An abort between layers ends the strategy.
LEMMA StopsAtLayerCovers ==
    ASSUME ExecutorInv, OutcomeInv, NEW p \in Process, StopsAtLayer(p) PROVE OutcomeInv'
BY EndsCover DEF StopsAtLayer, AtLayer, Terminal

\* Behind the last layer all nodes lie behind.
LEMMA LastLayerDoneCovers ==
    ASSUME ExecutorInv, OutcomeInv, NEW p \in Process, LastLayerDone(p) PROVE OutcomeInv'
<1> DEFINE s == IF call[p].anyFailed THEN "failed" ELSE "completed"
<1>1. s = "completed" => \A n \in Node : Covered(p, n)
  <2>1. node[p] > N /\ node[p] \in 1..(N + 1)
    BY DEF LastLayerDone, ExecutorInv, TypeOK
  <2>2. \A n \in Node : n < node[p]  BY <2>1, ExecutorConstAssumption DEF Node
  <2> QED  BY <2>2 DEF OutcomeInv, CallInv, PrefixCovered, LastLayerDone, Working
<1> QED  BY <1>1, EndsCover DEF LastLayerDone, Terminal

\* Who is at a layer or in a node is at one of the workflow's nodes.
LEMMA WorkingFacts ==
    ASSUME ExecutorInv, OutcomeInv, NEW p \in Process, pc[p] \in InNode \/ AtLayer(p)
    PROVE  /\ pc[p] \in Working /\ node[p] \in Node /\ lease.holder = p /\ node[p] <= N
           /\ CallInv(p)
           /\ \A h \in Hitl : tx[p].done[h] = 0
           /\ \A k \in tx[p].effects : k.payload = "wrapped"
<1>1. CallInv(p)  BY DEF OutcomeInv
<1>2. pc[p] \in Working /\ node[p] <= N /\ node[p] \in Node
  BY InNodeFacts DEF AtLayer, ExecutorInv, TypeOK, Node, Working, InNode
<1>3. lease.holder = p  BY <1>2 DEF ExecutorInv, LeaseGuardsWork, Inside, Working
<1> QED  BY <1>1, <1>2, <1>3 DEF CallInv, GatesUnlogged

\* The node is left behind, and the transaction is as it was.
LEMMA PassesBy ==
    ASSUME ExecutorInv, OutcomeInv, NEW p \in Process, NEW ok \in BOOLEAN, NextLayer(p, ok),
           pc[p] \in InNode \/ AtLayer(p), UNCHANGED <<log, tx, inbox, lease>>,
           ok => Covered(p, node[p])
    PROVE  OutcomeInv'
<1>1. PICK m \in Node : m = node[p]  BY WorkingFacts
<1>2. OthersStay(p)  BY NextLayerMoves DEF ExecutorInv
<1>3. Within(p) /\ SameEvents(p)  BY <1>2 DEF Within, SameEvents
<1>4. \A n \in Node : Covered(p, n) => Covered(p, n)'  BY DEF Covered
<1>5. ok => Covered(p, m)'  BY <1>1, <1>4
<1>6. /\ \A h \in Hitl : tx'[p].done[h] = 0
      /\ \A k \in tx'[p].effects : k.payload = "wrapped"
  BY WorkingFacts
<1> QED  BY <1>1, <1>3, <1>4, <1>5, <1>6, WorkingFacts, NextLayerCovers

\* A completed node is covered.
LEMMA SkipsCompletedCovers ==
    ASSUME ExecutorInv, OutcomeInv, NEW p \in Process, SkipsCompleted(p) PROVE OutcomeInv'
<1>1. Covered(p, node[p])
  BY WorkingFacts, ViewIsSum DEF SkipsCompleted, Covered
<1> QED  BY <1>1, PassesBy DEF SkipsCompleted

\* An approved gate is covered, a rejected one counts as a failure.
LEMMA TakesDecisionCovers ==
    ASSUME ExecutorInv, OutcomeInv, NEW p \in Process, TakesDecision(p) PROVE OutcomeInv'
<1> DEFINE ok == inbox[node[p]] = "approved"
<1>1. ok \in BOOLEAN  OBVIOUS
<1>2. ok => Covered(p, node[p])  BY DEF TakesDecision, Decided, Covered
<1>3. NextLayer(p, ok) /\ AtLayer(p) /\ UNCHANGED <<log, tx, inbox, lease>>
  BY DEF TakesDecision
<1> HIDE DEF ok
<1> QED  BY <1>1, <1>2, <1>3, PassesBy

\* An error outside the handler counts as a failure.
LEMMA NodeRaisesCovers ==
    ASSUME ExecutorInv, OutcomeInv, NEW p \in Process, NodeRaises(p) PROVE OutcomeInv'
BY PassesBy DEF NodeRaises, InNode

\* A node is entered with everything before it covered.
LEMMA EntersNodeCovers ==
    ASSUME ExecutorInv, OutcomeInv, NEW p \in Process, EntersNode(p) PROVE OutcomeInv'
<1>1. pc'[p] = "node" /\ OthersStay(p) /\ UNCHANGED <<node, call>>
  BY GoesToKeeps DEF EntersNode, Place, ExecutorInv
<1>2. Within(p) /\ SameEvents(p)  BY <1>1 DEF Within, SameEvents, EntersNode
<1> QED  BY <1>1, <1>2, WorkingFacts, StaysInNode DEF EntersNode, Working

\* No confirmation and no intent is found: their keys are never stored.
LEMMA AttemptCovers ==
    ASSUME ExecutorInv, OutcomeInv, NEW p \in Process, Attempt(p) PROVE OutcomeInv'
<1>1. pc[p] \in InNode  BY DEF Attempt, InNode
<1>2. ~Finds(p, "confirmed", node[p])
  BY <1>1, WorkingFacts DEF Finds, View, OutcomeInv, StreamInv
<1>3. CASE NextLayer(p, FALSE) /\ UNCHANGED tx
  BY <1>1, <1>3, PassesBy DEF Attempt
<1>4. CASE GoesTo(p, "dispatch") /\ (UNCHANGED tx \/ Stages(p, "intent", node[p]))
  <2>1. pc'[p] = "dispatch" /\ OthersStay(p) /\ UNCHANGED <<node, call>>
    BY <1>4, GoesToKeeps DEF Place, ExecutorInv
  <2>2. CASE UNCHANGED tx
    <3>1. Within(p) /\ SameEvents(p)  BY <2>1, <2>2 DEF Within, SameEvents, Attempt
    <3> QED  BY <1>1, <2>1, <2>2, <3>1, WorkingFacts, StaysInNode DEF Working
  <2>3. CASE Stages(p, "intent", node[p])
    <3> DEFINE intent == [type |-> "intent", node |-> node[p], payload |-> "wrapped"]
               new == [tx[p] EXCEPT !.effects = @ \cup {intent}]
    <3>1. tx[p] \in Delta  BY DEF ExecutorInv, TypeOK
    <3>2. tx' = [tx EXCEPT ![p] = new]  BY <2>3 DEF Stages
    <3>3. intent.payload = "wrapped"  OBVIOUS
    <3> HIDE DEF intent
    <3>4. /\ new.status = tx[p].status /\ new.logged = tx[p].logged
          /\ new.items = tx[p].items /\ new.done = tx[p].done
          /\ new.effects = tx[p].effects \cup {intent}
      BY <3>1 DEF Delta
    <3> HIDE DEF new
    <3>5. tx'[p] = new /\ \A q \in Process \ {p} : tx'[q] = tx[q]
      BY <3>2 DEF ExecutorInv, TypeOK
    <3>6. Within(p) /\ SameEvents(p)  BY <2>1, <3>4, <3>5 DEF Within, SameEvents, Attempt
    <3>7. \A k \in tx'[p].effects : k.payload = "wrapped"
      BY <1>1, <3>3, <3>4, <3>5, WorkingFacts
    <3> QED  BY <1>1, <2>1, <3>4, <3>5, <3>6, <3>7, WorkingFacts, StaysInNode DEF Working
  <2> QED  BY <1>4, <2>2, <2>3
<1> QED  BY <1>2, <1>3, <1>4 DEF Attempt

\* A pause: of a run that an unanswered item paused before, or by a new item.
LEMMA InterruptCovers ==
    ASSUME ExecutorInv, OutcomeInv, NEW p \in Process, Interrupt(p) PROVE OutcomeInv'
<1>1. pc[p] \in InNode /\ pc[p] \in Inside \ {"leased"}  BY DEF Interrupt, InNode, Inside
<1>2. CallInv(p) /\ lease.holder = p  BY <1>1, WorkingFacts
<1>3. /\ tx[p].logged \subseteq {"started"} /\ tx[p].items = {}
      /\ tx[p].status \in {"same", "executing"}
      /\ "started" \in log.logged \cup tx[p].logged
      /\ tx[p].status = "executing" => "started" \notin log.logged
  BY <1>1, <1>2 DEF CallInv, EventsGuarded
<1>4. CASE inbox[node[p]] = "pending"
  <2>1. "started" \in log.logged /\ (~Ended => log.status = "paused")
    BY <1>4 DEF OutcomeInv, StreamInv, Interrupt
  <2>2. Ended \/ StatusSeen(p) = "paused"  BY <1>3, <2>1 DEF StatusSeen
  <2> QED  BY <1>2, <1>4, <2>2, EndsCover DEF Interrupt, Returns
<1>5. CASE inbox[node[p]] # "pending"
  <2> DEFINE new == [status |-> "paused", logged |-> tx[p].logged, done |-> tx[p].done,
                     effects |-> tx[p].effects, items |-> tx[p].items \cup {node[p]}]
  <2>1. tx' = [tx EXCEPT ![p] = new]  BY <1>5 DEF Interrupt
  <2>2. tx'[p] = new /\ \A q \in Process \ {p} : tx'[q] = tx[q]
    BY <2>1 DEF ExecutorInv, TypeOK
  <2>3. /\ tx'[p].status = "paused" /\ tx'[p].logged = tx[p].logged
        /\ tx'[p].done = tx[p].done /\ tx'[p].effects = tx[p].effects
    BY <2>2
  <2>4. pc'[p] = "returned" /\ OthersStay(p) /\ call'[p].result = "paused"
    BY EndsWithKeeps DEF Interrupt, Returns, ExecutorInv, Place
  <2>5. PrefixCovered(p)'  BY <2>4 DEF PrefixCovered, Working
  <2>6. OutcomeCovered(p)'  BY <2>3, <2>4 DEF OutcomeCovered
  <2>7. GatesUnlogged(p)'  BY <1>2, <2>3, <2>4 DEF CallInv, GatesUnlogged
  <2>8. EventsGuarded(p)'
    BY <1>2, <1>3, <2>3, <2>4 DEF EventsGuarded, Interrupt, Inside, Terminal
  <2>9. Reports(p)'  BY <1>2, <2>3, <2>4 DEF Reports, StatusSeen, Interrupt
  <2>10. Within(p)  BY <2>2, <2>4 DEF Within, Interrupt
  <2> QED  BY <2>5, <2>6, <2>7, <2>8, <2>9, <2>10, WithinKeeps DEF CallInv
<1> QED  BY <1>4, <1>5

\* Only what is no gate is dispatched.
LEMMA FireCovers ==
    ASSUME ExecutorInv, OutcomeInv, NEW p \in Process, Fire(p) PROVE OutcomeInv'
<1>1. pc[p] \in InNode  BY DEF Fire, InNode
<1>2. pc'[p] = "called" /\ OthersStay(p) /\ UNCHANGED <<node, call>>
  BY GoesToKeeps DEF Fire, Place, ExecutorInv
<1>3. Within(p) /\ SameEvents(p)  BY <1>2 DEF Within, SameEvents, Fire
<1> QED  BY <1>1, <1>2, <1>3, WorkingFacts, StaysInNode DEF Fire, Working

\* A node that succeeded is done.
LEMMA SucceedsCovers ==
    ASSUME ExecutorInv, OutcomeInv, NEW p \in Process, Succeeds(p) PROVE OutcomeInv'
<1> DEFINE keys == {[type |-> "confirmed", node |-> n, payload |-> "wrapped"] :
                      n \in {node[p]} \cap Irreversible}
           done == [n \in Node |-> IF n = node[p] THEN Upto2(tx[p].done[n] + 1)
                                   ELSE tx[p].done[n]]
           new == [status |-> tx[p].status, logged |-> tx[p].logged, done |-> done,
                   effects |-> tx[p].effects \cup keys, items |-> tx[p].items]
<1>1. pc[p] \in InNode  BY DEF Succeeds, InNode
<1>2. PICK m \in Node : m = node[p]  BY <1>1, WorkingFacts
<1>3. log \in Stream /\ tx[p] \in Delta  BY DEF ExecutorInv, TypeOK
<1>4. \A n \in Node : log.done[n] \in 0..2 /\ tx[p].done[n] \in 0..2
  BY <1>3 DEF Stream, Delta
<1>5. tx[p].done[m] = 0  BY <1>1, <1>2, InNodeFacts
<1>6. \A n \in Node : done[n] = IF n = m THEN 1 ELSE tx[p].done[n]
  BY <1>2, <1>5 DEF Upto2
<1>7. \A k \in keys : k.payload = "wrapped"  OBVIOUS
<1>8. tx' = [tx EXCEPT ![p] = new]  BY DEF Succeeds
<1> HIDE DEF done, keys
<1>9. tx'[p] = new /\ \A q \in Process \ {p} : tx'[q] = tx[q]
  BY <1>8 DEF ExecutorInv, TypeOK
<1>10. OthersStay(p)  BY NextLayerMoves DEF Succeeds, ExecutorInv
<1>11. Within(p) /\ SameEvents(p)  BY <1>9, <1>10 DEF Within, SameEvents, Succeeds
<1>12. tx'[p].done = done /\ tx'[p].effects = tx[p].effects \cup keys  BY <1>9
<1>13. log' = log /\ inbox' = inbox  BY DEF Succeeds
<1>14. /\ \A n \in Node : Covered(p, n) => Covered(p, n)'
       /\ Covered(p, m)'
  BY <1>4, <1>6, <1>12, <1>13 DEF Covered
<1>15. \A h \in Hitl : tx'[p].done[h] = 0
  <2>1. m \notin Hitl  BY <1>2 DEF OutcomeInv, CallInv, GatesUnlogged, Succeeds
  <2> QED  BY <1>1, <1>6, <1>12, <2>1, WorkingFacts, ExecutorConstAssumption
<1>16. \A k \in tx'[p].effects : k.payload = "wrapped"
  BY <1>1, <1>7, <1>12, WorkingFacts
<1> QED
  BY <1>1, <1>2, <1>11, <1>14, <1>15, <1>16, WorkingFacts, NextLayerCovers DEF Succeeds

\* A failed attempt is made again, or counts as a failure.
LEMMA FailsCovers ==
    ASSUME ExecutorInv, OutcomeInv, NEW p \in Process, Fails(p) PROVE OutcomeInv'
<1>1. pc[p] \in InNode  BY DEF Fails, InNode
<1>2. CASE NextLayer(p, FALSE)  BY <1>1, <1>2, PassesBy DEF Fails
<1>3. CASE Retries(p)
  <2> DEFINE new == [call[p] EXCEPT !.attempt = @ + 1]
  <2>1. call[p] \in Call  BY DEF ExecutorInv, TypeOK
  <2>2. new.anyFailed = call[p].anyFailed  BY <2>1 DEF Call
  <2>3. call' = [call EXCEPT ![p] = new]  BY <1>3 DEF Retries
  <2> HIDE DEF new
  <2>4. /\ pc'[p] = "node" /\ OthersStay(p) /\ UNCHANGED node
        /\ call'[p].anyFailed = call[p].anyFailed
    BY <1>3, <2>2, <2>3 DEF Retries, ExecutorInv, TypeOK, OthersStay
  <2>5. Within(p) /\ SameEvents(p)  BY <2>4 DEF Within, SameEvents, Fails
  <2> QED  BY <1>1, <2>4, <2>5, WorkingFacts, StaysInNode DEF Fails, Working
<1> QED  BY <1>2, <1>3 DEF Fails

\* Who left the call has nothing to commit, and starts over.
LEMMA LeavesClean ==
    ASSUME TypeOK, NEW p \in Process, Leaves(p)
    PROVE  /\ tx'[p] = NoDelta /\ pc'[p] = "idle" /\ node'[p] = 1 /\ OthersStay(p)
           /\ \A q \in Process \ {p} : tx'[q] = tx[q]
           /\ CallInv(p)'
<1>1. tx'[p] = NoDelta /\ pc'[p] = "idle" /\ node'[p] = 1 /\ OthersStay(p)
      /\ \A q \in Process \ {p} : tx'[q] = tx[q]
  BY DEF Leaves, TypeOK, OthersStay
<1>2. CallInv(p)'
  BY <1>1, ExecutorConstAssumption DEF NoDelta, CallInv, PrefixCovered, OutcomeCovered,
     GatesUnlogged, EventsGuarded, Reports, Working, Inside, Terminal
<1> QED  BY <1>1, <1>2

\* What is committed is what the session saw.
LEMMA ViewFacts ==
    ASSUME ExecutorInv, NEW p \in Process, log' = View(p)
    PROVE  /\ log'.status = StatusSeen(p) /\ log'.logged = log.logged \cup tx[p].logged
           /\ log'.effects = log.effects \cup tx[p].effects
           /\ \A n \in Node : /\ log'.done[n] = log.done[n] + tx[p].done[n]
                              /\ log'.done[n] \in Nat /\ log'.done[n] >= log.done[n]
           /\ \A n \in Node : log.done[n] \in 0..2 /\ tx[p].done[n] \in 0..2
<1>1. log \in Stream /\ tx[p] \in Delta  BY DEF ExecutorInv, TypeOK
<1>2. \A n \in Node : log.done[n] \in 0..2 /\ tx[p].done[n] \in 0..2
  BY <1>1 DEF Stream, Delta
<1>3. \A n \in Node : log'.done[n] = log.done[n] + tx[p].done[n]  BY ViewIsSum
<1>4. /\ log'.status = StatusSeen(p) /\ log'.logged = log.logged \cup tx[p].logged
      /\ log'.effects = log.effects \cup tx[p].effects
  BY DEF View, StatusSeen
<1>5. \A n \in Node : log'.done[n] \in Nat /\ log'.done[n] >= log.done[n]
  BY <1>2, <1>3
<1> QED  BY <1>2, <1>3, <1>4, <1>5

\* The others' calls when p's transaction is committed: they have no lease unless
\* it adds nothing to what they look at.
LEMMA OthersOfCommit ==
    ASSUME ExecutorInv, OutcomeInv, NEW p \in Process, log' = View(p), OthersStay(p),
           \A q \in Process \ {p} : tx'[q] = tx[q],
           \A q \in Process \ {p} : lease.holder = q => lease'.holder = q,
           tx[p].items = {} => inbox' = inbox
    PROVE  \A q \in Process \ {p} : CallInv(q)'
<1> SUFFICES ASSUME NEW q \in Process \ {p} PROVE CallInv(q)'  OBVIOUS
<1>1. CallInv(q) /\ CallInv(p)  BY DEF OutcomeInv
<1>2. lease.holder = q =>
        tx[p].status = "same" /\ tx[p].logged = {} /\ tx[p].items = {}
  BY <1>1 DEF CallInv, EventsGuarded
<1>3. lease.holder = q =>
        /\ log'.status = log.status /\ log'.logged = log.logged /\ inbox' = inbox
  BY <1>2, ViewFacts DEF StatusSeen
<1>4. \A n \in Node : log'.done[n] \in Nat /\ log'.done[n] >= log.done[n]
  BY ViewFacts
<1>5. log.logged \subseteq log'.logged  BY ViewFacts
<1> QED  BY <1>1, <1>3, <1>4, <1>5, OthersUnaffected DEF OthersStay

\* A sandbox commits what its call has done so far.
LEMMA CommitsMidwayCovers ==
    ASSUME ExecutorInv, OutcomeInv, NEW p \in Process, CommitsMidway(p) PROVE OutcomeInv'
<1>1. pc[p] \in InNode /\ pc[p] = "dispatch"  BY DEF CommitsMidway, InNode
<1>2. UNCHANGED <<pc, node, call, inbox>>  BY DEF CommitsMidway, exe
<1>3. CallInv(p) /\ lease.holder = p  BY <1>1, WorkingFacts
<1>4. /\ tx[p].logged \subseteq {"started"} /\ tx[p].status \in {"same", "executing"}
      /\ tx[p].status = "executing" => "started" \in tx[p].logged \ log.logged
      /\ "started" \in log.logged \cup tx[p].logged
  BY <1>1, <1>3 DEF CallInv, EventsGuarded, Inside
<1>5. log' = View(p)  BY DEF CommitsMidway
<1>6. tx'[p] = NoDelta /\ \A q \in Process \ {p} : tx'[q] = tx[q]
  BY DEF CommitsMidway, ExecutorInv, TypeOK
<1>7. lease'.holder = lease.holder
  <2>1. lease \in [holder : Process \cup {NoProcess}, durable : BOOLEAN]
    BY DEF ExecutorInv, TypeOK
  <2> QED  BY <2>1 DEF CommitsMidway
<1>8. OthersStay(p)  BY <1>2 DEF OthersStay
<1>9. \A q \in Process \ {p} : CallInv(q)'
  BY <1>2, <1>5, <1>6, <1>7, <1>8, OthersOfCommit
<1>10. CallInv(p)'
  <2>1. \A n \in Node : NoDelta.done[n] = 0  BY DEF NoDelta
  <2>2. NoDelta.status = "same" /\ NoDelta.logged = {} /\ NoDelta.items = {}
        /\ NoDelta.effects = {}
    BY DEF NoDelta
  <2>3. \A n \in Node : Covered(p, n) => Covered(p, n)'
    BY <1>2, <1>5, <1>6, <2>1, ViewFacts DEF Covered
  <2>4. PrefixCovered(p)'
    BY <1>1, <1>2, <1>3, <2>3 DEF CallInv, PrefixCovered, Working
  <2>5. OutcomeCovered(p)'  BY <1>1, <1>2, <1>6, <2>2 DEF OutcomeCovered
  <2>6. GatesUnlogged(p)'
    BY <1>1, <1>2, <1>6, <2>1, <2>2, ExecutorConstAssumption DEF GatesUnlogged
  <2>7. EventsGuarded(p)'
    BY <1>1, <1>2, <1>4, <1>5, <1>6, <2>2, ViewFacts DEF EventsGuarded, Terminal
  <2>8. Reports(p)'  BY <1>1, <1>2 DEF Reports
  <2> QED  BY <2>4, <2>5, <2>6, <2>7, <2>8 DEF CallInv
<1>11. StreamInv'
  <2> USE ViewFacts, <1>2, <1>5
  <2>1. StreamInv  BY DEF OutcomeInv
  <2>2. log'.status \notin Terminal \/ log'.status = log.status
    BY <1>4 DEF StatusSeen, Terminal
  <2>3. CompletedMeansAll'
    <3> SUFFICES ASSUME log'.status = "completed", NEW n \in Node
                 PROVE  log'.done[n] > 0 \/ (n \in Hitl /\ inbox'[n] = "approved")
      BY DEF CompletedMeansAll
    <3>1. log.status = "completed"  BY <2>2 DEF Terminal
    <3> QED  BY <2>1, <3>1 DEF StreamInv, CompletedMeansAll
  <2>4. \A h \in Hitl : log'.done[h] = 0
    BY <1>1, <2>1, WorkingFacts, ExecutorConstAssumption DEF StreamInv
  <2>5. \A k \in log'.effects : k.payload = "wrapped"
    BY <1>1, <2>1, WorkingFacts DEF StreamInv
  <2>6. log'.status \in Terminal => Ended'
    BY <2>1, <2>2 DEF StreamInv, Ended
  <2>7. \A h \in Hitl : inbox'[h] # "none" => "started" \in log'.logged
    BY <2>1 DEF StreamInv
  <2>8. \A h \in Hitl : inbox'[h] = "pending" /\ ~Ended' => log'.status = "paused"
    BY <1>4, <2>1 DEF StreamInv, StatusSeen, Ended
  <2> QED  BY <2>3, <2>4, <2>5, <2>6, <2>7, <2>8 DEF StreamInv
<1> QED  BY <1>9, <1>10, <1>11 DEF OutcomeInv

\* The caller's commit.
LEMMA CommitCovers ==
    ASSUME ExecutorInv, OutcomeInv, NEW p \in Process, Commit(p) PROVE OutcomeInv'
<1>1. log' = View(p)  BY DEF Commit
<1>2. /\ pc'[p] = "idle" /\ OthersStay(p) /\ \A q \in Process \ {p} : tx'[q] = tx[q]
      /\ CallInv(p)'
  BY LeavesClean DEF Commit, ExecutorInv
<1>3. \A q \in Process \ {p} : lease.holder = q => lease'.holder = q  BY DEF Commit
<1>4. inbox' = [h \in Hitl |-> IF h \in tx[p].items THEN "pending" ELSE inbox[h]]
  BY DEF Commit
<1>5. tx[p].items = {} => inbox' = inbox
  BY <1>4 DEF ExecutorInv, TypeOK
<1>6. \A q \in Process \ {p} : CallInv(q)'
  BY <1>1, <1>2, <1>3, <1>5, OthersOfCommit
<1>7. StreamInv'
  <2> USE ViewFacts, <1>1
  <2>1. StreamInv /\ CallInv(p)  BY DEF OutcomeInv
  <2>2. /\ tx[p].items # {} =>
             tx[p].status = "paused" /\ "started" \in log.logged \cup tx[p].logged
        /\ tx[p].status \in Terminal => tx[p].logged \cap Terminal # {}
        /\ tx[p].status = "executing" => "started" \notin log.logged
        /\ tx[p].status # "pending"
    BY <2>1 DEF CallInv, EventsGuarded
  <2>3. CompletedMeansAll'
    <3> SUFFICES ASSUME log'.status = "completed", NEW n \in Node
                 PROVE  log'.done[n] > 0 \/ (n \in Hitl /\ inbox'[n] = "approved")
      BY DEF CompletedMeansAll
    <3>1. StatusSeen(p) = "completed"  OBVIOUS
    <3>2. inbox' = inbox  BY <1>5, <2>2, <3>1 DEF StatusSeen
    <3>3. CASE tx[p].status = "completed"
      <4>1. Covered(p, n)  BY <2>1, <3>3 DEF CallInv, OutcomeCovered
      <4> QED  BY <3>2, <4>1 DEF Covered
    <3>4. CASE tx[p].status = "same"
      <4>1. log.status = "completed"  BY <3>1, <3>4 DEF StatusSeen
      <4> QED  BY <2>1, <3>2, <4>1 DEF StreamInv, CompletedMeansAll
    <3> QED  BY <3>1, <3>3, <3>4 DEF StatusSeen
  <2>4. \A h \in Hitl : log'.done[h] = 0
    BY <2>1, ExecutorConstAssumption DEF StreamInv, CallInv, GatesUnlogged
  <2>5. \A k \in log'.effects : k.payload = "wrapped"
    BY <2>1 DEF StreamInv, CallInv, GatesUnlogged
  <2>6. log'.status \in Terminal => Ended'
    BY <2>1, <2>2 DEF StreamInv, Ended, StatusSeen
  <2>7. \A h \in Hitl : inbox'[h] # "none" => "started" \in log'.logged
    BY <1>4, <2>1, <2>2 DEF StreamInv
  <2>8. ASSUME NEW h \in Hitl, inbox'[h] = "pending", ~Ended' PROVE log'.status = "paused"
    <3>1. CASE h \in tx[p].items
      BY <2>2, <3>1 DEF StatusSeen
    <3>2. CASE h \notin tx[p].items
      <4>1. log.status = "paused" /\ "started" \in log.logged
        BY <1>4, <2>1, <2>8, <3>2 DEF StreamInv, Ended
      <4>2. tx[p].status \in {"same", "paused"}
        <5>1. tx[p].status \notin Terminal  BY <2>2, <2>8 DEF Ended
        <5>2. tx[p] \in Delta  BY DEF ExecutorInv, TypeOK
        <5>3. tx[p].status \in Status \cup {"same"}  BY <5>2 DEF Delta
        <5> QED  BY <2>2, <4>1, <5>1, <5>3 DEF Status
      <4> QED  BY <4>1, <4>2 DEF StatusSeen
    <3> QED  BY <3>1, <3>2
  <2> QED  BY <2>3, <2>4, <2>5, <2>6, <2>7, <2>8 DEF StreamInv
<1> QED  BY <1>2, <1>6, <1>7 DEF OutcomeInv

\* What a transaction that is undone held was nobody else's.
LEMMA UndoCovers ==
    ASSUME ExecutorInv, OutcomeInv, NEW p \in Process, Undo(p) PROVE OutcomeInv'
<1>1. /\ pc'[p] = "idle" /\ OthersStay(p) /\ \A q \in Process \ {p} : tx'[q] = tx[q]
      /\ CallInv(p)'
  BY LeavesClean DEF Undo, ExecutorInv
<1>2. \A q \in Process \ {p} : lease.holder = q => lease'.holder = q  BY DEF Undo
<1>3. log \in Stream  BY DEF ExecutorInv, TypeOK
<1>4. \A n \in Node : log.done[n] \in 0..2  BY <1>3 DEF Stream
<1>5. \A q \in Process \ {p} : CallInv(q)'
  <2> SUFFICES ASSUME NEW q \in Process \ {p} PROVE CallInv(q)'  OBVIOUS
  <2>1. CallInv(q)  BY DEF OutcomeInv
  <2> QED  BY <1>1, <1>2, <1>4, <2>1, OthersUnaffected DEF Undo, OthersStay
<1>6. StreamInv'  BY DEF OutcomeInv, StreamInv, CompletedMeansAll, Undo, Ended
<1> QED  BY <1>1, <1>5, <1>6 DEF OutcomeInv

\* Aborts add at most a request to the stream; answers give no approval back.
LEMMA SignalsCover ==
    ASSUME ExecutorInv, OutcomeInv, UNCHANGED <<tx, exe, lease>>,
           log'.status = log.status, log'.done = log.done, log'.effects = log.effects,
           log'.logged \in {log.logged, log.logged \cup {"abort_requested"}},
           \A h \in Hitl : \/ inbox'[h] = inbox[h]
                           \/ inbox[h] = "pending" /\ inbox'[h] \in {"approved", "rejected"}
    PROVE  OutcomeInv'
<1>1. log \in Stream  BY DEF ExecutorInv, TypeOK
<1>2. \A n \in Node : log.done[n] \in 0..2  BY <1>1 DEF Stream
<1>3. ("started" \in log'.logged => "started" \in log.logged) /\ log.logged \subseteq log'.logged
  OBVIOUS
<1>4. ASSUME NEW q \in Process PROVE CallInv(q)'
  <2>1. CallInv(q)  BY DEF OutcomeInv
  <2> QED  BY <1>2, <1>3, <2>1, OthersUnaffected DEF exe
<1>5. Ended' = Ended  BY DEF Ended, Terminal
<1>6. CompletedMeansAll'  BY DEF OutcomeInv, StreamInv, CompletedMeansAll
<1>7. StreamInv'  BY <1>3, <1>5, <1>6 DEF OutcomeInv, StreamInv
<1> QED  BY <1>4, <1>7 DEF OutcomeInv

\* A durable abort stores a request.
LEMMA AbortDurablyCovers ==
    ASSUME ExecutorInv, OutcomeInv, NEW p \in Process, AbortDurably(p) PROVE OutcomeInv'
<1> DEFINE new == [log EXCEPT !.logged = @ \cup {"abort_requested"}]
<1>1. log \in Stream  BY DEF ExecutorInv, TypeOK
<1>2. /\ new.status = log.status /\ new.done = log.done /\ new.effects = log.effects
      /\ new.logged = log.logged \cup {"abort_requested"}
  BY <1>1 DEF Stream
<1>3. log' = new  BY DEF AbortDurably
<1> HIDE DEF new
<1> QED  BY <1>2, <1>3, SignalsCover DEF AbortDurably

\* A human answers an inbox item.
LEMMA DecideCovers ==
    ASSUME ExecutorInv, OutcomeInv, NEW h \in Hitl, Decide(h) PROVE OutcomeInv'
<1>1. \A g \in Hitl : \/ inbox'[g] = inbox[g]
                      \/ inbox[g] = "pending" /\ inbox'[g] \in {"approved", "rejected"}
  BY DEF Decide, ExecutorInv, TypeOK
<1> QED  BY <1>1, SignalsCover DEF Decide

\* Every step of the specification keeps the invariant.
LEMMA NextOutcomeInv == ExecutorInv /\ OutcomeInv /\ [Next]_vars => OutcomeInv'
<1> SUFFICES ASSUME ExecutorInv, OutcomeInv, [Next]_vars PROVE OutcomeInv'  OBVIOUS
<1>1. CASE UNCHANGED vars
  BY <1>1, SignalsCover DEF vars
<1>2. ASSUME NEW p \in Process, FirstCall(p) \/ Resume(p) \/ Claim(p) \/ Fault(p)
      PROVE  OutcomeInv'
  BY <1>2, FirstCallCovers, ResumeCovers, ClaimCovers, UndoCovers DEF Fault
<1>3. ASSUME NEW p \in Process, Abort(p) \/ AbortDurably(p) PROVE OutcomeInv'
  BY <1>3, SignalsCover, AbortDurablyCovers DEF Abort
<1>4. ASSUME NEW p \in Process, Step(p) PROVE OutcomeInv'
  <2>1. CASE Denied(p) \/ LeaseLost(p) \/ FailsValidation(p) \/ StartRun(p)
    BY <2>1, DeniedCovers, LeaseLostCovers, FailsValidationCovers, StartRunCovers
  <2>2. CASE StopsAtLayer(p) \/ SkipsCompleted(p) \/ TakesDecision(p) \/ EntersNode(p)
    BY <2>2, StopsAtLayerCovers, SkipsCompletedCovers, TakesDecisionCovers, EntersNodeCovers
  <2>3. CASE Attempt(p) \/ Interrupt(p) \/ CommitsMidway(p) \/ Fire(p)
    BY <2>3, AttemptCovers, InterruptCovers, CommitsMidwayCovers, FireCovers
  <2>4. CASE Succeeds(p) \/ Fails(p) \/ NodeRaises(p)
    BY <2>4, SucceedsCovers, FailsCovers, NodeRaisesCovers
  <2>5. CASE LastLayerDone(p) \/ Finalize(p) \/ Commit(p) \/ Close(p)
    BY <2>5, LastLayerDoneCovers, FinalizeCovers, CommitCovers, UndoCovers DEF Close
  <2> QED  BY <1>4, <2>1, <2>2, <2>3, <2>4, <2>5 DEF Step
<1>5. ASSUME NEW h \in Hitl, Decide(h) PROVE OutcomeInv'
  BY <1>5, DecideCovers
<1> QED  BY <1>1, <1>2, <1>3, <1>4, <1>5 DEF Next

-----------------------------------------------------------------------------
(* The theorems *)

(* In every reachable state what a call counts on lies behind it, what it   *)
(* adds to the stream is guarded by the lease, and what it reports is what  *)
(* its commit leaves (execute, _execute_inner_run, _finalize_run,           *)
(* executor.py; execute_node).                                              *)
THEOREM OutcomeInvariant == Spec => []OutcomeInv
<1> QED  BY InitOutcomeInv, NextOutcomeInv, ExecutorInvariant, PTL DEF Spec

(* A run whose stream says completed has every node completed or approved,  *)
(* whichever calls did them (DAGStrategy.execute; _finalize_run).           *)
THEOREM CompletedRunsAreComplete == Spec => []CompletedMeansAll
<1>1. OutcomeInv => CompletedMeansAll  BY DEF OutcomeInv, StreamInv
<1> QED  BY <1>1, OutcomeInvariant, PTL

(* Nothing is dispatched behind an unapproved gate by a call in which no    *)
(* node has failed (_check_hitl_resume, _handle_hitl_interrupt).            *)
THEOREM GatesHold == Spec => GateHolds
<1>1. ExecutorInv /\ OutcomeInv /\ [Next]_vars =>
         [\A p \in Process : (Fire(p) /\ ~call[p].anyFailed) =>
             \A h \in Hitl : h < node[p] => inbox[h] = "approved"]_vars
  <2> SUFFICES ASSUME ExecutorInv, OutcomeInv, NEW p \in Process, Fire(p), ~call[p].anyFailed,
                      NEW h \in Hitl, h < node[p]
               PROVE  inbox[h] = "approved"
    OBVIOUS
  <2>1. CallInv(p) /\ pc[p] = "dispatch" /\ h \in Node
    BY ExecutorConstAssumption DEF OutcomeInv, Fire
  <2>2. Covered(p, h)  BY <2>1 DEF CallInv, PrefixCovered, Working
  <2>3. log.done[h] = 0 /\ tx[p].done[h] = 0
    BY <2>1 DEF OutcomeInv, StreamInv, CallInv, GatesUnlogged
  <2> QED  BY <2>2, <2>3 DEF Covered
<1> QED  BY <1>1, ExecutorInvariant, OutcomeInvariant, PTL DEF Spec, GateHolds

(* The call that ends or pauses a run reports the status that the committed *)
(* stream replays to (_execute_inner_run, _finalize_run, _handle_hitl_pause). *)
THEOREM ReportsAreReplayed == Spec => ReportedIsReplayed
<1>1. ExecutorInv /\ OutcomeInv /\ [Next]_vars =>
         [\A p \in Process :
            (Commit(p) /\ call[p].result # "already_running" /\ log.logged \cap Terminal = {})
               => log'.status = call[p].result]_vars
  <2> SUFFICES ASSUME ExecutorInv, OutcomeInv, NEW p \in Process, Commit(p),
                      call[p].result # "already_running", log.logged \cap Terminal = {}
               PROVE  log'.status = call[p].result
    OBVIOUS
  <2>1. log'.status = StatusSeen(p)  BY ViewFacts DEF Commit
  <2> QED  BY <2>1 DEF OutcomeInv, CallInv, Reports, Ended, Commit
<1> QED  BY <1>1, ExecutorInvariant, OutcomeInvariant, PTL DEF Spec, ReportedIsReplayed

-----------------------------------------------------------------------------
(* What the executor implements *)

\* No completion is on record, or waits to be committed, before the effect.
EffectsFirst ==
    \A n \in Irreversible :
        /\ log.done[n] > 0 => fired[n] > 0
        /\ \A q \in Process :
              tx[q].done[n] > 0 \/ (pc[q] = "called" /\ node[q] = n) => fired[n] > 0

\* A step that adds no completion, takes no effect back and brings nobody behind one.
LEMMA EffectsKept ==
    ASSUME EffectsFirst,
           \A n \in Irreversible : fired[n] > 0 => fired'[n] > 0,
           \A n \in Irreversible :
              log'.done[n] > 0 =>
                 log.done[n] > 0 \/ \E q \in Process : tx[q].done[n] > 0,
           \A n \in Irreversible, q \in Process : tx'[q].done[n] > 0 => tx[q].done[n] > 0,
           \A q \in Process : pc'[q] = "called" => pc[q] = "called" /\ node'[q] = node[q]
    PROVE  EffectsFirst'
BY DEF EffectsFirst

\* A step of p's call that goes anywhere but behind an effect.
Elsewhere(p) ==
    /\ log'.done = log.done /\ UNCHANGED fired
    /\ \A q \in Process : tx'[q].done = tx[q].done
    /\ OthersStay(p) /\ pc'[p] # "called"

\* Such a step keeps the effects first.
LEMMA ElsewhereKeeps ==
    ASSUME EffectsFirst, NEW p \in Process, Elsewhere(p) PROVE EffectsFirst'
BY EffectsKept DEF Elsewhere, OthersStay

\* The beginning of a call and the claim of the lease.
LEMMA BeginningElsewhere ==
    ASSUME ExecutorInv, NEW p \in Process, FirstCall(p) \/ Resume(p) \/ Claim(p) \/ Denied(p)
    PROVE  Elsewhere(p)
<1> USE DEF ExecutorInv
<1>1. CASE FirstCall(p)
  BY <1>1 DEF FirstCall, TypeOK, OthersStay, Elsewhere
<1>2. CASE Resume(p)
  <2>1. \A q \in Process : tx'[q].done = tx[q].done
    BY <1>2, LogsKeeps DEF Resume, RunEvent, Status, Terminal
  <2>2. OthersStay(p) /\ pc'[p] \in {"claim", "returned"}
    BY <1>2 DEF Resume, TypeOK, OthersStay
  <2> QED  BY <1>2, <2>1, <2>2 DEF Resume, Elsewhere
<1>3. CASE Claim(p)
  BY <1>3, GoesToKeeps DEF Claim, Place, Elsewhere
<1>4. CASE Denied(p)
  BY <1>4, EndsWithKeeps DEF Denied, Returns, Place, Elsewhere
<1> QED  BY <1>1, <1>2, <1>3, <1>4

\* The events of the run: start, loss of the lease, failure, end.
LEMMA EventsElsewhere ==
    ASSUME ExecutorInv, NEW p \in Process,
           LeaseLost(p) \/ FailsValidation(p) \/ StartRun(p) \/ Finalize(p)
    PROVE  Elsewhere(p)
<1> USE DEF ExecutorInv, RunEvent, Status, Terminal
<1>1. CASE LeaseLost(p)
  BY <1>1, LogsKeeps, EndsWithKeeps DEF LeaseLost, Returns, Place, Elsewhere
<1>2. CASE FailsValidation(p)
  BY <1>2, LogsKeeps, EndsWithKeeps DEF FailsValidation, Returns, Place, Elsewhere
<1>3. CASE StartRun(p)
  BY <1>3, LogsKeeps, GoesToKeeps DEF StartRun, Place, Elsewhere
<1>4. CASE Finalize(p)
  <2>1. call[p].result \in Terminal  BY <1>4 DEF Finalize, OutcomeKnown
  <2> QED  BY <1>4, <2>1, LogsKeeps, GoesToKeeps DEF Finalize, Place, Elsewhere
<1> QED  BY <1>1, <1>2, <1>3, <1>4

\* The strategy's moves from layer to layer and from attempt to attempt.
LEMMA LayersElsewhere ==
    ASSUME ExecutorInv, NEW p \in Process,
           \/ StopsAtLayer(p) \/ SkipsCompleted(p) \/ TakesDecision(p) \/ EntersNode(p)
           \/ Fails(p) \/ NodeRaises(p) \/ LastLayerDone(p)
    PROVE  Elsewhere(p)
<1> USE DEF ExecutorInv
<1>1. ASSUME NEW ok, NextLayer(p, ok) PROVE OthersStay(p) /\ pc'[p] = "layer"
  BY <1>1 DEF NextLayer, TypeOK, OthersStay
<1>2. CASE StopsAtLayer(p) \/ LastLayerDone(p)
  <2>1. OthersStay(p) /\ pc'[p] = "finalize"
    BY <1>2 DEF StopsAtLayer, LastLayerDone, EndsWith, TypeOK, OthersStay
  <2> QED  BY <1>2, <2>1 DEF StopsAtLayer, LastLayerDone, Elsewhere
<1>3. CASE SkipsCompleted(p) \/ TakesDecision(p) \/ NodeRaises(p)
  BY <1>1, <1>3 DEF SkipsCompleted, TakesDecision, NodeRaises, Elsewhere
<1>4. CASE EntersNode(p)
  BY <1>4, GoesToKeeps DEF EntersNode, Place, Elsewhere
<1>5. CASE Fails(p)
  <2>1. OthersStay(p) /\ pc'[p] \in {"layer", "node"}
    <3>1. Retries(p) => OthersStay(p) /\ pc'[p] = "node"
      BY DEF Retries, TypeOK, OthersStay
    <3> QED  BY <1>1, <1>5, <3>1 DEF Fails
  <2> QED  BY <1>5, <2>1 DEF Fails, Elsewhere
<1> QED  BY <1>2, <1>3, <1>4, <1>5

\* An attempt or a pause may add a key or an item.
LEMMA NodeElsewhere ==
    ASSUME ExecutorInv, NEW p \in Process, Attempt(p) \/ Interrupt(p)
    PROVE  Elsewhere(p)
<1> USE DEF ExecutorInv
<1>1. CASE Attempt(p)
  <2>1. OthersStay(p) /\ pc'[p] # "called"
    BY <1>1 DEF Attempt, NextLayer, GoesTo, TypeOK, OthersStay
  <2>2. \A q \in Process : tx'[q].done = tx[q].done
    <3>1. CASE UNCHANGED tx  BY <3>1
    <3>2. CASE Stages(p, "intent", node[p])
      <4> DEFINE new == [tx[p] EXCEPT !.effects =
                            @ \cup {[type |-> "intent", node |-> node[p], payload |-> "wrapped"]}]
      <4>1. tx[p] \in Delta  BY DEF TypeOK
      <4>2. new.done = tx[p].done  BY <4>1 DEF Delta
      <4>3. tx' = [tx EXCEPT ![p] = new]  BY <3>2 DEF Stages
      <4> HIDE DEF new
      <4> QED  BY <4>2, <4>3 DEF TypeOK
    <3> QED  BY <1>1, <3>1, <3>2 DEF Attempt
  <2> QED  BY <1>1, <2>1, <2>2 DEF Attempt, Elsewhere
<1>2. CASE Interrupt(p)
  <2>1. OthersStay(p) /\ pc'[p] = "returned"
    BY <1>2, EndsWithKeeps DEF Interrupt, Returns, Place
  <2>2. \A q \in Process : tx'[q].done = tx[q].done
    <3> DEFINE new == [status |-> "paused", logged |-> tx[p].logged, done |-> tx[p].done,
                       effects |-> tx[p].effects, items |-> tx[p].items \cup {node[p]}]
    <3>1. new.done = tx[p].done  OBVIOUS
    <3>2. UNCHANGED tx \/ tx' = [tx EXCEPT ![p] = new]  BY <1>2 DEF Interrupt
    <3> HIDE DEF new
    <3> QED  BY <3>1, <3>2 DEF TypeOK
  <2> QED  BY <1>2, <2>1, <2>2 DEF Interrupt, Elsewhere
<1> QED  BY <1>1, <1>2

\* An effect comes before what it brings about.
LEMMA FireEffectsFirst ==
    ASSUME ExecutorInv, EffectsFirst, NEW p \in Process, Fire(p) PROVE EffectsFirst'
<1>1. \A n \in Irreversible : fired[n] \in 0..2  BY DEF ExecutorInv, TypeOK
<1>2. \A n \in Irreversible :
        fired'[n] = IF n = node[p] THEN Upto2(fired[n] + 1) ELSE fired[n]
  BY DEF Fire
<1>3. \A n \in Irreversible :
        (fired[n] > 0 => fired'[n] > 0) /\ (n = node[p] => fired'[n] > 0)
  BY <1>1, <1>2 DEF Upto2
<1>4. OthersStay(p) /\ UNCHANGED <<log, tx, node>>
  BY GoesToKeeps DEF Fire, ExecutorInv, Place
<1> QED  BY <1>3, <1>4 DEF EffectsFirst, OthersStay

\* The completion that is stored is that of the effect the call is behind.
LEMMA SucceedsEffectsFirst ==
    ASSUME ExecutorInv, EffectsFirst, NEW p \in Process, Succeeds(p) PROVE EffectsFirst'
<1> DEFINE done == [n \in Node |-> IF n = node[p] THEN Upto2(tx[p].done[n] + 1)
                                   ELSE tx[p].done[n]]
           new == [status |-> tx[p].status, logged |-> tx[p].logged, done |-> done,
                   effects |-> tx[p].effects \cup
                      {[type |-> "confirmed", node |-> n, payload |-> "wrapped"] :
                         n \in {node[p]} \cap Irreversible},
                   items |-> tx[p].items]
<1>1. tx' = [tx EXCEPT ![p] = new]  BY DEF Succeeds
<1>2. new.done = done  OBVIOUS
<1>3. \A n \in Node : n # node[p] => done[n] = tx[p].done[n]  OBVIOUS
<1> HIDE DEF new, done
<1>4. tx'[p].done = done /\ \A q \in Process \ {p} : tx'[q] = tx[q]
  BY <1>1, <1>2 DEF ExecutorInv, TypeOK
<1>5. pc'[p] = "layer" /\ OthersStay(p)
  BY DEF Succeeds, NextLayer, ExecutorInv, TypeOK, OthersStay
<1>6. pc[p] = "called" /\ UNCHANGED <<log, fired>>  BY DEF Succeeds
<1>7. Irreversible \subseteq Node  BY ExecutorConstAssumption
<1> QED  BY <1>3, <1>4, <1>5, <1>6, <1>7 DEF EffectsFirst, OthersStay

\* A commit adds what waited for it.
LEMMA CommitEffectsFirst ==
    ASSUME ExecutorInv, EffectsFirst, NEW p \in Process, CommitsMidway(p) \/ Commit(p)
    PROVE  EffectsFirst'
<1>1. log' = View(p) /\ UNCHANGED fired  BY DEF CommitsMidway, Commit
<1>2. /\ \A n \in Node : tx'[p].done[n] = 0
      /\ \A q \in Process \ {p} : tx'[q] = tx[q]
  BY LeavesClean DEF CommitsMidway, Commit, NoDelta, ExecutorInv, TypeOK
<1>3. \A q \in Process : pc'[q] = "called" => pc[q] = "called" /\ node'[q] = node[q]
  <2>1. CASE CommitsMidway(p)  BY <2>1 DEF CommitsMidway, exe
  <2>2. CASE Commit(p)
    BY <2>2, LeavesClean DEF Commit, ExecutorInv, OthersStay
  <2> QED  BY <2>1, <2>2
<1>4. Irreversible \subseteq Node  BY ExecutorConstAssumption
<1>5. \A n \in Irreversible : log'.done[n] > 0 => log.done[n] > 0 \/ tx[p].done[n] > 0
  BY <1>1, <1>4, ViewFacts
<1> QED  BY <1>1, <1>2, <1>3, <1>4, <1>5, EffectsKept

\* What is undone was not on record.
LEMMA UndoEffectsFirst ==
    ASSUME ExecutorInv, EffectsFirst, NEW p \in Process, Undo(p) PROVE EffectsFirst'
<1>1. /\ \A n \in Node : tx'[p].done[n] = 0
      /\ \A q \in Process \ {p} : tx'[q] = tx[q]
      /\ pc'[p] = "idle" /\ OthersStay(p)
  BY LeavesClean DEF Undo, NoDelta, ExecutorInv
<1>2. Irreversible \subseteq Node  BY ExecutorConstAssumption
<1> QED  BY <1>1, <1>2, EffectsKept DEF Undo, OthersStay

\* Every step of the specification keeps the effects first.
LEMMA NextEffectsFirst == ExecutorInv /\ EffectsFirst /\ [Next]_vars => EffectsFirst'
<1> SUFFICES ASSUME ExecutorInv, EffectsFirst, [Next]_vars PROVE EffectsFirst'  OBVIOUS
<1>1. CASE UNCHANGED vars  BY <1>1 DEF vars, exe, EffectsFirst
<1>2. ASSUME NEW p \in Process, FirstCall(p) \/ Resume(p) \/ Claim(p) \/ Step(p)
      PROVE  EffectsFirst'
  <2>1. CASE Fire(p) \/ Succeeds(p) \/ CommitsMidway(p) \/ Commit(p)
    BY <2>1, FireEffectsFirst, SucceedsEffectsFirst, CommitEffectsFirst
  <2>2. CASE Close(p)
    BY <2>2, UndoEffectsFirst DEF Close
  <2> QED
    BY <1>2, <2>1, <2>2, BeginningElsewhere, EventsElsewhere, LayersElsewhere, NodeElsewhere,
       ElsewhereKeeps DEF Step
<1>3. ASSUME NEW p \in Process, Fault(p) PROVE EffectsFirst'
  BY <1>3, UndoEffectsFirst DEF Fault
<1>4. ASSUME NEW p \in Process, Abort(p) \/ AbortDurably(p) PROVE EffectsFirst'
  <2>1. log'.done = log.done
    <3>1. log \in Stream  BY DEF ExecutorInv, TypeOK
    <3> QED  BY <1>4, <3>1 DEF Abort, AbortDurably, Stream
  <2> QED  BY <1>4, <2>1 DEF Abort, AbortDurably, exe, EffectsFirst
<1>5. ASSUME NEW h \in Hitl, Decide(h) PROVE EffectsFirst'
  BY <1>5 DEF Decide, exe, EffectsFirst
<1> QED  BY <1>1, <1>2, <1>3, <1>4, <1>5 DEF Next
\* Most steps change nothing a reader of the run sees.
LEMMA UnseenSteps ==
    ASSUME ExecutorInv, NEW p \in Process,
           \/ FirstCall(p) \/ Resume(p) \/ Claim(p) \/ Fault(p) \/ Abort(p) \/ AbortDurably(p)
           \/ Denied(p) \/ LeaseLost(p) \/ FailsValidation(p) \/ StartRun(p)
           \/ StopsAtLayer(p) \/ SkipsCompleted(p) \/ TakesDecision(p) \/ EntersNode(p)
           \/ Attempt(p) \/ Interrupt(p) \/ Succeeds(p) \/ Fails(p) \/ NodeRaises(p)
           \/ LastLayerDone(p) \/ Finalize(p) \/ Close(p)
    PROVE  UNCHANGED <<log.status, log.done, Approved, fired>>
<1>1. CASE AbortDurably(p)
  <2>1. log \in Stream  BY DEF ExecutorInv, TypeOK
  <2> QED  BY <1>1, <2>1 DEF AbortDurably, Stream, Approved
<1>2. CASE ~AbortDurably(p)
  <2>1. UNCHANGED <<log, inbox, fired>>
    BY <1>2 DEF FirstCall, Resume, Claim, Fault, Undo, Abort, Denied, LeaseLost,
       FailsValidation, StartRun, StopsAtLayer, SkipsCompleted, TakesDecision, EntersNode,
       Attempt, Interrupt, Succeeds, Fails, NodeRaises, LastLayerDone, Finalize, Close
  <2> QED  BY <2>1 DEF Approved
<1> QED  BY <1>1, <1>2

\* The effect of a node that has not completed.
LEMMA FireIsTakes ==
    ASSUME ExecutorInv, NEW p \in Process, Fire(p)
    PROVE  (\E n \in Irreversible : Run!Takes(n)) \/ UNCHANGED Run!run
<1>1. UNCHANGED <<log, inbox>> /\ fired \in [Irreversible -> 0..2]
  BY DEF Fire, ExecutorInv, TypeOK
<1>2. UNCHANGED <<log.status, log.done, Approved>>  BY <1>1 DEF Approved
<1>3. log.done[node[p]] = 0
  <2>1. pc[p] \in InNode  BY DEF Fire, InNode
  <2> QED  BY <2>1, InNodeFacts
<1>4. fired' = [n \in Irreversible |->
                  IF n = node[p] THEN Upto2(fired[n] + 1) ELSE fired[n]]
  BY DEF Fire
<1>5. CASE node[p] \in Irreversible
  <2>1. \A k \in 0..2 : Upto2(k + 1) = IF k < 2 THEN k + 1 ELSE k  BY DEF Upto2
  <2>2. fired' = [fired EXCEPT ![node[p]] = IF @ < 2 THEN @ + 1 ELSE @]
    BY <1>1, <1>4, <1>5, <2>1
  <2>3. Run!Takes(node[p])  BY <1>2, <1>3, <2>2 DEF Run!Takes
  <2> QED  BY <1>5, <2>3
<1>6. CASE node[p] \notin Irreversible
  <2>1. fired' = fired  BY <1>1, <1>4, <1>6
  <2> QED  BY <1>2, <2>1 DEF Run!run
<1> QED  BY <1>5, <1>6

\* A commit appends the completions of its transaction.
LEMMA CommitIsAppend ==
    ASSUME ExecutorInv, OutcomeInv, ExecutorInv', OutcomeInv', EffectsFirst,
           NEW p \in Process, CommitsMidway(p) \/ Commit(p)
    PROVE  \E nodes \in SUBSET (Node \ Hitl), new \in Status, reopened \in SUBSET Hitl :
              Run!Append(nodes, new, reopened)
<1> DEFINE nodes == {n \in Node : tx[p].done[n] > 0}
           reopened == {h \in Approved : inbox'[h] # "approved"}
<1>1. log' = View(p) /\ UNCHANGED fired  BY DEF CommitsMidway, Commit
<1>2. log \in Stream /\ log' \in Stream  BY DEF ExecutorInv, TypeOK
<1>3. CallInv(p)  BY DEF OutcomeInv
<1>4. nodes \in SUBSET (Node \ Hitl)
  BY <1>3, ExecutorConstAssumption DEF CallInv, GatesUnlogged
<1>5. log'.status \in Status  BY <1>2 DEF Stream
<1>6. reopened \in SUBSET Hitl  BY DEF Approved
<1>7. \A n \in Node : /\ log.done[n] \in 0..2 /\ tx[p].done[n] \in 0..2
                      /\ log.done[n] + tx[p].done[n] <= 1
                      /\ log'.done[n] = log.done[n] + tx[p].done[n]
  BY <1>1, ViewFacts DEF ExecutorInv, NodesCompleteOnce
<1>8. \A n \in nodes : log.done[n] = 0 /\ (n \in Irreversible => fired[n] > 0)
  BY <1>7 DEF EffectsFirst
<1>9. log'.done = [n \in Node |-> IF n \in nodes THEN 1 ELSE log.done[n]]
  <2>1. log'.done \in [Node -> 0..2]  BY <1>2 DEF Stream
  <2>2. \A n \in Node : log'.done[n] = IF n \in nodes THEN 1 ELSE log.done[n]
    BY <1>7
  <2> HIDE DEF nodes
  <2> QED  BY <2>1, <2>2
<1>10. reopened # {} => log'.status = "paused"
  <2> SUFFICES ASSUME NEW h \in reopened PROVE log'.status = "paused"  OBVIOUS
  <2>1. inbox[h] = "approved" /\ inbox'[h] # "approved" /\ h \in Hitl  BY DEF Approved
  <2>2. h \in tx[p].items  BY <2>1 DEF CommitsMidway, Commit
  <2>3. tx[p].status = "paused"  BY <1>3, <2>2 DEF CallInv, EventsGuarded
  <2> QED  BY <1>1, <2>3, ViewFacts DEF StatusSeen
<1>11. Approved' = Approved \ reopened
  <2>1. \A h \in Hitl : inbox'[h] = "approved" => inbox[h] = "approved"
    BY DEF CommitsMidway, Commit
  <2> QED  BY <2>1 DEF Approved
<1>12. log'.status = "completed" =>
         \A n \in Node : log'.done[n] > 0 \/ n \in Approved'
  BY DEF OutcomeInv, StreamInv, CompletedMeansAll, Approved
<1> HIDE DEF nodes, reopened
<1>13. Run!Append(nodes, log'.status, reopened)
  BY <1>1, <1>8, <1>9, <1>10, <1>11, <1>12 DEF Run!Append
<1> QED  BY <1>4, <1>5, <1>6, <1>13

\* An answer approves a gate or leaves the run as it is.
LEMMA DecideIsApprove ==
    ASSUME ExecutorInv, NEW h \in Hitl, Decide(h)
    PROVE  Run!Approve(h) \/ UNCHANGED Run!run
<1>1. UNCHANGED <<log, fired>>  BY DEF Decide
<1>2. PICK d \in {"approved", "rejected"} : inbox' = [inbox EXCEPT ![h] = d]
  BY DEF Decide
<1>3. inbox[h] = "pending" /\ inbox'[h] = d /\ \A g \in Hitl \ {h} : inbox'[g] = inbox[g]
  BY <1>2 DEF Decide, ExecutorInv, TypeOK
<1>4. CASE d = "approved"
  <2>1. h \notin Approved /\ Approved' = Approved \cup {h}  BY <1>3, <1>4 DEF Approved
  <2> QED  BY <1>1, <2>1 DEF Run!Approve
<1>5. CASE d = "rejected"
  <2>1. Approved' = Approved  BY <1>3, <1>5 DEF Approved
  <2> QED  BY <1>1, <2>1 DEF Run!run
<1> QED  BY <1>4, <1>5

(* However many calls, crashes and rollbacks there were, the run's stream   *)
(* and effects are those of one durable run (execute, execute_node,         *)
(* _finalize_run, executor.py; NodeExecutor.execute).                       *)
THEOREM ExecutorImplementsRun == Spec => ImplementsRun
<1>1. Init => EffectsFirst /\ Run!Init
  <2> SUFFICES ASSUME Init PROVE EffectsFirst /\ Run!Init  OBVIOUS
  <2>1. EffectsFirst
    <3>1. Irreversible \subseteq Node  BY ExecutorConstAssumption
    <3> QED  BY <3>1 DEF Init, EffectsFirst, NoDelta
  <2>2. Run!Init  BY DEF Init, Run!Init, Approved
  <2> QED  BY <2>1, <2>2
<1>2. Spec => []EffectsFirst
  BY <1>1, NextEffectsFirst, ExecutorInvariant, PTL DEF Spec
<1>3. ExecutorInv /\ OutcomeInv /\ ExecutorInv' /\ OutcomeInv' /\ EffectsFirst /\ [Next]_vars
        => [Run!Next]_(Run!run)
  <2> SUFFICES ASSUME ExecutorInv, OutcomeInv, ExecutorInv', OutcomeInv', EffectsFirst,
                      [Next]_vars
               PROVE  Run!Next \/ UNCHANGED Run!run
    OBVIOUS
  <2>1. CASE UNCHANGED vars  BY <2>1 DEF vars, Run!run, Approved
  <2>2. ASSUME NEW h \in Hitl, Decide(h) PROVE Run!Next \/ UNCHANGED Run!run
    BY <2>2, DecideIsApprove DEF Run!Next
  <2>3. ASSUME NEW p \in Process, Fire(p) PROVE Run!Next \/ UNCHANGED Run!run
    BY <2>3, FireIsTakes DEF Run!Next
  <2>4. ASSUME NEW p \in Process, CommitsMidway(p) \/ Commit(p)
        PROVE  Run!Next \/ UNCHANGED Run!run
    BY <2>4, CommitIsAppend DEF Run!Next
  <2>5. ASSUME NEW p \in Process,
               \/ FirstCall(p) \/ Resume(p) \/ Claim(p) \/ Step(p) \/ Fault(p)
               \/ Abort(p) \/ AbortDurably(p),
               ~Fire(p), ~CommitsMidway(p), ~Commit(p)
        PROVE  UNCHANGED Run!run
    <3>1. UNCHANGED <<log.status, log.done, Approved, fired>>
      BY <2>5, UnseenSteps DEF Step
    <3> QED  BY <3>1 DEF Run!run
  <2> QED  BY <2>1, <2>2, <2>3, <2>4, <2>5 DEF Next
<1> QED
  BY <1>1, <1>2, <1>3, ExecutorInvariant, OutcomeInvariant, PTL
     DEF Spec, ImplementsRun, Run!Spec

\* A step of a call that has begun and does not leave changes no owner.
LEMMA OwnerStays ==
    ASSUME ExecutorInv, NEW p \in Process, pc[p] # "idle",
           Step(p), ~Commit(p), ~Close(p)
    PROVE  Owner' = Owner
<1> USE DEF ExecutorInv
<1>1. CASE \/ Denied(p) \/ LeaseLost(p) \/ FailsValidation(p) \/ StartRun(p) \/ Finalize(p)
           \/ StopsAtLayer(p) \/ SkipsCompleted(p) \/ TakesDecision(p) \/ EntersNode(p)
           \/ Fails(p) \/ NodeRaises(p) \/ LastLayerDone(p) \/ Attempt(p) \/ Interrupt(p)
           \/ Fire(p) \/ Succeeds(p)
  <2>1. lease'.holder = lease.holder /\ pc'[p] # "idle" /\ OthersStay(p)
    BY <1>1 DEF Denied, LeaseLost, FailsValidation, StartRun, Finalize, StopsAtLayer,
       SkipsCompleted, TakesDecision, EntersNode, Fails, NodeRaises, LastLayerDone, Attempt,
       Interrupt, Fire, Succeeds, Returns, EndsWith, GoesTo, NextLayer, Retries, TypeOK,
       OthersStay
  <2> QED  BY <2>1 DEF Owner, TypeOK, OthersStay
<1>2. CASE CommitsMidway(p)
  <2>1. pc' = pc  BY <1>2 DEF CommitsMidway, exe
  <2>2. lease'.holder = lease.holder  BY <1>2 DEF CommitsMidway, TypeOK
  <2> QED  BY <2>1, <2>2 DEF Owner
<1> QED  BY <1>1, <1>2 DEF Step

\* Who begins a call under a lease of an earlier one of the process's owns the run again.
LEMMA BeginsAcquires ==
    ASSUME ExecutorInv, NEW p \in Process, FirstCall(p) \/ Resume(p)
    PROVE  Ownership!Acquire(p) \/ Owner' = Owner
<1>1. /\ pc[p] = "idle" /\ pc'[p] # "idle" /\ lease' = lease
      /\ \A q \in Process \ {p} : pc'[q] = pc[q]
  BY DEF FirstCall, Resume, ExecutorInv, TypeOK
<1>2. CASE lease.holder = p
  BY <1>1, <1>2, ExecutorConstAssumption DEF Owner, Ownership!Acquire
<1>3. CASE lease.holder # p
  BY <1>1, <1>3 DEF Owner, ExecutorInv, TypeOK
<1> QED  BY <1>2, <1>3

\* A claim takes a run that nobody owns, or its own.
LEMMA ClaimAcquires ==
    ASSUME ExecutorInv, NEW p \in Process, Claim(p)
    PROVE  Ownership!Acquire(p) \/ Owner' = Owner
<1>1. pc[p] = "claim" /\ pc'[p] = "leased" /\ lease'.holder = p
  BY DEF Claim, GoesTo, ExecutorInv, TypeOK
<1>2. Owner' = p  BY <1>1, ExecutorConstAssumption DEF Owner
<1>3. Owner \in {p, NoProcess}
  BY DEF Claim, Owner, ExecutorInv, TypeOK
<1> QED  BY <1>2, <1>3 DEF Ownership!Acquire

\* Who leaves gives the run up, if it owned it.
LEMMA LeavingVacates ==
    ASSUME ExecutorInv, NEW p \in Process, Commit(p) \/ Undo(p), pc[p] # "idle"
    PROVE  Ownership!Vacate \/ Owner' = Owner
<1>1. pc'[p] = "idle" /\ \A q \in Process \ {p} : pc'[q] = pc[q]
  BY DEF Commit, Undo, Leaves, ExecutorInv, TypeOK
<1>2. lease.holder # p => lease' = lease  BY DEF Commit, Undo
<1>3. lease.holder = p => lease'.holder \in {p, NoProcess}
  BY DEF Commit, Undo, NoLease
<1>4. CASE lease.holder = p
  BY <1>1, <1>3, <1>4, ExecutorConstAssumption DEF Owner, Ownership!Vacate
<1>5. CASE lease.holder # p
  BY <1>1, <1>2, <1>5 DEF Owner, ExecutorInv, TypeOK
<1> QED  BY <1>4, <1>5

(* The run passes from process to process only by being free, as the lease  *)
(* protocol promises: what the executor takes the lease for, WorkerLease    *)
(* implements (_lease_context, executor.py).                                *)
THEOREM ExecutorImplementsOwnership == Spec => ImplementsOwnership
<1>1. Init => Ownership!Init
  BY DEF Init, NoLease, Ownership!Init, Owner
<1>2. ExecutorInv /\ [Next]_vars => [Ownership!Next]_Owner
  <2> SUFFICES ASSUME ExecutorInv, [Next]_vars PROVE Ownership!Next \/ Owner' = Owner
    OBVIOUS
  <2>1. CASE UNCHANGED vars  BY <2>1 DEF vars, exe, Owner
  <2>2. ASSUME NEW h \in Hitl, Decide(h) PROVE Owner' = Owner
    BY <2>2 DEF Decide, exe, Owner
  <2>3. ASSUME NEW p \in Process, FirstCall(p) \/ Resume(p) \/ Claim(p)
        PROVE  Ownership!Next \/ Owner' = Owner
    BY <2>3, BeginsAcquires, ClaimAcquires DEF Ownership!Next
  <2>4. ASSUME NEW p \in Process, Commit(p) \/ Close(p) \/ Fault(p)
        PROVE  Ownership!Next \/ Owner' = Owner
    BY <2>4, LeavingVacates DEF Commit, Close, Fault, Ownership!Next
  <2>5. ASSUME NEW p \in Process, Step(p), ~Commit(p), ~Close(p) PROVE Owner' = Owner
    <3>1. pc[p] # "idle"
      BY <2>5 DEF Step, Denied, LeaseLost, FailsValidation, StartRun, Finalize,
         StopsAtLayer, SkipsCompleted, TakesDecision, EntersNode, Fails, NodeRaises, AtLayer,
         LastLayerDone, Attempt, Interrupt, Fire, Succeeds, CommitsMidway
    <3> QED  BY <2>5, <3>1, OwnerStays
  <2>6. ASSUME NEW p \in Process, Abort(p) \/ AbortDurably(p) PROVE Owner' = Owner
    BY <2>6 DEF Abort, AbortDurably, exe, Owner
  <2> QED  BY <2>1, <2>2, <2>3, <2>4, <2>5, <2>6 DEF Next
<1> QED  BY <1>1, <1>2, ExecutorInvariant, PTL DEF Spec, ImplementsOwnership, Ownership!Spec
=============================================================================
