-------------------------- MODULE UnifiedExecutor --------------------------
(***************************************************************************)
(* UnifiedExecutor.execute() on ONE run of a DAG workflow, called over and *)
(* over by the tasks and requests of several worker processes: a first     *)
(* call, resumes after a human decision, redeliveries after a crash.       *)
(*                                                                         *)
(* Everything an execute() writes is in the transaction of its caller, who *)
(* commits it long after the nodes' effects have left the system, or, in   *)
(* the case of resume_hitl_task, never.  The run is known to the next call *)
(* by its committed event stream alone.  The stream is kept here as what   *)
(* the executor reads back from it: the status ReplayEngine computes, how  *)
(* often each node completed, and the idempotency keys that later appends  *)
(* and lookups can meet.                                                   *)
(*                                                                         *)
(* The workflow is a chain of nodes 1..N: every layer has one node.  The   *)
(* lease is the mutual exclusion that WorkerLease implements (its limits   *)
(* are shown there): a row of an open transaction makes other claims wait, *)
(* a committed one has them denied.                                        *)
(***************************************************************************)
EXTENDS Naturals, FiniteSets

CONSTANTS
    N,              \* nodes of the workflow
    Hitl,           \* nodes that wait for a human (APPROVAL, HUMAN_REVIEW)
    Irreversible,   \* nodes whose effect_class is IRREVERSIBLE
    Sandbox,        \* nodes whose handler commits the session (SANDBOX)
    MaxRetries,     \* node.max_retries
    Process,        \* worker processes, each with at most one execute() of the run
    MaxFaults,      \* bound on crashes and rollbacks
    NoProcess

Node == 1..N

ASSUME ExecutorConstAssumption ==
    /\ N \in Nat /\ MaxRetries \in Nat /\ MaxFaults \in Nat
    /\ Hitl \subseteq Node /\ Irreversible \subseteq Node \ Hitl
    /\ Sandbox \subseteq Node \ Hitl
    /\ Process # {} /\ NoProcess \notin Process

VARIABLES
    log,      \* the committed stream
    tx,       \* [Process -> what its open transaction adds to the stream and the inbox]
    pc,       \* [Process -> where its execute() is]
    node,     \* [Process -> the node its strategy is at; N + 1 behind the last]
    call,     \* [Process -> what else its execute() keeps]
    signal,   \* [Process -> whether the run's entry in _abort_signals is set]
    lease,    \* the run's lease
    inbox,    \* [Hitl -> status of its newest committed inbox item]
    fired,    \* [Irreversible -> times the node's effect left the system, 2 and more as 2]
    faults

exe  == <<pc, node, call>>
vars == <<log, tx, exe, signal, lease, inbox, fired, faults>>

Terminal == {"completed", "failed", "aborted"}
Status == Terminal \cup {"pending", "executing", "paused"}
RunEvent == Terminal \cup {"started", "abort_requested"}

\* An idempotency key hashes the event's type, node and payload.
EffectKey == [type : {"intent", "confirmed"}, node : Node, payload : {"effect", "wrapped"}]

Stream == [status : Status, logged : SUBSET RunEvent, done : [Node -> 0..2],
           effects : SUBSET EffectKey]
Delta == [status : Status \cup {"same"}, logged : SUBSET RunEvent, done : [Node -> 0..2],
          effects : SUBSET EffectKey, items : SUBSET Hitl]

NoDelta == [status |-> "same", logged |-> {}, done |-> [n \in Node |-> 0],
            effects |-> {}, items |-> {}]

\* commits: the caller passes the nodes of the workflow and commits what execute()
\* did (resume_hitl_task does neither).
Call == [attempt : 0..MaxRetries, anyFailed : BOOLEAN,
         result : Terminal \cup {"none", "paused", "already_running"},
         commits : BOOLEAN]
CallWith(result, commits) ==
    [attempt |-> 0, anyFailed |-> FALSE, result |-> result,
     commits |-> commits]
NoCall == CallWith("none", FALSE)
Place == {"idle", "claim", "leased", "layer", "node", "dispatch", "called",
          "finalize", "returned"}
NoLease == [holder |-> NoProcess, durable |-> FALSE]

TypeOK ==
    /\ log \in Stream
    /\ tx \in [Process -> Delta]
    /\ pc \in [Process -> Place]
    /\ node \in [Process -> 1..(N + 1)]
    /\ call \in [Process -> Call]
    /\ signal \in [Process -> BOOLEAN]
    /\ lease \in [holder : Process \cup {NoProcess}, durable : BOOLEAN]
    /\ inbox \in [Hitl -> {"none", "pending", "approved", "rejected"}]
    /\ fired \in [Irreversible -> 0..2]
    /\ faults \in 0..MaxFaults

Init ==
    /\ log = [status |-> "pending", logged |-> {}, done |-> [n \in Node |-> 0],
              effects |-> {}]
    /\ tx = [p \in Process |-> NoDelta]
    /\ pc = [p \in Process |-> "idle"]
    /\ node = [p \in Process |-> 1]
    /\ call = [p \in Process |-> NoCall]
    /\ signal = [p \in Process |-> FALSE]
    /\ lease = NoLease
    /\ inbox = [h \in Hitl |-> "none"]
    /\ fired = [n \in Irreversible |-> 0]
    /\ faults = 0

-----------------------------------------------------------------------------
(* What a session reads and writes *)

Upto2(k) == IF k > 2 THEN 2 ELSE k

\* The stream as process p's session sees it, and as p's commit leaves it.
View(p) ==
    [status  |-> IF tx[p].status = "same" THEN log.status ELSE tx[p].status,
     logged  |-> log.logged \cup tx[p].logged,
     done    |-> [n \in Node |-> Upto2(log.done[n] + tx[p].done[n])],
     effects |-> log.effects \cup tx[p].effects]

RunExists == log.logged # {} \/ \E n \in Node : log.done[n] > 0

\* append() of an event that sets the run's status.  The payload of the same
\* kind of event may be another one: then its key is new and it is stored again.
Logs(p, event, status) ==
    \/ /\ event \notin View(p).logged \/ event \in {"failed", "aborted"}
       /\ tx' = [tx EXCEPT ![p] =
             [status |-> status, logged |-> @.logged \cup {event}, done |-> @.done,
              effects |-> @.effects, items |-> @.items]]
    \/ event \in View(p).logged /\ UNCHANGED tx

Stages(p, type, n) ==
    tx' = [tx EXCEPT ![p].effects =
              @ \cup {[type |-> type, node |-> n, payload |-> "wrapped"]}]

\* find_by_idempotency_key, with the key of the bare effect.
Finds(p, type, n) == [type |-> type, node |-> n, payload |-> "effect"] \in View(p).effects

GoesTo(p, at) == pc' = [pc EXCEPT ![p] = at] /\ UNCHANGED <<node, call>>
EndsWith(p, at, status) ==
    /\ pc' = [pc EXCEPT ![p] = at]
    /\ call' = [call EXCEPT ![p].result = status]
    /\ UNCHANGED node
Returns(p, status) == EndsWith(p, "returned", status)

\* Mutation of NextLayer: the failure is not counted.
ForgetsFailure(p, ok) ==
    /\ pc' = [pc EXCEPT ![p] = "layer"]
    /\ node' = [node EXCEPT ![p] = @ + 1]
    /\ UNCHANGED call

\* The node is over; the strategy moves on to the next layer.
NextLayer(p, ok) ==
    /\ pc' = [pc EXCEPT ![p] = "layer"]
    /\ node' = [node EXCEPT ![p] = @ + 1]
    /\ call' = [call EXCEPT ![p] =
          [attempt |-> 0, anyFailed |-> @.anyFailed \/ ~ok, result |-> @.result,
           commits |-> @.commits]]

-----------------------------------------------------------------------------
(* execute(): resume checks, lease, start *)

\* RunService.execute, the mission tasks and the API commit when it returns.
FirstCall(p) ==
    /\ pc[p] = "idle" /\ ~RunExists
    /\ pc' = [pc EXCEPT ![p] = "claim"]
    /\ call' = [call EXCEPT ![p] = CallWith("none", TRUE)]
    /\ UNCHANGED <<log, tx, node, signal, lease, inbox, fired, faults>>

\* By resume_hitl_task for an inbox item, which converts the mission without its
\* tasks and commits nothing of the call, or by a RunService.execute that overlaps
\* an earlier one.
ResumeCommits(commits) == commits \/ \E h \in Hitl : inbox[h] # "none"

\* validate_resume_state: a node that completed twice.
Unresumable == \E n \in Node : log.done[n] > 1

\* The resume path runs before the lease is claimed: what it reads can be out of
\* date by the time it holds the lease.
Resume(p) ==
    LET aborted == "abort_requested" \in log.logged
        Enters(at, result) ==
            /\ pc' = [pc EXCEPT ![p] = at]
            /\ \E commits \in BOOLEAN :
                  /\ ResumeCommits(commits)
                  /\ call' = [call EXCEPT ![p] = CallWith(result, commits)]
    IN
    /\ pc[p] = "idle" /\ RunExists
    /\ signal' = [signal EXCEPT ![p] = aborted]
    /\ \/ /\ Unresumable
          /\ Logs(p, "failed", "failed") /\ Enters("returned", "failed")
       \/ /\ ~Unresumable
          /\ IF log.status \in Terminal THEN Enters("returned", log.status)
             ELSE Enters("claim", "none")
          /\ UNCHANGED tx
    /\ UNCHANGED <<log, node, lease, inbox, fired, faults>>

\* Mutation of Claim: the lease excludes nobody.
ClaimsRegardless(p) ==
    /\ pc[p] = "claim"
    /\ lease' = [holder |-> p, durable |-> FALSE]
    /\ GoesTo(p, "leased")
    /\ UNCHANGED <<log, tx, signal, inbox, fired, faults>>

\* A free lease, one's own, or one whose holder is gone and that has expired.
Claim(p) ==
    /\ pc[p] = "claim"
    /\ \A q \in Process \ {p} : lease.holder = q => pc[q] = "idle"
    /\ lease' = [holder |-> p, durable |-> lease.holder = p /\ lease.durable]
    /\ GoesTo(p, "leased")
    /\ UNCHANGED <<log, tx, signal, inbox, fired, faults>>

Denied(p) ==
    /\ pc[p] = "claim"
    /\ lease.holder \notin {NoProcess, p} /\ lease.durable
    /\ Returns(p, "already_running")
    /\ UNCHANGED <<log, tx, signal, lease, inbox, fired, faults>>

\* The heartbeat found the lease gone; looked at twice before the strategy runs.
LeaseLost(p) ==
    /\ pc[p] = "leased" \/ (pc[p] = "layer" /\ node[p] = 1)
    /\ Logs(p, "aborted", "aborted") /\ Returns(p, "aborted")
    /\ UNCHANGED <<log, signal, lease, inbox, fired, faults>>

\* DAGStrategy.validate: a workflow without nodes fails (a failure that also
\* replaces the status of MISSION_STARTED, stored just before).
FailsValidation(p) ==
    /\ pc[p] = "leased" /\ ~call[p].commits
    /\ Logs(p, "failed", "failed") /\ Returns(p, "failed")
    /\ UNCHANGED <<log, signal, lease, inbox, fired, faults>>

\* MISSION_STARTED is stored once per run; the abort signal is a new Event.
StartRun(p) ==
    /\ pc[p] = "leased" /\ call[p].commits
    /\ Logs(p, "started", "executing")
    /\ signal' = [signal EXCEPT ![p] = FALSE]
    /\ GoesTo(p, "layer")
    /\ UNCHANGED <<log, lease, inbox, fired, faults>>

-----------------------------------------------------------------------------
(* DAGStrategy.execute() and execute_node() *)

AtLayer(p) == pc[p] = "layer" /\ node[p] <= N
Decided(n) == n \in Hitl /\ inbox[n] \in {"approved", "rejected"}

StopsAtLayer(p) ==
    /\ AtLayer(p) /\ signal[p]
    /\ EndsWith(p, "finalize", "aborted")
    /\ UNCHANGED <<log, tx, signal, lease, inbox, fired, faults>>

\* execute_node's guard: the node completed in an earlier call.
SkipsCompleted(p) ==
    /\ AtLayer(p) /\ ~signal[p]
    /\ View(p).done[node[p]] > 0
    /\ NextLayer(p, TRUE)
    /\ UNCHANGED <<log, tx, signal, lease, inbox, fired, faults>>

\* Mutation of TakesDecision: any answer lets the run through.
TakesAnyAnswer(p) ==
    /\ AtLayer(p) /\ ~signal[p] /\ Decided(node[p])
    /\ NextLayer(p, TRUE)
    /\ UNCHANGED <<log, tx, signal, lease, inbox, fired, faults>>

\* _check_hitl_resume: the answer is the node's result, no event records it.
TakesDecision(p) ==
    /\ AtLayer(p) /\ ~signal[p] /\ Decided(node[p])
    /\ NextLayer(p, inbox[node[p]] = "approved")
    /\ UNCHANGED <<log, tx, signal, lease, inbox, fired, faults>>

\* Mutation of EntersNode: no lookup of the node's completion.
EntersCompleted(p) ==
    /\ AtLayer(p) /\ ~signal[p] /\ ~Decided(node[p])
    /\ GoesTo(p, "node")
    /\ UNCHANGED <<log, tx, signal, lease, inbox, fired, faults>>

EntersNode(p) ==
    /\ AtLayer(p) /\ ~signal[p]
    /\ View(p).done[node[p]] = 0 /\ ~Decided(node[p])
    /\ GoesTo(p, "node")
    /\ UNCHANGED <<log, tx, signal, lease, inbox, fired, faults>>

\* An attempt begins: the abort signal, and for an irreversible node the lookups
\* of its confirmation and of its intent, and the intent's STAGE.
Attempt(p) ==
    /\ pc[p] = "node"
    /\ IF signal[p] THEN NextLayer(p, FALSE) /\ UNCHANGED tx
       ELSE IF node[p] \notin Irreversible THEN GoesTo(p, "dispatch") /\ UNCHANGED tx
       ELSE IF Finds(p, "confirmed", node[p]) THEN NextLayer(p, TRUE) /\ UNCHANGED tx
       ELSE IF Finds(p, "intent", node[p]) THEN NextLayer(p, FALSE) /\ UNCHANGED tx
       ELSE GoesTo(p, "dispatch") /\ Stages(p, "intent", node[p])
    /\ UNCHANGED <<log, signal, lease, inbox, fired, faults>>

\* _handle_hitl_interrupt and _handle_hitl_pause: a new inbox item unless one is
\* pending; the pause of an item is stored once.
Interrupt(p) ==
    /\ pc[p] = "dispatch" /\ node[p] \in Hitl
    /\ IF inbox[node[p]] = "pending" THEN UNCHANGED tx
       ELSE tx' = [tx EXCEPT ![p] =
               [status |-> "paused", logged |-> @.logged, done |-> @.done,
                effects |-> @.effects, items |-> @.items \cup {node[p]}]]
    /\ Returns(p, "paused")
    /\ UNCHANGED <<log, signal, lease, inbox, fired, faults>>

\* SandboxService commits the session before the sandbox is used.
CommitsMidway(p) ==
    /\ pc[p] = "dispatch" /\ node[p] \in Sandbox
    /\ tx[p] # NoDelta \/ ~lease.durable
    /\ log' = View(p)
    /\ tx' = [tx EXCEPT ![p] = NoDelta]
    /\ lease' = [lease EXCEPT !.durable = TRUE]
    /\ UNCHANGED <<exe, signal, inbox, fired, faults>>

\* The handler does what the node is for.
Fire(p) ==
    /\ pc[p] = "dispatch" /\ node[p] \notin Hitl
    /\ fired' = [n \in Irreversible |->
          IF n = node[p] THEN Upto2(fired[n] + 1) ELSE fired[n]]
    /\ GoesTo(p, "called")
    /\ UNCHANGED <<log, tx, signal, lease, inbox, faults>>

\* CONFIRM, then TASK_COMPLETED, whose payload (latency) is never the same twice.
Succeeds(p) ==
    /\ pc[p] = "called"
    /\ tx' = [tx EXCEPT ![p] =
          [status |-> @.status, logged |-> @.logged,
           done |-> [n \in Node |-> IF n = node[p] THEN Upto2(tx[p].done[n] + 1)
                                    ELSE tx[p].done[n]],
           effects |-> @.effects \cup
              {[type |-> "confirmed", node |-> n, payload |-> "wrapped"] :
                 n \in {node[p]} \cap Irreversible},
           items |-> @.items]]
    /\ NextLayer(p, TRUE)
    /\ UNCHANGED <<log, signal, lease, inbox, fired, faults>>

Retries(p) ==
    /\ pc' = [pc EXCEPT ![p] = "node"]
    /\ call' = [call EXCEPT ![p].attempt = @ + 1]
    /\ UNCHANGED node

\* Mutations of Fails: one retry too many; a retry that is not counted.
RetriesOnceMore(p) ==
    /\ pc[p] = "called" /\ node[p] \notin Irreversible
    /\ IF call[p].attempt <= MaxRetries THEN Retries(p) ELSE NextLayer(p, FALSE)
    /\ UNCHANGED <<log, tx, signal, lease, inbox, fired, faults>>

RetriesForGood(p) ==
    /\ pc[p] = "called" /\ node[p] \notin Irreversible
    /\ GoesTo(p, "node")
    /\ UNCHANGED <<log, tx, signal, lease, inbox, fired, faults>>

\* A failure before or after the effect.  An irreversible node is not retried.
Fails(p) ==
    /\ pc[p] = "called" \/ (pc[p] = "dispatch" /\ node[p] \notin Hitl)
    /\ IF node[p] \notin Irreversible /\ call[p].attempt < MaxRetries
       THEN Retries(p)
       ELSE NextLayer(p, FALSE)
    /\ UNCHANGED <<log, tx, signal, lease, inbox, fired, faults>>

\* BudgetExhausted, or an error outside the handler: gather(return_exceptions)
\* makes a failed node of it, wherever the node was.
NodeRaises(p) ==
    /\ pc[p] \in {"node", "dispatch", "called"}
    /\ NextLayer(p, FALSE)
    /\ UNCHANGED <<log, tx, signal, lease, inbox, fired, faults>>

LastLayerDone(p) ==
    /\ pc[p] = "layer" /\ node[p] > N
    /\ EndsWith(p, "finalize", IF call[p].anyFailed THEN "failed" ELSE "completed")
    /\ UNCHANGED <<log, tx, signal, lease, inbox, fired, faults>>

\* Mutation of Finalize: every status but "completed" is stored as a failure.
FinalizesAsFailed(p) ==
    /\ pc[p] = "finalize"
    /\ LET event == IF call[p].result = "completed" THEN "completed" ELSE "failed"
       IN  Logs(p, event, event)
    /\ signal' = [signal EXCEPT ![p] = FALSE]
    /\ GoesTo(p, "returned")
    /\ UNCHANGED <<log, lease, inbox, fired, faults>>

Finalize(p) ==
    /\ pc[p] = "finalize"
    /\ Logs(p, call[p].result, call[p].result)
    /\ signal' = [signal EXCEPT ![p] = FALSE]
    /\ GoesTo(p, "returned")
    /\ UNCHANGED <<log, lease, inbox, fired, faults>>

-----------------------------------------------------------------------------
(* The caller ends the transaction; failures; aborts; humans *)

\* An entry of _abort_signals that is left behind is replaced by the next call.
Leaves(p) ==
    /\ tx' = [tx EXCEPT ![p] = NoDelta]
    /\ pc' = [pc EXCEPT ![p] = "idle"]
    /\ node' = [node EXCEPT ![p] = 1]
    /\ call' = [call EXCEPT ![p] = NoCall]
    /\ signal' = [signal EXCEPT ![p] = FALSE]

\* The lease is released in the caller's transaction.
Commit(p) ==
    /\ pc[p] = "returned" /\ call[p].commits
    /\ log' = View(p)
    /\ inbox' = [h \in Hitl |-> IF h \in tx[p].items THEN "pending" ELSE inbox[h]]
    /\ lease' = IF lease.holder = p THEN NoLease ELSE lease
    /\ Leaves(p)
    /\ UNCHANGED <<fired, faults>>

\* A committed lease outlives the transaction that would have released it.
Undo(p) ==
    /\ lease' = IF lease = [holder |-> p, durable |-> FALSE] THEN NoLease ELSE lease
    /\ Leaves(p)
    /\ UNCHANGED <<log, inbox, fired>>

\* resume_hitl_task closes its session.
Close(p) ==
    /\ pc[p] = "returned" /\ ~call[p].commits
    /\ Undo(p)
    /\ UNCHANGED faults

\* An exception leaves execute(), the commit fails, or the process dies.
Fault(p) ==
    /\ pc[p] # "idle" /\ faults < MaxFaults
    /\ faults' = faults + 1
    /\ Undo(p)

\* abort() as the API calls it: the signal alone.
Abort(p) ==
    /\ pc[p] # "idle" /\ ~signal[p]
    /\ signal' = [signal EXCEPT ![p] = TRUE]
    /\ UNCHANGED <<log, tx, exe, lease, inbox, fired, faults>>

\* abort(db=...): the event first, in a session of the caller's, which commits it.
AbortDurably(p) ==
    /\ ~signal[p] /\ "abort_requested" \notin log.logged
    /\ log' = [log EXCEPT !.logged = @ \cup {"abort_requested"}]
    /\ signal' = [signal EXCEPT ![p] = pc[p] # "idle"]
    /\ UNCHANGED <<tx, exe, lease, inbox, fired, faults>>

\* An inbox item is approved, rejected, or expires.
Decide(h) ==
    /\ inbox[h] = "pending"
    /\ \E d \in {"approved", "rejected"} : inbox' = [inbox EXCEPT ![h] = d]
    /\ UNCHANGED <<log, tx, exe, signal, lease, fired, faults>>

\* A step of execute() and of the caller that ends its transaction.
Step(p) ==
    \/ Denied(p) \/ LeaseLost(p) \/ FailsValidation(p) \/ StartRun(p)
    \/ StopsAtLayer(p) \/ SkipsCompleted(p) \/ TakesDecision(p) \/ EntersNode(p)
    \/ Attempt(p) \/ Interrupt(p) \/ CommitsMidway(p) \/ Fire(p)
    \/ Succeeds(p) \/ Fails(p) \/ NodeRaises(p)
    \/ LastLayerDone(p) \/ Finalize(p) \/ Commit(p) \/ Close(p)

Next ==
    \/ \E p \in Process :
          \/ FirstCall(p) \/ Resume(p) \/ Claim(p) \/ Step(p)
          \/ Fault(p) \/ Abort(p) \/ AbortDurably(p)
    \/ \E h \in Hitl : Decide(h)

Spec == Init /\ [][Next]_vars

\* The event loop drives an execute() that has begun, and a lease that is free
\* or expired again and again is claimed in the end.
CallsEnd == \A p \in Process : WF_vars(Step(p)) /\ SF_vars(Claim(p))

CallSpec == Spec /\ CallsEnd

-----------------------------------------------------------------------------
(* Properties *)

(* A completed node never runs again, in whatever process the run is called *)
(* next: the lookup of its completion is made under the lease, after every  *)
(* commit that could have completed it (execute_node, executor.py).         *)
CompletedNeverRefires ==
    [][\A p \in Process : Fire(p) => log.done[node[p]] = 0]_vars

(* No node completes twice, so that no run becomes unresumable: concurrent  *)
(* and repeated calls, rollbacks and mid-run commits notwithstanding        *)
(* (execute_node, executor.py; validate_resume_state).                      *)
CompletedOnce == \A n \in Node : log.done[n] <= 1

(* A run ends as completed only if each node completed or was approved.     *)
CompletedMeansAll ==
    log.status = "completed" =>
        \A n \in Node : log.done[n] > 0 \/ (n \in Hitl /\ inbox[n] = "approved")

(* The call that ends or pauses a run reports the status the committed      *)
(* stream then replays to (_execute_inner_run, _finalize_run,               *)
(* _handle_hitl_pause).  Of a run that had ended already this is not true:  *)
(* its terminal event may be skipped as a repetition.                       *)
ReportedIsReplayed ==
    [][\A p \in Process :
          (Commit(p) /\ call[p].result # "already_running" /\ log.logged \cap Terminal = {})
             => log'.status = call[p].result]_vars

(* A call in which no node has failed runs nothing behind a gate that no    *)
(* human has approved (_check_hitl_resume, _handle_hitl_interrupt;          *)
(* DAGStrategy.execute re-raises HITLPaused).                               *)
GateHolds ==
    [][\A p \in Process : (Fire(p) /\ ~call[p].anyFailed) =>
          \A h \in Hitl : h < node[p] => inbox[h] = "approved"]_vars

(* Every call of execute() ends: nobody waits for ever behind the lease of a *)
(* call that was rolled back, crashed or committed half-way, and no node is *)
(* retried without end (_lease_context, executor.py; NodeExecutor.execute). *)
CallEnds == \A p \in Process : pc[p] # "idle" ~> pc[p] = "idle"

-----------------------------------------------------------------------------
(* The inductive invariant behind CompletedOnce and CompletedNeverRefires *)

Inside == {"leased", "layer", "node", "dispatch", "called", "finalize"}
InNode == {"node", "dispatch", "called"}

\* Who runs the strategy, or has completions to commit, holds the lease.
LeaseGuardsWork ==
    \A p \in Process :
        /\ pc[p] \in Inside => lease.holder = p
        /\ \A n \in Node :
              tx[p].done[n] # 0 => lease.holder = p /\ pc[p] # "idle"

\* A completion is committed, or waits for one commit, or is yet to come.
NodesCompleteOnce ==
    \A p \in Process :
        /\ \A n \in Node : log.done[n] + tx[p].done[n] <= 1
        /\ pc[p] \in InNode =>
              node[p] <= N /\ log.done[node[p]] + tx[p].done[node[p]] = 0

\* The strategy reports a status that a terminal event exists for.
OutcomeKnown == \A p \in Process : pc[p] = "finalize" => call[p].result \in Terminal

(* The executor's inductive invariant: type correctness, the lease as the   *)
(* right to work on the run, and each completion stored at most once        *)
(* (execute, execute_node, executor.py).                                    *)
ExecutorInv == TypeOK /\ LeaseGuardsWork /\ NodesCompleteOnce /\ OutcomeKnown

-----------------------------------------------------------------------------
(* What the executor implements *)

Approved == {h \in Hitl : inbox[h] = "approved"}

Run == INSTANCE DurableRun WITH
           Gate <- Hitl, Watched <- Irreversible,
           status <- log.status, done <- log.done, approved <- Approved

(* Many calls, crashes and rollbacks leave a stream as one call might have: *)
(* each commit completes only nodes that had not completed and had taken    *)
(* effect, takes an answer back only to pause, and completes the run only   *)
(* when all is done (execute, execute_node, _finalize_run, executor.py).    *)
ImplementsRun == Run!Spec

\* Who is at work on the run: a lease whose holder has left is nobody's.
Owner == IF lease.holder # NoProcess /\ pc[lease.holder] # "idle" THEN lease.holder ELSE NoProcess

Ownership == INSTANCE RunOwnership WITH Worker <- Process, Nobody <- NoProcess, holder <- Owner

(* The executor assumes of the lease what WorkerLease's protocol promises:  *)
(* the run passes from process to process only by being free                *)
(* (_lease_context, executor.py).                                           *)
ImplementsOwnership == Ownership!Spec

-----------------------------------------------------------------------------
(* What the documentation says of a run, and the code does not do *)

(* node_executor.py:705-707: "If so, skip the external call and return a    *)
(* replayed success -- no double-fire after a crash between dispatch and    *)
(* confirmation."  Intent and confirmation are in the transaction the crash *)
(* undoes, and are stored under another key than the one looked up.         *)
EffectFiresOnce == \A n \in Irreversible : fired[n] <= 1
=============================================================================
