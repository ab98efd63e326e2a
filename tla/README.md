# Flowmanner's execution substrate in TLA+

Flowmanner (`src/backend/app`) runs *workflows* (missions, blueprints) made of LLM
calls, tools, sandboxes and human approvals. FastAPI requests and Celery tasks in
several OS processes execute them over one PostgreSQL database (SQLAlchemy async,
READ COMMITTED). What makes a run survive a crash, a redelivered task or a week of
waiting for a human is its *substrate*: an append-only event stream, replayed on
resume, and a worker lease that keeps two workers off one run. Around it are the rows
that users and background tasks change together: missions, inbox items, budgets,
idempotency keys. This directory models the substrate and these rows, checks them with
TLC and proves their invariants with TLAPS.

Paths are relative to `src/backend/app/`; bare file names are in `services/substrate/`.

## 1. Inventory

| component | state | operations | interacts through | hard behaviour | correct means |
|---|---|---|---|---|---|
| **Worker lease** `leases.py`, `lease_manager.py`, `lease_reclaimer.py` | one row per run: worker, expiry, generation | claim, renew, release; scan and reclaim | the caller's session: it never commits itself | row locks held for as long as a run, a `now()` as old as the transaction, crashes, failing scans | one worker per run; only its owner touches an unexpired lease; a dead worker's lease goes; nobody waits for ever |
| **Event log** `event_log.py`, `models/substrate_models.py` | rows (run, sequence, idempotency key) | append, reads | every writer of a run (executor, abort, HITL, reclaimer) | check-then-act over several statements, IntegrityError, deadlock | no key twice, causal order, nothing acknowledged is lost |
| **Replay** `replay_engine.py` | the rebuilt state | `rebuild_state` in pages | reads while others append | rows that appear between pages | everything committed before is applied |
| **Unified executor** `executor.py`, `node_executor.py`, `strategies/dag.py`, `resume_validation.py`, `hitl_pause.py` | abort signals (in memory); everything else in the stream | execute, abort, pause, resume | lease, log, inbox, and the caller, who commits | one transaction per execute() that a sandbox commits in the middle; crash, redelivery, overlap; the human's answer at any time | no completed node runs again; a gate holds; the outcome reported is the outcome stored; calls end |
| **Mission lifecycle** `models/mission_models.py`, `api/_mission_cqrs/commands.py`, `api/v2/missions.py`, `services/mission_service.py`, `tasks/mission_execution.py`, `tasks/hitl_resume.py`, `tasks/expire_paused_missions.py`, `services/mission_compensation_service.py` | the mission's status, paused_at, compensated_at; the outbox; the Celery queue | queue, start, pause, resume, retry, patch, approve, reject, abort, batch abort, expire, compensate | one row, written with and without locks; the broker | stale copies, lost updates, redelivery, a commit that gives up locks in the middle of a loop, crash between failure and compensation | one start per queueing; one compensation, for a timeout only; who locks writes legally; nothing stays queued or paused for ever |
| **HITL inbox** `services/hitl_service.py`, `api/v1/hitl.py`, `tasks/hitl_expiry.py`, `services/memory/background_review_service.py` | inbox items, pending memory writes | approve, reject, clarify, bulk, expire | item and write rows; dispatch of resumes before the commit | unlocked answer against locked expiry, deadlock of item and write, best-effort errors, failed dispatch | an answer survives an expiry; item and write are decided together; an approval is signalled; nothing stale stays |
| **Budget** `models/capability_models.py`, `services/budget_enforcer.py`, `node_executor.py`, `strategies/dag.py` | spent, iterations, depth, shared by the branches of a run | check, call, charge, reserve, refund | an object in memory, between awaits | check, await, charge; retries; sub-workflows that fail or overrun | bounded overshoot, balanced books, the run ends |
| **Idempotent requests** `api/v2/idempotency.py`, `models/idempotency.py`, `api/_mission_cqrs/base.py` | one row per key | look up, insert, replay, finalise | the command's session, then one of the middleware's own | racing retries, expiry, a row that is undone with the command, a response that is never stored | one effect per lifetime of a key; a replay is the own answer; no request hangs |
| Other strategies `solo, graph, pipeline, swarm, meta, langgraph` | local | `execute` | `execute_node` | pauses and reviews turned into control flow | as the DAG's |
| Circuit breakers, provider fallback | failure counters | check, record | nodes | check-then-act | see `PROJECT.json` |
| Triggers and programs, swarm service, event bus and SSE, webhooks, auth, memory and RAG, chat, sandbox daemon, API, CLI, SDK, connectors | own tables | - | services | - | see section 7 and `PROJECT.json` |

Callers and their transactions, which most of the hard behaviour comes from:

* `RunService.execute` and the API commit after `execute()` returned;
  `mission_execution` commits before it (QUEUED to RUNNING) and after it, and rolls
  back when it raises; `resume_hitl_task` commits before it and not after.
* `EventLog.append`, `try_claim_lease` and the rest of the substrate only flush.
* `SandboxService.create/reap` commits the session it was lent, in the middle of a run.
* An IntegrityError inside `append` rolls the whole session back.
* The sessions neither flush on their own nor expire on commit (`database.py:28`): an
  object read once keeps its attributes for the rest of the session, and an UPDATE
  names the primary key only.

`PROJECT.json` lists the hazards at their lines, and the property that watches each.

## 2. Modules

| module | models |
|---|---|
| `RunOwnership` | the promise of a lease: a run has at most one owner and changes hands only by being free |
| `WorkerLease` | claim, heartbeat, release, reclaimer of one run's lease; implements `RunOwnership` |
| `EventStream` | the promise of the event log: a stream that grows by whole transactions of new events, each numbered without ties and above all that its appender knew |
| `EventLog` | concurrent `append()`s to one run's stream, and a paged replay beside them; implements `EventStream` |
| `DurableRun` | the promise of durable execution: nodes complete at most once and after their effect, approvals are withdrawn by a pause only, a run is completed when all is done |
| `UnifiedExecutor` | `execute()` of a DAG run, called repeatedly by several processes, with its callers, aborts and humans; implements `DurableRun` and `RunOwnership` |
| `Compensation` | the promise to the owner of a mission paused for too long: failure and log entry together, then one claim, one credit, one notice |
| `MissionLifecycle` | the mission rows and everybody who writes their status; implements `Compensation` |
| `InboxDecisions` | the promise of the inbox: each commit is one verdict of a request or a first expiry by the policy, of items and writes together |
| `HitlInbox` | inbox items and the memory writes behind them, answered or expired; implements `InboxDecisions` |
| `RunBudget` | the budget of a run whose branches run side by side |
| `OncePerKey` | the promise of an idempotency key: one request at a time is executed, once in the key's lifetime, the others are told its answer or refused |
| `IdempotentRequest` | retried requests under one Idempotency-Key; implements `OncePerKey` |
| `MC*` | values for TLC |
| `*Proofs` | theorems and proofs |

The modules meet where the code's components do. `UnifiedExecutor` has the lease
(reduced to `RunOwnership`, which `WorkerLease` is proved to implement and
`UnifiedExecutor` to use), the stream (reduced to
what replay reads back) and the inbox (an answer that comes at any time).
`MissionLifecycle` and `HitlInbox` dispatch the tasks whose executions
`UnifiedExecutor` runs: a task's `execute()` is one step there (`Finish`), since the
mission's status is written before and not after it. `IdempotentRequest` wraps a
command of `MissionLifecycle`, `RunBudget` the layers of `UnifiedExecutor`.

### WorkerLease

`row` is the committed row; `work` the row as the transaction that has locked it sees
it; `lock` who that is; `txNow[p]` the `now()` of p's open transaction. Every action
is one SQL statement with the code around it: `FastPath` (`get_active_lease` in
`try_claim_lease`), `Upsert` (insert or overwrite an expired row; a rejected upsert
still locks it), `Existing` (already running, or try once more), `ClaimRaises`
("proceed without lease"), `Heartbeat`, `HeartbeatRaises`, `Leave` (the `finally`:
release), `EndTx` (the caller), `Scan`, `ReclaimClaim`, `ReclaimRelease`, `ScanCommit`,
`ScanRaises`. `NodeCommits` and `AppendConflicts` are the commit and the rollback that
the run itself causes half-way. `Crash` kills an OS process; PostgreSQL undoes what it
had open. Not in it: the LEASE_RELEASED event, sleeping intervals, other runs' rows
(`run_id` is unique).

Two executions of *one process* share a worker id (host and pid) and both pass the
fast path; `ActiveLeaseExclusive` therefore speaks of workers.

### EventLog

`log` holds the committed rows, `open[s]` those flushed by session s, `call[s]` the
`append` under way (`ReadTail`, `CheckLimit`, `Dedup` per event, `Insert` per row,
`Return` or `Conflict`). An event is its key. `after` is a ghost: the keys its writer
saw when it appended. An INSERT of a key in another open transaction waits;
`DeadlockVictim` is PostgreSQL's choice when waits form a cycle. `told` and
`conflicted` are ghosts too: what append returned from in this transaction, and
whether an IntegrityError emptied it. `ReadPage` is one `get_events` call of
`rebuild_state`, a snapshot of its own, continued behind the last sequence of the
page; ties in the sequence come in any order.

### UnifiedExecutor

The committed stream `log` is kept as what the executor reads back: the replayed
status, which run events exist, how often each node completed, and the effect keys.
`tx[p]` is what p's open transaction adds to it, `View(p)` the two together.

| action | code |
|---|---|
| `FirstCall`, `Resume` | `execute()` up to the lease: re-arm the abort signal, `validate_resume_state` (`Unresumable`), return the outcome of a run that has ended |
| `Claim`, `Denied`, `LeaseLost` | `_lease_context`, with `WorkerLease` reduced to mutual exclusion: a lease of an open transaction makes others wait, a committed one (`durable`) has them denied, the lease of a call that is gone expires |
| `FailsValidation`, `StartRun` | `_execute_inner_run`: validate; MISSION_STARTED and a fresh abort signal |
| `StopsAtLayer`, `SkipsCompleted`, `TakesDecision`, `EntersNode` | a layer of `DAGStrategy.execute`, `execute_node`'s idempotency guard, `_check_hitl_resume` |
| `Attempt`, `Fire`, `Succeeds`, `Fails`, `NodeRaises` | `NodeExecutor.execute`: abort check, lookups and STAGE of an irreversible node, dispatch, CONFIRM and TASK_COMPLETED, retries |
| `Interrupt` | `_handle_hitl_interrupt` and `_handle_hitl_pause` |
| `CommitsMidway` | `SandboxService` commits the session |
| `LastLayerDone`, `Finalize` | the strategy's result and `_finalize_run` |
| `Commit`, `Close`, `Fault` | the caller commits; `resume_hitl_task` does not; a crash, a rollback or an exception |
| `Abort`, `AbortDurably`, `Decide` | the environment |

`execute()` is modelled by its own contract ("run_id: Optional existing run ID (for
crash recovery)"), which admits more callers than there are today: `RunService` holds
the run's row until a sandbox commits it, `mission_execution` starts only what is
QUEUED, and only tests pass `db` to `abort()` (`tests/test_idempotency_replay.py:185`;
`run_service.py:214` and `commands.py:683` do not). A call that does not commit is
`resume_hitl_task`'s, which also converts the mission without its tasks.

Abstractions: the workflow is a chain, one node per layer (concurrency inside a layer
is in `RunBudget`; no CONDITION or LOOP); each process has at most one call of the run;
conflicts in appends are `EventLog`'s business, two calls under one worker id and calls
without a lease are outside (`WorkerLease` shows that the claim can fail open);
`validate_resume_state` reads the whole stream (the code: its first 100 events); the
payload of a node's completion is never the same twice (it holds a latency), that of a
failure or abort may be; an abort signal left behind by a call that raised is dropped,
since the next call replaces it before it is read.

### MissionLifecycle

`status[m]` is the committed status, `owner[m]` the session that holds the row's lock,
`copy[s]` what session s read; a session without a lock decides on its copy and then
overwrites the row. The SQLAlchemy listener (`CanTransition`) judges the copy.

| action | code |
|---|---|
| `Request`, `Write`, `Refuse` | a command of the API reads the mission, then assigns, flushes and commits, or is refused by its own check or the listener. `Command` gives for each what it accepts and assigns: `execute_async`, `pause`, `resume`, `retry`, PATCH, `approve_task` and `reject_task` of v2, and an answer in the inbox, which changes no mission but dispatches a resume |
| `Dispatch`, `DispatchFails` | `send_task` after the commit; the outbox row when the broker is away |
| `AbortSelect`, `AbortCommit` | `abort_mission`, `batch_abort`: FOR UPDATE SKIP LOCKED, one commit |
| `Take`, `LockRow`, `Start`, `Finish`, `Raise`, `ReadFailed`, `MarkFailed` | `ExecuteMissionTask`: row lock, "only if QUEUED", RUNNING, execute; on an exception rollback, FAILED in a session of its own (unlocked), Celery retry |
| `ReadResume`, `WriteResume`, `ResumeRaises` | `_resume_async` |
| `Scan`, `ExpireNext`, `Fail`, `FailConflicts` | `_expire_async` and `_expire_one`: all rows locked by one SELECT, all locks gone with the first commit; the event's idempotency key stops a second failure unless its append was skipped (`fail_again`) |
| `Claim`, `Refund`, `Notify` | `CompensationService.run` |
| `Age`, `Crash` | seven days; a process dies, its transaction is undone, an unacknowledged task comes back (`acks_late`; the expiry's does not) |

`refunds`, `notices`, `starts` and `queueings` are ghosts. Facts the model shows and no
property states: nothing sweeps the outbox, so that a mission whose dispatch failed
stays QUEUED; one whose expirer dies between failure and claim is never compensated;
`resume`, `retry` and v2 `approve` always end in the listener's error (PAUSED to QUEUED
and FAILED to PENDING are not in the table); pause, PATCH, reject, the resume task and
`MarkFailed` overwrite whatever was committed since they read.

### HitlInbox

`item[i]` and `write[i]` are the committed rows, `newItem[s]` and `newWrite[s]` what
session s has flushed, `itemLock` and `writeLock` the row locks that go with that.
`Request` is approve, reject or clarify of one item or a bulk of several; `NextItem`
reads the next item (unlocked, from the identity map from then on); `ReadWrite` and
`ApplyWrite` are `resolve_pending_write`, which swallows errors; `Decide` is the
item's UPDATE (it waits for the lock) together with the dispatch of the resume;
`Commit` is `get_db` after the endpoint or `_expire_async`'s one commit. `Scan` is
`expire_and_act`'s locking SELECT. `DeadlockVictim` ends one of a circle of waiting
sessions. The mission of an item is taken to exist and not to be over
(`_dispatch_resume` skips the others); `Signals` says which decisions dispatch.

Not claimed, because the code does not do it: bulk answers never touch the memory write
behind an item, so that an approved item may have no entry ("memory-write approvals
apply the staged write", `api/v1/hitl.py:339`); two approvals of one memory item add
the entry twice, and two humans overwrite each other's answers.

### RunBudget

The branches of a layer share `workflow.budget` in one event loop; between two awaits a
branch is alone, so `Admit` is everything in `BudgetEnforcer.call` from the check to the
request, `Answer` and `ProviderFails` everything after it. `est` is the price the call
was admitted at (any amount up to `Estimate`; the price charged is at most that),
`Failed` counts an attempt of `NodeExecutor.execute`'s retry loop. `Reserve` and `Close`
are `_handle_sub_workflow`: the child has a budget of its own, which by
`OvershootBounded` may be overrun by `ChildOverrun`. `NextLayer` and `Return` are
`DAGStrategy.execute`. `answers`, `paid`, `overrun` and `last` are ghosts.

Facts behind the properties: a run whose branches overlap can exceed `max_cost_usd`,
although `budget_enforcer.py:8` says "No LLM call is made if it would exceed the
declared budget" (`BudgetIsCeiling`; `SequentialCeiling` proves it for one branch at a
time); a child's overrun is never charged to its parent; `depth_used` is set to
`iterations_used`, so that a mission, whose `max_depth` is 5, ends after five answered
calls; the default cap of a sub-workflow equals a mission's default budget, so that the
reservation fails as soon as anything was spent; `adapters.py:210` starts
`iterations_used` at the mission's `tokens_used`, and nothing carries the budget across
a pause.

### IdempotentRequest

One key, several requests. `row`, `work` and `lock` are as in `WorkerLease`; the index
is unique, so that an INSERT waits for whoever else has written the key. `Lookup`,
`Delete`, `Insert` and `Replay` are the dependency, `Commit`, `Refuse`, `Tear`,
`Respond` and `Raise` the command in the same session: the row becomes durable with the
command's first commit and is undone with its failure; `Tear` is `EventLog.append`'s
rollback in the middle, after which the command commits without the row (ghost `torn`).
`Finalize` is the middleware's own session. A response is known by the request that it
answers.

Facts behind the properties: `execute_async`'s 503 ("retry the request") is stored like
any response and replayed for 24 hours; an unhandled exception leaves a record that is
replayed as an empty success; duplicates that race the INSERT get a 500 from the
IntegrityError; a replay's `cache_hits` is never committed.

## 3. Runs

| run | module, cfg | instance | distinct states | checks |
|---|---|---|---|---|
| `lease` | MCWorkerLease, WorkerLease.cfg | 2 executions in 2 processes, a reclaimer, TTL 2, clock to 4 | 146 k | `IInv`, `ActiveLeaseExclusive`, `UnexpiredLeaseIsTheOwners`, `ImplementsOwnership`, `DeadWorkersLeaseCleared`, `ExecutionEnds` |
| `event_stream` | MCEventLog, EventLog.cfg | 2 sessions, 3 keys, batches of up to 2, limit 2, a replay by pages of 1 | 234 k | `EventInv`, `ImplementsStream`, `CommittedMeansLogged`, `ReplayComplete` |
| `executor_safety` | MCUnifiedExecutor, UnifiedExecutor.cfg | 2 processes; node, approval, irreversible sandbox; 1 retry, 1 fault | 1087 k | `ExecutorInv`, `ImplementsRun`, `CompletedMeansAll`, `CompletedNeverRefires`, `ReportedIsReplayed`, `GateHolds` |
| `executor_liveness` | MCUnifiedExecutor, ExecutorLiveness.cfg | 2 processes; sandbox, irreversible node; 1 retry, 1 fault | 96 k | `CallEnds` |
| `mission_safety` | MCMissionLifecycle, MissionLifecycle.cfg | 2 missions, 2 users, 1 worker, 2 expirers, 2 commands, 1 fault | 942 k | `LifecycleInv`, `CompensatedOnce`, `ImplementsCompensation`, `StartedAsQueued`, `LockedWritesAllowed` |
| `mission_liveness` | MCMissionLifecycle, MissionLiveness.cfg | 2 missions, 1 user, 1 worker, 2 expirers, 1 command, 1 fault | 96 k | `DispatchedLeavesQueue`, `PausedTooLongEnds` |
| `hitl_inbox` | MCHitlInbox, HitlInbox.cfg | a memory item, a mission's item; 1 human, 2 expirers, 2 requests, 1 fault | 40 k | `InboxInv`, `ImplementsInbox`, `DecidedTogether`, `ApprovalSignalled`, `ExpiryKeepsAnswers`, `StaleItemsDecided` |
| `run_budget` | MCRunBudget, RunBudget.cfg | 2 calling branches, 1 sub-workflow, 2 layers, 1 retry, cost 3, 4 iterations, depth 2 | 513 k | `BudgetInv`, `OvershootBounded`, `BooksBalance`, `CostBounded`, `AnswersBounded`, `RunEnds` |
| `idempotent_requests` | MCIdempotentRequest, IdempotentRequest.cfg | 3 requests, 2 payloads, lifetime 1, clock to 2 | 503 k | `IdempotencyInv`, `EffectOncePerTTL`, `ImplementsOncePerKey`, `RequestEnds` |

**Why these bounds.** The row and its lock are shared by all, and each conflict in
`WorkerLease` is between two parties over one row, with a third (the reclaimer) to
interfere; the clock of 4 lets a lease of TTL 2 be claimed, expire, be swept and be
claimed again. Two sessions and three keys with batches of two give every overlap of
two appends (none, one, both keys; opposite orders, hence a deadlock), the limit is
reached, and with pages of 1 rows that share a sequence always meet a page boundary. In
the executor two overlapping calls and an unlimited number of successive ones are
possible; three nodes put one before the gate and one behind it; the fault may hit any
step. Two missions are what it takes for one commit to give up the lock of another row,
two expirers for them to overlap; two commands let one session's copy go stale by
another's commit, and the workers, expirers and retries are not bounded by them. In the
inbox one memory item and one other cover both kinds, two expirers and a human both
orders of the two row locks; in `RunBudget` two calls overlap each other and a
reservation, and each limit of the budget can be the one that stops the run. Three
requests under one key are a first one, one that expires or races it, and one that meets
what these two left. Counters of completions and effects saturate at 2, which is enough
to tell "more than once". What the bounds leave out is covered, for the safety
properties with a theorem, by the proofs. `CHECK_DEADLOCK FALSE` is set where commands,
faults or the clock are bounded and everybody may be done.

**Fairness.**
* `WorkerLease`: an execution that has begun is driven by its event loop (WF of its
  steps, but not of claims that raise, heartbeats, commits in the middle, which need not
  happen), the clock runs, and a reclaimer whose scans fail again and again gets one
  through (SF): "All exceptions are caught per iteration" and the loop goes on.
* `UnifiedExecutor`: WF of each step of a call; SF of the claim, because a lease is
  released, undone or expires again and again but can be taken by the other process in
  between. A node's handler ends by itself (it has timeouts).
* `MissionLifecycle`: requests that have begun go on; a worker's and an expirer's steps
  are SF because they wait for row locks that others take in between, and each lock is
  given up again; the queue delivers every execute task in the end; time passes. The
  beat starts the expiry every five minutes, and requests do not lock a row at each of
  them. No fairness for new requests, faults, crashes.
* `HitlInbox`: the same, for requests that have begun and the beat.
* `RunBudget`: WF of each branch (providers answer or time out, sub-workflows return)
  and of the strategy. Nobody has to abort.
* `IdempotentRequest`: WF of the steps of a request the server has accepted; not of its
  arrival, of the clock, of crashes.

**Disagreements between code and documentation** (each a run that TLC refutes; the
quotations are in `PROJECT.json`):

| run | property | what happens |
|---|---|---|
| `effect_twice` | `EffectFiresOnce` | a crash undoes the intent of an irreversible node; the next call fires it again |
| `expiry_overwrites` | `ExpiryKeepsToPaused` | a mission that was resumed or aborted while the expiry was busy with another is failed all the same, and its owner compensated |
| `replay_empty` | `ReplayIsAnswer` | a retry between the command's commit and the storing of its response is answered with an empty success |

Seen while modelling and not given a run: two sessions can store one sequence number,
there being no SERIALIZABLE (`event_log.py:75`) and no unique index; the rollback after
an IntegrityError takes the caller's other work along (`event_log.py:169`, against its
own comment); an abort re-armed from the stream is replaced by a fresh Event before the
first layer (`executor.py:471`, against `abort()`'s docstring); a failed or rejected
node does not stop later layers (`strategies/dag.py:128`, against the module
docstring); the resume after an approval executes a workflow without nodes and does not
commit (`tasks/hitl_resume.py:103`); a renewal in a transaction older than the TTL
extends nothing (`leases.py:178`); a call whose lease was lost after the strategy began
completes all the same; `reclaim_one` reports a reclaim when the release found nothing;
an effect's lookup key hashes the bare payload and its stored key the wrapped one; a
call that waited for the lease acts on a state read before it, and runs a run that ended
meanwhile once more (its completed nodes are skipped); `validate_resume_state` takes the
first 100 events where its docstring says the last; an approval decided between two
lookups is asked again; an API page can skip events (`replay_query.py:254`).

## 4. Theorems

All hold for every value of the constants under the ASSUMEs of the modules (bounds are
naturals, kinds of sessions are disjoint, the reclaimers have worker ids of their own,
gates are neither irreversible nor sandboxes). TLC evaluates the same ASSUMEs in each
run.

| theorems | of | argument |
|---|---|---|
| `LeaseInvariant`, `LeaseExclusion`, `LeaseIsTheOwners`, `LeaseImplementsOwnership` | `WorkerLease` | `IInv`: `ActiveLeaseExclusive` is not inductive, it needs that an uncommitted change was made to one's own row or to one that *had expired by the real clock* (`OverwritesOwnOrExpired`), which follows from `txNow <= clock`; and that a reclaimer commits only when its lease is gone (`ReclaimerCleansUp`). The refinement maps the owner of the committed unexpired row; only `CommitTx`, `Tick` and `Crash` change it |
| `EventInvariant`, `StreamIsCausal`, `StreamHoldsKeysOnce`, `CommitLogs`, `ReplayIsComplete`, `LogImplementsStream` | `EventLog` | `EventInv`: what a row was appended after stays visible to whoever can see the row, below it (`RowsGrounded`), also for rows not flushed; stored keys are unique over committed and open rows (`StoredOnce`); each key asked for is found, stored or pending (`AskedIsAccountedFor`); a replay's goal is applied or ahead (`ReplayMissesNothing`); a transaction counts on from the highest number it has used or seen, over all of its appends (`TransactionsInOrder`). The refinement: what a commit adds was stored by one session, so it is ordered, new and grounded; no other step changes the stream |
| `ExecutorInvariant`, `NodesCompleteAtMostOnce`, `CompletedNodesStayDone` | `UnifiedExecutor` | `ExecutorInv`: completions wait only in the transaction of the process that holds the lease (`LeaseGuardsWork`), and a node is entered only when it is completed neither in the stream nor there (`NodesCompleteOnce`); a claim needs every other holder to be gone, a commit moves the completion from the transaction to the stream |
| `OutcomeInvariant`, `CompletedRunsAreComplete`, `GatesHold`, `ReportsAreReplayed`, `ExecutorImplementsRun`, `ExecutorImplementsOwnership` | `UnifiedExecutor`, in `UnifiedExecutorOutcomeProofs` | `OutcomeInv`, on top of `ExecutorInv`: a strategy that saw no failure has only completed or approved nodes behind it (`PrefixCovered`), and they stay so, because an approval can be withdrawn only by the commit of a pause, which also makes the run `paused` and whose transaction holds the lease against everybody else (`EventsGuarded`); no event completes a gate (`GatesUnlogged`); an item that is pending belongs to a run that is `paused` or has ended (`StreamInv`), so a call that finds it pending reports what the stream says. For `DurableRun`, moreover: a completion, pending or committed, has its effect behind it (`EffectsFirst`); only commits and answers are visible there, and each is one of its steps. For `RunOwnership` the holder of the lease is mapped; a claim needs it free |
| `LifecycleCorrect`, `NoDoubleStart`, `CompensationOnce`, `CompensationTimedOut`, `LockedWritesLegal`, `ExpiryImplementsCompensation` | `MissionLifecycle` | `LifecycleInv`: the holder of a row's lock is at a certain place and what it read behind the lock is still so, because all others wait (`LocksMeanFreshReads`); a start then uses up one QUEUED; whoever is past the claim is alone with the mission and nothing was paid before (`ClaimantIsAlone`); the event was committed before the claim. Hence the refinement: only `Fail`, `Claim`, `Refund` and `Notify` touch the account, and each finds there what one task would have left (a second failure or claim changes nothing) |
| `InboxCorrect`, `ExpirySparesAnswers`, `ExpiryOnce`, `WriteWithItem`, `ApprovalsSignalled`, `InboxImplementsDecisions` | `HitlInbox` | `InboxInv`: what is flushed is locked, and a flushed write goes with a flushed item or is on its way to one (`ChangesAreLocked`); what an expiry has locked is pending and was never expired (`ExpiryHoldsPending`); an approval that is flushed was signalled (`FlushedIsSignalled`); what is flushed is what its session decides (`FlushedAsDecided`), so that a commit settles its items with one verdict, or by the policy. All other steps only tell runs |
| `BudgetCorrect`, `Overshoot`, `SequentialCeiling`, `Books`, `Cost`, `Answers` | `RunBudget` | `BudgetInv`: the call admitted last fitted, and each other call in flight adds at most an estimate (`InFlight`); `answers <= depth <= iterations` at every answer (`DepthCounts`), whereupon no further call is admitted. `Cost`: an overrun is never charged, but it keeps its reservation, so that overruns are to the caps as `ChildOverrun` to `Cap` at most (`OverrunsUseUpCaps`), whatever is retried |
| `IdempotencyCorrect`, `OneEffect`, `ReplaysAreOwn`, `RequestsImplementKey` | `IdempotentRequest` | `IdempotencyInv`: the open write of the key is a DELETE of an expired row, a new row in place of none or of an expired one, or a copy (`LockMeans`); a command runs under its row unless it was torn (`CommandsOwnTheRow`); the committed row is that of the last whole effect, and all others are older by more than its lifetime (`RowIsTheLast`). The refinement takes the whole effects for the key's and shows each answer true of them when it is given |

Each proof has a lemma per conjunct of the invariant and in it a step per action (or a
lemma per action), combined in one lemma about `[Next]_vars`, and a temporal step.

**Only model-checked.** Liveness (`DeadWorkersLeaseCleared`, `ExecutionEnds`,
`CallEnds`, `DispatchedLeavesQueue`, `PausedTooLongEnds`, `StaleItemsDecided`,
`RunEnds`, `RequestEnds`): TLAPS handles neither fairness nor ENABLED here.
Every invariant, every other action property and every refinement that a passing run
checks has a theorem. The reverse does not hold: facts that follow from what a run
checks have theorems only (`CausalOrder` and `EventOncePerKey` from `ImplementsStream`,
`CompletedOnce` from `ExecutorInv`, `CompensatedTimedOut` from `ImplementsCompensation`,
`ExpiredOnce` from `ImplementsInbox`, `ReplayIsOwn` from `ImplementsOncePerKey`), as has
`SequentialCeiling`, which is about runs of one branch, and
`ExecutorImplementsOwnership`. No module is written with RECURSIVE operators or with inductions
over data, which the available provers do not support.

## 5. Plan

Done, in this order, the most important behaviour first: `RunOwnership`, `WorkerLease`,
`EventLog`, `UnifiedExecutor`, `MissionLifecycle`, `HitlInbox`, `RunBudget`,
`IdempotentRequest`, and the proofs of each; then the abstract specifications
`DurableRun`, `OncePerKey`, `Compensation`, `InboxDecisions`, `EventStream`, and the
proofs that the components implement them.

Left:
1. Layers with several nodes and CONDITION gating in `UnifiedExecutor`, and two calls
   under one worker id.
2. The graph and pipeline strategies, which turn a pause or a review into control flow
   of their own; the swarm service; the provider circuit breaker, once something calls
   it.

## 6. Reading order

Of each pair the abstract specification first: a page says what its component is for.
`RunOwnership` and `WorkerLease` before the others: they introduce how a PostgreSQL transaction is
written (committed row, row as the transaction sees it, lock). `HitlInbox` and
`MissionLifecycle` use the same with many rows, `IdempotentRequest` with a unique index.

## 7. Not modelled

The repository has some 440 000 lines, most of them independent of what is modelled
here: integrations and connectors, chat, memory and retrieval (whose behaviour is their
data), generated clients, migrations, seeds. The models cover the 8 components above,
whose code is a few thousand lines, and no share of the whole worth a percentage.

* *Programs and triggers.* The program commands (`api/_program_cqrs/commands.py`) never
  commit: they are not wrapped, and `get_db_session` does not. There is no durable state
  to reason about until that changes. The bridge's own path inserts missions only.
* *Circuit breakers and provider fallback.* No caller of `BudgetEnforcer.call` passes
  both a session and a workspace, without which neither is reached. The mission's
  breaker appears as an attempt that is turned away.
* *Run rows* (`run_service.py`): written in one place after `execute()` returned; only
  their commit matters to the run.
* *Other strategies, swarm, event bus, webhooks, authentication, memory, chat, sandbox
  daemon, API*: see the notes in `PROJECT.json`.
