-------------------------- MODULE MissionLifecycle --------------------------
(***************************************************************************)
(* The rows of table missions, seen by everybody who changes their status: *)
(* the commands of the API (commands.py, v2/missions.py), the Celery tasks *)
(* mission.execute_async and substrate.resume_hitl, and the beat task that *)
(* fails missions paused for too long and compensates their owners.        *)
(*                                                                         *)
(* Each works in a session of its own.  Some lock the row they are about   *)
(* to change (SELECT FOR UPDATE, with or without SKIP LOCKED); the others  *)
(* read it, decide, and update it by primary key, whatever it holds by     *)
(* then.  The listener on Mission.status refuses an assignment that the    *)
(* transition table does not allow, but it judges the session's own copy.  *)
(***************************************************************************)
EXTENDS Integers, FiniteSets

CONSTANTS
    Mission,
    User,         \* sessions of API requests
    Worker,       \* Celery worker slots
    Expirer,      \* sessions of mission.expire_paused
    NoSession,    \* nobody locks the row
    NoTask,       \* the worker has taken no task
    Nobody,       \* no command, no mission
    PatchTo,      \* the statuses that PATCH requests ask for
    MaxCommands,  \* bound on the number of API requests
    MaxFaults     \* bound on crashes, exceptions and broker failures

Session == User \cup Worker \cup Expirer

Status == {"pending", "planning", "planned", "executing", "queued", "running",
           "paused", "completed", "approved", "failed", "aborted"}

\* max_retries of both Celery tasks: within it a failed task always comes back.
MaxRetries == 3

ASSUME LifecycleAssumption ==
    /\ User \cap Worker = {} /\ User \cap Expirer = {} /\ Worker \cap Expirer = {}
    /\ NoSession \notin Session
    /\ PatchTo \subseteq Status
    /\ MaxCommands \in Nat
    /\ MaxFaults \in 0 .. MaxRetries

Allowed(from) ==
    CASE from = "pending"   -> {"planning", "queued", "aborted"}
      [] from = "planning"  -> {"planned", "aborted"}
      [] from = "planned"   -> {"executing", "aborted"}
      [] from = "executing" -> {"running", "aborted"}
      [] from = "queued"    -> {"running", "aborted"}
      [] from = "running"   -> {"completed", "approved", "failed", "paused", "aborted"}
      [] from = "paused"    -> {"running", "failed", "aborted"}
      [] from = "completed" -> {"approved"}
      [] OTHER              -> {}

CanTransition(from, to) == to \in Allowed(from)

Abortable == {"pending", "planning", "planned", "executing", "queued", "running",
              "paused"}

-----------------------------------------------------------------------------
(* The commands of the API that work on a copy of the row: the statuses a  *)
(* command accepts, the status it then assigns, and what it dispatches.    *)

Command ==
    { [name |-> "execute_async", from |-> Status,      to |-> "queued"],
      [name |-> "pause",         from |-> {"running"}, to |-> "paused"],
      [name |-> "resume",        from |-> {"paused"},  to |-> "queued"],
      [name |-> "retry",         from |-> {"failed"},  to |-> "pending"],
      [name |-> "approve",       from |-> {"paused"},  to |-> "queued"],
      [name |-> "reject",        from |-> Status,      to |-> "failed"],
      [name |-> "inbox",         from |-> {},          to |-> "running"] }
    \cup { [name |-> "patch", from |-> Status, to |-> t] : t \in PatchTo }

\* A task message; user and number of the request that sent it are its identity.
Task == [user : User, number : Nat, kind : {"execute", "resume"}, mission : Mission]

VARIABLES
    status,       \* the committed status of each mission
    pausedAt,     \* its paused_at: none, within the window, or older
    owner,        \* the session that locks its row
    timedOut,     \* an event with key pause_timeout_fail:<mission> is in the log
    compensated,  \* compensated_at is set
    refunds,      \* how often its owner's wallet was credited
    notices,      \* how often its owner was told
    starts,       \* executions started by the Celery task
    queueings,    \* times its status became QUEUED
    broker,       \* the tasks in the queue
    outbox,       \* missions with a row in mission_execution_outbox
    pc, at, copy, \* each session's place, the mission it is at, its copy of the status
    cmd,          \* the command of each API request
    job,          \* the task each worker has taken and not acknowledged
    todo,         \* missions a session has selected and not yet processed
    commands, faults   \* bounded by MaxCommands and MaxFaults

rows == <<status, pausedAt>>
ledger == <<timedOut, compensated, refunds, notices>>
counts == <<starts, queueings>>
bounds == <<commands, faults>>
vars == <<rows, owner, ledger, counts, broker, outbox, pc, at, copy, cmd, job, todo,
          bounds>>

Place == {"idle", "write", "dispatch", "abort",
          "lock", "start", "executing", "failing", "mark_failed", "read", "resume",
          "loop", "fail", "fail_again", "claim", "refund", "notify"}

TypeOK ==
    /\ status \in [Mission -> Status]
    /\ pausedAt \in [Mission -> {"none", "recent", "old"}]
    /\ owner \in [Mission -> Session \cup {NoSession}]
    /\ timedOut \in [Mission -> BOOLEAN]
    /\ compensated \in [Mission -> BOOLEAN]
    /\ refunds \in [Mission -> Nat]
    /\ notices \in [Mission -> Nat]
    /\ starts \in [Mission -> Nat]
    /\ queueings \in [Mission -> Nat]
    /\ broker \in SUBSET Task
    /\ outbox \in SUBSET Mission
    /\ pc \in [Session -> Place]
    /\ at \in [Session -> Mission \cup {Nobody}]
    /\ copy \in [Session -> Status \cup {Nobody}]
    /\ cmd \in [User -> Command \cup {Nobody}]
    /\ job \in [Worker -> Task \cup {NoTask}]
    /\ todo \in [Session -> SUBSET Mission]
    /\ commands \in Nat
    /\ faults \in Nat

\* A mission is new, or its execution is over and its user has paused it.
Init ==
    /\ status \in [Mission -> {"pending", "paused"}]
    /\ pausedAt = [m \in Mission |-> IF status[m] = "paused" THEN "recent" ELSE "none"]
    /\ owner = [m \in Mission |-> NoSession]
    /\ timedOut = [m \in Mission |-> FALSE]
    /\ compensated = [m \in Mission |-> FALSE]
    /\ refunds = [m \in Mission |-> 0]
    /\ notices = [m \in Mission |-> 0]
    /\ starts = [m \in Mission |-> IF status[m] = "paused" THEN 1 ELSE 0]
    /\ queueings = starts
    /\ broker = {}
    /\ outbox = {}
    /\ pc = [s \in Session |-> "idle"]
    /\ at = [s \in Session |-> Nobody]
    /\ copy = [s \in Session |-> Nobody]
    /\ cmd = [u \in User |-> Nobody]
    /\ job = [w \in Worker |-> NoTask]
    /\ todo = [s \in Session |-> {}]
    /\ commands = 0
    /\ faults = 0

-----------------------------------------------------------------------------
(* Rows and sessions *)

\* A statement of s that writes or locks the row of m waits for its lock.
Free(s, m) == owner[m] \in {s, NoSession}

\* The end of s's transaction gives up all its row locks.
Unlocked(s) == [m \in Mission |-> IF owner[m] = s THEN NoSession ELSE owner[m]]

\* s assigns st to the status of m, flushes and commits.
CommitStatus(s, m, st) ==
    /\ Free(s, m)
    /\ status' = [status EXCEPT ![m] = st]
    /\ owner' = Unlocked(s)
    /\ queueings' = IF st = "queued" THEN [queueings EXCEPT ![m] = @ + 1] ELSE queueings

NoWrite == UNCHANGED <<status, queueings, owner>>
EndTx(s) == owner' = Unlocked(s) /\ UNCHANGED <<status, queueings>>

\* s is at place p, with mission m and copy c at hand.
Moves(s, p, m, c) ==
    /\ pc' = [pc EXCEPT ![s] = p]
    /\ at' = [at EXCEPT ![s] = m]
    /\ copy' = [copy EXCEPT ![s] = c]

Enter(s, p, m, c) == Moves(s, p, m, c) /\ UNCHANGED cmd
Goto(s, p) == pc' = [pc EXCEPT ![s] = p] /\ UNCHANGED <<at, copy, cmd>>

Rest(s) ==
    /\ Moves(s, "idle", Nobody, Nobody)
    /\ cmd' = [u \in User |-> IF u = s THEN Nobody ELSE cmd[u]]

Send(u, k, m) ==
    broker' = broker \cup {[user |-> u, number |-> commands, kind |-> k, mission |-> m]}

Fault == faults < MaxFaults /\ faults' = faults + 1 /\ UNCHANGED commands

-----------------------------------------------------------------------------
(* The API *)

\* The request reads the row.  (resume_mission locks it as well, but its assignment
\* is one that the listener refuses and it rolls back, so the lock shows nothing.)
Request(u) ==
    /\ pc[u] = "idle" /\ commands < MaxCommands
    /\ commands' = commands + 1
    /\ \E m \in Mission, c \in Command :
          /\ Moves(u, "write", m, status[m])
          /\ cmd' = [cmd EXCEPT ![u] = c]
    /\ UNCHANGED <<rows, owner, ledger, counts, broker, outbox, job, todo, faults>>

Accepts(u) == copy[u] \in cmd[u].from
Dispatches(c) == c.name \in {"execute_async", "approve", "reject", "inbox"}

\* The assignment passes the listener: flush and commit.
Write(u) ==
    /\ pc[u] = "write" /\ Accepts(u) /\ CanTransition(copy[u], cmd[u].to)
    /\ CommitStatus(u, at[u], cmd[u].to)
    /\ pausedAt' = IF cmd[u].name = "pause" THEN [pausedAt EXCEPT ![at[u]] = "recent"]
                   ELSE pausedAt
    /\ IF Dispatches(cmd[u]) THEN Goto(u, "dispatch") ELSE Rest(u)
    /\ UNCHANGED <<ledger, starts, broker, outbox, job, todo, bounds>>

\* The listener raises, or the command does not apply to the status.  approve_task
\* and the inbox resolve their item all the same and dispatch a resume.
Refuse(u) ==
    /\ pc[u] = "write"
    /\ \/ Accepts(u) /\ ~CanTransition(copy[u], cmd[u].to) /\ Rest(u)
       \/ /\ ~Accepts(u)
          /\ IF Dispatches(cmd[u]) THEN Goto(u, "dispatch") ELSE Rest(u)
    /\ UNCHANGED <<rows, owner, ledger, counts, broker, outbox, job, todo, bounds>>

\* Only after the commit is the task sent to the broker...
Dispatch(u) ==
    /\ pc[u] = "dispatch"
    /\ Send(u, IF cmd[u].name = "execute_async" THEN "execute" ELSE "resume", at[u])
    /\ Rest(u)
    /\ UNCHANGED <<rows, owner, ledger, counts, outbox, job, todo, bounds>>

\* ...and if that fails, execute_async leaves a row in the outbox, the others a log line.
DispatchFails(u) ==
    /\ pc[u] = "dispatch" /\ Fault
    /\ outbox' = IF cmd[u].name = "execute_async" THEN outbox \cup {at[u]} ELSE outbox
    /\ Rest(u)
    /\ UNCHANGED <<rows, owner, ledger, counts, broker, job, todo>>

\* abort_mission and batch_abort: lock those of the missions asked for that nobody
\* has locked (SKIP LOCKED)...
AbortSelect(u) ==
    /\ pc[u] = "idle" /\ commands < MaxCommands
    /\ commands' = commands + 1
    /\ \E ms \in SUBSET Mission :
          LET locked == {m \in ms : owner[m] = NoSession} IN
          /\ locked # {}
          /\ owner' = [m \in Mission |-> IF m \in locked THEN u ELSE owner[m]]
          /\ todo' = [todo EXCEPT ![u] = locked]
    /\ Goto(u, "abort")
    /\ UNCHANGED <<rows, ledger, counts, broker, outbox, job, faults>>

\* Mutation of ToAbort: the status is not looked at again behind the lock.
ToAbortAny(u) == todo[u]
ToAbort(u) == {m \in todo[u] : status[m] \in Abortable}

\* ...and abort, in one commit, the ones that are still abortable.
AbortCommit(u) ==
    /\ pc[u] = "abort"
    /\ status' = [m \in Mission |-> IF m \in ToAbort(u) THEN "aborted" ELSE status[m]]
    /\ owner' = Unlocked(u)
    /\ todo' = [todo EXCEPT ![u] = {}]
    /\ Rest(u)
    /\ UNCHANGED <<pausedAt, ledger, counts, broker, outbox, job, bounds>>

-----------------------------------------------------------------------------
(* The Celery tasks: acks_late and reject_on_worker_lost *)

Take(w, t) ==
    /\ pc[w] = "idle" /\ t \in broker
    /\ broker' = broker \ {t}
    /\ job' = [job EXCEPT ![w] = t]
    /\ Enter(w, IF t.kind = "execute" THEN "lock" ELSE "read", t.mission, Nobody)
    /\ UNCHANGED <<rows, owner, ledger, counts, outbox, todo, bounds>>

Acknowledge(w) == job' = [job EXCEPT ![w] = NoTask] /\ UNCHANGED broker
SendBack(w) == job' = [job EXCEPT ![w] = NoTask] /\ broker' = broker \cup {job[w]}

\* Mutation of MayStart: the idempotency check is dropped.
MayStartAny(m) == CanTransition(status[m], "running")
MayStart(m) == status[m] = "queued"

\* ExecuteMissionTask: "only execute if QUEUED", read behind the row's lock.
LockRow(w) ==
    /\ pc[w] = "lock" /\ Free(w, at[w])
    /\ \/ /\ MayStart(at[w])
          /\ owner' = [owner EXCEPT ![at[w]] = w]
          /\ Goto(w, "start") /\ UNCHANGED <<job, broker>>
       \/ ~MayStart(at[w]) /\ Acknowledge(w) /\ Rest(w) /\ UNCHANGED owner
    /\ UNCHANGED <<rows, ledger, counts, outbox, todo, bounds>>

Start(w) ==
    /\ pc[w] = "start"
    /\ CommitStatus(w, at[w], "running")
    /\ starts' = [starts EXCEPT ![at[w]] = @ + 1]
    /\ Goto(w, "executing")
    /\ UNCHANGED <<pausedAt, ledger, broker, outbox, job, todo, bounds>>

\* execute() returns, with whatever status: the mission's own is not written.
Finish(w) ==
    /\ pc[w] = "executing"
    /\ Acknowledge(w) /\ Rest(w)
    /\ UNCHANGED <<rows, owner, ledger, counts, outbox, todo, bounds>>

Raise(w) ==
    /\ pc[w] \in {"lock", "start", "executing"} /\ Fault
    /\ EndTx(w) /\ Goto(w, "failing")
    /\ UNCHANGED <<pausedAt, ledger, starts, broker, outbox, job, todo>>

ReadFailed(w) ==
    /\ pc[w] = "failing"
    /\ Enter(w, "mark_failed", at[w], status[at[w]])
    /\ UNCHANGED <<rows, owner, ledger, counts, broker, outbox, job, todo, bounds>>

\* The error the listener raises is logged; the task is retried in either case.
MarkFailed(w) ==
    /\ pc[w] = "mark_failed"
    /\ IF CanTransition(copy[w], "failed") THEN CommitStatus(w, at[w], "failed")
                                           ELSE NoWrite
    /\ SendBack(w) /\ Rest(w)
    /\ UNCHANGED <<pausedAt, ledger, starts, outbox, todo, bounds>>

\* _resume_async: an unlocked read...
ReadResume(w) ==
    /\ pc[w] = "read"
    /\ \/ /\ status[at[w]] \in {"paused", "running"}
          /\ Enter(w, "resume", at[w], status[at[w]])
          /\ UNCHANGED <<job, broker>>
       \/ status[at[w]] \notin {"paused", "running"} /\ Acknowledge(w) /\ Rest(w)
    /\ UNCHANGED <<rows, owner, ledger, counts, outbox, todo, bounds>>

\* ...and the update, after which the executor is given a workflow without nodes and
\* the session closes uncommitted.
WriteResume(w) ==
    /\ pc[w] = "resume" /\ CanTransition(copy[w], "running")
    /\ CommitStatus(w, at[w], "running")
    /\ Acknowledge(w) /\ Rest(w)
    /\ UNCHANGED <<pausedAt, ledger, starts, outbox, todo, bounds>>

\* RUNNING to RUNNING raises; the task is retried until it has no retries left.
ResumeRaises(w) ==
    /\ pc[w] = "resume" /\ ~CanTransition(copy[w], "running")
    /\ SendBack(w) \/ Acknowledge(w)
    /\ Rest(w)
    /\ UNCHANGED <<rows, owner, ledger, counts, outbox, todo, bounds>>

-----------------------------------------------------------------------------
(* The beat task mission.expire_paused *)

Expirable(m) == status[m] = "paused" /\ pausedAt[m] = "old"

\* One SELECT ... FOR UPDATE SKIP LOCKED for all the missions paused too long.
Scan(x) ==
    LET found == {m \in Mission : Expirable(m) /\ owner[m] = NoSession} IN
    /\ pc[x] = "idle" /\ found # {}
    /\ owner' = [m \in Mission |-> IF m \in found THEN x ELSE owner[m]]
    /\ todo' = [todo EXCEPT ![x] = found]
    /\ Goto(x, "loop")
    /\ UNCHANGED <<rows, ledger, counts, broker, outbox, job, bounds>>

\* _expire_one, for the next of the missions: its copy still says PAUSED, and the
\* event log looks the idempotency key up.
ExpireNext(x) ==
    /\ pc[x] = "loop"
    /\ \E m \in todo[x] :
          /\ Enter(x, IF timedOut[m] THEN "fail_again" ELSE "fail", m, "paused")
          /\ todo' = [todo EXCEPT ![x] = @ \ {m}]
    /\ UNCHANGED <<rows, owner, ledger, counts, broker, outbox, job, bounds>>

\* Mutation of LogTimeout: the failure is committed without its event.
LogTimeoutNever(m) == UNCHANGED timedOut
LogTimeout(m) == timedOut' = [timedOut EXCEPT ![m] = TRUE]

\* Status, event and log entry are flushed and committed together.  The commit also
\* gives up the locks of the missions still to do.
Fail(x) ==
    /\ \/ pc[x] = "fail" /\ ~timedOut[at[x]]
       \/ pc[x] = "fail_again"
    /\ CommitStatus(x, at[x], "failed")
    /\ LogTimeout(at[x])
    /\ Goto(x, "claim")
    /\ UNCHANGED <<pausedAt, compensated, refunds, notices, starts, broker, outbox,
                   job, todo, bounds>>

\* Somebody committed the event since: the insert fails and the event log rolls the
\* update back; the copies of the other missions are expired and end the loop.
FailConflicts(x) ==
    /\ pc[x] = "fail" /\ timedOut[at[x]] /\ Free(x, at[x])
    /\ EndTx(x)
    /\ todo' = [todo EXCEPT ![x] = {}]
    /\ Goto(x, "claim")
    /\ UNCHANGED <<pausedAt, ledger, starts, broker, outbox, job, bounds>>

\* Mutation of Claimed: compensated_at is set without looking.
ClaimedNever(m) == FALSE
Claimed(m) == compensated[m]

\* _claim_compensation, in a session of its own that locks the row.
Claim(x) ==
    /\ pc[x] = "claim" /\ Free(x, at[x])
    /\ compensated' = [compensated EXCEPT ![at[x]] = TRUE]
    /\ Goto(x, IF Claimed(at[x]) THEN "loop" ELSE "refund")
    /\ UNCHANGED <<rows, owner, timedOut, refunds, notices, counts, broker, outbox,
                   job, todo, bounds>>

\* credit_wallet commits by itself; nothing may be left to credit, and an error is
\* swallowed.
Refund(x) ==
    /\ pc[x] = "refund"
    /\ \/ refunds' = [refunds EXCEPT ![at[x]] = @ + 1]
       \/ UNCHANGED refunds
    /\ Goto(x, "notify")
    /\ UNCHANGED <<rows, owner, timedOut, compensated, notices, counts, broker, outbox,
                   job, todo, bounds>>

Notify(x) ==
    /\ pc[x] = "notify"
    /\ notices' = [notices EXCEPT ![at[x]] = @ + 1]
    /\ Goto(x, "loop")
    /\ UNCHANGED <<rows, owner, timedOut, compensated, refunds, counts, broker, outbox, job, todo, bounds>>

EndScan(x) ==
    /\ pc[x] = "loop" /\ todo[x] = {}
    /\ EndTx(x) /\ Rest(x)
    /\ UNCHANGED <<pausedAt, ledger, starts, broker, outbox, job, todo, bounds>>

-----------------------------------------------------------------------------
(* The environment *)

\* The window MISSION_PAUSE_AUTO_FAIL_DAYS passes.
Age(m) ==
    /\ pausedAt[m] = "recent"
    /\ pausedAt' = [pausedAt EXCEPT ![m] = "old"]
    /\ UNCHANGED <<status, owner, ledger, counts, broker, outbox, pc, at, copy, cmd, job,
                   todo, bounds>>

\* Mutation of Redeliver: the task is acknowledged when it is taken.
RedeliverNever(w) == Acknowledge(w)
Redeliver(w) == SendBack(w)

\* Mutation of Release: the row locks of a dead session stay.
ReleaseNever(s) == UNCHANGED owner
Release(s) == owner' = Unlocked(s)

\* The process of a session dies: its transaction is rolled back and the task of a
\* worker is delivered again (that of the expirer, acknowledged early, is not).
Crash(s) ==
    /\ pc[s] # "idle" /\ Fault
    /\ Release(s)
    /\ IF s \in Worker THEN Redeliver(s) ELSE UNCHANGED <<job, broker>>
    /\ todo' = [todo EXCEPT ![s] = {}]
    /\ Rest(s)
    /\ UNCHANGED <<rows, ledger, counts, outbox>>

UserStep(u) ==
    \/ Request(u) \/ Write(u) \/ Refuse(u) \/ Dispatch(u) \/ DispatchFails(u)
    \/ AbortSelect(u) \/ AbortCommit(u)

\* What a worker with a task does when nothing raises.
Proceed(w) ==
    \/ LockRow(w) \/ Start(w) \/ Finish(w) \/ ReadFailed(w) \/ MarkFailed(w)
    \/ ReadResume(w) \/ WriteResume(w) \/ ResumeRaises(w)

WorkerStep(w) ==
    \/ \E t \in broker : Take(w, t)
    \/ Raise(w)
    \/ Proceed(w)

ExpirerStep(x) ==
    \/ Scan(x) \/ ExpireNext(x) \/ Fail(x) \/ FailConflicts(x) \/ Claim(x) \/ Refund(x)
    \/ Notify(x) \/ EndScan(x)

Next ==
    \/ \E u \in User : UserStep(u)
    \/ \E w \in Worker : WorkerStep(w)
    \/ \E x \in Expirer : ExpirerStep(x)
    \/ \E m \in Mission : Age(m)
    \/ \E s \in Session : Crash(s)

Spec == Init /\ [][Next]_vars

(* Requests and tasks that have begun go on, a waiting statement gets the   *)
(* row lock in the end, the queue is served in order (RabbitMQ), time       *)
(* passes, and the beat starts the expiry again and again: a scan cannot    *)
(* find a row locked each time.                                             *)
Fairness ==
    /\ \A u \in User : WF_vars(Write(u) \/ Refuse(u) \/ Dispatch(u) \/ AbortCommit(u))
    /\ \A w \in Worker : SF_vars(Proceed(w))
    /\ \A m \in Mission :
          SF_vars(\E w \in Worker, t \in broker :
                     t.kind = "execute" /\ t.mission = m /\ Take(w, t))
    /\ \A x \in Expirer : SF_vars(ExpirerStep(x))
    /\ \A m \in Mission : WF_vars(Age(m))

FairSpec == Spec /\ Fairness

-----------------------------------------------------------------------------
(* Properties *)

(* However often the expiry runs, in parallel with itself, after a crash or *)
(* a conflict, and whatever becomes of the mission meanwhile, its owner is  *)
(* credited and told at most once (compensated_at in                        *)
(* mission_compensation_service.py).                                        *)
CompensatedOnce == \A m \in Mission : refunds[m] <= 1 /\ notices[m] <= 1

(* Nobody is compensated for a mission whose failure by timeout is not in   *)
(* the log (_expire_one commits the failure before it compensates).         *)
CompensatedTimedOut ==
    \A m \in Mission : compensated[m] \/ refunds[m] > 0 \/ notices[m] > 0 => timedOut[m]

Account == INSTANCE Compensation WITH credits <- refunds

(* However many expiry tasks overlap, die and start again, the owner of a   *)
(* mission sees one: the mission fails as the log says so, then the         *)
(* compensation is claimed, then paid, then told, each once and never in    *)
(* another order (expire_paused_missions.py,                                *)
(* mission_compensation_service.py).                                        *)
ImplementsCompensation == Account!Spec

(* A mission is started once for each time it was queued: not again when a  *)
(* task is delivered or retried again, nor when two requests send two       *)
(* (ExecuteMissionTask, "avoids double-run").                               *)
StartedAsQueued ==
    \A m \in Mission :
        starts[m] + (IF status[m] = "queued" THEN 1 ELSE 0) <= queueings[m]

(* A writer that locked the row before it read it (abort, batch abort, the  *)
(* execution task, the first mission of an expiry) makes only transitions   *)
(* of the table.                                                            *)
LockedWritesAllowed ==
    [][\A m \in Mission : owner[m] # NoSession /\ status'[m] # status[m]
           => CanTransition(status[m], status'[m])]_vars

(* The expiry fails missions that are paused (its docstring: a mission that *)
(* somebody resumes meanwhile is skipped).                                  *)
ExpiryKeepsToPaused ==
    [][\A x \in Expirer : pc[x] \in {"fail", "fail_again"} /\ pc'[x] = "claim"
           => status[at[x]] = status'[at[x]] \/ status[at[x]] = "paused"]_vars

(* A queued mission whose task is under way does not stay queued, although  *)
(* the task raises or its worker dies.                                      *)
DispatchedLeavesQueue ==
    \A m \in Mission :
        (/\ status[m] = "queued"
         /\ \/ \E t \in broker : t.kind = "execute" /\ t.mission = m
            \/ \E w \in Worker : pc[w] = "lock" /\ at[w] = m)
            ~> status[m] # "queued"

(* A mission does not stay paused past the window: SKIP LOCKED does not     *)
(* make the expiry skip it for ever.                                        *)
PausedTooLongEnds == \A m \in Mission : Expirable(m) ~> ~Expirable(m)

-----------------------------------------------------------------------------
(* The inductive invariant behind the safety properties *)

\* Where each kind of session can be, and what it has at hand there.
SessionsInPlace ==
    /\ \A u \in User :
          /\ pc[u] \in {"idle", "write", "dispatch", "abort"}
          /\ pc[u] \in {"write", "dispatch"} =>
                at[u] \in Mission /\ cmd[u] \in Command
          /\ pc[u] = "write" => copy[u] \in Status
    /\ \A w \in Worker :
          /\ pc[w] \in {"idle", "lock", "start", "executing", "failing", "mark_failed",
                        "read", "resume"}
          /\ pc[w] # "idle" => at[w] \in Mission /\ job[w] \in Task
    /\ \A x \in Expirer :
          /\ pc[x] \in {"idle", "loop", "fail", "fail_again", "claim", "refund", "notify"}
          /\ pc[x] \in {"fail", "fail_again", "claim", "refund", "notify"} =>
                at[x] \in Mission

\* What the holder of a row lock has read behind it still holds.
LocksMeanFreshReads ==
    /\ \A m \in Mission :
          /\ owner[m] \in User => pc[owner[m]] = "abort"
          /\ owner[m] \in Worker => pc[owner[m]] = "start" /\ at[owner[m]] = m
          /\ owner[m] \in Expirer => status[m] = "paused"
    /\ \A u \in User : pc[u] = "abort" => \A m \in todo[u] : owner[m] = u
    /\ \A w \in Worker :
          pc[w] = "start" => owner[at[w]] = w /\ status[at[w]] = "queued"

\* Whoever has claimed a mission's compensation is alone with it.
ClaimantIsAlone ==
    /\ \A x \in Expirer :
          /\ pc[x] \in {"claim", "refund", "notify", "fail_again"} => timedOut[at[x]]
          /\ pc[x] \in {"refund", "notify"} => compensated[at[x]] /\ notices[at[x]] = 0
          /\ pc[x] = "refund" => refunds[at[x]] = 0
    /\ \A x, y \in Expirer :
          pc[x] \in {"refund", "notify"} /\ pc[y] \in {"refund", "notify"}
              /\ at[x] = at[y] => x = y
    /\ \A m \in Mission :
          ~compensated[m] => refunds[m] = 0 /\ notices[m] = 0

(* The inductive invariant of the mission rows: types, what a session has   *)
(* at hand, what a row lock guarantees, who may compensate, and the         *)
(* properties above.                                                        *)
LifecycleInv ==
    /\ TypeOK
    /\ SessionsInPlace
    /\ LocksMeanFreshReads
    /\ ClaimantIsAlone
    /\ CompensatedOnce
    /\ CompensatedTimedOut
    /\ StartedAsQueued
=============================================================================
