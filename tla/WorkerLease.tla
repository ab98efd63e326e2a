---------------------------- MODULE WorkerLease ----------------------------
(***************************************************************************)
(* The worker lease of ONE run: the row of substrate_worker_leases with    *)
(* that run_id, the UnifiedExecutor.execute() calls that claim, renew and  *)
(* release it, and the background reclaimers that sweep it once expired.   *)
(* run_id is UNIQUE in the table, so the rows of different runs never      *)
(* interact and one row is the whole story.                                *)
(*                                                                         *)
(* leases.py never commits: "the caller owns the transaction boundary".    *)
(* Everything a process writes is therefore visible to itself only until   *)
(* its session commits, the row it wrote is locked until then, and the     *)
(* now() of its SQL is the time its TRANSACTION began, however long ago    *)
(* that was.  The module keeps exactly those three facts of PostgreSQL     *)
(* (READ COMMITTED) and the control of the code on top of them.            *)
(***************************************************************************)
EXTENDS Integers

CONSTANTS
    Exec,        \* the execute() calls for this run, whatever process they run in
    Reclaimer,   \* the LeaseReclaimer loops
    Worker,      \* worker ids: one per OS process (hostname-pid), one per reclaimer
    WorkerOf,    \* [Exec \cup Reclaimer -> Worker]
    TTL,         \* ttl_seconds of a claim and of a renewal
    MaxClock,    \* bound on the clock
    NoLease,     \* there is no row
    NoProc       \* nobody holds the row lock

Proc == Exec \cup Reclaimer
Lease == [owner : Worker, expires : Int, generation : Nat]
NoTx == -1

ASSUME ConstAssumption ==
    /\ WorkerOf \in [Proc -> Worker]
    /\ Exec \cap Reclaimer = {}
    /\ \A r \in Reclaimer : \A p \in Proc : p # r => WorkerOf[p] # WorkerOf[r]
    /\ NoLease \notin Lease
    /\ NoProc \notin Proc
    /\ TTL \in Nat \ {0}
    /\ MaxClock \in Nat

VARIABLES
    clock,   \* the database clock
    row,     \* the committed row, or NoLease
    work,    \* the row as the holder of its lock sees it (= row when unlocked)
    lock,    \* the process whose open transaction locks the row
    txNow,   \* now() of each process's open transaction, NoTx between transactions
    pc,      \* where each process is
    hb,      \* the heartbeat task of each execute(); "off" if it has no lease
    dead     \* OS processes that crashed

vars == <<clock, row, work, lock, txNow, pc, hb, dead>>

Claiming == {"claim", "upsert", "existing", "claim2", "upsert2"}
InRun    == {"claimed", "running", "finishing", "aborting"}
Returned == {"completed", "aborted", "already_running", "lease_contention",
             "errored"}       \* execute() is over, its caller's transaction is not
Scanning == {"reclaim", "won", "commit"}
Beat     == {"off", "beating", "lost", "raised"}

TypeOK ==
    /\ clock \in Nat
    /\ row \in Lease \cup {NoLease}
    /\ work \in Lease \cup {NoLease}
    /\ lock \in Proc \cup {NoProc}
    /\ txNow \in [Proc -> Nat \cup {NoTx}]
    /\ pc \in [Proc -> {"idle", "done"} \cup Claiming \cup InRun \cup Returned
                        \cup Scanning]
    /\ hb \in [Exec -> Beat]
    /\ dead \in SUBSET Worker

Init ==
    /\ clock = 0
    /\ row = NoLease
    /\ work = NoLease
    /\ lock = NoProc
    /\ txNow = [p \in Proc |-> NoTx]
    /\ pc = [p \in Proc |-> "idle"]
    /\ hb = [e \in Exec |-> "off"]
    /\ dead = {}

-----------------------------------------------------------------------------
(* One SQL statement of process p *)

Now(p)       == IF txNow[p] = NoTx THEN clock ELSE txNow[p]
View(p)      == IF lock = p THEN work ELSE row
Free(p)      == lock \in {p, NoProc}      \* otherwise p's write waits for the lock
Active(l, t)  == l # NoLease /\ l.expires > t
Expired(l, t) == l # NoLease /\ l.expires < t
\* Mutation of Mine: the WHERE clause without worker_id.
MineWhoeverOwns(p) == Active(View(p), Now(p))
Mine(p)      == Active(View(p), Now(p)) /\ View(p).owner = WorkerOf[p]

NewLease(p, ttl) ==
    [owner |-> WorkerOf[p], expires |-> Now(p) + ttl,
     generation |-> IF View(p) = NoLease THEN 1 ELSE View(p).generation + 1]

Touch(p) == txNow' = [txNow EXCEPT ![p] = Now(p)]
Write(p, l) == Free(p) /\ lock' = p /\ work' = l /\ row' = row /\ Touch(p)
ReadOnly(p) == UNCHANGED <<lock, work, row>> /\ Touch(p)

(* The upsert of try_claim_lease.  It inserts, or updates a row that has   *)
(* expired; a row that has not expired makes it return nothing, but the    *)
(* row stays locked all the same.                                          *)
\* Mutations of Claimable: the upsert without its WHERE, and the expiry compared
\* with the one the new lease would have.
ClaimableAlways(p) == TRUE
ClaimableTooEarly(p) ==
    View(p) = NoLease \/ (View(p) # NoLease /\ View(p).expires < Now(p) + TTL)
Claimable(p) == View(p) = NoLease \/ Expired(View(p), Now(p))
UpsertWins(p, ttl) == Claimable(p) /\ Write(p, NewLease(p, ttl))
UpsertLoses(p)     == ~Claimable(p) /\ Write(p, View(p))

Goto(p, l) == pc' = [pc EXCEPT ![p] = l]

CommitTx(p) ==
    /\ row' = View(p)
    /\ work' = work
    /\ lock' = IF lock = p THEN NoProc ELSE lock
    /\ txNow' = [txNow EXCEPT ![p] = NoTx]

RollbackTx(p) ==
    /\ row' = row
    /\ work' = IF lock = p THEN row ELSE work
    /\ lock' = IF lock = p THEN NoProc ELSE lock
    /\ txNow' = [txNow EXCEPT ![p] = NoTx]

-----------------------------------------------------------------------------
(* execute(): entering _lease_context *)

\* Leases claimed or renewed after this point could not expire within MaxClock.
Horizon == MaxClock - TTL - 1

\* execute() reads the event log before it claims, so the transaction is open.
Start(e) ==
    /\ pc[e] = "idle" /\ WorkerOf[e] \notin dead /\ clock <= Horizon
    /\ Goto(e, "claim") /\ ReadOnly(e)
    /\ UNCHANGED <<clock, hb, dead>>

Granted(e) ==
    /\ Goto(e, "claimed")
    /\ hb' = [hb EXCEPT ![e] = "beating"]

\* get_active_lease in try_claim_lease: the same worker already holds it.
FastPath(e) ==
    /\ pc[e] \in {"claim", "claim2"}
    /\ \/ Mine(e) /\ Granted(e)
       \/ /\ ~Mine(e)
          /\ Goto(e, IF pc[e] = "claim" THEN "upsert" ELSE "upsert2")
          /\ UNCHANGED hb
    /\ ReadOnly(e)
    /\ UNCHANGED <<clock, dead>>

Upsert(e) ==
    /\ pc[e] \in {"upsert", "upsert2"}
    /\ \/ UpsertWins(e, TTL) /\ Granted(e)
       \/ /\ UpsertLoses(e)
          /\ Goto(e, IF pc[e] = "upsert" THEN "existing" ELSE "lease_contention")
          /\ UNCHANGED hb
    /\ UNCHANGED <<clock, dead>>

\* get_existing_lease: somebody else's active lease ends the call; if there is
\* none, the claim is tried once more.
Existing(e) ==
    /\ pc[e] = "existing"
    /\ Goto(e, IF Active(View(e), Now(e)) /\ View(e).owner # WorkerOf[e]
               THEN "already_running" ELSE "claim2")
    /\ ReadOnly(e)
    /\ UNCHANGED <<clock, hb, dead>>

\* The first claim raised: "proceed without lease" (the retry is not guarded).
ClaimRaises(e) ==
    /\ pc[e] \in {"claim", "upsert", "claim2", "upsert2"}
    /\ Goto(e, IF pc[e] \in {"claim", "upsert"} THEN "claimed" ELSE "errored")
    /\ ReadOnly(e)
    /\ UNCHANGED <<clock, hb, dead>>

-----------------------------------------------------------------------------
(* execute(): inside the lease *)

\* The only reads of lease_lost: just after the claim and just before the strategy.
EnterStrategy(e) ==
    /\ pc[e] = "claimed"
    /\ Goto(e, IF hb[e] = "lost" THEN "aborting" ELSE "running")
    /\ UNCHANGED <<clock, row, work, lock, txNow, hb, dead>>

\* LeaseManager.renew from heartbeat_loop.  The UPDATE waits for a lock only if
\* the row it can see matches its WHERE clause.
Heartbeat(e) ==
    /\ pc[e] \in {"claimed", "running"} /\ hb[e] = "beating" /\ Now(e) <= Horizon
    /\ \/ /\ Mine(e)
          /\ Write(e, [View(e) EXCEPT !.expires = Now(e) + TTL])
          /\ UNCHANGED hb
       \/ /\ ~Mine(e)
          /\ ReadOnly(e)
          /\ hb' = [hb EXCEPT ![e] = "lost"]
    /\ UNCHANGED <<clock, pc, dead>>

\* The heartbeat shares the session with the strategy and catches nothing.
HeartbeatRaises(e) ==
    /\ pc[e] \in {"claimed", "running"} /\ hb[e] = "beating"
    /\ hb' = [hb EXCEPT ![e] = "raised"]
    /\ UNCHANGED <<clock, row, work, lock, txNow, pc, dead>>

\* Any other statement of the run reopens a transaction after a commit...
NodeStatement(e) ==
    /\ pc[e] = "running" /\ txNow[e] = NoTx
    /\ ReadOnly(e)
    /\ UNCHANGED <<clock, pc, hb, dead>>

\* ...which a sandbox node does in the middle of the run (sandbox_service.py).
NodeCommits(e) ==
    /\ pc[e] = "running" /\ txNow[e] # NoTx
    /\ CommitTx(e)
    /\ UNCHANGED <<clock, pc, hb, dead>>

\* An append of the run meets an IntegrityError: the event log rolls the whole
\* transaction back, an uncommitted claim or renewal included, and the run goes on.
AppendConflicts(e) ==
    /\ pc[e] \in {"claimed", "running"} /\ txNow[e] # NoTx
    /\ RollbackTx(e)
    /\ UNCHANGED <<clock, pc, hb, dead>>

StrategyReturns(e) ==
    /\ pc[e] = "running"
    /\ Goto(e, "finishing")
    /\ UNCHANGED <<clock, row, work, lock, txNow, hb, dead>>

\* The finally of _lease_context: the heartbeat ends, an exception it raised
\* resurfaces before the release, and the row goes if it is still ours and active.
Leave(e) ==
    /\ pc[e] \in {"finishing", "aborting"}
    /\ hb' = [hb EXCEPT ![e] = "off"]
    /\ \/ /\ hb[e] = "raised"
          /\ Goto(e, "errored")
          /\ UNCHANGED <<row, work, lock, txNow>>
       \/ /\ hb[e] # "raised"
          /\ Goto(e, IF pc[e] = "aborting" THEN "aborted" ELSE "completed")
          /\ IF hb[e] # "off" /\ Mine(e) THEN Write(e, NoLease) ELSE ReadOnly(e)
    /\ UNCHANGED <<clock, dead>>

\* The caller ends the transaction: RunService and the API commit, hitl_resume
\* lets the session close; an exception is rolled back.
EndTx(e) ==
    /\ pc[e] \in Returned
    /\ Goto(e, "done")
    /\ \/ pc[e] # "errored" /\ CommitTx(e)
       \/ RollbackTx(e)
    /\ UNCHANGED <<clock, hb, dead>>

-----------------------------------------------------------------------------
(* LeaseReclaimer._scan_once: find, claim for one second, release, commit *)

ReclaimTTL == 1

\* Mutation of Scan: find_expired_leases compares the wrong way round.
ScanFindsActive(r) ==
    /\ pc[r] = "idle" /\ Active(row, clock)
    /\ Goto(r, "reclaim") /\ ReadOnly(r)
    /\ UNCHANGED <<clock, hb, dead>>

Scan(r) ==
    /\ pc[r] = "idle" /\ Expired(row, clock)
    /\ Goto(r, "reclaim") /\ ReadOnly(r)
    /\ UNCHANGED <<clock, hb, dead>>

ReclaimClaim(r) ==
    /\ pc[r] = "reclaim"
    /\ \/ UpsertWins(r, ReclaimTTL) /\ Goto(r, "won")
       \/ UpsertLoses(r) /\ Goto(r, "commit")
    /\ UNCHANGED <<clock, hb, dead>>

ReclaimRelease(r) ==
    /\ pc[r] = "won"
    /\ IF Mine(r) THEN Write(r, NoLease) ELSE ReadOnly(r)
    /\ Goto(r, "commit")
    /\ UNCHANGED <<clock, hb, dead>>

\* Mutation of ScanCommit: the loop leaves its session open.
ScanForgetsCommit(r) ==
    /\ pc[r] = "commit" /\ Goto(r, "idle")
    /\ UNCHANGED <<clock, row, work, lock, txNow, hb, dead>>

ScanCommit(r) ==
    /\ pc[r] = "commit"
    /\ CommitTx(r) /\ Goto(r, "idle")
    /\ UNCHANGED <<clock, hb, dead>>

\* "All exceptions are caught per iteration": wherever in the scan it failed, the
\* session closes uncommitted.  (An IntegrityError in reclaim_one's append rolls
\* back too.)
ScanRaises(r) ==
    /\ pc[r] \in Scanning
    /\ RollbackTx(r) /\ Goto(r, "idle")
    /\ UNCHANGED <<clock, hb, dead>>

-----------------------------------------------------------------------------
(* The environment *)

Tick ==
    /\ clock < MaxClock
    /\ clock' = clock + 1
    /\ UNCHANGED <<row, work, lock, txNow, pc, hb, dead>>

\* The OS process w dies with every execute() begun in it; PostgreSQL rolls
\* their transactions back.
Crash(w) ==
    LET victims == {e \in Exec : WorkerOf[e] = w /\ pc[e] \notin {"idle", "done"}} IN
    /\ victims # {}
    /\ dead' = dead \cup {w}
    /\ pc' = [p \in Proc |-> IF p \in victims THEN "done" ELSE pc[p]]
    /\ hb' = [e \in Exec |-> IF e \in victims THEN "off" ELSE hb[e]]
    /\ txNow' = [p \in Proc |-> IF p \in victims THEN NoTx ELSE txNow[p]]
    /\ lock' = IF lock \in victims THEN NoProc ELSE lock
    /\ work' = IF lock \in victims THEN row ELSE work
    /\ UNCHANGED <<clock, row>>

ExecStep(e) ==
    \/ Start(e) \/ FastPath(e) \/ Upsert(e) \/ Existing(e) \/ ClaimRaises(e)
    \/ EnterStrategy(e) \/ Heartbeat(e) \/ HeartbeatRaises(e)
    \/ NodeStatement(e) \/ NodeCommits(e) \/ AppendConflicts(e) \/ StrategyReturns(e)
    \/ Leave(e) \/ EndTx(e)

ReclaimStep(r) ==
    \/ Scan(r) \/ ReclaimClaim(r) \/ ReclaimRelease(r) \/ ScanCommit(r)
    \/ ScanRaises(r)

Next ==
    \/ \E e \in Exec : ExecStep(e)
    \/ \E r \in Reclaimer : ReclaimStep(r)
    \/ \E w \in Worker : Crash(w)
    \/ Tick

Spec == Init /\ [][Next]_vars

(* A call of execute() that has begun is driven by its event loop, a        *)
(* blocked statement goes on once the lock is free, the clock runs, and a   *)
(* reclaimer whose scans keep failing gets one through in the end.          *)
Fairness ==
    /\ WF_vars(Tick)
    /\ \A e \in Exec :
          /\ WF_vars(FastPath(e)) /\ WF_vars(Upsert(e)) /\ WF_vars(Existing(e))
          /\ WF_vars(EnterStrategy(e)) /\ WF_vars(StrategyReturns(e))
          /\ WF_vars(Leave(e)) /\ WF_vars(EndTx(e))
    /\ \A r \in Reclaimer :
          /\ WF_vars(Scan(r)) /\ SF_vars(ReclaimClaim(r))
          /\ SF_vars(ReclaimRelease(r)) /\ SF_vars(ScanCommit(r))

FairSpec == Spec /\ Fairness

-----------------------------------------------------------------------------
(* Properties *)

\* e is inside the lease context, its heartbeat has reported nothing wrong, and
\* the row it would read is an active lease of its worker.
Holds(e) ==
    /\ pc[e] \in InRun /\ hb[e] = "beating"
    /\ Active(View(e), clock) /\ View(e).owner = WorkerOf[e]

(* Two workers never both hold the run, although the second one may look at *)
(* the row while the first one's writes are uncommitted, with a now() that  *)
(* may be long past (try_claim_lease, leases.py).                           *)
ActiveLeaseExclusive ==
    \A e1, e2 \in Exec : Holds(e1) /\ Holds(e2) => WorkerOf[e1] = WorkerOf[e2]

(* The reclaimer's own one-second lease never escapes its transaction, also *)
(* when a scan fails half-way: nobody is ever turned away because of it     *)
(* (reclaim_one and _scan_once, lease_reclaimer.py).                        *)
ReclaimerNeverVisible ==
    row # NoLease => \A r \in Reclaimer : row.owner # WorkerOf[r]

(* As long as a committed lease has not expired, only a process of the      *)
(* worker that owns it changes or removes it: no claim, no rejected claim,  *)
(* no sweep, no crash and no rollback of anybody else does.                 *)
UnexpiredLeaseIsTheOwners ==
    [][(row # NoLease /\ row.expires >= clock /\ row' # row)
       => lock # NoProc /\ WorkerOf[lock] = row.owner]_vars

(* The lease is a lock with a timeout: seen through the committed row, the  *)
(* run passes from one worker to another only by being free in between.     *)
Holder == IF row # NoLease /\ row.expires >= clock THEN row.owner ELSE NoLease
Ownership == INSTANCE RunOwnership WITH Nobody <- NoLease, holder <- Holder
ImplementsOwnership == Ownership!Spec

(* The lease of a process that died is eventually gone or somebody else's   *)
(* (the purpose of lease_reclaimer.py), even if every scan may fail.        *)
DeadWorkersLeaseCleared ==
    \A e \in Exec :
        (row # NoLease /\ row.owner = WorkerOf[e] /\ WorkerOf[e] \in dead)
            ~> (row = NoLease \/ row.owner # WorkerOf[e])

(* No execute() waits for ever behind another one's row lock.               *)
ExecutionEnds == \A e \in Exec : pc[e] = "claim" ~> pc[e] = "done"

-----------------------------------------------------------------------------
(* The inductive invariant behind the safety properties *)

\* A write not yet committed belongs to an open transaction that began by now.
LockIsATransactions ==
    /\ lock = NoProc => work = row
    /\ lock # NoProc => txNow[lock] # NoTx
    /\ \A p \in Proc : txNow[p] <= clock

\* An uncommitted change is made to one's own row or to one that has expired,
\* and what it leaves is one's own.
OverwritesOwnOrExpired ==
    (lock # NoProc /\ work # row) =>
        /\ row # NoLease /\ row.owner # WorkerOf[lock] => row.expires < clock
        /\ work # NoLease => work.owner = WorkerOf[lock]

\* A reclaimer locks the row only within a scan, and has let go of its own
\* lease by the time the scan commits.
ReclaimerCleansUp ==
    \A r \in Reclaimer :
        /\ lock = r => pc[r] \in {"won", "commit"}
        /\ pc[r] = "won" => lock = r /\ Mine(r)
        /\ pc[r] = "commit" /\ lock = r => work \in {NoLease, row}

(* The lease protocol's inductive invariant: type correctness, the meaning  *)
(* of the row lock, what an uncommitted write may overwrite, and that a     *)
(* reclaimer's lease lives inside its transaction only (leases.py,          *)
(* lease_reclaimer.py).                                                     *)
IInv ==
    /\ TypeOK
    /\ LockIsATransactions
    /\ OverwritesOwnOrExpired
    /\ ReclaimerCleansUp
    /\ ReclaimerNeverVisible

=============================================================================
