------------------------- MODULE WorkerLeaseProofs -------------------------
(***************************************************************************)
(* Proofs about WorkerLease, for any number of executions, reclaimers and  *)
(* workers, any TTL and any clock: the inductive invariant, that two       *)
(* workers never both hold the run, that only its owner touches a lease    *)
(* that has not expired, and that the protocol implements RunOwnership.    *)
(***************************************************************************)
EXTENDS WorkerLease, TLAPS

\* The part of the state the database keeps, and what is invariant about it.
StoreTypeOK ==
    /\ clock \in Nat
    /\ row \in Lease \cup {NoLease}
    /\ work \in Lease \cup {NoLease}
    /\ lock \in Proc \cup {NoProc}
    /\ txNow \in [Proc -> Nat \cup {NoTx}]

StoreInv == StoreTypeOK /\ LockIsATransactions /\ OverwritesOwnOrExpired

\* The writes the code makes: leave the row as it is, take over a row that may
\* be claimed, or change one's own active row.
LegalWrite(p, l) ==
    /\ l \in Lease \cup {NoLease}
    /\ \/ l = View(p)
       \/ Claimable(p) /\ l # NoLease /\ l.owner = WorkerOf[p]
       \/ Mine(p) /\ (l # NoLease => l.owner = WorkerOf[p])

-----------------------------------------------------------------------------
(* Statements and transactions, one lemma for each kind of step on the row *)

\* now() is never in the future.
LEMMA NowIsPast ==
    ASSUME StoreInv, NEW p \in Proc
    PROVE  Now(p) \in Nat /\ Now(p) <= clock
  BY DEF StoreInv, StoreTypeOK, LockIsATransactions, Now, NoTx

\* A statement opens a transaction if there is none, and moves no now().
LEMMA TouchKeeps ==
    ASSUME StoreInv, NEW p \in Proc, Touch(p), clock' = clock
    PROVE  /\ txNow' \in [Proc -> Nat \cup {NoTx}]
           /\ txNow'[p] # NoTx
           /\ \A q \in Proc : txNow'[q] <= clock'
           /\ \A q \in Proc : txNow[q] # NoTx => txNow'[q] = txNow[q]
  <1>1. Now(p) \in Nat /\ Now(p) <= clock
    BY NowIsPast
  <1> QED
    BY <1>1 DEF Touch, StoreInv, StoreTypeOK, LockIsATransactions, NoTx, Now

\* A legal write, made while the row lock can be had, keeps the store invariant.
LEMMA WriteKeepsStore ==
    ASSUME StoreInv, NEW p \in Proc, NEW l, LegalWrite(p, l), Write(p, l), clock' = clock
    PROVE  StoreInv' /\ lock' = p /\ row' = row
  <1>1. /\ txNow' \in [Proc -> Nat \cup {NoTx}]
        /\ txNow'[p] # NoTx
        /\ \A q \in Proc : txNow'[q] <= clock'
    BY TouchKeeps DEF Write
  <1>2. lock' = p /\ row' = row /\ work' = l /\ p # NoProc /\ lock \in {p, NoProc}
    BY ConstAssumption DEF Write, Free
  <1>3. StoreTypeOK'
    BY <1>1, <1>2 DEF StoreInv, StoreTypeOK, LegalWrite
  <1>4. LockIsATransactions'
    BY <1>1, <1>2 DEF LockIsATransactions
  <1>5. OverwritesOwnOrExpired'
    <2> SUFFICES ASSUME l # row
                 PROVE  /\ row # NoLease /\ row.owner # WorkerOf[p] => row.expires < clock
                        /\ l # NoLease => l.owner = WorkerOf[p]
      BY <1>2 DEF OverwritesOwnOrExpired
    <2>1. CASE lock = p /\ work # row
      BY <2>1, <1>2 DEF StoreInv, OverwritesOwnOrExpired, LegalWrite, View, Mine
    <2>2. CASE ~(lock = p /\ work # row)
      <3>1. View(p) = row
        BY <2>2, <1>2 DEF View
      <3>2. Now(p) \in Nat /\ Now(p) <= clock /\ clock \in Nat
        BY NowIsPast DEF StoreInv, StoreTypeOK
      <3>3. row # NoLease => row.expires \in Int
        BY DEF StoreInv, StoreTypeOK, Lease
      <3> QED
        BY <3>1, <3>2, <3>3 DEF LegalWrite, Claimable, Expired, Mine
    <2> QED BY <2>1, <2>2
  <1> QED BY <1>2, <1>3, <1>4, <1>5 DEF StoreInv

\* So does a statement that only reads.
LEMMA ReadKeepsStore ==
    ASSUME StoreInv, NEW p \in Proc, ReadOnly(p), clock' = clock
    PROVE  StoreInv' /\ UNCHANGED <<row, work, lock>>
  <1>1. /\ txNow' \in [Proc -> Nat \cup {NoTx}]
        /\ \A q \in Proc : txNow'[q] <= clock'
        /\ \A q \in Proc : txNow[q] # NoTx => txNow'[q] = txNow[q]
    BY TouchKeeps DEF ReadOnly
  <1>2. UNCHANGED <<row, work, lock>>
    BY DEF ReadOnly
  <1> QED
    BY <1>1, <1>2 DEF StoreInv, StoreTypeOK, LockIsATransactions, OverwritesOwnOrExpired

\* A commit publishes what its transaction wrote, and nothing else.
LEMMA CommitKeepsStore ==
    ASSUME StoreInv, NEW p \in Proc, CommitTx(p), clock' = clock
    PROVE  /\ StoreInv' /\ lock' # p
           /\ lock # p => UNCHANGED <<row, work, lock>>
           /\ lock = p => row' = work /\ work' = work /\ lock' = NoProc
  <1>1. txNow' \in [Proc -> Nat \cup {NoTx}] /\ \A q \in Proc : txNow'[q] <= clock'
    BY DEF CommitTx, StoreInv, StoreTypeOK, LockIsATransactions, NoTx
  <1>2. CASE lock = p
    <2>1. row' = work /\ work' = work /\ lock' = NoProc /\ p # NoProc
      BY <1>2, ConstAssumption DEF CommitTx, View
    <2> QED
      BY <1>1, <1>2, <2>1
      DEF StoreInv, StoreTypeOK, LockIsATransactions, OverwritesOwnOrExpired
  <1>3. CASE lock # p
    <2>1. UNCHANGED <<row, work, lock>>
      BY <1>3 DEF CommitTx, View
    <2>2. lock # NoProc => txNow'[lock] = txNow[lock]
      BY <1>3 DEF CommitTx, StoreInv, StoreTypeOK
    <2> QED
      BY <1>1, <1>3, <2>1, <2>2
      DEF StoreInv, StoreTypeOK, LockIsATransactions, OverwritesOwnOrExpired
  <1> QED BY <1>2, <1>3

\* A rollback publishes nothing.
LEMMA RollbackKeepsStore ==
    ASSUME StoreInv, NEW p \in Proc, RollbackTx(p), clock' = clock
    PROVE  /\ StoreInv' /\ lock' # p /\ row' = row
           /\ lock # p => UNCHANGED <<work, lock>>
           /\ lock = p => lock' = NoProc
  <1>1. txNow' \in [Proc -> Nat \cup {NoTx}] /\ \A q \in Proc : txNow'[q] <= clock'
    BY DEF RollbackTx, StoreInv, StoreTypeOK, LockIsATransactions, NoTx
  <1>2. CASE lock = p
    <2>1. row' = row /\ work' = row /\ lock' = NoProc /\ p # NoProc
      BY <1>2, ConstAssumption DEF RollbackTx
    <2> QED
      BY <1>1, <1>2, <2>1
      DEF StoreInv, StoreTypeOK, LockIsATransactions, OverwritesOwnOrExpired
  <1>3. CASE lock # p
    <2>1. UNCHANGED <<row, work, lock>>
      BY <1>3 DEF RollbackTx
    <2>2. lock # NoProc => txNow'[lock] = txNow[lock]
      BY <1>3 DEF RollbackTx, StoreInv, StoreTypeOK
    <2> QED
      BY <1>1, <1>3, <2>1, <2>2
      DEF StoreInv, StoreTypeOK, LockIsATransactions, OverwritesOwnOrExpired
  <1> QED BY <1>2, <1>3

\* A crash rolls back the transaction of the process that had the lock, if it died.
LEMMA CrashKeepsStore ==
    ASSUME StoreInv, NEW w \in Worker, Crash(w)
    PROVE  /\ StoreInv' /\ row' = row /\ clock' = clock
           /\ lock' \in {lock, NoProc}
           /\ lock' = lock => work' = work
  <1> DEFINE victims == {e \in Exec : WorkerOf[e] = w /\ pc[e] \notin {"idle", "done"}}
  <1>1. /\ txNow' = [p \in Proc |-> IF p \in victims THEN NoTx ELSE txNow[p]]
        /\ lock' = (IF lock \in victims THEN NoProc ELSE lock)
        /\ work' = (IF lock \in victims THEN row ELSE work)
        /\ UNCHANGED <<clock, row>>
    BY DEF Crash
  <1>2. NoProc \notin victims
    BY ConstAssumption DEF Proc
  <1>3. txNow' \in [Proc -> Nat \cup {NoTx}] /\ \A q \in Proc : txNow'[q] <= clock'
    BY <1>1 DEF StoreInv, StoreTypeOK, LockIsATransactions, NoTx
  <1>4. CASE lock \in victims
    <2>1. lock' = NoProc /\ work' = row /\ row' = row /\ clock' = clock /\ lock # NoProc
      BY <1>1, <1>2, <1>4
    <2> QED
      BY <1>3, <2>1 DEF StoreInv, StoreTypeOK, LockIsATransactions, OverwritesOwnOrExpired
  <1>5. CASE lock \notin victims
    <2>1. UNCHANGED <<lock, work, row, clock>>
      BY <1>1, <1>5
    <2>2. lock # NoProc => txNow'[lock] = txNow[lock]
      BY <1>1, <1>5 DEF StoreInv, StoreTypeOK
    <2> QED
      BY <1>3, <2>1, <2>2
      DEF StoreInv, StoreTypeOK, LockIsATransactions, OverwritesOwnOrExpired
  <1> QED BY <1>4, <1>5

\* What a statement or a transaction's end of p leaves to the holder of the lock.
RowStep(p) == (\E l : Write(p, l)) \/ ReadOnly(p) \/ CommitTx(p) \/ RollbackTx(p)

\* A step of p is invisible to the transaction of q.
LEMMA OthersUntouched ==
    ASSUME StoreInv, NEW p \in Proc, NEW q \in Proc, q # p, RowStep(p)
    PROVE  /\ lock' = q <=> lock = q
           /\ lock = q => work' = work /\ row' = row
           /\ txNow'[q] = txNow[q]
  <1>1. txNow'[q] = txNow[q]
    BY DEF RowStep, Write, ReadOnly, CommitTx, RollbackTx, Touch, StoreInv, StoreTypeOK
  <1>2. q # NoProc
    BY ConstAssumption
  <1>3. CASE \E l : Write(p, l)
    BY <1>1, <1>2, <1>3 DEF Write, Free
  <1>4. CASE ReadOnly(p)
    BY <1>1, <1>4 DEF ReadOnly
  <1>5. CASE CommitTx(p)
    BY <1>1, <1>2, <1>5 DEF CommitTx, View
  <1>6. CASE RollbackTx(p)
    BY <1>1, <1>2, <1>6 DEF RollbackTx
  <1> QED BY <1>3, <1>4, <1>5, <1>6 DEF RowStep

\* An execution's step leaves every reclaimer, and what it locked, alone.
LEMMA ExecKeepsReclaimers ==
    ASSUME IInv, StoreInv, NEW e \in Exec, RowStep(e), clock' = clock,
           \A r \in Reclaimer : pc'[r] = pc[r]
    PROVE  ReclaimerCleansUp'
  <1> SUFFICES ASSUME NEW r \in Reclaimer
               PROVE  /\ lock' = r => pc'[r] \in {"won", "commit"}
                      /\ pc'[r] = "won" => lock' = r /\ Mine(r)'
                      /\ pc'[r] = "commit" /\ lock' = r => work' \in {NoLease, row'}
    BY DEF ReclaimerCleansUp
  <1>1. r \in Proc /\ e \in Proc /\ r # e
    BY ConstAssumption DEF Proc
  <1>2. /\ lock' = r <=> lock = r
        /\ lock = r => work' = work /\ row' = row
        /\ txNow'[r] = txNow[r]
    BY <1>1, OthersUntouched
  <1>3. /\ lock = r => pc[r] \in {"won", "commit"}
        /\ pc[r] = "won" => lock = r /\ Mine(r)
        /\ pc[r] = "commit" /\ lock = r => work \in {NoLease, row}
    BY DEF IInv, ReclaimerCleansUp
  <1>4. lock = r /\ Mine(r) => Mine(r)'
    BY <1>2 DEF Mine, Active, View, Now
  <1> QED BY <1>2, <1>3, <1>4

\* The row as everybody sees it changes only when the lock's holder commits.
LEMMA RowChangesByCommit ==
    ASSUME IInv, Next, row' # row
    PROVE  \E p \in Proc :
              /\ lock = p /\ row' = work /\ clock' = clock
              /\ p \in Reclaimer => pc[p] = "commit"
  <1> SUFFICES \E p \in Proc : /\ CommitTx(p) /\ clock' = clock
                               /\ p \in Reclaimer => pc[p] = "commit"
    BY DEF CommitTx, View
  <1>1. CASE \E e \in Exec : ExecStep(e)
    <2> PICK e \in Exec : ExecStep(e)
      BY <1>1
    <2>1. NodeCommits(e) \/ EndTx(e)
      BY DEF ExecStep, Start, FastPath, Upsert, Existing, ClaimRaises, EnterStrategy,
             Heartbeat, HeartbeatRaises, NodeStatement, AppendConflicts,
             StrategyReturns, Leave, UpsertWins, UpsertLoses, Write, ReadOnly, RollbackTx
    <2>2. CommitTx(e) /\ clock' = clock
      BY <2>1 DEF NodeCommits, EndTx, RollbackTx
    <2> QED BY <2>2, ConstAssumption DEF Proc
  <1>2. CASE \E r \in Reclaimer : ReclaimStep(r)
    <2> PICK r \in Reclaimer : ReclaimStep(r)
      BY <1>2
    <2>1. ScanCommit(r)
      BY DEF ReclaimStep, Scan, ReclaimClaim, ReclaimRelease, ScanRaises,
             UpsertWins, UpsertLoses, Write, ReadOnly, RollbackTx
    <2> QED BY <2>1 DEF ScanCommit, Proc
  <1>3. CASE \E w \in Worker : Crash(w)
    BY <1>3 DEF Crash
  <1>4. CASE Tick
    BY <1>4 DEF Tick
  <1> QED BY <1>1, <1>2, <1>3, <1>4 DEF Next

\* No commit publishes a lease that belongs to a reclaimer.
LEMMA ReclaimersStayInvisible ==
    ASSUME IInv, Next
    PROVE  ReclaimerNeverVisible'
  <1>1. CASE row' = row
    BY <1>1 DEF IInv, ReclaimerNeverVisible
  <1>2. CASE row' # row
    <2> PICK p \in Proc : /\ lock = p /\ row' = work
                          /\ p \in Reclaimer => pc[p] = "commit"
      BY <1>2, RowChangesByCommit
    <2>1. work # row /\ p # NoProc
      BY <1>2, ConstAssumption
    <2>2. CASE p \in Reclaimer
      <3>1. work = NoLease
        BY <2>1, <2>2 DEF IInv, ReclaimerCleansUp
      <3> QED BY <3>1 DEF ReclaimerNeverVisible
    <2>3. CASE p \in Exec
      <3>1. work # NoLease => work.owner = WorkerOf[p]
        BY <2>1 DEF IInv, OverwritesOwnOrExpired
      <3>2. \A r \in Reclaimer : WorkerOf[p] # WorkerOf[r]
        BY <2>3, ConstAssumption DEF Proc
      <3> QED BY <3>1, <3>2 DEF ReclaimerNeverVisible
    <2> QED BY <2>2, <2>3 DEF Proc
  <1> QED BY <1>1, <1>2

-----------------------------------------------------------------------------
(* The writes of each action are legal *)

\* The claim's new row is a legal write.
LEMMA NewLeaseLegal ==
    ASSUME StoreInv, NEW p \in Proc, NEW ttl \in Nat, Claimable(p)
    PROVE  /\ LegalWrite(p, NewLease(p, ttl))
           /\ NewLease(p, ttl) # NoLease
           /\ NewLease(p, ttl).owner = WorkerOf[p]
           /\ NewLease(p, ttl).expires = Now(p) + ttl
  <1>1. Now(p) \in Nat
    BY NowIsPast
  <1>2. View(p) # NoLease => View(p).generation \in Nat
    BY DEF View, StoreInv, StoreTypeOK, Lease
  <1>3. WorkerOf[p] \in Worker
    BY ConstAssumption
  <1>4. NewLease(p, ttl) \in Lease
    BY <1>1, <1>2, <1>3 DEF NewLease, Lease
  <1>5. NewLease(p, ttl).owner = WorkerOf[p] /\ NewLease(p, ttl).expires = Now(p) + ttl
    BY DEF NewLease
  <1> QED BY <1>4, <1>5, ConstAssumption DEF LegalWrite

\* So are leaving the row alone, releasing it and renewing it.
LEMMA OwnWritesLegal ==
    ASSUME StoreInv, NEW p \in Proc
    PROVE  /\ LegalWrite(p, View(p))
           /\ Mine(p) => LegalWrite(p, NoLease)
           /\ Mine(p) => LegalWrite(p, [View(p) EXCEPT !.expires = Now(p) + TTL])
  <1>1. View(p) \in Lease \cup {NoLease}
    BY DEF View, StoreInv, StoreTypeOK
  <1>2. Now(p) \in Nat
    BY NowIsPast
  <1>3. Mine(p) => /\ [View(p) EXCEPT !.expires = Now(p) + TTL] \in Lease
                   /\ [View(p) EXCEPT !.expires = Now(p) + TTL].owner = WorkerOf[p]
    BY <1>1, <1>2, ConstAssumption DEF Mine, Active, Lease
  <1> QED BY <1>1, <1>3 DEF LegalWrite

\* Every step of an execution is one legal step on the row.
LEMMA ExecStepKeepsStore ==
    ASSUME StoreInv, NEW e \in Exec, ExecStep(e),
           ~UNCHANGED <<row, work, lock, txNow>>
    PROVE  StoreInv' /\ RowStep(e) /\ clock' = clock
  <1> e \in Proc
    BY DEF Proc
  <1>1. CASE \E l : LegalWrite(e, l) /\ Write(e, l) /\ clock' = clock
    BY <1>1, WriteKeepsStore DEF RowStep
  <1>2. CASE ReadOnly(e) /\ clock' = clock
    BY <1>2, ReadKeepsStore DEF RowStep
  <1>3. CASE (CommitTx(e) \/ RollbackTx(e)) /\ clock' = clock
    BY <1>3, CommitKeepsStore, RollbackKeepsStore DEF RowStep
  <1>4. CASE Upsert(e)
    <2>1. TTL \in Nat /\ clock' = clock
      BY <1>4, ConstAssumption DEF Upsert
    <2>2. CASE UpsertWins(e, TTL)
      BY <1>1, <2>1, <2>2, NewLeaseLegal DEF UpsertWins
    <2>3. CASE UpsertLoses(e)
      BY <1>1, <2>1, <2>3, OwnWritesLegal DEF UpsertLoses
    <2> QED BY <1>4, <2>2, <2>3 DEF Upsert
  <1>5. CASE Heartbeat(e)
    <2>1. clock' = clock
      BY <1>5 DEF Heartbeat
    <2>2. CASE Mine(e) /\ Write(e, [View(e) EXCEPT !.expires = Now(e) + TTL])
      BY <1>1, <2>1, <2>2, OwnWritesLegal
    <2> QED BY <1>2, <1>5, <2>1, <2>2 DEF Heartbeat
  <1>6. CASE Leave(e)
    <2>1. clock' = clock
      BY <1>6 DEF Leave
    <2>2. CASE Mine(e) /\ Write(e, NoLease)
      BY <1>1, <2>1, <2>2, OwnWritesLegal
    <2> QED BY <1>2, <1>6, <2>1, <2>2 DEF Leave
  <1>7. CASE Start(e) \/ FastPath(e) \/ Existing(e) \/ ClaimRaises(e) \/ NodeStatement(e)
    BY <1>2, <1>7 DEF Start, FastPath, Existing, ClaimRaises, NodeStatement
  <1>8. CASE NodeCommits(e) \/ AppendConflicts(e) \/ EndTx(e)
    BY <1>3, <1>8 DEF NodeCommits, AppendConflicts, EndTx
  <1>9. ~(EnterStrategy(e) \/ HeartbeatRaises(e) \/ StrategyReturns(e))
    BY DEF EnterStrategy, HeartbeatRaises, StrategyReturns
  <1> QED BY <1>4, <1>5, <1>6, <1>7, <1>8, <1>9 DEF ExecStep

-----------------------------------------------------------------------------
(* The control state *)

PcType == {"idle", "done"} \cup Claiming \cup InRun \cup Returned \cup Scanning

ControlTypeOK ==
    /\ pc \in [Proc -> PcType]
    /\ hb \in [Exec -> Beat]
    /\ dead \in SUBSET Worker

\* An execution's step moves only its own control state.
LEMMA ExecStepControl ==
    ASSUME ControlTypeOK, NEW e \in Exec, ExecStep(e)
    PROVE  ControlTypeOK' /\ clock' = clock /\ \A r \in Reclaimer : pc'[r] = pc[r]
  <1>1. dead' = dead /\ clock' = clock
    BY DEF ExecStep, Start, FastPath, Upsert, Existing, ClaimRaises, EnterStrategy,
           Heartbeat, HeartbeatRaises, NodeStatement, NodeCommits, AppendConflicts,
           StrategyReturns,
           Leave, EndTx
  <1>2. hb' = hb \/ \E b \in Beat : hb' = [hb EXCEPT ![e] = b]
    BY DEF ExecStep, Start, FastPath, Upsert, Existing, ClaimRaises, EnterStrategy,
           Heartbeat, HeartbeatRaises, NodeStatement, NodeCommits, AppendConflicts,
           StrategyReturns,
           Leave, EndTx, Granted, Beat
  <1>3. pc' = pc \/ \E l \in PcType : Goto(e, l)
    BY DEF ExecStep, Start, FastPath, Upsert, Existing, ClaimRaises, EnterStrategy,
           Heartbeat, HeartbeatRaises, NodeStatement, NodeCommits, AppendConflicts,
           StrategyReturns,
           Leave, EndTx, Granted, PcType, Claiming, InRun, Returned
  <1>4. hb' \in [Exec -> Beat] /\ dead' \in SUBSET Worker
    BY <1>1, <1>2 DEF ControlTypeOK
  <1>5. pc' \in [Proc -> PcType] /\ \A r \in Reclaimer : pc'[r] = pc[r]
    BY <1>3, ConstAssumption DEF ControlTypeOK, Goto, Proc
  <1> QED BY <1>1, <1>4, <1>5 DEF ControlTypeOK

\* So does a reclaimer's.
LEMMA ReclaimStepControl ==
    ASSUME ControlTypeOK, NEW r \in Reclaimer, ReclaimStep(r)
    PROVE  ControlTypeOK' /\ clock' = clock
  <1>1. dead' = dead /\ hb' = hb /\ clock' = clock
    BY DEF ReclaimStep, Scan, ReclaimClaim, ReclaimRelease, ScanCommit, ScanRaises
  <1>2. \E l \in PcType : Goto(r, l)
    BY DEF ReclaimStep, Scan, ReclaimClaim, ReclaimRelease, ScanCommit, ScanRaises,
           PcType, Scanning
  <1> QED BY <1>1, <1>2 DEF ControlTypeOK, Goto, Proc

\* The invariant, split into what the database keeps and what the processes keep.
LEMMA IInvParts ==
    ASSUME IInv
    PROVE  StoreInv /\ ControlTypeOK
  BY DEF IInv, TypeOK, StoreInv, StoreTypeOK, ControlTypeOK, PcType

\* And put together again, in this state and in the next.
LEMMA IInvFromParts ==
    /\ StoreInv /\ ControlTypeOK /\ ReclaimerCleansUp /\ ReclaimerNeverVisible => IInv
    /\ StoreInv' /\ ControlTypeOK' /\ ReclaimerCleansUp' /\ ReclaimerNeverVisible' => IInv'
  BY DEF IInv, TypeOK, StoreInv, StoreTypeOK, ControlTypeOK, PcType

-----------------------------------------------------------------------------
(* The reclaimer's steps *)

\* Every step of a scan keeps the store invariant and the discipline of the scan.
LEMMA ReclaimStepKeeps ==
    ASSUME IInv, NEW r \in Reclaimer, ReclaimStep(r)
    PROVE  StoreInv' /\ ReclaimerCleansUp'
  <1> r \in Proc /\ StoreInv /\ ControlTypeOK
    BY IInvParts DEF Proc
  <1>0. clock' = clock
    BY ReclaimStepControl
  <1> DEFINE CleansUp(q) ==
        /\ lock = q => pc[q] \in {"won", "commit"}
        /\ pc[q] = "won" => lock = q /\ Mine(q)
        /\ pc[q] = "commit" /\ lock = q => work \in {NoLease, row}
  <1>1. \A q \in Reclaimer : CleansUp(q)
    BY DEF IInv, ReclaimerCleansUp
  <1>2. ASSUME RowStep(r), CleansUp(r)'
        PROVE  ReclaimerCleansUp'
    <2> SUFFICES ASSUME NEW q \in Reclaimer, q # r
                 PROVE  CleansUp(q)'
      BY <1>2 DEF ReclaimerCleansUp
    <2>1. pc'[q] = pc[q]
      BY DEF ReclaimStep, Scan, ReclaimClaim, ReclaimRelease, ScanCommit, ScanRaises,
             Goto, ControlTypeOK, Proc
    <2>2. /\ lock' = q <=> lock = q
          /\ lock = q => work' = work /\ row' = row
          /\ txNow'[q] = txNow[q]
      BY <1>2, OthersUntouched DEF Proc
    <2>3. lock = q /\ Mine(q) => Mine(q)'
      BY <1>0, <2>2 DEF Mine, Active, View, Now
    <2> QED BY <1>1, <2>1, <2>2, <2>3
  <1>3. CASE Scan(r)
    <2>1. ReadOnly(r) /\ pc'[r] = "reclaim"
      BY <1>3 DEF Scan, Goto, ControlTypeOK
    <2>2. lock # r
      BY <1>1, <1>3 DEF Scan
    <2>3. StoreInv' /\ lock' = lock
      BY <1>0, <2>1, ReadKeepsStore
    <2>4. CleansUp(r)'
      BY <2>1, <2>2, <2>3
    <2> QED BY <1>2, <2>1, <2>3, <2>4 DEF RowStep
  <1>4. CASE ReclaimClaim(r)
    <2>1. lock # r /\ View(r) = row
      BY <1>1, <1>4 DEF ReclaimClaim, View
    <2>2. CASE UpsertWins(r, ReclaimTTL) /\ Goto(r, "won")
      <3> DEFINE l == NewLease(r, ReclaimTTL)
      <3>1. LegalWrite(r, l) /\ l # NoLease /\ l.owner = WorkerOf[r] /\ l.expires = Now(r) + 1
        BY <2>2, NewLeaseLegal DEF UpsertWins, ReclaimTTL
      <3>2. Write(r, l)
        BY <2>2 DEF UpsertWins
      <3>3. StoreInv' /\ lock' = r /\ work' = l
        BY <1>0, <3>1, <3>2, WriteKeepsStore DEF Write
      <3>4. txNow'[r] = Now(r) /\ Now(r) \in Nat
        BY <3>2, NowIsPast DEF Write, Touch, StoreInv, StoreTypeOK
      <3>5. Mine(r)'
        BY <3>1, <3>3, <3>4 DEF Mine, Active, View, Now, NoTx
      <3>6. CleansUp(r)'
        BY <2>2, <3>3, <3>5 DEF Goto, ControlTypeOK
      <3> QED BY <1>2, <3>2, <3>3, <3>6 DEF RowStep
    <2>3. CASE UpsertLoses(r) /\ Goto(r, "commit")
      <3>1. Write(r, row)
        BY <2>1, <2>3 DEF UpsertLoses
      <3>2. StoreInv' /\ work' = row /\ row' = row
        BY <1>0, <2>1, <3>1, OwnWritesLegal, WriteKeepsStore DEF Write
      <3>3. CleansUp(r)'
        BY <2>3, <3>2 DEF Goto, ControlTypeOK
      <3> QED BY <1>2, <3>1, <3>2, <3>3 DEF RowStep
    <2> QED BY <1>4, <2>2, <2>3 DEF ReclaimClaim
  <1>5. CASE ReclaimRelease(r)
    <2>1. Mine(r) /\ Write(r, NoLease) /\ pc'[r] = "commit"
      BY <1>1, <1>5 DEF ReclaimRelease, Goto, ControlTypeOK
    <2>2. StoreInv' /\ work' = NoLease
      BY <1>0, <2>1, OwnWritesLegal, WriteKeepsStore DEF Write
    <2> QED BY <1>2, <2>1, <2>2 DEF RowStep
  <1>6. CASE ScanCommit(r) \/ ScanRaises(r)
    <2>1. (CommitTx(r) \/ RollbackTx(r)) /\ pc'[r] = "idle"
      BY <1>6 DEF ScanCommit, ScanRaises, Goto, ControlTypeOK
    <2>2. StoreInv' /\ lock' # r
      BY <1>0, <2>1, CommitKeepsStore, RollbackKeepsStore
    <2> QED BY <1>2, <2>1, <2>2 DEF RowStep
  <1> QED BY <1>3, <1>4, <1>5, <1>6 DEF ReclaimStep

-----------------------------------------------------------------------------
(* The theorems *)

\* The invariant holds initially.
LEMMA InitIInv == Init => IInv
  <1> SUFFICES ASSUME Init PROVE IInv
    OBVIOUS
  <1>1. StoreInv /\ ControlTypeOK
    BY ConstAssumption
    DEF Init, StoreInv, StoreTypeOK, LockIsATransactions, OverwritesOwnOrExpired,
        ControlTypeOK, PcType, Beat, NoTx
  <1>2. ReclaimerCleansUp /\ ReclaimerNeverVisible
    BY ConstAssumption DEF Init, ReclaimerCleansUp, ReclaimerNeverVisible, Proc
  <1> QED BY <1>1, <1>2, IInvFromParts

\* And every step keeps it.
LEMMA NextIInv == IInv /\ [Next]_vars => IInv'
  <1> SUFFICES ASSUME IInv, [Next]_vars PROVE IInv'
    OBVIOUS
  <1> StoreInv /\ ControlTypeOK
    BY IInvParts
  <1>1. CASE \E e \in Exec : ExecStep(e)
    <2> PICK e \in Exec : ExecStep(e)
      BY <1>1
    <2>1. ControlTypeOK' /\ clock' = clock /\ \A r \in Reclaimer : pc'[r] = pc[r]
      BY ExecStepControl
    <2>2. ASSUME UNCHANGED <<row, work, lock, txNow>>
          PROVE  StoreInv' /\ ReclaimerCleansUp'
      <3>1. StoreInv'
        BY <2>1, <2>2 DEF StoreInv, StoreTypeOK, LockIsATransactions, OverwritesOwnOrExpired
      <3>2. ReclaimerCleansUp'
        BY <2>1, <2>2 DEF IInv, ReclaimerCleansUp, Mine, Active, View, Now
      <3> QED BY <3>1, <3>2
    <2>3. ASSUME ~UNCHANGED <<row, work, lock, txNow>>
          PROVE  StoreInv' /\ ReclaimerCleansUp'
      <3>1. StoreInv' /\ RowStep(e)
        BY <2>3, ExecStepKeepsStore
      <3> QED BY <2>1, <3>1, ExecKeepsReclaimers
    <2>4. StoreInv' /\ ReclaimerCleansUp'
      BY <2>2, <2>3
    <2>5. ReclaimerNeverVisible'
      BY <1>1, ReclaimersStayInvisible DEF Next
    <2> QED BY <2>1, <2>4, <2>5, IInvFromParts
  <1>2. CASE \E r \in Reclaimer : ReclaimStep(r)
    <2> PICK r \in Reclaimer : ReclaimStep(r)
      BY <1>2
    <2>1. ControlTypeOK'
      BY ReclaimStepControl
    <2>2. StoreInv' /\ ReclaimerCleansUp'
      BY ReclaimStepKeeps
    <2>3. ReclaimerNeverVisible'
      BY <1>2, ReclaimersStayInvisible DEF Next
    <2> QED BY <2>1, <2>2, <2>3, IInvFromParts
  <1>3. CASE \E w \in Worker : Crash(w)
    <2> PICK w \in Worker : Crash(w)
      BY <1>3
    <2> DEFINE victims == {e \in Exec : WorkerOf[e] = w /\ pc[e] \notin {"idle", "done"}}
    <2>1. /\ StoreInv' /\ row' = row /\ clock' = clock
          /\ lock' \in {lock, NoProc}
          /\ lock' = lock => work' = work
      BY CrashKeepsStore
    <2>2. ControlTypeOK'
      BY DEF Crash, ControlTypeOK, PcType, Beat
    <2>3. ASSUME NEW r \in Reclaimer
          PROVE  /\ lock' = r => pc'[r] \in {"won", "commit"}
                 /\ pc'[r] = "won" => lock' = r /\ Mine(r)'
                 /\ pc'[r] = "commit" /\ lock' = r => work' \in {NoLease, row'}
      <3>1. r \notin victims /\ r \in Proc /\ r # NoProc
        BY ConstAssumption DEF Proc
      <3>2. pc'[r] = pc[r] /\ txNow'[r] = txNow[r]
        BY <3>1 DEF Crash
      <3>3. lock = r => lock' = r
        BY <3>1 DEF Crash
      <3>4. /\ lock = r => pc[r] \in {"won", "commit"}
            /\ pc[r] = "won" => lock = r /\ Mine(r)
            /\ pc[r] = "commit" /\ lock = r => work \in {NoLease, row}
        BY DEF IInv, ReclaimerCleansUp
      <3>5. lock = r /\ Mine(r) => Mine(r)'
        BY <2>1, <3>2, <3>3 DEF Mine, Active, View, Now
      <3> QED BY <2>1, <3>1, <3>2, <3>3, <3>4, <3>5
    <2>4. ReclaimerCleansUp'
      BY <2>3 DEF ReclaimerCleansUp
    <2>5. ReclaimerNeverVisible'
      BY <1>3, ReclaimersStayInvisible DEF Next
    <2> QED BY <2>1, <2>2, <2>4, <2>5, IInvFromParts
  <1>4. CASE Tick
    <2>1. /\ clock' = clock + 1 /\ clock \in Nat
          /\ UNCHANGED <<row, work, lock, txNow, pc, hb, dead>>
      BY <1>4 DEF Tick, StoreInv, StoreTypeOK
    <2>2. row # NoLease => row.expires \in Int
      BY DEF StoreInv, StoreTypeOK, Lease
    <2>3. txNow \in [Proc -> Nat \cup {NoTx}]
      BY DEF StoreInv, StoreTypeOK
    <2>4. \A p \in Proc : txNow'[p] <= clock'
      BY <2>1, <2>3 DEF StoreInv, LockIsATransactions, NoTx
    <2>5. StoreInv'
      BY <2>1, <2>2, <2>4
      DEF StoreInv, StoreTypeOK, LockIsATransactions, OverwritesOwnOrExpired
    <2>6. ReclaimerCleansUp'
      <3> SUFFICES ASSUME NEW r \in Reclaimer, pc[r] = "won"
                   PROVE  lock = r /\ Mine(r)'
        BY <2>1 DEF IInv, ReclaimerCleansUp
      <3>1. lock = r /\ Mine(r) /\ txNow[r] # NoTx
        BY ConstAssumption DEF IInv, ReclaimerCleansUp, LockIsATransactions, Proc
      <3> QED BY <2>1, <3>1 DEF Mine, Active, View, Now
    <2>7. ReclaimerNeverVisible'
      BY <2>1 DEF IInv, ReclaimerNeverVisible
    <2>8. ControlTypeOK'
      BY <2>1 DEF ControlTypeOK
    <2> QED BY <2>5, <2>6, <2>7, <2>8, IInvFromParts
  <1>5. CASE UNCHANGED vars
    <2>1. StoreInv' /\ ControlTypeOK' /\ ReclaimerNeverVisible'
      BY <1>5 DEF vars, IInv, StoreInv, StoreTypeOK, LockIsATransactions,
                  OverwritesOwnOrExpired, ControlTypeOK, ReclaimerNeverVisible
    <2>2. ReclaimerCleansUp'
      BY <1>5 DEF vars, IInv, ReclaimerCleansUp, Mine, Active, View, Now
    <2> QED BY <2>1, <2>2, IInvFromParts
  <1> QED BY <1>1, <1>2, <1>3, <1>4, <1>5 DEF Next

(* The lease protocol keeps its inductive invariant, whatever executions,   *)
(* reclaimers, crashes and failed scans there are (leases.py).              *)
THEOREM LeaseInvariant == Spec => []IInv
  BY InitIInv, NextIInv, PTL DEF Spec

(* try_claim_lease never lets a second worker in beside an active holder,   *)
(* although the holder's writes may be uncommitted and the second worker's  *)
(* now() old.                                                               *)
THEOREM LeaseExclusion == Spec => []ActiveLeaseExclusive
  <1>1. IInv => ActiveLeaseExclusive
    <2> SUFFICES ASSUME IInv, NEW e1 \in Exec, NEW e2 \in Exec, Holds(e1), Holds(e2)
                 PROVE  WorkerOf[e1] = WorkerOf[e2]
      BY DEF ActiveLeaseExclusive
    <2>1. /\ View(e1) # NoLease /\ View(e1).owner = WorkerOf[e1] /\ View(e1).expires > clock
          /\ View(e2) # NoLease /\ View(e2).owner = WorkerOf[e2] /\ View(e2).expires > clock
      BY DEF Holds, Active
    <2>2. e1 # NoProc /\ e2 # NoProc
      BY ConstAssumption DEF Proc
    <2>3. clock \in Nat /\ (row # NoLease => row.expires \in Int)
      BY IInvParts DEF StoreInv, StoreTypeOK, Lease
    <2>4. CASE View(e1) = View(e2)
      BY <2>1, <2>4
    <2>5. CASE lock = e1 /\ View(e1) = work /\ View(e2) = row /\ work # row
      BY <2>1, <2>2, <2>3, <2>5 DEF IInv, OverwritesOwnOrExpired
    <2>6. CASE lock = e2 /\ View(e2) = work /\ View(e1) = row /\ work # row
      BY <2>1, <2>2, <2>3, <2>6 DEF IInv, OverwritesOwnOrExpired
    <2> QED BY <2>4, <2>5, <2>6 DEF View
  <1> QED BY <1>1, LeaseInvariant, PTL

\* What becomes of the committed row in one step.
LEMMA RowStepSafe ==
    ASSUME IInv, [Next]_vars
    PROVE  /\ clock' >= clock /\ clock' \in Nat
           /\ row' # row =>
                /\ lock # NoProc /\ lock \in Proc /\ clock' = clock
                /\ row # NoLease /\ row.expires >= clock => row.owner = WorkerOf[lock]
                /\ row' # NoLease => row'.owner = WorkerOf[lock]
  <1>1. clock \in Nat /\ (row # NoLease => row.expires \in Int)
    BY IInvParts DEF StoreInv, StoreTypeOK, Lease
  <1>2. clock' >= clock /\ clock' \in Nat
    BY <1>1, ExecStepControl, ReclaimStepControl, IInvParts DEF Next, Tick, Crash, vars
  <1>3. ASSUME row' # row
        PROVE  /\ lock # NoProc /\ lock \in Proc /\ clock' = clock /\ row' = work
    BY <1>3, RowChangesByCommit, ConstAssumption DEF vars
  <1> QED BY <1>1, <1>2, <1>3 DEF IInv, OverwritesOwnOrExpired

(* No claim, sweep, crash or rollback of another worker changes or removes  *)
(* a committed lease before it has expired.                                 *)
THEOREM LeaseIsTheOwners == Spec => UnexpiredLeaseIsTheOwners
  <1>1. IInv /\ [Next]_vars =>
          [(row # NoLease /\ row.expires >= clock /\ row' # row)
             => lock # NoProc /\ WorkerOf[lock] = row.owner]_vars
    BY RowStepSafe
  <1> QED BY <1>1, LeaseInvariant, PTL DEF Spec, UnexpiredLeaseIsTheOwners

(* WorkerLease implements RunOwnership: through the committed row the run   *)
(* passes from worker to worker only by being free in between.              *)
THEOREM LeaseImplementsOwnership == Spec => ImplementsOwnership
  <1>1. Init => Ownership!Init
    BY DEF Init, Ownership!Init, Holder
  <1>2. IInv /\ [Next]_vars => [Ownership!Next]_Holder
    <2> SUFFICES ASSUME IInv, [Next]_vars, Holder' # Holder
                 PROVE  Ownership!Next
      OBVIOUS
    <2>1. /\ clock \in Nat
          /\ row # NoLease => row.expires \in Int
          /\ WorkerOf \in [Proc -> Worker]
      BY IInvParts, ConstAssumption DEF StoreInv, StoreTypeOK, Lease
    <2>2. /\ clock' >= clock /\ clock' \in Nat
          /\ row' # row =>
                /\ lock # NoProc /\ lock \in Proc /\ clock' = clock
                /\ row # NoLease /\ row.expires >= clock => row.owner = WorkerOf[lock]
                /\ row' # NoLease => row'.owner = WorkerOf[lock]
      BY RowStepSafe
    <2>3. CASE row' = row
      <3>1. Holder' = NoLease
        BY <2>1, <2>2, <2>3 DEF Holder
      <3> QED BY <3>1 DEF Ownership!Next, Ownership!Vacate
    <2>4. CASE row' # row /\ Holder' = NoLease
      BY <2>4 DEF Ownership!Next, Ownership!Vacate
    <2>5. CASE row' # row /\ Holder' # NoLease
      <3>1. Holder' = WorkerOf[lock] /\ WorkerOf[lock] \in Worker
        BY <2>1, <2>2, <2>5 DEF Holder
      <3>2. Holder = NoLease
        BY <2>1, <2>2, <2>5, <3>1 DEF Holder
      <3> QED BY <3>1, <3>2 DEF Ownership!Next, Ownership!Acquire
    <2> QED BY <2>3, <2>4, <2>5
  <1> QED BY <1>1, <1>2, LeaseInvariant, PTL DEF Spec, ImplementsOwnership, Ownership!Spec
=============================================================================
