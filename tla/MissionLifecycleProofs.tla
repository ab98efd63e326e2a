----------------------- MODULE MissionLifecycleProofs -----------------------
(***************************************************************************)
(* LifecycleInv is inductive, for any number of missions, users, workers   *)
(* and expiry tasks: one lemma for each of its conjuncts, and in each one  *)
(* step for each action.                                                   *)
(***************************************************************************)
EXTENDS MissionLifecycle, TLAPS

(* Whatever a command assigns is a status.                                 *)
LEMMA CommandTo == \A c \in Command : c.to \in Status
BY LifecycleAssumption DEF Command, Status

(* The invariant holds of new missions and of missions that were paused.   *)
LEMMA InitInv == Init => LifecycleInv
<1> SUFFICES ASSUME Init PROVE LifecycleInv
    OBVIOUS
<1> USE LifecycleAssumption DEF Init, Session
<1>1. TypeOK
    BY DEF TypeOK, Status, Place
<1>2. SessionsInPlace
    BY DEF SessionsInPlace
<1>3. LocksMeanFreshReads
    BY DEF LocksMeanFreshReads
<1>4. ClaimantIsAlone /\ CompensatedOnce /\ CompensatedTimedOut
    BY DEF ClaimantIsAlone, CompensatedOnce, CompensatedTimedOut
<1>5. StartedAsQueued
    BY DEF StartedAsQueued
<1> QED
    BY <1>1, <1>2, <1>3, <1>4, <1>5 DEF LifecycleInv

(* Every step keeps the types. *)
LEMMA TypeStep == LifecycleInv /\ [Next]_vars => TypeOK'
<1> SUFFICES ASSUME LifecycleInv, [Next]_vars PROVE TypeOK'
    OBVIOUS
<1> USE LifecycleAssumption DEF LifecycleInv, TypeOK, SessionsInPlace, Place, Status, Session
<1>1. CASE \E u \in User : Request(u)
    BY <1>1 DEF Request, Moves, rows, ledger, counts
<1>2. CASE \E u \in User : Write(u)
    BY <1>2, CommandTo, SMTT(30) DEF Write, CommitStatus, Free, Unlocked, Goto, Rest, Moves, Accepts, Dispatches, ledger, bounds
<1>3. CASE \E u \in User : Refuse(u)
    BY <1>3, SMTT(30) DEF Refuse, Goto, Rest, Moves, Accepts, Dispatches, rows, ledger, counts, bounds
<1>4. CASE \E u \in User : Dispatch(u)
    BY <1>4 DEF Dispatch, Rest, Moves, Send, rows, ledger, counts, bounds, Task
<1>5. CASE \E u \in User : DispatchFails(u)
    BY <1>5 DEF DispatchFails, Rest, Moves, Fault, rows, ledger, counts
<1>6. CASE \E u \in User : AbortSelect(u)
    BY <1>6 DEF AbortSelect, Goto, rows, ledger, counts
<1>7. CASE \E u \in User : AbortCommit(u)
    BY <1>7 DEF AbortCommit, Unlocked, Rest, Moves, ToAbort, ledger, counts, bounds
<1>8. CASE \E w \in Worker : LockRow(w)
    <2>1. PICK w \in Worker : LockRow(w)
        BY <1>8
    <2>2. pc' = [pc EXCEPT ![w] = "start"] \/ pc' = [pc EXCEPT ![w] = "idle"]
        BY <2>1 DEF LockRow, Goto, Rest, Moves
    <2>3. pc' \in [Session -> Place]
        BY <2>2
    <2>4. /\ at' \in [Session -> Mission \cup {Nobody}]
          /\ copy' \in [Session -> Status \cup {Nobody}]
        BY <2>1 DEF LockRow, Goto, Rest, Moves
    <2>5. cmd' \in [User -> Command \cup {Nobody}]
        BY <2>1 DEF LockRow, Goto, Rest
    <2>6. owner' = owner \/ owner' = [owner EXCEPT ![at[w]] = w]
        BY <2>1 DEF LockRow
    <2>7. owner' \in [Mission -> Session \cup {NoSession}]
        BY <2>6
    <2>8. job' \in [Worker -> Task \cup {NoTask}] /\ broker' \in SUBSET Task
        BY <2>1 DEF LockRow, Acknowledge
    <2> QED
        BY <2>1, <2>3, <2>4, <2>5, <2>7, <2>8 DEF LockRow, rows, ledger, counts, bounds
<1>9. CASE \E w \in Worker : Start(w)
    BY <1>9 DEF Start, CommitStatus, Free, Unlocked, Goto, ledger, bounds
<1>10. CASE \E w \in Worker : Finish(w)
    BY <1>10 DEF Finish, Rest, Moves, Acknowledge, rows, ledger, counts, bounds
<1>11. CASE \E w \in Worker : Raise(w)
    BY <1>11 DEF Raise, EndTx, Unlocked, Goto, Fault, ledger
<1>12. CASE \E w \in Worker : ReadFailed(w)
    BY <1>12 DEF ReadFailed, Enter, Moves, rows, ledger, counts, bounds
<1>13. CASE \E w \in Worker : MarkFailed(w)
    BY <1>13 DEF MarkFailed, CommitStatus, Free, Unlocked, NoWrite, Rest, Moves, SendBack, ledger, bounds
<1>14. CASE \E w \in Worker : ReadResume(w)
    <2>1. PICK w \in Worker : ReadResume(w)
        BY <1>14
    <2>2. /\ at[w] \in Mission
          /\ Moves(w, "resume", at[w], status[at[w]]) \/ Moves(w, "idle", Nobody, Nobody)
        BY <2>1 DEF ReadResume, Enter, Rest
    <2>3. pc' \in [Session -> Place]
        BY <2>2 DEF Moves
    <2>4. /\ at' \in [Session -> Mission \cup {Nobody}]
          /\ copy' \in [Session -> Status \cup {Nobody}]
        BY <2>2 DEF Moves
    <2>5. cmd' \in [User -> Command \cup {Nobody}]
        BY <2>1 DEF ReadResume, Enter, Rest
    <2>6. job' \in [Worker -> Task \cup {NoTask}] /\ broker' \in SUBSET Task
        BY <2>1 DEF ReadResume, Acknowledge
    <2> QED
        BY <2>1, <2>3, <2>4, <2>5, <2>6 DEF ReadResume, rows, ledger, counts, bounds
<1>15. CASE \E w \in Worker : WriteResume(w)
    BY <1>15 DEF WriteResume, CommitStatus, Free, Unlocked, Rest, Moves, Acknowledge, ledger, bounds
<1>16. CASE \E w \in Worker : ResumeRaises(w)
    BY <1>16 DEF ResumeRaises, Rest, Moves, Acknowledge, SendBack, rows, ledger, counts, bounds
<1>17. CASE \E x \in Expirer : Scan(x)
    BY <1>17 DEF Scan, Goto, Expirable, rows, ledger, counts, bounds
<1>18. CASE \E x \in Expirer : ExpireNext(x)
    BY <1>18 DEF ExpireNext, Enter, Moves, rows, ledger, counts, bounds
<1>19. CASE \E x \in Expirer : Fail(x)
    BY <1>19 DEF Fail, CommitStatus, Free, Unlocked, Goto, LogTimeout, bounds
<1>20. CASE \E x \in Expirer : FailConflicts(x)
    BY <1>20 DEF FailConflicts, Free, EndTx, Unlocked, Goto, ledger, bounds
<1>21. CASE \E x \in Expirer : Claim(x)
    BY <1>21 DEF Claim, Free, Goto, Claimed, rows, counts, bounds
<1>22. CASE \E x \in Expirer : Refund(x)
    BY <1>22 DEF Refund, Goto, rows, counts, bounds
<1>23. CASE \E x \in Expirer : Notify(x)
    BY <1>23 DEF Notify, Goto, rows, counts, bounds
<1>24. CASE \E x \in Expirer : EndScan(x)
    BY <1>24 DEF EndScan, EndTx, Unlocked, Rest, Moves, ledger, bounds
<1>25. CASE \E s \in Session : Crash(s)
    BY <1>25 DEF Crash, Rest, Moves, Fault, Redeliver, SendBack, Release, Unlocked, rows, ledger, counts
<1>26. CASE \E m \in Mission : Age(m)
    BY <1>26 DEF Age, ledger, counts, bounds
<1>27. CASE \E w \in Worker, t \in broker : Take(w, t)
    BY <1>27 DEF Take, Task, Enter, Moves, rows, ledger, counts, bounds
<1>28. CASE UNCHANGED vars
    BY <1>28 DEF vars, rows, ledger, counts, bounds
<1> QED
    BY <1>1, <1>2, <1>3, <1>4, <1>5, <1>6, <1>7, <1>8, <1>9, <1>10, <1>11, <1>12, <1>13, <1>14, <1>15, <1>16, <1>17, <1>18, <1>19, <1>20, <1>21, <1>22, <1>23, <1>24, <1>25, <1>26, <1>27, <1>28
    DEF Next, UserStep, WorkerStep, Proceed, ExpirerStep

(* Every session stays on the path of its kind, and has what it needs there. *)
LEMMA PlaceStep == LifecycleInv /\ [Next]_vars => SessionsInPlace'
<1> SUFFICES ASSUME LifecycleInv, [Next]_vars PROVE SessionsInPlace'
    OBVIOUS
<1> USE LifecycleAssumption DEF LifecycleInv, SessionsInPlace, TypeOK, Session
<1>1. CASE \E u \in User : Request(u)
    BY <1>1 DEF Request, Moves, rows, ledger, counts
<1>2. CASE \E u \in User : Write(u)
    BY <1>2, CommandTo, SMTT(30) DEF Write, CommitStatus, Free, Unlocked, Goto, Rest, Moves, Accepts, Dispatches, ledger, bounds
<1>3. CASE \E u \in User : Refuse(u)
    BY <1>3, SMTT(30) DEF Refuse, Goto, Rest, Moves, Accepts, Dispatches, rows, ledger, counts, bounds
<1>4. CASE \E u \in User : Dispatch(u)
    BY <1>4 DEF Dispatch, Rest, Moves, Send, rows, ledger, counts, bounds, Task
<1>5. CASE \E u \in User : DispatchFails(u)
    BY <1>5 DEF DispatchFails, Rest, Moves, Fault, rows, ledger, counts
<1>6. CASE \E u \in User : AbortSelect(u)
    BY <1>6 DEF AbortSelect, Goto, rows, ledger, counts
<1>7. CASE \E u \in User : AbortCommit(u)
    BY <1>7 DEF AbortCommit, Unlocked, Rest, Moves, ToAbort, ledger, counts, bounds
<1>8. CASE \E w \in Worker : LockRow(w)
    BY <1>8 DEF LockRow, Free, Goto, Rest, Moves, Acknowledge, MayStart, rows, ledger, counts, bounds
<1>9. CASE \E w \in Worker : Start(w)
    BY <1>9 DEF Start, CommitStatus, Free, Unlocked, Goto, ledger, bounds
<1>10. CASE \E w \in Worker : Finish(w)
    BY <1>10 DEF Finish, Rest, Moves, Acknowledge, rows, ledger, counts, bounds
<1>11. CASE \E w \in Worker : Raise(w)
    BY <1>11 DEF Raise, EndTx, Unlocked, Goto, Fault, ledger
<1>12. CASE \E w \in Worker : ReadFailed(w)
    BY <1>12 DEF ReadFailed, Enter, Moves, rows, ledger, counts, bounds
<1>13. CASE \E w \in Worker : MarkFailed(w)
    BY <1>13 DEF MarkFailed, CommitStatus, Free, Unlocked, NoWrite, Rest, Moves, SendBack, ledger, bounds
<1>14. CASE \E w \in Worker : ReadResume(w)
    BY <1>14 DEF ReadResume, Enter, Moves, Rest, Acknowledge, rows, ledger, counts, bounds
<1>15. CASE \E w \in Worker : WriteResume(w)
    BY <1>15 DEF WriteResume, CommitStatus, Free, Unlocked, Rest, Moves, Acknowledge, ledger, bounds
<1>16. CASE \E w \in Worker : ResumeRaises(w)
    BY <1>16 DEF ResumeRaises, Rest, Moves, Acknowledge, SendBack, rows, ledger, counts, bounds
<1>17. CASE \E x \in Expirer : Scan(x)
    BY <1>17 DEF Scan, Goto, Expirable, rows, ledger, counts, bounds
<1>18. CASE \E x \in Expirer : ExpireNext(x)
    BY <1>18 DEF ExpireNext, Enter, Moves, rows, ledger, counts, bounds
<1>19. CASE \E x \in Expirer : Fail(x)
    BY <1>19 DEF Fail, CommitStatus, Free, Unlocked, Goto, LogTimeout, bounds
<1>20. CASE \E x \in Expirer : FailConflicts(x)
    BY <1>20 DEF FailConflicts, Free, EndTx, Unlocked, Goto, ledger, bounds
<1>21. CASE \E x \in Expirer : Claim(x)
    BY <1>21 DEF Claim, Free, Goto, Claimed, rows, counts, bounds
<1>22. CASE \E x \in Expirer : Refund(x)
    BY <1>22 DEF Refund, Goto, rows, counts, bounds
<1>23. CASE \E x \in Expirer : Notify(x)
    BY <1>23 DEF Notify, Goto, rows, counts, bounds
<1>24. CASE \E x \in Expirer : EndScan(x)
    BY <1>24 DEF EndScan, EndTx, Unlocked, Rest, Moves, ledger, bounds
<1>25. CASE \E s \in Session : Crash(s)
    BY <1>25 DEF Crash, Rest, Moves, Fault, Redeliver, SendBack, Release, Unlocked, rows, ledger, counts
<1>26. CASE \E m \in Mission : Age(m)
    BY <1>26 DEF Age, ledger, counts, bounds
<1>27. CASE \E w \in Worker, t \in broker : Take(w, t)
    BY <1>27 DEF Take, Task, Enter, Moves, rows, ledger, counts, bounds
<1>28. CASE UNCHANGED vars
    BY <1>28 DEF vars, rows, ledger, counts, bounds
<1> QED
    BY <1>1, <1>2, <1>3, <1>4, <1>5, <1>6, <1>7, <1>8, <1>9, <1>10, <1>11, <1>12, <1>13, <1>14, <1>15, <1>16, <1>17, <1>18, <1>19, <1>20, <1>21, <1>22, <1>23, <1>24, <1>25, <1>26, <1>27, <1>28
    DEF Next, UserStep, WorkerStep, Proceed, ExpirerStep

(* Nobody changes a row that another session has locked, so what was read behind
   the lock stays true. *)
LEMMA LocksStep == LifecycleInv /\ [Next]_vars => LocksMeanFreshReads'
<1> SUFFICES ASSUME LifecycleInv, [Next]_vars PROVE LocksMeanFreshReads'
    OBVIOUS
<1> USE LifecycleAssumption DEF LifecycleInv, LocksMeanFreshReads, SessionsInPlace, TypeOK, Session
<1>1. CASE \E u \in User : Request(u)
    BY <1>1 DEF Request, Moves, rows, ledger, counts
<1>2. CASE \E u \in User : Write(u)
    BY <1>2, CommandTo, SMTT(30) DEF Write, CommitStatus, Free, Unlocked, Goto, Rest, Moves, Accepts, Dispatches, ledger, bounds
<1>3. CASE \E u \in User : Refuse(u)
    BY <1>3, SMTT(30) DEF Refuse, Goto, Rest, Moves, Accepts, Dispatches, rows, ledger, counts, bounds
<1>4. CASE \E u \in User : Dispatch(u)
    BY <1>4 DEF Dispatch, Rest, Moves, Send, rows, ledger, counts, bounds, Task
<1>5. CASE \E u \in User : DispatchFails(u)
    BY <1>5 DEF DispatchFails, Rest, Moves, Fault, rows, ledger, counts
<1>6. CASE \E u \in User : AbortSelect(u)
    BY <1>6 DEF AbortSelect, Goto, rows, ledger, counts
<1>7. CASE \E u \in User : AbortCommit(u)
    BY <1>7 DEF AbortCommit, Unlocked, Rest, Moves, ToAbort, ledger, counts, bounds
<1>8. CASE \E w \in Worker : LockRow(w)
    BY <1>8 DEF LockRow, Free, Goto, Rest, Moves, Acknowledge, MayStart, rows, ledger, counts, bounds
<1>9. CASE \E w \in Worker : Start(w)
    BY <1>9 DEF Start, CommitStatus, Free, Unlocked, Goto, ledger, bounds
<1>10. CASE \E w \in Worker : Finish(w)
    BY <1>10 DEF Finish, Rest, Moves, Acknowledge, rows, ledger, counts, bounds
<1>11. CASE \E w \in Worker : Raise(w)
    BY <1>11 DEF Raise, EndTx, Unlocked, Goto, Fault, ledger
<1>12. CASE \E w \in Worker : ReadFailed(w)
    BY <1>12 DEF ReadFailed, Enter, Moves, rows, ledger, counts, bounds
<1>13. CASE \E w \in Worker : MarkFailed(w)
    BY <1>13 DEF MarkFailed, CommitStatus, Free, Unlocked, NoWrite, Rest, Moves, SendBack, ledger, bounds
<1>14. CASE \E w \in Worker : ReadResume(w)
    BY <1>14 DEF ReadResume, Enter, Moves, Rest, Acknowledge, rows, ledger, counts, bounds
<1>15. CASE \E w \in Worker : WriteResume(w)
    BY <1>15 DEF WriteResume, CommitStatus, Free, Unlocked, Rest, Moves, Acknowledge, ledger, bounds
<1>16. CASE \E w \in Worker : ResumeRaises(w)
    BY <1>16 DEF ResumeRaises, Rest, Moves, Acknowledge, SendBack, rows, ledger, counts, bounds
<1>17. CASE \E x \in Expirer : Scan(x)
    BY <1>17 DEF Scan, Goto, Expirable, rows, ledger, counts, bounds
<1>18. CASE \E x \in Expirer : ExpireNext(x)
    BY <1>18 DEF ExpireNext, Enter, Moves, rows, ledger, counts, bounds
<1>19. CASE \E x \in Expirer : Fail(x)
    BY <1>19 DEF Fail, CommitStatus, Free, Unlocked, Goto, LogTimeout, bounds
<1>20. CASE \E x \in Expirer : FailConflicts(x)
    BY <1>20 DEF FailConflicts, Free, EndTx, Unlocked, Goto, ledger, bounds
<1>21. CASE \E x \in Expirer : Claim(x)
    BY <1>21 DEF Claim, Free, Goto, Claimed, rows, counts, bounds
<1>22. CASE \E x \in Expirer : Refund(x)
    BY <1>22 DEF Refund, Goto, rows, counts, bounds
<1>23. CASE \E x \in Expirer : Notify(x)
    BY <1>23 DEF Notify, Goto, rows, counts, bounds
<1>24. CASE \E x \in Expirer : EndScan(x)
    BY <1>24 DEF EndScan, EndTx, Unlocked, Rest, Moves, ledger, bounds
<1>25. CASE \E s \in Session : Crash(s)
    BY <1>25 DEF Crash, Rest, Moves, Fault, Redeliver, SendBack, Release, Unlocked, rows, ledger, counts
<1>26. CASE \E m \in Mission : Age(m)
    BY <1>26 DEF Age, ledger, counts, bounds
<1>27. CASE \E w \in Worker, t \in broker : Take(w, t)
    BY <1>27 DEF Take, Task, Enter, Moves, rows, ledger, counts, bounds
<1>28. CASE UNCHANGED vars
    BY <1>28 DEF vars, rows, ledger, counts, bounds
<1> QED
    BY <1>1, <1>2, <1>3, <1>4, <1>5, <1>6, <1>7, <1>8, <1>9, <1>10, <1>11, <1>12, <1>13, <1>14, <1>15, <1>16, <1>17, <1>18, <1>19, <1>20, <1>21, <1>22, <1>23, <1>24, <1>25, <1>26, <1>27, <1>28
    DEF Next, UserStep, WorkerStep, Proceed, ExpirerStep

(* compensated_at lets one claimant pass. *)
LEMMA ClaimStep == LifecycleInv /\ [Next]_vars => ClaimantIsAlone'
<1> SUFFICES ASSUME LifecycleInv, [Next]_vars PROVE ClaimantIsAlone'
    OBVIOUS
<1> USE LifecycleAssumption DEF LifecycleInv, ClaimantIsAlone, SessionsInPlace, TypeOK, Session
<1>1. CASE \E u \in User : Request(u)
    BY <1>1 DEF Request, Moves, rows, ledger, counts
<1>2. CASE \E u \in User : Write(u)
    BY <1>2, CommandTo DEF Write, CommitStatus, Free, Unlocked, Goto, Rest, Moves, Accepts, Dispatches, ledger, bounds
<1>3. CASE \E u \in User : Refuse(u)
    BY <1>3 DEF Refuse, Goto, Rest, Moves, Accepts, Dispatches, rows, ledger, counts, bounds
<1>4. CASE \E u \in User : Dispatch(u)
    BY <1>4 DEF Dispatch, Rest, Moves, Send, rows, ledger, counts, bounds, Task
<1>5. CASE \E u \in User : DispatchFails(u)
    BY <1>5 DEF DispatchFails, Rest, Moves, Fault, rows, ledger, counts
<1>6. CASE \E u \in User : AbortSelect(u)
    BY <1>6 DEF AbortSelect, Goto, rows, ledger, counts
<1>7. CASE \E u \in User : AbortCommit(u)
    BY <1>7 DEF AbortCommit, Unlocked, Rest, Moves, ToAbort, ledger, counts, bounds
<1>8. CASE \E w \in Worker : LockRow(w)
    BY <1>8 DEF LockRow, Free, Goto, Rest, Moves, Acknowledge, MayStart, rows, ledger, counts, bounds
<1>9. CASE \E w \in Worker : Start(w)
    BY <1>9 DEF Start, CommitStatus, Free, Unlocked, Goto, ledger, bounds
<1>10. CASE \E w \in Worker : Finish(w)
    BY <1>10 DEF Finish, Rest, Moves, Acknowledge, rows, ledger, counts, bounds
<1>11. CASE \E w \in Worker : Raise(w)
    BY <1>11 DEF Raise, EndTx, Unlocked, Goto, Fault, ledger
<1>12. CASE \E w \in Worker : ReadFailed(w)
    BY <1>12 DEF ReadFailed, Enter, Moves, rows, ledger, counts, bounds
<1>13. CASE \E w \in Worker : MarkFailed(w)
    BY <1>13 DEF MarkFailed, CommitStatus, Free, Unlocked, NoWrite, Rest, Moves, SendBack, ledger, bounds
<1>14. CASE \E w \in Worker : ReadResume(w)
    BY <1>14 DEF ReadResume, Enter, Moves, Rest, Acknowledge, rows, ledger, counts, bounds
<1>15. CASE \E w \in Worker : WriteResume(w)
    BY <1>15 DEF WriteResume, CommitStatus, Free, Unlocked, Rest, Moves, Acknowledge, ledger, bounds
<1>16. CASE \E w \in Worker : ResumeRaises(w)
    BY <1>16 DEF ResumeRaises, Rest, Moves, Acknowledge, SendBack, rows, ledger, counts, bounds
<1>17. CASE \E x \in Expirer : Scan(x)
    BY <1>17 DEF Scan, Goto, Expirable, rows, ledger, counts, bounds
<1>18. CASE \E x \in Expirer : ExpireNext(x)
    BY <1>18 DEF ExpireNext, Enter, Moves, rows, ledger, counts, bounds
<1>19. CASE \E x \in Expirer : Fail(x)
    BY <1>19 DEF Fail, CommitStatus, Free, Unlocked, Goto, LogTimeout, bounds
<1>20. CASE \E x \in Expirer : FailConflicts(x)
    BY <1>20 DEF FailConflicts, Free, EndTx, Unlocked, Goto, ledger, bounds
<1>21. CASE \E x \in Expirer : Claim(x)
    BY <1>21 DEF Claim, Free, Goto, Claimed, rows, counts, bounds
<1>22. CASE \E x \in Expirer : Refund(x)
    BY <1>22 DEF Refund, Goto, rows, counts, bounds
<1>23. CASE \E x \in Expirer : Notify(x)
    BY <1>23 DEF Notify, Goto, rows, counts, bounds
<1>24. CASE \E x \in Expirer : EndScan(x)
    BY <1>24 DEF EndScan, EndTx, Unlocked, Rest, Moves, ledger, bounds
<1>25. CASE \E s \in Session : Crash(s)
    BY <1>25 DEF Crash, Rest, Moves, Fault, Redeliver, SendBack, Release, Unlocked, rows, ledger, counts
<1>26. CASE \E m \in Mission : Age(m)
    BY <1>26 DEF Age, ledger, counts, bounds
<1>27. CASE \E w \in Worker, t \in broker : Take(w, t)
    BY <1>27 DEF Take, Task, Enter, Moves, rows, ledger, counts, bounds
<1>28. CASE UNCHANGED vars
    BY <1>28 DEF vars, rows, ledger, counts, bounds
<1> QED
    BY <1>1, <1>2, <1>3, <1>4, <1>5, <1>6, <1>7, <1>8, <1>9, <1>10, <1>11, <1>12, <1>13, <1>14, <1>15, <1>16, <1>17, <1>18, <1>19, <1>20, <1>21, <1>22, <1>23, <1>24, <1>25, <1>26, <1>27, <1>28
    DEF Next, UserStep, WorkerStep, Proceed, ExpirerStep

(* The wallet is credited, and the owner told, by the one claimant. *)
LEMMA OnceStep == LifecycleInv /\ [Next]_vars => CompensatedOnce'
<1> SUFFICES ASSUME LifecycleInv, [Next]_vars PROVE CompensatedOnce'
    OBVIOUS
<1> USE LifecycleAssumption DEF LifecycleInv, CompensatedOnce, ClaimantIsAlone, SessionsInPlace, TypeOK, Session
<1>1. CASE \E u \in User : Request(u)
    BY <1>1 DEF Request, Moves, rows, ledger, counts
<1>2. CASE \E u \in User : Write(u)
    BY <1>2, CommandTo DEF Write, CommitStatus, Free, Unlocked, Goto, Rest, Moves, Accepts, Dispatches, ledger, bounds
<1>3. CASE \E u \in User : Refuse(u)
    BY <1>3 DEF Refuse, Goto, Rest, Moves, Accepts, Dispatches, rows, ledger, counts, bounds
<1>4. CASE \E u \in User : Dispatch(u)
    BY <1>4 DEF Dispatch, Rest, Moves, Send, rows, ledger, counts, bounds, Task
<1>5. CASE \E u \in User : DispatchFails(u)
    BY <1>5 DEF DispatchFails, Rest, Moves, Fault, rows, ledger, counts
<1>6. CASE \E u \in User : AbortSelect(u)
    BY <1>6 DEF AbortSelect, Goto, rows, ledger, counts
<1>7. CASE \E u \in User : AbortCommit(u)
    BY <1>7 DEF AbortCommit, Unlocked, Rest, Moves, ToAbort, ledger, counts, bounds
<1>8. CASE \E w \in Worker : LockRow(w)
    BY <1>8 DEF LockRow, Free, Goto, Rest, Moves, Acknowledge, MayStart, rows, ledger, counts, bounds
<1>9. CASE \E w \in Worker : Start(w)
    BY <1>9 DEF Start, CommitStatus, Free, Unlocked, Goto, ledger, bounds
<1>10. CASE \E w \in Worker : Finish(w)
    BY <1>10 DEF Finish, Rest, Moves, Acknowledge, rows, ledger, counts, bounds
<1>11. CASE \E w \in Worker : Raise(w)
    BY <1>11 DEF Raise, EndTx, Unlocked, Goto, Fault, ledger
<1>12. CASE \E w \in Worker : ReadFailed(w)
    BY <1>12 DEF ReadFailed, Enter, Moves, rows, ledger, counts, bounds
<1>13. CASE \E w \in Worker : MarkFailed(w)
    BY <1>13 DEF MarkFailed, CommitStatus, Free, Unlocked, NoWrite, Rest, Moves, SendBack, ledger, bounds
<1>14. CASE \E w \in Worker : ReadResume(w)
    BY <1>14 DEF ReadResume, Enter, Moves, Rest, Acknowledge, rows, ledger, counts, bounds
<1>15. CASE \E w \in Worker : WriteResume(w)
    BY <1>15 DEF WriteResume, CommitStatus, Free, Unlocked, Rest, Moves, Acknowledge, ledger, bounds
<1>16. CASE \E w \in Worker : ResumeRaises(w)
    BY <1>16 DEF ResumeRaises, Rest, Moves, Acknowledge, SendBack, rows, ledger, counts, bounds
<1>17. CASE \E x \in Expirer : Scan(x)
    BY <1>17 DEF Scan, Goto, Expirable, rows, ledger, counts, bounds
<1>18. CASE \E x \in Expirer : ExpireNext(x)
    BY <1>18 DEF ExpireNext, Enter, Moves, rows, ledger, counts, bounds
<1>19. CASE \E x \in Expirer : Fail(x)
    BY <1>19 DEF Fail, CommitStatus, Free, Unlocked, Goto, LogTimeout, bounds
<1>20. CASE \E x \in Expirer : FailConflicts(x)
    BY <1>20 DEF FailConflicts, Free, EndTx, Unlocked, Goto, ledger, bounds
<1>21. CASE \E x \in Expirer : Claim(x)
    BY <1>21 DEF Claim, Free, Goto, Claimed, rows, counts, bounds
<1>22. CASE \E x \in Expirer : Refund(x)
    BY <1>22 DEF Refund, Goto, rows, counts, bounds
<1>23. CASE \E x \in Expirer : Notify(x)
    BY <1>23 DEF Notify, Goto, rows, counts, bounds
<1>24. CASE \E x \in Expirer : EndScan(x)
    BY <1>24 DEF EndScan, EndTx, Unlocked, Rest, Moves, ledger, bounds
<1>25. CASE \E s \in Session : Crash(s)
    BY <1>25 DEF Crash, Rest, Moves, Fault, Redeliver, SendBack, Release, Unlocked, rows, ledger, counts
<1>26. CASE \E m \in Mission : Age(m)
    BY <1>26 DEF Age, ledger, counts, bounds
<1>27. CASE \E w \in Worker, t \in broker : Take(w, t)
    BY <1>27 DEF Take, Task, Enter, Moves, rows, ledger, counts, bounds
<1>28. CASE UNCHANGED vars
    BY <1>28 DEF vars, rows, ledger, counts, bounds
<1> QED
    BY <1>1, <1>2, <1>3, <1>4, <1>5, <1>6, <1>7, <1>8, <1>9, <1>10, <1>11, <1>12, <1>13, <1>14, <1>15, <1>16, <1>17, <1>18, <1>19, <1>20, <1>21, <1>22, <1>23, <1>24, <1>25, <1>26, <1>27, <1>28
    DEF Next, UserStep, WorkerStep, Proceed, ExpirerStep

(* The event is committed before the claim. *)
LEMMA TimedOutStep == LifecycleInv /\ [Next]_vars => CompensatedTimedOut'
<1> SUFFICES ASSUME LifecycleInv, [Next]_vars PROVE CompensatedTimedOut'
    OBVIOUS
<1> USE LifecycleAssumption DEF LifecycleInv, CompensatedTimedOut, ClaimantIsAlone, SessionsInPlace, TypeOK, Session
<1>1. CASE \E u \in User : Request(u)
    BY <1>1 DEF Request, Moves, rows, ledger, counts
<1>2. CASE \E u \in User : Write(u)
    BY <1>2, CommandTo DEF Write, CommitStatus, Free, Unlocked, Goto, Rest, Moves, Accepts, Dispatches, ledger, bounds
<1>3. CASE \E u \in User : Refuse(u)
    BY <1>3 DEF Refuse, Goto, Rest, Moves, Accepts, Dispatches, rows, ledger, counts, bounds
<1>4. CASE \E u \in User : Dispatch(u)
    BY <1>4 DEF Dispatch, Rest, Moves, Send, rows, ledger, counts, bounds, Task
<1>5. CASE \E u \in User : DispatchFails(u)
    BY <1>5 DEF DispatchFails, Rest, Moves, Fault, rows, ledger, counts
<1>6. CASE \E u \in User : AbortSelect(u)
    BY <1>6 DEF AbortSelect, Goto, rows, ledger, counts
<1>7. CASE \E u \in User : AbortCommit(u)
    BY <1>7 DEF AbortCommit, Unlocked, Rest, Moves, ToAbort, ledger, counts, bounds
<1>8. CASE \E w \in Worker : LockRow(w)
    BY <1>8 DEF LockRow, Free, Goto, Rest, Moves, Acknowledge, MayStart, rows, ledger, counts, bounds
<1>9. CASE \E w \in Worker : Start(w)
    BY <1>9 DEF Start, CommitStatus, Free, Unlocked, Goto, ledger, bounds
<1>10. CASE \E w \in Worker : Finish(w)
    BY <1>10 DEF Finish, Rest, Moves, Acknowledge, rows, ledger, counts, bounds
<1>11. CASE \E w \in Worker : Raise(w)
    BY <1>11 DEF Raise, EndTx, Unlocked, Goto, Fault, ledger
<1>12. CASE \E w \in Worker : ReadFailed(w)
    BY <1>12 DEF ReadFailed, Enter, Moves, rows, ledger, counts, bounds
<1>13. CASE \E w \in Worker : MarkFailed(w)
    BY <1>13 DEF MarkFailed, CommitStatus, Free, Unlocked, NoWrite, Rest, Moves, SendBack, ledger, bounds
<1>14. CASE \E w \in Worker : ReadResume(w)
    BY <1>14 DEF ReadResume, Enter, Moves, Rest, Acknowledge, rows, ledger, counts, bounds
<1>15. CASE \E w \in Worker : WriteResume(w)
    BY <1>15 DEF WriteResume, CommitStatus, Free, Unlocked, Rest, Moves, Acknowledge, ledger, bounds
<1>16. CASE \E w \in Worker : ResumeRaises(w)
    BY <1>16 DEF ResumeRaises, Rest, Moves, Acknowledge, SendBack, rows, ledger, counts, bounds
<1>17. CASE \E x \in Expirer : Scan(x)
    BY <1>17 DEF Scan, Goto, Expirable, rows, ledger, counts, bounds
<1>18. CASE \E x \in Expirer : ExpireNext(x)
    BY <1>18 DEF ExpireNext, Enter, Moves, rows, ledger, counts, bounds
<1>19. CASE \E x \in Expirer : Fail(x)
    BY <1>19 DEF Fail, CommitStatus, Free, Unlocked, Goto, LogTimeout, bounds
<1>20. CASE \E x \in Expirer : FailConflicts(x)
    BY <1>20 DEF FailConflicts, Free, EndTx, Unlocked, Goto, ledger, bounds
<1>21. CASE \E x \in Expirer : Claim(x)
    BY <1>21 DEF Claim, Free, Goto, Claimed, rows, counts, bounds
<1>22. CASE \E x \in Expirer : Refund(x)
    BY <1>22 DEF Refund, Goto, rows, counts, bounds
<1>23. CASE \E x \in Expirer : Notify(x)
    BY <1>23 DEF Notify, Goto, rows, counts, bounds
<1>24. CASE \E x \in Expirer : EndScan(x)
    BY <1>24 DEF EndScan, EndTx, Unlocked, Rest, Moves, ledger, bounds
<1>25. CASE \E s \in Session : Crash(s)
    BY <1>25 DEF Crash, Rest, Moves, Fault, Redeliver, SendBack, Release, Unlocked, rows, ledger, counts
<1>26. CASE \E m \in Mission : Age(m)
    BY <1>26 DEF Age, ledger, counts, bounds
<1>27. CASE \E w \in Worker, t \in broker : Take(w, t)
    BY <1>27 DEF Take, Task, Enter, Moves, rows, ledger, counts, bounds
<1>28. CASE UNCHANGED vars
    BY <1>28 DEF vars, rows, ledger, counts, bounds
<1> QED
    BY <1>1, <1>2, <1>3, <1>4, <1>5, <1>6, <1>7, <1>8, <1>9, <1>10, <1>11, <1>12, <1>13, <1>14, <1>15, <1>16, <1>17, <1>18, <1>19, <1>20, <1>21, <1>22, <1>23, <1>24, <1>25, <1>26, <1>27, <1>28
    DEF Next, UserStep, WorkerStep, Proceed, ExpirerStep

(* A start uses up the QUEUED that it found behind the lock. *)
LEMMA QueueStep == LifecycleInv /\ [Next]_vars => StartedAsQueued'
<1> SUFFICES ASSUME LifecycleInv, [Next]_vars PROVE StartedAsQueued'
    OBVIOUS
<1> USE LifecycleAssumption DEF LifecycleInv, StartedAsQueued, LocksMeanFreshReads, SessionsInPlace, TypeOK, Session
<1>1. CASE \E u \in User : Request(u)
    BY <1>1 DEF Request, Moves, rows, ledger, counts
<1>2. CASE \E u \in User : Write(u)
    BY <1>2, CommandTo DEF Write, CommitStatus, Free, Unlocked, Goto, Rest, Moves, Accepts, Dispatches, ledger, bounds
<1>3. CASE \E u \in User : Refuse(u)
    BY <1>3 DEF Refuse, Goto, Rest, Moves, Accepts, Dispatches, rows, ledger, counts, bounds
<1>4. CASE \E u \in User : Dispatch(u)
    BY <1>4 DEF Dispatch, Rest, Moves, Send, rows, ledger, counts, bounds, Task
<1>5. CASE \E u \in User : DispatchFails(u)
    BY <1>5 DEF DispatchFails, Rest, Moves, Fault, rows, ledger, counts
<1>6. CASE \E u \in User : AbortSelect(u)
    BY <1>6 DEF AbortSelect, Goto, rows, ledger, counts
<1>7. CASE \E u \in User : AbortCommit(u)
    BY <1>7 DEF AbortCommit, Unlocked, Rest, Moves, ToAbort, ledger, counts, bounds
<1>8. CASE \E w \in Worker : LockRow(w)
    BY <1>8 DEF LockRow, Free, Goto, Rest, Moves, Acknowledge, MayStart, rows, ledger, counts, bounds
<1>9. CASE \E w \in Worker : Start(w)
    BY <1>9 DEF Start, CommitStatus, Free, Unlocked, Goto, ledger, bounds
<1>10. CASE \E w \in Worker : Finish(w)
    BY <1>10 DEF Finish, Rest, Moves, Acknowledge, rows, ledger, counts, bounds
<1>11. CASE \E w \in Worker : Raise(w)
    BY <1>11 DEF Raise, EndTx, Unlocked, Goto, Fault, ledger
<1>12. CASE \E w \in Worker : ReadFailed(w)
    BY <1>12 DEF ReadFailed, Enter, Moves, rows, ledger, counts, bounds
<1>13. CASE \E w \in Worker : MarkFailed(w)
    BY <1>13 DEF MarkFailed, CommitStatus, Free, Unlocked, NoWrite, Rest, Moves, SendBack, ledger, bounds
<1>14. CASE \E w \in Worker : ReadResume(w)
    BY <1>14 DEF ReadResume, Enter, Moves, Rest, Acknowledge, rows, ledger, counts, bounds
<1>15. CASE \E w \in Worker : WriteResume(w)
    BY <1>15 DEF WriteResume, CommitStatus, Free, Unlocked, Rest, Moves, Acknowledge, ledger, bounds
<1>16. CASE \E w \in Worker : ResumeRaises(w)
    BY <1>16 DEF ResumeRaises, Rest, Moves, Acknowledge, SendBack, rows, ledger, counts, bounds
<1>17. CASE \E x \in Expirer : Scan(x)
    BY <1>17 DEF Scan, Goto, Expirable, rows, ledger, counts, bounds
<1>18. CASE \E x \in Expirer : ExpireNext(x)
    BY <1>18 DEF ExpireNext, Enter, Moves, rows, ledger, counts, bounds
<1>19. CASE \E x \in Expirer : Fail(x)
    BY <1>19 DEF Fail, CommitStatus, Free, Unlocked, Goto, LogTimeout, bounds
<1>20. CASE \E x \in Expirer : FailConflicts(x)
    BY <1>20 DEF FailConflicts, Free, EndTx, Unlocked, Goto, ledger, bounds
<1>21. CASE \E x \in Expirer : Claim(x)
    BY <1>21 DEF Claim, Free, Goto, Claimed, rows, counts, bounds
<1>22. CASE \E x \in Expirer : Refund(x)
    BY <1>22 DEF Refund, Goto, rows, counts, bounds
<1>23. CASE \E x \in Expirer : Notify(x)
    BY <1>23 DEF Notify, Goto, rows, counts, bounds
<1>24. CASE \E x \in Expirer : EndScan(x)
    BY <1>24 DEF EndScan, EndTx, Unlocked, Rest, Moves, ledger, bounds
<1>25. CASE \E s \in Session : Crash(s)
    BY <1>25 DEF Crash, Rest, Moves, Fault, Redeliver, SendBack, Release, Unlocked, rows, ledger, counts
<1>26. CASE \E m \in Mission : Age(m)
    BY <1>26 DEF Age, ledger, counts, bounds
<1>27. CASE \E w \in Worker, t \in broker : Take(w, t)
    BY <1>27 DEF Take, Task, Enter, Moves, rows, ledger, counts, bounds
<1>28. CASE UNCHANGED vars
    BY <1>28 DEF vars, rows, ledger, counts, bounds
<1> QED
    BY <1>1, <1>2, <1>3, <1>4, <1>5, <1>6, <1>7, <1>8, <1>9, <1>10, <1>11, <1>12, <1>13, <1>14, <1>15, <1>16, <1>17, <1>18, <1>19, <1>20, <1>21, <1>22, <1>23, <1>24, <1>25, <1>26, <1>27, <1>28
    DEF Next, UserStep, WorkerStep, Proceed, ExpirerStep

(* The inductive step, from the lemmas above. *)
LEMMA InvStep == LifecycleInv /\ [Next]_vars => LifecycleInv'
BY TypeStep, PlaceStep, LocksStep, ClaimStep, OnceStep, TimedOutStep, QueueStep
DEF LifecycleInv

(* The inductive invariant holds of every behaviour: mission rows, locks and *)
(* sessions as LifecycleInv describes them.                                  *)
THEOREM LifecycleCorrect == Spec => []LifecycleInv
BY InitInv, InvStep, PTL DEF Spec

(* Nobody is credited or told twice for one mission, however many expiry     *)
(* tasks run, crash, conflict and start again.                               *)
THEOREM CompensationOnce == Spec => []CompensatedOnce
<1>1. LifecycleInv => CompensatedOnce
    BY DEF LifecycleInv
<1> QED
    BY <1>1, LifecycleCorrect, PTL

(* Whoever is compensated has the failure by timeout in the log.             *)
THEOREM CompensationTimedOut == Spec => []CompensatedTimedOut
<1>1. LifecycleInv => CompensatedTimedOut
    BY DEF LifecycleInv
<1> QED
    BY <1>1, LifecycleCorrect, PTL

(* No mission is started more often than it was queued, for any number of    *)
(* workers, redeliveries and requests that send a task each.                 *)
THEOREM NoDoubleStart == Spec => []StartedAsQueued
<1>1. LifecycleInv => StartedAsQueued
    BY DEF LifecycleInv
<1> QED
    BY <1>1, LifecycleCorrect, PTL

(* The non-temporal content of LockedWritesAllowed.                          *)
LockedWriteAllowed(m) ==
    owner[m] # NoSession /\ status'[m] # status[m] => CanTransition(status[m], status'[m])

(* Facts of the transition table. *)
LEMMA LegalTransitions ==
    /\ CanTransition("queued", "running")
    /\ CanTransition("paused", "failed")
    /\ \A st \in Abortable : CanTransition(st, "aborted")
BY DEF CanTransition, Allowed, Abortable

(* Step by step: a row with a lock is written by its holder, who knows the status. *)
LEMMA LockedWriteStep ==
    LifecycleInv /\ [Next]_vars => \A m \in Mission : LockedWriteAllowed(m)
<1> SUFFICES ASSUME LifecycleInv, [Next]_vars PROVE \A m \in Mission : LockedWriteAllowed(m)
    OBVIOUS
<1> USE LifecycleAssumption DEF LifecycleInv, LocksMeanFreshReads, SessionsInPlace, TypeOK, LockedWriteAllowed, Session
<1>1. CASE \E u \in User : Request(u)
    BY <1>1 DEF Request, Moves, rows, ledger, counts
<1>2. CASE \E u \in User : Write(u)
    BY <1>2, CommandTo DEF Write, CommitStatus, Free, Unlocked, Goto, Rest, Moves, Accepts, Dispatches, ledger, bounds
<1>3. CASE \E u \in User : Refuse(u)
    BY <1>3 DEF Refuse, Goto, Rest, Moves, Accepts, Dispatches, rows, ledger, counts, bounds
<1>4. CASE \E u \in User : Dispatch(u)
    BY <1>4 DEF Dispatch, Rest, Moves, Send, rows, ledger, counts, bounds, Task
<1>5. CASE \E u \in User : DispatchFails(u)
    BY <1>5 DEF DispatchFails, Rest, Moves, Fault, rows, ledger, counts
<1>6. CASE \E u \in User : AbortSelect(u)
    BY <1>6 DEF AbortSelect, Goto, rows, ledger, counts
<1>7. CASE \E u \in User : AbortCommit(u)
    BY <1>7, LegalTransitions DEF AbortCommit, Unlocked, Rest, Moves, ToAbort, ledger, counts, bounds
<1>8. CASE \E w \in Worker : LockRow(w)
    BY <1>8 DEF LockRow, Free, Goto, Rest, Moves, Acknowledge, MayStart, rows, ledger, counts, bounds
<1>9. CASE \E w \in Worker : Start(w)
    BY <1>9, LegalTransitions DEF Start, CommitStatus, Free, Unlocked, Goto, ledger, bounds
<1>10. CASE \E w \in Worker : Finish(w)
    BY <1>10 DEF Finish, Rest, Moves, Acknowledge, rows, ledger, counts, bounds
<1>11. CASE \E w \in Worker : Raise(w)
    BY <1>11 DEF Raise, EndTx, Unlocked, Goto, Fault, ledger
<1>12. CASE \E w \in Worker : ReadFailed(w)
    BY <1>12 DEF ReadFailed, Enter, Moves, rows, ledger, counts, bounds
<1>13. CASE \E w \in Worker : MarkFailed(w)
    BY <1>13 DEF MarkFailed, CommitStatus, Free, Unlocked, NoWrite, Rest, Moves, SendBack, ledger, bounds
<1>14. CASE \E w \in Worker : ReadResume(w)
    BY <1>14 DEF ReadResume, Enter, Moves, Rest, Acknowledge, rows, ledger, counts, bounds
<1>15. CASE \E w \in Worker : WriteResume(w)
    BY <1>15 DEF WriteResume, CommitStatus, Free, Unlocked, Rest, Moves, Acknowledge, ledger, bounds
<1>16. CASE \E w \in Worker : ResumeRaises(w)
    BY <1>16 DEF ResumeRaises, Rest, Moves, Acknowledge, SendBack, rows, ledger, counts, bounds
<1>17. CASE \E x \in Expirer : Scan(x)
    BY <1>17 DEF Scan, Goto, Expirable, rows, ledger, counts, bounds
<1>18. CASE \E x \in Expirer : ExpireNext(x)
    BY <1>18 DEF ExpireNext, Enter, Moves, rows, ledger, counts, bounds
<1>19. CASE \E x \in Expirer : Fail(x)
    BY <1>19, LegalTransitions DEF Fail, CommitStatus, Free, Unlocked, Goto, LogTimeout, bounds
<1>20. CASE \E x \in Expirer : FailConflicts(x)
    BY <1>20 DEF FailConflicts, Free, EndTx, Unlocked, Goto, ledger, bounds
<1>21. CASE \E x \in Expirer : Claim(x)
    BY <1>21 DEF Claim, Free, Goto, Claimed, rows, counts, bounds
<1>22. CASE \E x \in Expirer : Refund(x)
    BY <1>22 DEF Refund, Goto, rows, counts, bounds
<1>23. CASE \E x \in Expirer : Notify(x)
    BY <1>23 DEF Notify, Goto, rows, counts, bounds
<1>24. CASE \E x \in Expirer : EndScan(x)
    BY <1>24 DEF EndScan, EndTx, Unlocked, Rest, Moves, ledger, bounds
<1>25. CASE \E s \in Session : Crash(s)
    BY <1>25 DEF Crash, Rest, Moves, Fault, Redeliver, SendBack, Release, Unlocked, rows, ledger, counts
<1>26. CASE \E m \in Mission : Age(m)
    BY <1>26 DEF Age, ledger, counts, bounds
<1>27. CASE \E w \in Worker, t \in broker : Take(w, t)
    BY <1>27 DEF Take, Task, Enter, Moves, rows, ledger, counts, bounds
<1>28. CASE UNCHANGED vars
    BY <1>28 DEF vars, rows, ledger, counts, bounds
<1> QED
    BY <1>1, <1>2, <1>3, <1>4, <1>5, <1>6, <1>7, <1>8, <1>9, <1>10, <1>11, <1>12, <1>13, <1>14, <1>15, <1>16, <1>17, <1>18, <1>19, <1>20, <1>21, <1>22, <1>23, <1>24, <1>25, <1>26, <1>27, <1>28
    DEF Next, UserStep, WorkerStep, Proceed, ExpirerStep

(* A writer that locked the row before it read it makes only transitions of  *)
(* the table, although others write without looking.                         *)
THEOREM LockedWritesLegal == Spec => LockedWritesAllowed
<1>1. LifecycleInv /\ [Next]_vars => [\A m \in Mission :
         owner[m] # NoSession /\ status'[m] # status[m]
             => CanTransition(status[m], status'[m])]_vars
    BY LockedWriteStep DEF LockedWriteAllowed
<1> QED
    BY <1>1, LifecycleCorrect, PTL DEF Spec, LockedWritesAllowed

(* Only an expiry that fails, claims, pays or tells touches the account.      *)
LEMMA LedgerUntouched ==
    ASSUME [Next]_vars,
           ~\E x \in Expirer : Fail(x) \/ Claim(x) \/ Refund(x) \/ Notify(x)
    PROVE  UNCHANGED ledger
<1>1. ASSUME NEW u \in User, UserStep(u) PROVE UNCHANGED ledger
    BY <1>1 DEF UserStep, Request, Write, Refuse, Dispatch, DispatchFails, AbortSelect,
       AbortCommit
<1>2. ASSUME NEW w \in Worker, WorkerStep(w) PROVE UNCHANGED ledger
    BY <1>2 DEF WorkerStep, Proceed, Take, Raise, LockRow, Start, Finish, ReadFailed,
       MarkFailed, ReadResume, WriteResume, ResumeRaises
<1>3. ASSUME NEW x \in Expirer, ExpirerStep(x) PROVE UNCHANGED ledger
    BY <1>3 DEF ExpirerStep, Scan, ExpireNext, FailConflicts, EndScan
<1>4. ASSUME NEW s \in Session, Crash(s) PROVE UNCHANGED ledger
    BY <1>4 DEF Crash
<1>5. CASE (\E m \in Mission : Age(m)) \/ UNCHANGED vars
    BY <1>5 DEF Age, vars
<1> QED
    BY <1>1, <1>2, <1>3, <1>4, <1>5 DEF Next

(* The account changes one step at a time, in the order of the protocol.      *)
LEMMA LedgerSteps ==
    ASSUME LifecycleInv, NEW x \in Expirer, Fail(x) \/ Claim(x) \/ Refund(x) \/ Notify(x)
    PROVE  Account!Next
<1> USE DEF LifecycleInv
<1> DEFINE m == at[x]
<1>1. m \in Mission
    BY DEF SessionsInPlace, Fail, Claim, Refund, Notify
<1>2. CASE Fail(x)
    <2>1. /\ status' = [status EXCEPT ![m] = "failed"]
          /\ timedOut' = [timedOut EXCEPT ![m] = TRUE]
          /\ UNCHANGED <<compensated, refunds, notices>>
        BY <1>2 DEF Fail, CommitStatus, LogTimeout
    <2>2. CASE timedOut[m]
        BY <1>1, <2>1, <2>2 DEF TypeOK, Account!Next, Account!Elsewhere, Account!ledger
    <2>3. CASE ~timedOut[m]
        BY <1>1, <2>1, <2>3 DEF Account!Next, Account!TimeOut
    <2> QED
        BY <2>2, <2>3
<1>3. CASE Claim(x)
    <2>1. /\ compensated' = [compensated EXCEPT ![m] = TRUE]
          /\ UNCHANGED <<status, timedOut, refunds, notices>>
        BY <1>3 DEF Claim, rows
    <2>2. timedOut[m]
        BY <1>3 DEF Claim, ClaimantIsAlone
    <2>3. CASE compensated[m]
        BY <1>1, <2>1, <2>3 DEF TypeOK, Account!Next, Account!Elsewhere, Account!ledger
    <2>4. CASE ~compensated[m]
        BY <1>1, <2>1, <2>2, <2>4 DEF Account!Next, Account!Claim
    <2> QED
        BY <2>3, <2>4
<1>4. CASE Refund(x)
    <2>1. compensated[m] /\ notices[m] = 0 /\ refunds[m] = 0
        BY <1>4 DEF Refund, ClaimantIsAlone
    <2>2. UNCHANGED <<status, timedOut, compensated, notices>>
        BY <1>4 DEF Refund, rows
    <2>3. CASE UNCHANGED refunds
        BY <2>2, <2>3 DEF Account!Next, Account!Elsewhere, Account!ledger
    <2>4. CASE refunds' = [refunds EXCEPT ![m] = @ + 1]
        <3>1. refunds' = [refunds EXCEPT ![m] = 1]
            BY <2>1, <2>4
        <3> QED
            BY <1>1, <2>1, <2>2, <3>1 DEF Account!Next, Account!Credit
    <2> QED
        BY <1>4, <2>3, <2>4 DEF Refund
<1>5. CASE Notify(x)
    <2>1. compensated[m] /\ notices[m] = 0
        BY <1>5 DEF Notify, ClaimantIsAlone
    <2>2. /\ notices' = [notices EXCEPT ![m] = @ + 1]
          /\ UNCHANGED <<status, timedOut, compensated, refunds>>
        BY <1>5 DEF Notify, rows
    <2>3. notices' = [notices EXCEPT ![m] = 1]
        BY <2>1, <2>2
    <2> QED
        BY <1>1, <2>1, <2>2, <2>3 DEF Account!Next, Account!Tell
<1> QED
    BY <1>2, <1>3, <1>4, <1>5

(* For any number of missions and of expiry tasks that overlap, die and are   *)
(* started again, the account of a mission's owner is that of one task        *)
(* (_expire_one, expire_paused_missions.py; _claim_compensation).             *)
THEOREM ExpiryImplementsCompensation == Spec => ImplementsCompensation
<1>1. Init => Account!Init
    BY DEF Init, Account!Init
<1>2. LifecycleInv /\ [Next]_vars => [Account!Next]_(Account!account)
    <2> SUFFICES ASSUME LifecycleInv, [Next]_vars PROVE Account!Next
        OBVIOUS
    <2>1. CASE \E x \in Expirer : Fail(x) \/ Claim(x) \/ Refund(x) \/ Notify(x)
        BY <2>1, LedgerSteps
    <2>2. CASE ~\E x \in Expirer : Fail(x) \/ Claim(x) \/ Refund(x) \/ Notify(x)
        BY <2>2, LedgerUntouched DEF ledger, Account!Next, Account!Elsewhere, Account!ledger
    <2> QED
        BY <2>1, <2>2
<1> QED
    BY <1>1, <1>2, LifecycleCorrect, PTL DEF Spec, ImplementsCompensation, Account!Spec
=============================================================================
