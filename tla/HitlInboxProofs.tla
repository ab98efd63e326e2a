--------------------------- MODULE HitlInboxProofs ---------------------------
(***************************************************************************)
(* InboxInv is inductive, for any items, humans and expiry tasks: one      *)
(* lemma for each of its conjuncts, and in each one step for each action.  *)
(***************************************************************************)
EXTENDS HitlInbox, TLAPS

(* The invariant holds of an inbox that nobody has touched.                *)
LEMMA InitInv == Init => InboxInv
<1> SUFFICES ASSUME Init PROVE InboxInv
    OBVIOUS
<1> USE InboxAssumption DEF Init, Session, Unchanged
<1>1. TypeOK
    BY DEF TypeOK, Verdict, Decision
<1>2. ChangesAreLocked /\ SessionsInPlace
    BY DEF ChangesAreLocked, SessionsInPlace
<1>4. ExpiryHoldsPending
    BY DEF ExpiryHoldsPending
<1>5. FlushedIsSignalled /\ FlushedAsDecided
    BY DEF FlushedIsSignalled, FlushedAsDecided, Verdict
<1>3. ExpiredOnce /\ DecidedTogether /\ ApprovalSignalled
    BY DEF ExpiredOnce, DecidedTogether, ApprovalSignalled
<1> QED
    BY <1>1, <1>2, <1>3, <1>4, <1>5 DEF InboxInv

(* A function keeps its type when one value is replaced by another of the type. *)
LEMMA UpdatedFunction ==
    ASSUME NEW S, NEW T, NEW f \in [S -> T], NEW x \in S, NEW v \in T
    PROVE  [f EXCEPT ![x] = v] \in [S -> T]
OBVIOUS

(* What a session decides is a verdict, and a decision where a write is behind it. *)
LEMMA OutcomeIsVerdict ==
    ASSUME InboxInv, NEW s \in Session, pc[s] \in {"apply", "decide"}
    PROVE  /\ at[s] \in Item /\ Outcome(s, at[s]) \in Verdict
           /\ pc[s] = "apply" => at[s] \in MemoryItem
           /\ at[s] \in MemoryItem => Outcome(s, at[s]) \in Decision
BY InboxAssumption DEF InboxInv, SessionsInPlace, Session, Outcome, Verdict, Decision

(* The end of a transaction leaves rows, sessions and requests well typed. *)
LEMMA EndTxTypes ==
    ASSUME TypeOK, NEW s \in Session, EndTx(s)
    PROVE  /\ itemLock' \in [Item -> Session \cup {NoSession}]
           /\ writeLock' \in [MemoryItem -> Session \cup {NoSession}]
           /\ newItem' \in [Session -> [Item -> Verdict \cup {Nothing}]]
           /\ newWrite' \in [Session -> [MemoryItem -> Decision \cup {Nothing}]]
           /\ todo' \in [Session -> SUBSET Item]
           /\ verdict' \in [Human -> Decision \cup {Nothing}]
           /\ bulk' \in [Human -> BOOLEAN]
           /\ pc' \in [Session -> {"idle", "loop", "read", "apply", "decide"}]
           /\ at' \in [Session -> Item \cup {Nothing}]
BY DEF TypeOK, EndTx, Unlocked, Unchanged, Goto

(* Every step keeps the types. *)
LEMMA TypeStep == InboxInv /\ [Next]_vars => TypeOK'
<1> SUFFICES ASSUME InboxInv, [Next]_vars PROVE TypeOK'
    OBVIOUS
<1> USE InboxAssumption DEF InboxInv, TypeOK, SessionsInPlace, Session, Verdict, Decision
<1>1. CASE \E h \in Human : Request(h)
    BY <1>1 DEF Request, Goto, db, locks, changes, signals
<1>2. CASE \E x \in Expirer : Scan(x)
    BY <1>2 DEF Scan, Goto, Found, db, changes, asked, signals, bounds
<1>3. CASE \E s \in Session : NextItem(s)
    <2>1. PICK s \in Session : NextItem(s)
        BY <1>3
    <2>2. PICK i \in todo[s] :
              /\ todo' = [todo EXCEPT ![s] = @ \ {i}]
              /\ Goto(s, "loop", Nothing) \/ Goto(s, "read", i) \/ Goto(s, "decide", i)
        BY <2>1 DEF NextItem
    <2>3. i \in Item
        BY <2>1, <2>2
    <2>4. pc' \in [Session -> {"idle", "loop", "read", "apply", "decide"}]
        BY <2>1, <2>2 DEF Goto
    <2>5. at' \in [Session -> Item \cup {Nothing}]
        <3>1. PICK j \in {i, Nothing} : at' = [at EXCEPT ![s] = j]
            BY <2>2 DEF Goto
        <3>2. at \in [Session -> Item \cup {Nothing}] /\ j \in Item \cup {Nothing}
            BY <2>3, <3>1
        <3> QED
            BY <3>1, <3>2, <2>1
    <2>6. todo' \in [Session -> SUBSET Item]
        BY <2>2
    <2> QED
        BY <2>1, <2>4, <2>5, <2>6 DEF NextItem, db, locks, changes, asked, signals, bounds
<1>4. CASE \E s \in Session : ReadWrite(s)
    BY <1>4 DEF ReadWrite, Goto, db, locks, changes, asked, signals, bounds
<1>5. CASE \E s \in Session : ApplyWrite(s)
    <2>1. PICK s \in Session : ApplyWrite(s)
        BY <1>5
    <2>2. at[s] \in MemoryItem /\ at[s] \in Item /\ Outcome(s, at[s]) \in Decision
        BY <2>1, OutcomeIsVerdict DEF ApplyWrite
    <2>3. \/ newWrite' = newWrite
          \/ newWrite' = [newWrite EXCEPT ![s] = [@ EXCEPT ![at[s]] = Outcome(s, at[s])]]
        BY <2>1 DEF ApplyWrite
    <2>4. [newWrite[s] EXCEPT ![at[s]] = Outcome(s, at[s])]
              \in [MemoryItem -> Decision \cup {Nothing}]
        BY <2>2
    <2>5. newWrite' \in [Session -> [MemoryItem -> Decision \cup {Nothing}]]
        <3>1. newWrite \in [Session -> [MemoryItem -> Decision \cup {Nothing}]]
            OBVIOUS
        <3> DEFINE new == [newWrite[s] EXCEPT ![at[s]] = Outcome(s, at[s])]
        <3>2. new \in [MemoryItem -> Decision \cup {Nothing}]
            BY <2>4
        <3>3. newWrite' = newWrite \/ newWrite' = [newWrite EXCEPT ![s] = new]
            BY <2>3
        <3> HIDE DEF new, InboxInv
        <3>4. [newWrite EXCEPT ![s] = new] \in [Session -> [MemoryItem -> Decision \cup {Nothing}]]
            BY <3>1, <3>2, UpdatedFunction
        <3> QED
            BY <3>1, <3>3, <3>4
    <2>6. faults' \in Nat /\ requests' \in Nat
        BY <2>1 DEF ApplyWrite, Fault, bounds
    <2>7. writeLock' = writeLock \/ writeLock' = [writeLock EXCEPT ![at[s]] = s]
        BY <2>1 DEF ApplyWrite
    <2>8. writeLock' \in [MemoryItem -> Session \cup {NoSession}]
        BY <2>7
    <2>9. pc' \in [Session -> {"idle", "loop", "read", "apply", "decide"}]
        BY <2>1 DEF ApplyWrite, Goto
    <2>10. at' \in [Session -> Item \cup {Nothing}]
        BY <2>1, <2>2 DEF ApplyWrite, Goto
    <2> QED
        BY <2>1, <2>5, <2>6, <2>8, <2>9, <2>10 DEF ApplyWrite, db, asked, signals
<1>6. CASE \E s \in Session : Decide(s)
    BY <1>6 DEF Decide, Goto, Fault, Outcome, Signals, db, asked, bounds
<1>7. CASE \E s \in Session : Commit(s)
    <2>1. PICK s \in Session : Commit(s)
        BY <1>7
    <2>2. item' \in [Item -> {"pending"} \cup Verdict]
        BY <2>1 DEF Commit, Merged
    <2>3. write' \in [MemoryItem -> {"pending"} \cup Decision]
        BY <2>1 DEF Commit, Merged
    <2>4. expiries' \in [Item -> Nat]
        BY <2>1 DEF Commit
    <2> QED
        BY <2>1, <2>2, <2>3, <2>4, EndTxTypes DEF Commit, signals, bounds
<1>8. CASE \E s \in Session : DeadlockVictim(s)
    BY <1>8, EndTxTypes DEF DeadlockVictim, Rollback, db, signals, bounds
<1>9. CASE \E s \in Session : Crash(s)
    BY <1>9, EndTxTypes DEF Crash, Rollback, Fault, db, signals
<1>10. CASE \E i \in Item : Age(i)
    BY <1>10 DEF Age, db, locks, changes, asked, signals, bounds
<1>11. CASE UNCHANGED vars
    BY <1>11 DEF vars, db, locks, changes, asked, signals, bounds
<1> QED
    BY <1>1, <1>2, <1>3, <1>4, <1>5, <1>6, <1>7, <1>8, <1>9, <1>10, <1>11 DEF Next, Proceed

(* A lock outlives what was flushed behind it, and the write is flushed on the way to
   its item. *)
LEMMA ChangesStep == InboxInv /\ [Next]_vars => ChangesAreLocked'
<1> SUFFICES ASSUME InboxInv, [Next]_vars PROVE ChangesAreLocked'
    OBVIOUS
<1> USE InboxAssumption DEF InboxInv, ChangesAreLocked, TypeOK, SessionsInPlace, Session, Verdict, Decision
<1>1. CASE \E h \in Human : Request(h)
    BY <1>1 DEF Request, Goto, db, locks, changes, signals
<1>2. CASE \E x \in Expirer : Scan(x)
    BY <1>2 DEF Scan, Goto, Found, db, changes, asked, signals, bounds
<1>3. CASE \E s \in Session : NextItem(s)
    BY <1>3 DEF NextItem, Goto, db, locks, changes, asked, signals, bounds
<1>4. CASE \E s \in Session : ReadWrite(s)
    BY <1>4 DEF ReadWrite, Goto, db, locks, changes, asked, signals, bounds
<1>5. CASE \E s \in Session : ApplyWrite(s)
    BY <1>5 DEF ApplyWrite, Goto, Fault, Outcome, db, asked, signals, bounds
<1>6. CASE \E s \in Session : Decide(s)
    BY <1>6 DEF Decide, Goto, Fault, Outcome, Signals, db, asked, bounds
<1>7. CASE \E s \in Session : Commit(s)
    BY <1>7 DEF Commit, EndTx, Goto, Unlocked, Unchanged, Merged, signals, bounds
<1>8. CASE \E s \in Session : DeadlockVictim(s)
    BY <1>8 DEF DeadlockVictim, Rollback, EndTx, Goto, Unlocked, Unchanged, db, signals, bounds
<1>9. CASE \E s \in Session : Crash(s)
    BY <1>9 DEF Crash, Rollback, EndTx, Goto, Unlocked, Unchanged, Fault, db, signals
<1>10. CASE \E i \in Item : Age(i)
    BY <1>10 DEF Age, db, locks, changes, asked, signals, bounds
<1>11. CASE UNCHANGED vars
    BY <1>11 DEF vars, db, locks, changes, asked, signals, bounds
<1> QED
    BY <1>1, <1>2, <1>3, <1>4, <1>5, <1>6, <1>7, <1>8, <1>9, <1>10, <1>11 DEF Next, Proceed

(* Every session has an item at hand where it needs one. *)
LEMMA PlaceStep == InboxInv /\ [Next]_vars => SessionsInPlace'
<1> SUFFICES ASSUME InboxInv, [Next]_vars PROVE SessionsInPlace'
    OBVIOUS
<1> USE InboxAssumption DEF InboxInv, SessionsInPlace, TypeOK, Session, Verdict, Decision
<1>1. CASE \E h \in Human : Request(h)
    BY <1>1 DEF Request, Goto, db, locks, changes, signals
<1>2. CASE \E x \in Expirer : Scan(x)
    BY <1>2 DEF Scan, Goto, Found, db, changes, asked, signals, bounds
<1>3. CASE \E s \in Session : NextItem(s)
    <2>1. PICK s \in Session : NextItem(s)
        BY <1>3
    <2>2. PICK i \in todo[s] :
              \/ Goto(s, "loop", Nothing) \/ Goto(s, "decide", i)
              \/ i \in MemoryItem /\ Goto(s, "read", i)
        BY <2>1 DEF NextItem
    <2>3. i \in Item
        BY <2>1, <2>2
    <2> QED
        <3>1. \A t \in Session : t # s => pc'[t] = pc[t] /\ at'[t] = at[t]
            BY <2>2 DEF Goto
        <3>2. pc'[s] \in {"read", "apply", "decide"} => at'[s] \in Item
            BY <2>2, <2>3 DEF Goto
        <3>3. pc'[s] \in {"read", "apply"} => at'[s] \in MemoryItem
            BY <2>2, <2>3 DEF Goto
        <3>4. verdict' = verdict /\ pc[s] # "idle"
            BY <2>1 DEF NextItem, asked
        <3> QED
            BY <3>1, <3>2, <3>3, <3>4
<1>4. CASE \E s \in Session : ReadWrite(s)
    BY <1>4 DEF ReadWrite, Goto, db, locks, changes, asked, signals, bounds
<1>5. CASE \E s \in Session : ApplyWrite(s)
    BY <1>5 DEF ApplyWrite, Goto, Fault, Outcome, db, asked, signals, bounds
<1>6. CASE \E s \in Session : Decide(s)
    BY <1>6 DEF Decide, Goto, Fault, Outcome, Signals, db, asked, bounds
<1>7. CASE \E s \in Session : Commit(s)
    BY <1>7 DEF Commit, EndTx, Goto, Unlocked, Unchanged, Merged, signals, bounds
<1>8. CASE \E s \in Session : DeadlockVictim(s)
    BY <1>8 DEF DeadlockVictim, Rollback, EndTx, Goto, Unlocked, Unchanged, db, signals, bounds
<1>9. CASE \E s \in Session : Crash(s)
    BY <1>9 DEF Crash, Rollback, EndTx, Goto, Unlocked, Unchanged, Fault, db, signals
<1>10. CASE \E i \in Item : Age(i)
    BY <1>10 DEF Age, db, locks, changes, asked, signals, bounds
<1>11. CASE UNCHANGED vars
    BY <1>11 DEF vars, db, locks, changes, asked, signals, bounds
<1> QED
    BY <1>1, <1>2, <1>3, <1>4, <1>5, <1>6, <1>7, <1>8, <1>9, <1>10, <1>11 DEF Next, Proceed

(* Nobody decides an item that an expiry has locked, and an expiry locks what it found
   pending. *)
LEMMA ExpiryStep == InboxInv /\ [Next]_vars => ExpiryHoldsPending'
<1> SUFFICES ASSUME InboxInv, [Next]_vars PROVE ExpiryHoldsPending'
    OBVIOUS
<1> USE InboxAssumption DEF InboxInv, ExpiryHoldsPending, ChangesAreLocked, TypeOK, SessionsInPlace, Session, Verdict, Decision
<1>1. CASE \E h \in Human : Request(h)
    BY <1>1 DEF Request, Goto, db, locks, changes, signals
<1>2. CASE \E x \in Expirer : Scan(x)
    BY <1>2 DEF Scan, Goto, Found, db, changes, asked, signals, bounds
<1>3. CASE \E s \in Session : NextItem(s)
    BY <1>3 DEF NextItem, Goto, db, locks, changes, asked, signals, bounds
<1>4. CASE \E s \in Session : ReadWrite(s)
    BY <1>4 DEF ReadWrite, Goto, db, locks, changes, asked, signals, bounds
<1>5. CASE \E s \in Session : ApplyWrite(s)
    BY <1>5 DEF ApplyWrite, Goto, Fault, Outcome, db, asked, signals, bounds
<1>6. CASE \E s \in Session : Decide(s)
    BY <1>6 DEF Decide, Goto, Fault, Outcome, Signals, db, asked, bounds
<1>7. CASE \E s \in Session : Commit(s)
    <2>1. PICK s \in Session : Commit(s)
        BY <1>7
    <2>2. \A i \in Item : itemLock[i] # s => item'[i] = item[i] /\ expiries'[i] = expiries[i]
        BY <2>1 DEF Commit, Merged
    <2>3. \A i \in Item : item'[i] = "pending" => item[i] = "pending" /\ newItem[s][i] = Nothing
        <3>1. \A i \in Item : newItem[s][i] \in Verdict \cup {Nothing}
            BY <2>1
        <3>2. \A i \in Item : newItem[s][i] # Nothing => item'[i] = newItem[s][i]
            BY <2>1 DEF Commit, Merged
        <3>3. \A i \in Item : newItem[s][i] = Nothing => item'[i] = item[i]
            BY <2>1 DEF Commit, Merged
        <3> QED
            BY <3>1, <3>2, <3>3
    <2>4. \A i \in Item : item'[i] = "pending" => expiries'[i] = 0
        BY <2>1, <2>3 DEF Commit
    <2>5. \A i \in Item : itemLock'[i] \in Expirer => itemLock'[i] = itemLock[i] /\ itemLock[i] # s
        BY <2>1 DEF Commit, EndTx, Unlocked
    <2>6. \A x \in Expirer : x # s => todo'[x] = todo[x] /\ pc'[x] = pc[x] /\ at'[x] = at[x]
        BY <2>1 DEF Commit, EndTx, Goto
    <2>7. todo'[s] = {} /\ pc'[s] = "idle"
        BY <2>1 DEF Commit, EndTx, Goto
    <2>8. \A i \in Item : itemLock[i] # s => itemLock'[i] = itemLock[i]
        BY <2>1 DEF Commit, EndTx, Unlocked
    <2>9. \A x \in Expirer : /\ \A i \in todo'[x] : itemLock'[i] = x
                             /\ pc'[x] \in {"read", "apply", "decide"} => itemLock'[at'[x]] = x
        <3> SUFFICES ASSUME NEW x \in Expirer
                     PROVE  /\ \A i \in todo'[x] : itemLock'[i] = x
                            /\ pc'[x] \in {"read", "apply", "decide"} => itemLock'[at'[x]] = x
            OBVIOUS
        <3>1. CASE x = s
            BY <2>7, <3>1
        <3>2. CASE x # s
            <4>1. todo[x] \subseteq Item /\ \A i \in todo[x] : itemLock[i] = x
                OBVIOUS
            <4>2. pc[x] \in {"read", "apply", "decide"} => at[x] \in Item /\ itemLock[at[x]] = x
                OBVIOUS
            <4> QED
                BY <2>6, <2>8, <3>2, <4>1, <4>2
        <3> QED
            BY <3>1, <3>2
    <2>10. \A i \in Item : itemLock'[i] \in Expirer => item'[i] = "pending"
        BY <2>2, <2>5
    <2> QED
        BY <2>4, <2>9, <2>10
<1>8. CASE \E s \in Session : DeadlockVictim(s)
    BY <1>8 DEF DeadlockVictim, Rollback, EndTx, Goto, Unlocked, Unchanged, db, signals, bounds
<1>9. CASE \E s \in Session : Crash(s)
    BY <1>9 DEF Crash, Rollback, EndTx, Goto, Unlocked, Unchanged, Fault, db, signals
<1>10. CASE \E i \in Item : Age(i)
    BY <1>10 DEF Age, db, locks, changes, asked, signals, bounds
<1>11. CASE UNCHANGED vars
    BY <1>11 DEF vars, db, locks, changes, asked, signals, bounds
<1> QED
    BY <1>1, <1>2, <1>3, <1>4, <1>5, <1>6, <1>7, <1>8, <1>9, <1>10, <1>11 DEF Next, Proceed

(* The dispatch comes in the same breath as the flush. *)
LEMMA FlushedStep == InboxInv /\ [Next]_vars => FlushedIsSignalled'
<1> SUFFICES ASSUME InboxInv, [Next]_vars PROVE FlushedIsSignalled'
    OBVIOUS
<1> USE InboxAssumption DEF InboxInv, FlushedIsSignalled, TypeOK, SessionsInPlace, Session, Verdict, Decision
<1>1. CASE \E h \in Human : Request(h)
    BY <1>1 DEF Request, Goto, db, locks, changes, signals
<1>2. CASE \E x \in Expirer : Scan(x)
    BY <1>2 DEF Scan, Goto, Found, db, changes, asked, signals, bounds
<1>3. CASE \E s \in Session : NextItem(s)
    BY <1>3 DEF NextItem, Goto, db, locks, changes, asked, signals, bounds
<1>4. CASE \E s \in Session : ReadWrite(s)
    BY <1>4 DEF ReadWrite, Goto, db, locks, changes, asked, signals, bounds
<1>5. CASE \E s \in Session : ApplyWrite(s)
    BY <1>5 DEF ApplyWrite, Goto, Fault, Outcome, db, asked, signals, bounds
<1>6. CASE \E s \in Session : Decide(s)
    BY <1>6 DEF Decide, Goto, Fault, Outcome, Signals, db, asked, bounds
<1>7. CASE \E s \in Session : Commit(s)
    BY <1>7 DEF Commit, EndTx, Goto, Unlocked, Unchanged, Merged, signals, bounds
<1>8. CASE \E s \in Session : DeadlockVictim(s)
    BY <1>8 DEF DeadlockVictim, Rollback, EndTx, Goto, Unlocked, Unchanged, db, signals, bounds
<1>9. CASE \E s \in Session : Crash(s)
    BY <1>9 DEF Crash, Rollback, EndTx, Goto, Unlocked, Unchanged, Fault, db, signals
<1>10. CASE \E i \in Item : Age(i)
    BY <1>10 DEF Age, db, locks, changes, asked, signals, bounds
<1>11. CASE UNCHANGED vars
    BY <1>11 DEF vars, db, locks, changes, asked, signals, bounds
<1> QED
    BY <1>1, <1>2, <1>3, <1>4, <1>5, <1>6, <1>7, <1>8, <1>9, <1>10, <1>11 DEF Next, Proceed

(* Only a pending item, which was never expired, is expired. *)
LEMMA OnceStep == InboxInv /\ [Next]_vars => ExpiredOnce'
<1> SUFFICES ASSUME InboxInv, [Next]_vars PROVE ExpiredOnce'
    OBVIOUS
<1> USE InboxAssumption DEF InboxInv, ExpiredOnce, ExpiryHoldsPending, ChangesAreLocked, TypeOK, Session, Verdict, Decision
<1>1. CASE \E h \in Human : Request(h)
    BY <1>1 DEF Request, Goto, db, locks, changes, signals
<1>2. CASE \E x \in Expirer : Scan(x)
    BY <1>2 DEF Scan, Goto, Found, db, changes, asked, signals, bounds
<1>3. CASE \E s \in Session : NextItem(s)
    BY <1>3 DEF NextItem, Goto, db, locks, changes, asked, signals, bounds
<1>4. CASE \E s \in Session : ReadWrite(s)
    BY <1>4 DEF ReadWrite, Goto, db, locks, changes, asked, signals, bounds
<1>5. CASE \E s \in Session : ApplyWrite(s)
    BY <1>5 DEF ApplyWrite, Goto, Fault, Outcome, db, asked, signals, bounds
<1>6. CASE \E s \in Session : Decide(s)
    BY <1>6 DEF Decide, Goto, Fault, Outcome, Signals, db, asked, bounds
<1>7. CASE \E s \in Session : Commit(s)
    BY <1>7 DEF Commit, EndTx, Goto, Unlocked, Unchanged, Merged, signals, bounds
<1>8. CASE \E s \in Session : DeadlockVictim(s)
    BY <1>8 DEF DeadlockVictim, Rollback, EndTx, Goto, Unlocked, Unchanged, db, signals, bounds
<1>9. CASE \E s \in Session : Crash(s)
    BY <1>9 DEF Crash, Rollback, EndTx, Goto, Unlocked, Unchanged, Fault, db, signals
<1>10. CASE \E i \in Item : Age(i)
    BY <1>10 DEF Age, db, locks, changes, asked, signals, bounds
<1>11. CASE UNCHANGED vars
    BY <1>11 DEF vars, db, locks, changes, asked, signals, bounds
<1> QED
    BY <1>1, <1>2, <1>3, <1>4, <1>5, <1>6, <1>7, <1>8, <1>9, <1>10, <1>11 DEF Next, Proceed

(* A transaction that ends has flushed the item of every write it flushed. *)
LEMMA TogetherStep == InboxInv /\ [Next]_vars => DecidedTogether'
<1> SUFFICES ASSUME InboxInv, [Next]_vars PROVE DecidedTogether'
    OBVIOUS
<1> USE InboxAssumption DEF InboxInv, DecidedTogether, ChangesAreLocked, TypeOK, Session, Verdict, Decision
<1>1. CASE \E h \in Human : Request(h)
    BY <1>1 DEF Request, Goto, db, locks, changes, signals
<1>2. CASE \E x \in Expirer : Scan(x)
    BY <1>2 DEF Scan, Goto, Found, db, changes, asked, signals, bounds
<1>3. CASE \E s \in Session : NextItem(s)
    BY <1>3 DEF NextItem, Goto, db, locks, changes, asked, signals, bounds
<1>4. CASE \E s \in Session : ReadWrite(s)
    BY <1>4 DEF ReadWrite, Goto, db, locks, changes, asked, signals, bounds
<1>5. CASE \E s \in Session : ApplyWrite(s)
    BY <1>5 DEF ApplyWrite, Goto, Fault, Outcome, db, asked, signals, bounds
<1>6. CASE \E s \in Session : Decide(s)
    BY <1>6 DEF Decide, Goto, Fault, Outcome, Signals, db, asked, bounds
<1>7. CASE \E s \in Session : Commit(s)
    <2>1. PICK s \in Session : Commit(s)
        BY <1>7
    <2> SUFFICES ASSUME NEW i \in MemoryItem, write'[i] # "pending"
                 PROVE  item'[i] # "pending"
        OBVIOUS
    <2>2. i \in Item /\ newItem[s][i] \in Verdict \cup {Nothing}
        BY <2>1
    <2>3. newItem[s][i] # Nothing => item'[i] = newItem[s][i]
        BY <2>1, <2>2 DEF Commit, Merged
    <2>4. newItem[s][i] = Nothing => item'[i] = item[i]
        BY <2>1, <2>2 DEF Commit, Merged
    <2>5. CASE newWrite[s][i] # Nothing
        <3>1. newItem[s][i] # Nothing
            BY <2>1, <2>5 DEF Commit
        <3> QED
            BY <2>2, <2>3, <3>1
    <2>6. CASE newWrite[s][i] = Nothing
        <3>1. write'[i] = write[i]
            BY <2>1, <2>6 DEF Commit, Merged
        <3>2. item[i] # "pending"
            BY <3>1
        <3> QED
            BY <2>2, <2>3, <2>4, <3>2
    <2> QED
        BY <2>5, <2>6
<1>8. CASE \E s \in Session : DeadlockVictim(s)
    BY <1>8 DEF DeadlockVictim, Rollback, EndTx, Goto, Unlocked, Unchanged, db, signals, bounds
<1>9. CASE \E s \in Session : Crash(s)
    BY <1>9 DEF Crash, Rollback, EndTx, Goto, Unlocked, Unchanged, Fault, db, signals
<1>10. CASE \E i \in Item : Age(i)
    BY <1>10 DEF Age, db, locks, changes, asked, signals, bounds
<1>11. CASE UNCHANGED vars
    BY <1>11 DEF vars, db, locks, changes, asked, signals, bounds
<1> QED
    BY <1>1, <1>2, <1>3, <1>4, <1>5, <1>6, <1>7, <1>8, <1>9, <1>10, <1>11 DEF Next, Proceed

(* What becomes approved was flushed, and so signalled. *)
LEMMA SignalStep == InboxInv /\ [Next]_vars => ApprovalSignalled'
<1> SUFFICES ASSUME InboxInv, [Next]_vars PROVE ApprovalSignalled'
    OBVIOUS
<1> USE InboxAssumption DEF InboxInv, ApprovalSignalled, FlushedIsSignalled, TypeOK, Session, Verdict, Decision
<1>1. CASE \E h \in Human : Request(h)
    BY <1>1 DEF Request, Goto, db, locks, changes, signals
<1>2. CASE \E x \in Expirer : Scan(x)
    BY <1>2 DEF Scan, Goto, Found, db, changes, asked, signals, bounds
<1>3. CASE \E s \in Session : NextItem(s)
    BY <1>3 DEF NextItem, Goto, db, locks, changes, asked, signals, bounds
<1>4. CASE \E s \in Session : ReadWrite(s)
    BY <1>4 DEF ReadWrite, Goto, db, locks, changes, asked, signals, bounds
<1>5. CASE \E s \in Session : ApplyWrite(s)
    BY <1>5 DEF ApplyWrite, Goto, Fault, Outcome, db, asked, signals, bounds
<1>6. CASE \E s \in Session : Decide(s)
    BY <1>6 DEF Decide, Goto, Fault, Outcome, Signals, db, asked, bounds
<1>7. CASE \E s \in Session : Commit(s)
    BY <1>7 DEF Commit, EndTx, Goto, Unlocked, Unchanged, Merged, signals, bounds
<1>8. CASE \E s \in Session : DeadlockVictim(s)
    BY <1>8 DEF DeadlockVictim, Rollback, EndTx, Goto, Unlocked, Unchanged, db, signals, bounds
<1>9. CASE \E s \in Session : Crash(s)
    BY <1>9 DEF Crash, Rollback, EndTx, Goto, Unlocked, Unchanged, Fault, db, signals
<1>10. CASE \E i \in Item : Age(i)
    BY <1>10 DEF Age, db, locks, changes, asked, signals, bounds
<1>11. CASE UNCHANGED vars
    BY <1>11 DEF vars, db, locks, changes, asked, signals, bounds
<1> QED
    BY <1>1, <1>2, <1>3, <1>4, <1>5, <1>6, <1>7, <1>8, <1>9, <1>10, <1>11 DEF Next, Proceed

(* What is flushed is what the session decides, to the end of its transaction. *)
LEMMA AsDecidedStep == InboxInv /\ [Next]_vars => FlushedAsDecided'
<1> SUFFICES ASSUME InboxInv, [Next]_vars PROVE FlushedAsDecided'
    OBVIOUS
<1> USE InboxAssumption DEF InboxInv, FlushedAsDecided, TypeOK, SessionsInPlace, Session, Verdict, Decision, Outcome
<1>1. CASE \E h \in Human : Request(h)
    BY <1>1 DEF Request, Goto, db, locks, changes, signals
<1>2. CASE \E x \in Expirer : Scan(x)
    BY <1>2 DEF Scan, Goto, Found, db, changes, asked, signals, bounds
<1>3. CASE \E s \in Session : NextItem(s)
    BY <1>3 DEF NextItem, Goto, db, locks, changes, asked, signals, bounds
<1>4. CASE \E s \in Session : ReadWrite(s)
    BY <1>4 DEF ReadWrite, Goto, db, locks, changes, asked, signals, bounds
<1>5. CASE \E s \in Session : ApplyWrite(s)
    <2>1. PICK s \in Session : ApplyWrite(s)
        BY <1>5
    <2>2. UNCHANGED <<newItem, verdict>>
        BY <2>1 DEF ApplyWrite, asked
    <2>3. \A t \in Session, i \in MemoryItem :
              \/ newWrite'[t][i] = newWrite[t][i]
              \/ newWrite'[t][i] = Outcome(t, i)
        <3> HIDE DEF Outcome
        <3>1. CASE newWrite' = newWrite
            BY <3>1
        <3>2. CASE newWrite' = [newWrite EXCEPT ![s] = [@ EXCEPT ![at[s]] = Outcome(s, at[s])]]
            <4>1. \A t \in Session : newWrite[t] \in [MemoryItem -> Decision \cup {Nothing}]
                OBVIOUS
            <4>2. \A t \in Session : t # s => newWrite'[t] = newWrite[t]
                BY <3>2
            <4>3. newWrite'[s] = [newWrite[s] EXCEPT ![at[s]] = Outcome(s, at[s])]
                BY <3>2
            <4>4. at[s] \in MemoryItem
                BY <2>1 DEF ApplyWrite
            <4>5. \A i \in MemoryItem :
                      newWrite'[s][i] = IF i = at[s] THEN Outcome(s, i) ELSE newWrite[s][i]
                BY <4>1, <4>3, <4>4
            <4> QED
                BY <4>2, <4>5
        <3> QED
            BY <2>1, <3>1, <3>2 DEF ApplyWrite
    <2>4. pc'[s] # "idle" /\ \A t \in Session : t # s => pc'[t] = pc[t]
        BY <2>1 DEF ApplyWrite, Goto
    <2>5. \A h \in Human : pc'[h] = "idle" => verdict'[h] = Nothing
        BY <2>2, <2>4
    <2> QED
        BY <2>2, <2>3, <2>5
<1>6. CASE \E s \in Session : Decide(s)
    BY <1>6 DEF Decide, Goto, Fault, Outcome, Signals, db, asked, bounds
<1>7. CASE \E s \in Session : Commit(s)
    BY <1>7 DEF Commit, EndTx, Goto, Unlocked, Unchanged, Merged, signals, bounds
<1>8. CASE \E s \in Session : DeadlockVictim(s)
    BY <1>8 DEF DeadlockVictim, Rollback, EndTx, Goto, Unlocked, Unchanged, db, signals, bounds
<1>9. CASE \E s \in Session : Crash(s)
    BY <1>9 DEF Crash, Rollback, EndTx, Goto, Unlocked, Unchanged, Fault, db, signals
<1>10. CASE \E i \in Item : Age(i)
    BY <1>10 DEF Age, db, locks, changes, asked, signals, bounds
<1>11. CASE UNCHANGED vars
    BY <1>11 DEF vars, db, locks, changes, asked, signals, bounds
<1> QED
    BY <1>1, <1>2, <1>3, <1>4, <1>5, <1>6, <1>7, <1>8, <1>9, <1>10, <1>11 DEF Next, Proceed

(* The inductive step, from the lemmas above. *)
LEMMA InvStep == InboxInv /\ [Next]_vars => InboxInv'
BY TypeStep, ChangesStep, PlaceStep, ExpiryStep, FlushedStep, AsDecidedStep, OnceStep, TogetherStep,
   SignalStep
DEF InboxInv

(* The inductive invariant holds of every behaviour: what is flushed is locked *)
(* and signalled, and what an expiry has locked is pending.                    *)
THEOREM InboxCorrect == Spec => []InboxInv
BY InitInv, InvStep, PTL DEF Spec

(* No item is expired twice, however many beats overlap or start again.      *)
THEOREM ExpiryOnce == Spec => []ExpiredOnce
<1>1. InboxInv => ExpiredOnce
    BY DEF InboxInv
<1> QED
    BY <1>1, InboxCorrect, PTL

(* A memory write and its item are decided by the same commit.               *)
THEOREM WriteWithItem == Spec => []DecidedTogether
<1>1. InboxInv => DecidedTogether
    BY DEF InboxInv
<1> QED
    BY <1>1, InboxCorrect, PTL

(* No approval is committed that the executor was not told of, but for those *)
(* the broker refused.                                                       *)
THEOREM ApprovalsSignalled == Spec => []ApprovalSignalled
<1>1. InboxInv => ApprovalSignalled
    BY DEF InboxInv
<1> QED
    BY <1>1, InboxCorrect, PTL

(* The non-temporal content of ExpiryKeepsAnswers. *)
ExpiryKeepsAnswer(i) ==
    itemLock[i] \in Expirer /\ item'[i] # item[i] => item[i] = "pending"

(* What an expiry has locked is pending, whoever changes it. *)
LEMMA AnswerStep ==
    InboxInv /\ [Next]_vars => \A i \in Item : ExpiryKeepsAnswer(i)
BY DEF InboxInv, ExpiryHoldsPending, ExpiryKeepsAnswer

(* The expiry overrides no answer, for any number of humans and beats.       *)
THEOREM ExpirySparesAnswers == Spec => ExpiryKeepsAnswers
<1>1. InboxInv /\ [Next]_vars => [\A i \in Item :
         itemLock[i] \in Expirer /\ item'[i] # item[i] => item[i] = "pending"]_vars
    BY AnswerStep DEF ExpiryKeepsAnswer
<1> QED
    BY <1>1, InboxCorrect, PTL DEF Spec, ExpiryKeepsAnswers

-----------------------------------------------------------------------------
(* The inbox implements its abstract specification *)

(* Only a commit settles anything; some of the other steps tell runs.        *)
LEMMA TellsOnly ==
    ASSUME [Next]_vars, ~\E s \in Session : Commit(s)
    PROVE  Inbox!Tell
<1> USE DEF Inbox!Tell, Told
<1>1. CASE \E h \in Human : Request(h)
    BY <1>1 DEF Request, db, signals
<1>2. CASE \E x \in Expirer : Scan(x)
    BY <1>2 DEF Scan, db, signals
<1>3. CASE \E s \in Session : NextItem(s) \/ ReadWrite(s) \/ ApplyWrite(s)
    BY <1>3 DEF NextItem, ReadWrite, ApplyWrite, db, signals
<1>4. CASE \E s \in Session : Decide(s)
    BY <1>4 DEF Decide, db
<1>5. CASE \E s \in Session : DeadlockVictim(s) \/ Crash(s)
    BY <1>5 DEF DeadlockVictim, Crash, Rollback, db, signals
<1>6. CASE (\E i \in Item : Age(i)) \/ UNCHANGED vars
    BY <1>6 DEF Age, vars, db, signals
<1> QED
    BY <1>1, <1>2, <1>3, <1>4, <1>5, <1>6 DEF Next, Proceed

\* The items that s has flushed.
Flushed(s) == {i \in Item : newItem[s][i] # Nothing}

(* A commit settles what its session has flushed, as the session decides.    *)
LEMMA CommitSettles ==
    ASSUME InboxInv, NEW s \in Session, Commit(s), NEW v,
           \A i \in Flushed(s) : v[i] = Outcome(s, i)
    PROVE  Inbox!Settle(Flushed(s), v)
<1> USE InboxAssumption DEF InboxInv
<1>1. \A i \in Item : item'[i] = IF i \in Flushed(s) THEN v[i] ELSE item[i]
    BY DEF Commit, Merged, Flushed, FlushedAsDecided, TypeOK
<1>2. \A i \in MemoryItem : newWrite[s][i] # Nothing => i \in Flushed(s)
    BY DEF Commit, Flushed, ChangesAreLocked
<1>3. \A i \in MemoryItem :
          write'[i] = write[i] \/ (i \in Flushed(s) /\ write'[i] = v[i])
    BY <1>2 DEF Commit, Merged, FlushedAsDecided, TypeOK
<1>4. \A i \in Flushed(s) \ MemoryItem : v[i] = "approved" => i \in Told
    BY DEF Flushed, FlushedAsDecided, FlushedIsSignalled, Told
<1>5. UNCHANGED Told
    BY DEF Commit, signals, Told
<1> QED
    BY <1>1, <1>3, <1>4, <1>5 DEF Inbox!Settle

(* A request's commit gives all it has decided the verdict it came with.     *)
LEMMA CommitAnswers ==
    ASSUME InboxInv, NEW h \in Human, Commit(h)
    PROVE  Inbox!Answer(Flushed(h))
<1> USE InboxAssumption DEF Session
<1> DEFINE v == verdict[h]
<1>1. v \in {"approved", "rejected"}
    BY DEF InboxInv, SessionsInPlace, Commit, Decision
<1>2. \A i \in Flushed(h) : [j \in Item |-> v][i] = Outcome(h, i)
    BY DEF Flushed, Outcome
<1>3. Inbox!Settle(Flushed(h), [j \in Item |-> v])
    BY <1>2, CommitSettles
<1>4. UNCHANGED expiries
    <2>1. h \notin Expirer /\ expiries \in [Item -> Nat]
        BY DEF InboxInv, TypeOK
    <2> QED
        BY <2>1 DEF Commit
<1> QED
    BY <1>1, <1>3, <1>4 DEF Inbox!Answer

(* An expiry's commit decides what it has locked since it found it pending.  *)
LEMMA CommitExpires ==
    ASSUME InboxInv, NEW x \in Expirer, Commit(x)
    PROVE  Inbox!Expire(Flushed(x))
<1> USE InboxAssumption DEF Session
<1>1. \A i \in Flushed(x) : item[i] = "pending" /\ expiries[i] = 0
    BY DEF InboxInv, Flushed, ChangesAreLocked, ExpiryHoldsPending
<1>2. \A i \in Flushed(x) : OnExpiry[i] = Outcome(x, i)
    BY DEF Flushed, Outcome, OnExpiry
<1>3. Inbox!Settle(Flushed(x), OnExpiry)
    BY <1>2, CommitSettles
<1>4. \A i \in Item : expiries'[i] = IF i \in Flushed(x) THEN 1 ELSE expiries[i]
    <2>1. expiries \in [Item -> Nat]
        BY DEF InboxInv, TypeOK
    <2> QED
        BY <1>1, <2>1 DEF Commit, Flushed
<1> QED
    BY <1>1, <1>3, <1>4 DEF Inbox!Expire

(* For any items, humans and beats, each commit is a request's verdict or a  *)
(* first expiry (HITLService; get_db, hitl.expire_items).                    *)
THEOREM InboxImplementsDecisions == Spec => ImplementsInbox
<1>1. Init => Inbox!Init
    BY DEF Init, Inbox!Init, Told
<1>2. InboxInv /\ [Next]_vars => [Inbox!Next]_(Inbox!inbox)
    <2> SUFFICES ASSUME InboxInv, [Next]_vars PROVE Inbox!Next
        OBVIOUS
    <2>1. CASE \E s \in Session : Commit(s)
        <3>1. PICK s \in Session : Commit(s)
            BY <2>1
        <3>2. Flushed(s) \in SUBSET Item
            BY DEF Flushed
        <3>3. Inbox!Answer(Flushed(s)) \/ Inbox!Expire(Flushed(s))
            BY <3>1, CommitAnswers, CommitExpires DEF Session
        <3> QED
            BY <3>2, <3>3 DEF Inbox!Next
    <2>2. CASE ~\E s \in Session : Commit(s)
        BY <2>2, TellsOnly DEF Inbox!Next
    <2> QED
        BY <2>1, <2>2
<1> QED
    BY <1>1, <1>2, InboxCorrect, PTL DEF Spec, ImplementsInbox, Inbox!Spec
=============================================================================
