----------------------- MODULE IdempotentRequestProofs -----------------------
(***************************************************************************)
(* IdempotencyInv is inductive, for any requests, payloads and lifetime of *)
(* a key.  It says what the transaction that holds the key's row has       *)
(* written, and that the row is that of the last effect; the properties    *)
(* follow from it one step at a time.                                      *)
(***************************************************************************)
EXTENDS IdempotentRequest, TLAPS

(* What a row is, and that none is told from it by its id.                  *)
LEMMA RowFacts ==
    ASSUME NEW w \in Row \cup {NoRow}
    PROVE  /\ w = NoRow <=> w.id = Nothing
           /\ w # NoRow => /\ w \in Row /\ w.id \in Request /\ w.at \in Nat
                           /\ w.response \in Request \cup {Nothing}
BY RequestAssumption DEF Row, NoRow

(* There is neither a row nor an effect in the beginning.                   *)
LEMMA InitInv == Init => IdempotencyInv
BY RequestAssumption DEF Init, IdempotencyInv, TypeOK, LockMeans, CommandsOwnTheRow,
   RowIsTheLast, CommitsOnce, RowsSayTheTruth, Says, Whole, NoRow

(* Every action keeps the types.                                            *)
LEMMA TypeStep == IdempotencyInv /\ [Next]_vars => TypeOK'
<1> SUFFICES ASSUME IdempotencyInv, [Next]_vars PROVE TypeOK'
    OBVIOUS
<1> USE RequestAssumption, RowFacts DEF IdempotencyInv, TypeOK, Row, NoRow, Answer, Effect
<1>1. ASSUME NEW r \in Request, Lookup(r) PROVE TypeOK'
    BY <1>1 DEF Lookup, SamePayload, Goto, Tells, outcome
<1>2. ASSUME NEW r \in Request, Delete(r) PROVE TypeOK'
    BY <1>2 DEF Delete, Free, Write, Goto, request, outcome
<1>3. ASSUME NEW r \in Request, Insert(r) PROVE TypeOK'
    BY <1>3 DEF Insert, Free, Unique, View, Write, Undo, Goto, Tells, request, outcome
<1>4. ASSUME NEW r \in Request, Replay(r) PROVE TypeOK'
    BY <1>4 DEF Replay, Free, Write, Goto, Tells, request, outcome
<1>5. ASSUME NEW r \in Request, Close(r) PROVE TypeOK'
    BY <1>5 DEF Close, Undo, Goto, request, outcome
<1>6. ASSUME NEW r \in Request, Commit(r) PROVE TypeOK'
    BY <1>6 DEF Commit, View, Undo, Goto, request
<1>7. ASSUME NEW r \in Request, Refuse(r) PROVE TypeOK'
    BY <1>7 DEF Refuse, Undo, Goto, Tells, request, outcome
<1>8. ASSUME NEW r \in Request, Tear(r) PROVE TypeOK'
    BY <1>8 DEF Tear, Undo, request
<1>9. ASSUME NEW r \in Request, Respond(r) PROVE TypeOK'
    BY <1>9 DEF Respond, Goto, Tells, request, outcome
<1>10. ASSUME NEW r \in Request, Raise(r) PROVE TypeOK'
    BY <1>10 DEF Raise, Goto, Tells, request, outcome
<1>11. ASSUME NEW r \in Request, Finalize(r) PROVE TypeOK'
    BY <1>11 DEF Finalize, Free, Recorded, Goto, request, outcome
<1>12. ASSUME NEW r \in Request, Crash(r) PROVE TypeOK'
    BY <1>12 DEF Crash, Undo, Goto, request, outcome
<1>13. CASE Tick
    BY <1>13 DEF Tick, request, outcome
<1>14. CASE UNCHANGED vars
    BY <1>14 DEF vars
<1> QED
    BY <1>1, <1>2, <1>3, <1>4, <1>5, <1>6, <1>7, <1>8, <1>9, <1>10, <1>11, <1>12, <1>13, <1>14 DEF Next, Serve

(* A request commits once, and is torn only from its command on.            *)
LEMMA OnceStep == IdempotencyInv /\ [Next]_vars => CommitsOnce'
<1> SUFFICES ASSUME IdempotencyInv, [Next]_vars PROVE CommitsOnce'
    OBVIOUS
<1> USE RequestAssumption, RowFacts DEF IdempotencyInv, TypeOK, CommitsOnce
<1>1. ASSUME NEW r \in Request, Lookup(r) PROVE CommitsOnce'
    BY <1>1 DEF Lookup, SamePayload, Goto, Tells, outcome
<1>2. ASSUME NEW r \in Request, Delete(r) PROVE CommitsOnce'
    BY <1>2 DEF Delete, Free, Write, Goto, request, outcome
<1>3. ASSUME NEW r \in Request, Insert(r) PROVE CommitsOnce'
    BY <1>3 DEF Insert, Free, Unique, View, Write, Undo, Goto, Tells, request, outcome
<1>4. ASSUME NEW r \in Request, Replay(r) PROVE CommitsOnce'
    BY <1>4 DEF Replay, Free, Write, Goto, Tells, request, outcome
<1>5. ASSUME NEW r \in Request, Close(r) PROVE CommitsOnce'
    BY <1>5 DEF Close, Undo, Goto, request, outcome
<1>6. ASSUME NEW r \in Request, Commit(r) PROVE CommitsOnce'
    BY <1>6 DEF Commit, View, Undo, Goto, request
<1>7. ASSUME NEW r \in Request, Refuse(r) PROVE CommitsOnce'
    BY <1>7 DEF Refuse, Undo, Goto, Tells, request, outcome
<1>8. ASSUME NEW r \in Request, Tear(r) PROVE CommitsOnce'
    BY <1>8 DEF Tear, Undo, request
<1>9. ASSUME NEW r \in Request, Respond(r) PROVE CommitsOnce'
    BY <1>9 DEF Respond, Goto, Tells, request, outcome
<1>10. ASSUME NEW r \in Request, Raise(r) PROVE CommitsOnce'
    BY <1>10 DEF Raise, Goto, Tells, request, outcome
<1>11. ASSUME NEW r \in Request, Finalize(r) PROVE CommitsOnce'
    BY <1>11 DEF Finalize, Free, Recorded, Goto, request, outcome
<1>12. ASSUME NEW r \in Request, Crash(r) PROVE CommitsOnce'
    BY <1>12 DEF Crash, Undo, Goto, request, outcome
<1>13. CASE Tick
    BY <1>13 DEF Tick, request, outcome
<1>14. CASE UNCHANGED vars
    BY <1>14 DEF vars
<1> QED
    BY <1>1, <1>2, <1>3, <1>4, <1>5, <1>6, <1>7, <1>8, <1>9, <1>10, <1>11, <1>12, <1>13, <1>14 DEF Next, Serve

(* What the holder of the row has written.                                  *)
LEMMA LockStep == IdempotencyInv /\ [Next]_vars => LockMeans'
<1> SUFFICES ASSUME IdempotencyInv, [Next]_vars PROVE LockMeans'
    OBVIOUS
<1> USE RequestAssumption, RowFacts DEF IdempotencyInv, TypeOK, LockMeans, CommitsOnce, RowsSayTheTruth, RowIsTheLast, Whole, Effect, Expired, NoRow
<1>1. ASSUME NEW r \in Request, Lookup(r) PROVE LockMeans'
    BY <1>1 DEF Lookup, SamePayload, Goto, Tells, outcome
<1>2. ASSUME NEW r \in Request, Delete(r) PROVE LockMeans'
    <2>1. CASE ~(row # NoRow /\ row.id = seen[r].id)
        BY <1>2, <2>1 DEF Delete, Free, Goto, request, outcome
    <2>2. CASE row # NoRow /\ row.id = seen[r].id
        <3>1. Effect(row) \in effects /\ Effect(seen[r]) \in effects
            BY <1>2, <2>2 DEF Delete
        <3>2. row.at = seen[r].at
            BY <2>2, <3>1
        <3>3. Expired(row, now[r])
            BY <1>2, <3>2 DEF Delete
        <3>4. row' = row /\ now' = now /\ lock' = r /\ work' = NoRow
            BY <1>2, <2>2 DEF Delete, Write, request
        <3>5. pc' = [pc EXCEPT ![r] = "insert"]
            BY <1>2 DEF Delete, Goto
        <3> QED
            BY <3>3, <3>4, <3>5
    <2> QED
        BY <2>1, <2>2
<1>3. ASSUME NEW r \in Request, Insert(r) PROVE LockMeans'
    BY <1>3 DEF Insert, Free, Unique, View, Write, Undo, Goto, Tells, request, outcome
<1>4. ASSUME NEW r \in Request, Replay(r) PROVE LockMeans'
    BY <1>4 DEF Replay, Free, Write, Goto, Tells, request, outcome
<1>5. ASSUME NEW r \in Request, Close(r) PROVE LockMeans'
    BY <1>5 DEF Close, Undo, Goto, request, outcome
<1>6. ASSUME NEW r \in Request, Commit(r) PROVE LockMeans'
    BY <1>6 DEF Commit, View, Undo, Goto, request
<1>7. ASSUME NEW r \in Request, Refuse(r) PROVE LockMeans'
    BY <1>7 DEF Refuse, Undo, Goto, Tells, request, outcome
<1>8. ASSUME NEW r \in Request, Tear(r) PROVE LockMeans'
    BY <1>8 DEF Tear, Undo, request
<1>9. ASSUME NEW r \in Request, Respond(r) PROVE LockMeans'
    BY <1>9 DEF Respond, Goto, Tells, request, outcome
<1>10. ASSUME NEW r \in Request, Raise(r) PROVE LockMeans'
    BY <1>10 DEF Raise, Goto, Tells, request, outcome
<1>11. ASSUME NEW r \in Request, Finalize(r) PROVE LockMeans'
    BY <1>11 DEF Finalize, Free, Recorded, Goto, request, outcome
<1>12. ASSUME NEW r \in Request, Crash(r) PROVE LockMeans'
    BY <1>12 DEF Crash, Undo, Goto, request, outcome
<1>13. CASE Tick
    BY <1>13 DEF Tick, request, outcome
<1>14. CASE UNCHANGED vars
    BY <1>14 DEF vars
<1> QED
    BY <1>1, <1>2, <1>3, <1>4, <1>5, <1>6, <1>7, <1>8, <1>9, <1>10, <1>11, <1>12, <1>13, <1>14 DEF Next, Serve

(* A command has its row, or has been torn.                                 *)
LEMMA OwnStep == IdempotencyInv /\ [Next]_vars => CommandsOwnTheRow'
<1> SUFFICES ASSUME IdempotencyInv, [Next]_vars PROVE CommandsOwnTheRow'
    OBVIOUS
<1> USE RequestAssumption, RowFacts DEF IdempotencyInv, TypeOK, CommandsOwnTheRow, LockMeans
<1>1. ASSUME NEW r \in Request, Lookup(r) PROVE CommandsOwnTheRow'
    BY <1>1 DEF Lookup, SamePayload, Goto, Tells, outcome
<1>2. ASSUME NEW r \in Request, Delete(r) PROVE CommandsOwnTheRow'
    BY <1>2 DEF Delete, Free, Write, Goto, request, outcome
<1>3. ASSUME NEW r \in Request, Insert(r) PROVE CommandsOwnTheRow'
    BY <1>3 DEF Insert, Free, Unique, View, Write, Undo, Goto, Tells, request, outcome
<1>4. ASSUME NEW r \in Request, Replay(r) PROVE CommandsOwnTheRow'
    BY <1>4 DEF Replay, Free, Write, Goto, Tells, request, outcome
<1>5. ASSUME NEW r \in Request, Close(r) PROVE CommandsOwnTheRow'
    BY <1>5 DEF Close, Undo, Goto, request, outcome
<1>6. ASSUME NEW r \in Request, Commit(r) PROVE CommandsOwnTheRow'
    BY <1>6 DEF Commit, View, Undo, Goto, request
<1>7. ASSUME NEW r \in Request, Refuse(r) PROVE CommandsOwnTheRow'
    BY <1>7 DEF Refuse, Undo, Goto, Tells, request, outcome
<1>8. ASSUME NEW r \in Request, Tear(r) PROVE CommandsOwnTheRow'
    BY <1>8 DEF Tear, Undo, request
<1>9. ASSUME NEW r \in Request, Respond(r) PROVE CommandsOwnTheRow'
    BY <1>9 DEF Respond, Goto, Tells, request, outcome
<1>10. ASSUME NEW r \in Request, Raise(r) PROVE CommandsOwnTheRow'
    BY <1>10 DEF Raise, Goto, Tells, request, outcome
<1>11. ASSUME NEW r \in Request, Finalize(r) PROVE CommandsOwnTheRow'
    BY <1>11 DEF Finalize, Free, Recorded, Goto, request, outcome
<1>12. ASSUME NEW r \in Request, Crash(r) PROVE CommandsOwnTheRow'
    BY <1>12 DEF Crash, Undo, Goto, request, outcome
<1>13. CASE Tick
    BY <1>13 DEF Tick, request, outcome
<1>14. CASE UNCHANGED vars
    BY <1>14 DEF vars
<1> QED
    BY <1>1, <1>2, <1>3, <1>4, <1>5, <1>6, <1>7, <1>8, <1>9, <1>10, <1>11, <1>12, <1>13, <1>14 DEF Next, Serve

(* The row is that of the last effect.                                      *)
LEMMA LastStep == IdempotencyInv /\ [Next]_vars => RowIsTheLast'
<1> SUFFICES ASSUME IdempotencyInv, [Next]_vars PROVE RowIsTheLast'
    OBVIOUS
<1> USE RequestAssumption, RowFacts DEF IdempotencyInv, TypeOK, RowIsTheLast, LockMeans, CommandsOwnTheRow, CommitsOnce, Whole, Effect, Precedes, Expired
<1>1. ASSUME NEW r \in Request, Lookup(r) PROVE RowIsTheLast'
    BY <1>1 DEF Lookup, SamePayload, Goto, Tells, outcome
<1>2. ASSUME NEW r \in Request, Delete(r) PROVE RowIsTheLast'
    BY <1>2 DEF Delete, Free, Write, Goto, request, outcome
<1>3. ASSUME NEW r \in Request, Insert(r) PROVE RowIsTheLast'
    BY <1>3 DEF Insert, Free, Unique, View, Write, Undo, Goto, Tells, request, outcome
<1>4. ASSUME NEW r \in Request, Replay(r) PROVE RowIsTheLast'
    BY <1>4 DEF Replay, Free, Write, Goto, Tells, request, outcome
<1>5. ASSUME NEW r \in Request, Close(r) PROVE RowIsTheLast'
    BY <1>5 DEF Close, Undo, Goto, request, outcome
<1>6. ASSUME NEW r \in Request, Commit(r) PROVE RowIsTheLast'
    BY <1>6 DEF Commit, View, Undo, Goto, request
<1>7. ASSUME NEW r \in Request, Refuse(r) PROVE RowIsTheLast'
    BY <1>7 DEF Refuse, Undo, Goto, Tells, request, outcome
<1>8. ASSUME NEW r \in Request, Tear(r) PROVE RowIsTheLast'
    BY <1>8 DEF Tear, Undo, request
<1>9. ASSUME NEW r \in Request, Respond(r) PROVE RowIsTheLast'
    BY <1>9 DEF Respond, Goto, Tells, request, outcome
<1>10. ASSUME NEW r \in Request, Raise(r) PROVE RowIsTheLast'
    BY <1>10 DEF Raise, Goto, Tells, request, outcome
<1>11. ASSUME NEW r \in Request, Finalize(r) PROVE RowIsTheLast'
    <2>1. effects' = effects /\ torn' = torn
        BY <1>11 DEF Finalize, outcome
    <2>2. CASE row' = row
        BY <2>1, <2>2
    <2>3. CASE Recorded(r) /\ row' = [row EXCEPT !.response = r]
        <3>1. row \in Row /\ row' # NoRow /\ row'.id = row.id /\ row'.at = row.at
            BY <2>3 DEF Recorded, Row, NoRow
        <3>2. Effect(row)' = Effect(row)
            BY <3>1
        <3> QED
            BY <2>1, <2>3, <3>1, <3>2 DEF Recorded
    <2> QED
        BY <1>11, <2>2, <2>3 DEF Finalize
<1>12. ASSUME NEW r \in Request, Crash(r) PROVE RowIsTheLast'
    BY <1>12 DEF Crash, Undo, Goto, request, outcome
<1>13. CASE Tick
    BY <1>13 DEF Tick, request, outcome
<1>14. CASE UNCHANGED vars
    BY <1>14 DEF vars
<1> QED
    BY <1>1, <1>2, <1>3, <1>4, <1>5, <1>6, <1>7, <1>8, <1>9, <1>10, <1>11, <1>12, <1>13, <1>14 DEF Next, Serve

(* Rows and what is found of them.                                          *)
LEMMA TruthStep == IdempotencyInv /\ [Next]_vars => RowsSayTheTruth'
<1> SUFFICES ASSUME IdempotencyInv, [Next]_vars PROVE RowsSayTheTruth'
    OBVIOUS
<1> USE RequestAssumption, RowFacts DEF IdempotencyInv, TypeOK, RowsSayTheTruth, LockMeans, RowIsTheLast, CommitsOnce, Whole, Effect, Says, Expired
<1>1. ASSUME NEW r \in Request, Lookup(r) PROVE RowsSayTheTruth'
    BY <1>1 DEF Lookup, SamePayload, Goto, Tells, outcome
<1>2. ASSUME NEW r \in Request, Delete(r) PROVE RowsSayTheTruth'
    BY <1>2 DEF Delete, Free, Write, Goto, request, outcome
<1>3. ASSUME NEW r \in Request, Insert(r) PROVE RowsSayTheTruth'
    BY <1>3 DEF Insert, Free, Unique, View, Write, Undo, Goto, Tells, request, outcome
<1>4. ASSUME NEW r \in Request, Replay(r) PROVE RowsSayTheTruth'
    BY <1>4 DEF Replay, Free, Write, Goto, Tells, request, outcome
<1>5. ASSUME NEW r \in Request, Close(r) PROVE RowsSayTheTruth'
    BY <1>5 DEF Close, Undo, Goto, request, outcome
<1>6. ASSUME NEW r \in Request, Commit(r) PROVE RowsSayTheTruth'
    BY <1>6 DEF Commit, View, Undo, Goto, request
<1>7. ASSUME NEW r \in Request, Refuse(r) PROVE RowsSayTheTruth'
    BY <1>7 DEF Refuse, Undo, Goto, Tells, request, outcome
<1>8. ASSUME NEW r \in Request, Tear(r) PROVE RowsSayTheTruth'
    BY <1>8 DEF Tear, Undo, request
<1>9. ASSUME NEW r \in Request, Respond(r) PROVE RowsSayTheTruth'
    BY <1>9 DEF Respond, Goto, Tells, request, outcome
<1>10. ASSUME NEW r \in Request, Raise(r) PROVE RowsSayTheTruth'
    BY <1>10 DEF Raise, Goto, Tells, request, outcome
<1>11. ASSUME NEW r \in Request, Finalize(r) PROVE RowsSayTheTruth'
    <2>1. UNCHANGED <<effects, work, seen, now>>
        BY <1>11 DEF Finalize, outcome, request
    <2>2. Says(row)'
        <3>1. CASE row' = row
            BY <3>1
        <3>2. CASE Recorded(r) /\ row' = [row EXCEPT !.response = r]
            <4>1. row \in Row /\ row.id = r
                BY <3>2 DEF Recorded
            <4>2. row'.id = r /\ row'.response = r
                BY <3>2, <4>1 DEF Row
            <4> QED
                BY <4>2
        <3> QED
            BY <1>11, <3>1, <3>2 DEF Finalize
    <2>3. pc' = [pc EXCEPT ![r] = "done"]
        BY <1>11 DEF Finalize, Goto
    <2> QED
        BY <2>1, <2>2, <2>3
<1>12. ASSUME NEW r \in Request, Crash(r) PROVE RowsSayTheTruth'
    BY <1>12 DEF Crash, Undo, Goto, request, outcome
<1>13. CASE Tick
    BY <1>13 DEF Tick, request, outcome
<1>14. CASE UNCHANGED vars
    BY <1>14 DEF vars
<1> QED
    BY <1>1, <1>2, <1>3, <1>4, <1>5, <1>6, <1>7, <1>8, <1>9, <1>10, <1>11, <1>12, <1>13, <1>14 DEF Next, Serve

(* The inductive step, from the lemmas above.                               *)
LEMMA InvStep == IdempotencyInv /\ [Next]_vars => IdempotencyInv'
BY TypeStep, OnceStep, LockStep, OwnStep, LastStep, TruthStep DEF IdempotencyInv

(* The row of the key is what the transaction that holds it may overwrite,   *)
(* and tells of the last effect, in every behaviour.                         *)
THEOREM IdempotencyCorrect == Spec => []IdempotencyInv
BY InitInv, InvStep, PTL DEF Spec

(* A new effect comes a lifetime after every other one.                     *)
LEMMA EffectStep == IdempotencyInv /\ EffectOncePerTTL /\ [Next]_vars => EffectOncePerTTL'
<1> SUFFICES ASSUME IdempotencyInv /\ EffectOncePerTTL, [Next]_vars PROVE EffectOncePerTTL'
    OBVIOUS
<1> USE RequestAssumption, RowFacts DEF IdempotencyInv, TypeOK, EffectOncePerTTL, RowIsTheLast, LockMeans, CommandsOwnTheRow, CommitsOnce, Whole, Effect, Precedes, Expired
<1>1. ASSUME NEW r \in Request, Lookup(r) PROVE EffectOncePerTTL'
    BY <1>1 DEF Lookup, SamePayload, Goto, Tells, outcome
<1>2. ASSUME NEW r \in Request, Delete(r) PROVE EffectOncePerTTL'
    BY <1>2 DEF Delete, Free, Write, Goto, request, outcome
<1>3. ASSUME NEW r \in Request, Insert(r) PROVE EffectOncePerTTL'
    BY <1>3 DEF Insert, Free, Unique, View, Write, Undo, Goto, Tells, request, outcome
<1>4. ASSUME NEW r \in Request, Replay(r) PROVE EffectOncePerTTL'
    BY <1>4 DEF Replay, Free, Write, Goto, Tells, request, outcome
<1>5. ASSUME NEW r \in Request, Close(r) PROVE EffectOncePerTTL'
    BY <1>5 DEF Close, Undo, Goto, request, outcome
<1>6. ASSUME NEW r \in Request, Commit(r) PROVE EffectOncePerTTL'
    BY <1>6 DEF Commit, View, Undo, Goto, request
<1>7. ASSUME NEW r \in Request, Refuse(r) PROVE EffectOncePerTTL'
    BY <1>7 DEF Refuse, Undo, Goto, Tells, request, outcome
<1>8. ASSUME NEW r \in Request, Tear(r) PROVE EffectOncePerTTL'
    BY <1>8 DEF Tear, Undo, request
<1>9. ASSUME NEW r \in Request, Respond(r) PROVE EffectOncePerTTL'
    BY <1>9 DEF Respond, Goto, Tells, request, outcome
<1>10. ASSUME NEW r \in Request, Raise(r) PROVE EffectOncePerTTL'
    BY <1>10 DEF Raise, Goto, Tells, request, outcome
<1>11. ASSUME NEW r \in Request, Finalize(r) PROVE EffectOncePerTTL'
    BY <1>11 DEF Finalize, Free, Recorded, Goto, request, outcome
<1>12. ASSUME NEW r \in Request, Crash(r) PROVE EffectOncePerTTL'
    BY <1>12 DEF Crash, Undo, Goto, request, outcome
<1>13. CASE Tick
    BY <1>13 DEF Tick, request, outcome
<1>14. CASE UNCHANGED vars
    BY <1>14 DEF vars
<1> QED
    BY <1>1, <1>2, <1>3, <1>4, <1>5, <1>6, <1>7, <1>8, <1>9, <1>10, <1>11, <1>12, <1>13, <1>14 DEF Next, Serve

(* Committed commands of one key are a lifetime apart, for any number of     *)
(* retries, crashes and overlaps.                                            *)
THEOREM OneEffect == Spec => []EffectOncePerTTL
<1>1. Init => EffectOncePerTTL
    BY DEF Init, EffectOncePerTTL, Whole
<1> QED
    BY <1>1, EffectStep, IdempotencyCorrect, PTL DEF Spec

(* A replay tells what its request has found.                               *)
LEMMA ReplayStep == IdempotencyInv /\ ReplayIsOwn /\ [Next]_vars => ReplayIsOwn'
<1> SUFFICES ASSUME IdempotencyInv /\ ReplayIsOwn, [Next]_vars PROVE ReplayIsOwn'
    OBVIOUS
<1> USE RequestAssumption, RowFacts DEF IdempotencyInv, TypeOK, ReplayIsOwn, RowsSayTheTruth, Says, Effect, Committed, Answer
<1>1. ASSUME NEW r \in Request, Lookup(r) PROVE ReplayIsOwn'
    BY <1>1 DEF Lookup, SamePayload, Goto, Tells, outcome
<1>2. ASSUME NEW r \in Request, Delete(r) PROVE ReplayIsOwn'
    BY <1>2 DEF Delete, Free, Write, Goto, request, outcome
<1>3. ASSUME NEW r \in Request, Insert(r) PROVE ReplayIsOwn'
    BY <1>3 DEF Insert, Free, Unique, View, Write, Undo, Goto, Tells, request, outcome
<1>4. ASSUME NEW r \in Request, Replay(r) PROVE ReplayIsOwn'
    <2>1. effects' = effects /\ pc[r] = "replay"
        BY <1>4 DEF Replay, outcome
    <2>2. CASE answer' = [answer EXCEPT ![r] = [kind |-> "error"]]
        BY <2>1, <2>2
    <2>3. CASE answer' = [answer EXCEPT ![r] = [kind |-> "replay", of |-> seen[r].id,
                                              response |-> seen[r].response]]
        <3>1. seen[r] # NoRow /\ Says(seen[r]) /\ Effect(seen[r]) \in effects
            BY <2>1
        <3>2. seen[r].id \in Committed
            BY <3>1
        <3>3. Payload[seen[r].id] = Payload[r]
            BY <2>1
        <3>4. seen[r].response \in {Nothing, seen[r].id}
            BY <3>1
        <3>5. answer'[r] = [kind |-> "replay", of |-> seen[r].id,
                           response |-> seen[r].response]
            BY <2>3
        <3>6. \A s \in Request : s # r => answer'[s] = answer[s]
            BY <2>3
        <3> QED
            BY <2>1, <3>2, <3>3, <3>4, <3>5, <3>6
    <2> QED
        BY <1>4, <2>2, <2>3 DEF Replay, Tells
<1>5. ASSUME NEW r \in Request, Close(r) PROVE ReplayIsOwn'
    BY <1>5 DEF Close, Undo, Goto, request, outcome
<1>6. ASSUME NEW r \in Request, Commit(r) PROVE ReplayIsOwn'
    BY <1>6 DEF Commit, View, Undo, Goto, request
<1>7. ASSUME NEW r \in Request, Refuse(r) PROVE ReplayIsOwn'
    BY <1>7 DEF Refuse, Undo, Goto, Tells, request, outcome
<1>8. ASSUME NEW r \in Request, Tear(r) PROVE ReplayIsOwn'
    BY <1>8 DEF Tear, Undo, request
<1>9. ASSUME NEW r \in Request, Respond(r) PROVE ReplayIsOwn'
    BY <1>9 DEF Respond, Goto, Tells, request, outcome
<1>10. ASSUME NEW r \in Request, Raise(r) PROVE ReplayIsOwn'
    BY <1>10 DEF Raise, Goto, Tells, request, outcome
<1>11. ASSUME NEW r \in Request, Finalize(r) PROVE ReplayIsOwn'
    BY <1>11 DEF Finalize, Free, Recorded, Goto, request, outcome
<1>12. ASSUME NEW r \in Request, Crash(r) PROVE ReplayIsOwn'
    BY <1>12 DEF Crash, Undo, Goto, request, outcome
<1>13. CASE Tick
    BY <1>13 DEF Tick, request, outcome
<1>14. CASE UNCHANGED vars
    BY <1>14 DEF vars
<1> QED
    BY <1>1, <1>2, <1>3, <1>4, <1>5, <1>6, <1>7, <1>8, <1>9, <1>10, <1>11, <1>12, <1>13, <1>14 DEF Next, Serve

(* No client is told the answer to another's request.                        *)
THEOREM ReplaysAreOwn == Spec => []ReplayIsOwn
<1>1. Init => ReplayIsOwn
    BY DEF Init, ReplayIsOwn
<1> QED
    BY <1>1, ReplayStep, IdempotencyCorrect, PTL DEF Spec

(* Who has been answered asks for nothing any more.                         *)
AnsweredLast ==
    \A r \in Request : answer[r] # Nothing => pc[r] \in {"close", "answered", "done", "gone"}

(* Nobody is sent back from behind the answer.                              *)
LEMMA AnsweredStep == IdempotencyInv /\ AnsweredLast /\ [Next]_vars => AnsweredLast'
<1> SUFFICES ASSUME IdempotencyInv, AnsweredLast, [Next]_vars PROVE AnsweredLast'
    OBVIOUS
<1> USE DEF IdempotencyInv, TypeOK, AnsweredLast
<1>1. ASSUME NEW r \in Request, Lookup(r) PROVE AnsweredLast'
    BY <1>1 DEF Lookup, SamePayload, Goto, Tells, outcome
<1>2. ASSUME NEW r \in Request, Delete(r) PROVE AnsweredLast'
    BY <1>2 DEF Delete, Free, Write, Goto, request, outcome
<1>3. ASSUME NEW r \in Request, Insert(r) PROVE AnsweredLast'
    BY <1>3 DEF Insert, Free, Unique, View, Write, Undo, Goto, Tells, request, outcome
<1>4. ASSUME NEW r \in Request, Replay(r) PROVE AnsweredLast'
    BY <1>4 DEF Replay, Free, Write, Goto, Tells, request, outcome
<1>5. ASSUME NEW r \in Request, Close(r) PROVE AnsweredLast'
    BY <1>5 DEF Close, Undo, Goto, request, outcome
<1>6. ASSUME NEW r \in Request, Commit(r) PROVE AnsweredLast'
    BY <1>6 DEF Commit, View, Undo, Goto, request
<1>7. ASSUME NEW r \in Request, Refuse(r) PROVE AnsweredLast'
    BY <1>7 DEF Refuse, Undo, Goto, Tells, request, outcome
<1>8. ASSUME NEW r \in Request, Tear(r) PROVE AnsweredLast'
    BY <1>8 DEF Tear, Undo, request
<1>9. ASSUME NEW r \in Request, Respond(r) PROVE AnsweredLast'
    BY <1>9 DEF Respond, Goto, Tells, request, outcome
<1>10. ASSUME NEW r \in Request, Raise(r) PROVE AnsweredLast'
    BY <1>10 DEF Raise, Goto, Tells, request, outcome
<1>11. ASSUME NEW r \in Request, Finalize(r) PROVE AnsweredLast'
    BY <1>11 DEF Finalize, Free, Recorded, Goto, request, outcome
<1>12. ASSUME NEW r \in Request, Crash(r) PROVE AnsweredLast'
    BY <1>12 DEF Crash, Undo, Goto, request, outcome
<1>13. CASE Tick
    BY <1>13 DEF Tick
<1>14. CASE UNCHANGED vars
    BY <1>14 DEF vars
<1> QED
    BY <1>1, <1>2, <1>3, <1>4, <1>5, <1>6, <1>7, <1>8, <1>9, <1>10, <1>11, <1>12, <1>13, <1>14 DEF Next, Serve

(* Who is behind the commit has taken effect.                               *)
CommittedTookEffect == \A r \in Request : pc[r] = "committed" => \E e \in effects : e.by = r

(* Only the commit brings a request behind it.                              *)
LEMMA CommittedStep ==
    IdempotencyInv /\ CommittedTookEffect /\ [Next]_vars => CommittedTookEffect'
<1> SUFFICES ASSUME IdempotencyInv, CommittedTookEffect, [Next]_vars PROVE CommittedTookEffect'
    OBVIOUS
<1> USE DEF IdempotencyInv, TypeOK, CommittedTookEffect
<1>1. ASSUME NEW r \in Request, Commit(r) PROVE CommittedTookEffect'
    <2>1. pc' = [pc EXCEPT ![r] = "committed"]
        BY <1>1 DEF Commit, Goto
    <2>2. effects' = effects \cup {[by |-> r, at |-> now[r]]}
        BY <1>1 DEF Commit
    <2>3. \A s \in Request : s # r => pc'[s] = pc[s]
        BY <2>1
    <2>4. \E e \in effects' : e.by = r
        <3>1. [by |-> r, at |-> now[r]].by = r
            OBVIOUS
        <3> QED
            BY <2>2, <3>1
    <2>5. \A e \in effects : e \in effects'
        BY <2>2
    <2> QED
        BY <2>3, <2>4, <2>5
<1>2. ASSUME effects' = effects,
             \A r \in Request : pc'[r] = "committed" => pc[r] = "committed"
      PROVE  CommittedTookEffect'
    BY <1>2
<1>3. ASSUME NEW r \in Request, Lookup(r) \/ Delete(r) \/ Insert(r) \/ Replay(r) \/ Close(r)
      PROVE  CommittedTookEffect'
    BY <1>2, <1>3 DEF Lookup, Delete, Insert, Replay, Close, Goto, outcome
<1>4. ASSUME NEW r \in Request, Refuse(r) \/ Tear(r) \/ Respond(r) \/ Raise(r) \/ Finalize(r) \/ Crash(r)
      PROVE  CommittedTookEffect'
    BY <1>2, <1>4 DEF Refuse, Tear, Respond, Raise, Finalize, Crash, Goto, outcome
<1>5. CASE Tick \/ UNCHANGED vars
    BY <1>5 DEF Tick, vars, outcome
<1> QED
    BY <1>1, <1>3, <1>4, <1>5 DEF Next, Serve

(* A step that commits nothing and answers nobody is not seen.              *)
LEMMA UnseenStep ==
    ASSUME IdempotencyInv, UNCHANGED <<effects, answer>>,
           \/ UNCHANGED torn
           \/ \E r \in Request : pc[r] = "command" /\ torn' = torn \cup {r}
    PROVE  UNCHANGED Key!key
<1>1. \A r \in Request : pc[r] = "command" => \A e \in effects : e.by # r
    BY DEF IdempotencyInv, CommitsOnce
<1>2. Whole' = Whole /\ Strays' = Strays
    BY <1>1 DEF Whole, Strays
<1> QED
    BY <1>2 DEF Key!key

(* The commit of a command is its effect, of a torn one without the key.     *)
LEMMA CommitExecutes ==
    ASSUME IdempotencyInv, AnsweredLast, NEW r \in Request, Commit(r)
    PROVE  (\E t \in 0..MaxClock : Key!Execute(r, t)) \/ Key!Escape(r)
<1>1. /\ pc[r] = "command" /\ row' = View(r) /\ UNCHANGED <<answer, torn, now>>
      /\ effects' = effects \cup {[by |-> r, at |-> now[r]]}
    BY DEF Commit, request
<1>2. answer[r] = Nothing /\ \A e \in effects : e.by # r
    BY <1>1 DEF AnsweredLast, IdempotencyInv, CommitsOnce
<1>3. ~Key!TookEffect(r)
    BY <1>2 DEF Key!TookEffect, Whole, Strays
<1>4. now[r] \in 0..MaxClock
    BY DEF IdempotencyInv, TypeOK
<1>5. CASE r \notin torn
    <2>1. lock = r
        BY <1>1, <1>5 DEF IdempotencyInv, CommandsOwnTheRow
    <2>2. row # NoRow => Expired(row, now[r])
        BY <1>1, <2>1 DEF IdempotencyInv, LockMeans
    <2>3. \A e \in Whole : e.at + TTL < now[r]
        <3> SUFFICES ASSUME NEW e \in Whole PROVE e.at + TTL < now[r]
            OBVIOUS
        <3>1. row # NoRow /\ (e = Effect(row) \/ Precedes(e, row))
            BY DEF IdempotencyInv, RowIsTheLast
        <3>2. e.at \in Nat /\ row.at \in Nat
            BY <3>1, RowFacts DEF IdempotencyInv, TypeOK, Whole
        <3> QED
            BY <1>4, <2>2, <3>1, <3>2, RequestAssumption DEF Expired, Precedes, Effect
    <2>4. Whole' = Whole \cup {[by |-> r, at |-> now[r]]} /\ Strays' = Strays
        BY <1>1, <1>5 DEF Whole, Strays
    <2>5. Key!Execute(r, now[r])
        BY <1>1, <1>2, <1>3, <2>3, <2>4 DEF Key!Execute
    <2> QED
        BY <1>4, <2>5
<1>6. CASE r \in torn
    <2> DEFINE new == [by |-> r, at |-> now[r]]
    <2>1. effects' = effects \cup {new} /\ new.by = r
        BY <1>1
    <2> HIDE DEF new
    <2>2. Whole' = Whole
        BY <1>1, <1>6, <2>1 DEF Whole
    <2>3. \A s : (\E e \in effects' : e.by = s) <=> s = r \/ \E e \in effects : e.by = s
        BY <2>1
    <2>4. Strays' = Strays \cup {r}
        BY <1>1, <1>6, <2>3 DEF Strays
    <2> QED
        BY <1>1, <1>2, <1>3, <2>2, <2>4 DEF Key!Escape
<1> QED
    BY <1>5, <1>6

(* An answer given out is one that the key allows.                          *)
LEMMA AnswersTold ==
    ASSUME IdempotencyInv, AnsweredLast, CommittedTookEffect, NEW r \in Request,
           Lookup(r) \/ Insert(r) \/ Replay(r) \/ Refuse(r) \/ Respond(r) \/ Raise(r)
    PROVE  \/ \E e \in Whole : Key!Replay(r, e) \/ Key!Conflict(r, e)
           \/ Key!Answer(r) \/ Key!Fail(r) \/ UNCHANGED Key!key
<1>1. UNCHANGED <<effects, torn>>
    BY DEF Lookup, Insert, Replay, Refuse, Respond, Raise, outcome
<1>2. Whole' = Whole /\ Strays' = Strays
    BY <1>1 DEF Whole, Strays
<1>3. UNCHANGED answer => UNCHANGED Key!key
    BY <1>2 DEF Key!key
<1>4. answer[r] = Nothing
    BY DEF AnsweredLast, Lookup, Insert, Replay, Refuse, Respond, Raise
<1>5. ASSUME NEW a, Tells(r, a) PROVE Key!Tell(r, a)
    BY <1>2, <1>4, <1>5 DEF Tells, Key!Tell
<1>6. Tells(r, [kind |-> "error"]) => Key!Fail(r)
    BY <1>5 DEF Key!Fail
<1>7. CASE Lookup(r)
    <2>1. CASE row # NoRow /\ ~SamePayload(r) /\ Tells(r, [kind |-> "conflict"])
        <3>1. Effect(row) \in Whole
            BY <2>1 DEF IdempotencyInv, RowIsTheLast
        <3>2. Key!Conflict(r, Effect(row))
            BY <1>5, <2>1 DEF Key!Conflict, SamePayload, Effect
        <3> QED
            BY <3>1, <3>2
    <2> QED
        BY <1>3, <1>7, <2>1 DEF Lookup
<1>8. CASE Replay(r)
    <2>1. CASE /\ row # NoRow /\ row.id = seen[r].id
               /\ Tells(r, [kind |-> "replay", of |-> seen[r].id,
                            response |-> seen[r].response])
        <3>1. Effect(row) \in Whole
            BY <2>1 DEF IdempotencyInv, RowIsTheLast
        <3>2. seen[r] # NoRow /\ Says(seen[r]) /\ Payload[seen[r].id] = Payload[r]
            BY <1>8 DEF Replay, IdempotencyInv, RowsSayTheTruth
        <3>3. seen[r].response \in {Nothing, Effect(row).by} /\ seen[r].id = Effect(row).by
            BY <2>1, <3>2 DEF Says, Effect
        <3>4. Key!Replay(r, Effect(row))
            BY <1>5, <2>1, <3>2, <3>3 DEF Key!Replay
        <3> QED
            BY <3>1, <3>4
    <2> QED
        BY <1>6, <1>8, <2>1 DEF Replay
<1>9. CASE Respond(r)
    <2>1. pc[r] = "committed" /\ Tells(r, [kind |-> "own"])
        BY <1>9 DEF Respond
    <2>2. Key!TookEffect(r)
        BY <2>1 DEF Key!TookEffect, Whole, Strays, CommittedTookEffect
    <2> QED
        BY <1>5, <2>1, <2>2 DEF Key!Answer
<1>10. CASE Insert(r) \/ Refuse(r) \/ Raise(r)
    BY <1>3, <1>6, <1>10 DEF Insert, Refuse, Raise
<1> QED
    BY <1>7, <1>8, <1>9, <1>10

(* The key keeps its promise for any number of requests, crashes, overlaps   *)
(* and expiries: retries are executed once in its lifetime and answered, or  *)
(* refused (idempotency(); the unique index of idempotency_records).         *)
THEOREM RequestsImplementKey == Spec => ImplementsOncePerKey
<1>1. Init => AnsweredLast /\ CommittedTookEffect /\ Key!Init
    BY DEF Init, AnsweredLast, CommittedTookEffect, Key!Init, Whole, Strays
<1>2. Spec => [](AnsweredLast /\ CommittedTookEffect)
    BY <1>1, AnsweredStep, CommittedStep, IdempotencyCorrect, PTL DEF Spec
<1>3. IdempotencyInv /\ AnsweredLast /\ CommittedTookEffect /\ [Next]_vars
        => [Key!Next]_(Key!key)
    <2> SUFFICES ASSUME IdempotencyInv, AnsweredLast, CommittedTookEffect, [Next]_vars
                 PROVE  Key!Next \/ UNCHANGED Key!key
        OBVIOUS
    <2>1. ASSUME NEW r \in Request,
                 Lookup(r) \/ Insert(r) \/ Replay(r) \/ Refuse(r) \/ Respond(r) \/ Raise(r)
          PROVE  Key!Next \/ UNCHANGED Key!key
        BY <2>1, AnswersTold DEF Key!Next
    <2>2. ASSUME NEW r \in Request, Commit(r) PROVE Key!Next
        BY <2>2, CommitExecutes DEF Key!Next
    <2>3. ASSUME NEW r \in Request,
                 Delete(r) \/ Close(r) \/ Tear(r) \/ Finalize(r) \/ Crash(r)
          PROVE  UNCHANGED Key!key
        BY <2>3, UnseenStep DEF Delete, Close, Tear, Finalize, Crash, outcome
    <2>4. CASE Tick \/ UNCHANGED vars
        BY <2>4, UnseenStep DEF Tick, vars, outcome
    <2> QED
        BY <2>1, <2>2, <2>3, <2>4 DEF Next, Serve
<1> QED
    BY <1>1, <1>2, <1>3, IdempotencyCorrect, PTL DEF Spec, ImplementsOncePerKey, Key!Spec
=============================================================================
