--------------------------- MODULE EventLogProofs ---------------------------
(***************************************************************************)
(* Proofs about EventLog, for any sessions, keys, batches and limits: the  *)
(* inductive invariant, that the stream is causally ordered and holds each *)
(* key once, that what a commit was told is logged is logged, that a       *)
(* finished replay is complete up to equal sequence numbers, and that the  *)
(* log implements a stream of whole, ordered transactions (EventStream).   *)
(***************************************************************************)
EXTENDS EventLog, SequenceTheorems, TLAPS

\* What the invariant says of one session.
SessionInv(s) ==
    /\ \A r \in open[s] : Grounded(r, Visible(s))
    /\ \A r \in call[s].rows :
          Grounded(r, Visible(s) \cup call[s].rows) /\ r.seq <= call[s].seq
    /\ \A k \in call[s].seen :
          \E b \in Visible(s) : b.key = k /\ b.seq <= call[s].seq
    /\ call[s].want \subseteq Keys(Visible(s)) \cup Pending(call[s])
    /\ call[s].at \in {"count", "dedup"} => call[s].todo # <<>>
    /\ call[s].at = "insert" => call[s].todo = <<>>
    /\ s \notin conflicted => told[s] \subseteq Keys(Visible(s))

StreamInv ==
    /\ \A r \in log : Grounded(r, log)
    /\ StoredOnce
    /\ ReplayMissesNothing

\* The invariant, split by session, in this state and in the next.
LEMMA StoredInvParts ==
    /\ StoredInv <=> EventTypeOK /\ StreamInv /\ \A s \in Session : SessionInv(s)
    /\ StoredInv' <=> EventTypeOK' /\ StreamInv' /\ \A s \in Session : SessionInv(s)'
  BY DEF StoredInv, SessionInv, StreamInv, RowsGrounded, AskedIsAccountedFor

-----------------------------------------------------------------------------
(* What a step of s leaves to the other sessions *)

Alone(s) ==
    /\ log \subseteq log'
    /\ \A t \in Session \ {s} :
          /\ open'[t] = open[t] /\ call'[t] = call[t] /\ told'[t] = told[t]
          /\ t \in conflicted' <=> t \in conflicted

\* A larger set of rows grounds what a smaller one does.
LEMMA GroundedMonotone ==
    ASSUME NEW r, NEW A, NEW B, A \subseteq B, Grounded(r, A)
    PROVE  Grounded(r, B)
  BY DEF Grounded

\* A step of one append leaves what is promised of the others.
LEMMA OthersKeep ==
    ASSUME StoredInv, NEW s \in Session, Alone(s), NEW t \in Session, t # s
    PROVE  SessionInv(t)'
  <1>1. SessionInv(t)
    BY StoredInvParts
  <1>2. /\ open'[t] = open[t] /\ call'[t] = call[t] /\ told'[t] = told[t]
        /\ t \in conflicted' <=> t \in conflicted
        /\ log \subseteq log'
    BY DEF Alone
  <1>3. Visible(t) \subseteq Visible(t)' /\ Keys(Visible(t)) \subseteq Keys(Visible(t)')
    BY <1>2 DEF Visible, Keys
  <1>4. \A r \in open'[t] : Grounded(r, Visible(t)')
    BY <1>1, <1>2, <1>3, GroundedMonotone DEF SessionInv
  <1>5. \A r \in call'[t].rows :
           Grounded(r, Visible(t)' \cup call'[t].rows) /\ r.seq <= call'[t].seq
    <2> SUFFICES ASSUME NEW r \in call[t].rows
                 PROVE  Grounded(r, Visible(t)' \cup call[t].rows) /\ r.seq <= call[t].seq
      BY <1>2
    <2>1. Grounded(r, Visible(t) \cup call[t].rows) /\ r.seq <= call[t].seq
      BY <1>1 DEF SessionInv
    <2>2. Visible(t) \cup call[t].rows \subseteq Visible(t)' \cup call[t].rows
      BY <1>3
    <2> QED BY <2>1, <2>2, GroundedMonotone
  <1>6. /\ \A k \in call'[t].seen : \E b \in Visible(t)' : b.key = k /\ b.seq <= call'[t].seq
        /\ call'[t].want \subseteq Keys(Visible(t)') \cup Pending(call'[t])
        /\ call'[t].at \in {"count", "dedup"} => call'[t].todo # <<>>
        /\ call'[t].at = "insert" => call'[t].todo = <<>>
        /\ t \notin conflicted' => told'[t] \subseteq Keys(Visible(t)')
    BY <1>1, <1>2, <1>3 DEF SessionInv
  <1> QED BY <1>4, <1>5, <1>6 DEF SessionInv, Grounded, Keys, Pending

\* An idle session in a transaction just ended satisfies its part.
LEMMA FreshSession ==
    ASSUME EventTypeOK, NEW s \in Session, EndOfTx(s)
    PROVE  SessionInv(s)'
  <1>1. open'[s] = {} /\ told'[s] = {} /\ call'[s] = NoCall
    BY DEF EndOfTx, EventTypeOK
  <1> QED BY <1>1 DEF SessionInv, NoCall, Keys, Pending

-----------------------------------------------------------------------------
(* The steps of an append *)

\* A step of append that stores nothing: only the call of s changes.
CallStep(s, c) ==
    /\ call' = [call EXCEPT ![s] = c]
    /\ UNCHANGED <<log, open, told, conflicted, replay>>

\* Such a step keeps the invariant if the new call satisfies its part of it.
LEMMA CallStepKeeps ==
    ASSUME StoredInv, NEW s \in Session, NEW c \in Call, CallStep(s, c),
           \A r \in c.rows : Grounded(r, Visible(s) \cup c.rows) /\ r.seq <= c.seq,
           \A k \in c.seen : \E b \in Visible(s) : b.key = k /\ b.seq <= c.seq,
           c.want \subseteq Keys(Visible(s)) \cup Pending(c),
           c.at \in {"count", "dedup"} => c.todo # <<>>,
           c.at = "insert" => c.todo = <<>>
    PROVE  StoredInv'
  <1>1. /\ call'[s] = c
        /\ UNCHANGED <<log, open, told, conflicted, replay>>
    BY DEF CallStep, StoredInv, EventTypeOK
  <1>2. EventTypeOK'
    BY DEF CallStep, StoredInv, EventTypeOK
  <1>3. SessionInv(s)
    BY StoredInvParts
  <1>4. Visible(s)' = Visible(s)
    BY <1>1 DEF Visible
  <1>5. SessionInv(s)'
    BY <1>1, <1>3, <1>4 DEF SessionInv, Grounded, Keys, Pending
  <1>6. Alone(s)
    BY <1>1 DEF CallStep, Alone, StoredInv, EventTypeOK
  <1>7. StreamInv'
    BY <1>1, StoredInvParts
    DEF StreamInv, Grounded, StoredOnce, Visible, ReplayMissesNothing
  <1> QED BY <1>2, <1>5, <1>6, <1>7, OthersKeep, StoredInvParts

\* An append that has not begun has nothing pending.
LEMMA NoCallLegal == NoCall \in Call /\ \A rows : Pending([NoCall EXCEPT !.rows = rows]) = Keys(rows)
  BY EmptySeq DEF NoCall, Call, Pending, Keys

\* The tail bounds every sequence that was visible when it was read.
LEMMA ReadTailKeeps ==
    ASSUME StoredInv, NEW s \in Session, NEW b \in Batches, ReadTail(s, b)
    PROVE  StoredInv'
  <1>1. PICK n \in LatestSequence(s) :
           CallStep(s, [at |-> "count", todo |-> b, want |-> {b[i] : i \in DOMAIN b},
                        seq |-> n, rows |-> {}, seen |-> Keys(Visible(s))])
    BY DEF ReadTail, CallStep
  <1> DEFINE c == [at |-> "count", todo |-> b, want |-> {b[i] : i \in DOMAIN b},
                   seq |-> n, rows |-> {}, seen |-> Keys(Visible(s))]
  <1>2. Visible(s) \subseteq Row
    BY DEF Visible, StoredInv, EventTypeOK
  <1>3. n \in Nat /\ \A r \in Visible(s) : r.seq <= n
    BY <1>2 DEF LatestSequence, Row
  <1>4. b \in Seq(Key) /\ b # <<>> /\ \A i \in DOMAIN b : b[i] \in Key
    <2>1. PICK m \in 1..MaxBatch : b \in [1..m -> Key]
      BY DEF Batches
    <2>2. m \in Nat /\ m >= 1
      BY <2>1, EventConstAssumption
    <2> QED BY <2>1, <2>2
  <1>5. Keys(Visible(s)) \subseteq Key
    BY <1>2 DEF Keys, Row
  <1>6. c \in Call
    BY <1>3, <1>4, <1>5 DEF Call
  <1>7. \A k \in c.seen : \E r \in Visible(s) : r.key = k /\ r.seq <= c.seq
    BY <1>3 DEF Keys
  <1>8. c.want \subseteq Pending(c)
    BY DEF Pending
  <1> HIDE DEF c
  <1>9. c.rows = {} /\ c.at = "count" /\ c.todo # <<>>
    BY <1>4 DEF c
  <1> QED BY <1>1, <1>6, <1>7, <1>8, <1>9, CallStepKeeps DEF c

\* The check of the limit changes only the place of its append.
LEMMA CheckLimitKeeps ==
    ASSUME StoredInv, NEW s \in Session, CheckLimit(s)
    PROVE  StoredInv'
  <1>1. SessionInv(s) /\ call[s] \in Call /\ call[s].at = "count"
    BY StoredInvParts DEF EventTypeOK, CheckLimit
  <1>2. CASE CallStep(s, NoCall)
    <2>1. NoCall \in Call /\ NoCall.rows = {} /\ NoCall.seen = {} /\ NoCall.want = {}
          /\ NoCall.at = "idle"
      BY NoCallLegal DEF NoCall
    <2> QED BY <1>2, <2>1, CallStepKeeps
  <1>3. CASE CallStep(s, [call[s] EXCEPT !.at = "dedup"])
    <2> DEFINE c == [call[s] EXCEPT !.at = "dedup"]
    <2>1. /\ c \in Call /\ c.at = "dedup" /\ c.todo = call[s].todo /\ c.rows = call[s].rows
          /\ c.seen = call[s].seen /\ c.seq = call[s].seq /\ c.want = call[s].want
      BY <1>1 DEF Call
    <2>2. Pending(c) = Pending(call[s])
      BY <2>1 DEF Pending
    <2> HIDE DEF c
    <2>3. CallStep(s, c)
      BY <1>3 DEF c
    <2> QED BY <1>1, <2>1, <2>2, <2>3, CallStepKeeps DEF SessionInv
  <1> QED BY <1>2, <1>3 DEF CheckLimit, CallStep

\* What is in a sequence is its head or in its tail.
LEMMA HeadOrTail ==
    ASSUME NEW q \in Seq(Key), q # <<>>
    PROVE  /\ Head(q) \in Key /\ Tail(q) \in Seq(Key)
           /\ \A i \in DOMAIN q :
                 q[i] = Head(q) \/ \E j \in DOMAIN Tail(q) : Tail(q)[j] = q[i]
  <1>1. /\ Head(q) \in Key /\ Tail(q) \in Seq(Key)
        /\ Len(Tail(q)) = Len(q) - 1
        /\ \A i \in 1 .. Len(Tail(q)) : Tail(q)[i] = q[i+1]
    BY HeadTailProperties
  <1>2. /\ DOMAIN q = 1 .. Len(q) /\ DOMAIN Tail(q) = 1 .. Len(Tail(q))
        /\ Len(q) \in Nat
    BY <1>1, LenProperties
  <1>3. ASSUME NEW i \in 1 .. Len(q), i # 1
        PROVE  \E j \in 1 .. Len(Tail(q)) : Tail(q)[j] = q[i]
    <2>1. i - 1 \in 1 .. Len(Tail(q)) /\ i = (i - 1) + 1
      BY <1>1, <1>2, <1>3
    <2> QED BY <1>1, <2>1
  <1>4. q[1] = Head(q)
    OBVIOUS
  <1> QED BY <1>1, <1>2, <1>3, <1>4

\* Sequence numbers grow along a batch, past the gaps of skipped keys as well.
LEMMA DedupKeeps ==
    ASSUME StoredInv, NEW s \in Session, Dedup(s)
    PROVE  StoredInv'
  <1> DEFINE c == call[s]
             row == [key |-> Head(c.todo), seq |-> c.seq + 1,
                     after |-> c.seen \cup Keys(c.rows)]
             at == IF Tail(c.todo) = <<>> THEN "insert" ELSE "dedup"
             rows == IF Head(c.todo) \in Keys(Visible(s)) THEN c.rows ELSE c.rows \cup {row}
             d == [at |-> at, todo |-> Tail(c.todo), want |-> c.want, seq |-> c.seq + 1,
                   rows |-> rows, seen |-> c.seen]
  <1>1. SessionInv(s) /\ c \in Call /\ c.at = "dedup" /\ CallStep(s, d)
    BY StoredInvParts DEF EventTypeOK, Dedup, CallStep, AlreadyLogged
  <1>2. c.todo \in Seq(Key) /\ c.todo # <<>> /\ c.seq \in Nat /\ c.rows \subseteq Row
        /\ c.seen \subseteq Key
    BY <1>1 DEF SessionInv, Call
  <1>3. Head(c.todo) \in Key /\ Tail(c.todo) \in Seq(Key)
    BY <1>2, HeadOrTail
  <1>4. \A i \in DOMAIN c.todo :
           c.todo[i] = Head(c.todo) \/ \E j \in DOMAIN Tail(c.todo) : Tail(c.todo)[j] = c.todo[i]
    BY <1>2, HeadOrTail
  <1>5. row \in Row /\ row.key = Head(c.todo) /\ row.seq = c.seq + 1
        /\ row.after = c.seen \cup Keys(c.rows)
    BY <1>2, <1>3 DEF Row, Keys
  <1>6. /\ d.at \in {"insert", "dedup"} /\ d.todo = Tail(c.todo) /\ d.seq = c.seq + 1
        /\ d.at = "dedup" <=> Tail(c.todo) # <<>>
        /\ d.seen = c.seen /\ d.want = c.want
        /\ d.rows = rows
        /\ rows \in {c.rows, c.rows \cup {row}}
        /\ Head(c.todo) \notin Keys(Visible(s)) => row \in rows
        /\ d \in Call
    <2>1. at \in {"insert", "dedup"} /\ (at = "dedup" <=> Tail(c.todo) # <<>>)
      OBVIOUS
    <2>2. rows \in {c.rows, c.rows \cup {row}} /\ (Head(c.todo) \notin Keys(Visible(s)) => row \in rows)
      OBVIOUS
    <2>3. rows \subseteq Row
      BY <1>2, <1>5, <2>2
    <2>4. c.seq + 1 \in Nat
      BY <1>2
    <2> HIDE DEF at, rows, row, c
    <2>5. c.want \in SUBSET Key /\ c.seen \in SUBSET Key
      BY <1>1 DEF Call
    <2>6. d \in Call
      BY <1>3, <2>1, <2>3, <2>4, <2>5 DEF Call
    <2> QED BY <2>1, <2>2, <2>6
  <1> HIDE DEF d, row, at, rows
  <1>7. c.rows \subseteq d.rows /\ d.rows \subseteq c.rows \cup {row}
    BY <1>6
  <1>8. \A r \in c.rows : r.seq \in Nat /\ r.seq <= c.seq
    BY <1>1, <1>2 DEF SessionInv, Row
  <1>9. \A b \in Visible(s) : b.seq \in Nat
    BY DEF Visible, StoredInv, EventTypeOK, Row
  <1>10. Grounded(row, Visible(s) \cup d.rows)
    <2> SUFFICES ASSUME NEW k \in c.seen \cup Keys(c.rows)
                 PROVE  \E b \in Visible(s) \cup d.rows : b.key = k /\ b.seq < c.seq + 1
      BY <1>5 DEF Grounded
    <2>1. CASE k \in c.seen
      BY <1>1, <1>2, <1>9, <2>1 DEF SessionInv
    <2>2. CASE k \in Keys(c.rows)
      BY <1>2, <1>7, <1>8, <2>2 DEF Keys
    <2> QED BY <2>1, <2>2
  <1>11. \A r \in d.rows : Grounded(r, Visible(s) \cup d.rows) /\ r.seq <= d.seq
    <2> SUFFICES ASSUME NEW r \in d.rows
                 PROVE  Grounded(r, Visible(s) \cup d.rows) /\ r.seq <= d.seq
      OBVIOUS
    <2>1. CASE r = row
      BY <1>2, <1>5, <1>6, <1>10, <2>1
    <2>2. CASE r \in c.rows
      <3>1. Grounded(r, Visible(s) \cup c.rows) /\ r.seq <= c.seq
        BY <1>1, <2>2 DEF SessionInv
      <3>2. Visible(s) \cup c.rows \subseteq Visible(s) \cup d.rows
        BY <1>7
      <3> QED BY <1>2, <1>6, <1>8, <2>2, <3>1, <3>2, GroundedMonotone
    <2> QED BY <1>7, <2>1, <2>2
  <1>12. \A k \in d.seen : \E b \in Visible(s) : b.key = k /\ b.seq <= d.seq
    <2> SUFFICES ASSUME NEW k \in c.seen
                 PROVE  \E b \in Visible(s) : b.key = k /\ b.seq <= c.seq + 1
      BY <1>6
    <2>1. PICK b \in Visible(s) : b.key = k /\ b.seq <= c.seq
      BY <1>1 DEF SessionInv
    <2> QED BY <1>2, <1>9, <2>1
  <1>13. d.want \subseteq Keys(Visible(s)) \cup Pending(d)
    <2>1. Head(c.todo) \in Keys(Visible(s)) \cup Keys(d.rows)
      BY <1>5, <1>6 DEF Keys
    <2>2. Keys(c.rows) \subseteq Keys(d.rows)
      BY <1>7 DEF Keys
    <2>3. Pending(c) \subseteq Keys(Visible(s)) \cup Pending(d)
      BY <1>4, <1>6, <2>1, <2>2 DEF Pending
    <2> QED BY <1>1, <1>6, <2>3 DEF SessionInv
  <1> QED BY <1>1, <1>6, <1>11, <1>12, <1>13, CallStepKeeps

\* The victim of a deadlock loses its transaction.
LEMMA DeadlockKeeps ==
    ASSUME StoredInv, NEW s \in Session, DeadlockVictim(s)
    PROVE  StoredInv'
  <1> DEFINE c == [NoCall EXCEPT !.at = "broken"]
  <1>1. c \in Call /\ c.rows = {} /\ c.seen = {} /\ c.want = {} /\ c.at = "broken"
    BY NoCallLegal DEF NoCall, Call
  <1>2. CallStep(s, c)
    BY DEF DeadlockVictim, CallStep
  <1> HIDE DEF c
  <1> QED BY <1>1, <1>2, CallStepKeeps

\* append returns: all it was asked to log is in the stream.
LEMMA ReturnKeeps ==
    ASSUME StoredInv, NEW s \in Session, Return(s)
    PROVE  StoredInv'
  <1>1. SessionInv(s) /\ EventTypeOK /\ StreamInv
    BY StoredInvParts
  <1>2. /\ call' = [call EXCEPT ![s] = NoCall] /\ told' = [told EXCEPT ![s] = @ \cup call[s].want]
        /\ call[s].at = "insert" /\ call[s].rows = {}
        /\ UNCHANGED <<log, open, conflicted, replay>>
    BY DEF Return
  <1>3. call'[s] = NoCall /\ told'[s] = told[s] \cup call[s].want
    BY <1>1, <1>2 DEF EventTypeOK
  <1>4. call[s].want \subseteq Keys(Visible(s))
    BY <1>1, <1>2 DEF SessionInv, Pending, Keys
  <1>5. call[s].want \subseteq Key
    BY <1>1 DEF EventTypeOK, Call
  <1>6. EventTypeOK'
    BY <1>1, <1>2, <1>5, NoCallLegal DEF EventTypeOK
  <1>7. Visible(s)' = Visible(s)
    BY <1>2 DEF Visible
  <1>8. SessionInv(s)'
    BY <1>1, <1>2, <1>3, <1>4, <1>7 DEF SessionInv, NoCall, Keys, Pending, Grounded
  <1>9. Alone(s)
    BY <1>1, <1>2 DEF Alone, EventTypeOK
  <1>10. StreamInv'
    BY <1>1, <1>2 DEF StreamInv, Grounded, StoredOnce, Visible, ReplayMissesNothing
  <1> QED BY <1>6, <1>8, <1>9, <1>10, OthersKeep, StoredInvParts

\* The row inserted is the lowest one left, so what grounds it is stored already;
\* nobody else has stored its key.
LEMMA InsertKeeps ==
    ASSUME StoredInv, NEW s \in Session, Insert(s)
    PROVE  StoredInv'
  <1>1. SessionInv(s) /\ EventTypeOK /\ StreamInv
    BY StoredInvParts
  <1>2. PICK r \in call[s].rows :
           /\ IsNext(s, r) /\ Insertable(s, r)
           /\ open' = [open EXCEPT ![s] = @ \cup {r}]
           /\ call' = [call EXCEPT ![s].rows = @ \ {r}]
    BY DEF Insert
  <1>3. UNCHANGED <<log, told, conflicted, replay>> /\ call[s].at = "insert"
    BY DEF Insert
  <1> DEFINE c == call[s]
             d == [c EXCEPT !.rows = c.rows \ {r}]
  <1>4. c \in Call /\ r \in Row
    BY <1>1, <1>2 DEF EventTypeOK, Call
  <1>5. /\ d \in Call /\ d.rows = c.rows \ {r} /\ d.seq = c.seq /\ d.seen = c.seen
        /\ d.want = c.want /\ d.at = c.at /\ d.todo = c.todo
    BY <1>4 DEF Call
  <1>6. open'[s] = open[s] \cup {r} /\ call'[s] = d
    BY <1>1, <1>2 DEF EventTypeOK
  <1> HIDE DEF d
  <1>7. EventTypeOK'
    <2>1. open' \in [Session -> SUBSET Row]
      BY <1>1, <1>2, <1>4 DEF EventTypeOK
    <2>2. call' = [call EXCEPT ![s] = d]
      BY <1>1, <1>2 DEF EventTypeOK, d
    <2> QED BY <1>1, <1>3, <1>5, <2>1, <2>2 DEF EventTypeOK
  <1>8. Visible(s)' = Visible(s) \cup {r}
    BY <1>3, <1>6 DEF Visible
  <1>9. \A q \in c.rows : r.seq <= q.seq /\ q.seq \in Nat
    BY <1>2, <1>4 DEF IsNext, Call, Row
  <1>10. Grounded(r, Visible(s)')
    <2>1. Grounded(r, Visible(s) \cup c.rows)
      BY <1>1 DEF SessionInv
    <2>2. \A q \in c.rows : ~(q.seq < r.seq)
      BY <1>4, <1>9 DEF Row
    <2> QED BY <1>8, <2>1, <2>2 DEF Grounded
  <1>11. SessionInv(s)'
    <2>1. \A q \in open'[s] : Grounded(q, Visible(s)')
      BY <1>1, <1>6, <1>8, <1>10, GroundedMonotone DEF SessionInv
    <2>2. \A q \in d.rows : Grounded(q, Visible(s)' \cup d.rows) /\ q.seq <= d.seq
      <3>1. Visible(s) \cup c.rows \subseteq Visible(s)' \cup d.rows
        BY <1>5, <1>8
      <3> QED BY <1>1, <1>5, <3>1, GroundedMonotone DEF SessionInv
    <2>3. \A k \in d.seen : \E b \in Visible(s)' : b.key = k /\ b.seq <= d.seq
      BY <1>1, <1>5, <1>8 DEF SessionInv
    <2>4. d.want \subseteq Keys(Visible(s)') \cup Pending(d)
      BY <1>1, <1>5, <1>8 DEF SessionInv, Keys, Pending
    <2>5. s \notin conflicted' => told'[s] \subseteq Keys(Visible(s)')
      BY <1>1, <1>3, <1>8 DEF SessionInv, Keys
    <2>6. d.at \notin {"count", "dedup"} /\ (d.at = "insert" => d.todo = <<>>)
      BY <1>1, <1>3, <1>5 DEF SessionInv
    <2> QED BY <1>6, <2>1, <2>2, <2>3, <2>4, <2>5, <2>6 DEF SessionInv, Grounded, Keys, Pending
  <1>12. Alone(s)
    BY <1>1, <1>2, <1>3 DEF Alone, EventTypeOK
  <1>13. \A t \in Session : Visible(t)' \subseteq Visible(t) \cup {r} /\ r.key \notin Keys(Visible(t))
    <2> SUFFICES ASSUME NEW t \in Session
                 PROVE  Visible(t)' \subseteq Visible(t) \cup {r} /\ r.key \notin Keys(Visible(t))
      OBVIOUS
    <2>1. r.key \notin Keys(Visible(s))
      BY <1>2 DEF Insertable
    <2>2. CASE t = s
      BY <1>8, <2>1, <2>2
    <2>3. CASE t # s
      <3>1. ~WaitsFor(s, t)
        BY DEF Insert
      <3>2. r.key \notin Keys(open[t])
        BY <1>2, <1>3, <2>3, <3>1 DEF WaitsFor
      <3>3. Visible(t)' = Visible(t)
        BY <1>3, <1>12, <2>3 DEF Alone, Visible
      <3> QED BY <2>1, <3>2, <3>3 DEF Visible, Keys
    <2> QED BY <2>2, <2>3
  <1>14. StoredOnce'
    BY <1>1, <1>3, <1>13 DEF StreamInv, StoredOnce, Keys
  <1>15. StreamInv'
    BY <1>1, <1>3, <1>14 DEF StreamInv, Grounded, ReplayMissesNothing
  <1> QED BY <1>7, <1>11, <1>12, <1>15, OthersKeep, StoredInvParts

-----------------------------------------------------------------------------
(* The ends of transactions, and the replay *)

\* A conflict gives up everything the transaction had stored.
LEMMA ConflictKeeps ==
    ASSUME StoredInv, NEW s \in Session, Conflict(s)
    PROVE  StoredInv'
  <1>1. SessionInv(s) /\ EventTypeOK /\ StreamInv
    BY StoredInvParts
  <1>2. /\ open' = [open EXCEPT ![s] = {}] /\ call' = [call EXCEPT ![s] = NoCall]
        /\ told' = [told EXCEPT ![s] = @ \cup call[s].want]
        /\ conflicted' = conflicted \cup {s}
        /\ UNCHANGED <<log, replay>>
    BY DEF Conflict
  <1>3. call[s].want \subseteq Key
    BY <1>1 DEF EventTypeOK, Call
  <1>4. EventTypeOK'
    BY <1>1, <1>2, <1>3, NoCallLegal DEF EventTypeOK
  <1>5. open'[s] = {} /\ call'[s] = NoCall /\ s \in conflicted'
    BY <1>1, <1>2 DEF EventTypeOK
  <1>6. SessionInv(s)'
    BY <1>5 DEF SessionInv, NoCall, Keys, Pending
  <1>7. Alone(s)
    BY <1>1, <1>2 DEF Alone, EventTypeOK
  <1>8. \A t \in Session : Visible(t)' \subseteq Visible(t)
    BY <1>1, <1>2 DEF Visible, EventTypeOK
  <1>9. StreamInv'
    BY <1>1, <1>2, <1>8 DEF StreamInv, Grounded, StoredOnce, ReplayMissesNothing
  <1> QED BY <1>4, <1>6, <1>7, <1>9, OthersKeep, StoredInvParts

\* A commit adds to the stream what was stored by, and so visible to, s alone; a
\* rollback forgets it.
LEMMA EndOfTxKeeps ==
    ASSUME StoredInv, NEW s \in Session, EndOfTx(s), log' \in {log, log \cup open[s]}
    PROVE  StoredInv'
  <1>1. SessionInv(s) /\ EventTypeOK /\ StreamInv
    BY StoredInvParts
  <1>2. /\ open' = [open EXCEPT ![s] = {}] /\ call' = [call EXCEPT ![s] = NoCall]
        /\ told' = [told EXCEPT ![s] = {}] /\ conflicted' = conflicted \ {s}
        /\ UNCHANGED replay
    BY DEF EndOfTx
  <1>3. log \subseteq log' /\ log' \subseteq Visible(s)
    BY DEF Visible
  <1>4. EventTypeOK'
    BY <1>1, <1>2, NoCallLegal DEF EventTypeOK
  <1>5. Alone(s)
    BY <1>1, <1>2, <1>3 DEF Alone, EventTypeOK
  <1>6. \A r \in log' : Grounded(r, log')
    <2>1. CASE log' = log
      BY <1>1, <2>1 DEF StreamInv
    <2>2. CASE log' = Visible(s)
      BY <1>1, <1>3, <2>2, GroundedMonotone DEF StreamInv, SessionInv, Visible
    <2> QED BY <2>1, <2>2 DEF Visible
  <1>7. \A t \in Session : Visible(t)' \subseteq Visible(t) \cup Visible(s)
    BY <1>1, <1>2, <1>3 DEF Visible, EventTypeOK
  <1>8. StoredOnce'
    BY <1>1, <1>3, <1>7 DEF StreamInv, StoredOnce
  <1>9. ReplayMissesNothing'
    BY <1>1, <1>2, <1>3 DEF StreamInv, ReplayMissesNothing
  <1>10. StreamInv'
    BY <1>6, <1>8, <1>9 DEF StreamInv, Grounded
  <1> QED BY <1>1, <1>4, <1>5, <1>10, FreshSession, OthersKeep, StoredInvParts

\* A page ends where the next one begins, but for rows of one sequence number.
LEMMA ReplayKeeps ==
    ASSUME StoredInv, ReplayStep
    PROVE  StoredInv'
  <1>1. EventTypeOK /\ StreamInv /\ \A s \in Session : SessionInv(s)
    BY StoredInvParts
  <1>2. UNCHANGED <<log, open, call, told, conflicted>>
    BY DEF ReplayStep, StartReplay, ReadPage
  <1>3. \A s \in Session : SessionInv(s)'
    BY <1>1, <1>2 DEF SessionInv, Visible, Grounded, Keys, Pending
  <1>4. replay' \in [at : {"idle", "reading", "done"}, from : Nat,
                     applied : SUBSET Row, goal : SUBSET Row] /\ ReplayMissesNothing'
    <2>1. CASE StartReplay
      BY <1>1, <2>1 DEF StartReplay, EventTypeOK, ReplayMissesNothing, Row
    <2>2. CASE ReadPage
      <3>0. PICK page \in SUBSET log :
               /\ IsPage(page, replay.from)
               /\ \E next \in {replay.from} \cup {r.seq + 1 : r \in page} :
                     /\ page # {} => \E r \in page : next = r.seq + 1
                     /\ \A r \in page : r.seq < next
                     /\ replay' = [replay EXCEPT
                           !.from = next, !.applied = @ \cup page,
                           !.at = IF Cardinality(page) < ReplayBatch THEN "done" ELSE @]
        BY <2>2 DEF ReadPage
      <3>1. PICK next \in {replay.from} \cup {r.seq + 1 : r \in page} :
               /\ IsPage(page, replay.from)
               /\ page # {} => \E r \in page : next = r.seq + 1
               /\ \A r \in page : r.seq < next
               /\ replay' = [replay EXCEPT
                     !.from = next, !.applied = @ \cup page,
                     !.at = IF Cardinality(page) < ReplayBatch THEN "done" ELSE @]
        BY <3>0
      <3> DEFINE short == Cardinality(page) < ReplayBatch
                 rest == {r \in log : r.seq >= replay.from}
      <3>2. replay.at = "reading" /\ replay.from \in Nat
        BY <1>1, <2>2 DEF ReadPage, EventTypeOK
      <3>3. /\ page \subseteq rest
            /\ page = rest \/ Cardinality(page) = ReplayBatch
            /\ \A r \in page, q \in rest \ page : r.seq <= q.seq
        BY <3>1 DEF IsPage
      <3>4. short => page = rest
        BY <3>3, EventConstAssumption
      <3>5. \A r \in log : r.seq \in Nat
        BY <1>1 DEF EventTypeOK, Row
      <3>6. next \in Nat
        BY <3>1, <3>2, <3>5
      <3>7. /\ replay'.from = next /\ replay'.applied = replay.applied \cup page
            /\ replay'.goal = replay.goal
            /\ replay'.at = IF short THEN "done" ELSE "reading"
        BY <1>1, <3>1, <3>2 DEF EventTypeOK
      <3>8. replay' \in [at : {"idle", "reading", "done"}, from : Nat,
                         applied : SUBSET Row, goal : SUBSET Row]
        BY <1>1, <3>1, <3>2, <3>6, <3>7 DEF EventTypeOK
      <3>9. ASSUME NEW r \in replay.goal
            PROVE  \/ r \in replay'.applied \/ \E q \in replay'.applied : q.seq = r.seq
                   \/ replay'.at = "reading" /\ r.seq >= next
        <4>1. r \in log
          BY <1>1 DEF StreamInv, ReplayMissesNothing
        <4>2. CASE r \in replay.applied \/ \E q \in replay.applied : q.seq = r.seq
          BY <3>7, <4>2
        <4>3. CASE r \in page
          BY <3>7, <4>3
        <4>4. CASE r \in rest \ page
          <5>1. ~short
            BY <3>4, <4>4
          <5>2. CASE page = {}
            BY <3>1, <3>7, <4>4, <5>1, <5>2
          <5>3. CASE page # {}
            <6>1. PICK q \in page : next = q.seq + 1
              BY <3>1, <5>3
            <6>2. q.seq <= r.seq /\ q.seq \in Nat /\ r.seq \in Nat
              BY <3>3, <3>5, <4>4
            <6> QED BY <3>7, <5>1, <6>1, <6>2
          <5> QED BY <5>2, <5>3
        <4>5. r \in rest \/ r \in replay.applied \/ \E q \in replay.applied : q.seq = r.seq
          BY <1>1, <4>1 DEF StreamInv, ReplayMissesNothing
        <4> QED BY <4>2, <4>3, <4>4, <4>5
      <3>10. replay'.applied \subseteq log' /\ replay'.goal \subseteq log'
        BY <1>1, <1>2, <3>7 DEF StreamInv, ReplayMissesNothing
      <3> QED BY <3>7, <3>8, <3>9, <3>10 DEF ReplayMissesNothing
    <2> QED BY <2>1, <2>2 DEF ReplayStep
  <1>5. EventTypeOK'
    BY <1>1, <1>2, <1>4 DEF EventTypeOK
  <1>6. StreamInv'
    BY <1>1, <1>2, <1>4 DEF StreamInv, Grounded, StoredOnce, Visible
  <1> QED BY <1>3, <1>5, <1>6, StoredInvParts

-----------------------------------------------------------------------------
(* All steps *)

\* An empty log and no append under way.
LEMMA InitStoredInv == EventInit => StoredInv
  <1> SUFFICES ASSUME EventInit PROVE StoredInv
    OBVIOUS
  <1>1. EventTypeOK
    BY NoCallLegal DEF EventInit, EventTypeOK, NoReplay
  <1>2. StreamInv
    BY DEF EventInit, StreamInv, StoredOnce, Visible, ReplayMissesNothing, NoReplay
  <1>3. \A s \in Session : SessionInv(s)
    BY DEF EventInit, SessionInv, NoCall, Keys, Pending
  <1> QED BY <1>1, <1>2, <1>3, StoredInvParts

\* Every step of the event log keeps the invariant.
LEMMA NextStoredInv == StoredInv /\ [EventNext]_evars => StoredInv'
  <1> SUFFICES ASSUME StoredInv, [EventNext]_evars PROVE StoredInv'
    OBVIOUS
  <1>1. CASE ReplayStep
    BY <1>1, ReplayKeeps
  <1>2. CASE \E s \in Session : WriterStep(s)
    <2> PICK s \in Session : WriterStep(s)
      BY <1>2
    <2>1. CASE \E b \in Batches : ReadTail(s, b)
      BY <2>1, ReadTailKeeps
    <2>2. CASE AppendStep(s)
      BY <2>2, CheckLimitKeeps, DedupKeeps, InsertKeeps, ReturnKeeps, ConflictKeeps,
         DeadlockKeeps DEF AppendStep
    <2>3. CASE Commit(s) \/ Rollback(s)
      BY <2>3, EndOfTxKeeps DEF Commit, Rollback
    <2> QED BY <2>1, <2>2, <2>3 DEF WriterStep
  <1>3. CASE UNCHANGED evars
    <2>1. UNCHANGED <<log, open, call, told, conflicted, replay>>
      BY <1>3 DEF evars
    <2>2. EventTypeOK' /\ StreamInv'
      BY <2>1, StoredInvParts
      DEF EventTypeOK, StreamInv, Grounded, StoredOnce, Visible, ReplayMissesNothing
    <2>3. \A s \in Session : SessionInv(s)'
      BY <2>1, StoredInvParts DEF SessionInv, Visible, Grounded, Keys, Pending
    <2> QED BY <2>2, <2>3, StoredInvParts
  <1> QED BY <1>1, <1>2, <1>3 DEF EventNext

-----------------------------------------------------------------------------
(* The order of one transaction's events *)

\* What TransactionsInOrder says of one session.
InOrder(s) ==
    /\ \A a, b \in Written(s) : a.seq = b.seq => a = b
    /\ call[s].at \in {"count", "dedup", "insert"} =>
          \A r \in Written(s) : r.seq <= call[s].seq

\* The rows of a session are typed.
LEMMA WrittenTyped ==
    ASSUME EventTypeOK, NEW s \in Session
    PROVE  /\ Written(s) \subseteq Row /\ call[s] \in Call
           /\ \A r \in Written(s) : r.seq \in Nat
  BY DEF EventTypeOK, Written, Call, Row

\* A session that holds no more rows than before, and is not about to store any, or has
\* the count it had.
LEMMA FewerInOrder ==
    ASSUME NEW s \in Session, InOrder(s), Written(s)' \subseteq Written(s),
           \/ call'[s].at \notin {"count", "dedup", "insert"}
           \/ /\ call[s].at \in {"count", "dedup", "insert"}
              /\ call'[s].seq = call[s].seq
    PROVE  InOrder(s)'
  <1>1. \A a, b \in Written(s)' : a.seq = b.seq => a = b
    BY DEF InOrder
  <1>2. call'[s].at \in {"count", "dedup", "insert"} =>
           \A r \in Written(s)' : r.seq <= call'[s].seq
    BY DEF InOrder
  <1> QED BY <1>1, <1>2 DEF InOrder

\* A new append counts on from the highest of the transaction's rows, committed or not.
LEMMA ReadTailInOrder ==
    ASSUME StoredInv, NEW s \in Session, InOrder(s), NEW b \in Batches, ReadTail(s, b)
    PROVE  InOrder(s)'
  <1>1. PICK n \in LatestSequence(s) :
           call' = [call EXCEPT ![s] =
             [at |-> "count", todo |-> b, want |-> {b[i] : i \in DOMAIN b},
              seq |-> n, rows |-> {}, seen |-> Keys(Visible(s))]]
    BY DEF ReadTail
  <1>2. call'[s].seq = n /\ call'[s].rows = {} /\ open' = open
    BY <1>1 DEF ReadTail, StoredInv, EventTypeOK
  <1>3. Written(s)' = open[s]
    BY <1>2 DEF Written
  <1>4. \A r \in Written(s)' : r.seq <= call'[s].seq
    BY <1>2, <1>3 DEF LatestSequence, Visible
  <1>5. \A x, y \in Written(s)' : x.seq = y.seq => x = y
    BY <1>3 DEF InOrder, Written
  <1> QED BY <1>4, <1>5 DEF InOrder

\* The next number is above all that the transaction has used.
LEMMA DedupInOrder ==
    ASSUME StoredInv, NEW s \in Session, InOrder(s), Dedup(s)
    PROVE  InOrder(s)'
  <1> DEFINE c == call[s]
             row == [key |-> Head(c.todo), seq |-> c.seq + 1,
                     after |-> c.seen \cup Keys(c.rows)]
  <1>1. call[s].at = "dedup" /\ call[s].seq \in Nat /\ \A r \in Written(s) : r.seq \in Nat
    BY WrittenTyped DEF StoredInv, Dedup, Call
  <1>2. /\ call'[s].seq = c.seq + 1 /\ open' = open
        /\ call'[s].rows \in {c.rows, c.rows \cup {row}}
    BY DEF Dedup, StoredInv, EventTypeOK
  <1>3. row.seq = c.seq + 1
    OBVIOUS
  <1> HIDE DEF row
  <1>4. Written(s)' \subseteq Written(s) \cup {row}
    BY <1>2 DEF Written
  <1>5. \A r \in Written(s) : r.seq <= c.seq
    BY <1>1 DEF InOrder
  <1>6. \A a, b \in Written(s)' : a.seq = b.seq => a = b
    BY <1>1, <1>3, <1>4, <1>5 DEF InOrder
  <1>7. \A r \in Written(s)' : r.seq <= call'[s].seq
    BY <1>1, <1>2, <1>3, <1>4, <1>5
  <1> QED BY <1>6, <1>7 DEF InOrder

\* A step that only shrinks what a session has, or moves a row from one side to the other.
LEMMA OtherStepsInOrder ==
    ASSUME StoredInv, NEW s \in Session, InOrder(s),
           \/ CheckLimit(s) \/ Insert(s) \/ Return(s) \/ Conflict(s) \/ DeadlockVictim(s)
           \/ EndOfTx(s)
    PROVE  InOrder(s)'
  <1> USE DEF StoredInv, EventTypeOK
  <1>1. CASE CheckLimit(s)
    <2>1. call'[s] = NoCall \/ call'[s] = [call[s] EXCEPT !.at = "dedup"]
      BY <1>1 DEF CheckLimit
    <2>2. call[s] \in Call /\ call[s].at = "count"
      BY <1>1 DEF CheckLimit
    <2>3. \/ call'[s].rows = {} /\ call'[s].at = "idle"
          \/ call'[s].rows = call[s].rows /\ call'[s].seq = call[s].seq
      BY <2>1, <2>2 DEF NoCall, Call
    <2>4. Written(s)' \subseteq Written(s)
      BY <1>1, <2>3 DEF CheckLimit, Written
    <2> QED BY <2>2, <2>3, <2>4, FewerInOrder
  <1>2. CASE Insert(s)
    <2>1. PICK r \in call[s].rows :
             /\ open' = [open EXCEPT ![s] = @ \cup {r}]
             /\ call' = [call EXCEPT ![s].rows = @ \ {r}]
      BY <1>2 DEF Insert
    <2>2. call[s] \in Call /\ call[s].at = "insert"
      BY <1>2 DEF Insert
    <2>3. call'[s].rows = call[s].rows \ {r} /\ call'[s].seq = call[s].seq
      BY <2>1, <2>2 DEF Call
    <2>4. open'[s] = open[s] \cup {r}
      BY <2>1
    <2>5. Written(s)' \subseteq Written(s)
      BY <2>3, <2>4 DEF Written
    <2> QED BY <2>2, <2>3, <2>5, FewerInOrder
  <1>3. CASE Return(s) \/ Conflict(s) \/ EndOfTx(s)
    <2>1. call'[s] = NoCall /\ open'[s] \subseteq open[s]
      BY <1>3 DEF Return, Conflict, EndOfTx
    <2>2. call'[s].at = "idle" /\ call'[s].rows = {}
      BY <2>1 DEF NoCall
    <2>3. Written(s)' \subseteq Written(s)
      BY <2>1, <2>2 DEF Written
    <2> QED BY <2>2, <2>3, FewerInOrder
  <1>4. CASE DeadlockVictim(s)
    <2>1. call'[s] = [NoCall EXCEPT !.at = "broken"] /\ open' = open
      BY <1>4 DEF DeadlockVictim
    <2>2. call'[s].at = "broken" /\ call'[s].rows = {}
      BY <2>1 DEF NoCall
    <2>3. Written(s)' \subseteq Written(s)
      BY <2>1, <2>2 DEF Written
    <2> QED BY <2>2, <2>3, FewerInOrder
  <1> QED BY <1>1, <1>2, <1>3, <1>4

\* A step of one session leaves the others as they are.
LEMMA StepIsLocal ==
    ASSUME StoredInv, NEW s \in Session, WriterStep(s), NEW t \in Session, t # s
    PROVE  open'[t] = open[t] /\ call'[t] = call[t]
  BY DEF StoredInv, EventTypeOK, WriterStep, ReadTail, AppendStep, CheckLimit, Dedup, Insert,
         Return, Conflict, DeadlockVictim, Commit, Rollback, EndOfTx

\* Every step keeps each transaction in order.
LEMMA NextInOrder == EventInv /\ [EventNext]_evars => TransactionsInOrder'
  <1> SUFFICES ASSUME EventInv, [EventNext]_evars, NEW s \in Session PROVE InOrder(s)'
    BY DEF TransactionsInOrder, InOrder
  <1>1. StoredInv /\ InOrder(s)
    BY DEF EventInv, TransactionsInOrder, InOrder
  <1>2. CASE UNCHANGED <<open, call>>
    BY <1>1, <1>2 DEF InOrder, Written
  <1>3. ASSUME NEW t \in Session, WriterStep(t) PROVE InOrder(s)'
    <2>1. CASE t # s
      <3>1. open'[s] = open[s] /\ call'[s] = call[s]
        BY <1>1, <1>3, <2>1, StepIsLocal
      <3> QED BY <1>1, <3>1 DEF InOrder, Written
    <2>2. CASE t = s
      BY <1>1, <1>3, <2>2, ReadTailInOrder, DedupInOrder, OtherStepsInOrder
      DEF WriterStep, AppendStep, Commit, Rollback
    <2> QED BY <2>1, <2>2
  <1>4. ReplayStep => UNCHANGED <<open, call>>
    BY DEF ReplayStep, StartReplay, ReadPage
  <1> QED BY <1>2, <1>3, <1>4 DEF EventNext, evars

-----------------------------------------------------------------------------
(* The theorems *)

(* The stream keeps its inductive invariant (event_log.py).                 *)
THEOREM EventInvariant == EventSpec => []EventInv
  <1>1. EventInit => EventInv
    BY InitStoredInv DEF EventInit, EventInv, TransactionsInOrder, Written, NoCall
  <1>2. EventInv /\ [EventNext]_evars => EventInv'
    BY NextStoredInv, NextInOrder DEF EventInv
  <1> QED BY <1>1, <1>2, PTL DEF EventSpec

(* The stream is causally closed, and its sequence respects causality.      *)
THEOREM StreamIsCausal == EventSpec => []CausalOrder
  <1>1. EventInv => CausalOrder
    BY DEF EventInv, StoredInv, RowsGrounded, Grounded, CausalOrder
  <1> QED BY <1>1, EventInvariant, PTL

(* No two events of the stream have one idempotency key.                    *)
THEOREM StreamHoldsKeysOnce == EventSpec => []EventOncePerKey
  <1>1. EventInv => EventOncePerKey
    BY DEF EventInv, StoredInv, StoredOnce, EventOncePerKey
  <1> QED BY <1>1, EventInvariant, PTL

(* A transaction without a conflict logs, by committing, whatever its       *)
(* appends returned from.                                                   *)
THEOREM CommitLogs == EventSpec => CommittedMeansLogged
  <1>1. EventInv => (\A s \in Session :
          (Commit(s) /\ s \notin conflicted) => told[s] \subseteq Keys(log'))
    BY DEF EventInv, StoredInv, AskedIsAccountedFor, Visible, Commit, Keys
  <1> QED BY <1>1, EventInvariant, PTL DEF CommittedMeansLogged

(* A finished replay missed nothing but events that share a sequence number *)
(* with one it applied.                                                     *)
THEOREM ReplayIsComplete == EventSpec => []ReplayComplete
  <1>1. EventInv => ReplayComplete
    BY DEF EventInv, StoredInv, ReplayMissesNothing, ReplayComplete
  <1> QED BY <1>1, EventInvariant, PTL

-----------------------------------------------------------------------------
(* The event log implements its abstract specification *)

\* A transaction's rows, when it commits them: nobody else's, in order, and grounded.
LEMMA CommitAppends ==
    ASSUME EventInv, NEW s \in Session, Commit(s)
    PROVE  Stream!Next
  <1> DEFINE new == log' \ log
  <1>1. log' = log \cup open[s] /\ new \subseteq open[s] /\ log \cup new = Visible(s)
    BY DEF Commit, Visible
  <1>2. \A a, b \in new : a.key = b.key \/ a.seq = b.seq => a = b
    BY <1>1 DEF EventInv, StoredInv, StoredOnce, TransactionsInOrder, Written, Visible
  <1>3. \A a \in new, b \in log : a.key # b.key
    BY <1>1 DEF EventInv, StoredInv, StoredOnce, Visible
  <1>4. \A r \in new : Stream!After(r, log \cup new)
    BY <1>1 DEF EventInv, StoredInv, RowsGrounded, Grounded, Stream!After
  <1> QED BY <1>1, <1>2, <1>3, <1>4 DEF Stream!Next, Stream!Append

(* For any sessions that append at once, and any conflicts, deadlocks and   *)
(* rollbacks, a run's events are a stream of whole, new and ordered         *)
(* transactions (append, event_log.py).                                     *)
THEOREM LogImplementsStream == EventSpec => ImplementsStream
  <1>1. EventInit => Stream!Init
    BY DEF EventInit, Stream!Init
  <1>2. EventInv /\ [EventNext]_evars => [Stream!Next]_log
    <2>1. ASSUME EventInv, NEW s \in Session, Commit(s) PROVE Stream!Next
      BY <2>1, CommitAppends
    <2>2. ASSUME [EventNext]_evars, ~\E s \in Session : Commit(s) PROVE UNCHANGED log
      BY <2>2 DEF EventNext, ReplayStep, StartReplay, ReadPage, WriterStep, ReadTail,
             AppendStep, CheckLimit, Dedup, Insert, Return, Conflict, DeadlockVictim,
             Rollback, evars
    <2> QED BY <2>1, <2>2
  <1> QED BY <1>1, <1>2, EventInvariant, PTL DEF EventSpec, ImplementsStream, Stream!Spec
=============================================================================
