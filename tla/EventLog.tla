------------------------------ MODULE EventLog ------------------------------
(***************************************************************************)
(* The event stream of ONE run: rows of substrate_events, the sessions     *)
(* that append to it (the executor's, the abort API's, the HITL workers',  *)
(* the lease reclaimer's: all of them can be open at once), and one replay *)
(* of the stream by ReplayEngine.rebuild_state.                            *)
(*                                                                         *)
(* EventLog.append is several statements of a READ COMMITTED transaction   *)
(* that its caller ends: the tail is read, the rows are counted, the       *)
(* idempotency key of each event is looked up, and the rows that remain    *)
(* are flushed.  Other sessions move between any two of them.  An event is *)
(* its idempotency key here; its content matters to none of this.          *)
(***************************************************************************)
EXTENDS Naturals, Sequences, FiniteSets

CONSTANTS
    Session,       \* database sessions that append to the run
    Key,           \* idempotency keys
    MaxBatch,      \* bound on the events of one append
    MaxEvents,     \* MAX_EVENTS_PER_RUN
    ReplayBatch    \* REPLAY_BATCH_SIZE

ASSUME EventConstAssumption ==
    /\ MaxBatch \in Nat \ {0}
    /\ MaxEvents \in Nat
    /\ ReplayBatch \in Nat \ {0}

\* after: the keys the appender knew to be in the stream before this event.
Row == [key : Key, seq : Nat \ {0}, after : SUBSET Key]

VARIABLES
    log,          \* committed rows
    open,         \* [Session -> rows flushed in the open transaction]
    call,         \* [Session -> the append under way]
    told,         \* [Session -> keys whose append returned in this transaction]
    conflicted,   \* sessions whose append met an IntegrityError in this transaction
    replay        \* the replay

evars == <<log, open, call, told, conflicted, replay>>

Keys(rows) == {r.key : r \in rows}
Visible(s) == log \cup open[s]

\* No caller lists one event twice in one call.
Batches == {b \in UNION {[1..n -> Key] : n \in 1..MaxBatch} :
              \A i, j \in DOMAIN b : b[i] = b[j] => i = j}

NoCall == [at |-> "idle", todo |-> <<>>, want |-> {}, seq |-> 0, rows |-> {}, seen |-> {}]
NoReplay == [at |-> "idle", from |-> 0, applied |-> {}, goal |-> {}]

\* An append under way.
Call ==
    [at   : {"idle", "count", "dedup", "insert", "broken"},
     todo : Seq(Key),       \* events not looked up yet
     want : SUBSET Key,     \* what this append was asked to log
     seq  : Nat,            \* sequence of the last event looked up
     rows : SUBSET Row,     \* rows added to the session, not flushed
     seen : SUBSET Key]     \* keys in the stream when the tail was read

EventTypeOK ==
    /\ log \in SUBSET Row
    /\ open \in [Session -> SUBSET Row]
    /\ call \in [Session -> Call]
    /\ told \in [Session -> SUBSET Key]
    /\ conflicted \in SUBSET Session
    /\ replay \in [at : {"idle", "reading", "done"}, from : Nat,
                   applied : SUBSET Row, goal : SUBSET Row]

EventInit ==
    /\ log = {}
    /\ open = [s \in Session |-> {}]
    /\ call = [s \in Session |-> NoCall]
    /\ told = [s \in Session |-> {}]
    /\ conflicted = {}
    /\ replay = NoReplay

-----------------------------------------------------------------------------
(* append() *)

\* Mutation of LatestSequence: the committed tail.
CommittedTail(s) ==
    {n \in {0} \cup {r.seq : r \in log} : \A r \in log : r.seq <= n}

\* get_latest_sequence, the first statement: the highest sequence it can see.
LatestSequence(s) ==
    {n \in {0} \cup {r.seq : r \in Visible(s)} : \A r \in Visible(s) : r.seq <= n}

ReadTail(s, b) ==
    /\ call[s].at = "idle"
    /\ \E n \in LatestSequence(s) :
          call' = [call EXCEPT ![s] =
             [at |-> "count", todo |-> b, want |-> {b[i] : i \in DOMAIN b},
              seq |-> n, rows |-> {}, seen |-> Keys(Visible(s))]]
    /\ UNCHANGED <<log, open, told, conflicted, replay>>

\* The ValueError of a full run leaves the transaction as it is.
CheckLimit(s) ==
    /\ call[s].at = "count"
    /\ call' = [call EXCEPT ![s] =
          IF Cardinality(Visible(s)) + Len(@.todo) > MaxEvents
          THEN NoCall ELSE [@ EXCEPT !.at = "dedup"]]
    /\ UNCHANGED <<log, open, told, conflicted, replay>>

\* The lookup of _idempotency_key_exists.  Its mutation also sees what other
\* sessions have not committed.
FindsUncommitted(s, k) == k \in Keys(log) \cup UNION {Keys(open[t]) : t \in Session}
AlreadyLogged(s, k) == k \in Keys(Visible(s))

\* One turn of the loop: a key already in the stream is skipped, and leaves a gap.
Dedup(s) ==
    LET c == call[s]
        row == [key |-> Head(c.todo), seq |-> c.seq + 1,
                after |-> c.seen \cup Keys(c.rows)]
    IN
    /\ c.at = "dedup"
    /\ call' = [call EXCEPT ![s] =
          [at   |-> IF Tail(c.todo) = <<>> THEN "insert" ELSE "dedup",
           todo |-> Tail(c.todo), want |-> c.want, seq |-> c.seq + 1,
           rows |-> IF AlreadyLogged(s, Head(c.todo)) THEN c.rows ELSE c.rows \cup {row},
           seen |-> c.seen]]
    /\ UNCHANGED <<log, open, told, conflicted, replay>>

\* The rows go in in order.  A key in another session's open transaction makes
\* the INSERT wait for the end of that transaction.
IsNext(s, r) == r \in call[s].rows /\ \A q \in call[s].rows : r.seq <= q.seq
WaitsFor(s, t) ==
    /\ s # t /\ call[s].at = "insert"
    /\ \E r \in call[s].rows : IsNext(s, r) /\ r.key \in Keys(open[t])
\* Mutation of Insertable: no unique index on the idempotency key.
InsertableAlways(s, r) == TRUE
Insertable(s, r) == r.key \notin Keys(Visible(s))

Insert(s) ==
    /\ call[s].at = "insert"
    /\ ~ \E t \in Session : WaitsFor(s, t)
    /\ \E r \in call[s].rows :
          /\ IsNext(s, r) /\ Insertable(s, r)
          /\ open' = [open EXCEPT ![s] = @ \cup {r}]
          /\ call' = [call EXCEPT ![s].rows = @ \ {r}]
    /\ UNCHANGED <<log, told, conflicted, replay>>

Return(s) ==
    /\ call[s].at = "insert" /\ call[s].rows = {}
    /\ told' = [told EXCEPT ![s] = @ \cup call[s].want]
    /\ call' = [call EXCEPT ![s] = NoCall]
    /\ UNCHANGED <<log, open, conflicted, replay>>

\* The IntegrityError: the session is rolled back, everything the caller did
\* before included, and append returns [] as if all had been logged already.
Conflict(s) ==
    /\ call[s].at = "insert"
    /\ ~ \E t \in Session : WaitsFor(s, t)
    /\ \E r \in call[s].rows : IsNext(s, r) /\ ~Insertable(s, r)
    /\ open' = [open EXCEPT ![s] = {}]
    /\ told' = [told EXCEPT ![s] = @ \cup call[s].want]
    /\ conflicted' = conflicted \cup {s}
    /\ call' = [call EXCEPT ![s] = NoCall]
    /\ UNCHANGED <<log, replay>>

\* PostgreSQL ends a deadlock by failing one of the statements in the cycle.  The
\* error is no IntegrityError: it leaves append, and the transaction is dead.
DeadlockVictim(s) ==
    /\ \E C \in SUBSET Session :
          s \in C /\ \A t \in C : \E u \in C, v \in C : WaitsFor(t, u) /\ WaitsFor(v, t)
    /\ call' = [call EXCEPT ![s] = [NoCall EXCEPT !.at = "broken"]]
    /\ UNCHANGED <<log, open, told, conflicted, replay>>

-----------------------------------------------------------------------------
(* The callers end their transactions *)

EndOfTx(s) ==
    /\ open' = [open EXCEPT ![s] = {}]
    /\ told' = [told EXCEPT ![s] = {}]
    /\ conflicted' = conflicted \ {s}
    /\ call' = [call EXCEPT ![s] = NoCall]
    /\ UNCHANGED replay

Commit(s) ==
    /\ call[s].at = "idle" /\ told[s] # {}
    /\ log' = log \cup open[s]
    /\ EndOfTx(s)

\* An exception, a cancelled task or a crash, wherever append is.
Rollback(s) ==
    /\ call[s].at # "idle" \/ told[s] # {}
    /\ log' = log
    /\ EndOfTx(s)

-----------------------------------------------------------------------------
(* rebuild_state: pages of get_events, each a snapshot of its own *)

StartReplay ==
    /\ replay.at = "idle"
    /\ replay' = [at |-> "reading", from |-> 0, applied |-> {}, goal |-> log]
    /\ UNCHANGED <<log, open, call, told, conflicted>>

\* Mutation of IsPage: no ORDER BY.
AnyPage(page, from) ==
    LET rest == {r \in log : r.seq >= from} IN
    /\ page \subseteq rest
    /\ page = rest \/ Cardinality(page) = ReplayBatch
    /\ Cardinality(page) <= ReplayBatch

\* ORDER BY sequence LIMIT ReplayBatch.
IsPage(page, from) ==
    LET rest == {r \in log : r.seq >= from} IN
    /\ page \subseteq rest
    /\ page = rest \/ Cardinality(page) = ReplayBatch
    /\ Cardinality(page) <= ReplayBatch
    /\ \A r \in page, q \in rest \ page : r.seq <= q.seq

ReadPage ==
    /\ replay.at = "reading"
    /\ \E page \in SUBSET log :
          /\ IsPage(page, replay.from)
          /\ \E next \in {replay.from} \cup {r.seq + 1 : r \in page} :
                /\ page # {} => \E r \in page : next = r.seq + 1
                /\ \A r \in page : r.seq < next
                /\ replay' = [replay EXCEPT
                      !.from = next, !.applied = @ \cup page,
                      !.at = IF Cardinality(page) < ReplayBatch THEN "done" ELSE @]
    /\ UNCHANGED <<log, open, call, told, conflicted>>

AppendStep(s) ==
    \/ CheckLimit(s) \/ Dedup(s) \/ Insert(s) \/ Return(s)
    \/ Conflict(s) \/ DeadlockVictim(s)

WriterStep(s) ==
    \/ \E b \in Batches : ReadTail(s, b)
    \/ AppendStep(s) \/ Commit(s) \/ Rollback(s)

ReplayStep == StartReplay \/ ReadPage

EventNext == ReplayStep \/ \E s \in Session : WriterStep(s)

EventSpec == EventInit /\ [][EventNext]_evars

\* The writers alone.
WriterSpec == EventInit /\ [][\E s \in Session : WriterStep(s)]_evars

-----------------------------------------------------------------------------
(* Properties *)

(* The stream is causally closed and its sequence respects causality: every *)
(* event that was in the stream when another one was appended is in the     *)
(* stream for good and has a lower sequence, whatever concurrent appends,   *)
(* gaps and rollbacks there were (append, event_log.py; replay applies the  *)
(* events in this order).                                                   *)
CausalOrder ==
    \A a \in log : \A k \in a.after : \E b \in log : b.key = k /\ b.seq < a.seq

Stream == INSTANCE EventStream

(* The stream only grows, and does so by whole transactions: their events   *)
(* are new, although each lookup can be out of date when its insert comes;  *)
(* numbered without ties, whatever gaps duplicates leave; and above all     *)
(* that their appender knew (append, event_log.py; its callers commit).     *)
ImplementsStream == Stream!Spec

(* An idempotency key is in the stream at most once, although the lookup    *)
(* that precedes the insert can be out of date (append, event_log.py).      *)
EventOncePerKey ==
    \A a, b \in log : a.key = b.key => a = b

(* What append returned from is in the stream once its caller commits, also *)
(* when it was skipped because somebody else had logged it: unless one of   *)
(* the transaction's appends ran into an IntegrityError (append).           *)
CommittedMeansLogged ==
    [][\A s \in Session :
          (Commit(s) /\ s \notin conflicted) => told[s] \subseteq Keys(log')]_evars

(* A finished replay has applied every event committed before it began, but *)
(* for events that share their sequence with one it applied: they can fall  *)
(* off the edge of a page (rebuild_state, replay_engine.py).                *)
ReplayComplete ==
    replay.at = "done" =>
        \A r \in replay.goal :
            r \in replay.applied \/ \E q \in replay.applied : q.seq = r.seq

-----------------------------------------------------------------------------
(* The inductive invariant behind the safety properties *)

Grounded(r, rows) == \A k \in r.after : \E b \in rows : b.key = k /\ b.seq < r.seq

\* What a row was appended after stays wherever the row goes, and below it.
RowsGrounded ==
    /\ \A r \in log : Grounded(r, log)
    /\ \A s \in Session :
          /\ \A r \in open[s] : Grounded(r, Visible(s))
          /\ \A r \in call[s].rows :
                Grounded(r, Visible(s) \cup call[s].rows) /\ r.seq <= call[s].seq
          /\ \A k \in call[s].seen :
                \E b \in Visible(s) : b.key = k /\ b.seq <= call[s].seq

\* No two stored rows, committed or not, have one key.
StoredOnce ==
    /\ \A a, b \in log : a.key = b.key => a = b
    /\ \A s, t \in Session : \A a \in Visible(s), b \in Visible(t) : a.key = b.key => a = b

\* The keys an append has been asked for and has neither found nor stored yet.
Pending(c) == Keys(c.rows) \cup {c.todo[i] : i \in DOMAIN c.todo}

AskedIsAccountedFor ==
    \A s \in Session :
        /\ call[s].want \subseteq Keys(Visible(s)) \cup Pending(call[s])
        /\ call[s].at \in {"count", "dedup"} => call[s].todo # <<>>
        /\ call[s].at = "insert" => call[s].todo = <<>>
        /\ s \notin conflicted => told[s] \subseteq Keys(Visible(s))

ReplayMissesNothing ==
    /\ replay.applied \subseteq log /\ replay.goal \subseteq log
    /\ \A r \in replay.goal :
          \/ r \in replay.applied \/ \E q \in replay.applied : q.seq = r.seq
          \/ replay.at = "reading" /\ r.seq >= replay.from

StoredInv ==
    /\ EventTypeOK
    /\ RowsGrounded
    /\ StoredOnce
    /\ AskedIsAccountedFor
    /\ ReplayMissesNothing

\* What a session has stored and what it is about to, over all of its appends.
Written(s) == open[s] \cup call[s].rows

\* One transaction uses each sequence number once, and counts on from the highest.
TransactionsInOrder ==
    \A s \in Session :
        /\ \A a, b \in Written(s) : a.seq = b.seq => a = b
        /\ call[s].at \in {"count", "dedup", "insert"} =>
              \A r \in Written(s) : r.seq <= call[s].seq

(* The stream's inductive invariant: type correctness, and the five facts   *)
(* above (append, event_log.py; rebuild_state, replay_engine.py).           *)
EventInv == StoredInv /\ TransactionsInOrder
=============================================================================
