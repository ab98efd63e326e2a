-------------------------- MODULE IdempotentRequest --------------------------
(***************************************************************************)
(* Retried mutations of the v2 API under one Idempotency-Key (one user,    *)
(* method and path): the dependency idempotency(), the command it guards,  *)
(* and the middleware that stores the response afterwards.                 *)
(*                                                                         *)
(* The dependency and the command share a session: the key's row becomes   *)
(* durable with the command's first commit, and goes when the command      *)
(* fails before it.  The response is stored by a second transaction, after *)
(* the client has been answered.  The row has a unique index, so that an   *)
(* INSERT waits for whoever else has written it.                           *)
(***************************************************************************)
EXTENDS Integers, FiniteSets

CONSTANTS
    Request,    \* the requests under the key: the first one and its retries
    Payload,    \* what each request asks for (the hash of its body)
    TTL,        \* lifetime of the key's row
    MaxClock,   \* bound on the clock
    Nothing     \* no row, no response, no answer, nobody

ASSUME RequestAssumption ==
    /\ TTL \in Nat
    /\ MaxClock \in Nat
    /\ Nothing \notin Request

VARIABLES
    clock,
    row,      \* the committed row of the key
    lock,     \* the request whose open transaction has written the row
    work,     \* the row as that transaction sees it
    pc, now,  \* its place, and the clock when it looked the key up
    seen,     \* the row it found then
    answer,   \* what its client was told
    effects,  \* the commands that were committed, and when they looked the key up
    torn      \* the requests whose transaction was undone in the middle

vars == <<clock, row, lock, work, pc, now, seen, answer, effects, torn>>

\* A row is known by the request that inserted it.
Row == [id : Request, at : Nat, response : Request \cup {Nothing}]

NoRow == [id |-> Nothing]

Answer == [kind : {"own", "error", "conflict"}]
            \cup [kind : {"replay"}, of : Request, response : Request \cup {Nothing}]

TypeOK ==
    /\ clock \in 0..MaxClock
    /\ row \in Row \cup {NoRow}
    /\ lock \in Request \cup {Nothing}
    /\ work \in Row \cup {NoRow}
    /\ pc \in [Request -> {"new", "delete", "insert", "replay", "close", "command",
                           "committed", "answered", "done", "gone"}]
    /\ now \in [Request -> 0..MaxClock]
    /\ seen \in [Request -> Row \cup {NoRow}]
    /\ answer \in [Request -> Answer \cup {Nothing}]
    /\ effects \in SUBSET [by : Request, at : Nat]
    /\ torn \in SUBSET Request

Init ==
    /\ clock = 0
    /\ row = NoRow /\ work = NoRow
    /\ lock = Nothing
    /\ pc = [r \in Request |-> "new"]
    /\ now = [r \in Request |-> 0]
    /\ seen = [r \in Request |-> NoRow]
    /\ answer = [r \in Request |-> Nothing]
    /\ effects = {}
    /\ torn = {}

-----------------------------------------------------------------------------
(* Transactions *)

View(r) == IF lock = r THEN work ELSE row

\* Nobody else's transaction has written the row.
Free(r) == lock \in {r, Nothing}

Write(r, w) == lock' = r /\ work' = w

Goto(r, place) == pc' = [pc EXCEPT ![r] = place]

Tells(r, a) == answer' = [answer EXCEPT ![r] = a]

\* The session of r closes or rolls back: what it has written is gone.
Undo(r) ==
    /\ lock' = IF lock = r THEN Nothing ELSE lock
    /\ work' = IF lock = r THEN NoRow ELSE work

request == <<now, seen>>
outcome == <<effects, torn>>

-----------------------------------------------------------------------------
(* The dependency *)

Expired(w, t) == w.at + TTL < t

\* Mutation of SamePayload: the hash is not compared.
AnyPayload(r) == TRUE

SamePayload(r) == Payload[row.id] = Payload[r]

Lookup(r) ==
    /\ pc[r] = "new"
    /\ now' = [now EXCEPT ![r] = clock]
    /\ seen' = [seen EXCEPT ![r] = row]
    /\ \/ row = NoRow
          /\ Goto(r, "insert") /\ UNCHANGED answer
       \/ row # NoRow /\ Expired(row, clock)
          /\ Goto(r, "delete") /\ UNCHANGED answer
       \/ row # NoRow /\ ~Expired(row, clock)
          /\ IF SamePayload(r)
             THEN Goto(r, "replay") /\ UNCHANGED answer
             ELSE Goto(r, "done") /\ Tells(r, [kind |-> "conflict"])
    /\ UNCHANGED <<clock, row, lock, work, outcome>>

\* The DELETE of an expired row; one that is gone already is only a warning.
Delete(r) ==
    /\ pc[r] = "delete" /\ Free(r)
    /\ IF row # NoRow /\ row.id = seen[r].id
       THEN Write(r, NoRow)
       ELSE UNCHANGED <<lock, work>>
    /\ Goto(r, "insert")
    /\ UNCHANGED <<clock, row, request, answer, outcome>>

\* Mutation of Unique: the scoped index is not unique.
UniqueNever(r) == TRUE

Unique(r) == View(r) = NoRow

\* The INSERT of the key's row; a duplicate raises IntegrityError, which nobody
\* handles.
Insert(r) ==
    /\ pc[r] = "insert" /\ Free(r)
    /\ \/ /\ Unique(r)
          /\ Write(r, [id |-> r, at |-> now[r], response |-> Nothing])
          /\ Goto(r, "command") /\ UNCHANGED answer
       \/ /\ ~Unique(r)
          /\ Undo(r)
          /\ Goto(r, "done") /\ Tells(r, [kind |-> "error"])
    /\ UNCHANGED <<clock, row, request, outcome>>

\* The UPDATE of cache_hits before a replay, which fails when the row is gone.
Replay(r) ==
    /\ pc[r] = "replay" /\ Free(r)
    /\ IF row # NoRow /\ row.id = seen[r].id
       THEN /\ Write(r, row)
            /\ Goto(r, "close")
            /\ Tells(r, [kind |-> "replay", of |-> seen[r].id,
                         response |-> seen[r].response])
       ELSE /\ Goto(r, "done") /\ Tells(r, [kind |-> "error"])
            /\ UNCHANGED <<lock, work>>
    /\ UNCHANGED <<clock, row, request, outcome>>

\* The session of a replay closes without a commit.
Close(r) ==
    /\ pc[r] = "close"
    /\ Undo(r)
    /\ Goto(r, "done")
    /\ UNCHANGED <<clock, row, request, answer, outcome>>

-----------------------------------------------------------------------------
(* The command, the rate limit before it included *)

Commit(r) ==
    /\ pc[r] = "command"
    /\ row' = View(r)
    /\ Undo(r)
    /\ effects' = effects \cup {[by |-> r, at |-> now[r]]}
    /\ Goto(r, "committed")
    /\ UNCHANGED <<clock, request, answer, torn>>

\* Mutation of Refuse: the transaction stays open.
RefuseHoldingOn(r) ==
    /\ pc[r] = "command"
    /\ Goto(r, "answered") /\ Tells(r, [kind |-> "error"])
    /\ UNCHANGED <<clock, row, lock, work, request, outcome>>

\* The rate limit refuses the request, or the command fails before its first commit.
Refuse(r) ==
    /\ pc[r] = "command"
    /\ Undo(r)
    /\ Goto(r, "answered") /\ Tells(r, [kind |-> "error"])
    /\ UNCHANGED <<clock, row, request, outcome>>

\* A conflict in EventLog.append rolls the session back and the command goes on.
Tear(r) ==
    /\ pc[r] = "command"
    /\ Undo(r)
    /\ torn' = torn \cup {r}
    /\ UNCHANGED <<clock, row, request, pc, answer, effects>>

\* The command returns, or raises an error for which there is a response (as
\* execute_async does when the broker is away).
Respond(r) ==
    /\ pc[r] = "committed"
    /\ Goto(r, "answered") /\ Tells(r, [kind |-> "own"])
    /\ UNCHANGED <<clock, row, lock, work, request, outcome>>

\* Any other exception passes the middleware by.
Raise(r) ==
    /\ pc[r] = "committed"
    /\ Goto(r, "done") /\ Tells(r, [kind |-> "error"])
    /\ UNCHANGED <<clock, row, lock, work, request, outcome>>

-----------------------------------------------------------------------------
(* The middleware *)

\* Mutation of Recorded: the row is looked for by its key.
RecordedByKey(r) == row # NoRow

Recorded(r) == row # NoRow /\ row.id = r

\* The response is stored, unless the row is gone or the database fails.
Finalize(r) ==
    /\ pc[r] = "answered" /\ Free(r)
    /\ \/ Recorded(r) /\ row' = [row EXCEPT !.response = r]
       \/ UNCHANGED row
    /\ Goto(r, "done")
    /\ UNCHANGED <<clock, lock, work, request, answer, outcome>>

-----------------------------------------------------------------------------
(* The environment *)

Tick ==
    /\ clock < MaxClock
    /\ clock' = clock + 1
    /\ UNCHANGED <<row, lock, work, request, pc, answer, outcome>>

\* The process that serves r dies.
Crash(r) ==
    /\ pc[r] \notin {"new", "done", "gone"}
    /\ Undo(r)
    /\ Goto(r, "gone")
    /\ UNCHANGED <<clock, row, request, answer, outcome>>

Serve(r) ==
    \/ Delete(r) \/ Insert(r) \/ Replay(r) \/ Close(r)
    \/ Commit(r) \/ Refuse(r) \/ Tear(r) \/ Respond(r) \/ Raise(r)
    \/ Finalize(r)

Next == Tick \/ \E r \in Request : Lookup(r) \/ Serve(r) \/ Crash(r)

\* A request that has been accepted is driven by the server's event loop.
Fairness == \A r \in Request : WF_vars(Serve(r))

Spec == Init /\ [][Next]_vars
FairSpec == Spec /\ Fairness

-----------------------------------------------------------------------------
(* Properties *)

Committed == {e.by : e \in effects}

\* Effects whose transaction was never undone before its commit.
Whole == {e \in effects : e.by \notin torn}

Effect(w) == [by |-> w.id, at |-> w.at]

Precedes(e, f) == e.at + TTL < f.at

\* Who holds the row has written what its place says: nothing but the DELETE of
\* an expired row, its own row in place of none or of an expired one, or a copy
\* of the row.
LockMeans ==
    /\ lock = Nothing => work = NoRow
    /\ \A r \in Request : lock = r =>
          \/ pc[r] = "insert" /\ work = NoRow
          \/ pc[r] = "command" /\ r \notin torn /\ work.id = r /\ work.at = now[r]
          \/ pc[r] = "close" /\ work = row
    /\ \A r \in Request : lock = r /\ pc[r] # "close" /\ row # NoRow => Expired(row, now[r])

\* A command runs under its uncommitted row, unless its transaction was undone.
CommandsOwnTheRow ==
    \A r \in Request : pc[r] = "command" => lock = r \/ r \in torn

\* The row is that of a whole effect, and every other one is older by more than
\* the lifetime of a row.
RowIsTheLast ==
    /\ row # NoRow => Effect(row) \in Whole
    /\ \A e \in Whole : row # NoRow /\ (e = Effect(row) \/ Precedes(e, row))

\* A request commits its command once.
CommitsOnce ==
    /\ \A e \in effects : pc[e.by] \in {"committed", "answered", "done", "gone"}
    /\ \A r \in torn : pc[r] \notin {"new", "delete", "insert", "replay", "close"}
    /\ \A e, f \in effects : e.by = f.by => e = f

\* What a row holds is the answer to the request that inserted it, and what is
\* found was committed.
Says(w) == w # NoRow => w.response \in {Nothing, w.id}

RowsSayTheTruth ==
    /\ Says(row) /\ Says(work)
    /\ \A r \in Request :
          /\ Says(seen[r])
          /\ seen[r] # NoRow => Effect(seen[r]) \in effects
          /\ pc[r] \in {"replay", "delete"} => seen[r] # NoRow
          /\ pc[r] = "delete" => Expired(seen[r], now[r])
          /\ pc[r] = "replay" => Payload[seen[r].id] = Payload[r]

\* A replay hands out what was stored for a request with the same payload whose
\* command was committed, or nothing; never the answer to another request.
ReplayIsOwn ==
    \A r \in Request :
        answer[r] # Nothing /\ answer[r].kind = "replay" =>
            /\ answer[r].of \in Committed
            /\ Payload[answer[r].of] = Payload[r]
            /\ answer[r].response \in {Nothing, answer[r].of}

IdempotencyInv ==
    /\ TypeOK /\ LockMeans /\ CommandsOwnTheRow /\ RowIsTheLast
    /\ CommitsOnce /\ RowsSayTheTruth

\* Two committed commands under one key are further apart than the key's lifetime,
\* whatever overlaps, crashes and expires; but for those whose transaction a
\* conflict of the event log undid in the middle (their row is gone).
EffectOncePerTTL ==
    \A e, f \in Whole : e # f => Precedes(e, f) \/ Precedes(f, e)

Strays == {r \in torn : \E e \in effects : e.by = r}

Key == INSTANCE OncePerKey WITH
           Time <- 0..MaxClock, effects <- Whole, strays <- Strays, told <- answer

\* However requests, crashes, expiries and deletions interleave, the clients see a
\* key under which one request at a time is executed, and the others are told its
\* answer or refused (idempotency(); the unique index of idempotency_records).
ImplementsOncePerKey == Key!Spec

\* Every request that was accepted is over some day: none waits for ever for the
\* row of another.
RequestEnds ==
    \A r \in Request : pc[r] # "new" ~> pc[r] \in {"done", "gone"}

\* What the module docstring promises of a retry: "Same key + same hash -> replay
\* cached response" (api/v2/idempotency.py:5).
ReplayIsAnswer ==
    \A r \in Request :
        answer[r] # Nothing /\ answer[r].kind = "replay" => answer[r].response # Nothing

=============================================================================
