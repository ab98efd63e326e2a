------------------------------ MODULE HitlInbox ------------------------------
(***************************************************************************)
(* The inbox of human interrupts: the items people approve or reject (one  *)
(* by one or in bulk), the memory writes staged behind some of them, and   *)
(* the beat task hitl.expire_items that decides the items nobody answered. *)
(*                                                                         *)
(* A request reads an item without a lock and updates it by primary key    *)
(* later in its transaction; resolve_interrupt "reads" it again, but gets  *)
(* the copy in the session's identity map.  The expiry locks what it finds *)
(* (FOR UPDATE SKIP LOCKED).  Everything is committed at the end of the    *)
(* request or task, after the resume tasks have been dispatched.           *)
(***************************************************************************)
EXTENDS Integers, FiniteSets

CONSTANTS
    Item,
    MemoryItem,    \* the items of type MEMORY_APPROVAL, each with a pending write
    AutoAction,    \* the workspace's auto-action on expiry, for each item
    Human,         \* sessions of API requests
    Expirer,       \* sessions of hitl.expire_items
    NoSession,     \* nobody locks the row
    Nothing,       \* no verdict, no item, no change
    MaxRequests,   \* bound on the number of API requests
    MaxFaults      \* bound on crashes, failed dispatches and failed applications

Session == Human \cup Expirer
Verdict == {"approved", "rejected", "expired"}
Decision == {"approved", "rejected"}

ASSUME InboxAssumption ==
    /\ Human \cap Expirer = {}
    /\ NoSession \notin Session
    /\ MemoryItem \subseteq Item
    /\ AutoAction \in [Item -> {"approve", "reject", "stay"}]
    /\ Nothing \notin Verdict \cup Item
    /\ MaxRequests \in Nat
    /\ MaxFaults \in Nat

VARIABLES
    item,        \* the committed status of each item
    stale,       \* the items whose expires_at has passed
    write,       \* the committed status of each pending write
    itemLock, writeLock,   \* the sessions that lock the rows
    newItem, newWrite,     \* what each session has flushed and not committed
    pc, at, todo,          \* each session's place, its item, the items still to do
    verdict, bulk,         \* what a request asks for, and whether it is a bulk request
    resumed,     \* items for which a resume task has been dispatched
    dropped,     \* items whose dispatch failed and was logged
    expiries,    \* committed expiries of each item
    requests, faults       \* bounded by MaxRequests and MaxFaults

db == <<item, write, expiries>>
locks == <<itemLock, writeLock>>
changes == <<newItem, newWrite>>
asked == <<verdict, bulk>>
signals == <<resumed, dropped>>
bounds == <<requests, faults>>
vars == <<db, stale, locks, changes, pc, at, todo, asked, signals, bounds>>

TypeOK ==
    /\ item \in [Item -> {"pending"} \cup Verdict]
    /\ stale \in SUBSET Item
    /\ write \in [MemoryItem -> {"pending"} \cup Decision]
    /\ itemLock \in [Item -> Session \cup {NoSession}]
    /\ writeLock \in [MemoryItem -> Session \cup {NoSession}]
    /\ newItem \in [Session -> [Item -> Verdict \cup {Nothing}]]
    /\ newWrite \in [Session -> [MemoryItem -> Decision \cup {Nothing}]]
    /\ pc \in [Session -> {"idle", "loop", "read", "apply", "decide"}]
    /\ at \in [Session -> Item \cup {Nothing}]
    /\ todo \in [Session -> SUBSET Item]
    /\ verdict \in [Human -> Decision \cup {Nothing}]
    /\ bulk \in [Human -> BOOLEAN]
    /\ resumed \in SUBSET Item
    /\ dropped \in SUBSET Item
    /\ expiries \in [Item -> Nat]
    /\ requests \in Nat
    /\ faults \in Nat

Unchanged(rows) == [r \in rows |-> Nothing]

Init ==
    /\ item = [i \in Item |-> "pending"]
    /\ stale = {}
    /\ write = [i \in MemoryItem |-> "pending"]
    /\ itemLock = [i \in Item |-> NoSession]
    /\ writeLock = [i \in MemoryItem |-> NoSession]
    /\ newItem = [s \in Session |-> Unchanged(Item)]
    /\ newWrite = [s \in Session |-> Unchanged(MemoryItem)]
    /\ pc = [s \in Session |-> "idle"]
    /\ at = [s \in Session |-> Nothing]
    /\ todo = [s \in Session |-> {}]
    /\ verdict = [h \in Human |-> Nothing]
    /\ bulk = [h \in Human |-> FALSE]
    /\ resumed = {}
    /\ dropped = {}
    /\ expiries = [i \in Item |-> 0]
    /\ requests = 0
    /\ faults = 0

-----------------------------------------------------------------------------
(* Transactions *)

Goto(s, p, i) == pc' = [pc EXCEPT ![s] = p] /\ at' = [at EXCEPT ![s] = i]

Unlocked(lock, s) == [r \in DOMAIN lock |-> IF lock[r] = s THEN NoSession ELSE lock[r]]

\* The transaction of s is over, one way or the other.
EndTx(s) ==
    /\ itemLock' = Unlocked(itemLock, s)
    /\ writeLock' = Unlocked(writeLock, s)
    /\ newItem' = [newItem EXCEPT ![s] = Unchanged(Item)]
    /\ newWrite' = [newWrite EXCEPT ![s] = Unchanged(MemoryItem)]
    /\ todo' = [todo EXCEPT ![s] = {}]
    /\ verdict' = [h \in Human |-> IF h = s THEN Nothing ELSE verdict[h]]
    /\ bulk' = [h \in Human |-> IF h = s THEN FALSE ELSE bulk[h]]
    /\ Goto(s, "idle", Nothing)

Merged(old, new) == [r \in DOMAIN old |-> IF new[r] = Nothing THEN old[r] ELSE new[r]]

\* Mutation of Commit: the task forgets to commit.
CommitRequestsOnly(s) ==
    /\ pc[s] = "loop" /\ todo[s] = {}
    /\ item' = IF s \in Human THEN Merged(item, newItem[s]) ELSE item
    /\ write' = IF s \in Human THEN Merged(write, newWrite[s]) ELSE write
    /\ EndTx(s)
    /\ UNCHANGED <<expiries, stale, signals, bounds>>

\* get_db after the endpoint has returned, or _expire_async.
Commit(s) ==
    /\ pc[s] = "loop" /\ todo[s] = {}
    /\ item' = Merged(item, newItem[s])
    /\ write' = Merged(write, newWrite[s])
    /\ expiries' = [i \in Item |->
                      expiries[i] + (IF s \in Expirer /\ newItem[s][i] # Nothing
                                     THEN 1 ELSE 0)]
    /\ EndTx(s)
    /\ UNCHANGED <<stale, signals, bounds>>

Rollback(s) == EndTx(s) /\ UNCHANGED <<db, stale, signals>>

Fault == faults < MaxFaults /\ faults' = faults + 1 /\ UNCHANGED requests

-----------------------------------------------------------------------------
(* Requests and scans *)

\* POST .../approve, .../reject (clarify is an approval here) or /bulk-resolve.
Request(h) ==
    /\ pc[h] = "idle" /\ requests < MaxRequests
    /\ requests' = requests + 1
    /\ \E is \in SUBSET Item \ {{}}, v \in Decision, b \in BOOLEAN :
          /\ b \/ Cardinality(is) = 1
          /\ todo' = [todo EXCEPT ![h] = is]
          /\ verdict' = [verdict EXCEPT ![h] = v]
          /\ bulk' = [bulk EXCEPT ![h] = b]
    /\ Goto(h, "loop", Nothing)
    /\ UNCHANGED <<db, stale, locks, changes, signals, faults>>

\* Mutation of Found: the SELECT does not lock, so that it finds locked rows too.
FoundUnlocked(x) == {i \in stale : item[i] = "pending"}
Found(x) == {i \in stale : item[i] = "pending" /\ itemLock[i] = NoSession}

\* expire_and_act: FOR UPDATE SKIP LOCKED.
Scan(x) ==
    /\ pc[x] = "idle" /\ Found(x) # {}
    /\ todo' = [todo EXCEPT ![x] = Found(x)]
    /\ itemLock' = [i \in Item |-> IF i \in Found(x) THEN x ELSE itemLock[i]]
    /\ Goto(x, "loop", Nothing)
    /\ UNCHANGED <<db, stale, writeLock, changes, asked, signals, bounds>>

\* The next item.  A request reads it and leaves it alone unless it is pending; only
\* bulk_resolve forgets that a write may be staged behind it.
NextItem(s) ==
    /\ pc[s] = "loop"
    /\ \E i \in todo[s] :
          /\ todo' = [todo EXCEPT ![s] = @ \ {i}]
          /\ IF s \in Human /\ item[i] # "pending" THEN Goto(s, "loop", Nothing)
             ELSE IF i \in MemoryItem /\ (s \in Human => ~bulk[s]) THEN Goto(s, "read", i)
             ELSE Goto(s, "decide", i)
    /\ UNCHANGED <<db, stale, locks, changes, asked, signals, bounds>>

\* What s decides about item i.
Outcome(s, i) ==
    IF s \in Human THEN verdict[s]
    ELSE IF i \in MemoryItem \/ AutoAction[i] = "reject" THEN "rejected"
    ELSE IF AutoAction[i] = "approve" THEN "approved"
    ELSE "expired"

-----------------------------------------------------------------------------
(* resolve_pending_write: an unlocked read, then the update *)

ReadWrite(s) ==
    /\ pc[s] = "read"
    /\ Goto(s, IF write[at[s]] = "pending" THEN "apply" ELSE "decide", at[s])
    /\ UNCHANGED <<db, stale, locks, changes, todo, asked, signals, bounds>>

WaitsForWrite(s, t) ==
    pc[s] = "apply" /\ writeLock[at[s]] = t /\ t \notin {s, NoSession}
WaitsForItem(s, t) ==
    pc[s] = "decide" /\ itemLock[at[s]] = t /\ t \notin {s, NoSession}
WaitsFor(s, t) == WaitsForWrite(s, t) \/ WaitsForItem(s, t)

\* Mutation of ApplyWrite: the write is committed at once.
ApplyWriteAtOnce(s) ==
    /\ pc[s] = "apply" /\ writeLock[at[s]] \in {s, NoSession}
    /\ write' = [write EXCEPT ![at[s]] = Outcome(s, at[s])]
    /\ Goto(s, "decide", at[s])
    /\ UNCHANGED <<item, expiries, locks, changes, stale, todo, asked, signals, bounds>>

\* The entry is added and the status set; an error on the way is logged, and the item
\* decided all the same ("best-effort: never raises").
ApplyWrite(s) ==
    /\ pc[s] = "apply"
    /\ \/ /\ writeLock[at[s]] \in {s, NoSession}
          /\ writeLock' = [writeLock EXCEPT ![at[s]] = s]
          /\ newWrite' = [newWrite EXCEPT ![s][at[s]] = Outcome(s, at[s])]
          /\ UNCHANGED bounds
       \/ Fault /\ UNCHANGED <<writeLock, newWrite>>
    /\ Goto(s, "decide", at[s])
    /\ UNCHANGED <<db, stale, itemLock, newItem, todo, asked, signals>>

-----------------------------------------------------------------------------
(* resolve_interrupt, bulk_resolve, expire_and_act: the item itself *)

\* A resume is dispatched for approvals, for bulk rejections and for whatever an
\* expiry decided; a single rejection only publishes to a channel.  Memory items carry
\* no run.
\* Mutation of Signals: auto-approval by expiry forgets to dispatch.
SignalsHumansOnly(s, i) ==
    s \in Human /\ i \notin MemoryItem /\ (Outcome(s, i) = "approved" \/ bulk[s])
Signals(s, i) ==
    /\ i \notin MemoryItem
    /\ Outcome(s, i) # "expired"
    /\ s \in Human => Outcome(s, i) = "approved" \/ bulk[s]

Decide(s) ==
    /\ pc[s] = "decide" /\ itemLock[at[s]] \in {s, NoSession}
    /\ itemLock' = [itemLock EXCEPT ![at[s]] = s]
    /\ newItem' = [newItem EXCEPT ![s][at[s]] = Outcome(s, at[s])]
    /\ \/ /\ resumed' = IF Signals(s, at[s]) THEN resumed \cup {at[s]} ELSE resumed
          /\ UNCHANGED <<dropped, bounds>>
       \/ /\ Signals(s, at[s]) /\ Fault
          /\ dropped' = dropped \cup {at[s]}
          /\ UNCHANGED resumed
    /\ Goto(s, "loop", Nothing)
    /\ UNCHANGED <<db, stale, writeLock, newWrite, todo, asked>>

-----------------------------------------------------------------------------
(* The environment *)

Age(i) ==
    /\ i \notin stale
    /\ stale' = stale \cup {i}
    /\ UNCHANGED <<db, locks, changes, pc, at, todo, asked, signals, bounds>>

\* PostgreSQL breaks a circle of waiting transactions by failing one of them.  The
\* error may be caught, but the session can only be rolled back from then on.
InCircle(s) ==
    \E c \in SUBSET Session :
        /\ s \in c
        /\ \A t \in c : /\ \E v \in c : WaitsFor(t, v)
                        /\ \E v \in c : WaitsFor(v, t)

DeadlockVictim(s) ==
    /\ InCircle(s)
    /\ Rollback(s)
    /\ UNCHANGED bounds

Crash(s) ==
    /\ pc[s] # "idle" /\ Fault
    /\ Rollback(s)

Proceed(s) ==
    \/ NextItem(s) \/ ReadWrite(s) \/ ApplyWrite(s) \/ Decide(s) \/ Commit(s)

Next ==
    \/ \E h \in Human : Request(h)
    \/ \E x \in Expirer : Scan(x)
    \/ \E s \in Session : Proceed(s) \/ DeadlockVictim(s) \/ Crash(s)
    \/ \E i \in Item : Age(i)

Spec == Init /\ [][Next]_vars

(* Transactions go on once the lock they wait for is free, deadlocks are    *)
(* broken, and the beat comes again and again: it does not find an item     *)
(* locked by requests each time, since these are finitely many.             *)
Fairness ==
    /\ \A h \in Human : SF_vars(Proceed(h) \/ DeadlockVictim(h))
    /\ \A x \in Expirer : SF_vars(Scan(x) \/ Proceed(x) \/ DeadlockVictim(x))

FairSpec == Spec /\ Fairness

-----------------------------------------------------------------------------
(* Properties *)

(* The expiry decides only items that nobody has decided: an answer that a  *)
(* human committed survives it, whenever it came (expire_and_act locks and  *)
(* looks at the status in one statement).                                   *)
ExpiryKeepsAnswers ==
    [][\A i \in Item :
           itemLock[i] \in Expirer /\ item'[i] # item[i] => item[i] = "pending"]_vars

(* No item is expired twice, by two beats or by a retry of a task that was  *)
(* a deadlock's victim ("Idempotent: uses SELECT FOR UPDATE SKIP LOCKED").  *)
ExpiredOnce == \A i \in Item : expiries[i] <= 1

\* What an expiry makes of each item, and the runs it or a request has told.
OnExpiry == [i \in Item |-> IF i \in MemoryItem \/ AutoAction[i] = "reject" THEN "rejected"
                            ELSE IF AutoAction[i] = "approve" THEN "approved"
                            ELSE "expired"]
Told == resumed \cup dropped

Inbox == INSTANCE InboxDecisions WITH Policy <- OnExpiry, told <- Told

(* Row locks, stale reads, deadlocks and crashes do not show: whatever is   *)
(* committed is a request's one verdict or a first expiry, of items and     *)
(* writes together, and after the signal (resolve_interrupt, bulk_resolve,  *)
(* expire_and_act, in hitl_service.py).                                     *)
ImplementsInbox == Inbox!Spec

(* A memory write is never decided while its item is still open to an       *)
(* answer: both are committed together, whichever of the two rows a         *)
(* deadlock or a crash interrupts (_maybe_resolve_memory_write).            *)
DecidedTogether == \A i \in MemoryItem : write[i] # "pending" => item[i] # "pending"

(* A committed approval of a mission's item, by a human or by an expiry,    *)
(* has been signalled to the executor, unless the broker refused it         *)
(* (the dispatch comes before the commit).                                  *)
ApprovalSignalled ==
    \A i \in Item \ MemoryItem : item[i] = "approved" => i \in resumed \cup dropped

(* Nobody has to answer for an item to leave the inbox: past its deadline   *)
(* it is decided, although requests lock it, scans skip it and transactions *)
(* deadlock.                                                                *)
StaleItemsDecided ==
    \A i \in Item : (i \in stale /\ item[i] = "pending") ~> item[i] # "pending"

-----------------------------------------------------------------------------
(* The inductive invariant behind the safety properties *)

\* What a session has flushed it has locked, and it flushes only verdicts.
ChangesAreLocked ==
    \A s \in Session :
        /\ \A i \in Item : newItem[s][i] # Nothing => itemLock[i] = s
        /\ \A i \in MemoryItem : newWrite[s][i] # Nothing =>
              /\ writeLock[i] = s
              /\ newItem[s][i] # Nothing \/ (at[s] = i /\ pc[s] = "decide")

\* What a session has at hand.
SessionsInPlace ==
    /\ \A s \in Session : pc[s] \in {"read", "apply", "decide"} => at[s] \in Item
    /\ \A s \in Session : pc[s] \in {"read", "apply"} => at[s] \in MemoryItem
    /\ \A h \in Human : pc[h] # "idle" => verdict[h] \in Decision

\* The expiry has locked all it has found, and what it has locked is still pending.
ExpiryHoldsPending ==
    /\ \A x \in Expirer :
          /\ \A i \in todo[x] : itemLock[i] = x
          /\ pc[x] \in {"read", "apply", "decide"} => itemLock[at[x]] = x
    /\ \A i \in Item : itemLock[i] \in Expirer => item[i] = "pending"
    /\ \A i \in Item : item[i] = "pending" => expiries[i] = 0

\* An approval that is flushed has been signalled.
FlushedIsSignalled ==
    \A s \in Session, i \in Item \ MemoryItem :
        newItem[s][i] = "approved" => i \in resumed \cup dropped

\* What a session has flushed is what it decides, and it has asked for nothing in between.
FlushedAsDecided ==
    /\ \A s \in Session :
          /\ \A i \in Item : newItem[s][i] \in {Nothing, Outcome(s, i)}
          /\ \A i \in MemoryItem : newWrite[s][i] \in {Nothing, Outcome(s, i)}
    /\ \A h \in Human : pc[h] = "idle" => verdict[h] = Nothing

(* The inductive invariant of the inbox: types, the meaning of the row      *)
(* locks, what an expiry may rely on, and the properties above.             *)
InboxInv ==
    /\ TypeOK
    /\ ChangesAreLocked
    /\ SessionsInPlace
    /\ ExpiryHoldsPending
    /\ FlushedIsSignalled
    /\ FlushedAsDecided
    /\ ExpiredOnce
    /\ DecidedTogether
    /\ ApprovalSignalled
=============================================================================
