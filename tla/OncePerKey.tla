----------------------------- MODULE OncePerKey -----------------------------
(***************************************************************************)
(* What an Idempotency-Key promises its clients, as if every request ran   *)
(* in one step: within the key's lifetime one of them takes effect, a      *)
(* request that was answered takes no effect any more, and the others are  *)
(* told what that one's answer is, or that they asked for something else.  *)
(* A request may always fail, with or without its effect.                  *)
(***************************************************************************)
EXTENDS Integers

CONSTANTS
    Request,
    Payload,    \* what each request asks for
    TTL,        \* lifetime of the key
    Time,
    Nothing

VARIABLES
    effects,    \* the requests that took effect, and when they were made
    strays,     \* those whose record of the key was undone before their effect
    told        \* [Request -> its answer]

key == <<effects, strays, told>>

Init == effects = {} /\ strays = {} /\ told = [r \in Request |-> Nothing]

TookEffect(r) == r \in strays \/ \E e \in effects : e.by = r

\* r, made at time t, takes effect: the key is free.
Execute(r, t) ==
    /\ told[r] = Nothing /\ ~TookEffect(r)
    /\ \A e \in effects : e.at + TTL < t
    /\ effects' = effects \cup {[by |-> r, at |-> t]}
    /\ UNCHANGED <<strays, told>>

\* The key does not guard r any more.
Escape(r) ==
    /\ told[r] = Nothing /\ ~TookEffect(r)
    /\ strays' = strays \cup {r}
    /\ UNCHANGED <<effects, told>>

Tell(r, a) ==
    /\ told[r] = Nothing
    /\ told' = [told EXCEPT ![r] = a]
    /\ UNCHANGED <<effects, strays>>

Answer(r) == TookEffect(r) /\ Tell(r, [kind |-> "own"])

Replay(r, e) ==
    /\ Payload[e.by] = Payload[r]
    /\ \E response \in {Nothing, e.by} :
          Tell(r, [kind |-> "replay", of |-> e.by, response |-> response])

Conflict(r, e) == Payload[e.by] # Payload[r] /\ Tell(r, [kind |-> "conflict"])

Fail(r) == Tell(r, [kind |-> "error"])

Next ==
    \E r \in Request :
        \/ \E t \in Time : Execute(r, t)
        \/ \E e \in effects : Replay(r, e) \/ Conflict(r, e)
        \/ Escape(r) \/ Answer(r) \/ Fail(r)

Spec == Init /\ [][Next]_key
=============================================================================
