---------------------------- MODULE Compensation ----------------------------
(***************************************************************************)
(* What the owner of a mission that was paused for too long may count on,  *)
(* as if one task looked after it: the mission fails and the log says so   *)
(* in one step; after that, and once, the compensation is claimed; then    *)
(* the owner is credited, if there is anything to credit, and told.  A     *)
(* crash may leave the rest out, and repeats nothing.                      *)
(***************************************************************************)
EXTENDS Naturals

CONSTANT Mission

VARIABLES
    status,
    timedOut,     \* the log has the failure
    compensated,  \* the compensation is claimed
    credits, notices

ledger == <<timedOut, compensated, credits, notices>>
account == <<status, ledger>>

Init ==
    /\ timedOut = [m \in Mission |-> FALSE]
    /\ compensated = [m \in Mission |-> FALSE]
    /\ credits = [m \in Mission |-> 0]
    /\ notices = [m \in Mission |-> 0]

TimeOut(m) ==
    /\ ~timedOut[m]
    /\ timedOut' = [timedOut EXCEPT ![m] = TRUE]
    /\ status' = [status EXCEPT ![m] = "failed"]
    /\ UNCHANGED <<compensated, credits, notices>>

Claim(m) ==
    /\ timedOut[m] /\ ~compensated[m]
    /\ compensated' = [compensated EXCEPT ![m] = TRUE]
    /\ UNCHANGED <<status, timedOut, credits, notices>>

Credit(m) ==
    /\ compensated[m] /\ credits[m] = 0 /\ notices[m] = 0
    /\ credits' = [credits EXCEPT ![m] = 1]
    /\ UNCHANGED <<status, timedOut, compensated, notices>>

Tell(m) ==
    /\ compensated[m] /\ notices[m] = 0
    /\ notices' = [notices EXCEPT ![m] = 1]
    /\ UNCHANGED <<status, timedOut, compensated, credits>>

\* Whatever else becomes of the missions.
Elsewhere == UNCHANGED ledger

Next == Elsewhere \/ \E m \in Mission : TimeOut(m) \/ Claim(m) \/ Credit(m) \/ Tell(m)

Spec == Init /\ [][Next]_account
=============================================================================
