------------------------- MODULE MCMissionLifecycle -------------------------
(* MissionLifecycle for TLC: two missions, one or two users and expiry      *)
(* tasks, a worker, and PATCH requests that complete a mission.             *)
EXTENDS MissionLifecycle, TLC

CONSTANTS m1, m2, u1, u2, w1, x1, x2

TwoMissions == {m1, m2}
OneUser == {u1}
TwoUsers == {u1, u2}
OneWorker == {w1}
OneExpirer == {x1}
TwoExpirers == {x1, x2}
Completes == {"completed"}
Symmetry == Permutations(Mission) \cup Permutations(User) \cup Permutations(Expirer)
=============================================================================
