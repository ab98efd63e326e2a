---------------------------- MODULE MCHitlInbox ----------------------------
(* HitlInbox for TLC: a memory item and an item of a mission, requests of   *)
(* one human, and two expiry tasks.                                         *)
EXTENDS HitlInbox, TLC

CONSTANTS i1, i2, h1, x1, x2

MemoryAndMission == {i1, i2}
Memory == {i1}
OneHuman == {h1}
TwoExpirers == {x1, x2}
AutoApprove == i1 :> "approve" @@ i2 :> "approve"
=============================================================================
