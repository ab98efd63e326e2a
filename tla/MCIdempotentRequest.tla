------------------------ MODULE MCIdempotentRequest ------------------------
(* IdempotentRequest for TLC: a request, a retry of it, and a request that  *)
(* asks for something else under the same key.                              *)
EXTENDS IdempotentRequest, TLC

CONSTANTS r1, r2, r3, b1, b2

ThreeRequests == {r1, r2, r3}
TwoRequests == {r1, r2}
TwoPayloads == r1 :> b1 @@ r2 :> b1 @@ r3 :> b2
=============================================================================
