---------------------------- MODULE MCSessionLocks ----------------------------
(* Three calls of withLock, two of them in one of two worker processes.        *)
EXTENDS SessionLocks, TLC

CONSTANTS c1, c2, c3, w1, w2

FirstTwoTogether == c1 :> w1 @@ c2 :> w1 @@ c3 :> w2
================================================================================
