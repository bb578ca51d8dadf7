---------------------------- MODULE SourceLockMC ----------------------------
(* Which process makes which call: a queue of three in one process that    *)
(* competes with another process.                                          *)
EXTENDS SourceLock, TLC

CONSTANTS p1, p2, t1, t2, t3, t4

ThreeAndOne == t1 :> p1 @@ t2 :> p1 @@ t3 :> p1 @@ t4 :> p2

\* Calls of one process are alike: they are made in the order of their names.
InOrder == (pc[t1] = "idle" => pc[t2] = "idle") /\ (pc[t2] = "idle" => pc[t3] = "idle")
=============================================================================
