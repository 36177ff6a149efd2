---------------------------- MODULE MCUringLoop ----------------------------
(* TLC instances of UringLoop.                                             *)
EXTENDS UringLoopScheduler, TLC

CONSTANTS h1, h2, h3, f1

HandleSymmetry == Permutations(Handle)
=============================================================================
