---------------------------- MODULE MCEventLoop ----------------------------
(* TLC instances of EventLoop.                                             *)
EXTENDS EventLoopScheduler, TLC

CONSTANTS h1, h2, h3, f1, f2

HandleSymmetry == Permutations(Handle)
=============================================================================
