---------------------------- MODULE MCWriteQueue ----------------------------
(* Instances of WriteQueue for TLC.                                        *)
EXTENDS WriteQueue

(* A negative timeout is rejected, a zero one has passed at once.          *)
MCTimeout == {-1, 0, 2}
=============================================================================
