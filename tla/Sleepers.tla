------------------------------ MODULE Sleepers ------------------------------
(***************************************************************************)
(* The callers of async_sleep on one thread.                               *)
(***************************************************************************)
EXTENDS FiniteSets

CONSTANTS Sleeper, None

ASSUME SleepersAssumption == IsFiniteSet(Sleeper) /\ None \notin Sleeper
=============================================================================
