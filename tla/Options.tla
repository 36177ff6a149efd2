------------------------------- MODULE Options -------------------------------
(***************************************************************************)
(* The command line that the benchmarks share.                             *)
(***************************************************************************)
EXTENDS Naturals

CONSTANTS Connections, Iterations

(* parse_args takes numbers from parse_positive_size only.                 *)
ASSUME OptionsAssumption == /\ Connections \in Nat \ {0}
                            /\ Iterations \in Nat \ {0}
=============================================================================
