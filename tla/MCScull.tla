------------------------------- MODULE MCScull -------------------------------
(* The instance of Scull that TLC checks.  Neither the processes nor the   *)
(* values of a byte are told apart by the code.                            *)
EXTENDS Scull, TLC

Symmetry == Permutations(Procs) \union Permutations(Byte)
=============================================================================
