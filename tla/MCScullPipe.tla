---------------------------- MODULE MCScullPipe ----------------------------
(* The instances of ScullPipe that TLC checks.  Processes are              *)
(* interchangeable, and so are the values of the bytes, which the driver   *)
(* only copies: the cfg of the safety run asks for symmetry in both.       *)
EXTENDS ScullPipe, TLC

Symmetry == Permutations(Procs) \union Permutations(Byte)
=============================================================================
