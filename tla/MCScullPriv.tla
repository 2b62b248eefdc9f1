---------------------------- MODULE MCScullPriv ------------------------------
(* Three processes, two of them of one terminal, on two processors. *)
EXTENDS ScullPriv

CONSTANTS p1, p2, p3, t1, t2

MCTty == [p \in Procs |-> IF p = p3 THEN t2 ELSE t1]
=============================================================================
