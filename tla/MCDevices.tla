------------------------------ MODULE MCDevices ------------------------------
(* Three processes: p1 and p2 on one terminal, p3 on another. *)
EXTENDS Devices

CONSTANTS p1, p2, p3, t1, t2

MCTty == [p \in Procs |-> IF p = p3 THEN t2 ELSE t1]
=============================================================================
