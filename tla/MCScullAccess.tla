---------------------------- MODULE MCScullAccess ----------------------------
(* Instances of ScullAccess: p1 is of user 1, p2 of user 2, p3 of user 2   *)
(* acting as user 1 (its euid), p4 of user 1 and, where a cfg says so,     *)
(* root.                                                                   *)
EXTENDS ScullAccess

CONSTANTS p1, p2, p3, p4

MCUid == [p \in Procs |-> IF p = p1 \/ p = p4 THEN 1 ELSE 2]
MCEuid == [p \in Procs |-> IF p = p2 THEN 2 ELSE 1]
=============================================================================
