---------------------------- MODULE SleepyProofs ----------------------------
(***************************************************************************)
(* Theorems about the sleeping device, for any set of processes, with      *)
(* signals or without: its types, and that the unlocked test of flag loses *)
(* no wake-up.  Both are inductive together: who goes to sleep has just    *)
(* seen flag clear, and who sets flag is at the wake-up.                   *)
(***************************************************************************)
EXTENDS Sleepy, TLAPS

(* The types of sleepy.c hold whatever the interleaving of its calls;      *)
(* above all flag never leaves {0, 1}, though every reader clears it.      *)
LEMMA TypesKept == ASSUME TypeInvariant, [Next]_vars PROVE TypeInvariant'
  <1>1. CASE UNCHANGED vars
    BY <1>1 DEF vars, TypeInvariant
  <1>2. ASSUME NEW p \in Procs, Read(p) \/ Write(p) \/ Signal(p) PROVE TypeInvariant'
    BY <1>2 DEF Read, Write, Signal, TypeInvariant
  <1>3. ASSUME NEW p \in Procs, Prepare(p) \/ Check(p) \/ Awake(p) PROVE TypeInvariant'
    BY <1>3 DEF Prepare, Check, Awake, TypeInvariant
  <1>4. ASSUME NEW p \in Procs, Clear(p) \/ Wake(p) PROVE TypeInvariant'
    BY <1>4 DEF Clear, Wake, TypeInvariant
  <1> QED BY <1>1, <1>2, <1>3, <1>4 DEF Next, Step

(* Line 21 against lines 32 and 33. *)
LEMMA WakeupKept ==
  ASSUME TypeInvariant, NoLostWakeup, [Next]_vars PROVE NoLostWakeup'
  <1> SUFFICES ASSUME NEW s \in Procs, Asleep(s)', flag' # 0
               PROVE  \E q \in Procs : pc'[q] = "wake"
    BY DEF NoLostWakeup
  <1> USE DEF Asleep
  <1>1. CASE UNCHANGED vars
    BY <1>1 DEF vars, NoLostWakeup
  <1>2. ASSUME NEW p \in Procs, Write(p) PROVE \E q \in Procs : pc'[q] = "wake"
    BY <1>2 DEF Write, TypeInvariant
  (* nobody sleeps on an empty queue, and the flag is not set when cleared *)
  <1>3. ASSUME NEW p \in Procs, Clear(p) \/ Wake(p) PROVE FALSE
    BY <1>3 DEF Clear, Wake
  (* s slept before, so a writer was at line 33, and it is not p *)
  <1>4. ASSUME NEW p \in Procs, Read(p) \/ Signal(p) \/ Prepare(p) \/ Check(p) \/ Awake(p)
        PROVE  \E q \in Procs : pc'[q] = "wake"
    <2>1. Asleep(s) /\ flag # 0
      BY <1>4 DEF Read, Signal, Prepare, Check, Awake, TypeInvariant
    <2>2. PICK q \in Procs : pc[q] = "wake"
      BY <2>1 DEF NoLostWakeup
    <2>3. pc'[q] = "wake"
      BY <1>4, <2>2 DEF Read, Signal, Prepare, Check, Awake, TypeInvariant
    <2> QED BY <2>3
  <1> QED BY <1>1, <1>2, <1>3, <1>4 DEF Next, Step

(* Sleepy keeps to its types for any processes. *)
THEOREM TypeCorrect == Spec => []TypeInvariant
  <1>1. Init => TypeInvariant
    BY DEF Init, TypeInvariant
  <1> QED BY <1>1, TypesKept, PTL DEF Spec

(* For any number of readers and writers, whoever sleeps while flag is set *)
(* is about to be woken by a writer between lines 32 and 33.               *)
THEOREM WakeupsNotLost == Spec => []NoLostWakeup
  <1>1. Init => NoLostWakeup
    BY DEF Init, NoLostWakeup
  <1> QED BY <1>1, TypeCorrect, WakeupKept, PTL DEF Spec
=============================================================================
