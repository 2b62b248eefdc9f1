--------------------------- MODULE ScullPrivProofs ---------------------------
(***************************************************************************)
(* Proof that scullpriv keeps one device for each terminal, for any        *)
(* number of processes, terminals and processors.  The inductive invariant *)
(* says what the holder of the spinlock may rely on: from its search of    *)
(* the list to its unlock nobody else changes the list, asleep or not.     *)
(***************************************************************************)
EXTENDS ScullPriv, TLAPS

Inside == {"look", "alloc", "asleep", "unlock"}

(* the lock is held exactly by the process between its lock and its unlock *)
LockExact == \A p \in Procs : pc[p] \in Inside <=> lock = p

(* every item has a terminal, and no two have the same *)
ListSound ==
  /\ \A i \in list : key[i] \in Terminals
  /\ \A i, j \in list : key[i] = key[j] => i = j

(* who has searched in vain will still find nothing when it adds its item  *)
SearchHolds == \A p \in Procs : pc[p] \in {"alloc", "asleep"} => Found(p) = {}

(* a device found or added is in the list, under the terminal's key *)
DevicesSound ==
  \A p \in Procs :
    /\ dev[p] # None => dev[p] \in list /\ key[dev[p]] = tty[p]
    /\ pc[p] = "open" => dev[p] # None
    /\ pc[p] # "idle" => tty[p] \in Terminals

Inv == TypeInvariant /\ LockExact /\ ListSound /\ SearchHolds /\ DevicesSound

(* The initial state satisfies the invariant. *)
LEMMA InitInv == ASSUME Parameters PROVE Init => Inv
  BY DEF Init, Inv, Parameters, TypeInvariant, LockExact, ListSound, SearchHolds,
         DevicesSound, Found, Inside

(* An open, a lock, a sleep and a release leave the list alone, and move   *)
(* one process between places of which the invariant asks the same.        *)
LEMMA MoveInv ==
  ASSUME Parameters, Inv, NEW p \in Procs,
         Open(p) \/ Lock(p) \/ SleepInKmalloc(p) \/ WakeInKmalloc(p)
           \/ AllocationFails(p) \/ Unlock(p) \/ Release(p)
  PROVE  Inv'
  <1> USE DEF Inv, Inside
  <1>1. TypeInvariant'
    BY DEF Parameters, TypeInvariant, Open, Lock, SleepInKmalloc, WakeInKmalloc,
           AllocationFails, Unlock, Release
  <1>2. LockExact'
    BY DEF Parameters, TypeInvariant, LockExact, Open, Lock, SleepInKmalloc,
           WakeInKmalloc, AllocationFails, Unlock, Release
  <1>3. UNCHANGED <<list, key>>
    BY DEF Open, Lock, SleepInKmalloc, WakeInKmalloc, AllocationFails, Unlock, Release
  <1>4. ListSound'
    BY <1>3 DEF ListSound
  <1>5. \A q \in Procs : pc'[q] \in {"alloc", "asleep"} => pc[q] \in {"alloc", "asleep"}
    BY DEF TypeInvariant, Open, Lock, SleepInKmalloc, WakeInKmalloc,
           AllocationFails, Unlock, Release
  <1>6. SearchHolds'
    BY <1>3, <1>5 DEF SearchHolds, Found
  <1>7. DevicesSound'
    <2>1. CASE Open(p)
      BY <2>1, <1>3 DEF Parameters, TypeInvariant, DevicesSound, Open
    <2>2. CASE Lock(p) \/ SleepInKmalloc(p) \/ WakeInKmalloc(p) \/ AllocationFails(p)
      BY <2>2, <1>3 DEF TypeInvariant, DevicesSound, Lock, SleepInKmalloc,
                        WakeInKmalloc, AllocationFails
    <2>3. CASE Unlock(p)
      BY <2>3, <1>3 DEF TypeInvariant, DevicesSound, Unlock
    <2>4. CASE Release(p)
      BY <2>4, <1>3 DEF TypeInvariant, DevicesSound, Release
    <2> QED BY <2>1, <2>2, <2>3, <2>4
  <1> QED BY <1>1, <1>2, <1>4, <1>6, <1>7

(* The search gives the opener the item of its terminal, or the knowledge  *)
(* that there is none.                                                     *)
LEMMA LookInv ==
  ASSUME Parameters, Inv, NEW p \in Procs, Look(p)
  PROVE  Inv'
  <1> USE DEF Inv, Inside
  <1>1. TypeInvariant'
    BY DEF TypeInvariant, Look, Found
  <1>2. LockExact'
    BY DEF TypeInvariant, LockExact, Look
  <1>3. ListSound'
    BY DEF ListSound, Look
  <1>4. SearchHolds'
    BY DEF TypeInvariant, SearchHolds, Look, Found
  <1>5. DevicesSound'
    BY DEF TypeInvariant, DevicesSound, Look, Found
  <1> QED BY <1>1, <1>2, <1>3, <1>4, <1>5

(* The item added is the first of its terminal, and no other process was   *)
(* in the middle of an addition.                                           *)
LEMMA AddInv ==
  ASSUME Parameters, Inv, NEW p \in Procs, AddItem(p)
  PROVE  Inv'
  <1> USE DEF Inv, Inside
  <1>1. PICK i \in Items \ list :
          /\ list' = list \union {i} /\ key' = [key EXCEPT ![i] = tty[p]]
          /\ dev' = [dev EXCEPT ![p] = i]
    BY DEF AddItem
  <1>2. pc[p] = "alloc" /\ pc' = [pc EXCEPT ![p] = "unlock"] /\ lock' = lock
    BY DEF AddItem
  <1>3. tty[p] \in Terminals /\ Found(p) = {}
    BY <1>2 DEF DevicesSound, SearchHolds
  <1>4. TypeInvariant'
    BY <1>1, <1>2, <1>3 DEF TypeInvariant
  <1>5. LockExact'
    BY <1>2 DEF TypeInvariant, LockExact
  <1>6. \A j \in list : key'[j] = key[j] /\ key[j] # tty[p]
    BY <1>1, <1>3 DEF TypeInvariant, Found
  <1>7. key'[i] = tty[p]
    BY <1>1 DEF TypeInvariant
  <1>8. ListSound'
    BY <1>1, <1>3, <1>6, <1>7 DEF ListSound
  <1>9. \A q \in Procs : q # p => pc[q] \notin Inside /\ pc'[q] = pc[q]
    BY <1>2 DEF TypeInvariant, LockExact
  <1>10. SearchHolds'
    BY <1>2, <1>9 DEF TypeInvariant, SearchHolds
  <1>11. DevicesSound'
    BY <1>1, <1>2, <1>3, <1>6, <1>7 DEF Parameters, TypeInvariant, DevicesSound
  <1> QED BY <1>4, <1>5, <1>8, <1>10, <1>11

LEMMA NextInv == ASSUME Parameters, Inv, [Next]_vars PROVE Inv'
  <1>1. CASE UNCHANGED vars
    BY <1>1 DEF Inv, vars, TypeInvariant, LockExact, ListSound, SearchHolds,
                DevicesSound, Found
  <1>2. ASSUME NEW p \in Procs, Open(p) \/ InKernel(p) \/ Release(p) PROVE Inv'
    BY <1>2, MoveInv, LookInv, AddInv DEF InKernel
  <1> QED BY <1>1, <1>2 DEF Next

(* The inductive invariant gives the property. *)
LEMMA InvImplies == Inv => OneDevicePerTerminal
  BY DEF Inv, ListSound, DevicesSound, OneDevicePerTerminal

(* access.c 246-296: the types of the list, the lock and the processes.    *)
THEOREM TypeCorrect == ASSUME Parameters PROVE Spec => []TypeInvariant
  <1>1. Inv => TypeInvariant
    BY DEF Inv
  <1> QED BY InitInv, NextInv, <1>1, PTL DEF Spec

(* access.c 246-287: however many processes of however many terminals open *)
(* scullpriv on however many processors, and wherever they sleep in        *)
(* kmalloc, files of one terminal share a device and files of two do not.  *)
THEOREM DevicesCorrect == ASSUME Parameters PROVE Spec => []OneDevicePerTerminal
  BY InitInv, NextInv, InvImplies, PTL DEF Spec
=============================================================================
