------------------------------ MODULE ScullPriv ------------------------------
(***************************************************************************)
(* scullpriv of higher_scull/high_scull/access.c: an open finds the        *)
(* virtual device of the caller's terminal in a list, or adds one.  The    *)
(* list is searched and extended under a spinlock, by processors that spin *)
(* while another holds it; kmalloc(GFP_KERNEL) in between may put the      *)
(* holder to sleep, and a processor that spins runs nothing else.          *)
(***************************************************************************)
EXTENDS Naturals, FiniteSets

CONSTANTS Procs, Items,   \* processes; the struct scull_listitem kmalloc may return
          Terminals, NoTty, None,
          tty,            \* controlling terminal of each process
          CPUs            \* number of processors

(* what the constants satisfy; Devices assumes it *)
Parameters ==
  /\ tty \in [Procs -> Terminals \union {NoTty}]
  /\ NoTty \notin Terminals /\ None \notin Items \union Procs
  /\ CPUs \in Nat \ {0}

VARIABLES
  list,      \* scull_c_list
  key,       \* key of each item in the list, else None
  lock,      \* who holds scull_c_lock
  pc, dev    \* where each process is in open(), the device it has found

vars == <<list, key, lock, pc, dev>>

Init ==
  /\ list = {} /\ key = [i \in Items |-> None] /\ lock = None
  /\ pc = [p \in Procs |-> "idle"] /\ dev = [p \in Procs |-> None]

OnCpu(p) == pc[p] \notin {"idle", "open", "asleep"}
FreeCpu == Cardinality({p \in Procs : OnCpu(p)}) < CPUs

Found(p) == {i \in list : key[i] = tty[p]}

(* scull_c_open; a process without a terminal is turned away (-EINVAL)     *)
Open(p) ==
  /\ pc[p] = "idle" /\ tty[p] # NoTty /\ FreeCpu
  /\ pc' = [pc EXCEPT ![p] = "lock"]
  /\ UNCHANGED <<list, key, lock, dev>>

Lock(p) ==
  /\ pc[p] = "lock" /\ lock = None
  /\ lock' = p /\ pc' = [pc EXCEPT ![p] = "look"]
  /\ UNCHANGED <<list, key, dev>>

(* scull_c_lookfor_device: the list is searched ...                        *)
Look(p) ==
  /\ pc[p] = "look"
  /\ \/ \E i \in Found(p) : /\ dev' = [dev EXCEPT ![p] = i]
                            /\ pc' = [pc EXCEPT ![p] = "unlock"]
     \/ /\ Found(p) = {} /\ pc' = [pc EXCEPT ![p] = "alloc"]
        /\ UNCHANGED dev
  /\ UNCHANGED <<list, key, lock>>

(* ... and the item allocated, at once or after a sleep.                   *)
(* variant: the lock is not held while kmalloc sleeps *)
SleepUnlocked(p) ==
  /\ pc[p] = "alloc" /\ pc' = [pc EXCEPT ![p] = "asleep"]
  /\ lock' = None
  /\ UNCHANGED <<list, key, dev>>

SleepInKmalloc(p) ==
  /\ pc[p] = "alloc" /\ pc' = [pc EXCEPT ![p] = "asleep"]
  /\ UNCHANGED <<list, key, lock, dev>>

WakeInKmalloc(p) ==
  /\ pc[p] = "asleep" /\ FreeCpu
  /\ pc' = [pc EXCEPT ![p] = "alloc"]
  /\ UNCHANGED <<list, key, lock, dev>>

AddItem(p) ==
  /\ pc[p] = "alloc"
  /\ \E i \in Items \ list :
       /\ list' = list \union {i} /\ key' = [key EXCEPT ![i] = tty[p]]
       /\ dev' = [dev EXCEPT ![p] = i]
  /\ pc' = [pc EXCEPT ![p] = "unlock"]
  /\ UNCHANGED lock

AllocationFails(p) ==
  /\ pc[p] = "alloc" /\ pc' = [pc EXCEPT ![p] = "unlock"]
  /\ UNCHANGED <<list, key, lock, dev>>

(* unlock; then -ENOMEM, or the trim of a write-only open and success      *)
Unlock(p) ==
  /\ pc[p] = "unlock" /\ lock' = None
  /\ pc' = [pc EXCEPT ![p] = IF dev[p] = None THEN "idle" ELSE "open"]
  /\ UNCHANGED <<list, key, dev>>

(* scull_c_release does nothing: the device is persistent                  *)
Release(p) ==
  /\ pc[p] = "open" /\ pc' = [pc EXCEPT ![p] = "idle"]
  /\ dev' = [dev EXCEPT ![p] = None]
  /\ UNCHANGED <<list, key, lock>>

InKernel(p) == Lock(p) \/ Look(p) \/ SleepInKmalloc(p) \/ WakeInKmalloc(p)
               \/ AddItem(p) \/ AllocationFails(p) \/ Unlock(p)

Next == \E p \in Procs : Open(p) \/ InKernel(p) \/ Release(p)

Spec == Init /\ [][Next]_vars

(* a process that can go on does, and the memory a sleeper waits for comes *)
FairSpec == Spec /\ \A p \in Procs : WF_vars(InKernel(p))

-----------------------------------------------------------------------------
TypeInvariant ==
  /\ list \subseteq Items /\ key \in [Items -> Terminals \union {None}]
  /\ lock \in Procs \union {None}
  /\ pc \in [Procs -> {"idle", "lock", "look", "alloc", "asleep", "unlock", "open"}]
  /\ dev \in [Procs -> Items \union {None}]

(* Lines 246-287: no two items of the list are of one terminal, so that    *)
(* the files of one terminal share a device and those of two do not, with  *)
(* opens on several processors and the allocation between search and       *)
(* addition.                                                               *)
OneDevicePerTerminal ==
  /\ \A i, j \in list : key[i] = key[j] => i = j
  /\ \A p, q \in Procs :
       pc[p] = "open" /\ pc[q] = "open" => (dev[p] = dev[q] <=> tty[p] = tty[q])

(* higher_scull/README.md line 7, translated: never sleep in atomic        *)
(* context, a driver cannot sleep while it holds a spinlock.  What follows *)
(* from keeping to it: the holder of scull_c_lock gets a processor again.  *)
HolderRunsOn == \A p \in Procs : pc[p] = "asleep" ~> pc[p] # "asleep"
=============================================================================
