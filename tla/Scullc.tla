------------------------------- MODULE Scullc -------------------------------
(***************************************************************************)
(* scullc of alloc_mem/code/scullslab/main.c: one device whose data is a   *)
(* list of items, each with an array of quanta taken from a slab cache     *)
(* that is created after the device answers.  A byte is 0, written (1) or  *)
(* left over in the cache (Stale).  Neither ioctl nor mmap is in           *)
(* scullc_fops, so quantum and qset stay what they are and vmas stays 0.   *)
(***************************************************************************)
EXTENDS Integers, FiniteSets

CONSTANTS
  Procs,
  Quantum, Qset,   \* scullc_quantum, scullc_qset
  MaxPos           \* bound on the positions written and read

(* what the constants satisfy; Devices assumes it *)
Parameters ==
  {Quantum, Qset} \subseteq Nat \ {0} /\ MaxPos \in Nat /\ "free" \notin Procs

VARIABLES
  cache,    \* scullc_cache: none while the module loads, then there
  sem,      \* the process that holds dev->sem, or "free"
  items,    \* length of the list of items, the first of them static
  arrays,   \* items that have an array of quanta
  quanta,   \* contents of the quanta allocated: <<item, s_pos>> -> bytes
  size,     \* dev->size
  pc, op,   \* where each process is in its call, and its arguments
  aio       \* asynchronous requests: none, queued, or lost

vars == <<cache, sem, items, arrays, quanta, size, pc, op, aio>>
store == <<items, arrays, quanta, size>>

Stale == -1
Bytes == {Stale, 0, 1}
NoOp == [kind |-> "none", pos |-> 0, count |-> 0]
ItemSize == Quantum * Qset
Item(pos) == pos \div ItemSize
Place(pos) == <<Item(pos), (pos % ItemSize) \div Quantum>>
QPos(pos) == pos % Quantum

Init ==
  /\ cache = FALSE /\ sem = "free"
  /\ items = 1 /\ arrays = {} /\ quanta = [k \in {} |-> 0] /\ size = 0
  /\ pc = [p \in Procs |-> "closed"] /\ op = [p \in Procs |-> NoOp]
  /\ aio = [p \in Procs |-> "none"]

(* the end of scullc_init: files may be open by now *)
CreateCache ==
  /\ ~cache /\ cache' = TRUE
  /\ UNCHANGED <<sem, store, pc, op, aio>>

-----------------------------------------------------------------------------
Open(p) ==
  /\ pc[p] = "closed"
  /\ pc' = [pc EXCEPT ![p] = "open"]
  /\ UNCHANGED <<cache, sem, store, op, aio>>

Release(p) ==
  /\ pc[p] = "open" /\ aio[p] = "none" /\ pc' = [pc EXCEPT ![p] = "closed"]
  /\ UNCHANGED <<cache, sem, store, op, aio>>

(* A write-only open trims under the semaphore.  scullc_trim frees every   *)
(* quantum, array and item but the first.                                  *)
OpenTrims(p) ==
  /\ pc[p] = "closed" /\ sem = "free"
  /\ items' = 1 /\ arrays' = {} /\ quanta' = [k \in {} |-> 0] /\ size' = 0
  /\ pc' = [pc EXCEPT ![p] = "open"]
  /\ UNCHANGED <<cache, sem, op, aio>>

Call(p, kind, pos, n) ==
  /\ pc[p] = "open" /\ sem = "free"
  /\ sem' = p
  /\ pc' = [pc EXCEPT ![p] = kind]
  /\ op' = [op EXCEPT ![p] = [kind |-> kind, pos |-> pos, count |-> n]]
  /\ UNCHANGED <<cache, store, aio>>

(* up(); an asynchronous request then queues its completion, if it gets    *)
(* the memory for it, and goes back with the result otherwise              *)
Return(p) ==
  /\ sem' = "free" /\ pc' = [pc EXCEPT ![p] = "open"]
  /\ op' = [op EXCEPT ![p] = NoOp]
  /\ \/ UNCHANGED aio
     \/ aio[p] = "none" /\ aio' = [aio EXCEPT ![p] = "queued"]

(* scullc_follow: reading extends the list as well.  Its kmalloc is not    *)
(* checked: on a failure the process dies here, with the semaphore.        *)
Follow(p, next) ==
  /\ items' = IF Item(op[p].pos) >= items THEN Item(op[p].pos) + 1 ELSE items
  /\ pc' = [pc EXCEPT ![p] = next]

Dies(p) ==
  /\ \/ pc[p] \in {"read", "write"} /\ Item(op[p].pos) >= items
     \/ pc[p] = "quantum" /\ ~cache /\ Place(op[p].pos) \notin DOMAIN quanta
  /\ pc' = [pc EXCEPT ![p] = "dead"]
  /\ UNCHANGED <<cache, sem, store, op, aio>>

ReadFollows(p) ==
  /\ pc[p] = "read" /\ op[p].pos <= size
  /\ Follow(p, "copyout")
  /\ UNCHANGED <<cache, sem, arrays, quanta, size, op, aio>>

Readable(p) ==
  LET n == IF op[p].pos + op[p].count > size THEN size - op[p].pos ELSE op[p].count
  IN IF n > Quantum - QPos(op[p].pos) THEN Quantum - QPos(op[p].pos) ELSE n

(* what copy_to_user hands out; nothing for a hole or beyond the end       *)
Handed(p) ==
  IF pc[p] # "copyout" \/ Place(op[p].pos) \notin DOMAIN quanta THEN {}
  ELSE {quanta[Place(op[p].pos)][QPos(op[p].pos) + k] : k \in 0 .. Readable(p) - 1}

ReadReturns(p) ==
  /\ pc[p] = "copyout" \/ (pc[p] = "read" /\ op[p].pos > size)
  /\ Return(p)
  /\ UNCHANGED <<cache, store>>

-----------------------------------------------------------------------------
WriteFollows(p) ==
  /\ pc[p] = "write"
  /\ Follow(p, "array")
  /\ UNCHANGED <<cache, sem, arrays, quanta, size, op, aio>>

WriteArray(p) ==
  /\ pc[p] = "array"
  /\ arrays' = arrays \union {Item(op[p].pos)}
  /\ pc' = [pc EXCEPT ![p] = "quantum"]
  /\ UNCHANGED <<cache, sem, items, quanta, size, op, aio>>

NewQuantum(place, byte) ==
  quanta' = [k \in DOMAIN quanta \union {place} |->
               IF k \in DOMAIN quanta THEN quanta[k]
               ELSE [b \in 0 .. Quantum - 1 |-> byte]]

(* variant: the quantum is not cleared *)
WriteQuantumDirty(p) ==
  /\ pc[p] = "quantum" /\ (cache \/ Place(op[p].pos) \in DOMAIN quanta)
  /\ NewQuantum(Place(op[p].pos), Stale)
  /\ pc' = [pc EXCEPT ![p] = "copyin"]
  /\ UNCHANGED <<cache, sem, items, arrays, size, op, aio>>

(* kmem_cache_alloc and memset, unless the quantum is there; without the   *)
(* cache it is the end of the process                                      *)
WriteQuantum(p) ==
  /\ pc[p] = "quantum" /\ (cache \/ Place(op[p].pos) \in DOMAIN quanta)
  /\ NewQuantum(Place(op[p].pos), 0)
  /\ pc' = [pc EXCEPT ![p] = "copyin"]
  /\ UNCHANGED <<cache, sem, items, arrays, size, op, aio>>

NoMemory(p) ==
  /\ \/ pc[p] = "array" /\ Item(op[p].pos) \notin arrays
     \/ pc[p] = "quantum" /\ cache /\ Place(op[p].pos) \notin DOMAIN quanta
  /\ Return(p)
  /\ UNCHANGED <<cache, store>>

Written(p) ==
  IF op[p].count > Quantum - QPos(op[p].pos) THEN Quantum - QPos(op[p].pos)
  ELSE op[p].count

(* n bytes arrive; fewer than all of them is the fault of copy_from_user,  *)
(* and then neither size nor position moves                                *)
WriteCopies(p, n) ==
  /\ pc[p] = "copyin" /\ n \in 0 .. Written(p)
  /\ quanta' = [quanta EXCEPT ![Place(op[p].pos)] =
       [b \in 0 .. Quantum - 1 |->
          IF b \in QPos(op[p].pos) .. QPos(op[p].pos) + n - 1 THEN 1 ELSE @[b]]]
  /\ size' = IF n = Written(p) /\ size < op[p].pos + n THEN op[p].pos + n ELSE size
  /\ Return(p)
  /\ UNCHANGED <<cache, items, arrays>>

(* scullc_do_deferred_op gets the work_struct inside the request and takes *)
(* it for the request: the pointer it completes is not the request's       *)
Deferred(p) ==
  /\ aio[p] = "queued" /\ aio' = [aio EXCEPT ![p] = "lost"]
  /\ UNCHANGED <<cache, sem, store, pc, op>>

Step(p) == \/ Dies(p) \/ ReadFollows(p) \/ ReadReturns(p) \/ WriteFollows(p)
           \/ WriteArray(p) \/ WriteQuantum(p) \/ NoMemory(p)
           \/ \E n \in 0..Quantum : WriteCopies(p, n)

Next ==
  \/ CreateCache
  \/ \E p \in Procs :
       \/ Open(p) \/ Release(p) \/ OpenTrims(p) \/ Step(p) \/ Deferred(p)
       \/ \E kind \in {"read", "write"}, pos \in 0..MaxPos, n \in 1..Quantum :
            Call(p, kind, pos, n)

-----------------------------------------------------------------------------
TypeInvariant ==
  /\ cache \in BOOLEAN /\ sem \in Procs \union {"free"}
  /\ items \in Nat /\ arrays \subseteq 0 .. items - 1 /\ size \in Nat
  /\ \A k \in DOMAIN quanta : quanta[k] \in [0 .. Quantum - 1 -> Bytes]
  /\ pc \in [Procs -> {"closed", "open", "read", "copyout", "write", "array",
                       "quantum", "copyin", "dead"}]
  /\ op \in [Procs -> [kind : {"none", "read", "write"}, pos : Nat, count : Nat]]
  /\ aio \in [Procs -> {"none", "queued", "lost"}]

(* Lines 152-251, 459-485: whatever allocations and copies failed on the   *)
(* way and whoever trimmed in between, a read hands out bytes that were    *)
(* written or cleared, never what the cache left in a quantum, and every   *)
(* quantum hangs in an array of an item that the next trim will find.      *)
NoStaleBytes ==
  /\ \A p \in Procs : Stale \notin Handed(p)
  /\ \A k \in DOMAIN quanta : k[1] \in arrays /\ k[1] < items /\ k[2] < Qset

-----------------------------------------------------------------------------
(* What NoStaleBytes rests on: who is in a call holds the semaphore, dead  *)
(* or alive, so no trim comes between its steps, and each step finds what  *)
(* the earlier ones made.                                                  *)
SemExact == \A p \in Procs : pc[p] \notin {"closed", "open"} => sem = p

StepsSound ==
  \A p \in Procs :
    /\ pc[p] \in {"array", "quantum", "copyin"} => Item(op[p].pos) < items
    /\ pc[p] \in {"quantum", "copyin"} => Item(op[p].pos) \in arrays

QuantaClean ==
  \A k \in DOMAIN quanta :
    /\ k \in arrays \X (0 .. Qset - 1)
    /\ quanta[k] \in [0 .. Quantum - 1 -> {0, 1}]

Inv == TypeInvariant /\ SemExact /\ StepsSound /\ QuantaClean
=============================================================================
