----------------------------- MODULE Completion -----------------------------
(***************************************************************************)
(* The completion device of concur/code/complete.c: read() waits for       *)
(* comp, write() completes it.  The kernel's struct completion keeps a     *)
(* count, done, and a queue of waiters under a lock of its own; it is      *)
(* modelled from how the driver uses it: complete() raises done and wakes  *)
(* the first waiter, and a waiter leaves when it finds done raised, taking *)
(* one from it.  A reader that has just arrived may take it first.         *)
(***************************************************************************)
EXTENDS Naturals, Sequences, FiniteSets, SequencesExt

CONSTANTS
  Procs,       \* processes that read and write the device
  MaxWrites    \* bound: the number of writes TLC follows

(* what the constants satisfy; Devices assumes it *)
Parameters == IsFiniteSet(Procs)

VARIABLES
  pc,          \* "idle", "start" of the wait, "asleep" or "woken"
  done,        \* comp.done
  waiters,     \* comp.wait, first come first
  writes,      \* history: writes so far
  reads,       \* history: reads that have returned so far
  called       \* history: the readers asleep at a write, until they return

vars == <<pc, done, waiters, writes, reads, called>>

Init ==
  /\ pc = [p \in Procs |-> "idle"]
  /\ done = 0 /\ waiters = <<>>
  /\ writes = 0 /\ reads = 0 /\ called = {}

(* complete_read, lines 16-23, up to the wait; it cannot be interrupted *)
Read(p) ==
  /\ pc[p] = "idle"
  /\ pc' = [pc EXCEPT ![p] = "start"]
  /\ UNCHANGED <<done, waiters, writes, reads, called>>

(* wait_for_completion: take one from done and leave the queue *)
Take(p) ==
  /\ pc[p] \in {"start", "woken"}
  /\ done > 0
  /\ done' = done - 1
  /\ \/ pc[p] = "start" /\ UNCHANGED waiters
     \/ /\ pc[p] = "woken"
        /\ \E i \in DOMAIN waiters : waiters[i] = p /\ waiters' = RemoveAt(waiters, i)
  /\ reads' = reads + 1
  /\ called' = called \ {p}
  /\ pc' = [pc EXCEPT ![p] = "idle"]
  /\ UNCHANGED writes

(* or sleep, last in the queue at first and then at one's old place *)
Sleep(p) ==
  /\ pc[p] \in {"start", "woken"}
  /\ done = 0
  /\ waiters' = IF pc[p] = "start" THEN Append(waiters, p) ELSE waiters
  /\ pc' = [pc EXCEPT ![p] = "asleep"]
  /\ UNCHANGED <<done, writes, reads, called>>

Asleep == {p \in Procs : pc[p] = "asleep"}

(* complete: one unit, and the first of the waiters asleep is woken *)
complete ==
  /\ done' = done + 1
  /\ \/ Asleep = {} /\ UNCHANGED pc
     \/ \E i \in DOMAIN waiters :
          /\ waiters[i] \in Asleep /\ \A j \in 1 .. i - 1 : waiters[j] \notin Asleep
          /\ pc' = [pc EXCEPT ![waiters[i]] = "woken"]

(* variant: comp is counted up by hand and nobody is woken *)
WriteSilent(p) ==
  /\ pc[p] = "idle"
  /\ writes < MaxWrites
  /\ done' = done + 1
  /\ writes' = writes + 1
  /\ called' = called \union Asleep
  /\ UNCHANGED <<pc, waiters, reads>>

(* variant: comp is completed only when somebody sleeps on it *)
WriteIfAwaited(p) ==
  /\ pc[p] = "idle"
  /\ writes < MaxWrites
  /\ IF Asleep = {} THEN UNCHANGED <<pc, done>> ELSE complete
  /\ writes' = writes + 1
  /\ called' = called \union Asleep
  /\ UNCHANGED <<waiters, reads>>

(* complete_write, lines 25-32, which never blocks *)
Write(p) ==
  /\ pc[p] = "idle"
  /\ writes < MaxWrites   \* bound
  /\ complete
  /\ writes' = writes + 1
  /\ called' = called \union Asleep
  /\ UNCHANGED <<waiters, reads>>

Next == \E p \in Procs : Read(p) \/ Take(p) \/ Sleep(p) \/ Write(p)

Spec == Init /\ [][Next]_vars

(* a reader that is not asleep runs on; nobody has to write *)
FairSpec == Spec /\ \A p \in Procs : WF_vars(Take(p) \/ Sleep(p))

-----------------------------------------------------------------------------
Woken == {p \in Procs : pc[p] = "woken"}
Waiting(p) == pc[p] \in {"start", "asleep", "woken"}

TypeInvariant ==
  /\ pc \in [Procs -> {"idle", "start", "asleep", "woken"}]
  /\ done \in Nat /\ writes \in Nat /\ reads \in Nat
  /\ waiters \in Seq(Procs)
  /\ called \subseteq Procs

(* Each write lets exactly one read return, then or later: none is lost    *)
(* and none counts twice, whoever overtakes the waiter that was woken.     *)
UnitsConserved == reads + done = writes

(* The queue holds the readers that wait and no other, and while one of    *)
(* them sleeps every unit in done has a reader awake on its way to it.     *)
NoLostCompletion ==
  /\ {waiters[i] : i \in DOMAIN waiters} = {p \in Procs : pc[p] \in {"asleep", "woken"}}
  /\ Asleep # {} => done <= Cardinality(Woken)

(* A reader waits on only while there is nothing to take. *)
UnitsTaken == \A p \in Procs : Waiting(p) /\ done > 0 ~> ~Waiting(p) \/ done = 0

(* concur/README.md:230 says of this device (in Chinese) that every        *)
(* process that reads it blocks and that, as soon as there is a write, all *)
(* of them are woken: whoever was asleep in read() when a write came gets  *)
(* out.                                                                    *)
WriteReleasesAll == \A p \in Procs : p \in called ~> p \notin called

-----------------------------------------------------------------------------
(* What NoLostCompletion rests on: nobody is in the queue twice.           *)
NoDuplicates == \A i, j \in DOMAIN waiters : waiters[i] = waiters[j] => i = j

Inv == TypeInvariant /\ UnitsConserved /\ NoDuplicates /\ NoLostCompletion
=============================================================================
