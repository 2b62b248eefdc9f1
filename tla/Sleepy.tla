------------------------------- MODULE Sleepy -------------------------------
(***************************************************************************)
(* The sleeping device of higher_scull/code/sleepy.c: read() sleeps until  *)
(* flag is set and clears it, write() sets flag and wakes the queue.  No   *)
(* lock protects flag.  wait_event_interruptible is the kernel's: it       *)
(* enqueues the task, tests the condition, and returns when the condition  *)
(* holds or a signal is pending; sleepy_read ignores which of the two.     *)
(***************************************************************************)
EXTENDS Naturals

CONSTANTS
  Procs,     \* processes, each of which may read and write
  Signals    \* whether signals may interrupt a sleeping reader

VARIABLES
  pc,        \* where each process is in its system call
  flag,      \* the variable flag
  wq,        \* the tasks enqueued on wq and not woken since
  signal     \* signal_pending() of each process

vars == <<pc, flag, wq, signal>>

Blocked(p) == pc[p] \in {"prepare", "check", "sched"}
Asleep(p) == pc[p] = "sched" /\ p \in wq

Init ==
  /\ pc = [p \in Procs |-> "idle"]
  /\ flag = 0
  /\ wq = {}
  /\ signal = [p \in Procs |-> FALSE]

Read(p) ==
  /\ pc[p] = "idle"
  /\ pc' = [pc EXCEPT ![p] = "prepare"]
  /\ UNCHANGED <<flag, wq, signal>>

Prepare(p) ==
  /\ pc[p] = "prepare"
  /\ wq' = wq \union {p}
  /\ pc' = [pc EXCEPT ![p] = "check"]
  /\ UNCHANGED <<flag, signal>>

(* the condition flag # 0, tested without a lock; a signal ends the wait *)
Check(p) ==
  /\ pc[p] = "check"
  /\ \/ /\ flag # 0 \/ signal[p]
        /\ pc' = [pc EXCEPT ![p] = "clear"]
        /\ wq' = wq \ {p}
     \/ /\ flag = 0 /\ ~signal[p]
        /\ pc' = [pc EXCEPT ![p] = "sched"]
        /\ UNCHANGED wq
  /\ UNCHANGED <<flag, signal>>

Awake(p) ==
  /\ pc[p] = "sched"
  /\ p \notin wq \/ signal[p]
  /\ pc' = [pc EXCEPT ![p] = "prepare"]
  /\ UNCHANGED <<flag, wq, signal>>

(* variant: flag is counted down *)
ClearOne(p) ==
  /\ pc[p] = "clear"
  /\ flag' = flag - 1
  /\ pc' = [pc EXCEPT ![p] = "idle"]
  /\ signal' = [signal EXCEPT ![p] = FALSE]
  /\ UNCHANGED wq

(* line 22, reached whatever ended the wait; read() then returns 0 *)
Clear(p) ==
  /\ pc[p] = "clear"
  /\ flag' = 0
  /\ pc' = [pc EXCEPT ![p] = "idle"]
  /\ signal' = [signal EXCEPT ![p] = FALSE]
  /\ UNCHANGED wq

(* line 32 *)
Write(p) ==
  /\ pc[p] = "idle"
  /\ flag' = 1
  /\ pc' = [pc EXCEPT ![p] = "wake"]
  /\ UNCHANGED <<wq, signal>>

(* variant: the wake-up is forgotten *)
WakeNobody(p) ==
  /\ pc[p] = "wake"
  /\ pc' = [pc EXCEPT ![p] = "idle"]
  /\ UNCHANGED <<flag, wq, signal>>

(* line 33 *)
Wake(p) ==
  /\ pc[p] = "wake"
  /\ wq' = {}
  /\ pc' = [pc EXCEPT ![p] = "idle"]
  /\ UNCHANGED <<flag, signal>>

Signal(p) ==
  /\ Signals
  /\ Blocked(p)
  /\ signal' = [signal EXCEPT ![p] = TRUE]
  /\ UNCHANGED <<pc, flag, wq>>

Step(p) == Prepare(p) \/ Check(p) \/ Awake(p) \/ Clear(p) \/ Wake(p)

Next == \E p \in Procs : Read(p) \/ Write(p) \/ Signal(p) \/ Step(p)

Spec == Init /\ [][Next]_vars

(* a process inside the driver runs on; nobody has to call it *)
FairSpec == Spec /\ \A p \in Procs : WF_vars(Step(p))

-----------------------------------------------------------------------------
TypeInvariant ==
  /\ pc \in [Procs -> {"idle", "prepare", "check", "sched", "clear", "wake"}]
  /\ flag \in {0, 1}
  /\ wq \subseteq Procs
  /\ signal \in [Procs -> BOOLEAN]

(* A reader asleep while flag is set is one a write past line 32 is about  *)
(* to wake at line 33: the unlocked test of line 21 loses no wake-up.      *)
NoLostWakeup ==
  (\E p \in Procs : Asleep(p)) /\ flag # 0 => \E q \in Procs : pc[q] = "wake"

(* A write that finds readers blocked lets at least one of them out, in    *)
(* whatever order the readers test flag and clear it (lines 21-22, 32-33): *)
(* one that clears flag was itself on its way out.                         *)
ReaderReleased ==
  (\E p \in Procs : Blocked(p)) /\ flag # 0 ~> \E p \in Procs : pc[p] = "clear"

(* higher_scull/README.md:56: as soon as some process writes to the        *)
(* device, all the sleeping processes are woken up.  A reader that sleeps  *)
(* when a writer reaches line 33 would then leave its wait.                *)
WriteWakesAll ==
  \A p, q \in Procs : pc[q] = "wake" /\ Asleep(p) ~> ~Blocked(p)
=============================================================================
