------------------------------ MODULE ScullPipe ------------------------------
(***************************************************************************)
(* The blocking pipe device of higher_scull/high_scull/pipe.c: one         *)
(* struct scull_pipe shared by processes that open, read, write, poll and  *)
(* release it.  A process runs one system call at a time; its pc says      *)
(* where in that call it is.  Steps taken with dev->sem held are merged as *)
(* far as no code that runs without the semaphore can see the difference;  *)
(* the two unlocked readers of rp and wp (the condition of wait_event at   *)
(* line 120, and spacefree at line 158) sample one pointer at a time, and  *)
(* the writers of the pointers show them the value they have between the   *)
(* advance and the wrap (lines 135-137 and 202-204).                       *)
(***************************************************************************)
EXTENDS Integers, Sequences, FiniteSets

CONSTANTS
  Procs,      \* processes, each with at most one open file on the device
  Size,       \* scull_p_buffer, the module parameter
  Byte,       \* the values of a byte of user data
  Junk,       \* the content of memory kmalloc has just returned
  Counts,     \* the sizes users ask for in read() and write()
  Modes,      \* the f_modes users open with, subsets of {"r", "w"}
  Nonblock,   \* the values O_NONBLOCK takes in f_flags, a subset of BOOLEAN
  Signals     \* whether signals are sent to the processes (other than SIGIO)

ASSUME ProcsAssumption == IsFiniteSet(Procs)
ASSUME SizeAssumption == Size \in Nat \ {0}
ASSUME CountsAssumption == Counts \subseteq Nat
ASSUME ModesAssumption == Modes \subseteq (SUBSET {"r", "w"}) \ {{}}
ASSUME FlagsAssumption == Nonblock \subseteq BOOLEAN /\ Signals \in BOOLEAN

VARIABLES
  pc,           \* where each process is in its system call
  f_mode,       \* filp->f_mode of the file each process has open
  signal,       \* signal_pending() of each process
  seen,         \* dev->rp as just sampled without the semaphore, else 0
  sem,          \* the count of dev->sem
  buffer,       \* dev->buffer # NULL
  ring,         \* the bytes from dev->buffer to dev->end
  rp, wp,       \* dev->rp - dev->buffer and dev->wp - dev->buffer
  nreaders, nwriters,
  inq, outq,    \* the tasks asleep, or about to sleep, on each wait queue
  async_queue,  \* the files registered for SIGIO
  xfer,         \* history: the transfer to or from user space under way
  orphans       \* history: who was on outq when an open reset the buffer

procVars == <<pc, signal>>
ringVars == <<buffer, ring, rp, wp>>
openVars == <<f_mode, nreaders, nwriters>>
waitVars == <<inq, outq, orphans>>
vars == <<procVars, seen, sem, ringVars, openVars, waitVars, async_queue, xfer>>

(***************************************************************************)
(* Program locations.  A location in Holding is one where the process is   *)
(* between a down and its up.                                              *)
(***************************************************************************)
Outside == {"closed", "idle"}
Interruptible == {"open_down", "r_down", "w_down", "proc_down"}
Downs == Interruptible \union {"release_down", "poll_down"}
Holding == {"open_cs", "release_cs", "r_cs", "r_wrap", "w_cs", "w_wrap",
            "poll_cs", "proc_cs"}
Waiting == {"r_prepare", "r_check", "r_check2", "r_sched",
            "w_prepare", "w_check", "w_check2", "w_sched", "poll_sched"}
Waking == {"r_wake", "w_wake", "w_sigio"}
Locations == Outside \union Downs \union Holding \union Waiting \union Waking

Least(a, b) == IF a <= b THEN a ELSE b

(* variant: no slot of the buffer kept free *)
spacefreeWhole(r, w) == IF r = w THEN Size ELSE (r + Size - w) % Size

(* spacefree, lines 170-175, on the pointer values it reads *)
spacefree(r, w) == IF r = w THEN Size - 1 ELSE ((r + Size - w) % Size) - 1

NoXfer == [op |-> "none", count |-> 0, bytes |-> <<>>]

Init ==
  /\ pc = [p \in Procs |-> "closed"]
  /\ f_mode = [p \in Procs |-> {}]
  /\ signal = [p \in Procs |-> FALSE]
  /\ seen = [p \in Procs |-> 0]
  /\ sem = 1
  /\ buffer = FALSE
  /\ ring = [i \in 0 .. Size - 1 |-> Junk]
  /\ rp = 0 /\ wp = 0
  /\ nreaders = 0 /\ nwriters = 0
  /\ inq = {} /\ outq = {} /\ orphans = {}
  /\ async_queue = {}
  /\ xfer = NoXfer

Goto(p, l) == pc' = [pc EXCEPT ![p] = l] /\ UNCHANGED signal

(* a system call returns to user mode, where pending signals are delivered *)
Return(p, l) == /\ pc' = [pc EXCEPT ![p] = l]
                /\ signal' = [signal EXCEPT ![p] = FALSE]

(* a user process enters a system call *)
Call(p, from, to) ==
  /\ pc[p] = from
  /\ Goto(p, to)
  /\ UNCHANGED <<seen, sem, ringVars, openVars, waitVars, xfer>>

(***************************************************************************)
(* The semaphore.  down and down_interruptible take it when it is free; a  *)
(* caller that would have to wait leaves down_interruptible when a signal  *)
(* is pending, and the call returns -ERESTARTSYS.                          *)
(***************************************************************************)
Enter(l) == CASE l = "open_down" -> "open_cs"
              [] l = "release_down" -> "release_cs"
              [] l = "r_down" -> "r_cs"
              [] l = "w_down" -> "w_cs"
              [] l = "poll_down" -> "poll_cs"
              [] l = "proc_down" -> "proc_cs"

Down(p) ==
  /\ pc[p] \in Downs
  /\ sem > 0
  /\ sem' = sem - 1
  /\ Goto(p, Enter(pc[p]))
  /\ UNCHANGED <<seen, ringVars, openVars, waitVars, async_queue, xfer>>

DownInterrupted(p) ==
  /\ pc[p] \in Interruptible
  /\ sem = 0
  /\ signal[p]
  /\ Return(p, IF pc[p] \in {"open_down", "proc_down"} THEN "closed" ELSE "idle")
  /\ UNCHANGED <<seen, sem, ringVars, openVars, waitVars, async_queue, xfer>>

up == sem' = sem + 1

(***************************************************************************)
(* scull_p_open, lines 50-79.  A failed kmalloc leaves no trace.  The      *)
(* buffer is reset by every open, not only by the one that allocates it.   *)
(***************************************************************************)
Open(p) == Call(p, "closed", "open_down") /\ UNCHANGED async_queue

OpenNoMemory(p) ==
  /\ pc[p] = "open_cs"
  /\ ~buffer
  /\ up
  /\ Return(p, "closed")
  /\ UNCHANGED <<seen, ringVars, openVars, waitVars, async_queue, xfer>>

Count(m, l) == IF l \in m THEN 1 ELSE 0

OpenReset(p) ==
  /\ pc[p] = "open_cs"
  /\ buffer' = TRUE
  /\ ring' = IF buffer THEN ring ELSE [i \in 0 .. Size - 1 |-> Junk]
  /\ rp' = 0 /\ wp' = 0
  /\ \E m \in Modes :
       /\ f_mode' = [f_mode EXCEPT ![p] = m]
       /\ nreaders' = nreaders + Count(m, "r")
       /\ nwriters' = nwriters + Count(m, "w")
  /\ up
  /\ Return(p, "idle")
  /\ orphans' = outq
  /\ UNCHANGED <<seen, inq, outq, async_queue, xfer>>

(***************************************************************************)
(* scull_p_release, lines 83-100: the file leaves the SIGIO list before    *)
(* the semaphore is taken, and the last file frees the buffer.             *)
(***************************************************************************)
Release(p) ==
  /\ Call(p, "idle", "release_down")
  /\ async_queue' = async_queue \ {p}

(* variant: every release frees the buffer *)
ReleaseFileFrees(p) ==
  /\ pc[p] = "release_cs"
  /\ f_mode' = [f_mode EXCEPT ![p] = {}]
  /\ nreaders' = nreaders - Count(f_mode[p], "r")
  /\ nwriters' = nwriters - Count(f_mode[p], "w")
  /\ buffer' = FALSE
  /\ ring' = [i \in 0 .. Size - 1 |-> Junk]
  /\ up
  /\ Return(p, "closed")
  /\ UNCHANGED <<seen, rp, wp, waitVars, async_queue, xfer>>

ReleaseFile(p) ==
  /\ pc[p] = "release_cs"
  /\ f_mode' = [f_mode EXCEPT ![p] = {}]
  /\ nreaders' = nreaders - Count(f_mode[p], "r")
  /\ nwriters' = nwriters - Count(f_mode[p], "w")
  /\ IF nreaders' + nwriters' = 0
     THEN /\ buffer' = FALSE
          /\ ring' = [i \in 0 .. Size - 1 |-> Junk]
     ELSE UNCHANGED <<buffer, ring>>
  /\ up
  /\ Return(p, "closed")
  /\ UNCHANGED <<seen, rp, wp, waitVars, async_queue, xfer>>

(***************************************************************************)
(* scull_p_read, lines 107-144                                             *)
(***************************************************************************)
Read(p) == /\ "r" \in f_mode[p]
           /\ Call(p, "idle", "r_down")
           /\ UNCHANGED async_queue

(* lines 115-118: nothing to read, give up or go to sleep *)
ReadEmpty(p) ==
  /\ pc[p] = "r_cs"
  /\ rp = wp
  /\ up
  /\ \E nb \in Nonblock : IF nb THEN Return(p, "idle") ELSE Goto(p, "r_prepare")
  /\ UNCHANGED <<seen, ringVars, openVars, waitVars, async_queue, xfer>>

(* lines 127-130: the contiguous bytes a read of c bytes can take *)
Readable(c) == Least(c, IF wp > rp THEN wp - rp ELSE Size - rp)

ReadCopy(p) ==
  /\ pc[p] = "r_cs"
  /\ rp # wp
  /\ \E c \in Counts :
       /\ rp' = rp + Readable(c)
       /\ xfer' = [op |-> "read", count |-> c,
                   bytes |-> [i \in 1 .. Readable(c) |-> ring[rp + i - 1]]]
  /\ Goto(p, "r_wrap")
  /\ UNCHANGED <<seen, sem, buffer, ring, wp, openVars, waitVars, async_queue>>

(* variant: -EFAULT is returned with the semaphore held *)
ReadFaultLeak(p) ==
  /\ pc[p] = "r_cs"
  /\ rp # wp
  /\ Return(p, "idle")
  /\ UNCHANGED <<seen, sem, ringVars, openVars, waitVars, async_queue, xfer>>

(* lines 131-134: copy_to_user fails and nothing is consumed *)
ReadFault(p) ==
  /\ pc[p] = "r_cs"
  /\ rp # wp
  /\ up
  /\ Return(p, "idle")
  /\ UNCHANGED <<seen, ringVars, openVars, waitVars, async_queue, xfer>>

ReadWrap(p) ==
  /\ pc[p] = "r_wrap"
  /\ rp' = IF rp = Size THEN 0 ELSE rp
  /\ up
  /\ Goto(p, "r_wake")
  /\ xfer' = NoXfer
  /\ UNCHANGED <<seen, buffer, ring, wp, openVars, waitVars, async_queue>>

(* variant: the wrong queue is woken *)
ReadWakeInq(p) ==
  /\ pc[p] = "r_wake"
  /\ inq' = {}
  /\ Return(p, "idle")
  /\ UNCHANGED <<seen, sem, ringVars, openVars, outq, orphans, async_queue, xfer>>

ReadWake(p) ==
  /\ pc[p] = "r_wake"
  /\ outq' = {} /\ orphans' = {}
  /\ Return(p, "idle")
  /\ UNCHANGED <<seen, sem, ringVars, openVars, inq, async_queue, xfer>>

(***************************************************************************)
(* wait_event_interruptible(dev->inq, dev->rp != dev->wp), line 120: the   *)
(* task enters the queue, samples the condition, and sleeps until a wake   *)
(* up takes it off the queue or a signal arrives.                          *)
(***************************************************************************)
ReadPrepare(p) ==
  /\ pc[p] = "r_prepare"
  /\ inq' = inq \union {p}
  /\ Goto(p, "r_check")
  /\ UNCHANGED <<seen, sem, ringVars, openVars, outq, orphans, async_queue, xfer>>

(* either unlocked reader samples dev->rp first *)
Sample(p) ==
  /\ \/ pc[p] = "r_check" /\ Goto(p, "r_check2")
     \/ pc[p] = "w_check" /\ Goto(p, "w_check2")
  /\ seen' = [seen EXCEPT ![p] = rp]
  /\ UNCHANGED <<sem, ringVars, openVars, waitVars, async_queue, xfer>>

ReadCheck(p) ==
  /\ pc[p] = "r_check2"
  /\ \/ /\ seen[p] # wp
        /\ inq' = inq \ {p}
        /\ Goto(p, "r_down")
     \/ /\ seen[p] = wp
        /\ signal[p]
        /\ inq' = inq \ {p}
        /\ Return(p, "idle")
     \/ /\ seen[p] = wp
        /\ ~signal[p]
        /\ Goto(p, "r_sched")
        /\ UNCHANGED inq
  /\ seen' = [seen EXCEPT ![p] = 0]
  /\ UNCHANGED <<sem, ringVars, openVars, outq, orphans, async_queue, xfer>>

ReadAwake(p) ==
  /\ pc[p] = "r_sched"
  /\ p \notin inq \/ signal[p]
  /\ Goto(p, "r_prepare")
  /\ UNCHANGED <<seen, sem, ringVars, openVars, waitVars, async_queue, xfer>>

(***************************************************************************)
(* scull_p_write, lines 177-215, and scull_getwritespace, lines 148-167    *)
(***************************************************************************)
Write(p) == /\ "w" \in f_mode[p]
            /\ Call(p, "idle", "w_down")
            /\ UNCHANGED async_queue

WriteFull(p) ==
  /\ pc[p] = "w_cs"
  /\ spacefree(rp, wp) = 0
  /\ up
  /\ \E nb \in Nonblock : IF nb THEN Return(p, "idle") ELSE Goto(p, "w_prepare")
  /\ UNCHANGED <<seen, ringVars, openVars, waitVars, async_queue, xfer>>

(* variant: a write may run across the end of the buffer *)
WritableAcross(c) == Least(c, spacefree(rp, wp))

(* lines 192-196: the contiguous bytes a write of c bytes can put *)
Writable(c) == Least(Least(c, spacefree(rp, wp)),
                     IF wp >= rp THEN Size - wp ELSE rp - wp - 1)

(* the memory after the bytes s have been copied to wp *)
Stored(s) == [i \in 0 .. Size - 1 |->
                IF i \in wp .. wp + Len(s) - 1 THEN s[i - wp + 1] ELSE ring[i]]

WriteCopy(p) ==
  /\ pc[p] = "w_cs"
  /\ spacefree(rp, wp) # 0
  /\ \E c \in Counts : \E s \in [1 .. Writable(c) -> Byte] :
       /\ ring' = Stored(s)
       /\ wp' = wp + Writable(c)
       /\ xfer' = [op |-> "write", count |-> c, bytes |-> s]
  /\ Goto(p, "w_wrap")
  /\ UNCHANGED <<seen, sem, buffer, rp, openVars, waitVars, async_queue>>

(* lines 198-201: copy_from_user stops after a proper prefix of the bytes *)
WriteFault(p) ==
  /\ pc[p] = "w_cs"
  /\ spacefree(rp, wp) # 0
  /\ \E c \in Counts : \E n \in 0 .. Writable(c) - 1 : \E s \in [1 .. n -> Byte] :
       ring' = Stored(s)
  /\ up
  /\ Return(p, "idle")
  /\ UNCHANGED <<seen, buffer, rp, wp, openVars, waitVars, async_queue, xfer>>

WriteWrap(p) ==
  /\ pc[p] = "w_wrap"
  /\ wp' = IF wp = Size THEN 0 ELSE wp
  /\ up
  /\ Goto(p, "w_wake")
  /\ xfer' = NoXfer
  /\ UNCHANGED <<seen, buffer, ring, rp, openVars, waitVars, async_queue>>

(* variant: the wrong queue is woken *)
WriteWakeOutq(p) ==
  /\ pc[p] = "w_wake"
  /\ outq' = {} /\ orphans' = {}
  /\ Goto(p, "w_sigio")
  /\ UNCHANGED <<seen, sem, ringVars, openVars, inq, async_queue, xfer>>

WriteWake(p) ==
  /\ pc[p] = "w_wake"
  /\ inq' = {}
  /\ Goto(p, "w_sigio")
  /\ UNCHANGED <<seen, sem, ringVars, openVars, outq, orphans, async_queue, xfer>>

(* lines 211-212: kill_fasync; a process in user mode takes SIGIO at once *)
WriteSigio(p) ==
  /\ pc[p] = "w_sigio"
  /\ pc' = [pc EXCEPT ![p] = "idle"]
  /\ signal' = [q \in Procs |-> IF q = p THEN FALSE
                                ELSE \/ signal[q]
                                     \/ q \in async_queue /\ pc[q] # "idle"]
  /\ UNCHANGED <<seen, sem, ringVars, openVars, waitVars, async_queue, xfer>>

WritePrepare(p) ==
  /\ pc[p] = "w_prepare"
  /\ outq' = outq \union {p}
  /\ Goto(p, "w_check")
  /\ UNCHANGED <<seen, sem, ringVars, openVars, inq, orphans, async_queue, xfer>>

(* lines 160-163: finish_wait, then back to the semaphore unless signalled *)
FinishWait(p) ==
  /\ outq' = outq \ {p}
  /\ orphans' = orphans \ {p}
  /\ IF signal[p] THEN Return(p, "idle") ELSE Goto(p, "w_down")

WriteCheck(p) ==
  /\ pc[p] = "w_check2"
  /\ \/ /\ spacefree(seen[p], wp) = 0
        /\ Goto(p, "w_sched")
        /\ UNCHANGED <<outq, orphans>>
     \/ /\ spacefree(seen[p], wp) # 0
        /\ FinishWait(p)
  /\ seen' = [seen EXCEPT ![p] = 0]
  /\ UNCHANGED <<sem, ringVars, openVars, inq, async_queue, xfer>>

WriteAwake(p) ==
  /\ pc[p] = "w_sched"
  /\ p \notin outq \/ signal[p]
  /\ FinishWait(p)
  /\ UNCHANGED <<seen, sem, ringVars, openVars, inq, async_queue, xfer>>

(***************************************************************************)
(* scull_p_poll, lines 217-236, called by poll(), which sleeps until an    *)
(* event its caller asked for is there: those of the modes of the file.    *)
(***************************************************************************)
Poll(p) == Call(p, "idle", "poll_down") /\ UNCHANGED async_queue

Ready(p) == \/ "r" \in f_mode[p] /\ rp # wp
            \/ "w" \in f_mode[p] /\ spacefree(rp, wp) # 0

PollCheck(p) ==
  /\ pc[p] = "poll_cs"
  /\ up
  /\ \/ /\ Ready(p) \/ signal[p]
        /\ Return(p, "idle")
        /\ inq' = inq \ {p} /\ outq' = outq \ {p}
     \/ /\ ~Ready(p)
        /\ ~signal[p]
        /\ Goto(p, "poll_sched")
        /\ inq' = inq \union {p} /\ outq' = outq \union {p}
  /\ orphans' = orphans \ {p}
  /\ UNCHANGED <<seen, ringVars, openVars, async_queue, xfer>>

PollAwake(p) ==
  /\ pc[p] = "poll_sched"
  /\ p \notin inq \/ p \notin outq \/ signal[p]
  /\ Goto(p, "poll_down")
  /\ UNCHANGED <<seen, sem, ringVars, openVars, waitVars, async_queue, xfer>>

(* scull_p_fasync, lines 242-247, reached by fcntl(F_SETFL, FASYNC) *)
Fasync(p) ==
  /\ pc[p] = "idle"
  /\ async_queue' \in {async_queue \union {p}, async_queue \ {p}}
  /\ UNCHANGED <<procVars, seen, sem, ringVars, openVars, waitVars, xfer>>

(* scull_read_p_mem, lines 268-291: reading /proc/scullpipe, any process *)
ProcRead(p) == Call(p, "closed", "proc_down") /\ UNCHANGED async_queue

ProcPrint(p) ==
  /\ pc[p] = "proc_cs"
  /\ up
  /\ Return(p, "closed")
  /\ UNCHANGED <<seen, ringVars, openVars, waitVars, async_queue, xfer>>

(* a signal other than SIGIO reaches a process inside a system call *)
Signal(p) ==
  /\ Signals
  /\ pc[p] \notin Outside
  /\ signal' = [signal EXCEPT ![p] = TRUE]
  /\ UNCHANGED <<pc, seen, sem, ringVars, openVars, waitVars, async_queue, xfer>>

-----------------------------------------------------------------------------
(* what user programs decide *)
User(p) == \/ Open(p) \/ Release(p) \/ Read(p) \/ Write(p) \/ Poll(p)
           \/ Fasync(p) \/ ProcRead(p) \/ Signal(p)

(* the steps of the driver that do not wait for the semaphore *)
Step(p) == \/ OpenNoMemory(p) \/ OpenReset(p) \/ ReleaseFile(p)
           \/ ReadEmpty(p) \/ ReadCopy(p) \/ ReadFault(p)
           \/ ReadWrap(p) \/ ReadWake(p)
           \/ ReadPrepare(p) \/ Sample(p) \/ ReadCheck(p) \/ ReadAwake(p)
           \/ WriteFull(p) \/ WriteCopy(p) \/ WriteFault(p)
           \/ WriteWrap(p) \/ WriteWake(p) \/ WriteSigio(p)
           \/ WritePrepare(p) \/ WriteCheck(p) \/ WriteAwake(p)
           \/ PollCheck(p) \/ PollAwake(p) \/ ProcPrint(p)

Next == \E p \in Procs : User(p) \/ Down(p) \/ DownInterrupted(p) \/ Step(p)

Spec == Init /\ [][Next]_vars

-----------------------------------------------------------------------------
(***************************************************************************)
(* Safety                                                                  *)
(***************************************************************************)

(* Every variable has a value the code can give it; in particular the      *)
(* pointers never leave dev->buffer .. dev->end and the counts of          *)
(* openings never become negative.                                         *)
TypeInvariant ==
  /\ pc \in [Procs -> Locations]
  /\ f_mode \in [Procs -> Modes \union {{}}]
  /\ signal \in [Procs -> BOOLEAN]
  /\ seen \in [Procs -> 0 .. Size]
  /\ sem \in {0, 1}
  /\ buffer \in BOOLEAN
  /\ ring \in [0 .. Size - 1 -> Byte \union {Junk}]
  /\ rp \in 0 .. Size /\ wp \in 0 .. Size
  /\ nreaders \in Nat /\ nwriters \in Nat
  /\ inq \subseteq Procs /\ outq \subseteq Procs
  /\ async_queue \subseteq Procs /\ orphans \subseteq Procs

(* dev->sem is a mutex that no path leaks: it is taken exactly while one   *)
(* process is between its down and the up that belongs to it, on every     *)
(* error, signal and non-blocking path as well (lines 57-64, 112-140,      *)
(* 153-164, 183-205: getwritespace releases what its caller took).         *)
SemaphoreExact ==
  /\ sem = 0 <=> \E p \in Procs : pc[p] \in Holding
  /\ \A p, q \in Procs : pc[p] \in Holding /\ pc[q] \in Holding => p = q

(* Whoever holds the semaphore sees pointers inside the buffer, except the *)
(* process that is about to wrap the one it has just advanced: an          *)
(* unwrapped pointer (line 136 or 203 skipped) never survives an up.       *)
PointersWrapped ==
  /\ rp = Size => \E p \in Procs : pc[p] = "r_wrap"
  /\ wp = Size => \E p \in Procs : pc[p] = "w_wrap"

Files(l) == {p \in Procs : l \in f_mode[p]}

(* nreaders and nwriters count the files open for each, through failed     *)
(* opens, interrupted calls and releases in any order, and the buffer      *)
(* exists exactly while a file is open (lines 59-66, 72-75, 90-97).        *)
OpeningsCounted ==
  /\ nreaders = Cardinality(Files("r")) /\ nwriters = Cardinality(Files("w"))
  /\ buffer <=> Files("r") \union Files("w") # {}

(* No read, write or poll touches the buffer after the release of another  *)
(* file has freed it (line 95).                                            *)
NoUseAfterFree ==
  \A p \in Procs : pc[p] \in Holding \ {"open_cs", "proc_cs"} => buffer

Wrapped(x) == IF x = Size THEN 0 ELSE x
Empty == Wrapped(rp) = Wrapped(wp)
Full == spacefree(Wrapped(rp), Wrapped(wp)) = 0

AwaitsData(p) == \/ pc[p] = "r_sched" /\ p \in inq
                 \/ /\ pc[p] = "poll_sched" /\ "r" \in f_mode[p]
                    /\ p \in inq /\ p \in outq
AwaitsSpace(p) == \/ pc[p] = "w_sched" /\ p \in outq
                  \/ /\ pc[p] = "poll_sched" /\ "w" \in f_mode[p]
                     /\ p \in inq /\ p \in outq

(* No lost wake-up of readers: a reader or poller asleep while there is    *)
(* data is one a writer past its update (line 202) is about to wake (line  *)
(* 208), whatever the sleeper sampled without the semaphore.               *)
ReadersWoken ==
  (\E p \in Procs : AwaitsData(p)) /\ ~Empty
     => \E q \in Procs : pc[q] \in {"w_wrap", "w_wake"}

(* No lost wake-up of writers (lines 135, 141, 157-159), except of those   *)
(* that were on outq when an open reset the buffer (line 69).              *)
WritersWoken ==
  (\E p \in Procs \ orphans : AwaitsSpace(p)) /\ ~Full
     => \E q \in Procs : pc[q] \in {"r_wrap", "r_wake"}

(* The rule of higher_scull/README.md on wait queues, "wake_up() has to be *)
(* called after changing any variable that could change the result of the  *)
(* wait condition", for the condition writers sleep on: an open frees the  *)
(* whole buffer and wakes nobody.                                          *)
SpaceAlwaysSignalled ==
  (\E p \in Procs : AwaitsSpace(p)) /\ ~Full
     => \E q \in Procs : pc[q] \in {"r_wrap", "r_wake"}
-----------------------------------------------------------------------------
(***************************************************************************)
(* The device implements a byte queue.                                     *)
(***************************************************************************)

(* the bytes between rp and wp; a pointer not yet wrapped counts as wrapped *)
Contents == IF buffer
            THEN [i \in 1 .. (wp - rp) % Size |-> ring[(rp + i - 1) % Size]]
            ELSE <<>>

Fifo == INSTANCE PipeFifo WITH queue <- Contents, Capacity <- Size - 1

(* Every byte a read delivers is the oldest one written and not yet        *)
(* delivered: none is lost, repeated, reordered, overwritten before it is  *)
(* read or taken from uninitialised memory, across wrap-arounds, failed    *)
(* copies and concurrent calls; a call that returns a count returns 0 only *)
(* if it was asked for 0.  Only an open or a last release drops bytes.     *)
ImplementsFifo == Fifo!Spec

(* Bytes disappear from the queue only by a read, by an open (line 69) or  *)
(* by the release of the last file (line 95).                              *)
DroppedOnlyByOpenOrLastRelease ==
  [][Contents # <<>> /\ Contents' = <<>>
       => \E p \in Procs : \/ pc[p] \in {"r_cs", "open_cs"}
                           \/ pc[p] = "release_cs" /\ nreaders' + nwriters' = 0]_vars

-----------------------------------------------------------------------------
(***************************************************************************)
(* Liveness.  A process inside the driver keeps running, and the kernel    *)
(* semaphore hands itself to its waiters in order, so nobody who waits for *)
(* it is passed over for ever.  Users promise nothing.                     *)
(***************************************************************************)
Fairness == \A p \in Procs : WF_vars(Step(p)) /\ SF_vars(Down(p))

FairSpec == Spec /\ Fairness

Reading(p) == pc[p] \in {"r_down", "r_cs", "r_prepare", "r_check", "r_check2", "r_sched"}
Writing(p) == pc[p] \in {"w_down", "w_cs", "w_prepare", "w_check", "w_check2", "w_sched"}

(* Everyone who waits for the semaphore gets it: no path returns with it   *)
(* held and no holder waits for anything.                                  *)
SemaphoreServed == \A p \in Procs : pc[p] \in Downs ~> pc[p] \notin Downs

(* A process in read() does not sleep on while the buffer holds data: it   *)
(* returns, or someone else empties the buffer first.                      *)
ReadersServed == \A p \in Procs : Reading(p) /\ ~Empty ~> ~Reading(p) \/ Empty

(* A process in write() does not sleep on while there is space, unless an  *)
(* open reset the buffer while it was on outq.                             *)
WritersServed ==
  \A p \in Procs : Writing(p) /\ ~Full ~> ~Writing(p) \/ Full \/ p \in orphans
=============================================================================
