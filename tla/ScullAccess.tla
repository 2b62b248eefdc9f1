----------------------------- MODULE ScullAccess -----------------------------
(***************************************************************************)
(* The devices of higher_scull/high_scull/access.c that restrict who may   *)
(* open them: scullsingle, open once at a time (lines 49-72), sculluid,    *)
(* whose open fails while another user has it (lines 95-133), scullwuid,   *)
(* whose open waits for that user to be gone (lines 156-207).  They share  *)
(* no state, so a behaviour is of one of them, chosen at the start.        *)
(* What runs under a spinlock is one step, since it never sleeps; the      *)
(* condition a waiter tests without the lock reads the count and the owner *)
(* one after the other.  Behind each device is a bare scull_dev, which an  *)
(* open for writing only trims, and reads and writes use under dev->sem.   *)
(***************************************************************************)
EXTENDS Integers, FiniteSets

CONSTANTS
  Procs,       \* processes, each with at most one open file
  Users,       \* user ids
  uid, euid,   \* current->uid and current->euid of each process
  Root,        \* the processes with CAP_DAC_OVERRIDE
  Nonblock,    \* the values of O_NONBLOCK, a subset of BOOLEAN
  Signals      \* whether signals may interrupt a waiting open

ASSUME ProcsAssumption == IsFiniteSet(Procs)
ASSUME UsersAssumption ==
  uid \in [Procs -> Users] /\ euid \in [Procs -> Users] /\ Root \subseteq Procs
ASSUME FlagsAssumption == Nonblock \subseteq BOOLEAN /\ Signals \in BOOLEAN

VARIABLES
  device,              \* the device of this behaviour
  pc,                  \* where each process is
  scull_s_available,   \* the atomic counter of scullsingle
  count,               \* scull_u_count or scull_w_count
  owner,               \* scull_u_owner or scull_w_owner, stale while count = 0
  wait,                \* the tasks enqueued on scull_w_wait and not woken since
  signal,              \* signal_pending() of each process
  sem                  \* the count of dev->sem

countVars == <<scull_s_available, count, owner>>
waitVars == <<wait, signal>>
vars == <<device, pc, countVars, waitVars, sem>>

(* admitted: past the test of open; trim: in scull_trim; io: in scull_read *)
(* or scull_write with a pointer into the data; undo: refused by           *)
(* scullsingle, its decrement not yet given back                           *)
Inside == {p \in Procs : pc[p] \in {"admitted", "trim", "open", "io"}}
Undoing == {p \in Procs : pc[p] = "undo"}
Waiting == {"lock", "prepare", "check", "check2", "sched"}

Init ==
  /\ device \in {"scullsingle", "sculluid", "scullwuid"}
  /\ pc = [p \in Procs |-> "closed"]
  /\ scull_s_available = 1
  /\ count = 0 /\ owner \in Users
  /\ wait = {} /\ signal = [p \in Procs |-> FALSE]
  /\ sem = 1

Goto(p, l) == pc' = [pc EXCEPT ![p] = l]
Return(p, l) == Goto(p, l) /\ signal' = [signal EXCEPT ![p] = FALSE]

(***************************************************************************)
(* scullsingle                                                             *)
(***************************************************************************)

(* atomic_dec_and_test, line 56 *)
SDecAndTest(p) ==
  /\ device = "scullsingle"
  /\ pc[p] = "closed"
  /\ scull_s_available' = scull_s_available - 1
  /\ Goto(p, IF scull_s_available' = 0 THEN "admitted" ELSE "undo")
  /\ UNCHANGED <<device, count, owner, waitVars, sem>>

(* variant: a refused open resets the counter *)
SUndoReset(p) ==
  /\ pc[p] = "undo"
  /\ scull_s_available' = 1
  /\ Goto(p, "closed")
  /\ UNCHANGED <<device, count, owner, waitVars, sem>>

(* atomic_inc and -EBUSY, lines 57-58 *)
SUndo(p) ==
  /\ pc[p] = "undo"
  /\ scull_s_available' = scull_s_available + 1
  /\ Goto(p, "closed")
  /\ UNCHANGED <<device, count, owner, waitVars, sem>>

(* scull_s_release, lines 68-72 *)
SRelease(p) ==
  /\ device = "scullsingle"
  /\ pc[p] = "open"
  /\ scull_s_available' = scull_s_available + 1
  /\ Goto(p, "closed")
  /\ UNCHANGED <<device, count, owner, waitVars, sem>>

(***************************************************************************)
(* sculluid and scullwuid                                                  *)
(***************************************************************************)
Owner(p) == owner \in {uid[p], euid[p]} \/ p \in Root
available(p) == count = 0 \/ Owner(p)

(* variant: every file makes its user the owner *)
GrabAlways(p) == owner' = uid[p] /\ count' = count + 1

(* the end of either critical section: the first file decides whose it is *)
Grab(p) ==
  /\ owner' = IF count = 0 THEN uid[p] ELSE owner
  /\ count' = count + 1

(* scull_u_open, lines 104-117; a refused open changes nothing *)
UOpen(p) ==
  /\ device = "sculluid"
  /\ pc[p] = "closed"
  /\ available(p)
  /\ Grab(p)
  /\ Goto(p, "admitted")
  /\ UNCHANGED <<device, scull_s_available, waitVars, sem>>

WOpen(p) ==
  /\ device = "scullwuid"
  /\ pc[p] = "closed"
  /\ Goto(p, "lock")
  /\ UNCHANGED <<device, countVars, waitVars, sem>>

(* scull_w_open, lines 175-186: in, or away, or on to the wait queue *)
WAdmit(p) ==
  /\ pc[p] = "lock"
  /\ available(p)
  /\ Grab(p)
  /\ Return(p, "admitted")
  /\ UNCHANGED <<device, scull_s_available, wait, sem>>

WRefuse(p) ==
  /\ pc[p] = "lock"
  /\ ~available(p)
  /\ \E nb \in Nonblock : IF nb THEN Return(p, "closed")
                                ELSE Goto(p, "prepare") /\ UNCHANGED signal
  /\ UNCHANGED <<device, countVars, wait, sem>>

(* wait_event_interruptible, line 179 *)
WPrepare(p) ==
  /\ pc[p] = "prepare"
  /\ wait' = wait \union {p}
  /\ Goto(p, "check")
  /\ UNCHANGED <<device, countVars, signal, sem>>

WCheckCount(p) ==
  /\ pc[p] = "check"
  /\ IF count = 0 THEN Goto(p, "lock") /\ wait' = wait \ {p}
                  ELSE Goto(p, "check2") /\ UNCHANGED wait
  /\ UNCHANGED <<device, countVars, signal, sem>>

WCheckOwner(p) ==
  /\ pc[p] = "check2"
  /\ \/ /\ Owner(p)
        /\ Goto(p, "lock")
        /\ wait' = wait \ {p}
        /\ UNCHANGED signal
     \/ /\ ~Owner(p) /\ signal[p]
        /\ Return(p, "closed")
        /\ wait' = wait \ {p}
     \/ /\ ~Owner(p) /\ ~signal[p]
        /\ Goto(p, "sched")
        /\ UNCHANGED waitVars
  /\ UNCHANGED <<device, countVars, sem>>

WAwake(p) ==
  /\ pc[p] = "sched"
  /\ p \notin wait \/ signal[p]
  /\ Goto(p, "prepare")
  /\ UNCHANGED <<device, countVars, waitVars, sem>>

(* variant: a release is counted twice *)
ReleaseTwice(p) ==
  /\ device # "scullsingle"
  /\ pc[p] = "open"
  /\ count' = count - 2
  /\ Goto(p, IF device = "scullwuid" /\ count' = 0 THEN "wake" ELSE "closed")
  /\ UNCHANGED <<device, scull_s_available, owner, waitVars, sem>>

(* variant: the last release wakes nobody *)
ReleaseSilent(p) ==
  /\ device # "scullsingle"
  /\ pc[p] = "open"
  /\ count' = count - 1
  /\ Goto(p, "closed")
  /\ UNCHANGED <<device, scull_s_available, owner, waitVars, sem>>

(* lines 127-133 and 195-207; only scullwuid has somebody to wake *)
Release(p) ==
  /\ device # "scullsingle"
  /\ pc[p] = "open"
  /\ count' = count - 1
  /\ Goto(p, IF device = "scullwuid" /\ count' = 0 THEN "wake" ELSE "closed")
  /\ UNCHANGED <<device, scull_s_available, owner, waitVars, sem>>

WWake(p) ==
  /\ pc[p] = "wake"
  /\ wait' = {}
  /\ Goto(p, "closed")
  /\ UNCHANGED <<device, countVars, signal, sem>>

Signal(p) ==
  /\ Signals
  /\ pc[p] \in Waiting
  /\ signal' = [signal EXCEPT ![p] = TRUE]
  /\ UNCHANGED <<device, pc, countVars, wait, sem>>

(***************************************************************************)
(* The bare device behind each                                             *)
(***************************************************************************)

(* lines 62-65, 121-124 and 189-192: scull_trim, for O_WRONLY, is called   *)
(* without dev->sem                                                        *)
Trim(p) ==
  /\ pc[p] = "admitted"
  /\ Goto(p, "trim")
  /\ UNCHANGED <<device, countVars, waitVars, sem>>

Opened(p) ==
  /\ pc[p] \in {"admitted", "trim"}
  /\ Goto(p, "open")
  /\ UNCHANGED <<device, countVars, waitVars, sem>>

(* scull_read and scull_write, which use the data between down and up *)
UseBegin(p) ==
  /\ pc[p] = "open"
  /\ sem > 0
  /\ sem' = sem - 1
  /\ Goto(p, "io")
  /\ UNCHANGED <<device, countVars, waitVars>>

UseEnd(p) ==
  /\ pc[p] = "io"
  /\ sem' = sem + 1
  /\ Goto(p, "open")
  /\ UNCHANGED <<device, countVars, waitVars>>

-----------------------------------------------------------------------------
WStep(p) == \/ WAdmit(p) \/ WRefuse(p) \/ WPrepare(p) \/ WCheckCount(p)
            \/ WCheckOwner(p) \/ WAwake(p) \/ WWake(p)

Next == \E p \in Procs :
          \/ SDecAndTest(p) \/ SUndo(p) \/ SRelease(p)
          \/ UOpen(p) \/ WOpen(p) \/ WStep(p) \/ Release(p) \/ Signal(p)
          \/ Trim(p) \/ Opened(p) \/ UseBegin(p) \/ UseEnd(p)

Spec == Init /\ [][Next]_vars

(* a process in the open or the release of scullwuid runs on *)
FairSpec == Spec /\ \A p \in Procs : WF_vars(WStep(p))

-----------------------------------------------------------------------------
TypeInvariant ==
  /\ device \in {"scullsingle", "sculluid", "scullwuid"}
  /\ pc \in [Procs -> {"closed", "undo", "admitted", "trim", "open", "io", "wake"}
                      \union Waiting]
  /\ scull_s_available \in Int
  /\ count \in Nat /\ owner \in Users
  /\ wait \subseteq Procs
  /\ signal \in [Procs -> BOOLEAN]
  /\ sem \in {0, 1}

(* The counters count the open files on every path (lines 56-57, 70, 116,  *)
(* 130, 185, 200); scull_s_available also counts the failed opens that     *)
(* have not yet given their decrement back, and so returns to 1 when all   *)
(* are gone, whatever their interleaving.                                  *)
CountExact ==
  IF device = "scullsingle"
  THEN scull_s_available = 1 - Cardinality(Inside) - Cardinality(Undoing)
  ELSE count = Cardinality(Inside)

(* At most one file is open on scullsingle, however many opens race with   *)
(* its release through the transient decrements of those that fail.        *)
OneOpener == device = "scullsingle" => \A p, q \in Inside : p = q

(* Everyone with sculluid or scullwuid open is its current owner, by uid   *)
(* or euid, or root: the owner never changes under an open file, and       *)
(* nobody got in on a count or an owner sampled without the lock.          *)
OwnersOnly == device # "scullsingle" => \A p \in Inside : Owner(p)

(* No lost wake-up: an opener of scullwuid asleep although it could get in *)
(* is one that the last release (line 205) is about to wake, though line   *)
(* 205 runs after the unlock and for the last file only.                   *)
NoLostWakeup ==
  (\E p \in wait : pc[p] = "sched" /\ available(p))
    => \E q \in Procs : pc[q] = "wake"

(* An opener to whom the device stays available does not wait for ever.    *)
OpensWhenFree ==
  \A p \in Procs : pc[p] \in Waiting /\ []available(p) ~> pc[p] \notin Waiting

(* No trim of the data runs beside another trim, a read or a write of it:  *)
(* access.c:119 and 188 say the opens copy what they do after the test     *)
(* "from the bare scull device", whose open trims with dev->sem held       *)
(* (main.c:230-233).                                                       *)
TrimAlone ==
  \A p, q \in Procs : pc[p] = "trim" /\ pc[q] \in {"trim", "io"} => p = q

(* On scullsingle, line 63 needs no semaphore for that.                    *)
SingleTrimAlone == device = "scullsingle" => TrimAlone
=============================================================================
