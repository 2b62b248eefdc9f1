-------------------------- MODULE ScullPipeProofs --------------------------
(***************************************************************************)
(* Theorems about the pipe device of ScullPipe, for any finite set of      *)
(* processes, any buffer size and any users.                               *)
(***************************************************************************)
EXTENDS ScullPipe, FiniteSetTheorems, SequenceTheorems, TLAPS

(* no file, between the calls that open and close one *)
NoFile == {"closed", "open_down", "open_cs", "proc_down", "proc_cs"}

(* a process has a file open exactly outside the locations of NoFile *)
FileOpen == \A p \in Procs : f_mode[p] = {} <=> pc[p] \in NoFile

WriterActive == \E q \in Procs : pc[q] \in {"w_wrap", "w_wake"}
ReaderActive == \E q \in Procs : pc[q] \in {"r_wrap", "r_wake"}

(* A reader still on inq with no wake-up under way: what it sampled still  *)
(* tells the truth about the buffer, and if it sleeps there is no data.    *)
ReadersAsleep ==
  \A p \in inq :
    \/ WriterActive
    \/ /\ pc[p] = "r_check2" /\ seen[p] = wp => Empty
       /\ pc[p] = "r_sched" => Empty
       /\ pc[p] = "poll_sched" /\ p \in outq /\ "r" \in f_mode[p] => Empty

(* A writer still on outq since the last reset with no wake-up under way:  *)
(* the rp it sampled is still rp, and if it sleeps the buffer is full.     *)
WritersAsleep ==
  \A p \in outq \ orphans :
    \/ ReaderActive
    \/ /\ pc[p] = "w_check2" => seen[p] = rp
       /\ pc[p] = "w_sched" => Full
       /\ pc[p] = "poll_sched" /\ p \in inq /\ "w" \in f_mode[p] => Full

Core == /\ TypeInvariant
        /\ SemaphoreExact
        /\ PointersWrapped
        /\ FileOpen
        /\ OpeningsCounted

Inv == Core /\ ReadersAsleep /\ WritersAsleep

USE SizeAssumption

-----------------------------------------------------------------------------
(***************************************************************************)
(* spacefree without the remainder: the three cases of lines 172-174, and  *)
(* the value an unlocked caller gets while wp has not been wrapped yet.    *)
(***************************************************************************)
LEMMA SpaceFree ==
  ASSUME NEW r \in 0 .. Size - 1, NEW w \in 0 .. Size - 1
  PROVE  /\ r = w => spacefree(r, w) = Size - 1
         /\ r > w => spacefree(r, w) = r - w - 1
         /\ r < w => spacefree(r, w) = r + Size - w - 1
  <1>1. CASE r > w
    <2>1. r - w \in 0 .. Size - 1 /\ r + Size - w = (r - w) + Size
      BY <1>1
    <2> QED BY <1>1, <2>1 DEF spacefree
  <1>2. CASE r < w
    <2>1. r + Size - w \in 0 .. Size - 1
      BY <1>2
    <2> QED BY <1>2, <2>1 DEF spacefree
  <1> QED BY <1>1, <1>2 DEF spacefree

(* for an unwrapped wp, which is Size: -1, not zero, when rp = 0 *)
LEMMA SpaceFreeUnwrapped ==
  ASSUME NEW r \in 0 .. Size - 1
  PROVE  spacefree(r, Size) = r - 1
  BY DEF spacefree

(***************************************************************************)
(* The semaphore: a step that neither takes nor gives it, one that takes   *)
(* it and one that gives it back.                                          *)
(***************************************************************************)
LEMMA SemaphoreKept ==
  ASSUME TypeInvariant, SemaphoreExact, NEW p \in Procs, NEW l,
         pc' = [pc EXCEPT ![p] = l], UNCHANGED sem,
         pc[p] \in Holding <=> l \in Holding
  PROVE  SemaphoreExact'
  BY DEF TypeInvariant, SemaphoreExact

(* down, by a process on its way to a place that holds the semaphore *)
LEMMA SemaphoreTaken ==
  ASSUME TypeInvariant, SemaphoreExact, NEW p \in Procs, NEW l,
         pc' = [pc EXCEPT ![p] = l], sem > 0, sem' = sem - 1, l \in Holding
  PROVE  SemaphoreExact' /\ sem' \in {0, 1}
  BY DEF TypeInvariant, SemaphoreExact

(* up, by the process the semaphore belongs to *)
LEMMA SemaphoreGiven ==
  ASSUME TypeInvariant, SemaphoreExact, NEW p \in Procs, NEW l,
         pc' = [pc EXCEPT ![p] = l], sem' = sem + 1,
         pc[p] \in Holding, l \notin Holding
  PROVE  SemaphoreExact' /\ sem' \in {0, 1}
  BY DEF TypeInvariant, SemaphoreExact

(* up is only ever called by the process the semaphore belongs to, so no   *)
(* other process has an unwrapped pointer                                  *)
LEMMA OthersOutside ==
  ASSUME SemaphoreExact, NEW p \in Procs, pc[p] \in Holding,
         NEW q \in Procs, q # p
  PROVE  pc[q] \notin Holding
  BY DEF SemaphoreExact

(* what a step that opens or closes no file leaves as it was *)
LEMMA OpeningsKept ==
  ASSUME OpeningsCounted, UNCHANGED openVars, UNCHANGED buffer
  PROVE  OpeningsCounted'
  BY DEF OpeningsCounted, Files, openVars

(* a step between two places with a file, or two without, keeps FileOpen *)
LEMMA FileOpenKept ==
  ASSUME TypeInvariant, FileOpen, NEW p \in Procs, NEW l,
         pc' = [pc EXCEPT ![p] = l], UNCHANGED f_mode,
         pc[p] \in NoFile <=> l \in NoFile
  PROVE  FileOpen'
  BY DEF TypeInvariant, FileOpen

-----------------------------------------------------------------------------
(* the module starts with no file, no buffer and the semaphore free *)
LEMMA CoreInit == Init => Core
  <1> SUFFICES ASSUME Init PROVE Core
    OBVIOUS
  <1>1. TypeInvariant
    <2>1. pc \in [Procs -> Locations]
      BY DEF Init, Locations, Outside
    <2>2. ring \in [0 .. Size - 1 -> Byte \union {Junk}]
      BY DEF Init
    <2>3. f_mode \in [Procs -> Modes \union {{}}] /\ signal \in [Procs -> BOOLEAN]
      BY DEF Init
    <2>4. seen \in [Procs -> 0 .. Size] /\ rp \in 0 .. Size /\ wp \in 0 .. Size
      BY DEF Init
    <2>5. sem \in {0, 1} /\ buffer \in BOOLEAN /\ nreaders \in Nat /\ nwriters \in Nat
      BY DEF Init
    <2> QED BY <2>1, <2>2, <2>3, <2>4, <2>5 DEF Init, TypeInvariant
  <1>2. SemaphoreExact /\ PointersWrapped /\ FileOpen
    BY DEF Init, SemaphoreExact, PointersWrapped, FileOpen, NoFile, Holding
  <1>3. OpeningsCounted
    <2>1. Files("r") = {} /\ Files("w") = {}
      BY DEF Init, Files
    <2> QED BY <2>1, FS_EmptySet DEF Init, OpeningsCounted
  <1> QED BY <1>1, <1>2, <1>3 DEF Core

(* How a step of p to location l uses the semaphore.                       *)
SemaphoreUse(p, l) ==
  \/ UNCHANGED sem /\ (pc[p] \in Holding <=> l \in Holding)
  \/ sem > 0 /\ sem' = sem - 1 /\ l \in Holding
  \/ sem' = sem + 1 /\ pc[p] \in Holding /\ l \notin Holding

(* A step that moves no pointer and opens or closes no file keeps Core if  *)
(* it keeps the types and uses the semaphore in one of the three ways.     *)
LEMMA QuietStep ==
  ASSUME Core, NEW p \in Procs, NEW l \in Locations,
         pc' = [pc EXCEPT ![p] = l], SemaphoreUse(p, l),
         pc[p] \in NoFile <=> l \in NoFile,
         pc[p] \notin {"r_wrap", "w_wrap"},
         UNCHANGED <<buffer, rp, wp, openVars>>,
         signal' \in [Procs -> BOOLEAN],
         seen' \in [Procs -> 0 .. Size],
         ring' \in [0 .. Size - 1 -> Byte \union {Junk}],
         inq' \subseteq Procs, outq' \subseteq Procs,
         async_queue' \subseteq Procs, orphans' \subseteq Procs
  PROVE  Core'
  <1> USE DEF Core
  <1>1. SemaphoreExact' /\ sem' \in {0, 1}
    <2>1. sem \in {0, 1}
      BY DEF TypeInvariant
    <2> QED BY <2>1, SemaphoreKept, SemaphoreTaken, SemaphoreGiven DEF SemaphoreUse
  <1>2. TypeInvariant'
    BY <1>1 DEF TypeInvariant, openVars
  <1>3. PointersWrapped'
    BY DEF PointersWrapped, TypeInvariant
  <1>4. FileOpen'
    BY FileOpenKept DEF openVars
  <1>5. OpeningsCounted'
    BY OpeningsKept
  <1> QED BY <1>1, <1>2, <1>3, <1>4, <1>5

(* entering a system call: no variable but pc and, on release, async_queue *)
LEMMA CallStep ==
  ASSUME Core, NEW p \in Procs, NEW from, NEW to \in Locations \ Holding,
         Call(p, from, to), from \in Outside, async_queue' \subseteq Procs,
         from \in NoFile <=> to \in NoFile
  PROVE  Core'
  BY QuietStep DEF Core, TypeInvariant, Call, Goto, SemaphoreUse, Outside, Holding,
     ringVars, openVars, waitVars

(* calls and signals *)
LEMMA UserCore ==
  ASSUME Core, NEW p \in Procs, User(p)
  PROVE  Core'
  <1> USE DEF Locations, Downs, Interruptible, Outside, Holding, NoFile
  <1>0. async_queue \subseteq Procs
    BY DEF Core, TypeInvariant
  <1>1. CASE Open(p) \/ ProcRead(p)
    BY <1>0, <1>1, CallStep DEF Open, ProcRead
  <1>2. CASE Read(p) \/ Write(p) \/ Poll(p)
    BY <1>0, <1>2, CallStep DEF Read, Write, Poll
  <1>3. CASE Release(p)
    BY <1>0, <1>3, CallStep DEF Release
  <1>4. CASE Fasync(p)
    <2>1. pc' = [pc EXCEPT ![p] = pc[p]] /\ pc[p] \in Locations
      BY <1>4 DEF Core, TypeInvariant, Fasync, procVars
    <2> QED BY <1>4, <2>1, QuietStep
            DEF Core, TypeInvariant, Fasync, SemaphoreUse, procVars, ringVars, openVars, waitVars
  <1>5. CASE Signal(p)
    <2>1. pc' = [pc EXCEPT ![p] = pc[p]] /\ pc[p] \in Locations
      BY <1>5 DEF Core, TypeInvariant, Signal
    <2>2. UNCHANGED <<sem, buffer, rp, wp, ring, seen, openVars, waitVars, async_queue>>
      BY <1>5 DEF Signal, ringVars
    <2>3. signal' \in [Procs -> BOOLEAN]
      BY <1>5 DEF Core, TypeInvariant, Signal
    <2>4. TypeInvariant'
      BY <1>5, <2>1, <2>2, <2>3 DEF Core, TypeInvariant, openVars, waitVars
    <2> QED BY <1>5, <2>1, <2>2, <2>4
            DEF Core, TypeInvariant, Signal, SemaphoreExact, PointersWrapped,
                FileOpen, OpeningsCounted, Files, openVars
  <1> QED BY <1>1, <1>2, <1>3, <1>4, <1>5 DEF User

(* passing a down, or giving up in one *)
LEMMA DownCore ==
  ASSUME Core, NEW p \in Procs, Down(p) \/ DownInterrupted(p)
  PROVE  Core'
  <1> USE DEF Locations, Downs, Interruptible, Outside, Holding, NoFile
  <1>1. CASE Down(p)
    <2>1. Enter(pc[p]) \in Holding
      BY <1>1 DEF Down, Enter
    <2>2. pc[p] \in NoFile <=> Enter(pc[p]) \in NoFile
      BY <1>1 DEF Down, Enter
    <2> HIDE DEF Locations, Downs, Interruptible, Outside, Holding, NoFile
    <2>3. pc[p] \notin {"r_wrap", "w_wrap"} /\ Enter(pc[p]) \in Locations
      BY <1>1, <2>1 DEF Down, Locations, Downs, Interruptible
    <2> QED BY <1>1, <2>1, <2>2, <2>3, QuietStep
            DEF Core, TypeInvariant, Down, Goto, SemaphoreUse, ringVars, openVars, waitVars
  <1>2. CASE DownInterrupted(p)
    <2> DEFINE l == IF pc[p] \in {"open_down", "proc_down"} THEN "closed" ELSE "idle"
    <2>1. l \in Locations \ Holding /\ pc[p] \notin Holding
      BY <1>2 DEF DownInterrupted
    <2>2. pc[p] \in NoFile <=> l \in NoFile
      BY <1>2 DEF DownInterrupted
    <2> HIDE DEF Locations, Downs, Interruptible, Outside, Holding, NoFile
    <2>3. pc[p] \notin {"r_wrap", "w_wrap"}
      BY <1>2 DEF DownInterrupted, Interruptible
    <2>4. pc' = [pc EXCEPT ![p] = l] /\ signal' \in [Procs -> BOOLEAN]
      BY <1>2 DEF DownInterrupted, Return, Core, TypeInvariant
    <2> QED BY <1>2, <2>1, <2>2, <2>3, <2>4, QuietStep
            DEF Core, TypeInvariant, DownInterrupted, SemaphoreUse, ringVars, openVars, waitVars
  <1> QED BY <1>1, <1>2

(* the steps of the driver that move no pointer and open or close no file *)
QuietAction(p) ==
  \/ OpenNoMemory(p) \/ ReadEmpty(p) \/ ReadFault(p) \/ ReadWake(p)
  \/ ReadPrepare(p) \/ Sample(p) \/ ReadCheck(p) \/ ReadAwake(p)
  \/ WriteFull(p) \/ WriteFault(p) \/ WriteWake(p) \/ WriteSigio(p)
  \/ WritePrepare(p) \/ WriteCheck(p) \/ WriteAwake(p)
  \/ PollCheck(p) \/ PollAwake(p) \/ ProcPrint(p)

(* none of these breaks Core *)
LEMMA QuietCore ==
  ASSUME Core, NEW p \in Procs, QuietAction(p)
  PROVE  Core'
  <1> USE DEF Locations, Downs, Interruptible, Outside, Holding, Waiting, Waking,
              NoFile, SemaphoreUse, up, ringVars, openVars, waitVars
  <1>1. CASE OpenNoMemory(p)
    BY <1>1, QuietStep DEF Core, TypeInvariant, OpenNoMemory, Return
  <1>2. CASE ReadEmpty(p)
    <2> USE <1>2 DEF ReadEmpty
    <2>1. signal' \in [Procs -> BOOLEAN]
      BY DEF Core, TypeInvariant, Return, Goto
    <2>2. CASE pc' = [pc EXCEPT ![p] = "idle"]
      BY <2>1, <2>2, QuietStep DEF Core, TypeInvariant
    <2>3. CASE pc' = [pc EXCEPT ![p] = "r_prepare"]
      BY <2>1, <2>3, QuietStep DEF Core, TypeInvariant
    <2> QED BY <2>2, <2>3 DEF Return, Goto
  <1>3. CASE ReadFault(p)
    BY <1>3, QuietStep DEF Core, TypeInvariant, ReadFault, Return
  <1>4. CASE ReadWake(p)
    BY <1>4, QuietStep DEF Core, TypeInvariant, ReadWake, Return
  <1>5. CASE ReadPrepare(p)
    BY <1>5, QuietStep DEF Core, TypeInvariant, ReadPrepare, Goto
  <1>6. CASE ReadCheck(p)
    <2>1. signal' \in [Procs -> BOOLEAN]
      BY <1>6 DEF Core, TypeInvariant, ReadCheck, Return, Goto
    <2>2. seen' \in [Procs -> 0 .. Size]
      BY <1>6 DEF Core, TypeInvariant, ReadCheck
    <2>3. inq' \subseteq Procs /\ outq' \subseteq Procs /\ orphans' \subseteq Procs
      BY <1>6 DEF Core, TypeInvariant, ReadCheck
    <2>4. /\ UNCHANGED <<sem, buffer, ring, rp, wp, openVars, async_queue>>
          /\ pc[p] = "r_check2"
      BY <1>6 DEF ReadCheck
    <2>5. ring \in [0 .. Size - 1 -> Byte \union {Junk}] /\ async_queue \subseteq Procs
      BY DEF Core, TypeInvariant
    <2>6. CASE pc' = [pc EXCEPT ![p] = "idle"]
      BY <2>1, <2>2, <2>3, <2>4, <2>5, <2>6, QuietStep
    <2>7. CASE pc' = [pc EXCEPT ![p] = "r_down"]
      BY <2>1, <2>2, <2>3, <2>4, <2>5, <2>7, QuietStep
    <2>8. CASE pc' = [pc EXCEPT ![p] = "r_sched"]
      BY <2>1, <2>2, <2>3, <2>4, <2>5, <2>8, QuietStep
    <2> QED BY <1>6, <2>6, <2>7, <2>8 DEF ReadCheck, Return, Goto
  <1>7. CASE ReadAwake(p)
    BY <1>7, QuietStep DEF Core, TypeInvariant, ReadAwake, Goto
  <1>8. CASE WriteFull(p)
    <2> USE <1>8 DEF WriteFull
    <2>1. signal' \in [Procs -> BOOLEAN]
      BY DEF Core, TypeInvariant, Return, Goto
    <2>2. CASE pc' = [pc EXCEPT ![p] = "idle"]
      BY <2>1, <2>2, QuietStep DEF Core, TypeInvariant
    <2>3. CASE pc' = [pc EXCEPT ![p] = "w_prepare"]
      BY <2>1, <2>3, QuietStep DEF Core, TypeInvariant
    <2> QED BY <2>2, <2>3 DEF Return, Goto
  <1>9. CASE WriteWake(p)
    BY <1>9, QuietStep DEF Core, TypeInvariant, WriteWake, Goto
  <1>10. CASE WritePrepare(p)
    BY <1>10, QuietStep DEF Core, TypeInvariant, WritePrepare, Goto
  <1>11. CASE WriteAwake(p)
    <2> USE <1>11 DEF WriteAwake
    <2>1. signal' \in [Procs -> BOOLEAN]
      BY DEF Core, TypeInvariant, FinishWait, Return, Goto
    <2>2. CASE pc' = [pc EXCEPT ![p] = "idle"]
      BY <2>1, <2>2, QuietStep DEF Core, TypeInvariant, FinishWait
    <2>3. CASE pc' = [pc EXCEPT ![p] = "w_down"]
      BY <2>1, <2>3, QuietStep DEF Core, TypeInvariant, FinishWait
    <2> QED BY <2>2, <2>3 DEF FinishWait, Return, Goto
  <1>12. CASE PollCheck(p)
    <2> USE <1>12 DEF PollCheck
    <2>1. signal' \in [Procs -> BOOLEAN]
      BY DEF Core, TypeInvariant, Return, Goto
    <2>2. CASE pc' = [pc EXCEPT ![p] = "idle"]
      BY <2>1, <2>2, QuietStep DEF Core, TypeInvariant
    <2>3. CASE pc' = [pc EXCEPT ![p] = "poll_sched"]
      BY <2>1, <2>3, QuietStep DEF Core, TypeInvariant
    <2> QED BY <2>2, <2>3 DEF Return, Goto
  <1>13. CASE PollAwake(p)
    BY <1>13, QuietStep DEF Core, TypeInvariant, PollAwake, Goto
  <1>14. CASE ProcPrint(p)
    BY <1>14, QuietStep DEF Core, TypeInvariant, ProcPrint, Return
  <1>15. CASE Sample(p)
    BY <1>15, QuietStep DEF Core, TypeInvariant, Sample, Goto
  <1>16. CASE WriteSigio(p)
    BY <1>16, QuietStep DEF Core, TypeInvariant, WriteSigio
  <1>17. CASE WriteCheck(p)
    <2>1. signal' \in [Procs -> BOOLEAN]
      BY <1>17 DEF Core, TypeInvariant, WriteCheck, FinishWait, Return, Goto
    <2>2. seen' \in [Procs -> 0 .. Size]
      BY <1>17 DEF Core, TypeInvariant, WriteCheck
    <2>3. inq' \subseteq Procs /\ outq' \subseteq Procs /\ orphans' \subseteq Procs
      BY <1>17 DEF Core, TypeInvariant, WriteCheck, FinishWait
    <2>4. /\ UNCHANGED <<sem, buffer, ring, rp, wp, openVars, async_queue>>
          /\ pc[p] = "w_check2"
      BY <1>17 DEF WriteCheck
    <2>5. ring \in [0 .. Size - 1 -> Byte \union {Junk}] /\ async_queue \subseteq Procs
      BY DEF Core, TypeInvariant
    <2>6. CASE pc' = [pc EXCEPT ![p] = "idle"]
      BY <2>1, <2>2, <2>3, <2>4, <2>5, <2>6, QuietStep
    <2>7. CASE pc' = [pc EXCEPT ![p] = "w_down"]
      BY <2>1, <2>2, <2>3, <2>4, <2>5, <2>7, QuietStep
    <2>8. CASE pc' = [pc EXCEPT ![p] = "w_sched"]
      BY <2>1, <2>2, <2>3, <2>4, <2>5, <2>8, QuietStep
    <2> QED BY <1>17, <2>6, <2>7, <2>8 DEF WriteCheck, FinishWait, Return, Goto
  <1>18. CASE WriteFault(p)
    <2>1. ring' \in [0 .. Size - 1 -> Byte \union {Junk}]
      BY <1>18 DEF Core, TypeInvariant, WriteFault, Stored
    <2> QED BY <1>18, <2>1, QuietStep DEF Core, TypeInvariant, WriteFault, Return
  <1> QED BY <1>1, <1>2, <1>3, <1>4, <1>5, <1>6, <1>7, <1>8, <1>9, <1>10,
          <1>11, <1>12, <1>13, <1>14, <1>15, <1>16, <1>17, <1>18
          DEF QuietAction
-----------------------------------------------------------------------------
(* the semaphore's holder sees wrapped pointers, wherever it is but at the *)
(* step that wraps one                                                     *)
LEMMA HolderSeesWrapped ==
  ASSUME Core, NEW p \in Procs, pc[p] \in Holding
  PROVE  /\ pc[p] # "r_wrap" => rp \in 0 .. Size - 1
         /\ pc[p] # "w_wrap" => wp \in 0 .. Size - 1
  BY DEF Core, TypeInvariant, SemaphoreExact, PointersWrapped, Holding

(* what a read may take and a write may put stays inside the buffer, and   *)
(* is something if something is asked for                                  *)
LEMMA ReadableBound ==
  ASSUME rp \in 0 .. Size - 1, wp \in 0 .. Size - 1, rp # wp, NEW c \in Nat
  PROVE  /\ Readable(c) \in 0 .. Size - rp
         /\ rp < wp => Readable(c) <= wp - rp
         /\ c > 0 => Readable(c) > 0
  BY DEF Readable, Least

(* a write, too, stays inside the buffer, and never fills it to rp = wp *)
LEMMA WritableBound ==
  ASSUME rp \in 0 .. Size - 1, wp \in 0 .. Size - 1, spacefree(rp, wp) # 0,
         NEW c \in Nat
  PROVE  /\ Writable(c) \in 0 .. Size - wp
         /\ wp < rp => Writable(c) < rp - wp
         /\ wp >= rp => Writable(c) < Size - wp + rp
         /\ c > 0 => Writable(c) > 0
  <1>1. CASE wp < rp
    <2>1. spacefree(rp, wp) = rp - wp - 1
      BY <1>1, SpaceFree
    <2> QED BY <1>1, <2>1 DEF Writable, Least
  <1>2. CASE wp >= rp
    <2>1. spacefree(rp, wp) = rp + Size - wp - 1
      BY <1>2, SpaceFree
    <2> QED BY <1>2, <2>1 DEF Writable, Least
  <1> QED BY <1>1, <1>2

(* bytes stored inside the buffer leave a buffer of bytes *)
LEMMA StoredType ==
  ASSUME TypeInvariant, NEW n \in Nat, NEW s \in [1 .. n -> Byte], wp + n <= Size
  PROVE  Stored(s) \in [0 .. Size - 1 -> Byte \union {Junk}]
  <1>1. Len(s) = n
    OBVIOUS
  <1>2. ASSUME NEW i \in 0 .. Size - 1, i \in wp .. wp + n - 1
        PROVE  s[i - wp + 1] \in Byte
    <2>1. i - wp + 1 \in 1 .. n
      BY <1>2 DEF TypeInvariant
    <2> QED BY <2>1
  <1> QED BY <1>1, <1>2 DEF Stored, TypeInvariant

(* the two steps by which a read moves rp *)
LEMMA ReadCopyCore ==
  ASSUME Core, NEW p \in Procs, ReadCopy(p) \/ ReadWrap(p)
  PROVE  Core'
  <1>1. TypeInvariant /\ SemaphoreExact /\ PointersWrapped /\ FileOpen /\ OpeningsCounted
    BY DEF Core
  <1>2. CASE ReadCopy(p)
    <2>1. pc' = [pc EXCEPT ![p] = "r_wrap"] /\ pc[p] = "r_cs" /\ UNCHANGED signal
      BY <1>2 DEF ReadCopy, Goto
    <2>2. UNCHANGED <<seen, sem, buffer, ring, wp, openVars, waitVars, async_queue>>
      BY <1>2 DEF ReadCopy
    <2>3. rp \in 0 .. Size - 1 /\ wp \in 0 .. Size - 1
      BY <2>1, HolderSeesWrapped DEF Holding
    <2>4. rp' \in 0 .. Size
      <3>1. PICK c \in Counts : rp' = rp + Readable(c)
        BY <1>2 DEF ReadCopy
      <3>2. rp # wp /\ c \in Nat
        BY <1>2, CountsAssumption DEF ReadCopy
      <3>3. Readable(c) \in 0 .. Size - rp
        BY <2>3, <3>2, ReadableBound
      <3> QED BY <2>3, <3>1, <3>3
    <2>5. TypeInvariant'
      BY <1>1, <2>1, <2>2, <2>4
         DEF TypeInvariant, Locations, Holding, openVars, waitVars
    <2>6. SemaphoreExact'
      BY <1>1, <2>1, <2>2, SemaphoreKept DEF Holding
    <2>7. PointersWrapped'
      <3>1. pc'[p] = "r_wrap"
        BY <1>1, <2>1 DEF TypeInvariant
      <3> QED BY <2>2, <2>3, <3>1 DEF PointersWrapped
    <2>8. FileOpen' /\ OpeningsCounted'
      BY <1>1, <2>1, <2>2, FileOpenKept, OpeningsKept DEF NoFile, openVars
    <2> QED BY <2>5, <2>6, <2>7, <2>8 DEF Core
  <1>3. CASE ReadWrap(p)
    <2>1. pc' = [pc EXCEPT ![p] = "r_wake"] /\ pc[p] = "r_wrap" /\ UNCHANGED signal
      BY <1>3 DEF ReadWrap, Goto
    <2>2. UNCHANGED <<seen, buffer, ring, wp, openVars, waitVars, async_queue>>
      BY <1>3 DEF ReadWrap
    <2>3. rp' \in 0 .. Size - 1 /\ wp \in 0 .. Size - 1
      BY <1>1, <1>3, <2>1, HolderSeesWrapped DEF Holding, ReadWrap, TypeInvariant
    <2>4. SemaphoreExact' /\ sem' \in {0, 1}
      BY <1>1, <1>3, <2>1, SemaphoreGiven DEF Holding, ReadWrap, up
    <2>5. TypeInvariant'
      BY <1>1, <2>1, <2>2, <2>3, <2>4
         DEF TypeInvariant, Locations, Waking, openVars, waitVars
    <2>6. PointersWrapped'
      BY <2>2, <2>3 DEF PointersWrapped
    <2>7. FileOpen' /\ OpeningsCounted'
      BY <1>1, <2>1, <2>2, FileOpenKept, OpeningsKept DEF NoFile, openVars
    <2> QED BY <2>4, <2>5, <2>6, <2>7 DEF Core
  <1> QED BY <1>2, <1>3

(* the two steps by which a write moves wp *)
LEMMA WriteCopyCore ==
  ASSUME Core, NEW p \in Procs, WriteCopy(p) \/ WriteWrap(p)
  PROVE  Core'
  <1>1. TypeInvariant /\ SemaphoreExact /\ PointersWrapped /\ FileOpen /\ OpeningsCounted
    BY DEF Core
  <1>2. CASE WriteCopy(p)
    <2>1. pc' = [pc EXCEPT ![p] = "w_wrap"] /\ pc[p] = "w_cs" /\ UNCHANGED signal
      BY <1>2 DEF WriteCopy, Goto
    <2>2. UNCHANGED <<seen, sem, buffer, rp, openVars, waitVars, async_queue>>
      BY <1>2 DEF WriteCopy
    <2>3. rp \in 0 .. Size - 1 /\ wp \in 0 .. Size - 1
      BY <2>1, HolderSeesWrapped DEF Holding
    <2>4. wp' \in 0 .. Size /\ ring' \in [0 .. Size - 1 -> Byte \union {Junk}]
      <3>1. PICK c \in Counts : \E s \in [1 .. Writable(c) -> Byte] :
                ring' = Stored(s) /\ wp' = wp + Writable(c)
        BY <1>2 DEF WriteCopy
      <3>2. PICK s \in [1 .. Writable(c) -> Byte] : ring' = Stored(s)
        BY <3>1
      <3>3. Writable(c) \in 0 .. Size - wp
        BY <1>2, <2>3, WritableBound, CountsAssumption DEF WriteCopy
      <3>4. Writable(c) \in Nat /\ wp + Writable(c) \in 0 .. Size
        BY <2>3, <3>3
      <3> QED BY <1>1, <3>1, <3>2, <3>4, StoredType
    <2>5. TypeInvariant'
      BY <1>1, <2>1, <2>2, <2>4
         DEF TypeInvariant, Locations, Holding, openVars, waitVars
    <2>6. SemaphoreExact'
      BY <1>1, <2>1, <2>2, SemaphoreKept DEF Holding
    <2>7. PointersWrapped'
      <3>1. pc'[p] = "w_wrap"
        BY <1>1, <2>1 DEF TypeInvariant
      <3> QED BY <2>2, <2>3, <3>1 DEF PointersWrapped
    <2>8. FileOpen' /\ OpeningsCounted'
      BY <1>1, <2>1, <2>2, FileOpenKept, OpeningsKept DEF NoFile, openVars
    <2> QED BY <2>5, <2>6, <2>7, <2>8 DEF Core
  <1>3. CASE WriteWrap(p)
    <2>1. pc' = [pc EXCEPT ![p] = "w_wake"] /\ pc[p] = "w_wrap" /\ UNCHANGED signal
      BY <1>3 DEF WriteWrap, Goto
    <2>2. UNCHANGED <<seen, buffer, ring, rp, openVars, waitVars, async_queue>>
      BY <1>3 DEF WriteWrap
    <2>3. rp \in 0 .. Size - 1 /\ wp' \in 0 .. Size - 1
      BY <1>1, <1>3, <2>1, HolderSeesWrapped DEF Holding, WriteWrap, TypeInvariant
    <2>4. SemaphoreExact' /\ sem' \in {0, 1}
      BY <1>1, <1>3, <2>1, SemaphoreGiven DEF Holding, WriteWrap, up
    <2>5. TypeInvariant'
      BY <1>1, <2>1, <2>2, <2>3, <2>4
         DEF TypeInvariant, Locations, Waking, openVars, waitVars
    <2>6. PointersWrapped'
      BY <2>2, <2>3 DEF PointersWrapped
    <2>7. FileOpen' /\ OpeningsCounted'
      BY <1>1, <2>1, <2>2, FileOpenKept, OpeningsKept DEF NoFile, openVars
    <2> QED BY <2>4, <2>5, <2>6, <2>7 DEF Core
  <1> QED BY <1>2, <1>3

-----------------------------------------------------------------------------
(***************************************************************************)
(* Opening and closing files                                               *)
(***************************************************************************)
(* only finitely many processes have a file open for reading or writing *)
LEMMA FilesFinite == \A l : IsFiniteSet(Files(l)) /\ Cardinality(Files(l)) \in Nat
  BY ProcsAssumption, FS_Subset, FS_CardinalityType DEF Files

(* opening a file adds one to the files of each mode it has *)
LEMMA FileOpened ==
  ASSUME TypeInvariant, NEW p \in Procs, f_mode[p] = {}, NEW m \in Modes,
         f_mode' = [f_mode EXCEPT ![p] = m], NEW l \in {"r", "w"}
  PROVE  Cardinality(Files(l))' = Cardinality(Files(l)) + Count(m, l)
  <1>1. CASE l \in m
    <2>1. Files(l)' = Files(l) \union {p} /\ p \notin Files(l)
      BY <1>1 DEF Files, TypeInvariant
    <2> QED BY <1>1, <2>1, FilesFinite, FS_AddElement DEF Count
  <1>2. CASE l \notin m
    <2>1. Files(l)' = Files(l)
      BY <1>2 DEF Files, TypeInvariant
    <2> QED BY <1>2, <2>1, FilesFinite DEF Count
  <1> QED BY <1>1, <1>2

(* closing it takes that one away again *)
LEMMA FileClosed ==
  ASSUME TypeInvariant, NEW p \in Procs,
         f_mode' = [f_mode EXCEPT ![p] = {}], NEW l \in {"r", "w"}
  PROVE  /\ Cardinality(Files(l))' = Cardinality(Files(l)) - Count(f_mode[p], l)
         /\ Files(l)' = Files(l) \ {p}
  <1>1. Files(l)' = Files(l) \ {p} /\ (p \in Files(l) <=> l \in f_mode[p])
    BY DEF Files, TypeInvariant
  <1>2. Cardinality(Files(l) \ {p})
          = IF p \in Files(l) THEN Cardinality(Files(l)) - 1 ELSE Cardinality(Files(l))
    BY FilesFinite, FS_RemoveElement
  <1>3. Cardinality(Files(l))' = Cardinality(Files(l) \ {p})
    BY <1>1
  <1> QED BY <1>1, <1>2, <1>3, FilesFinite DEF Count

(* whoever has the file open keeps the buffer alive *)
LEMMA OpenHasBuffer ==
  ASSUME Core, NEW p \in Procs, pc[p] \notin NoFile
  PROVE  buffer
  <1>1. f_mode[p] # {} /\ f_mode[p] \in Modes
    BY DEF Core, FileOpen, TypeInvariant
  <1>2. f_mode[p] \in SUBSET {"r", "w"}
    BY <1>1, ModesAssumption
  <1>3. PICK x : x \in f_mode[p]
    BY <1>1
  <1>4. "r" \in f_mode[p] \/ "w" \in f_mode[p]
    BY <1>2, <1>3
  <1>5. Files("r") \union Files("w") # {}
    BY <1>4 DEF Files
  <1> QED BY <1>5 DEF Core, OpeningsCounted

(* an open, which resets the pointers and counts itself *)
LEMMA OpenResetCore ==
  ASSUME Core, NEW p \in Procs, OpenReset(p)
  PROVE  Core'
  <1>1. TypeInvariant /\ SemaphoreExact /\ PointersWrapped /\ FileOpen /\ OpeningsCounted
    BY DEF Core
  <1>2. PICK m \in Modes :
           /\ f_mode' = [f_mode EXCEPT ![p] = m]
           /\ nreaders' = nreaders + Count(m, "r")
           /\ nwriters' = nwriters + Count(m, "w")
    BY DEF OpenReset
  <1>3. pc[p] = "open_cs" /\ f_mode[p] = {} /\ pc' = [pc EXCEPT ![p] = "idle"]
    BY <1>1 DEF OpenReset, Return, FileOpen, NoFile
  <1>4. SemaphoreExact' /\ sem' \in {0, 1}
    BY <1>1, <1>3, SemaphoreGiven DEF OpenReset, up, Holding
  <1>5. rp' = 0 /\ wp' = 0 /\ buffer' = TRUE
    BY DEF OpenReset
  <1>6. TypeInvariant'
    <2>1. ring' \in [0 .. Size - 1 -> Byte \union {Junk}]
      BY <1>1 DEF OpenReset, TypeInvariant
    <2>2. nreaders' \in Nat /\ nwriters' \in Nat
      BY <1>1, <1>2 DEF TypeInvariant, Count
    <2>3. pc' \in [Procs -> Locations] /\ f_mode' \in [Procs -> Modes \union {{}}]
      BY <1>1, <1>2, <1>3 DEF TypeInvariant, Locations, Outside
    <2>4. signal' \in [Procs -> BOOLEAN] /\ orphans' \subseteq Procs
      BY <1>1 DEF OpenReset, Return, TypeInvariant
    <2>5. rp' \in 0 .. Size /\ wp' \in 0 .. Size
      BY <1>5
    <2> QED BY <1>1, <1>4, <1>5, <2>1, <2>2, <2>3, <2>4, <2>5 DEF OpenReset, TypeInvariant
  <1>7. PointersWrapped'
    BY <1>5 DEF PointersWrapped
  <1>8. FileOpen'
    BY <1>1, <1>2, <1>3, ModesAssumption DEF FileOpen, TypeInvariant, NoFile
  <1>9. OpeningsCounted'
    <2>1. /\ nreaders' = Cardinality(Files("r"))'
          /\ nwriters' = Cardinality(Files("w"))'
      BY <1>1, <1>2, <1>3, FileOpened DEF OpeningsCounted
    <2>2. "r" \in m \/ "w" \in m
      BY ModesAssumption
    <2>3. p \in Files("r")' \union Files("w")'
      BY <1>1, <1>2, <2>2 DEF Files, TypeInvariant
    <2> QED BY <1>5, <2>1, <2>3 DEF OpeningsCounted
  <1> QED BY <1>4, <1>6, <1>7, <1>8, <1>9 DEF Core

(* a release, which may be the last and free the buffer *)
LEMMA ReleaseFileCore ==
  ASSUME Core, NEW p \in Procs, ReleaseFile(p)
  PROVE  Core'
  <1>1. TypeInvariant /\ SemaphoreExact /\ PointersWrapped /\ FileOpen /\ OpeningsCounted
    BY DEF Core
  <1>2. /\ f_mode' = [f_mode EXCEPT ![p] = {}]
        /\ nreaders' = nreaders - Count(f_mode[p], "r")
        /\ nwriters' = nwriters - Count(f_mode[p], "w")
    BY DEF ReleaseFile
  <1>3. pc[p] = "release_cs" /\ pc' = [pc EXCEPT ![p] = "closed"]
    BY <1>1 DEF ReleaseFile, Return
  <1>4. SemaphoreExact' /\ sem' \in {0, 1}
    BY <1>1, <1>3, SemaphoreGiven DEF ReleaseFile, up, Holding
  <1>5. rp \in 0 .. Size - 1 /\ wp \in 0 .. Size - 1 /\ UNCHANGED <<rp, wp>>
    BY <1>3, HolderSeesWrapped DEF ReleaseFile, Holding
  <1>6. /\ nreaders' = Cardinality(Files("r"))' /\ nwriters' = Cardinality(Files("w"))'
        /\ nreaders' \in Nat /\ nwriters' \in Nat
    <2>1. /\ nreaders' = Cardinality(Files("r"))'
          /\ nwriters' = Cardinality(Files("w"))'
      BY <1>1, <1>2, FileClosed DEF OpeningsCounted
    <2>2. /\ Cardinality(Files("r") \ {p}) \in Nat
          /\ Cardinality(Files("w") \ {p}) \in Nat
      BY FilesFinite, FS_RemoveElement, FS_CardinalityType
    <2>3. Files("r")' = Files("r") \ {p} /\ Files("w")' = Files("w") \ {p}
      BY <1>1, <1>2, FileClosed
    <2> QED BY <2>1, <2>2, <2>3
  <1>7. OpeningsCounted'
    <2>1. /\ IsFiniteSet(Files("r")') /\ IsFiniteSet(Files("w")')
      <3>1. /\ IsFiniteSet(Files("r") \ {p}) /\ IsFiniteSet(Files("w") \ {p})
        BY FilesFinite, FS_RemoveElement
      <3>2. Files("r")' = Files("r") \ {p} /\ Files("w")' = Files("w") \ {p}
        BY <1>1, <1>2, FileClosed
      <3> QED BY <3>1, <3>2
    <2>2. nreaders' + nwriters' = 0 <=> Files("r")' = {} /\ Files("w")' = {}
      <3>1. /\ nreaders' = 0 <=> Files("r")' = {}
            /\ nwriters' = 0 <=> Files("w")' = {}
        BY <1>6, <2>1, FS_EmptySet
      <3> QED BY <1>6, <3>1
    <2>3. buffer' <=> nreaders' + nwriters' # 0
      <3>1. buffer
        BY <1>3, OpenHasBuffer DEF NoFile
      <3> QED BY <3>1 DEF ReleaseFile
    <2> QED BY <1>6, <2>2, <2>3 DEF OpeningsCounted
  <1>8. TypeInvariant'
    <2>1. ring' \in [0 .. Size - 1 -> Byte \union {Junk}]
      BY <1>1 DEF ReleaseFile, TypeInvariant
    <2>2. pc' \in [Procs -> Locations] /\ f_mode' \in [Procs -> Modes \union {{}}]
      BY <1>1, <1>2, <1>3 DEF TypeInvariant, Locations, Outside
    <2>3. signal' \in [Procs -> BOOLEAN] /\ buffer' \in BOOLEAN
      BY <1>1 DEF ReleaseFile, Return, TypeInvariant
    <2> QED BY <1>1, <1>4, <1>5, <1>6, <2>1, <2>2, <2>3 DEF ReleaseFile, TypeInvariant, waitVars
  <1>9. PointersWrapped' /\ FileOpen'
    BY <1>1, <1>2, <1>3, <1>5 DEF PointersWrapped, FileOpen, TypeInvariant, NoFile
  <1> QED BY <1>4, <1>7, <1>8, <1>9 DEF Core

(* Core is inductive *)
LEMMA CoreStep == Core /\ [Next]_vars => Core'
  <1> SUFFICES ASSUME Core, [Next]_vars PROVE Core'
    OBVIOUS
  <1>1. CASE UNCHANGED vars
    BY <1>1 DEF vars, procVars, ringVars, openVars, waitVars, Core, TypeInvariant,
       SemaphoreExact, PointersWrapped, FileOpen, OpeningsCounted, Files
  <1>2. ASSUME NEW p \in Procs, User(p) \/ Down(p) \/ DownInterrupted(p) \/ Step(p)
        PROVE  Core'
    BY <1>2, UserCore, DownCore, QuietCore, ReadCopyCore, WriteCopyCore,
       OpenResetCore, ReleaseFileCore DEF Step, QuietAction
  <1> QED BY <1>1, <1>2 DEF Next

(* Every reachable state has well-typed variables: the pointers stay in    *)
(* the buffer and no count of openings is ever negative.                   *)
THEOREM TypeCorrect == Spec => []TypeInvariant
  <1>1. Core => TypeInvariant
    BY DEF Core
  <1> QED BY <1>1, CoreInit, CoreStep, PTL DEF Spec

(* The semaphore of pipe.c is a mutex, and no path of any call returns     *)
(* with it held or gives it up twice.                                      *)
THEOREM SemaphoreCorrect == Spec => []SemaphoreExact
  <1>1. Core => SemaphoreExact
    BY DEF Core
  <1> QED BY <1>1, CoreInit, CoreStep, PTL DEF Spec

(* No unwrapped pointer survives the call that advanced it.                *)
THEOREM PointersCorrect == Spec => []PointersWrapped
  <1>1. Core => PointersWrapped
    BY DEF Core
  <1> QED BY <1>1, CoreInit, CoreStep, PTL DEF Spec

(* nreaders and nwriters count the open files, and the buffer lives        *)
(* exactly as long as one of them is open.                                 *)
THEOREM OpeningsCorrect == Spec => []OpeningsCounted
  <1>1. Core => OpeningsCounted
    BY DEF Core
  <1> QED BY <1>1, CoreInit, CoreStep, PTL DEF Spec

(* No call uses the buffer after the last release has freed it.            *)
THEOREM NoUseAfterFreeCorrect == Spec => []NoUseAfterFree
  <1>1. Core => NoUseAfterFree
    <2> SUFFICES ASSUME Core, NEW p \in Procs,
                        pc[p] \in Holding \ {"open_cs", "proc_cs"}
                 PROVE  buffer
      BY DEF NoUseAfterFree
    <2> QED BY OpenHasBuffer DEF NoFile, Holding
  <1> QED BY <1>1, CoreInit, CoreStep, PTL DEF Spec
-----------------------------------------------------------------------------
(***************************************************************************)
(* No lost wake-up.  ReadersAsleep and WritersAsleep add to Core what a    *)
(* task on a wait queue knows of the buffer while nobody is about to wake  *)
(* it; the steps that move a pointer are the ones that need an argument.   *)
(***************************************************************************)
(* a step of p that moves no pointer and does not put p to sleep *)
LEMMA ReadersQuiet ==
  ASSUME Core, ReadersAsleep, NEW p \in Procs, NEW l,
         pc' = [pc EXCEPT ![p] = l],
         pc[p] \notin {"w_wrap", "w_wake"},
         l \notin {"r_check2", "r_sched", "poll_sched"},
         UNCHANGED <<rp, wp>>,
         \A q \in Procs \ {p} : /\ q \in inq' => q \in inq
                                /\ q \in outq' => q \in outq
                                /\ seen'[q] = seen[q] /\ f_mode'[q] = f_mode[q],
         inq' \subseteq Procs
  PROVE  ReadersAsleep'
  <1>1. WriterActive => WriterActive'
    BY DEF Core, TypeInvariant, WriterActive
  <1>2. pc'[p] = l /\ \A q \in Procs \ {p} : pc'[q] = pc[q]
    BY DEF Core, TypeInvariant
  <1>3. Empty <=> Empty'
    BY DEF Empty, Wrapped
  <1> SUFFICES ASSUME NEW q \in inq', ~WriterActive'
               PROVE  /\ pc'[q] = "r_check2" /\ seen'[q] = wp' => Empty'
                      /\ pc'[q] = "r_sched" => Empty'
                      /\ pc'[q] = "poll_sched" /\ q \in outq' /\ "r" \in f_mode'[q] => Empty'
    BY DEF ReadersAsleep
  <1>4. CASE q = p
    BY <1>2, <1>4
  <1>5. CASE q # p
    BY <1>1, <1>2, <1>3, <1>5 DEF ReadersAsleep
  <1> QED BY <1>4, <1>5

(* the same for the writers *)
LEMMA WritersQuiet ==
  ASSUME Core, WritersAsleep, NEW p \in Procs, NEW l,
         pc' = [pc EXCEPT ![p] = l],
         pc[p] \notin {"r_wrap", "r_wake"},
         l \notin {"w_check2", "w_sched", "poll_sched"},
         UNCHANGED <<rp, wp>>,
         \A q \in Procs \ {p} : /\ q \in inq' => q \in inq
                                /\ q \in outq' \ orphans' => q \in outq \ orphans
                                /\ seen'[q] = seen[q] /\ f_mode'[q] = f_mode[q],
         outq' \subseteq Procs
  PROVE  WritersAsleep'
  <1>1. ReaderActive => ReaderActive'
    BY DEF Core, TypeInvariant, ReaderActive
  <1>2. pc'[p] = l /\ \A q \in Procs \ {p} : pc'[q] = pc[q]
    BY DEF Core, TypeInvariant
  <1>3. Full <=> Full'
    BY DEF Full, Wrapped, spacefree
  <1> SUFFICES ASSUME NEW q \in outq' \ orphans', ~ReaderActive'
               PROVE  /\ pc'[q] = "w_check2" => seen'[q] = rp'
                      /\ pc'[q] = "w_sched" => Full'
                      /\ pc'[q] = "poll_sched" /\ q \in inq' /\ "w" \in f_mode'[q] => Full'
    BY DEF WritersAsleep
  <1>4. CASE q = p
    BY <1>2, <1>4
  <1>5. CASE q # p
    BY <1>1, <1>2, <1>3, <1>5 DEF WritersAsleep
  <1> QED BY <1>4, <1>5

(* the user's steps, the semaphore's and those of QuietAction that put     *)
(* nobody to sleep                                                         *)
Awake(p) ==
  \/ OpenNoMemory(p) \/ ReadEmpty(p) \/ ReadFault(p)
  \/ ReadPrepare(p) \/ ReadAwake(p)
  \/ WriteFull(p) \/ WriteFault(p) \/ WriteSigio(p)
  \/ WritePrepare(p) \/ WriteAwake(p)
  \/ PollAwake(p) \/ ProcPrint(p) \/ ReleaseFile(p)

(* what Awake steps have in common *)
LEMMA AwakeEffect ==
  ASSUME Core, NEW p \in Procs, Awake(p)
  PROVE  /\ \E l \in Locations \ {"r_check2", "r_sched", "w_check2", "w_sched", "poll_sched"} :
                pc' = [pc EXCEPT ![p] = l]
         /\ pc[p] \notin {"r_wrap", "r_wake", "w_wrap", "w_wake"}
         /\ UNCHANGED <<rp, wp>>
         /\ inq' \in {inq, inq \union {p}}
         /\ \/ UNCHANGED <<outq, orphans>>
            \/ outq' = outq \union {p} /\ UNCHANGED orphans
            \/ outq' = outq \ {p} /\ orphans' = orphans \ {p}
         /\ seen' = seen
         /\ f_mode' \in {f_mode, [f_mode EXCEPT ![p] = {}]}
  <1> USE DEF Locations, Outside, Downs, Interruptible, Waiting, ringVars, openVars, waitVars
  <1>1. CASE OpenNoMemory(p) \/ ReadFault(p) \/ WriteFault(p) \/ ProcPrint(p) \/ ReleaseFile(p)
    BY <1>1 DEF OpenNoMemory, ReadFault, WriteFault, ProcPrint, ReleaseFile, Return
  <1>2. CASE ReadEmpty(p) \/ WriteFull(p)
    BY <1>2 DEF ReadEmpty, WriteFull, Return, Goto
  <1>3. CASE ReadPrepare(p) \/ ReadAwake(p) \/ PollAwake(p) \/ WritePrepare(p)
    BY <1>3 DEF ReadPrepare, ReadAwake, PollAwake, WritePrepare, Goto
  <1>4. CASE WriteSigio(p) \/ WriteAwake(p)
    BY <1>4 DEF WriteSigio, WriteAwake, FinishWait, Return, Goto
  <1> QED BY <1>1, <1>2, <1>3, <1>4 DEF Awake

(* entering a call, or leaving or passing a down *)
LEMMA EnterEffect ==
  ASSUME Core, NEW p \in Procs, 
         User(p) \/ Down(p) \/ DownInterrupted(p)
  PROVE  /\ \/ UNCHANGED pc
            \/ /\ pc[p] \notin {"r_wrap", "r_wake", "w_wrap", "w_wake"}
               /\ \E l \in Locations \ {"r_check2", "r_sched", "w_check2", "w_sched", "poll_sched"} :
                    pc' = [pc EXCEPT ![p] = l]
         /\ UNCHANGED <<rp, wp, inq, outq, orphans, seen, f_mode>>
  <1> USE DEF Locations, Outside, Downs, Interruptible, Holding, ringVars, openVars, waitVars
  <1>1. CASE User(p)
    BY <1>1 DEF User, Open, Release, Read, Write, Poll, ProcRead, Call, Goto, Fasync,
                Signal, procVars
  <1>2. CASE Down(p)
    BY <1>2 DEF Down, Enter, Goto
  <1>3. CASE DownInterrupted(p)
    BY <1>3 DEF DownInterrupted, Return
  <1> QED BY <1>1, <1>2, <1>3

(* every step keeps the readers' part of Inv *)
LEMMA ReadersStep ==
  ASSUME Core, ReadersAsleep, NEW p \in Procs,
         User(p) \/ Down(p) \/ DownInterrupted(p) \/ Step(p)
  PROVE  ReadersAsleep'
  <1>0. inq \subseteq Procs /\ outq \subseteq Procs /\ pc \in [Procs -> Locations]
        /\ seen \in [Procs -> 0 .. Size] /\ f_mode \in [Procs -> Modes \union {{}}]
    BY DEF Core, TypeInvariant
  <1>1. CASE User(p) \/ Down(p) \/ DownInterrupted(p)
    <2>1. CASE UNCHANGED pc
      BY <1>1, <2>1, EnterEffect
         DEF ReadersAsleep, WriterActive, Empty, Wrapped
    <2>2. CASE ~UNCHANGED pc
      BY <1>0, <1>1, <2>2, EnterEffect, ReadersQuiet
    <2> QED BY <2>1, <2>2
  <1>2. CASE Awake(p)
    <2>1. \A q \in Procs \ {p} : f_mode'[q] = f_mode[q]
      BY <1>0, <1>2, AwakeEffect
    <2> QED BY <1>0, <1>2, <2>1, AwakeEffect, ReadersQuiet
  <1>3. CASE Sample(p)
    <2>1. /\ UNCHANGED <<rp, wp, inq, outq, f_mode>>
          /\ seen' = [seen EXCEPT ![p] = rp]
      BY <1>3 DEF Sample, ringVars, openVars, waitVars
    <2>2. CASE pc' = [pc EXCEPT ![p] = "w_check2"] /\ pc[p] = "w_check"
      BY <1>0, <2>1, <2>2, ReadersQuiet
    <2>3. CASE pc' = [pc EXCEPT ![p] = "r_check2"] /\ pc[p] = "r_check"
      BY <1>0, <2>1, <2>3 DEF ReadersAsleep, WriterActive, Empty, Wrapped
    <2> QED BY <1>3, <2>2, <2>3 DEF Sample, Goto
  <1>4. CASE ReadCheck(p)
    <2>1. /\ UNCHANGED <<rp, wp, outq, f_mode>> /\ pc[p] = "r_check2"
          /\ seen' = [seen EXCEPT ![p] = 0]
          /\ inq' \subseteq inq
      BY <1>4 DEF ReadCheck, ringVars, openVars
    <2>2. CASE pc' = [pc EXCEPT ![p] = "r_sched"] /\ seen[p] = wp
      BY <1>0, <2>1, <2>2 DEF ReadersAsleep, WriterActive, Empty, Wrapped
    <2>3. CASE \E l \in {"idle", "r_down"} : pc' = [pc EXCEPT ![p] = l]
      BY <1>0, <2>1, <2>3, ReadersQuiet
    <2> QED BY <1>4, <2>2, <2>3 DEF ReadCheck, Goto, Return
  <1>5. CASE WriteCheck(p)
    <2>1. /\ UNCHANGED <<rp, wp, inq, f_mode>> /\ pc[p] = "w_check2"
          /\ seen' = [seen EXCEPT ![p] = 0] /\ outq' \subseteq outq
      BY <1>5 DEF WriteCheck, FinishWait, ringVars, openVars
    <2>2. PICK l \in {"w_sched", "idle", "w_down"} : pc' = [pc EXCEPT ![p] = l]
      BY <1>5 DEF WriteCheck, FinishWait, Goto, Return
    <2> QED BY <1>0, <2>1, <2>2, ReadersQuiet
  <1>6. CASE PollCheck(p)
    <2>1. /\ UNCHANGED <<rp, wp, seen, f_mode>> /\ pc[p] = "poll_cs"
          /\ inq' \in {inq \ {p}, inq \union {p}}
          /\ outq' \in {outq \ {p}, outq \union {p}}
      BY <1>6 DEF PollCheck, ringVars, openVars
    <2>2. CASE pc' = [pc EXCEPT ![p] = "idle"]
      BY <1>0, <2>1, <2>2, ReadersQuiet
    <2>3. CASE pc' = [pc EXCEPT ![p] = "poll_sched"] /\ ~Ready(p)
      BY <1>0, <2>1, <2>3 DEF ReadersAsleep, WriterActive, Ready, Empty, Wrapped
    <2> QED BY <1>6, <2>2, <2>3 DEF PollCheck, Goto, Return
  <1>7. CASE ReadCopy(p)
    <2>1. /\ UNCHANGED <<wp, inq, outq, seen, f_mode>> /\ pc[p] = "r_cs" /\ rp # wp
          /\ pc' = [pc EXCEPT ![p] = "r_wrap"]
      BY <1>7 DEF ReadCopy, Goto, openVars, waitVars
    <2>2. ~Empty
      BY <2>1, HolderSeesWrapped DEF Empty, Wrapped, Holding
    <2> QED BY <1>0, <2>1, <2>2 DEF ReadersAsleep, WriterActive
  <1>8. CASE ReadWrap(p)
    <2>1. /\ UNCHANGED <<wp, inq, outq, seen, f_mode>> /\ pc[p] = "r_wrap"
          /\ pc' = [pc EXCEPT ![p] = "r_wake"]
          /\ rp' = Wrapped(rp)
      BY <1>8 DEF ReadWrap, Goto, openVars, waitVars, Wrapped
    <2>2. Empty' <=> Empty
      BY <2>1 DEF Empty, Wrapped
    <2> QED BY <1>0, <2>1, <2>2 DEF ReadersAsleep, WriterActive
  <1>9. CASE ReadWake(p)
    <2>1. /\ UNCHANGED <<rp, wp, inq, seen, f_mode>> /\ pc[p] = "r_wake" /\ outq' = {}
          /\ pc' = [pc EXCEPT ![p] = "idle"]
      BY <1>9 DEF ReadWake, Return, ringVars, openVars
    <2> QED BY <1>0, <2>1, ReadersQuiet
  <1>10. CASE WriteCopy(p)
    BY <1>0, <1>10 DEF WriteCopy, Goto, ReadersAsleep, WriterActive
  <1>11. CASE WriteWrap(p)
    BY <1>0, <1>11 DEF WriteWrap, Goto, ReadersAsleep, WriterActive
  <1>12. CASE WriteWake(p)
    BY <1>12 DEF WriteWake, ReadersAsleep
  <1>13. CASE OpenReset(p)
    BY <1>13 DEF OpenReset, ReadersAsleep, Empty, Wrapped
  <1> QED BY <1>1, <1>2, <1>3, <1>4, <1>5, <1>6, <1>7, <1>8, <1>9, <1>10, <1>11,
             <1>12, <1>13 DEF Step, Awake

(* with wp unwrapped the unlocked check still tells a full buffer          *)
LEMMA SampledFull ==
  ASSUME rp \in 0 .. Size - 1, wp \in 0 .. Size, spacefree(rp, wp) = 0
  PROVE  Full
  <1>1. CASE wp = Size
    <2>1. rp = 1
      BY <1>1, SpaceFreeUnwrapped
    <2>2. spacefree(1, 0) = 0
      BY <2>1, SpaceFree
    <2> QED BY <1>1, <2>1, <2>2 DEF Full, Wrapped
  <1>2. CASE wp # Size
    BY <1>2 DEF Full, Wrapped
  <1> QED BY <1>1, <1>2

(* every step keeps the writers' part of Inv *)
LEMMA WritersStep ==
  ASSUME Core, WritersAsleep, NEW p \in Procs,
         User(p) \/ Down(p) \/ DownInterrupted(p) \/ Step(p)
  PROVE  WritersAsleep'
  <1>0. inq \subseteq Procs /\ outq \subseteq Procs /\ pc \in [Procs -> Locations]
        /\ seen \in [Procs -> 0 .. Size] /\ f_mode \in [Procs -> Modes \union {{}}]
        /\ rp \in 0 .. Size /\ wp \in 0 .. Size
    BY DEF Core, TypeInvariant
  <1>1. CASE User(p) \/ Down(p) \/ DownInterrupted(p)
    <2>1. CASE UNCHANGED pc
      BY <1>1, <2>1, EnterEffect
         DEF WritersAsleep, ReaderActive, Full, Wrapped, spacefree
    <2>2. CASE ~UNCHANGED pc
      BY <1>0, <1>1, <2>2, EnterEffect, WritersQuiet
    <2> QED BY <2>1, <2>2
  <1>2. CASE Awake(p)
    <2>1. \A q \in Procs \ {p} : f_mode'[q] = f_mode[q]
      BY <1>0, <1>2, AwakeEffect
    <2> QED BY <1>0, <1>2, <2>1, AwakeEffect, WritersQuiet
  <1>3. CASE Sample(p)
    <2>1. /\ UNCHANGED <<rp, wp, inq, outq, orphans, f_mode>>
          /\ seen' = [seen EXCEPT ![p] = rp]
      BY <1>3 DEF Sample, ringVars, openVars, waitVars
    <2>2. CASE pc' = [pc EXCEPT ![p] = "r_check2"] /\ pc[p] = "r_check"
      BY <1>0, <2>1, <2>2, WritersQuiet
    <2>3. CASE pc' = [pc EXCEPT ![p] = "w_check2"] /\ pc[p] = "w_check"
      BY <1>0, <2>1, <2>3 DEF WritersAsleep, ReaderActive, Full, Wrapped, spacefree
    <2> QED BY <1>3, <2>2, <2>3 DEF Sample, Goto
  <1>4. CASE WriteCheck(p)
    <2>1. /\ UNCHANGED <<rp, wp, inq, f_mode>> /\ pc[p] = "w_check2"
          /\ seen' = [seen EXCEPT ![p] = 0]
      BY <1>4 DEF WriteCheck, ringVars, openVars
    <2>2. CASE /\ pc' = [pc EXCEPT ![p] = "w_sched"] /\ spacefree(seen[p], wp) = 0
               /\ UNCHANGED <<outq, orphans>>
      <3>1. p \in outq \ orphans => ReaderActive \/ Full
        <4> SUFFICES ASSUME p \in outq \ orphans, ~ReaderActive PROVE Full
          OBVIOUS
        <4>1. seen[p] = rp
          BY <2>1 DEF WritersAsleep
        <4>2. rp # Size
          BY DEF Core, PointersWrapped, ReaderActive
        <4> QED BY <1>0, <2>2, <4>1, <4>2, SampledFull
      <3> QED BY <1>0, <2>1, <2>2, <3>1 DEF WritersAsleep, ReaderActive, Full, Wrapped, spacefree
    <2>3. CASE /\ \E l \in {"idle", "w_down"} : pc' = [pc EXCEPT ![p] = l]
               /\ outq' = outq \ {p} /\ orphans' = orphans \ {p}
      BY <1>0, <2>1, <2>3, WritersQuiet
    <2> QED BY <1>4, <2>2, <2>3 DEF WriteCheck, FinishWait, Goto, Return
  <1>5. CASE ReadCheck(p)
    <2>1. /\ UNCHANGED <<rp, wp, outq, orphans, f_mode>> /\ pc[p] = "r_check2"
          /\ seen' = [seen EXCEPT ![p] = 0] /\ inq' \subseteq inq
      BY <1>5 DEF ReadCheck, ringVars, openVars
    <2>2. PICK l \in {"r_sched", "idle", "r_down"} : pc' = [pc EXCEPT ![p] = l]
      BY <1>5 DEF ReadCheck, Goto, Return
    <2> QED BY <1>0, <2>1, <2>2, WritersQuiet
  <1>6. CASE PollCheck(p)
    <2>1. /\ UNCHANGED <<rp, wp, seen, f_mode>> /\ pc[p] = "poll_cs"
          /\ inq' \in {inq \ {p}, inq \union {p}}
          /\ outq' \in {outq \ {p}, outq \union {p}} /\ orphans' = orphans \ {p}
      BY <1>6 DEF PollCheck, ringVars, openVars
    <2>2. CASE pc' = [pc EXCEPT ![p] = "idle"]
      BY <1>0, <2>1, <2>2, WritersQuiet
    <2>3. CASE pc' = [pc EXCEPT ![p] = "poll_sched"] /\ ~Ready(p)
      <3>1. rp \in 0 .. Size - 1 /\ wp \in 0 .. Size - 1
        BY <2>1, HolderSeesWrapped DEF Holding
      <3>2. "w" \in f_mode[p] => Full
        BY <2>3, <3>1, SampledFull DEF Ready
      <3> QED BY <1>0, <2>1, <2>3, <3>2
              DEF WritersAsleep, ReaderActive, Full, Wrapped, spacefree
    <2> QED BY <1>6, <2>2, <2>3 DEF PollCheck, Goto, Return
  <1>7. CASE WriteCopy(p)
    <2>1. /\ UNCHANGED <<rp, inq, outq, orphans, seen, f_mode>>
          /\ pc[p] = "w_cs" /\ spacefree(rp, wp) # 0
          /\ pc' = [pc EXCEPT ![p] = "w_wrap"]
      BY <1>7 DEF WriteCopy, Goto, openVars, waitVars
    <2>2. ~Full
      BY <2>1, HolderSeesWrapped DEF Full, Wrapped, Holding
    <2> QED BY <1>0, <2>1, <2>2 DEF WritersAsleep, ReaderActive
  <1>8. CASE WriteWrap(p)
    <2>1. /\ UNCHANGED <<rp, inq, outq, orphans, seen, f_mode>> /\ pc[p] = "w_wrap"
          /\ pc' = [pc EXCEPT ![p] = "w_wake"]
          /\ wp' = Wrapped(wp)
      BY <1>8 DEF WriteWrap, Goto, openVars, waitVars, Wrapped
    <2>2. Full' <=> Full
      BY <2>1 DEF Full, Wrapped, spacefree
    <2> QED BY <1>0, <2>1, <2>2 DEF WritersAsleep, ReaderActive
  <1>9. CASE WriteWake(p)
    <2>1. /\ UNCHANGED <<rp, wp, outq, orphans, seen, f_mode>> /\ pc[p] = "w_wake" /\ inq' = {}
          /\ pc' = [pc EXCEPT ![p] = "w_sigio"]
      BY <1>9 DEF WriteWake, Goto, ringVars, openVars
    <2> QED BY <1>0, <2>1, WritersQuiet
  <1>10. CASE ReadCopy(p)
    BY <1>0, <1>10 DEF ReadCopy, Goto, WritersAsleep, ReaderActive
  <1>11. CASE ReadWrap(p)
    BY <1>0, <1>11 DEF ReadWrap, Goto, WritersAsleep, ReaderActive
  <1>12. CASE ReadWake(p)
    BY <1>12 DEF ReadWake, WritersAsleep
  <1>13. CASE OpenReset(p)
    BY <1>13 DEF OpenReset, WritersAsleep
  <1> QED BY <1>1, <1>2, <1>3, <1>4, <1>5, <1>6, <1>7, <1>8, <1>9, <1>10, <1>11,
             <1>12, <1>13 DEF Step, Awake

(* nobody is on a queue at the start *)
LEMMA InvInit == Init => Inv
  BY CoreInit DEF Init, Inv, ReadersAsleep, WritersAsleep

(* Inv is inductive *)
LEMMA InvStep == Inv /\ [Next]_vars => Inv'
  <1> SUFFICES ASSUME Inv, [Next]_vars PROVE ReadersAsleep' /\ WritersAsleep'
    BY CoreStep DEF Inv
  <1>1. CASE UNCHANGED vars
    BY <1>1 DEF Inv, vars, procVars, ringVars, openVars, waitVars, ReadersAsleep,
       WritersAsleep, WriterActive, ReaderActive, Empty, Full, Wrapped, spacefree
  <1>2. CASE Next
    BY <1>2, ReadersStep, WritersStep DEF Inv, Next
  <1> QED BY <1>1, <1>2

(* No reader or poller sleeps while there is data, unless a writer is      *)
(* about to wake it: the unlocked samples of rp and wp lose no wake-up.    *)
THEOREM ReadersWokenCorrect == Spec => []ReadersWoken
  <1>1. Inv => ReadersWoken
    BY DEF Inv, Core, TypeInvariant, ReadersAsleep, ReadersWoken, AwaitsData, WriterActive
  <1> QED BY <1>1, InvInit, InvStep, PTL DEF Spec

(* No writer or poller sleeps while there is space, unless a reader is     *)
(* about to wake it or an open reset the buffer under it.                  *)
THEOREM WritersWokenCorrect == Spec => []WritersWoken
  <1>1. Inv => WritersWoken
    BY DEF Inv, Core, TypeInvariant, WritersAsleep, WritersWoken, AwaitsSpace, ReaderActive
  <1> QED BY <1>1, InvInit, InvStep, PTL DEF Spec

-----------------------------------------------------------------------------
(***************************************************************************)
(* The device implements the queue of PipeFifo.  Contents is written with  *)
(* remainders; Queue is the same bytes without them, of a buffer whose     *)
(* pointers are r and w.                                                   *)
(***************************************************************************)
Pending(r, w) == IF Wrapped(r) <= Wrapped(w) THEN Wrapped(w) - Wrapped(r)
                                             ELSE Wrapped(w) - Wrapped(r) + Size

(* the place in the buffer of the i-th byte *)
Place(r, i) == IF r + i - 1 < Size THEN r + i - 1 ELSE r + i - 1 - Size

Queue(R, r, w) == [i \in 1 .. Pending(r, w) |-> R[Place(r, i)]]

Values == Byte \union {Junk}
Rings == [0 .. Size - 1 -> Values]

(* a remainder by Size, for what is at most one Size away from 0 .. Size - 1 *)
LEMMA RemainderIs ==
  ASSUME NEW a \in Int
  PROVE  /\ a \in 0 .. Size - 1 => a % Size = a
         /\ a - Size \in 0 .. Size - 1 => a % Size = a - Size
         /\ a + Size \in 0 .. Size - 1 => a % Size = a + Size
  OBVIOUS

(* there is always a free slot, and every byte has a place *)
LEMMA PendingBound ==
  ASSUME NEW r \in 0 .. Size, NEW w \in 0 .. Size
  PROVE  Pending(r, w) \in Nat /\ Pending(r, w) < Size
  BY DEF Pending, Wrapped

LEMMA PlaceBound ==
  ASSUME NEW r \in 0 .. Size, NEW w \in 0 .. Size, NEW i \in 1 .. Pending(r, w)
  PROVE  i \in 1 .. Size - 1 /\ Place(r, i) \in 0 .. Size - 1
  <1>1. i \in 1 .. Size - 1
    BY PendingBound
  <1> QED BY <1>1 DEF Place

(* Queue has the bytes that Contents has *)
LEMMA QueueIs ==
  ASSUME NEW R, NEW r \in 0 .. Size, NEW w \in 0 .. Size
  PROVE  [i \in 1 .. (w - r) % Size |-> R[(r + i - 1) % Size]] = Queue(R, r, w)
  <1>1. (w - r) % Size = Pending(r, w)
    <2> DEFINE a == w - r
    <2>1. a \in Int /\ a \in -Size .. Size
      OBVIOUS
    <2>2. Pending(r, w) = IF a \in 0 .. Size - 1 THEN a
                          ELSE IF a = Size THEN a - Size ELSE a + Size
      BY DEF Pending, Wrapped
    <2> HIDE DEF a
    <2>3. a % Size = Pending(r, w)
      <3>1. CASE a \in 0 .. Size - 1
        BY <2>2, <3>1, RemainderIs
      <3>2. CASE a = Size
        BY <2>2, <3>2, RemainderIs
      <3>3. CASE a \in -Size .. -1
        <4>1. a \in Int /\ a + Size \in 0 .. Size - 1 /\ Pending(r, w) = a + Size
          BY <2>1, <2>2, <3>3
        <4> QED BY <4>1, RemainderIs
      <3> QED BY <2>1, <3>1, <3>2, <3>3
    <2> QED BY <2>3 DEF a
  <1>2. ASSUME NEW i \in 1 .. Pending(r, w)
        PROVE  (r + i - 1) % Size = Place(r, i)
    <2> DEFINE a == r + i - 1
    <2>1. i \in 1 .. Size - 1
      BY PlaceBound
    <2>2. a \in Int /\ a \in 0 .. 2 * Size - 2
      BY <2>1
    <2>3. Place(r, i) = IF a < Size THEN a ELSE a - Size
      BY DEF Place
    <2> HIDE DEF a
    <2>4. a % Size = Place(r, i)
      BY <2>2, <2>3, RemainderIs
    <2> QED BY <2>4 DEF a
  <1> QED BY <1>1, <1>2 DEF Queue

(* a function on 1 .. n is a sequence of length n *)
LEMMA Tuple ==
  ASSUME NEW S, NEW n \in Nat, NEW s \in [1 .. n -> S]
  PROVE  s \in Seq(S) /\ Len(s) = n
  <1>1. s \in Seq(S)
    BY SeqDef
  <1>2. DOMAIN s = 1 .. n /\ DOMAIN s = 1 .. Len(s) /\ Len(s) \in Nat
    BY <1>1, LenProperties
  <1> QED BY <1>1, <1>2

LEMMA QueueSeq ==
  ASSUME NEW R \in Rings, NEW r \in 0 .. Size, NEW w \in 0 .. Size
  PROVE  /\ Queue(R, r, w) \in Seq(Values)
         /\ Len(Queue(R, r, w)) = Pending(r, w)
         /\ \A i \in 1 .. Pending(r, w) : Queue(R, r, w)[i] = R[Place(r, i)]
  <1>1. Queue(R, r, w) \in [1 .. Pending(r, w) -> Values]
    BY PlaceBound DEF Queue, Rings
  <1>2. Pending(r, w) \in Nat
    BY PendingBound
  <1> QED BY <1>1, <1>2, Tuple DEF Queue

(* empty is what the code calls empty *)
LEMMA QueueEmpty ==
  ASSUME NEW R \in Rings, NEW r \in 0 .. Size, NEW w \in 0 .. Size
  PROVE  Queue(R, r, w) = <<>> <=> Wrapped(r) = Wrapped(w)
  <1>1. Pending(r, w) = 0 <=> Wrapped(r) = Wrapped(w)
    BY DEF Pending, Wrapped
  <1>2. Len(Queue(R, r, w)) = 0 <=> Queue(R, r, w) = <<>>
    BY QueueSeq, EmptySeq
  <1> QED BY <1>1, <1>2, QueueSeq

(* wrapping a pointer changes no byte of the queue *)
LEMMA QueueWrapped ==
  ASSUME NEW R \in Rings, NEW r \in 0 .. Size, NEW w \in 0 .. Size
  PROVE  Queue(R, Wrapped(r), w) = Queue(R, r, w) /\ Queue(R, r, Wrapped(w)) = Queue(R, r, w)
  <1>1. Pending(Wrapped(r), w) = Pending(r, w) /\ Pending(r, Wrapped(w)) = Pending(r, w)
    BY DEF Pending, Wrapped
  <1>2. ASSUME NEW i \in 1 .. Pending(r, w) PROVE Place(Wrapped(r), i) = Place(r, i)
    <2>1. i \in 1 .. Size - 1
      BY PlaceBound
    <2> QED BY <2>1 DEF Place, Wrapped
  <1> QED BY <1>1, <1>2 DEF Queue

(***************************************************************************)
(* n bytes written at w, inside the buffer and short of r                  *)
(***************************************************************************)
LEMMA PlacesWritten ==
  ASSUME NEW r \in 0 .. Size - 1, NEW w \in 0 .. Size - 1, NEW n \in 0 .. Size - w,
         w < r => n < r - w, w >= r => n < Size - w + r
  PROVE  /\ Pending(r, w + n) = Pending(r, w) + n
         /\ \A i \in 1 .. Pending(r, w) : Place(r, i) \notin w .. w + n - 1
         /\ \A j \in 1 .. n : Place(r, Pending(r, w) + j) = w + j - 1
  BY DEF Pending, Place, Wrapped

(* concatenation, kept folded where the provers need not look into it *)
Joined(q, s) == q \o s

(* they become the end of the queue *)
LEMMA QueueGrows ==
  ASSUME NEW R \in Rings, NEW r \in 0 .. Size - 1, NEW w \in 0 .. Size - 1,
         NEW n \in 0 .. Size - w, NEW s \in [1 .. n -> Byte],
         w < r => n < r - w, w >= r => n < Size - w + r,
         NEW M \in Rings,
         \A i \in 0 .. Size - 1 :
            M[i] = IF i \in w .. w + n - 1 THEN s[i - w + 1] ELSE R[i]
  PROVE  /\ Queue(M, r, w + n) = Joined(Queue(R, r, w), s)
         /\ Queue(M, r, w) = Queue(R, r, w)
  <1> DEFINE k == Pending(r, w)
  <1>1. /\ Pending(r, w + n) = k + n /\ k \in Nat /\ n \in Nat
        /\ w + n \in 0 .. Size /\ r \in 0 .. Size /\ w \in 0 .. Size
    <2>1. w + n \in 0 .. Size /\ n \in Nat /\ r \in 0 .. Size /\ w \in 0 .. Size
      OBVIOUS
    <2>2. k \in Nat
      BY <2>1, PendingBound
    <2> QED BY <2>1, <2>2, PlacesWritten
  <1>2. s \in Seq(Values) /\ Len(s) = n
    <2>1. s \in [1 .. n -> Values]
      BY DEF Values
    <2> QED BY <1>1, <2>1, Tuple
  <1>3. ASSUME NEW i \in 1 .. k PROVE M[Place(r, i)] = R[Place(r, i)]
    <2>1. Place(r, i) \notin w .. w + n - 1
      BY PlacesWritten
    <2>2. Place(r, i) \in 0 .. Size - 1
      BY <1>1, PlaceBound
    <2> QED BY <2>1, <2>2
  <1>4. Queue(M, r, w) = Queue(R, r, w)
    BY <1>3 DEF Queue
  <1>5. ASSUME NEW j \in 1 .. n PROVE M[Place(r, k + j)] = s[j]
    <2>1. Place(r, k + j) = w + j - 1
      BY PlacesWritten
    <2> QED BY <1>1, <2>1
  <1>6. Queue(R, r, w) \in Seq(Values) /\ Len(Queue(R, r, w)) = k
        /\ \A i \in 1 .. k : Queue(R, r, w)[i] = R[Place(r, i)]
    BY <1>1, QueueSeq
  <1>7. Queue(M, r, w + n) \in Seq(Values) /\ Len(Queue(M, r, w + n)) = k + n
        /\ \A i \in 1 .. k + n : Queue(M, r, w + n)[i] = M[Place(r, i)]
    <2> DEFINE e == w + n
    <2>1. e \in 0 .. Size /\ Pending(r, e) = k + n
      BY <1>1
    <2> HIDE DEF e
    <2>2. /\ Queue(M, r, e) \in Seq(Values) /\ Len(Queue(M, r, e)) = k + n
          /\ \A i \in 1 .. k + n : Queue(M, r, e)[i] = M[Place(r, i)]
      BY <1>1, <2>1, QueueSeq
    <2> QED BY <2>2 DEF e
  <1> DEFINE t == Queue(R, r, w) \o s
  <1> HIDE DEF k
  <1>8. t \in Seq(Values) /\ Len(t) = k + n
        /\ \A i \in 1 .. k + n : t[i] = IF i <= k THEN R[Place(r, i)] ELSE s[i - k]
    <2> DEFINE q == Queue(R, r, w)
    <2>1. q \in Seq(Values) /\ Len(q) = k /\ Len(s) = n /\ s \in Seq(Values)
      BY <1>2, <1>6
    <2>2. \A i \in 1 .. k : q[i] = R[Place(r, i)]
      BY <1>6
    <2> HIDE DEF q
    <2>3. /\ q \o s \in Seq(Values) /\ Len(q \o s) = k + n
          /\ \A i \in 1 .. k + n : (q \o s)[i] = IF i <= k THEN q[i] ELSE s[i - k]
      <3>1. /\ q \o s \in Seq(Values) /\ Len(q \o s) = Len(q) + Len(s)
            /\ \A i \in 1 .. Len(q) + Len(s) : (q \o s)[i] =
                   IF i <= Len(q) THEN q[i] ELSE s[i - Len(q)]
        BY <2>1, ConcatProperties, ZenonT(40)
      <3> QED BY <2>1, <3>1
    <2>4. \A i \in 1 .. k + n : i <= k => i \in 1 .. k
      BY <1>1
    <2>5. t = q \o s
      BY DEF q
    <2> HIDE DEF t
    <2> QED BY <2>2, <2>3, <2>4, <2>5
  <1> HIDE DEF t
  <1>9. ASSUME NEW i \in 1 .. k + n PROVE Queue(M, r, w + n)[i] = t[i]
    <2>1. CASE i <= k
      BY <1>1, <1>3, <1>7, <1>8, <2>1
    <2>2. CASE i > k
      <3>1. i - k \in 1 .. n /\ k + (i - k) = i
        BY <1>1, <2>2
      <3>2. M[Place(r, i)] = s[i - k]
        BY <1>5, <3>1
      <3>3. t[i] = s[i - k]
        BY <1>1, <1>8, <2>2
      <3> QED BY <1>7, <3>2, <3>3
    <2> QED BY <1>1, <2>1, <2>2
  <1>10. Queue(M, r, w + n) = t
    BY <1>7, <1>8, <1>9, SeqEqual
  <1> QED BY <1>4, <1>10 DEF t, Joined

(***************************************************************************)
(* n bytes read at r, inside the buffer and not past w                     *)
(***************************************************************************)
LEMMA PlacesRead ==
  ASSUME NEW r \in 0 .. Size - 1, NEW w \in 0 .. Size - 1, r # w,
         NEW n \in 0 .. Size - r, r < w => n <= w - r
  PROVE  /\ Pending(r + n, w) = Pending(r, w) - n /\ n <= Pending(r, w)
         /\ \A i \in 1 .. n : Place(r, i) = r + i - 1
         /\ \A i \in 1 .. Pending(r, w) - n : Place(r + n, i) = Place(r, n + i)
  BY DEF Pending, Place, Wrapped

(* they were the head of the queue, and the others are left *)
LEMMA QueueShrinks ==
  ASSUME NEW R \in Rings, NEW r \in 0 .. Size - 1, NEW w \in 0 .. Size - 1, r # w,
         NEW n \in 0 .. Size - r, r < w => n <= w - r
  PROVE  /\ Queue(R, r + n, w) = SubSeq(Queue(R, r, w), n + 1, Len(Queue(R, r, w)))
         /\ [i \in 1 .. n |-> R[r + i - 1]] = SubSeq(Queue(R, r, w), 1, n)
  <1> DEFINE k == Pending(r, w)
             q == Queue(R, r, w)
             rest == SubSeq(q, n + 1, k)
             head == SubSeq(q, 1, n)
             got == [i \in 1 .. n |-> R[r + i - 1]]
  <1>1. /\ k \in Nat /\ n \in Nat /\ n <= k /\ r + n \in 0 .. Size
        /\ r \in 0 .. Size /\ w \in 0 .. Size /\ Pending(r + n, w) = k - n
    <2>1. r + n \in 0 .. Size /\ n \in Nat /\ r \in 0 .. Size /\ w \in 0 .. Size
      OBVIOUS
    <2>2. k \in Nat
      BY <2>1, PendingBound
    <2> QED BY <2>1, <2>2, PlacesRead
  <1>2. q \in Seq(Values) /\ Len(q) = k /\ \A i \in 1 .. k : q[i] = R[Place(r, i)] /\ q[i] \in Values
    <2>1. q \in Seq(Values) /\ Len(q) = k /\ \A i \in 1 .. k : q[i] = R[Place(r, i)]
      BY <1>1, QueueSeq
    <2>2. \A i \in 1 .. k : R[Place(r, i)] \in Values
      BY <1>1, PlaceBound DEF Rings
    <2> QED BY <2>1, <2>2
  <1>3. Queue(R, r + n, w) \in Seq(Values) /\ Len(Queue(R, r + n, w)) = k - n
        /\ \A i \in 1 .. k - n : Queue(R, r + n, w)[i] = R[Place(r + n, i)]
    <2> DEFINE e == r + n
    <2>1. e \in 0 .. Size /\ Pending(e, w) = k - n
      BY <1>1
    <2> HIDE DEF e
    <2>2. /\ Queue(R, e, w) \in Seq(Values) /\ Len(Queue(R, e, w)) = k - n
          /\ \A i \in 1 .. k - n : Queue(R, e, w)[i] = R[Place(e, i)]
      BY <1>1, <2>1, QueueSeq
    <2> QED BY <2>2 DEF e
  <1>4. \A i \in 1 .. k - n : Place(r + n, i) = Place(r, n + i)
    BY PlacesRead
  <1>5. got \in [1 .. n -> Values] /\ \A i \in 1 .. n : got[i] = R[Place(r, i)]
    <2>1. \A i \in 1 .. n : r + i - 1 \in 0 .. Size - 1
      OBVIOUS
    <2>2. \A i \in 1 .. n : Place(r, i) = r + i - 1
      BY PlacesRead
    <2> QED BY <2>1, <2>2 DEF Rings
  <1> HIDE DEF k, q, got
  <1>6. rest \in Seq(Values) /\ Len(rest) = k - n /\ \A i \in 1 .. k - n : rest[i] = q[n + i]
    <2>1. n + 1 \in Int /\ k \in Int /\ \A i \in n + 1 .. k : q[i] \in Values
      BY <1>1, <1>2
    <2>2. Len(rest) = k - n
      BY <1>1, <2>1, SubSeqProperties
    <2>3. rest \in Seq(Values) /\ \A i \in 1 .. k - (n + 1) + 1 : rest[i] = q[(n + 1) + i - 1]
      BY <2>1, SubSeqProperties
    <2> HIDE DEF rest
    <2> QED BY <1>1, <2>2, <2>3
  <1>7. head \in Seq(Values) /\ Len(head) = n /\ \A i \in 1 .. n : head[i] = q[i]
    <2>1. 1 \in Int /\ n \in Int /\ \A i \in 1 .. n : q[i] \in Values
      BY <1>1, <1>2
    <2>2. Len(head) = n
      BY <1>1, <2>1, SubSeqProperties
    <2>3. head \in Seq(Values) /\ \A i \in 1 .. n - 1 + 1 : head[i] = q[1 + i - 1]
      BY <2>1, SubSeqProperties
    <2> HIDE DEF head
    <2> QED BY <1>1, <2>2, <2>3
  <1>8. got \in Seq(Values) /\ Len(got) = n
    BY <1>1, <1>5, Tuple
  <1> HIDE DEF rest, head
  <1>9. Queue(R, r + n, w) = rest
    <2>1. ASSUME NEW i \in 1 .. k - n PROVE Queue(R, r + n, w)[i] = rest[i]
      <3>1. n + i \in 1 .. k
        BY <1>1
      <3>2. Queue(R, r + n, w)[i] = R[Place(r, n + i)]
        BY <1>3, <1>4
      <3>3. q[n + i] = R[Place(r, n + i)]
        BY <1>2, <3>1
      <3>4. rest[i] = q[n + i]
        BY <1>6
      <3> QED BY <3>2, <3>3, <3>4
    <2> QED BY <1>3, <1>6, <2>1, SeqEqual
  <1>10. got = head
    <2>1. ASSUME NEW i \in 1 .. n PROVE got[i] = head[i]
      <3>1. i \in 1 .. k
        BY <1>1
      <3> QED BY <1>2, <1>5, <1>7, <3>1
    <2> QED BY <1>7, <1>8, <2>1, SeqEqual
  <1> QED BY <1>2, <1>9, <1>10 DEF k, q, rest, head, got

(***************************************************************************)
(* The refinement, step by step                                            *)
(***************************************************************************)
FifoStep == [Fifo!Next]_<<Contents, xfer>>

(* a transfer is under way only while its caller holds the semaphore *)
NothingUnderWay ==
  xfer # NoXfer => \E p \in Procs : pc[p] \in {"r_wrap", "w_wrap"}

LEMMA ContentsIs ==
  /\ TypeInvariant => Contents = IF buffer THEN Queue(ring, rp, wp) ELSE <<>>
  /\ TypeInvariant' => Contents' = IF buffer' THEN Queue(ring', rp', wp') ELSE <<>>
  BY QueueIs DEF TypeInvariant, Contents

(* whoever else holds the semaphore finds no transfer under way *)
LEMMA NoneUnderWay ==
  ASSUME Core, NothingUnderWay, NEW p \in Procs, pc[p] \in Holding,
         pc[p] \notin {"r_wrap", "w_wrap"}
  PROVE  xfer = NoXfer
  BY DEF Core, SemaphoreExact, NothingUnderWay, Holding

(* the steps that touch neither the buffer nor user space *)
Apart(p) ==
  \/ User(p) \/ Down(p) \/ DownInterrupted(p)
  \/ OpenNoMemory(p) \/ ReadEmpty(p) \/ ReadFault(p) \/ ReadWake(p)
  \/ ReadPrepare(p) \/ Sample(p) \/ ReadCheck(p) \/ ReadAwake(p)
  \/ WriteFull(p) \/ WriteWake(p) \/ WriteSigio(p)
  \/ WritePrepare(p) \/ WriteCheck(p) \/ WriteAwake(p)
  \/ PollCheck(p) \/ PollAwake(p) \/ ProcPrint(p)

LEMMA ApartEffect ==
  ASSUME Core, NEW p \in Procs, Apart(p)
  PROVE  /\ UNCHANGED <<buffer, ring, rp, wp, xfer>>
         /\ \/ UNCHANGED pc
            \/ /\ pc[p] \notin {"r_wrap", "w_wrap"}
               /\ \A q \in Procs \ {p} : pc'[q] = pc[q]
  <1> USE DEF ringVars, Outside, Downs, Interruptible
  <1>0. pc \in [Procs -> Locations]
    BY DEF Core, TypeInvariant
  <1>1. CASE User(p)
    BY <1>0, <1>1 DEF User, Open, Release, Read, Write, Poll, ProcRead, Call, Goto, Fasync,
                Signal, procVars
  <1>2. CASE Down(p) \/ DownInterrupted(p)
    BY <1>0, <1>2 DEF Down, DownInterrupted, Goto, Return
  <1>3. CASE OpenNoMemory(p) \/ ReadFault(p) \/ ReadWake(p) \/ ProcPrint(p) \/ WriteSigio(p)
    BY <1>0, <1>3 DEF OpenNoMemory, ReadFault, ReadWake, ProcPrint, WriteSigio, Return
  <1>4. CASE ReadEmpty(p) \/ WriteFull(p) \/ ReadCheck(p) \/ PollCheck(p)
    BY <1>0, <1>4 DEF ReadEmpty, WriteFull, ReadCheck, PollCheck, Return, Goto
  <1>5. CASE WriteCheck(p) \/ WriteAwake(p)
    BY <1>0, <1>5 DEF WriteCheck, WriteAwake, FinishWait, Return, Goto
  <1>6. CASE \/ ReadPrepare(p) \/ Sample(p) \/ ReadAwake(p) \/ WriteWake(p)
             \/ WritePrepare(p) \/ PollAwake(p)
    BY <1>0, <1>6 DEF ReadPrepare, Sample, ReadAwake, WriteWake, WritePrepare, PollAwake, Goto
  <1> QED BY <1>1, <1>2, <1>3, <1>4, <1>5, <1>6 DEF Apart

LEMMA ApartRefines ==
  ASSUME Core, NothingUnderWay, NEW p \in Procs, Apart(p)
  PROVE  NothingUnderWay' /\ UNCHANGED <<Contents, xfer>>
  <1>1. NothingUnderWay'
    BY ApartEffect DEF NothingUnderWay
  <1>2. UNCHANGED <<buffer, ring, rp, wp, xfer>>
    BY ApartEffect
  <1>3. UNCHANGED <<Contents, xfer>>
    BY <1>2 DEF Contents
  <1> QED BY <1>1, <1>3

(* the buffer as whoever copies to or from it finds it *)
LEMMA BufferHeld ==
  ASSUME Core, NothingUnderWay, NEW p \in Procs, pc[p] \in {"r_cs", "w_cs"}
  PROVE  /\ buffer /\ xfer = NoXfer /\ ring \in Rings
         /\ \E r \in 0 .. Size - 1, w \in 0 .. Size - 1 : r = rp /\ w = wp
         /\ Contents = Queue(ring, rp, wp)
  <1>1. buffer /\ xfer = NoXfer /\ rp \in 0 .. Size - 1 /\ wp \in 0 .. Size - 1
    BY OpenHasBuffer, NoneUnderWay, HolderSeesWrapped DEF NoFile, Holding
  <1>2. ring \in Rings /\ TypeInvariant
    BY DEF Core, TypeInvariant, Rings, Values
  <1> QED BY <1>1, <1>2, ContentsIs

(* what a write may put is what PipeFifo lets it put *)
LEMMA WritableAmount ==
  ASSUME NEW r \in 0 .. Size - 1, NEW w \in 0 .. Size - 1, r = rp, w = wp,
         spacefree(rp, wp) # 0, NEW c \in Nat
  PROVE  /\ Writable(c) \in 0 .. Size - w
         /\ w < r => Writable(c) < r - w
         /\ w >= r => Writable(c) < Size - w + r
         /\ Pending(r, w) < Size - 1
         /\ Writable(c) \in Fifo!Amounts(c, Size - 1 - Pending(r, w))
  <1>1. /\ Writable(c) \in 0 .. Size - w /\ (c > 0 => Writable(c) > 0)
        /\ w < r => Writable(c) < r - w
        /\ w >= r => Writable(c) < Size - w + r
    BY WritableBound
  <1>2. spacefree(r, w) = Size - 1 - Pending(r, w)
    <2>1. CASE r = w
      BY <2>1, SpaceFree DEF Pending, Wrapped
    <2>2. CASE r > w
      BY <2>2, SpaceFree DEF Pending, Wrapped
    <2>3. CASE r < w
      BY <2>3, SpaceFree DEF Pending, Wrapped
    <2> QED BY <2>1, <2>2, <2>3
  <1>3. Pending(r, w) \in Nat /\ Pending(r, w) < Size
    BY DEF Pending, Wrapped
  <1> DEFINE f == spacefree(r, w)
             n == Writable(c)
  <1>4. Writable(c) <= f /\ Writable(c) <= c /\ f \in Nat /\ f # 0
    <2>1. f \in Nat /\ f # 0
      BY <1>2, <1>3
    <2>2. Writable(c) = Least(Least(c, f), IF w >= r THEN Size - w ELSE r - w - 1)
      BY DEF Writable
    <2> HIDE DEF f
    <2> QED BY <2>1, <2>2 DEF Least
  <1>5. n \in Nat /\ n <= Size - 1 - Pending(r, w) /\ Pending(r, w) < Size - 1
    BY <1>1, <1>2, <1>3, <1>4
  <1>6. n \in Fifo!Amounts(c, Size - 1 - Pending(r, w))
    BY <1>1, <1>3, <1>4, <1>5 DEF Fifo!Amounts
  <1> QED BY <1>1, <1>5, <1>6

(* a write appends the bytes it copies *)
LEMMA WriteCopyRefines ==
  ASSUME Core, NothingUnderWay, NEW p \in Procs, WriteCopy(p)
  PROVE  /\ NothingUnderWay'
         /\ \E c \in Counts : Fifo!Put(c)
         /\ Contents' = <<>> => Contents = <<>>
  <1>1. /\ pc[p] = "w_cs" /\ pc' = [pc EXCEPT ![p] = "w_wrap"]
        /\ UNCHANGED <<buffer, rp>> /\ spacefree(rp, wp) # 0
    BY DEF WriteCopy, Goto
  <1>2. buffer /\ xfer = NoXfer /\ ring \in Rings /\ Contents = Queue(ring, rp, wp)
    BY <1>1, BufferHeld
  <1>3. PICK r \in 0 .. Size - 1, w \in 0 .. Size - 1 : r = rp /\ w = wp
    BY <1>1, BufferHeld
  <1>4. PICK c \in Counts : \E s \in [1 .. Writable(c) -> Byte] :
           /\ ring' = Stored(s)
           /\ wp' = wp + Writable(c)
           /\ xfer' = [op |-> "write", count |-> c, bytes |-> s]
    BY DEF WriteCopy
  <1>5. PICK n \in 0 .. Size - w : n = Writable(c)
    BY <1>1, <1>3, WritableAmount, CountsAssumption
  <1>6. PICK s \in [1 .. n -> Byte] :
           /\ ring' = Stored(s)
           /\ wp' = w + n
           /\ xfer' = [op |-> "write", count |-> c, bytes |-> s]
    BY <1>3, <1>4, <1>5
  <1>7. /\ (w < r => n < r - w) /\ (w >= r => n < Size - w + r)
        /\ Pending(r, w) < Size - 1
        /\ n \in Fifo!Amounts(c, Size - 1 - Pending(r, w))
    BY <1>1, <1>3, <1>5, WritableAmount, CountsAssumption
  <1>8. ring' \in Rings /\ TypeInvariant'
    BY WriteCopyCore DEF Core, TypeInvariant, Rings, Values
  <1>9. s \in Seq(Values) /\ Len(s) = n
    <2>1. s \in [1 .. n -> Values] /\ n \in Nat
      BY DEF Values
    <2> QED BY <2>1, Tuple
  <1>10. \A i \in 0 .. Size - 1 :
           ring'[i] = IF i \in w .. w + n - 1 THEN s[i - w + 1] ELSE ring[i]
    BY <1>3, <1>6, <1>9 DEF Stored
  <1>11. Queue(ring', r, w + n) = Queue(ring, r, w) \o s
    <2>1. ring \in Rings /\ ring' \in Rings
      BY <1>2, <1>8
    <2>2. (w < r => n < r - w) /\ (w >= r => n < Size - w + r)
      BY <1>7
    <2>3. Queue(ring', r, w + n) = Joined(Queue(ring, r, w), s)
      BY <1>10, <2>1, <2>2, QueueGrows
    <2> QED BY <2>3 DEF Joined
  <1>12. Contents' = Contents \o s
    BY <1>1, <1>2, <1>3, <1>6, <1>8, <1>11, ContentsIs
  <1>13. Contents \in Seq(Values) /\ Len(Contents) = Pending(r, w)
    <2>1. r \in 0 .. Size /\ w \in 0 .. Size
      OBVIOUS
    <2>2. Queue(ring, r, w) \in Seq(Values) /\ Len(Queue(ring, r, w)) = Pending(r, w)
      BY <1>2, <2>1, QueueSeq
    <2> QED BY <1>2, <1>3, <2>2
  <1>14. Fifo!Put(c)
    BY <1>2, <1>6, <1>7, <1>12, <1>13 DEF Fifo!Put, Fifo!NoXfer, NoXfer
  <1>15. Contents' = <<>> => Contents = <<>>
    <2>1. s \in Seq(Values) /\ Contents \in Seq(Values)
      BY <1>9, <1>13
    <2>2. Contents \o s = <<>> => Contents = <<>>
      BY <2>1, ConcatEqualIffEmpty
    <2> QED BY <1>12, <2>2
  <1>16. NothingUnderWay'
    BY <1>1 DEF NothingUnderWay, Core, TypeInvariant
  <1> QED BY <1>14, <1>15, <1>16

(* a read takes the bytes it copies off the head *)
LEMMA ReadCopyRefines ==
  ASSUME Core, NothingUnderWay, NEW p \in Procs, ReadCopy(p)
  PROVE  NothingUnderWay' /\ \E c \in Counts : Fifo!Get(c)
  <1>1. /\ pc[p] = "r_cs" /\ pc' = [pc EXCEPT ![p] = "r_wrap"]
        /\ UNCHANGED <<buffer, ring, wp>> /\ rp # wp
    BY DEF ReadCopy, Goto
  <1>2. buffer /\ xfer = NoXfer /\ ring \in Rings /\ Contents = Queue(ring, rp, wp)
    BY <1>1, BufferHeld
  <1>3. PICK r \in 0 .. Size - 1, w \in 0 .. Size - 1 : r = rp /\ w = wp
    BY <1>1, BufferHeld
  <1>4. PICK c \in Counts :
           /\ rp' = rp + Readable(c)
           /\ xfer' = [op |-> "read", count |-> c,
                       bytes |-> [i \in 1 .. Readable(c) |-> ring[rp + i - 1]]]
    BY DEF ReadCopy
  <1>5. /\ Readable(c) \in 0 .. Size - r /\ (c > 0 => Readable(c) > 0)
        /\ (r < w => Readable(c) <= w - r) /\ Readable(c) <= c
    <2>1. c \in Nat /\ rp \in 0 .. Size - 1 /\ wp \in 0 .. Size - 1
      BY <1>3, CountsAssumption
    <2>2. /\ Readable(c) \in 0 .. Size - rp /\ (c > 0 => Readable(c) > 0)
          /\ rp < wp => Readable(c) <= wp - rp
      BY <1>1, <2>1, ReadableBound
    <2>3. Readable(c) <= c
      BY <1>3, <2>1 DEF Readable, Least
    <2> QED BY <1>3, <2>2, <2>3
  <1>6. PICK n \in 0 .. Size - r : n = Readable(c)
    <2>1. Readable(c) \in 0 .. Size - r
      BY <1>5
    <2> QED BY <2>1
  <1>7. /\ rp' = r + n
        /\ xfer' = [op |-> "read", count |-> c, bytes |-> [i \in 1 .. n |-> ring[r + i - 1]]]
    BY <1>3, <1>4, <1>6
  <1>8. r # w /\ (r < w => n <= w - r)
    BY <1>1, <1>3, <1>5, <1>6
  <1>9. /\ Queue(ring, r + n, w)
             = SubSeq(Queue(ring, r, w), n + 1, Len(Queue(ring, r, w)))
        /\ [i \in 1 .. n |-> ring[r + i - 1]] = SubSeq(Queue(ring, r, w), 1, n)
    BY <1>2, <1>8, QueueShrinks, ZenonT(40)
  <1>10. TypeInvariant'
    BY ReadCopyCore DEF Core
  <1>11. /\ Contents' = SubSeq(Contents, n + 1, Len(Contents))
         /\ xfer' = [op |-> "read", count |-> c, bytes |-> SubSeq(Contents, 1, n)]
    BY <1>1, <1>2, <1>3, <1>7, <1>9, <1>10, ContentsIs
  <1>12. Len(Contents) = Pending(r, w) /\ n <= Pending(r, w) /\ Contents # <<>>
    <2>1. Len(Contents) = Pending(r, w)
      BY <1>2, <1>3, QueueSeq
    <2>2. n <= Pending(r, w)
      BY <1>8, PlacesRead
    <2>3. Contents # <<>>
      BY <1>2, <1>3, <1>8, QueueEmpty DEF Wrapped
    <2> QED BY <2>1, <2>2, <2>3
  <1>13. n \in Fifo!Amounts(c, Len(Contents))
    <2>1. Pending(r, w) \in Nat /\ c \in Nat
      BY CountsAssumption DEF Pending, Wrapped
    <2>2. n \in 0 .. Pending(r, w) /\ n <= c /\ (c > 0 => n > 0)
      BY <1>5, <1>6, <1>12, <2>1
    <2> QED BY <1>12, <2>1, <2>2 DEF Fifo!Amounts
  <1>14. Fifo!Get(c)
    BY <1>2, <1>11, <1>12, <1>13 DEF Fifo!Get, Fifo!NoXfer, NoXfer
  <1>15. NothingUnderWay'
    BY <1>1 DEF NothingUnderWay, Core, TypeInvariant
  <1> QED BY <1>14, <1>15

(* a write that faults leaves bytes beyond wp that nobody reads *)
LEMMA WriteFaultRefines ==
  ASSUME Core, NothingUnderWay, NEW p \in Procs, WriteFault(p)
  PROVE  NothingUnderWay' /\ UNCHANGED <<Contents, xfer>>
  <1>1. /\ pc[p] = "w_cs" /\ UNCHANGED <<buffer, rp, wp, xfer>> /\ spacefree(rp, wp) # 0
    BY DEF WriteFault
  <1>2. buffer /\ xfer = NoXfer /\ ring \in Rings /\ Contents = Queue(ring, rp, wp)
    BY <1>1, BufferHeld
  <1>3. PICK r \in 0 .. Size - 1, w \in 0 .. Size - 1 : r = rp /\ w = wp
    BY <1>1, BufferHeld
  <1>4. PICK c \in Counts : \E n \in 0 .. Writable(c) - 1 : \E s \in [1 .. n -> Byte] :
           ring' = Stored(s)
    BY DEF WriteFault
  <1>5. PICK n \in 0 .. Writable(c) - 1 : \E s \in [1 .. n -> Byte] : ring' = Stored(s)
    BY <1>4
  <1>6. PICK m \in 0 .. Size - w : m = Writable(c)
    BY <1>1, <1>3, WritableAmount, CountsAssumption
  <1>7. n \in 0 .. Size - w /\ (w < r => n < r - w) /\ (w >= r => n < Size - w + r)
    <2>1. (w < r => m < r - w) /\ (w >= r => m < Size - w + r)
      BY <1>1, <1>3, <1>6, WritableAmount, CountsAssumption
    <2> QED BY <1>6, <2>1
  <1>8. PICK s \in [1 .. n -> Byte] : ring' = Stored(s)
    BY <1>5
  <1>9. ring' \in Rings /\ TypeInvariant'
    BY QuietCore DEF QuietAction, Core, TypeInvariant, Rings, Values
  <1>10. Len(s) = n
    BY <1>7, Tuple
  <1>11. \A i \in 0 .. Size - 1 :
           ring'[i] = IF i \in w .. w + n - 1 THEN s[i - w + 1] ELSE ring[i]
    BY <1>3, <1>8, <1>10 DEF Stored
  <1>12. Queue(ring', r, w) = Queue(ring, r, w)
    BY <1>2, <1>7, <1>9, <1>11, QueueGrows
  <1>13. UNCHANGED Contents
    BY <1>1, <1>2, <1>3, <1>9, <1>12, ContentsIs
  <1> QED BY <1>1, <1>2, <1>13 DEF NothingUnderWay

(* wrapping the pointer ends the transfer *)
LEMMA WrapRefines ==
  ASSUME Core, NEW p \in Procs, ReadWrap(p) \/ WriteWrap(p)
  PROVE  NothingUnderWay' /\ UNCHANGED Contents /\ FifoStep
  <1>1. /\ xfer' = NoXfer /\ UNCHANGED <<buffer, ring>>
        /\ \/ rp' = Wrapped(rp) /\ wp' = wp
           \/ rp' = rp /\ wp' = Wrapped(wp)
    BY DEF ReadWrap, WriteWrap, Wrapped
  <1>2. ring \in Rings /\ TypeInvariant /\ TypeInvariant' /\ rp \in 0 .. Size /\ wp \in 0 .. Size
    BY ReadCopyCore, WriteCopyCore DEF Core, TypeInvariant, Rings, Values
  <1>3. UNCHANGED Contents
    BY <1>1, <1>2, ContentsIs, QueueWrapped
  <1>4. xfer # NoXfer => Fifo!Finish
    BY <1>1, <1>3 DEF Fifo!Finish, Fifo!NoXfer, NoXfer
  <1> QED BY <1>1, <1>3, <1>4 DEF NothingUnderWay, FifoStep, Fifo!Next

(* an open drops the queue, and a release drops it or leaves it alone *)
LEMMA ResetRefines ==
  ASSUME Core, NothingUnderWay, NEW p \in Procs, OpenReset(p) \/ ReleaseFile(p)
  PROVE  /\ NothingUnderWay'
         /\ Fifo!Reset \/ UNCHANGED <<Contents, xfer>>
         /\ \/ UNCHANGED Contents
            \/ pc[p] = "open_cs"
            \/ pc[p] = "release_cs" /\ nreaders' + nwriters' = 0
  <1>1. xfer = NoXfer /\ xfer' = NoXfer
    BY NoneUnderWay DEF OpenReset, ReleaseFile, Holding
  <1>2. CASE OpenReset(p)
    <2>1. TypeInvariant' /\ rp' = 0 /\ wp' = 0 /\ ring' \in Rings /\ pc[p] = "open_cs"
      BY <1>2, OpenResetCore DEF Core, TypeInvariant, OpenReset, Rings, Values
    <2>2. Queue(ring', 0, 0) = <<>>
      BY <2>1, QueueEmpty
    <2>3. Contents' = <<>>
      BY <2>1, <2>2, ContentsIs
    <2> QED BY <1>1, <2>1, <2>3 DEF NothingUnderWay, Fifo!Reset, Fifo!NoXfer, NoXfer
  <1>3. CASE ReleaseFile(p) /\ nreaders' + nwriters' = 0
    <2>1. Contents' = <<>> /\ pc[p] = "release_cs"
      BY <1>3 DEF ReleaseFile, Contents
    <2> QED BY <1>1, <1>3, <2>1 DEF NothingUnderWay, Fifo!Reset, Fifo!NoXfer, NoXfer
  <1>4. CASE ReleaseFile(p) /\ nreaders' + nwriters' # 0
    <2>1. UNCHANGED <<buffer, ring, rp, wp>>
      BY <1>4 DEF ReleaseFile
    <2> QED BY <1>1, <2>1 DEF NothingUnderWay, Contents
  <1> QED BY <1>2, <1>3, <1>4

(* every step is one of the queue's, or a stutter *)
LEMMA NextRefines ==
  ASSUME Core, NothingUnderWay, [Next]_vars
  PROVE  NothingUnderWay' /\ FifoStep
  <1>1. CASE UNCHANGED vars
    BY <1>1 DEF vars, procVars, ringVars, NothingUnderWay, FifoStep, Contents
  <1>2. ASSUME NEW p \in Procs, Apart(p) \/ WriteFault(p)
        PROVE  NothingUnderWay' /\ FifoStep
    BY <1>2, ApartRefines, WriteFaultRefines DEF FifoStep
  <1>3. ASSUME NEW p \in Procs, ReadWrap(p) \/ WriteWrap(p)
        PROVE  NothingUnderWay' /\ FifoStep
    BY <1>3, WrapRefines
  <1>4. ASSUME NEW p \in Procs, ReadCopy(p) \/ WriteCopy(p)
        PROVE  NothingUnderWay' /\ FifoStep
    BY <1>4, ReadCopyRefines, WriteCopyRefines DEF FifoStep, Fifo!Next
  <1>5. ASSUME NEW p \in Procs, OpenReset(p) \/ ReleaseFile(p)
        PROVE  NothingUnderWay' /\ FifoStep
    BY <1>5, ResetRefines DEF FifoStep, Fifo!Next
  <1> QED BY <1>1, <1>2, <1>3, <1>4, <1>5 DEF Next, Step, Apart

(* the device starts as the empty queue with nothing under way *)
LEMMA InitRefines == Init => Fifo!Init /\ NothingUnderWay
  BY DEF Init, Fifo!Init, Fifo!NoXfer, NoXfer, Contents, NothingUnderWay

(* pipe.c: the device implements the queue of PipeFifo, for every number   *)
(* of processes, every size of the buffer and all users: what reads        *)
(* deliver is what writes took, each byte once and in order, and a call    *)
(* that has something to move moves at least one byte.                     *)
THEOREM FifoRefined == Spec => ImplementsFifo
  <1>1. Core /\ NothingUnderWay /\ [Next]_vars
          => NothingUnderWay' /\ [Fifo!Next]_<<Contents, xfer>>
    BY NextRefines DEF FifoStep
  <1> QED BY CoreInit, CoreStep, InitRefines, <1>1, PTL DEF Spec, ImplementsFifo, Fifo!Spec

(* pipe.c, lines 69 and 95: nothing but a read, an open or the release of  *)
(* the last file makes bytes disappear.                                    *)
THEOREM DropsCorrect == Spec => DroppedOnlyByOpenOrLastRelease
  <1> DEFINE Dropped == \E p \in Procs :
        \/ pc[p] \in {"r_cs", "open_cs"}
        \/ pc[p] = "release_cs" /\ nreaders' + nwriters' = 0
  <1>1. ASSUME Core, NothingUnderWay, [Next]_vars, Contents # <<>>, Contents' = <<>>
        PROVE  Dropped
    <2>1. CASE UNCHANGED vars
      BY <1>1, <2>1 DEF vars, ringVars, Contents
    <2>2. ASSUME NEW p \in Procs, Apart(p) \/ WriteFault(p) \/ ReadWrap(p) \/ WriteWrap(p)
          PROVE  FALSE
      BY <1>1, <2>2, ApartRefines, WriteFaultRefines, WrapRefines
    <2>3. ASSUME NEW p \in Procs, WriteCopy(p)
          PROVE  FALSE
      BY <1>1, <2>3, WriteCopyRefines
    <2>4. ASSUME NEW p \in Procs, ReadCopy(p)
          PROVE  Dropped
      BY <2>4 DEF ReadCopy
    <2>5. ASSUME NEW p \in Procs, OpenReset(p) \/ ReleaseFile(p)
          PROVE  Dropped
      BY <1>1, <2>5, ResetRefines
    <2> QED BY <1>1, <2>1, <2>2, <2>3, <2>4, <2>5 DEF Next, Step, Apart
  <1>2. Core /\ NothingUnderWay /\ [Next]_vars
          => NothingUnderWay' /\ [Contents # <<>> /\ Contents' = <<>> => Dropped]_vars
    BY <1>1, NextRefines
  <1> QED BY CoreInit, CoreStep, InitRefines, <1>2, PTL
          DEF Spec, DroppedOnlyByOpenOrLastRelease
=============================================================================
