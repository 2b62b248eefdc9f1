----------------------------- MODULE ShortProofs -----------------------------
(***************************************************************************)
(* Theorems about the parallel-port driver, for any sizes of the page and  *)
(* of the array of time values: reads return the records in order while    *)
(* nothing was overrun, a reader loses no wake-up, and nothing runs after  *)
(* short_cleanup has waited.  The invariant is split by the state it is    *)
(* about: the two halves of a handler, the stages of the unloading, the    *)
(* port, the page with its reader, and the wait queue.                     *)
(***************************************************************************)
EXTENDS Short, SequenceTheorems, TLAPS

USE SizesAssumption

Stamps == 0 .. MaxIrq[handler]

TopPlaces == {"idle", "clear", "wake", "publish", "schedule", "load", "store"}

(* an interrupt that was accepted has its stamp, and is not counted twice  *)
Halves ==
  /\ handler \in Handlers /\ MaxIrq[handler] \in Nat
  /\ tv_data \in [0 .. NR_TIMEVAL - 1 -> Stamps]
  /\ tv_head \in 0 .. NR_TIMEVAL - 1 /\ tv_tail \in 0 .. NR_TIMEVAL - 1
  /\ clock \in Stamps /\ last \in Stamps
  /\ short_wq_count \in 0 .. clock /\ savecount \in 0 .. clock
  /\ top \in [pc : TopPlaces, loaded : 0 .. clock]
  /\ top.pc = "clear" => clock < MaxIrq[handler]
  /\ top.pc \in {"publish", "schedule", "load", "store"} => short_wq_count < clock
  /\ top.pc = "store" => top.loaded < clock

(* where the cleanup is, and what it has waited for *)
Stages ==
  /\ stage \in {"loaded", "irqfree", "disabled", "flushed", "unloaded"}
  /\ bh \in {"idle", "header", "stamp", "test", "wake"} /\ scheduled \in BOOLEAN
  /\ stage # "loaded" => top.pc = "idle"
  /\ stage \in {"disabled", "flushed", "unloaded"} => bh = "idle"
  /\ stage = "flushed" => ~scheduled

Port == latch \in BOOLEAN /\ raised \in BOOLEAN /\ left \in 0..MaxCount /\ odd \in {0, 1}

(* the records between the indices, and the place of the k-th of them *)
Pending(head, tail) == IF head >= tail THEN head - tail ELSE head - tail + Size
Place(tail, k) == IF tail + k - 1 >= Size THEN tail + k - 1 - Size ELSE tail + k - 1

(* what a reader has copied lies within the page, before its wrap *)
PageTypes ==
  /\ buffer \in [Slots -> Int] /\ short_head \in Slots /\ short_tail \in Slots
  /\ unread \in Seq(Int) /\ overrun \in BOOLEAN
  /\ reader \in [pc : {"idle", "loop", "prepare", "recheck", "sleep", "finish", "copy",
                       "advance"}, want : 0..Size, got : Seq(Int)]
  /\ reader.pc # "advance" => reader.got = <<>>
  /\ short_tail + Len(reader.got) <= Size

(* the records between the indices are the ones not read, in their order,  *)
(* and a reader has copied the first of them                               *)
Ordered ==
  ~overrun =>
    /\ Len(unread) = Pending(short_head, short_tail)
    /\ \A k \in 1 .. Len(unread) : unread[k] = buffer[Place(short_tail, k)]
    /\ Len(reader.got) <= Len(unread)
    /\ \A k \in 1 .. Len(reader.got) : reader.got[k] = unread[k]

Page == PageTypes /\ Ordered

Woken == queued \in BOOLEAN /\ signal \in BOOLEAN /\ ReaderWoken

Inv == Halves /\ Stages /\ Port /\ Page /\ Woken

-----------------------------------------------------------------------------
LEMMA InitInv == Init => Inv
  <1> SUFFICES ASSUME Init PROVE Inv
    OBVIOUS
  <1>1. Halves
    BY DEF Init, Halves, Stamps, TopPlaces
  <1>2. Stages /\ Woken
    BY DEF Init, Stages, Woken, ReaderWoken
  <1>3. Port
    <2>1. left \in 0..MaxCount /\ odd \in {0, 1}
      BY DEF Init
    <2>2. latch \in BOOLEAN /\ raised \in BOOLEAN
      BY DEF Init
    <2> QED BY <2>1, <2>2 DEF Port
  <1>4. <<>> \in Seq(Int) /\ Len(<<>>) = 0
    OBVIOUS
  <1>5. /\ buffer \in [Slots -> Int] /\ short_head \in Slots /\ short_tail \in Slots
        /\ reader \in [pc : {"idle"}, want : 0..Size, got : Seq(Int)]
        /\ reader.got = <<>> /\ Pending(short_head, short_tail) = 0
    BY <1>4 DEF Init, Slots, Pending
  <1>6. /\ unread = <<>> /\ unread \in Seq(Int)
        /\ short_tail + Len(reader.got) <= Size /\ Len(unread) = 0 /\ Len(reader.got) = 0
    BY <1>4, <1>5 DEF Init, Slots
  <1>7. overrun \in BOOLEAN
    BY DEF Init
  <1>8. Page
    BY <1>5, <1>6, <1>7 DEF Page, PageTypes, Ordered
  <1> QED BY <1>1, <1>2, <1>3, <1>8 DEF Inv

(* what the calls of users, the reader and the cleanup leave to the others *)
Calls == \/ (\E n \in 1..MaxCount : WriteInterruptNode(n)) \/ WriteNextByte
         \/ (\E minor \in Minors : do_short_write(minor))

Reads == (\E n \in ReadCounts : ReadCall(n)) \/ ReadOn \/ Signal

Cleanup == FreeIrq \/ WaitForBottomHalf \/ FreePage

Interrupts == short_interrupt \/ short_sh_interrupt \/ StampTime \/ TopHalf

LEMMA NextIs == Next <=> Calls \/ Interrupts \/ BottomHalf \/ Reads \/ Cleanup
  BY DEF Next, Calls, Interrupts, Reads, Cleanup

LEMMA CallsKeep ==
  Calls => UNCHANGED <<handler, stage, page, stamps, counts, top, bh, scheduled,
                       reading, last>>
  BY DEF Calls, WriteInterruptNode, WriteNextByte, do_short_write

LEMMA ReadsKeep ==
  Reads => UNCHANGED <<handler, stage, stamps, counts, port, top, bh, scheduled,
                       last>>
  BY DEF Reads, ReadOn, ReadCall, Signal, ReadUnchanged, TestEmpty, PrepareToWait,
         Recheck, Awaken, FinishWait, CopyOut, CopyFault, AdvanceTail

LEMMA CleanupKeeps ==
  Cleanup => UNCHANGED <<handler, page, stamps, counts, port, top, bh, scheduled,
                         reading, last>>
  BY DEF Cleanup, FreeIrq, WaitForBottomHalf, FreePage, CleanupUnchanged

LEMMA InterruptsKeep == Interrupts => UNCHANGED <<handler, stage, left, odd, bh, last>>
  BY DEF Interrupts, short_interrupt, short_sh_interrupt, StampTime, TopHalf,
         ClearBitAndRecord, WakeReader, PublishStamp, ScheduleBottomHalf, LoadCount,
         StoreCount, TopUnchanged, port

LEMMA BottomHalfKeeps ==
  BottomHalf => UNCHANGED <<handler, stage, tv_data, tv_head, clock, port, top>>
  BY DEF BottomHalf, SaveCount, PutHeader, PutStamp, TestStamps, BhWakesReader,
         BhUnchanged

(* a step of the handler that keeps the count and takes a stamp at most *)
LEMMA TopMoved ==
  ASSUME Halves, UNCHANGED <<handler, tv_tail, counts, last>>,
         tv_data' \in [0 .. NR_TIMEVAL - 1 -> Stamps], tv_head' \in 0 .. NR_TIMEVAL - 1,
         clock' \in Stamps, clock <= clock',
         NEW l \in TopPlaces, l # "store", top' = [top EXCEPT !.pc = l],
         l = "clear" => clock' < MaxIrq[handler],
         l \in {"publish", "schedule", "load"} => short_wq_count < clock'
  PROVE  Halves'
  <1> USE DEF Halves, Stamps, counts
  <1>0. 0 .. clock \subseteq 0 .. clock'
    OBVIOUS
  <1>1. top'.pc = l /\ top' \in [pc : TopPlaces, loaded : 0 .. clock']
    BY <1>0
  <1>2. /\ handler' \in Handlers /\ MaxIrq[handler'] \in Nat
        /\ tv_data' \in [0 .. NR_TIMEVAL - 1 -> Stamps'] /\ tv_tail' \in 0 .. NR_TIMEVAL - 1
    OBVIOUS
  <1>3. clock' \in Stamps' /\ last' \in Stamps'
    OBVIOUS
  <1>4. short_wq_count' \in 0 .. clock' /\ savecount' \in 0 .. clock'
    BY <1>0
  <1>5. /\ top'.pc = "clear" => clock' < MaxIrq[handler']
        /\ top'.pc \in {"publish", "schedule", "load", "store"} => short_wq_count' < clock'
        /\ top'.pc # "store"
    BY <1>1
  <1> QED BY <1>1, <1>2, <1>3, <1>4, <1>5

LEMMA HalvesInv == ASSUME Inv, [Next]_vars PROVE Halves'
  <1> USE DEF Inv, Halves, Stamps, counts
  <1>1. CASE short_interrupt \/ ClearBitAndRecord
    <2>1. UNCHANGED <<handler, tv_data, tv_head, tv_tail, counts, last>>
      BY <1>1 DEF short_interrupt, ClearBitAndRecord, TopUnchanged
    <2>2. clock < MaxIrq[handler] /\ clock' = clock + 1
      BY <1>1 DEF short_interrupt, ClearBitAndRecord, Enter
    <2>3. top' = [top EXCEPT !.pc = "wake"]
      BY <1>1 DEF short_interrupt, ClearBitAndRecord
    <2>4. clock' \in Stamps /\ clock <= clock'
      BY <2>2
    <2>5. tv_data' \in [0 .. NR_TIMEVAL - 1 -> Stamps] /\ tv_head' \in 0 .. NR_TIMEVAL - 1
      BY <2>1
    <2> QED BY <2>1, <2>3, <2>4, <2>5, TopMoved DEF TopPlaces
  <1>2. CASE short_sh_interrupt
    <2>1. UNCHANGED <<handler, stamps, counts, last>>
      BY <1>2 DEF short_sh_interrupt, TopUnchanged
    <2>2. PICK l \in {"clear", "idle"} :
            clock < MaxIrq[handler] /\ top' = [top EXCEPT !.pc = l]
      BY <1>2 DEF short_sh_interrupt, Enter
    <2>3. UNCHANGED <<handler, tv_data, tv_head, tv_tail, clock, counts, last>>
      BY <2>1 DEF stamps
    <2>4. /\ clock' \in Stamps /\ clock <= clock' /\ clock' < MaxIrq[handler]
          /\ tv_data' \in [0 .. NR_TIMEVAL - 1 -> Stamps] /\ tv_head' \in 0 .. NR_TIMEVAL - 1
      BY <2>2, <2>3
    <2> QED BY <2>2, <2>3, <2>4, TopMoved DEF TopPlaces
  <1>3. CASE StampTime
    <2>1. UNCHANGED <<handler, tv_head, tv_tail, counts, last>>
      BY <1>3 DEF StampTime, TopUnchanged
    <2>2. /\ clock < MaxIrq[handler] /\ clock' = clock + 1
          /\ tv_data' = [tv_data EXCEPT ![tv_head] = clock + 1]
          /\ top' = [top EXCEPT !.pc = "publish"]
      BY <1>3 DEF StampTime, Enter
    <2>3. clock + 1 \in Stamps /\ clock <= clock' /\ short_wq_count < clock'
      BY <2>2, SMTT(20)
    <2>4. tv_data' \in [0 .. NR_TIMEVAL - 1 -> Stamps] /\ tv_head' \in 0 .. NR_TIMEVAL - 1
      BY <2>1, <2>2, <2>3
    <2> QED BY <2>1, <2>2, <2>3, <2>4, TopMoved DEF TopPlaces
  <1>4. CASE WakeReader \/ PublishStamp \/ ScheduleBottomHalf
    <2>1. /\ UNCHANGED <<handler, tv_data, tv_tail, clock, counts, last>>
          /\ tv_head' \in {tv_head, short_incr_tv(tv_head)}
      BY <1>4 DEF WakeReader, PublishStamp, ScheduleBottomHalf, TopUnchanged, stamps
    <2>2. \/ top.pc = "wake" /\ top' = [top EXCEPT !.pc = "idle"]
          \/ top.pc = "publish" /\ top' = [top EXCEPT !.pc = "schedule"]
          \/ top.pc = "schedule" /\ top' = [top EXCEPT !.pc = "load"]
      BY <1>4 DEF WakeReader, PublishStamp, ScheduleBottomHalf, TopStep
    <2>3. tv_head' \in 0 .. NR_TIMEVAL - 1
      BY <2>1 DEF short_incr_tv
    <2>4. PICK l \in {"idle", "schedule", "load"} : top' = [top EXCEPT !.pc = l]
      BY <2>2
    <2>5. l \in {"schedule", "load"} => short_wq_count < clock
      <3>1. top'.pc = l
        BY <2>4
      <3> QED BY <2>2, <3>1
    <2>6. /\ clock' \in Stamps /\ clock <= clock'
          /\ tv_data' \in [0 .. NR_TIMEVAL - 1 -> Stamps]
      BY <2>1
    <2> QED BY <2>1, <2>3, <2>4, <2>5, <2>6, TopMoved DEF TopPlaces
  <1>5. CASE LoadCount
    <2>1. UNCHANGED <<handler, stamps, counts, last>>
      BY <1>5 DEF LoadCount, TopUnchanged
    <2>2. top.pc = "load" /\ top' = [pc |-> "store", loaded |-> short_wq_count]
      BY <1>5 DEF LoadCount
    <2>3. top' \in [pc : TopPlaces, loaded : 0 .. clock]
      BY <2>2 DEF TopPlaces
    <2> QED BY <2>1, <2>2, <2>3 DEF stamps
  <1>6. CASE StoreCount
    <2>1. UNCHANGED <<handler, stamps, savecount, last>> /\ short_wq_count' = top.loaded + 1
      BY <1>6 DEF StoreCount, TopUnchanged
    <2>2. top.pc = "store" /\ top' = [pc |-> "idle", loaded |-> 0]
      BY <1>6 DEF StoreCount
    <2>3. top' \in [pc : TopPlaces, loaded : 0 .. clock]
      BY <2>2 DEF TopPlaces
    <2> QED BY <2>1, <2>2, <2>3 DEF stamps
  <1>7. CASE BottomHalf
    <2>1. /\ short_wq_count' \in {0, short_wq_count} /\ last' \in {last, tv_data[tv_tail]}
          /\ savecount' \in {0, savecount, short_wq_count}
          /\ tv_tail' \in {tv_tail, short_incr_tv(tv_tail)}
      BY <1>7 DEF BottomHalf, SaveCount, PutHeader, PutStamp, TestStamps, BhWakesReader
    <2>2. tv_tail' \in 0 .. NR_TIMEVAL - 1 /\ last' \in Stamps
      BY <2>1 DEF short_incr_tv
    <2> QED BY <1>7, <2>1, <2>2, BottomHalfKeeps
  <1>8. CASE UNCHANGED <<handler, stamps, last, counts, top>>
    BY <1>8 DEF stamps
  <1> QED BY <1>1, <1>2, <1>3, <1>4, <1>5, <1>6, <1>7, <1>8, NextIs, CallsKeep,
             ReadsKeep, CleanupKeeps DEF vars, Interrupts, TopHalf

LEMMA StagesInv == ASSUME Inv, [Next]_vars PROVE Stages'
  <1> USE DEF Inv, Stages
  <1>1. CASE short_interrupt \/ short_sh_interrupt \/ StampTime
    BY <1>1 DEF short_interrupt, short_sh_interrupt, StampTime, Enter, TopUnchanged
  <1>2. CASE TopHalf
    BY <1>2 DEF TopHalf, ClearBitAndRecord, WakeReader, PublishStamp, ScheduleBottomHalf,
                LoadCount, StoreCount, TopStep, TopUnchanged, Halves
  <1>3. CASE BottomHalf
    BY <1>3 DEF BottomHalf, SaveCount, PutHeader, PutStamp, TestStamps, BhWakesReader,
                BhUnchanged
  <1>4. CASE Cleanup
    BY <1>4 DEF Cleanup, FreeIrq, WaitForBottomHalf, FreePage, CleanupUnchanged
  <1>5. CASE UNCHANGED <<stage, bh, scheduled, top>>
    BY <1>5
  <1> QED BY <1>1, <1>2, <1>3, <1>4, <1>5, NextIs, CallsKeep, ReadsKeep
          DEF vars, Interrupts

LEMMA PortInv == ASSUME Inv, [Next]_vars PROVE Port'
  <1> USE DEF Inv, Port
  <1>1. CASE Calls
    <2>1. left' \in 0..MaxCount /\ odd' \in {0, 1}
      BY <1>1 DEF Calls, WriteInterruptNode, WriteNextByte, do_short_write
    <2>2. latch' \in BOOLEAN /\ raised' \in BOOLEAN
      BY <1>1 DEF Calls, WriteInterruptNode, WriteNextByte, do_short_write, Out
    <2> QED BY <2>1, <2>2
  <1>2. CASE Interrupts
    <2>1. raised' \in BOOLEAN /\ latch' \in BOOLEAN
      BY <1>2 DEF Interrupts, short_interrupt, short_sh_interrupt, StampTime, TopHalf,
                  Enter, Out, ClearBitAndRecord, WakeReader, PublishStamp,
                  ScheduleBottomHalf, LoadCount, StoreCount, TopUnchanged, port
    <2> QED BY <1>2, <2>1, InterruptsKeep
  <1>3. CASE UNCHANGED port
    BY <1>3 DEF port
  <1> QED BY <1>1, <1>2, <1>3, NextIs, ReadsKeep, CleanupKeeps, BottomHalfKeeps
          DEF vars

(* The head moves only with a wake-up still to come, and the reader goes   *)
(* to sleep only after it has found the page empty once more.              *)
LEMMA WokenInv == ASSUME Inv, [Next]_vars PROVE Woken'
  <1> USE DEF Inv, Woken, ReaderWoken
  <1>1. CASE short_interrupt \/ ClearBitAndRecord
    BY <1>1 DEF short_interrupt, ClearBitAndRecord, Halves, TopUnchanged, reading
  <1>2. CASE short_sh_interrupt \/ StampTime
    BY <1>2 DEF short_sh_interrupt, StampTime, Enter, TopUnchanged, reading, page
  <1>3. CASE WakeReader \/ BhWakesReader
    BY <1>3 DEF WakeReader, BhWakesReader
  <1>4. CASE PublishStamp \/ ScheduleBottomHalf \/ LoadCount \/ StoreCount
    BY <1>4 DEF PublishStamp, ScheduleBottomHalf, LoadCount, StoreCount, TopStep,
                TopUnchanged, reading, page
  <1>5. CASE SaveCount \/ PutHeader \/ PutStamp \/ TestStamps
    BY <1>5 DEF SaveCount, PutHeader, PutStamp, TestStamps, reading, page
  <1>6. CASE Reads
    <2>1. UNCHANGED <<top, bh>>
      BY <1>6, ReadsKeep
    <2>2. queued' \in BOOLEAN /\ signal' \in BOOLEAN
      BY <1>6 DEF Reads, ReadCall, ReadOn, Signal, TestEmpty, PrepareToWait, Recheck,
                  Awaken, FinishWait, CopyOut, CopyFault, AdvanceTail
    <2>3. ASSUME reader'.pc = "sleep"
          PROVE  /\ UNCHANGED <<short_head, short_tail>>
                 /\ \/ short_head = short_tail
                    \/ reader.pc = "sleep" /\ queued' = queued
      <3>1. reader \in [pc : {"idle", "loop", "prepare", "recheck", "sleep", "finish",
                              "copy", "advance"}, want : 0..Size, got : Seq(Int)]
        BY DEF Page, PageTypes
      <3>2. CASE Signal
        BY <2>3, <3>2 DEF Signal, page
      <3>3. CASE Recheck
        BY <2>3, <3>1, <3>3 DEF Recheck, ReadStep, page
      <3>4. CASE (\E n \in ReadCounts : ReadCall(n)) \/ CopyFault \/ AdvanceTail
        <4>1. \/ \E n \in ReadCounts : reader' = [pc |-> "loop", want |-> n, got |-> <<>>]
              \/ reader' = Return
          BY <3>4 DEF ReadCall, CopyFault, AdvanceTail
        <4> QED BY <2>3, <4>1 DEF Return
      <3>5. CASE TestEmpty \/ PrepareToWait \/ Awaken
        <4>1. \E l \in {"prepare", "copy", "recheck", "finish"} :
                reader' = [reader EXCEPT !.pc = l]
          BY <3>5 DEF TestEmpty, PrepareToWait, Awaken, ReadStep
        <4> QED BY <2>3, <3>1, <4>1
      <3>6. CASE FinishWait
        BY <2>3, <3>1, <3>6 DEF FinishWait, Return
      <3>7. CASE CopyOut
        BY <2>3, <3>1, <3>7 DEF CopyOut
      <3> QED BY <1>6, <3>2, <3>3, <3>4, <3>5, <3>6, <3>7 DEF Reads, ReadOn
    <2> QED BY <2>1, <2>2, <2>3
  <1>7. CASE UNCHANGED <<page, top, bh, reading>>
    BY <1>7 DEF page, reading
  <1> QED BY <1>1, <1>2, <1>3, <1>4, <1>5, <1>6, <1>7, NextIs, CallsKeep, CleanupKeeps
          DEF vars, Interrupts, TopHalf, BottomHalf

-----------------------------------------------------------------------------
(***************************************************************************)
(* The page.                                                               *)
(***************************************************************************)

(* one more record moves the head to the next place *)
LEMMA PendingGrows ==
  ASSUME NEW h \in Slots, NEW t \in Slots, short_incr_bp(h, 1) # t
  PROVE  /\ short_incr_bp(h, 1) \in Slots
         /\ Pending(short_incr_bp(h, 1), t) = Pending(h, t) + 1
         /\ Pending(h, t) \in Nat /\ Place(t, Pending(h, t) + 1) = h
         /\ \A k \in 1 .. Pending(h, t) : Place(t, k) # h /\ Place(t, k) \in Slots
  BY DEF Slots, short_incr_bp, Pending, Place

(* taking m records, not past the end of the page, moves the tail *)
LEMMA PendingShrinks ==
  ASSUME NEW h \in Slots, NEW t \in Slots, NEW m \in 0 .. Pending(h, t), t + m <= Size
  PROVE  /\ short_incr_bp(t, m) \in Slots
         /\ Pending(h, short_incr_bp(t, m)) = Pending(h, t) - m
         /\ \A k \in 1 .. Pending(h, t) - m :
              Place(short_incr_bp(t, m), k) = Place(t, k + m)
  BY DEF Slots, short_incr_bp, Pending, Place

(* what a read may copy at once *)
LEMMA ReadableBounds ==
  ASSUME NEW h \in Slots, NEW t \in Slots
  PROVE  /\ Readable(h, t) \in Int /\ t + Readable(h, t) <= Size
         /\ Readable(h, t) \in 0 .. Pending(h, t)
         /\ \A k \in 1 .. Readable(h, t) : Place(t, k) = t + k - 1
  BY DEF Slots, Readable, Pending, Place

LEMMA PutInv ==
  ASSUME Page, NEW r \in Int, Put(r), UNCHANGED reader
  PROVE  Page'
  <1> USE DEF Page, PageTypes
  <1>1. /\ buffer' = [buffer EXCEPT ![short_head] = r]
        /\ short_head' = short_incr_bp(short_head, 1) /\ short_tail' = short_tail
        /\ overrun' = (overrun \/ short_incr_bp(short_head, 1) = short_tail)
        /\ unread' = IF overrun' THEN <<>> ELSE Append(unread, r)
    BY DEF Put
  <1>2. short_head' \in Slots /\ buffer' \in [Slots -> Int] /\ overrun' \in BOOLEAN
    <2>1. short_incr_bp(short_head, 1) \in Slots
      BY DEF short_incr_bp, Slots
    <2>2. overrun' \in BOOLEAN
      BY <1>1
    <2> QED BY <1>1, <2>1, <2>2
  <1>3. unread' \in Seq(Int)
    BY <1>1
  <1>4. CASE overrun'
    BY <1>1, <1>2, <1>3, <1>4 DEF Ordered
  <1>5. CASE ~overrun'
    <2> DEFINE n == Pending(short_head, short_tail)
    <2>0. overrun \in BOOLEAN
      OBVIOUS
    <2>1. ~overrun /\ short_head' # short_tail /\ unread' = Append(unread, r)
      BY <1>1, <1>5, <2>0
    <2>2. /\ Pending(short_head', short_tail) = n + 1 /\ n \in Nat
          /\ Place(short_tail, n + 1) = short_head
          /\ \A k \in 1 .. n : Place(short_tail, k) # short_head /\ Place(short_tail, k) \in Slots
      BY <1>1, <2>1, PendingGrows
    <2>3. /\ Len(unread) = n
          /\ \A k \in 1 .. n : unread[k] = buffer[Place(short_tail, k)]
          /\ Len(reader.got) <= n
          /\ \A k \in 1 .. Len(reader.got) : reader.got[k] = unread[k]
      BY <2>1 DEF Ordered
    <2> HIDE DEF n
    <2>4. /\ Len(unread') = n + 1 /\ unread'[n + 1] = r
          /\ \A k \in 1 .. n : unread'[k] = unread[k]
      <3>1. \A q \in Seq(Int) :
               /\ Len(Append(q, r)) = Len(q) + 1 /\ Append(q, r)[Len(q) + 1] = r
               /\ \A k \in 1 .. Len(q) : Append(q, r)[k] = q[k]
        BY ONLY r \in Int
      <3>2. unread \in Seq(Int)
        OBVIOUS
      <3> QED BY ONLY <2>1, <2>3, <3>1, <3>2
    <2>5. ASSUME NEW k \in 1 .. n + 1 PROVE unread'[k] = buffer'[Place(short_tail, k)]
      <3>1. buffer'[short_head] = r /\ \A x \in Slots : x # short_head => buffer'[x] = buffer[x]
        BY <1>1
      <3>2. CASE k = n + 1
        BY <2>2, <2>4, <3>1, <3>2
      <3>3. CASE k \in 1 .. n
        <4>1. buffer'[Place(short_tail, k)] = buffer[Place(short_tail, k)]
          BY <2>2, <3>1, <3>3
        <4> QED BY <2>3, <2>4, <3>3, <4>1
      <3>4. k = n + 1 \/ k \in 1 .. n
        BY <2>2
      <3> QED BY <3>2, <3>3, <3>4
    <2>6. Len(reader.got) \in Nat
      OBVIOUS
    <2>7. Len(reader.got) <= n + 1 /\ \A k \in 1 .. Len(reader.got) : reader.got[k] = unread'[k]
      <3>1. 1 .. Len(reader.got) \subseteq 1 .. n /\ Len(reader.got) <= n + 1
        BY <2>2, <2>3, <2>6
      <3> QED BY <2>3, <2>4, <3>1
    <2>8. PageTypes'
      BY <1>1, <1>2, <1>3
    <2>9. Ordered'
      <3>1. short_tail' = short_tail /\ reader' = reader
        BY <1>1
      <3> QED BY ONLY <2>2, <2>4, <2>5, <2>7, <3>1 DEF Ordered
    <2> QED BY <2>8, <2>9
  <1> QED BY <1>4, <1>5

(* a step of the reader before and after the copying *)
LEMMA ReaderMoved ==
  ASSUME Page, UNCHANGED page,
         reader' \in [pc : {"idle", "loop", "prepare", "recheck", "sleep", "finish",
                            "copy"}, want : 0..Size, got : {<<>>}]
  PROVE  Page'
  <1>1. <<>> \in Seq(Int) /\ Len(<<>>) = 0
    OBVIOUS
  <1>2. reader'.got = <<>> /\ reader'.pc # "advance"
        /\ reader' \in [pc : {"idle", "loop", "prepare", "recheck", "sleep", "finish",
                              "copy", "advance"}, want : 0..Size, got : Seq(Int)]
    BY <1>1
  <1>3. UNCHANGED <<buffer, short_head, short_tail, unread, overrun>>
    BY DEF page
  <1>4. PageTypes'
    <2>1. /\ buffer' \in [Slots -> Int] /\ short_head' \in Slots /\ short_tail' \in Slots
          /\ unread' \in Seq(Int) /\ overrun' \in BOOLEAN
      BY <1>3 DEF Page, PageTypes
    <2>2. short_tail' + Len(reader'.got) <= Size
      BY <1>1, <1>2, <2>1 DEF Slots
    <2> QED BY <1>2, <2>1, <2>2 DEF PageTypes
  <1>5. Ordered'
    <2>1. /\ ~overrun => /\ Len(unread') = Pending(short_head', short_tail')
                         /\ \A k \in 1 .. Len(unread') :
                              unread'[k] = buffer'[Place(short_tail', k)]
      BY <1>3 DEF Page, Ordered
    <2>2. Len(unread') \in Nat
      BY <1>3, LenProperties DEF Page, PageTypes
    <2> QED BY <1>1, <1>2, <1>3, <2>1, <2>2 DEF Ordered
  <1> QED BY <1>4, <1>5 DEF Page

(* n elements from the one after t on *)
LEMMA Slice ==
  ASSUME NEW S, NEW b, NEW t \in Nat, NEW n \in Nat,
         \A i \in t + 1 .. t + n : b[i] \in S
  PROVE  /\ SubSeq(b, t + 1, t + n) \in Seq(S) /\ Len(SubSeq(b, t + 1, t + n)) = n
         /\ \A k \in 1 .. n : SubSeq(b, t + 1, t + n)[k] = b[t + k]
  <1> DEFINE f == t + 1
             l == t + n
             g == SubSeq(b, f, l)
  <1>1. f \in Int /\ l \in Int /\ l - f + 1 = n /\ (f <= l <=> n > 0)
    OBVIOUS
  <1>2. \A i \in 1 .. n : f + i - 1 = t + i
    OBVIOUS
  <1>3. \A i \in f .. l : b[i] \in S
    OBVIOUS
  <1> HIDE DEF f, l
  <1>4. /\ g \in Seq(S)
        /\ Len(g) = IF f <= l THEN l - f + 1 ELSE 0
        /\ \A i \in 1 .. l - f + 1 : g[i] = b[f + i - 1]
    BY <1>1, <1>3, SubSeqProperties
  <1> HIDE DEF g
  <1>5. Len(g) = n
    BY <1>1, <1>4
  <1>6. \A k \in 1 .. n : g[k] = b[t + k]
    BY <1>1, <1>2, <1>4
  <1> QED BY <1>4, <1>5, <1>6 DEF f, l, g

LEMMA CopyInv ==
  ASSUME Page, CopyOut
  PROVE  Page'
  <1> USE DEF Page, PageTypes
  <1> DEFINE room == Readable(short_head, short_tail)
             n == IF room < reader.want THEN room ELSE reader.want
             b == [k \in 1..Size |-> buffer[k - 1]]
             g == SubSeq(b, short_tail + 1, short_tail + n)
  <1>1. reader' = [reader EXCEPT !.pc = "advance", !.got = g] /\ UNCHANGED page
    BY DEF CopyOut
  <1>2. /\ room \in Int /\ short_tail + room <= Size
        /\ room \in 0 .. Pending(short_head, short_tail)
        /\ \A k \in 1 .. room : Place(short_tail, k) = short_tail + k - 1
    BY ReadableBounds
  <1> HIDE DEF room
  <1>3. short_tail \in Nat /\ n \in 0 .. room /\ short_tail + n <= Size
    <2>1. short_tail \in Nat /\ room \in Nat /\ reader.want \in Nat
      BY <1>2 DEF Slots
    <2> QED BY <1>2, <2>1
  <1> HIDE DEF n
  <1>4. ASSUME NEW k \in 1 .. Size PROVE b[k] = buffer[k - 1] /\ b[k] \in Int
    <2>1. k - 1 \in Slots
      BY DEF Slots
    <2>2. b[k] = buffer[k - 1]
      OBVIOUS
    <2> QED BY <2>1, <2>2
  <1> HIDE DEF b
  <1>5. /\ g \in Seq(Int) /\ Len(g) = n
        /\ \A k \in 1 .. n : g[k] = b[short_tail + k]
    <2>1. short_tail \in Nat /\ n \in Nat /\ short_tail + n <= Size
      BY <1>2, <1>3
    <2>2. \A i \in short_tail + 1 .. short_tail + n : i \in 1 .. Size
      BY <2>1
    <2>3. \A i \in short_tail + 1 .. short_tail + n : b[i] \in Int
      BY <1>4, <2>2
    <2> HIDE DEF Page, PageTypes
    <2>4. /\ SubSeq(b, short_tail + 1, short_tail + n) \in Seq(Int)
          /\ Len(SubSeq(b, short_tail + 1, short_tail + n)) = n
          /\ \A k \in 1 .. n : SubSeq(b, short_tail + 1, short_tail + n)[k] = b[short_tail + k]
      BY ONLY <2>1, <2>3, Slice
    <2> QED BY <2>4
  <1> HIDE DEF g
  <1>6. /\ reader'.got = g /\ reader'.pc = "advance"
        /\ reader' \in [pc : {"idle", "loop", "prepare", "recheck", "sleep", "finish",
                              "copy", "advance"}, want : 0..Size, got : Seq(Int)]
    BY <1>1, <1>5
  <1>7. PageTypes'
    BY <1>1, <1>3, <1>5, <1>6 DEF page
  <1>8. ASSUME ~overrun
        PROVE  n <= Len(unread) /\ \A k \in 1 .. n : g[k] = unread[k]
    <2>1. n <= Len(unread)
      BY <1>2, <1>3, <1>8 DEF Ordered
    <2>2. ASSUME NEW k \in 1 .. n PROVE g[k] = unread[k]
      <3>1. k \in 1 .. room /\ k \in 1 .. Len(unread) /\ k \in Nat
        BY <1>2, <1>3, <2>1
      <3>2. unread[k] = buffer[short_tail + k - 1]
        BY <1>2, <1>8, <3>1 DEF Ordered
      <3>3. short_tail + k \in 1 .. Size
        BY <1>3, <3>1
      <3>4. g[k] = buffer[(short_tail + k) - 1]
        BY <1>4, <1>5, <3>3
      <3>5. (short_tail + k) - 1 = short_tail + k - 1
        BY <1>3, <3>1
      <3> QED BY <3>2, <3>4, <3>5
    <2> QED BY <2>1, <2>2
  <1>9. Ordered'
    BY <1>1, <1>5, <1>6, <1>8 DEF Ordered, page
  <1> QED BY <1>7, <1>9

LEMMA AdvanceInv ==
  ASSUME Page, AdvanceTail
  PROVE  Page'
  <1> USE DEF Page, PageTypes
  <1> DEFINE m == Len(reader.got)
             u == SubSeq(unread, m + 1, Len(unread))
  <1>1. /\ reader' = Return /\ short_tail' = short_incr_bp(short_tail, m)
        /\ unread' = (IF overrun THEN <<>> ELSE u)
        /\ UNCHANGED <<buffer, short_head, overrun>>
    BY DEF AdvanceTail
  <1>2. m \in Nat /\ short_tail + m <= Size /\ short_tail \in Nat
    BY DEF Slots
  <1>3. short_tail' \in Slots
    BY <1>1, <1>2 DEF Slots, short_incr_bp
  <1>4. <<>> \in Seq(Int) /\ Len(<<>>) = 0
    OBVIOUS
  <1>5. /\ reader'.got = <<>> /\ reader'.pc = "idle" /\ reader'.want = 0
        /\ reader' \in [pc : {"idle"}, want : 0..Size, got : Seq(Int)]
    BY <1>1, <1>4 DEF Return
  <1>6. short_tail' + Len(reader'.got) <= Size
    BY <1>3, <1>4, <1>5 DEF Slots
  <1>7. CASE overrun
    BY <1>1, <1>3, <1>4, <1>5, <1>6, <1>7 DEF Ordered
  <1>8. CASE ~overrun
    <2> DEFINE n == Pending(short_head, short_tail)
    <2>1. /\ Len(unread) = n /\ m <= n /\ n \in Nat
          /\ \A k \in 1 .. n : unread[k] = buffer[Place(short_tail, k)]
      BY <1>8 DEF Ordered
    <2>2. /\ Pending(short_head, short_tail') = n - m
          /\ \A k \in 1 .. n - m : Place(short_tail', k) = Place(short_tail, k + m)
      <3>1. m \in 0 .. n
        BY <1>2, <2>1
      <3> HIDE DEF m
      <3> QED BY <1>1, <1>2, <3>1, PendingShrinks
    <2> HIDE DEF n, m
    <2>3. /\ u \in Seq(Int) /\ Len(u) = n - m
          /\ \A k \in 1 .. n - m : u[k] = unread[k + m]
      <3>1. \A i \in m + 1 .. n : unread[i] \in Int
        BY <1>2, <2>1, ElementOfSeq
      <3>2. m + (n - m) = n /\ n - m \in Nat
        BY <1>2, <2>1
      <3>3. /\ u \in Seq(Int) /\ Len(u) = n - m
            /\ \A k \in 1 .. n - m : u[k] = unread[m + k]
        <4>1. m \in Nat /\ SubSeq(unread, m + 1, m + (n - m)) = u
          BY <1>2, <2>1, <3>2 DEF u
        <4>2. \A i \in m + 1 .. m + (n - m) : unread[i] \in Int
          BY <3>1, <3>2
        <4> DEFINE w == SubSeq(unread, m + 1, m + (n - m))
        <4>3. w \in Seq(Int) /\ Len(w) = n - m /\ \A k \in 1 .. n - m : w[k] = unread[m + k]
          BY ONLY <3>2, <4>1, <4>2, Slice, SMTT(20)
        <4> QED BY <4>1, <4>3
      <3>4. \A k \in 1 .. n - m : m + k = k + m
        BY <1>2, <2>1
      <3> QED BY <3>3, <3>4
    <2> HIDE DEF u
    <2>4. unread' = u
      BY <1>1, <1>8
    <2>5. PageTypes'
      BY <1>1, <1>3, <1>5, <1>6, <2>3, <2>4
    <2>6. ASSUME NEW k \in 1 .. n - m PROVE u[k] = buffer[Place(short_tail', k)]
      <3>1. k + m \in 1 .. n
        <4>1. n \in Nat /\ m \in Nat
          BY <1>2, <2>1
        <4> QED BY <4>1
      <3>2. u[k] = unread[k + m] /\ Place(short_tail', k) = Place(short_tail, k + m)
        BY ONLY <2>2, <2>3, k \in 1 .. n - m
      <3> QED BY ONLY <2>1, <3>1, <3>2
    <2>7. Ordered'
      <3>1. Len(reader'.got) = 0 /\ Len(unread') = n - m /\ n - m >= 0
        BY <1>2, <1>4, <1>5, <2>1, <2>3, <2>4
      <3>2. buffer' = buffer /\ short_head' = short_head
        BY <1>1
      <3>3. \A k \in 1 .. Len(reader'.got) : FALSE
        BY ONLY <3>1
      <3> QED BY ONLY <2>2, <2>4, <2>6, <3>1, <3>2, <3>3 DEF Ordered
    <2> QED BY <2>5, <2>7
  <1> QED BY <1>7, <1>8

LEMMA ReadsInv ==
  ASSUME Page, Reads
  PROVE  Page'
  <1>1. /\ reader \in [pc : {"idle", "loop", "prepare", "recheck", "sleep", "finish",
                            "copy", "advance"}, want : 0..Size, got : Seq(Int)]
        /\ reader.pc # "advance" => reader.got = <<>>
    BY DEF Page, PageTypes
  <1> DEFINE Moved == reader' \in [pc : {"idle", "loop", "prepare", "recheck", "sleep",
                                         "finish", "copy"}, want : 0..Size, got : {<<>>}]
  <1>2. Return \in [pc : {"idle"}, want : {0}, got : {<<>>}]
    BY DEF Return
  <1>3. CASE \E n \in ReadCounts : ReadCall(n)
    <2>1. PICK n \in ReadCounts : reader' = [pc |-> "loop", want |-> n, got |-> <<>>]
      BY <1>3 DEF ReadCall
    <2>2. n \in 0..Size
      OBVIOUS
    <2>3. Moved
      BY <2>1, <2>2
    <2> QED BY <1>3, <2>3, ReaderMoved DEF ReadCall
  <1>4. CASE TestEmpty \/ PrepareToWait \/ Recheck \/ Awaken
    <2>1. PICK l \in {"prepare", "copy", "recheck", "sleep", "finish"} :
            reader.pc # "advance" /\ reader' = [reader EXCEPT !.pc = l]
      BY <1>4 DEF TestEmpty, PrepareToWait, Recheck, Awaken, ReadStep
    <2>2. Moved
      BY <1>1, <2>1
    <2>3. UNCHANGED page
      BY <1>4 DEF TestEmpty, PrepareToWait, Recheck, Awaken
    <2> QED BY <2>2, <2>3, ReaderMoved
  <1>5. CASE FinishWait
    <2>1. /\ reader.pc = "finish" /\ UNCHANGED page
          /\ reader' = Return \/ reader' = [reader EXCEPT !.pc = "loop"]
      BY <1>5 DEF FinishWait
    <2>2. Moved
      BY <1>1, <1>2, <2>1
    <2> QED BY <2>1, <2>2, ReaderMoved
  <1>6. CASE CopyFault
    <2>1. Moved /\ UNCHANGED page
      BY <1>2, <1>6 DEF CopyFault
    <2> QED BY <2>1, ReaderMoved
  <1>7. CASE Signal
    BY <1>7 DEF Signal, Page, PageTypes, Ordered, page
  <1> QED BY <1>3, <1>4, <1>5, <1>6, <1>7, CopyInv, AdvanceInv DEF Reads, ReadOn

LEMMA PageInv == ASSUME Inv, [Next]_vars PROVE Page'
  <1>1. clock + 1 \in Int /\ tv_data[tv_tail] \in Int /\ Header(savecount) \in Int
    BY DEF Inv, Halves, Stamps, Header
  <1>2. CASE short_interrupt \/ ClearBitAndRecord
    <2>1. Put(clock + 1) /\ UNCHANGED reader
      BY <1>2 DEF short_interrupt, ClearBitAndRecord, TopUnchanged, reading
    <2> QED BY <1>1, <2>1, PutInv DEF Inv
  <1>3. CASE PutHeader \/ PutStamp
    <2>1. PICK r \in Int : Put(r)
      BY <1>1, <1>3 DEF PutHeader, PutStamp
    <2>2. UNCHANGED reader
      BY <1>3 DEF PutHeader, PutStamp, reading
    <2> QED BY <2>1, <2>2, PutInv DEF Inv
  <1>4. CASE Reads
    BY <1>4, ReadsInv DEF Inv
  <1>5. CASE UNCHANGED <<page, reader>>
    BY <1>5 DEF Inv, Page, PageTypes, Ordered, page
  <1>6. short_sh_interrupt \/ StampTime \/ WakeReader \/ PublishStamp
          \/ ScheduleBottomHalf \/ LoadCount \/ StoreCount
        => UNCHANGED <<page, reader>>
    BY DEF short_sh_interrupt, StampTime, WakeReader, PublishStamp, ScheduleBottomHalf,
           LoadCount, StoreCount, TopUnchanged, reading
  <1>7. SaveCount \/ TestStamps \/ BhWakesReader => UNCHANGED <<page, reader>>
    BY DEF SaveCount, TestStamps, BhWakesReader, reading
  <1> QED BY <1>2, <1>3, <1>4, <1>5, <1>6, <1>7, NextIs, CallsKeep, CleanupKeeps
          DEF vars, reading, Interrupts, TopHalf, BottomHalf

LEMMA NextInv == ASSUME Inv, [Next]_vars PROVE Inv'
  BY HalvesInv, StagesInv, PortInv, PageInv, WokenInv DEF Inv

-----------------------------------------------------------------------------
(* the invariant in the words of the properties *)
LEMMA RemainderIs ==
  ASSUME NEW a \in Int
  PROVE  /\ a \in 0 .. Size - 1 => a % Size = a
         /\ a - Size \in 0 .. Size - 1 => a % Size = a - Size
         /\ a + Size \in 0 .. Size - 1 => a % Size = a + Size
  OBVIOUS

LEMMA OrderIs == ASSUME Inv PROVE ReadsInOrder
  <1> SUFFICES ASSUME ~overrun PROVE ReadsInOrder
    BY DEF ReadsInOrder
  <1> DEFINE n == Pending(short_head, short_tail)
             u == [k \in 1 .. (short_head - short_tail) % Size
                     |-> buffer[(short_tail + k - 1) % Size]]
             g == SubSeq(unread, 1, Len(reader.got))
  <1>1. /\ Len(unread) = n /\ unread \in Seq(Int) /\ reader.got \in Seq(Int)
        /\ \A k \in 1 .. n : unread[k] = buffer[Place(short_tail, k)]
        /\ Len(reader.got) <= n
        /\ \A k \in 1 .. Len(reader.got) : reader.got[k] = unread[k]
    BY DEF Inv, Page, PageTypes, Ordered
  <1>2. short_head \in 0 .. Size - 1 /\ short_tail \in 0 .. Size - 1
    BY DEF Inv, Page, PageTypes, Slots
  <1>3. (short_head - short_tail) % Size = n /\ n \in 0 .. Size - 1
    BY <1>2, RemainderIs DEF Pending
  <1>4. ASSUME NEW k \in 1 .. n PROVE (short_tail + k - 1) % Size = Place(short_tail, k)
    <2> DEFINE a == short_tail + k - 1
    <2>1. Size \in Nat \ {0} /\ k \in 1 .. Size - 1
      BY <1>3
    <2>2. a \in Int /\ a \in 0 .. 2 * Size - 2
      BY <1>2, <2>1
    <2>3. Place(short_tail, k) = IF a < Size THEN a ELSE a - Size
      BY <1>2, <2>1 DEF Place
    <2> HIDE DEF a
    <2>4. CASE a < Size
      BY <2>1, <2>2, <2>3, <2>4, RemainderIs DEF a
    <2>5. CASE ~(a < Size)
      BY <2>1, <2>2, <2>3, <2>5, RemainderIs DEF a
    <2> QED BY <2>4, <2>5
  <1> HIDE DEF n
  <1>5. DOMAIN unread = 1 .. n /\ unread \in [1 .. n -> Int]
    BY <1>1, <1>3, LenProperties
  <1>6. unread = u
    BY <1>1, <1>3, <1>4, <1>5
  <1>7. reader.got = g
    <2> DEFINE m == Len(reader.got)
    <2>1. m \in Nat /\ m <= n /\ n \in Nat
      BY <1>1, <1>3
    <2>2. \A i \in 1 .. m : unread[i] \in Int
      BY <1>5, <2>1
    <2> DEFINE f == SubSeq(unread, 0 + 1, 0 + m)
    <2> HIDE DEF m
    <2>3. f \in Seq(Int) /\ Len(f) = m /\ \A k \in 1 .. m : f[k] = unread[0 + k]
      BY <2>1, <2>2, Slice
    <2>4. f = SubSeq(unread, 1, m)
      BY <2>1
    <2> HIDE DEF f
    <2>5. \A k \in 1 .. m : 0 + k = k
      BY <2>1
    <2>6. \A k \in 1 .. Len(f) : f[k] = reader.got[k]
      BY <1>1, <2>3, <2>5 DEF m
    <2>7. f = reader.got
      BY <1>1, <2>3, <2>6, SeqEqual DEF m
    <2> QED BY <2>4, <2>7 DEF m
  <1> QED BY <1>6, <1>7 DEF ReadsInOrder

LEMMA TypesAre == ASSUME Inv PROVE TypeInvariant
  <1>1. DOMAIN tv_data = 0 .. NR_TIMEVAL - 1
    BY DEF Inv, Halves
  <1>2. 0 .. clock \subseteq Stamps
    BY DEF Inv, Halves, Stamps
  <1>3. /\ short_wq_count \in Stamps /\ savecount \in Stamps
        /\ top \in [pc : TopPlaces, loaded : Stamps]
    BY <1>2 DEF Inv, Halves
  <1>4. Halves /\ Stages /\ Port /\ Page /\ Woken
    BY DEF Inv
  <1>5. /\ handler \in Handlers
        /\ tv_data \in [0 .. NR_TIMEVAL - 1 -> Stamps]
        /\ tv_head \in 0 .. NR_TIMEVAL - 1 /\ tv_tail \in 0 .. NR_TIMEVAL - 1
        /\ clock \in Stamps /\ last \in Stamps
    BY <1>4 DEF Halves
  <1>6. /\ stage \in {"loaded", "irqfree", "disabled", "flushed", "unloaded"}
        /\ bh \in {"idle", "header", "stamp", "test", "wake"} /\ scheduled \in BOOLEAN
    BY <1>4 DEF Stages
  <1>7. /\ reader.pc \in {"idle", "loop", "prepare", "recheck", "sleep", "finish", "copy",
                          "advance"}
        /\ reader.want \in 0..Size /\ reader.got \in Seq(Int)
    BY <1>4 DEF Page, PageTypes
  <1>8. /\ buffer \in [Slots -> Int] /\ short_head \in Slots /\ short_tail \in Slots
        /\ unread \in Seq(Int) /\ overrun \in BOOLEAN
    BY <1>4 DEF Page, PageTypes
  <1>9. /\ latch \in BOOLEAN /\ raised \in BOOLEAN /\ left \in 0..MaxCount /\ odd \in {0, 1}
        /\ queued \in BOOLEAN /\ signal \in BOOLEAN
    BY <1>4 DEF Port, Woken
  <1> QED BY <1>1, <1>3, <1>5, <1>6, <1>7, <1>8, <1>9 DEF TypeInvariant, Stamps, TopPlaces

(* short.c 96-101, 286-303, 345-461: the types of the indices, of the      *)
(* array of time values, and of the halves of the handlers.                *)
THEOREM TypeCorrect == Spec => []TypeInvariant
  BY InitInv, NextInv, TypesAre, PTL DEF Spec

(* short.c 96-101 and 291-303: with pages of any size, reads of any size   *)
(* and any of the handlers, a reader gets the records in their order and   *)
(* none twice as long as no handler has overrun the page.                  *)
THEOREM OrderCorrect == Spec => []ReadsInOrder
  BY InitInv, NextInv, OrderIs, PTL DEF Spec

(* short.c 286-289: the test of the indices without a lock loses no        *)
(* wake-up, whichever half of a handler moves the head.                    *)
THEOREM WakeCorrect == Spec => []ReaderWoken
  <1>1. Inv => ReaderWoken
    BY DEF Inv, Woken
  <1> QED BY InitInv, NextInv, <1>1, PTL DEF Spec

(* short.c 671-688: what short_cleanup waits for is enough: nothing that   *)
(* uses the page runs when it frees the page.                              *)
THEOREM CleanupCorrect == Spec => []NothingRunsAfterCleanup
  <1>1. Inv => NothingRunsAfterCleanup
    BY DEF Inv, Stages, NothingRunsAfterCleanup
  <1> QED BY InitInv, NextInv, <1>1, PTL DEF Spec
=============================================================================
