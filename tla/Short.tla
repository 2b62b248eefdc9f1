-------------------------------- MODULE Short --------------------------------
(***************************************************************************)
(* The parallel-port driver IO_port/copy/short.c in operation: interrupts  *)
(* raised by the loopback wire fill a circular page of 16-byte records,    *)
(* directly or through an array of time values and a bottom half, and a    *)
(* reader of the interrupt node empties it.  Nothing here takes a lock.    *)
(* The unit of the page is the record; a record is the number of its time  *)
(* stamp (0: an array entry never written) or the header of a bottom half. *)
(* One process reads: the file says it is not safe with more (lines 20-21).*)
(***************************************************************************)
EXTENDS Integers, Sequences

CONSTANTS
  Handlers,      \* handlers a load may install: plain, shared, or
                 \* halves (top half with a tasklet or a work queue)
  Size,          \* PAGE_SIZE, in records
  NR_TIMEVAL,    \* length of tv_data
  Minors,        \* minor numbers of the port nodes that are open
  UseMem,        \* the parameter use_mem
  ReadCounts,    \* sizes of the reads, in records
  MaxIrq,        \* bound on the interrupts each handler accepts
  MaxCount       \* bound on the bytes of one write

ASSUME SizesAssumption ==
  /\ {Size, NR_TIMEVAL} \subseteq Nat \ {0}
  /\ ReadCounts \subseteq 1..Size /\ MaxCount \in Nat
  /\ MaxIrq \in [Handlers -> Nat]
  /\ Minors \subseteq 0..127 /\ UseMem \in BOOLEAN
  /\ Handlers \subseteq {"plain", "shared", "halves"}

VARIABLES
  handler,       \* the handler short_init installed
  stage,         \* how far short_cleanup has come
  buffer, short_head, short_tail,            \* the page and its two indices
  tv_data, tv_head, tv_tail, short_wq_count, \* what the two halves share
  latch,         \* bit 7 of the data port, wired to the interrupt pin
  raised,        \* the interrupt line, latched by the controller
  clock,         \* time stamps taken
  top,           \* where the interrupt handler is, and the count it loaded
  bh, savecount, \* where the bottom half is, and the count it saved
  scheduled,     \* the tasklet or the work is queued
  reader,        \* where short_i_read is, and what it has copied
  queued, signal,\* the reader is on short_queue; it has a signal pending
  left, odd,     \* bytes short_i_write has left, parity of the next one
  unread,        \* history: records put into the page and not taken
  overrun,       \* history: the page was filled over unread records
  last           \* history: the last stamp a bottom half printed

page == <<buffer, short_head, short_tail, unread, overrun>>
stamps == <<tv_data, tv_head, tv_tail, clock>>
port == <<latch, raised, left, odd>>
reading == <<reader, queued, signal>>
counts == <<short_wq_count, savecount>>
vars == <<handler, stage, page, stamps, counts, port, top, bh,
          scheduled, reading, last>>

Slots == 0 .. Size - 1

(* "bh after %6i": a record of its own kind, told apart by its sign *)
Header(n) == -1 - n

(* variant: the end of the page counts as inside it *)
incr_bp_past(index, delta) == IF index + delta > Size THEN 0 ELSE index + delta
short_incr_bp(index, delta) == IF index + delta >= Size THEN 0 ELSE index + delta

(* the array of time values is circular as well *)
short_incr_tv(index) == IF index = NR_TIMEVAL - 1 THEN 0 ELSE index + 1

Init ==
  /\ handler \in Handlers /\ stage = "loaded"
  /\ buffer = [s \in Slots |-> 0] /\ short_head = 0 /\ short_tail = 0
  /\ tv_data = [t \in 0 .. NR_TIMEVAL - 1 |-> 0] /\ tv_head = 0 /\ tv_tail = 0
  /\ short_wq_count = 0 /\ savecount = 0 /\ clock = 0
  /\ latch = FALSE /\ raised = FALSE
  /\ top = [pc |-> "idle", loaded |-> 0] /\ bh = "idle" /\ scheduled = FALSE
  /\ reader = [pc |-> "idle", want |-> 0, got |-> <<>>]
  /\ queued = FALSE /\ signal = FALSE
  /\ left = 0 /\ odd = 0
  /\ unread = <<>> /\ overrun = FALSE /\ last = 0

(* sprintf at short_head, then short_incr_bp: it does not look at          *)
(* short_tail, so a full page is silently overwritten from its start.      *)
(* The NUL that sprintf adds to the 16 bytes is left out: it lands on the  *)
(* first byte of the next slot, which holds an unread record only when     *)
(* this one overruns the page, and behind the last slot on the byte that   *)
(* follows the page.                                                       *)
Put(r) ==
  /\ buffer' = [buffer EXCEPT ![short_head] = r]
  /\ short_head' = short_incr_bp(short_head, 1)
  /\ overrun' = (overrun \/ short_incr_bp(short_head, 1) = short_tail)
  /\ unread' = IF overrun' THEN <<>> ELSE Append(unread, r)
  /\ UNCHANGED short_tail

-----------------------------------------------------------------------------
(* The port: every write of a byte may raise the line. *)
Out(bit) == latch' = bit /\ raised' = (raised \/ (bit /\ ~latch))

WriteInterruptNode(n) ==
  /\ stage = "loaded" /\ clock < MaxIrq[handler]
  /\ left = 0 /\ left' = n
  /\ UNCHANGED <<handler, stage, page, stamps, counts, latch, raised, odd, top, bh, scheduled, reading, last>>

(* 0xff * ((++written + odd) & 1): the bytes alternate, and f_pos advances *)
(* by count, so the next call goes on with the parity this one ended at    *)
WriteNextByte ==
  /\ left > 0 /\ left' = left - 1
  /\ Out(odd = 0) /\ odd' = 1 - odd
  /\ UNCHANGED <<handler, stage, page, stamps, counts, top, bh,
                 scheduled, reading, last>>

Mode(minor) == IF UseMem THEN 3 ELSE (minor % 128) \div 16

(* A write to a port node: only the last byte sent to the data port is     *)
(* kept here.  A failed allocation, a failed copy (which loses the buffer) *)
(* and an undefined mode return before the port is touched.                *)
do_short_write(minor) ==
  /\ stage = "loaded" /\ clock < MaxIrq[handler]
  /\ Mode(minor) \in 0..3 /\ minor % 16 = 0
  /\ \E bit \in BOOLEAN : Out(bit)
  /\ UNCHANGED <<handler, stage, page, stamps, counts, left, odd, top, bh,
                 scheduled, reading, last>>

-----------------------------------------------------------------------------
(* Interrupt handlers.  The line is acknowledged on entry; a handler is    *)
(* not entered again before it has returned.                               *)
Enter ==
  /\ raised /\ raised' = FALSE
  /\ top.pc = "idle" /\ stage = "loaded" /\ clock < MaxIrq[handler]

TopUnchanged == UNCHANGED <<handler, stage, left, odd, bh, reading, last>>

short_interrupt ==
  /\ handler = "plain" /\ Enter
  /\ clock' = clock + 1 /\ Put(clock + 1)
  /\ top' = [top EXCEPT !.pc = "wake"]
  /\ UNCHANGED <<tv_data, tv_head, tv_tail, counts, latch, scheduled>>
  /\ TopUnchanged

(* IRQ_NONE when bit 7 is down by now *)
short_sh_interrupt ==
  /\ handler = "shared" /\ Enter
  /\ top' = [top EXCEPT !.pc = IF latch THEN "clear" ELSE "idle"]
  /\ UNCHANGED <<page, stamps, counts, latch, scheduled>>
  /\ TopUnchanged

(* outb(value & 0x7F) writes back the value read before *)
ClearBitAndRecord ==
  /\ top.pc = "clear"
  /\ Out(FALSE)
  /\ clock' = clock + 1 /\ Put(clock + 1)
  /\ top' = [top EXCEPT !.pc = "wake"]
  /\ UNCHANGED <<tv_data, tv_head, tv_tail, counts, scheduled>>
  /\ TopUnchanged

(* variant: no reader is told *)
WakeNobody ==
  /\ top.pc = "wake" /\ top' = [top EXCEPT !.pc = "idle"]
  /\ UNCHANGED <<handler, stage, page, stamps, counts, port, bh, scheduled,
                 reading, last>>

WakeReader ==
  /\ top.pc = "wake" /\ top' = [top EXCEPT !.pc = "idle"]
  /\ queued' = FALSE
  /\ UNCHANGED <<handler, stage, page, stamps, counts, port, bh, scheduled,
                 reader, signal, last>>

(* short_wq_interrupt and short_tl_interrupt: the stamp, its publication,  *)
(* the scheduling of the bottom half and the two halves of the count's ++  *)
StampTime ==
  /\ handler = "halves" /\ Enter
  /\ clock' = clock + 1
  /\ tv_data' = [tv_data EXCEPT ![tv_head] = clock + 1]
  /\ top' = [top EXCEPT !.pc = "publish"]
  /\ UNCHANGED <<page, tv_head, tv_tail, counts, latch, scheduled>>
  /\ TopUnchanged

TopStep(from, to) == top.pc = from /\ top' = [top EXCEPT !.pc = to]

PublishStamp ==
  /\ TopStep("publish", "schedule")
  /\ tv_head' = short_incr_tv(tv_head)
  /\ UNCHANGED <<page, tv_data, tv_tail, clock, counts, latch, raised, scheduled>>
  /\ TopUnchanged

ScheduleBottomHalf ==
  /\ TopStep("schedule", "load")
  /\ scheduled' = TRUE
  /\ UNCHANGED <<page, stamps, counts, latch, raised>>
  /\ TopUnchanged

LoadCount ==
  /\ top.pc = "load" /\ top' = [pc |-> "store", loaded |-> short_wq_count]
  /\ UNCHANGED <<page, stamps, counts, latch, raised, scheduled>>
  /\ TopUnchanged

StoreCount ==
  /\ top.pc = "store" /\ top' = [pc |-> "idle", loaded |-> 0]
  /\ short_wq_count' = top.loaded + 1
  /\ UNCHANGED <<savecount, page, stamps, latch, raised, scheduled>>
  /\ TopUnchanged

TopHalf == \/ ClearBitAndRecord \/ WakeReader \/ PublishStamp
           \/ ScheduleBottomHalf \/ LoadCount \/ StoreCount

-----------------------------------------------------------------------------
(* The bottom half short_do_tasklet.  It is taken off its queue before it  *)
(* runs, never beside itself, and interrupts come in between its steps.    *)
BhUnchanged == UNCHANGED <<handler, stage, tv_data, tv_head, clock, port, top>>

SaveCount ==
  /\ scheduled /\ bh = "idle" /\ stage \in {"loaded", "irqfree"}
  /\ scheduled' = FALSE /\ bh' = "header"
  /\ savecount' = short_wq_count
  /\ UNCHANGED <<page, tv_tail, short_wq_count, reading, last>> /\ BhUnchanged

(* an interrupt counted since the count was saved is forgotten *)
PutHeader ==
  /\ bh = "header" /\ bh' = "stamp"
  /\ short_wq_count' = 0 /\ savecount' = 0
  /\ Put(Header(savecount))
  /\ UNCHANGED <<tv_tail, scheduled, reading, last>> /\ BhUnchanged

PutStamp ==
  /\ bh = "stamp" /\ bh' = "test"
  /\ Put(tv_data[tv_tail])
  /\ last' = tv_data[tv_tail]
  /\ tv_tail' = short_incr_tv(tv_tail)
  /\ UNCHANGED <<counts, scheduled, reading>> /\ BhUnchanged

(* while (tv_tail != tv_head): the array is tested after its first entry   *)
(* was printed                                                             *)
TestStamps ==
  /\ bh = "test" /\ bh' = IF tv_tail # tv_head THEN "stamp" ELSE "wake"
  /\ UNCHANGED <<page, tv_tail, counts, scheduled, reading, last>> /\ BhUnchanged

(* variant: the wake-up at the end of the bottom half is forgotten *)
BhWakesNobody ==
  /\ bh = "wake" /\ bh' = "idle"
  /\ UNCHANGED <<page, tv_tail, counts, scheduled, reading, last>> /\ BhUnchanged

BhWakesReader ==
  /\ bh = "wake" /\ bh' = "idle" /\ queued' = FALSE
  /\ UNCHANGED <<page, tv_tail, counts, scheduled, reader, signal, last>>
  /\ BhUnchanged

BottomHalf == SaveCount \/ PutHeader \/ PutStamp \/ TestStamps \/ BhWakesReader

-----------------------------------------------------------------------------
(* short_i_read *)
ReadUnchanged == UNCHANGED <<handler, stage, stamps, counts, port, top, bh,
                             scheduled, last>>
ReadStep(from, to) == reader.pc = from /\ reader' = [reader EXCEPT !.pc = to]
Return == [pc |-> "idle", want |-> 0, got |-> <<>>]

ReadCall(n) ==
  /\ stage = "loaded" /\ reader.pc = "idle"
  /\ reader' = [pc |-> "loop", want |-> n, got |-> <<>>]
  /\ UNCHANGED <<page, queued, signal>> /\ ReadUnchanged

TestEmpty ==
  /\ ReadStep("loop", IF short_head = short_tail THEN "prepare" ELSE "copy")
  /\ UNCHANGED <<page, queued, signal>> /\ ReadUnchanged

(* variant: no second test between prepare_to_wait and schedule *)
PrepareAndSleep ==
  /\ ReadStep("prepare", "sleep") /\ queued' = TRUE
  /\ UNCHANGED <<page, signal>> /\ ReadUnchanged

PrepareToWait ==
  /\ ReadStep("prepare", "recheck") /\ queued' = TRUE
  /\ UNCHANGED <<page, signal>> /\ ReadUnchanged

Recheck ==
  /\ ReadStep("recheck", IF short_head = short_tail THEN "sleep" ELSE "finish")
  /\ UNCHANGED <<page, queued, signal>> /\ ReadUnchanged

Awaken ==
  /\ ReadStep("sleep", "finish")
  /\ ~queued \/ signal
  /\ UNCHANGED <<page, queued, signal>> /\ ReadUnchanged

FinishWait ==
  /\ reader.pc = "finish" /\ queued' = FALSE
  /\ reader' = IF signal THEN Return ELSE [reader EXCEPT !.pc = "loop"]
  /\ signal' = FALSE
  /\ UNCHANGED page /\ ReadUnchanged

(* count0 = short_head - short_tail, or up to the end of the page          *)
Readable(head, tail) == IF head < tail THEN Size - tail ELSE head - tail

CopyOut ==
  /\ reader.pc = "copy"
  /\ LET room == Readable(short_head, short_tail)
         n == IF room < reader.want THEN room ELSE reader.want
     IN reader' = [reader EXCEPT
          !.pc = "advance", !.got = SubSeq([k \in 1..Size |-> buffer[k - 1]],
                                           short_tail + 1, short_tail + n)]
  /\ UNCHANGED <<page, queued, signal>> /\ ReadUnchanged

CopyFault ==
  /\ reader.pc = "copy" /\ reader' = Return
  /\ UNCHANGED <<page, queued, signal>> /\ ReadUnchanged

(* variant: the tail moves by what was asked for, not by what was there *)
AdvanceTailWanted ==
  /\ reader.pc = "advance" /\ reader' = Return
  /\ short_tail' = short_incr_bp(short_tail, reader.want)
  /\ unread' = IF overrun THEN <<>> ELSE SubSeq(unread, Len(reader.got) + 1, Len(unread))
  /\ UNCHANGED <<buffer, short_head, overrun, queued, signal>> /\ ReadUnchanged

AdvanceTail ==
  /\ reader.pc = "advance" /\ reader' = Return
  /\ short_tail' = short_incr_bp(short_tail, Len(reader.got))
  /\ unread' = IF overrun THEN <<>> ELSE SubSeq(unread, Len(reader.got) + 1, Len(unread))
  /\ UNCHANGED <<buffer, short_head, overrun, queued, signal>> /\ ReadUnchanged

Signal ==
  /\ reader.pc \in {"prepare", "recheck", "sleep"} /\ ~signal /\ signal' = TRUE
  /\ UNCHANGED <<page, reader, queued>> /\ ReadUnchanged

ReadOn == TestEmpty \/ PrepareToWait \/ Recheck \/ Awaken \/ FinishWait \/ CopyOut
          \/ CopyFault \/ AdvanceTail

-----------------------------------------------------------------------------
(* short_cleanup, which nobody calls while a node is open: free_irq waits  *)
(* for the handler, then the bottom half is waited for, then the page goes *)
CleanupUnchanged == UNCHANGED <<handler, page, stamps, counts, port, top, bh,
                                scheduled, reading, last>>

FreeIrq ==
  /\ stage = "loaded" /\ left = 0 /\ reader.pc = "idle" /\ top.pc = "idle"
  /\ stage' = "irqfree" /\ CleanupUnchanged

(* variant: the bottom half is not waited for *)
WaitForNobody == stage = "irqfree" /\ stage' = "flushed" /\ CleanupUnchanged

(* tasklet_disable waits for a running tasklet and leaves a queued one on  *)
(* its list; flush_scheduled_work waits for queued work as well            *)
WaitForBottomHalf ==
  /\ stage = "irqfree" /\ bh = "idle"
  /\ stage' \in {"disabled"} \union (IF scheduled THEN {} ELSE {"flushed"})
  /\ CleanupUnchanged

FreePage ==
  /\ stage \in {"disabled", "flushed"} /\ stage' = "unloaded" /\ CleanupUnchanged

Next ==
  \/ \E n \in 1..MaxCount : WriteInterruptNode(n)
  \/ WriteNextByte
  \/ \E minor \in Minors : do_short_write(minor)
  \/ short_interrupt \/ short_sh_interrupt \/ StampTime \/ TopHalf
  \/ BottomHalf
  \/ \E n \in ReadCounts : ReadCall(n)
  \/ ReadOn \/ Signal
  \/ FreeIrq \/ WaitForBottomHalf \/ FreePage

Spec == Init /\ [][Next]_vars

(* An entered handler finishes, a queued bottom half is run, and a reader  *)
(* that may run runs.  Nobody has to write, to read or to unload.          *)
FairSpec == Spec /\ WF_vars(TopHalf) /\ WF_vars(BottomHalf) /\ WF_vars(ReadOn)

-----------------------------------------------------------------------------
TypeInvariant ==
  /\ handler \in Handlers /\ stage \in {"loaded", "irqfree", "disabled", "flushed", "unloaded"}
  /\ buffer \in [Slots -> Int] /\ short_head \in Slots /\ short_tail \in Slots
  /\ tv_data \in [0 .. NR_TIMEVAL - 1 -> 0..MaxIrq[handler]]
  /\ tv_head \in DOMAIN tv_data /\ tv_tail \in DOMAIN tv_data
  /\ {short_wq_count, savecount} \subseteq 0..MaxIrq[handler] /\ clock \in 0..MaxIrq[handler]
  /\ latch \in BOOLEAN /\ raised \in BOOLEAN
  /\ top \in [pc : {"idle", "clear", "wake", "publish", "schedule", "load", "store"},
              loaded : 0..MaxIrq[handler]]
  /\ bh \in {"idle", "header", "stamp", "test", "wake"} /\ scheduled \in BOOLEAN
  /\ reader.pc \in {"idle", "loop", "prepare", "recheck", "sleep", "finish", "copy", "advance"}
  /\ reader.want \in 0..Size /\ reader.got \in Seq(Int)
  /\ queued \in BOOLEAN /\ signal \in BOOLEAN /\ left \in 0..MaxCount /\ odd \in {0, 1}
  /\ unread \in Seq(Int) /\ overrun \in BOOLEAN /\ last \in 0..MaxIrq[handler]

(* Lines 96-101, 291-303: as long as the handlers did not run over unread  *)
(* records, the two indices delimit exactly the records not read yet, in   *)
(* their order, and a read has copied the oldest of them, although both    *)
(* ends move without a lock and the page wraps around under the reader.    *)
ReadsInOrder ==
  ~overrun =>
    /\ LET n == (short_head - short_tail) % Size
       IN unread = [k \in 1..n |-> buffer[(short_tail + k - 1) % Size]]
    /\ reader.got = SubSeq(unread, 1, Len(reader.got))

(* Lines 286-289 against 345, 409, 461: a reader asleep while there are    *)
(* records is one that a handler or a bottom half past its record is about *)
(* to wake, so the test without a lock loses no wake-up.                   *)
ReaderWoken ==
  reader.pc = "sleep" /\ queued /\ short_head # short_tail =>
    top.pc = "wake" \/ bh # "idle"

(* Lines 671-688: once short_cleanup has gone past its wait, no handler    *)
(* and no bottom half uses the page or the array any more, and no work is  *)
(* queued (a tasklet may be, disabled).                                    *)
NothingRunsAfterCleanup ==
  /\ stage \in {"disabled", "flushed", "unloaded"} => top.pc = "idle" /\ bh = "idle"
  /\ stage = "flushed" => ~scheduled

(* Lines 286-303: a reader that waits while records are there gets out of  *)
(* its wait, unless an overrun makes the page look empty again.            *)
WaitsEnd ==
  reader.pc = "sleep" /\ short_head # short_tail ~>
    reader.pc # "sleep" \/ short_head = short_tail

(* Lines 352-353, 387-388: "The following two functions are equivalent to  *)
(* the previous one, but split in top and bottom half", and the node       *)
(* "returns ascii strings telling when interrupts have been received": a   *)
(* bottom half prints the stamps one by one, each once.                    *)
EachInterruptOnce == [][PutStamp => last' = last + 1]_vars
=============================================================================
