# Linux_Scull: a TLA+ model of the drivers

The repository is a collection of small Linux drivers, one directory per
chapter of a course: character devices (`scull` and its variants), sleeping and
waking, interrupts, timers, slab memory, USB. Each is a loadable module whose
functions the kernel calls on behalf of many processes at once. What is hard in
them is that interleaving: semaphores released and taken again around a sleep,
conditions tested without a lock, allocations and copies that fail halfway,
signals that end a wait, opens and releases that race.

This directory holds TLA+ modules for those parts, the configurations that
model-check them with TLC, and proofs for most of them that the TLA+ proof
system checks.

## 1. Inventory

| part | source | state | operations | called by / calls |
|---|---|---|---|---|
| **scullpipe** | `higher_scull/high_scull/pipe.c` | ring buffer with `rp`, `wp`; counts of readers and writers; `sem`; wait queues `inq`, `outq`; `async_queue` | open, release, read, write, poll, fasync, /proc read | processes; wakes and signals other processes |
| **scull** | `simple_basic/code/main.c`; again in `test_kernel/code/main.c` and `higher_scull/high_scull/main.c` | list of `scull_qset`, arrays of quanta, `size`, `sem`; `f_pos` per file | open (trims for `O_WRONLY`), read, write, release; llseek and ioctl are stubs | processes; `scull_read`, `scull_write`, `scull_trim` are shared with access.c |
| **scullsingle, sculluid, scullwuid** | `access.c` 45-207 | an atomic counter; a count and an owner under a spinlock; a wait queue; a bare `scull_dev` behind each | open, release; the rest is scull's | processes |
| **scullpriv** | `access.c` 215-305 | list of devices by terminal, under a spinlock | open, release | processes |
| **sleepy** | `higher_scull/code/sleepy.c` | `flag`, wait queue | read, write | processes |
| **complete** | `concur/code/complete.c` | a `struct completion` | read, write | processes |
| module lifecycle, /proc | `scull_init_module`, `scull_cleanup_module`, `scull_p_init`, `scull_access_init`, `scull_read_procmem`, seq_file of `test_kernel` | registered device numbers, cdevs, /proc entries | init, cleanup, /proc read | insmod, rmmod |
| **short** | `IO_port/copy/short.c` (two older copies) | page-sized ring `short_head`, `short_tail`; ring of time stamps `tv_head`, `tv_tail`; `short_wq_count`; `short_irq` | interrupt handlers, tasklet, work, interrupt probing, i_read, i_write, port read and write, init, cleanup | hardware, processes |
| **usb-skeleton** | `USB_driver/code/usb/usb-skeleton.c` | `kref`, `bulk_in_buffer`, urbs | probe, disconnect, open, release, read, write, completion callback | USB core, processes |
| **scullc** | `alloc_mem/code/scullslab/` | as scull, plus `vmas`, a slab cache, deferred AIO | as scull, ioctl, llseek, mmap, AIO, init, cleanup | processes, work queue |
| timer, tasklet, work queue | `timer_s/code/timer`, `interrupt/code` | one timer, tasklet or work item | arm, run, module exit | interrupts |
| delays | `timer_s/code/curranddely/main.c` | none | five /proc readers that delay | processes |
| PCI skeleton, data types, hello, `short.mod.c` | `PCI_driver`, `kernel_DS`, `concur/code/hello.c` | none | print | insmod |

What makes each correct, and what is hard about it:

- **scullpipe.** `sem` is taken and given back exactly once on every path,
  including the one where `scull_getwritespace` gives back what its caller
  took. The pointers stay in the buffer; the bytes come out in the order they
  went in. A writer tests for space without the semaphore (line 158), a reader
  for data (line 120), and no wake-up may be lost for it. The last release
  frees the buffer. Every open resets the pointers (line 69), under whoever is
  asleep.
- **scull.** After any sequence of failed allocations and half-done copies the
  list of quanta still represents one file. Reading allocates nothing, though
  it calls the function that allocates.
- **Restricted opens.** The counts are exact and the exclusion holds through
  the transient decrements of failing opens and through conditions tested
  without the lock; a waiter is not forgotten. `scull_trim` is called without
  `sem`.
- **sleepy, complete.** No wake-up is lost; who is released by a write.
- **scullpriv.** Files of one terminal share a device and no others do, although
  the opener that adds one may sleep in `kmalloc` under the spinlock.
- **short.** The page and the array of time stamps have no lock: handlers, a
  bottom half and readers move their indices beside each other. What was not
  overrun is read in order, no reader misses its wake-up, nothing of it runs when
  `short_cleanup` frees the page, and the handlers installed while probing are
  accounted for.
- **USB.** The last close, an open and a disconnect race for the last reference;
  the lock against it is commented out.
- **scullc.** As scull; its quanta come from a cache that leaves old bytes in them.
- **Modules.** A load that is refused anywhere gives back what it has; a device that
  answers during the load is there.

`PROJECT.json` lists these at their lines under "hazards", each with the
properties that cover it or the reason none does.

## 2. Modules

| module | models | abstract specification | instance for TLC |
|---|---|---|---|
| `ScullPipe` | pipe.c | `PipeFifo`, a bounded queue of bytes | `MCScullPipe` |
| `ScullPipeProofs` | theorems about `ScullPipe` | | |
| `Scull` | simple_basic/code/main.c | `ScullFile`, a file with holes | `MCScull` |
| `ScullAccess` | access.c 49-207 | | `MCScullAccess` |
| `ScullAccessProofs` | theorems about `ScullAccess` | | |
| `Short` | short.c: handlers, bottom half, reads, writes, cleanup | | `MCShort` |
| `ShortProbe` | short.c: probing, and the exchange of handlers | | by `Devices` |
| `Sleepy` | sleepy.c | | itself, and by `Devices` |
| `Completion` | complete.c | | itself, and by `Devices` |
| `UsbSkel` | usb-skeleton.c | | by `Devices` |
| `ScullPriv` | access.c 215-305 | | `MCScullPriv`, and by `Devices` |
| `Scullc` | scullslab/main.c | | by `Devices` |
| `Deferred` | irq_qu.c, tasklet.c, workqueue_my.c, simple_timer.c | | by `Devices` |
| `Lifecycle` | init and cleanup functions of eleven modules | | by `Devices` |
| `Devices` | the eight modules before it, side by side | | `MCDevices` |
| `DevicesProofs` | theorems about `Devices` and its parts | | |
| `ScullProofs`, `ShortProofs`, `UsbSkelProofs`, `ScullPrivProofs`, `SleepyProofs` | theorems about the module each is named after | | |

**Devices** puts the devices that share no state side by side: `Init` chooses
one, and its variables are `a1, a2, ...` from then on, in the order of their
declaration. `Scullc` and `Scull` are two drivers and not one, so nothing is
lost. `ParametersAssumption` is what its parts ask of their constants (finitely
many processes for complete and USB; null pointers and "nobody" that are none of
the things they stand apart from; sizes that are not 0); TLC evaluates it in the
run `devices`, and the theorems of `DevicesProofs` need nothing else.

**Steps.** In each module `pc` says where a process is in its system call, and
an action is what it does from one place to the next. Code that runs with a lock
held is one step as far as nobody who works without the lock can tell. In
`ScullPipe` that is not all of it: the pointers are read without the semaphore,
so advancing a pointer and wrapping it are two steps (`ReadCopy`, `ReadWrap`),
and the two unlocked readers sample `rp` and `wp` in two steps (`Sample`, then
`ReadCheck` or `WriteCheck`). In `Scull` and `ScullAccess` the bodies under
`sem` and under the spinlocks are one step each; `scull_w_available`, called
without the lock, is two.

In `Short` every access to an index or a variable that another context works on
without a lock is a step: stamp, wake-up, advance of the head and scheduling in a
handler; load and store of `short_wq_count` by the handler, its load and its reset
by the bottom half (`SaveCount`, `PutHeader`), so that counts may be lost between
them; the test of the array in the bottom half; the test, the preparation, the
second test, the copy and the advance of the tail in a reader. A line interrupts
once at a time. `ShortProbe` splits the increments and tests of `short_irq` in
`short_probing` in the same way, on each line. `ScullPriv` counts processors: a
process inside the open occupies one, also while it spins, and gives it up only in
`kmalloc`. `UsbSkel` has a step for each use of the struct between the places
where the minor's semaphore, the kref or the hub can interfere. `Scullc` names the
places inside a write where an allocation may fail or the process may die.
`Lifecycle` holds a table: the resources each init function acquires and each
cleanup function lets go, in their order, and what is done on a refusal.

**The kernel** is modelled from how the drivers use it. `down` takes a free
semaphore; `down_interruptible` also ends when a signal is pending. A task that
prepares to wait is on the queue before the condition is tested; a wake-up empties
the queue; a task off its queue is runnable. `poll()` calls the driver again
when it is woken. `kmalloc`, `copy_to_user` and `copy_from_user` may fail
whenever they are called; `copy_from_user` may have copied a proper prefix; the
memory `kmalloc` returns holds `Junk`. `complete()` counts one unit and wakes
the first waiter that sleeps; a reader that arrives meanwhile may take the unit.
`free_irq` waits for a running handler, `tasklet_disable` for a running tasklet
(one that is scheduled stays on its list), `flush_scheduled_work` for queued work
too. `request_irq` succeeds or fails: kernels that ask for a `dev_id` with a shared
line refuse the `NULL` the repository passes, which is one of the two. The USB
core holds its minor semaphore for reading around an open and for writing
around the registration, and never runs probe and disconnect at once.

**Variables for the reader only** are marked "history": `xfer` and `io` (the
transfer a call makes, which the abstract specifications speak about), `orphans`
(who was on `outq` when an open reset the pipe), `writes`, `reads`, `called`;
in `Short` `unread` (the records in the page, oldest first), `overrun` (a handler
has run over some of them) and `last` (the latest stamp printed).

**Left out.** Byte and pointer arithmetic below the level of offsets; the
messages; `f_pos` of the pipe, which is not seekable; in `Short` the NUL `sprintf`
adds to each record (section 4) and reads that end inside a record; calls of
`Scullc` for 0 bytes; that some kernels' `copy_from_user` fill with zeros what
they could not copy. `scull_open` read-only is a part of what read-write does and
has no mode of its own. `ScullAccess` does not model the content behind the
devices, which is `Scull`'s. Position overflow is not reached: `Scull` bounds the
positions by `Items`, `Scullc` by `MaxPos`. In `PROJECT.json`, actions that stand
for kernel code are marked external.

Definitions introduced by a comment "variant:" are the bugs the properties were
tried against (section 6); no specification uses them.

## 3. Runs

| run | question | bounds | states | result |
|---|---|---|---|---|
| `pipe` | semaphore, openings, buffer, wake-ups; are the bytes a queue? | 2 processes, buffer of 3, 2 byte values and junk, calls for 0, 1 and 3 bytes, signals, blocking and not; symmetry in processes and byte values | 1,548,000 | holds |
| `pipe_live` | is everyone served? | 2 processes that block, buffer of 2 | 85,000 | holds |
| `pipe_reopen` | is freed space always announced? | as above | | **violated** |
| `devices` | the devices of `Devices`, eleven properties | 3 processes (2 on scullc); 4 writes to complete; 2 USB structs, 1 urb; 2 terminals, 3 list items, 2 processors; positions 0 to 3 of scullc; 2 open files in `Lifecycle`; 3 lines in `ShortProbe` | 105,700 | holds |
| `short` | order, wake-ups, cleanup of the interrupt page | a page of 3 records, an array of 2 stamps, the three handlers, reads of 1 and 3, one byte a write; interrupts as in `MCMaxIrq` | 406,000 | holds |
| `short_bh` | does a bottom half print every interrupt once? | 3 stamps | | **violated** |
| `priv_sleep` | does the holder of scullpriv's spinlock run on? | 3 processes, 2 processors | | **violated** |
| `sleepy_all` | does a write release all readers of sleepy? | 3 processes | | **violated** |
| `completion_all` | does a write release all readers of complete? | 3 processes, 2 writes | | **violated** |
| `access` | counts, owners, exclusion, wake-ups | 4 processes: two users, one su, one root | 45,000 | holds |
| `access_trim` | does a trim run alone? | 2 processes of one user | | **violated** |
| `scull` | does the list of quanta act as a file? | 2 processes, 3 items of one quantum of 2 bytes, 2 byte values and junk, calls for 0 and 3 bytes, pread and pwrite at 3 and 5 | 580,000 | holds |

Why the bounds are enough for the questions asked. A pipe of 3 bytes holds 2, so
it has all of: empty, full, partly full, contiguous and wrapped, and a transfer
cut by the end of the buffer; a call for 3 is always cut. Two processes give every
pair of a sleeper and its waker, or of two competitors; the theorems of section 5
remove this bound for the safety properties of `pipe`. Two byte values and junk
tell reordering, loss and uninitialised memory apart. In `devices` two readers
compete for what one writer gives, on sleepy and complete. In `access` there are
two of one user, one of another, one with the effective uid of the first and one
root, which is every way `scull_w_available` can be true. In `scull` positions 3
and 5 are in the middle of the second and the third quantum: writes there make
holes before them and leave the first byte of their own quantum as `kmalloc` gave
it. Two byte values and junk tell old bytes, new ones and uncleared memory apart;
they cost states, so that a set has one quantum here, a bound which the theorem
`FileRefined` removes. In `short` the page of 3 wraps after two records left
unread and is overrun by the next, and a read of 3 is cut by the end of the page.
Of the USB structs one can be open and pulled out while the other is plugged in.
Of the openers of scullpriv two share a terminal and a third has its own, with one
processor fewer than openers. In `devices` scullc has one quantum to an item, so
its four positions are in two items; `ShortProbe` has the wired line and two of
other devices that interrupt when they like, so that none, one or several are
found.

`CHECK_DEADLOCK FALSE` is given where processes may rightly all sleep for good
(two blocking readers of a pipe, all writes of the bound used up, a process dead
in scullc, a module unloaded). In `pipe`, `access` and `scull` deadlock is
checked.

In `pipe` signals are on, so a process that sleeps can always move; that
nobody sleeps wrongly is what `ReadersWoken` and `WritersWoken` say, in every
state, and `pipe_live` checks without signals.

### Fairness

`FairSpec` of `ScullPipe`: weak fairness of `Step(p)`, the steps of a process
inside the driver that do not wait for `sem`, because the scheduler runs a
runnable process; strong fairness of `Down(p)`, because the kernel's semaphore
is handed to its waiters in order. Nothing is assumed of users: nobody has to
call read or write. `ScullAccess`, `Sleepy` and `Completion` have weak fairness
of the steps of a process that is in the driver, and no more. `Short` has weak
fairness of the handler that was entered, of the bottom half that is queued or
runs, and of a reader that may run: the kernel finishes handlers, runs tasklets
and work, and schedules tasks. No interrupt has to arrive. `ScullPriv` has weak
fairness of each process that is inside its open, for `priv_sleep` alone; the
process that sleeps in `kmalloc` still needs a free processor.

### What the properties say

- `SemaphoreExact`, `OpeningsCounted`, `NoUseAfterFree`: bookkeeping that every
  error path of pipe.c must keep.
- `ReadersWoken`, `WritersWoken`: if someone sleeps on a condition that holds,
  someone else is between the change and the wake-up. Those who were on `outq`
  when an open reset the buffer are excepted (see findings).
- `ImplementsFifo`: `ScullPipe` implements `PipeFifo` with the queue mapped to
  the bytes from `rp` to `wp`. `DroppedOnlyByOpenOrLastRelease` says which
  steps may empty it otherwise than by reading.
- `ImplementsFile`: `Scull` implements `ScullFile`, in which a position holds
  something exactly when its quantum is there: the byte last written to it since
  the truncation, or `Junk` where nothing was. A read delivers exactly that,
  and writes and failed copies change nothing else. So a stale byte can come out
  only where a quantum was allocated and the position not written. `StoreSound` and
  `ReadsDontAllocate` are about the list itself: it reaches the last byte of the
  file, also after a write of 0 bytes beyond its end has made it longer.
- `CountExact`, `OneOpener`, `OwnersOnly`, `SingleTrimAlone`, `NoLostWakeup`,
  `OpensWhenFree` for the restricted opens.
- `UnitsConserved`, `NoLostCompletion`, `UnitsTaken` for complete; `NoLostWakeup`,
  `ReaderReleased` for sleepy: while `flag` is set and readers wait, at least one
  of them gets out, perhaps one that a signal interrupted.
- `ReadsInOrder`: until an overrun the two indices of short's page delimit exactly
  the records not read, in order. `ReaderWoken` and `WaitsEnd` are about its
  unlocked wait, `NothingRunsAfterCleanup` about lines 671-688.
- `NoUseAfterFree` of `UsbSkel`: references are exact, and whoever uses a struct
  finds it alive. `OneDevicePerTerminal` of `ScullPriv`. `NoStaleBytes` of
  `Scullc`: no read hands out what the cache left in a quantum.
- `NothingLeft`, `OpenFindsDevice` of `Lifecycle`, with the modules whose code
  does otherwise excepted by name; `HandlerAccounted` of `ShortProbe`: the probing
  handlers are gone after the probe and the handler installed is the one
  `short_irq` names, be it line 0.
- Of `Deferred` only the types are checked. That no handler runs in a module that
  is gone is the kernel's promise (`free_irq` waits), and the tasklet, the work item
  and the timer may run after the exit: the model has those steps, and no document
  of the repository promises otherwise.

## 4. Findings

1. **A reopened pipe forgets its sleeping writers** (`pipe_reopen`). The buffer is
   full and a writer sleeps; another process opens the device; line 69 resets
   `rp` and `wp`, so all the space is free and the unread bytes are gone, but
   `outq` is not woken. The writer sleeps until some reader has read something
   new. The rule in higher_scull/README.md:37-38 asks for a wake-up after such a
   change.
2. **sleepy releases one reader per write** (`sleepy_all`). The first reader that
   runs after the wake-up clears `flag` (sleepy.c:22); the others test it again
   and sleep on. higher_scull/README.md:56 says a write wakes all of them.
3. **complete releases one reader per write** (`completion_all`).
   concur/README.md:230 says a write wakes all of them.
4. **sculluid and scullwuid trim without the semaphore** (`access_trim`), beside
   a read, write or trim by another process of the same user; the bare device,
   from which the code says it is copied, takes it. On scullsingle the same line
   is harmless (`SingleTrimAlone`).
5. **short's bottom half prints some interrupts twice and invents others**
   (`short_bh`). Line 407 tests the array only after an entry was printed. An
   interrupt that falls into a running bottom half schedules another; the
   running one prints the new stamp, the next finds the array empty and prints
   a stale entry, and `tv_tail` has overtaken `tv_head`. Lines 352-353 call the
   split handler equivalent to the one before it. The record itself reaches the
   reader in order (`ReadsInOrder`); it is its content that is wrong.
6. **scullpriv sleeps under its spinlock** (`priv_sleep`), which
   higher_scull/README.md:7 forbids. When every other processor spins for the
   lock the sleeper has none to run on. With any number of processors the list
   itself stays right (`OneDevicePerTerminal`).

Seen in passing, without a run: `scull_s_open` may return -EBUSY ("already open")
when it meets only another failing open; `sleepy_read` clears the flag also when a
signal ended its wait; the bare device (main.c:254 of simple_basic, and its two
copies) never clears a quantum, so that a read below the size may deliver what
`kmalloc` returned, after a write into the middle of a quantum or one that failed
halfway before a later one, where scullc clears it (scullslab/main.c:232); pipe
readers get no end of file when the last writer closes; a write to scullc before
its cache exists dies and keeps the semaphore; an asynchronous request of scullc
that was put off is never completed, because the work function takes the work for
the request; short takes the line number 0 of a probe that saw nothing for a
success; the NUL that `sprintf` adds to the 16 bytes of a record (short.c:344,
393, 402, 459) lands behind the page at its last record; an interrupt between
lines 384 and 385 of short.c goes uncounted; curranddely registers a device number
it has not initialised; both probes of short try six times where the comments say
at most five; `del_timer` of simple_timer.c may return beside a running timer
function that arms the timer again (timer_s/README.md:158-160 names
`del_timer_sync` for that); the tasklet of tasklet.c may run after the exit;
`do_short_write` loses its kernel buffer when the copy fails (208-209).

## 5. Proofs

`ScullPipeProofs` proves, for any finite set of processes, any buffer size of at
least 1, any bytes, counts, open modes, and with or without signals:

| theorem | property |
|---|---|
| `TypeCorrect` | `TypeInvariant` |
| `SemaphoreCorrect` | `SemaphoreExact` |
| `PointersCorrect` | `PointersWrapped` |
| `OpeningsCorrect` | `OpeningsCounted` |
| `NoUseAfterFreeCorrect` | `NoUseAfterFree` |
| `ReadersWokenCorrect` | `ReadersWoken` |
| `WritersWokenCorrect` | `WritersWoken` |
| `FifoRefined` | `ImplementsFifo` |
| `DropsCorrect` | `DroppedOnlyByOpenOrLastRelease` |

The assumptions are those `ScullPipe` states on its constants.

The argument has two layers. `Core` is the type invariant with `SemaphoreExact`,
`PointersWrapped`, `FileOpen` (a process has a file open exactly outside the
locations of `NoFile`) and `OpeningsCounted`. No part is inductive alone: the
pointers stay in range only because whoever holds the semaphore sees them
wrapped, which needs that there is one holder; `nreaders` stays a natural
number only because it equals a cardinality, which needs `FileOpen`. Steps that
touch neither the pointers nor the counts go through `QuietStep`; the four that do
(`ReadCopy`, `WriteCopy`, `OpenReset`, `ReleaseFile`) have a lemma each.

`Inv` adds `ReadersAsleep` and `WritersAsleep`: for each task on a queue, either
a wake-up is under way, or what the task sampled without the semaphore is still
true and, if it sleeps, it sleeps rightly. The woken properties say nothing of a
task between the test and `schedule`, and so are not inductive. For writers the
sampled `rp` must still be `rp`; an open that resets it puts the task in
`orphans`, which is why those are excepted and where finding 1 shows in the proof.

`FifoRefined` maps the bytes from `rp` to `wp`, around the end of the buffer, to the
queue of `PipeFifo`, and each step to one of its steps or a stutter. `QueueGrows`
and `QueueShrinks` are about that map alone: bytes stored from `wp` on are
appended, and an `rp` moved on drops as many from the front, with the pointer
wrapped or not yet. `WriteCopyRefines` and `ReadCopyRefines` cite them, and
`WritableAmount` for the number of bytes: at least one if one was asked for, and
no more than fit. `WriteFaultRefines` shows that bytes half copied are outside
the queue, and the steps that wrap a pointer leave it as it is. The refinement needs
one invariant more, `NothingUnderWay`: a transfer is reported only between the
advance of a pointer and its wrap, so the next caller starts with none.
`DropsCorrect` comes from the same lemmas: only `OpenReset` and `ReleaseFile` empty
the queue without a transfer.

`Inv` was checked with TLC on an instance of two processes before it was proved.

`ScullAccessProofs` proves, for any finite set of processes, any users and user
ids, with or without `O_NONBLOCK` and signals:

| theorem | property |
|---|---|
| `TypeCorrect` | `TypeInvariant` |
| `CountsExact` | `CountExact` |
| `AtMostOneOpener` | `OneOpener` |
| `InsideAreOwners` | `OwnersOnly` |
| `WakeupsNotLost` | `NoLostWakeup` |
| `SingleTrimsAlone` | `SingleTrimAlone` |

Its assumptions are `ProcsAssumption` (the processes are finitely many, so that
they can be counted) and `UsersAssumption`; `FlagsAssumption` is not needed.
`InvInvariant` states the inductive invariant. `Core` is the type invariant with
`CountExact`, `OwnPlaces` (which device a place belongs to) and `SemaphoreExact`
(only a process in a read or write holds `sem`): `count` stays a natural number
only because it is a cardinality. A step of one process changes the cardinality
as `CountMoved` says. `OneOpener` and `OwnersOnly` then follow because the
counter tells when nobody is inside. `WaitersAsleep` strengthens `NoLostWakeup`:
a task between the test of the count and that of the owner (`check2`) has no
wake-up to miss, since the count is not 0 unless one is under way. `Inv` was
checked with TLC on the instance of `access` before it was proved.

`ScullProofs` proves, for any set of processes, any bytes, counts and offsets, and
any sizes of quanta, quantum sets and lists:

| theorem | property |
|---|---|
| `TypeCorrect` | `TypeInvariant` |
| `SemaphoreCorrect` | `SemaphoreExact` |
| `StoreCorrect` | `StoreSound` |
| `ReadsCorrect` | `ReadsDontAllocate` |
| `FileRefined` | `ImplementsFile` |

The invariant is the type invariant with `SemaphoreExact` and `StoreSound`, split
into `Places`, `Positions` and `Stored`; `InvIs` says so. `ReadsCorrect` needs
`StoreSound`: a read stops at `size`, and the list reaches the last byte of the
file, so `scull_follow` has nothing to add. The proof rests on lemmas about
positions (`DivisionSound`, `DivisionUnique`, `Position`, `PositionBounds`):
dividing first by the size of an item and then by that of a quantum, as the code
does, finds the quantum that one division by `Quantum` finds. `FileRefined` maps
each step to a step or a stutter of `ScullFile`, whose blocks are the quanta
(`BlockIsQuantum`). Allocations of list items and of arrays are stutters; one of a
quantum belongs to the write that stores into it, or to the failed write whose
copy stored less or nothing, and gives its block storage (`StoreOverwrites`). A
read that finds no quantum delivers nothing (`NothingRead`), another one a stretch
inside one block (`Stretch`); `scull_trim` is the truncation. It also needs
`NothingReported`: with the semaphore down no transfer has been reported yet, so
that the one the abstract step speaks about is that of the step itself.

`ShortProofs` proves, for any size of the page and of the array of stamps, any
counts of reads and bounds of interrupts, and each of the handlers:

| theorem | property |
|---|---|
| `TypeCorrect` | `TypeInvariant` |
| `OrderCorrect` | `ReadsInOrder` |
| `WakeCorrect` | `ReaderWoken` |
| `CleanupCorrect` | `NothingRunsAfterCleanup` |

under `SizesAssumption`. The invariant has a part for each thing the handlers and
readers share. `Halves`: an interrupt that was accepted has its stamp, and the
count of the bottom half is behind the clock until it is stored. `Stages`: what
the cleanup has waited for at each stage. `Page`, of `PageTypes` and `Ordered`:
the k-th record not read is at the k-th place from the tail, around the end, and
what the reader has copied is the first of them; the reader never crosses the
end of the page, so its tail needs wrapping only when it is at the end. `Woken`:
`ReaderWoken`, which is inductive as it stands because a handler moves the head
and a reader tests it in one step. `Ordered` is stated without a remainder,
so that the provers need arithmetic on one wrap only; `OrderIs` carries it over to
`ReadsInOrder`.

Three smaller modules are each about one module of its own, for all its constants:

| module | theorem | property | assumes |
|---|---|---|---|
| `UsbSkelProofs` | `TypeCorrect`, `UseCorrect` | `TypeInvariant`, `NoUseAfterFree` | `Parameters` |
| `ScullPrivProofs` | `TypeCorrect`, `DevicesCorrect` | `TypeInvariant`, `OneDevicePerTerminal` | `Parameters` |
| `SleepyProofs` | `TypeCorrect`, `WakeupsNotLost` | `TypeInvariant`, `NoLostWakeup` | nothing |

`UsbSkelProofs` shows that the count of references is the number of files open
plus the binding (`KrefExact`), which stays exact because the minor leads to
a struct only while it is bound (`HubSound`, `OpensSound`): an open that has
found the interface holds up the disconnect, so the commented-out lock is not
missed. `ScullPrivProofs` shows that whoever has searched the list in vain
still finds nothing when it adds its item (`SearchHolds`), asleep or not,
because the lock is held from one to the other (`LockExact`). `SleepyProofs`
needs no strengthening: who goes to sleep has seen `flag` clear in that step.

`DevicesProofs` carries these over to `Devices`, by showing that the two instances
of each module have the same definitions (`UsbSame`, `PrivSame`, `SleepySame`),
proves the other five devices, and puts the eight together. Under
`ParametersAssumption`:

| theorem | property of `devices` |
|---|---|
| `TypeCorrect` | `TypeInvariant` |
| `WakeupsNotLost` | `NoLostWakeup`, of sleepy and complete |
| `UnitsCorrect` | `UnitsConserved` |
| `UseCorrect` | `NoUseAfterFree` |
| `DevicesCorrect` | `OneDevicePerTerminal` |
| `BytesCorrect` | `NoStaleBytes` |
| `CleanupCorrect` | `NothingLeft` |
| `OpensCorrect` | `OpenFindsDevice` |
| `HandlersCorrect` | `HandlerAccounted` |

All follow from `Invariance`: the device that was chosen keeps the `Inv` its module
states, and a step is one of that device or none (`ChosenSteps`). What each `Inv`
adds to the properties:

- `Completion`: nobody is in the queue twice (`NoDuplicates`), so a reader that
  leaves takes its only entry along. While someone sleeps, every unit has a woken
  reader on its way: the first sleeper of the queue is woken with each unit, and a
  newcomer that overtakes it takes a unit away from it, not a wake-up. The bound
  on the writes plays no part.
- `Scullc`: who is inside a call holds the semaphore, also when it has died there
  (`SemExact`), so that each step finds the array and the quantum which the steps
  before it made (`StepsSound`), and every quantum was cleared before it was
  hung in (`QuantaClean`).
- `Lifecycle`: what is left to do is the end of the row of the table, what is held
  comes from the part before (`LoadSound`), and while a module lets go what it holds
  is still to be let go or among the exceptions (`ReleaseSound`). The table itself
  enters by one lemma, `RowsSound`, which goes through its twelve rows (short has
  two): an unload lets go of all a load acquires, up to the exceptions; each refusal
  undoes what came before it, at a time when no device number answers; and the
  array of devices is made before the numbers answer. That is what a new
  driver would have to meet. The row of scullc, whose cache may be refused after
  its numbers answer, does not, and is excepted.
- `ShortProbe`: probing handlers are installed only during a probe
  (`ProbingInTime`), and the one handler is that of `short_irq`
  (`InstalledExact`).

`Deferred` contributes its types. Each `Inv` was checked with TLC on the instance
of `devices` before it was proved.

Every safety property that a passing run checks is stated by a theorem. Only
model-checked is all liveness (`SemaphoreServed`, `ReadersServed`, `WritersServed`,
`OpensWhenFree`, `WaitsEnd`, `ReaderReleased`, `UnitsTaken`), since TLAPS does not
handle `ENABLED` and fairness here. What needs induction over data, such as what a
long run of the ring delivers in total, has no theorem of its own; the
refinement says it step by step.

## 6. How the properties were tried

Each property of each passing run was checked against a variant of the code that
breaks it: a wake-up of the wrong queue (`WriteWakeOutq`, `ReadWakeInq`), a
semaphore kept on an error path (`ReadFaultLeak`, `WriteNoQuantumLeak`), a full
ring taken for empty (`spacefreeWhole`), a transfer across the end
(`WritableAcross`), a buffer freed early (`ReleaseFileFrees`), a count or owner
wrong (`ReleaseTwice`, `SUndoReset`, `GrabAlways`), a wake-up forgotten
(`ReleaseSilent`, `WakeNobody`, `WriteSilent`), a write that is lost
(`WriteIfAwaited`), a size not reset (`scull_trimKeepsSize`), a quantum allocated
again (`AllocatedAfresh`), a transfer not cut (`FitsAll`), a flag cleared wrongly
(`ClearOne`), an index run past its end (`incr_bp_past`), a tail advanced by what
was asked for (`AdvanceTailWanted`), a condition not tested again
(`PrepareAndSleep`), a page freed without waiting (`WaitForNobody`), an open
without a reference (`OpenWithoutGet`), a lock let go for a sleep
(`SleepUnlocked`), a quantum not cleared (`WriteQuantumDirty`), a load that
returns without undoing (`OnRefusalReturns`), numbers that answer too early
(`basic_init_early`), a probing handler left behind (`FreeFound`). PROJECT.json
pairs them under "mutants".

## 7. Not modelled, and what is left

- **scullc's ioctl and mmap.** Neither `scullc_ioctl` nor `scullc_mmap` is in
  `scullc_fops`; no call reaches them, and so `vmas` stays 0 and the sizes stay what
  they were at the load.
- **access.c's own init and cleanup.** The Makefile links main.o and pipe.o, and
  main.c:189-194 stands in for the two functions; the devices are in
  `ScullAccess` and `ScullPriv` from the start.
- **curranddely** keeps no state beyond its registration (`Lifecycle`): its /proc
  reader delays and prints.
- **Readers of /proc during an unload.** `Lifecycle` has the order in which
  `test_cleanup` and `high_cleanup` free the devices and remove the entries, but
  nobody who reads the list of devices meanwhile.
- **Reads of the port nodes of short** change no state of the driver. The error path
  of `skel_write` that uses a null urb is one straight line.
- **PCI skeleton, data types, hello, `short.mod.c`**: no state, or generated.

Left to prove: that the small devices implement abstract ones, as the pipe and the
bare device do.
