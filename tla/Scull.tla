-------------------------------- MODULE Scull --------------------------------
(***************************************************************************)
(* The bare scull device of simple_basic/code/main.c: a list of            *)
(* scull_qset items, each an array of qset quanta, allocated as they are   *)
(* written to.  read, write and the truncating open work under dev->sem;   *)
(* the body of each is one step, taken by the process that holds it, since *)
(* no code looks at the device without it.  quantum and qset, which read   *)
(* and write fetch before the down, never change: scull_trim restores them *)
(* to the parameters they started from.  A down_interruptible that a       *)
(* signal ends leaves no trace and is not a step.                          *)
(***************************************************************************)
EXTENDS Integers, Sequences, FiniteSets

CONSTANTS
  Procs,      \* processes, each with at most one open file
  Quantum,    \* scull_quantum: bytes in a quantum
  Qset,       \* scull_qset: quanta in a list item
  Items,      \* bound: the list items that the offsets used can reach
  Byte,       \* the values of a byte of user data
  Junk,       \* the content of memory kmalloc has just returned
  Counts,     \* the sizes users ask for
  Offsets     \* the offsets of pread() and pwrite()

Length == Quantum * Qset * Items

ASSUME ProcsAssumption == IsFiniteSet(Procs)
ASSUME SizesAssumption ==
  Quantum \in Nat \ {0} /\ Qset \in Nat \ {0} /\ Items \in Nat \ {0}
ASSUME CountsAssumption == Counts \subseteq Nat
ASSUME OffsetsAssumption == Offsets \subseteq 0 .. Length - 1
ASSUME JunkAssumption == Junk \notin Byte

VARIABLES
  pc,       \* where each process is
  f_mode,   \* "rdwr" or "wronly", the access mode of each open file
  sem,      \* the count of dev->sem
  f_pos,    \* the file position of each process
  chain,    \* the number of list items from dev->data on
  arrays,   \* the items whose data array is allocated
  mem,      \* the allocated quanta, by number, and their bytes
  size,     \* dev->size
  io        \* history: the transfer the last call has made

storeVars == <<chain, arrays, mem, size>>
vars == <<pc, f_mode, sem, f_pos, storeVars, io>>

NoIo == [op |-> "none", pos |-> 0, count |-> 0, bytes |-> <<>>]
Least(a, b) == IF a <= b THEN a ELSE b
Holding == {"trim", "read", "write", "show"}

Init ==
  /\ pc = [p \in Procs |-> "closed"]
  /\ f_mode = [p \in Procs |-> "none"]
  /\ sem = 1
  /\ f_pos = [p \in Procs |-> 0]
  /\ chain = 0 /\ arrays = {} /\ mem = [q \in {} |-> <<>>]
  /\ size = 0
  /\ io = NoIo

Goto(p, l) == pc' = [pc EXCEPT ![p] = l]

Down(p, from, to) ==
  /\ pc[p] = from
  /\ sem > 0
  /\ sem' = sem - 1
  /\ Goto(p, to)
  /\ io' = NoIo
  /\ UNCHANGED storeVars

(* line 274, on every path out of a body *)
Out(p) == pc' = [pc EXCEPT ![p] = "open"] /\ sem' = sem + 1

(* scull_open, lines 168-183.  A file open for reading only does a part    *)
(* of what one open for both does, and has no mode of its own.             *)
Opened(p, m) ==
  /\ f_mode' = [f_mode EXCEPT ![p] = m]
  /\ f_pos' = [f_pos EXCEPT ![p] = 0]

Open(p) ==
  /\ pc[p] = "closed"
  /\ Goto(p, "open")
  /\ Opened(p, "rdwr")
  /\ UNCHANGED <<sem, storeVars, io>>

OpenWriteOnly(p) == Down(p, "closed", "trim") /\ Opened(p, "wronly")

(* variant: dev->size is left as it was *)
scull_trimKeepsSize ==
  chain' = 0 /\ arrays' = {} /\ mem' = [q \in {} |-> <<>>] /\ UNCHANGED size

(* scull_trim, lines 142-165, frees every quantum, array and item *)
scull_trim ==
  chain' = 0 /\ arrays' = {} /\ mem' = [q \in {} |-> <<>>] /\ size' = 0

Trim(p) ==
  /\ pc[p] = "trim"
  /\ scull_trim
  /\ Out(p)
  /\ UNCHANGED <<f_mode, f_pos, io>>

(* the file goes, with its position *)
Close(p) ==
  /\ pc[p] = "open"
  /\ Goto(p, "closed")
  /\ f_mode' = [f_mode EXCEPT ![p] = "none"]
  /\ f_pos' = [f_pos EXCEPT ![p] = 0]
  /\ UNCHANGED <<sem, storeVars, io>>

(* The /proc files of the other two copies: scull_seq_show walks the list  *)
(* of the device under dev->sem and changes nothing.                       *)
ShowBegin(p) == Down(p, "closed", "show") /\ UNCHANGED <<f_mode, f_pos>>

ShowEnd(p) ==
  /\ pc[p] = "show"
  /\ Goto(p, "closed")
  /\ sem' = sem + 1
  /\ UNCHANGED <<f_mode, f_pos, storeVars, io>>

(***************************************************************************)
(* Where position pos is: lines 201-203 and 239-241                        *)
(***************************************************************************)
Item(pos) == pos \div (Quantum * Qset)
Quant(pos) == pos \div Quantum       \* item * qset + s_pos
Offset(pos) == pos % Quantum         \* q_pos

(* scull_follow, lines 51-75: the list grows to item n, or kmalloc fails   *)
(* and it stays as long as it has become                                   *)
Follow(n, ok) ==
  IF chain > n THEN ok /\ UNCHANGED chain
  ELSE \E k \in chain .. n + 1 : chain' = k /\ (ok <=> k = n + 1)

(* the positions of read(), write() and of pread(), pwrite(), which move   *)
(* f_pos if n bytes are transferred at it                                  *)
At(p, pos, moved) ==
  \/ pos = f_pos[p] /\ f_pos' = [f_pos EXCEPT ![p] = pos + moved]
  \/ pos \in Offsets /\ UNCHANGED f_pos

(***************************************************************************)
(* scull_read, lines 185-226                                               *)
(***************************************************************************)
ReadBegin(p) ==
  f_mode[p] = "rdwr" /\ Down(p, "open", "read") /\ UNCHANGED <<f_mode, f_pos>>

(* the bytes line 215 copies: within the file and within the quantum *)
Found(pos, c) ==
  LET n == Least(Least(c, size - pos), Quantum - Offset(pos))
  IN  [i \in 1 .. n |-> mem[Quant(pos)][Offset(pos) + i - 1]]

Delivered(p, pos, c, s) ==
  /\ At(p, pos, Len(s))
  /\ io' = [op |-> "read", pos |-> pos, count |-> c, bytes |-> s]

ReadEnd(p) ==       \* lines 195-196
  /\ pc[p] = "read"
  /\ \E pos \in 0 .. Length, c \in Counts : pos >= size /\ Delivered(p, pos, c, <<>>)
  /\ Out(p)
  /\ UNCHANGED <<f_mode, storeVars>>

ReadHole(p) ==      \* lines 206-209: also when scull_follow fails
  /\ pc[p] = "read"
  /\ \E pos \in 0 .. size - 1, c \in Counts, ok \in BOOLEAN :
       /\ Follow(Item(pos), ok)
       /\ ok => Quant(pos) \notin DOMAIN mem
       /\ Delivered(p, pos, c, <<>>)
  /\ Out(p)
  /\ UNCHANGED <<f_mode, arrays, mem, size>>

ReadData(p) ==
  /\ pc[p] = "read"
  /\ \E pos \in 0 .. size - 1, c \in Counts :
       /\ Follow(Item(pos), TRUE)
       /\ Quant(pos) \in DOMAIN mem
       /\ Delivered(p, pos, c, Found(pos, c))
  /\ Out(p)
  /\ UNCHANGED <<f_mode, arrays, mem, size>>

ReadFault(p) ==     \* lines 215-217
  /\ pc[p] = "read"
  /\ \E pos \in 0 .. size - 1 :
       At(p, pos, 0) /\ Follow(Item(pos), TRUE) /\ Quant(pos) \in DOMAIN mem
  /\ Out(p)
  /\ UNCHANGED <<f_mode, arrays, mem, size, io>>

(***************************************************************************)
(* scull_write, lines 227-276                                              *)
(***************************************************************************)
WriteBegin(p) == Down(p, "open", "write") /\ UNCHANGED <<f_mode, f_pos>>

WriteNoItem(p) ==       \* lines 244-246
  /\ pc[p] = "write"
  /\ \E pos \in 0 .. Length - 1 : At(p, pos, 0) /\ Follow(Item(pos), FALSE)
  /\ Out(p)
  /\ UNCHANGED <<f_mode, arrays, mem, size, io>>

(* variant: -ENOMEM is returned with the semaphore held *)
WriteNoQuantumLeak(p) ==
  /\ pc[p] = "write"
  /\ \E pos \in 0 .. Length - 1 :
       /\ At(p, pos, 0)
       /\ Follow(Item(pos), TRUE)
       /\ Quant(pos) \notin DOMAIN mem
       /\ arrays' \in {arrays, arrays \union {Item(pos)}}
  /\ Goto(p, "open")
  /\ UNCHANGED <<f_mode, sem, mem, size, io>>

(* lines 247-257: the array, then the quantum, where kmalloc may fail for  *)
(* either; a new quantum is not cleared                                    *)
WriteNoQuantum(p) ==
  /\ pc[p] = "write"
  /\ \E pos \in 0 .. Length - 1 :
       /\ At(p, pos, 0)
       /\ Follow(Item(pos), TRUE)
       /\ Quant(pos) \notin DOMAIN mem
       /\ arrays' \in {arrays, arrays \union {Item(pos)}}
  /\ Out(p)
  /\ UNCHANGED <<f_mode, mem, size, io>>

(* variant: a quantum is allocated for every write *)
AllocatedAfresh(pos) == [o \in 0 .. Quantum - 1 |-> Junk]

Allocated(pos) == IF Quant(pos) \in DOMAIN mem THEN mem[Quant(pos)]
                  ELSE [o \in 0 .. Quantum - 1 |-> Junk]

(* copy_from_user of the bytes s to pos, in a quantum that is there now *)
Store(pos, s) ==
  /\ Follow(Item(pos), TRUE)
  /\ arrays' = arrays \union {Item(pos)}
  /\ mem' = [q \in DOMAIN mem \union {Quant(pos)} |->
               IF q # Quant(pos) THEN mem[q]
               ELSE [o \in 0 .. Quantum - 1 |->
                       IF o \in Offset(pos) .. Offset(pos) + Len(s) - 1
                       THEN s[o - Offset(pos) + 1] ELSE Allocated(pos)[o]]]

(* variant: not limited to the quantum *)
FitsAll(pos, c) == c

(* lines 259-260: up to the end of the quantum *)
Fits(pos, c) == Least(c, Quantum - Offset(pos))

WriteData(p) ==
  /\ pc[p] = "write"
  /\ \E pos \in 0 .. Length - 1, c \in Counts : \E s \in [1 .. Fits(pos, c) -> Byte] :
       /\ At(p, pos, Len(s))
       /\ Store(pos, s)
       /\ size' = IF size < pos + Len(s) THEN pos + Len(s) ELSE size
       /\ io' = [op |-> "write", pos |-> pos, count |-> c, bytes |-> s]
  /\ Out(p)
  /\ UNCHANGED f_mode

WriteFault(p) ==        \* lines 262-264: a proper prefix has been copied
  /\ pc[p] = "write"
  /\ \E pos \in 0 .. Length - 1, c \in Counts : \E n \in 0 .. Fits(pos, c) - 1 :
       /\ At(p, pos, 0)
       /\ \E s \in [1 .. n -> Byte] : Store(pos, s)
  /\ Out(p)
  /\ UNCHANGED <<f_mode, size, io>>

Next == \E p \in Procs :
          \/ Open(p) \/ OpenWriteOnly(p) \/ Trim(p) \/ Close(p)
          \/ ShowBegin(p) \/ ShowEnd(p)
          \/ ReadBegin(p) \/ ReadEnd(p) \/ ReadHole(p) \/ ReadData(p) \/ ReadFault(p)
          \/ WriteBegin(p) \/ WriteNoItem(p) \/ WriteNoQuantum(p)
          \/ WriteData(p) \/ WriteFault(p)

Spec == Init /\ [][Next]_vars

-----------------------------------------------------------------------------
TypeInvariant ==
  /\ pc \in [Procs -> {"closed", "open"} \union Holding]
  /\ f_mode \in [Procs -> {"none", "rdwr", "wronly"}]
  /\ sem \in {0, 1}
  /\ f_pos \in [Procs -> 0 .. Length]
  /\ chain \in 0 .. Items
  /\ arrays \subseteq 0 .. Items - 1
  /\ DOMAIN mem \subseteq 0 .. Qset * Items - 1
  /\ \A q \in DOMAIN mem : mem[q] \in [0 .. Quantum - 1 -> Byte \union {Junk}]
  /\ size \in 0 .. Length

(* dev->sem is a mutex that every path out of a body gives back.           *)
SemaphoreExact ==
  /\ sem = 0 <=> \E p \in Procs : pc[p] \in Holding
  /\ \A p, q \in Procs : pc[p] \in Holding /\ pc[q] \in Holding => p = q

(* The list is sound after any sequence of failed allocations: arrays hang *)
(* on items of the list, quanta on arrays, and the list reaches the last   *)
(* byte of the file (lines 244-257, 270-271), even where a write of 0      *)
(* bytes at an offset beyond it has made it longer.                        *)
StoreSound ==
  /\ \A i \in arrays : i < chain
  /\ \A q \in DOMAIN mem : q \div Qset \in arrays
  /\ size > 0 => Item(size - 1) < chain

(* Reading allocates nothing, though line 206 calls the function that      *)
(* allocates list items: below dev->size the items are always there.       *)
ReadsDontAllocate ==
  [][\A p \in Procs : pc[p] = "read" /\ pc'[p] # "read" => chain' = chain]_vars

(* The content: what each position holds whose quantum is there *)
Content == [x \in {y \in 0 .. Length - 1 : Quant(y) \in DOMAIN mem} |->
              mem[Quant(x)][Offset(x)]]

File == INSTANCE ScullFile WITH file <- Content, Block <- Quantum

(* A read delivers exactly what its positions hold: the bytes last written *)
(* there since the last truncation (main.c 211-224, 258-271) and, in a     *)
(* quantum that is there, uninitialised memory where nothing was, since    *)
(* line 254 does not clear it.  It delivers none only at the end of the    *)
(* file or where no write has made a quantum.  All this whatever calls     *)
(* fail, however writes, reads and truncating opens of several processes   *)
(* interleave.                                                             *)
ImplementsFile == File!Spec
=============================================================================
