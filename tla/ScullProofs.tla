----------------------------- MODULE ScullProofs -----------------------------
(***************************************************************************)
(* Theorems about the bare scull device, for any finite set of processes,  *)
(* any sizes of quantum and qset and any length of the list: its semaphore *)
(* is a mutex, its list is sound, reading does not allocate, and its       *)
(* content is that of the file ScullFile describes.                        *)
(***************************************************************************)
EXTENDS Scull, SequenceTheorems, TLAPS

(* what the proofs below assume of the constants, by the ASSUMEs of Scull  *)
USE SizesAssumption, CountsAssumption, OffsetsAssumption, JunkAssumption

-----------------------------------------------------------------------------
(***************************************************************************)
(* Positions: division of naturals.                                        *)
(***************************************************************************)

(* a product grows with its second factor, by one multiple at a step *)
LEMMA ProductMonotonic ==
  \A a, b, c \in Nat : /\ c * a \in Nat
                       /\ a <= b => c * a <= c * b
                       /\ a < b => c * a + c <= c * b
  OBVIOUS

(* quotient and remainder *)
LEMMA DivisionSound ==
  \A a \in Nat, b \in Nat \ {0} :
    a \div b \in Nat /\ a % b \in 0 .. b - 1 /\ a = b * (a \div b) + (a % b)
  OBVIOUS

(* the quotient and the remainder are the only such pair *)
LEMMA DivisionUnique ==
  ASSUME NEW a \in Nat, NEW b \in Nat \ {0}, NEW q \in Nat, NEW r \in 0 .. b - 1,
         a = b * q + r
  PROVE  a \div b = q /\ a % b = r
  <1> DEFINE d == a \div b
             m == a % b
  <1>1. d \in Nat /\ m \in 0 .. b - 1 /\ a = b * d + m
    BY DivisionSound
  <1>2. b * d \in Nat /\ b * q \in Nat
    BY <1>1
  <1> HIDE DEF d, m
  <1>3. ~ d < q
    BY <1>1, <1>2, ProductMonotonic
  <1>4. ~ q < d
    BY <1>1, <1>2, ProductMonotonic
  <1>5. d = q
    BY <1>1, <1>3, <1>4
  <1>6. m = r
    BY <1>1, <1>2, <1>5
  <1> QED BY <1>5, <1>6 DEF d, m

LEMMA SizesProduct ==
  /\ Quantum * Qset \in Nat \ {0} /\ Qset * Items \in Nat \ {0} /\ Length \in Nat \ {0}
  /\ Length = Quantum * (Qset * Items)
  <1>1. Quantum * Qset \in Nat \ {0} /\ Qset * Items \in Nat \ {0}
    OBVIOUS
  <1>2. Length \in Nat \ {0}
    BY <1>1 DEF Length
  <1>3. \A a, b, c \in Nat : (a * b) * c = a * (b * c)
    OBVIOUS
  <1> QED BY <1>1, <1>2, <1>3 DEF Length

LEMMA LengthPositive == Length \in Nat \ {0}
  BY SizesProduct

(* a position is in its quantum and the quantum in its item *)
LEMMA Position ==
  ASSUME NEW x \in Nat
  PROVE  /\ Quant(x) \in Nat /\ Offset(x) \in 0 .. Quantum - 1 /\ Item(x) \in Nat
         /\ x = Quantum * Quant(x) + Offset(x)
         /\ Quant(x) \div Qset = Item(x) /\ Qset * Item(x) <= Quant(x)
  <1>1. /\ Quant(x) \in Nat /\ Offset(x) \in 0 .. Quantum - 1
        /\ x = Quantum * Quant(x) + Offset(x)
    BY DivisionSound DEF Quant, Offset
  <1> DEFINE i == Quant(x) \div Qset
             s == Quant(x) % Qset
  <1>2. i \in Nat /\ s \in 0 .. Qset - 1 /\ Quant(x) = Qset * i + s
    BY <1>1, DivisionSound
  <1> HIDE DEF i, s
  <1>3. x = Quantum * (Qset * i + s) + Offset(x)
    BY <1>1, <1>2
  <1>4. Quantum * (Qset * i + s) = (Quantum * Qset) * i + Quantum * s
    BY <1>2
  <1>5. Quantum * s + Quantum <= Quantum * Qset /\ Quantum * s \in Nat
    BY <1>2, ProductMonotonic
  <1>6. Quantum * s + Offset(x) \in 0 .. (Quantum * Qset) - 1
    BY <1>1, <1>5, SizesProduct
  <1>7. (Quantum * Qset) * i \in Nat
    BY <1>2, SizesProduct
  <1>8. x = (Quantum * Qset) * i + (Quantum * s + Offset(x))
    BY <1>1, <1>3, <1>4, <1>5, <1>7
  <1> DEFINE w == Quantum * Qset
             r == Quantum * s + Offset(x)
  <1>9. w \in Nat \ {0} /\ r \in 0 .. w - 1 /\ x = w * i + r
    BY <1>6, <1>8, SizesProduct
  <1> HIDE DEF w, r
  <1>10. x \div w = i
    BY <1>2, <1>9, DivisionUnique
  <1>11. Item(x) = i
    BY <1>10 DEF Item, w
  <1>12. Qset * Item(x) <= Quant(x) /\ Item(x) \in Nat
    BY <1>2, <1>11, ProductMonotonic
  <1>13. Quant(x) \div Qset = Item(x)
    BY <1>11 DEF i
  <1> HIDE DEF Quant, Item, Offset
  <1> QED BY <1>1, <1>12, <1>13

(* where the positions of the device are, and how far their quantum goes *)
LEMMA PositionBounds ==
  ASSUME NEW x \in 0 .. Length - 1
  PROVE  /\ Item(x) \in 0 .. Items - 1 /\ Quant(x) \in 0 .. (Qset * Items) - 1
         /\ x + (Quantum - Offset(x)) <= Length
  <1>0. x \in Nat /\ Length \in Nat
    BY SizesProduct
  <1>1. Quant(x) < Qset * Items
    <2>1. SUFFICES ASSUME Qset * Items <= Quant(x) PROVE FALSE
      BY <1>0, Position, SizesProduct
    <2>2. Quantum * (Qset * Items) <= Quantum * Quant(x)
      BY <1>0, <2>1, Position, SizesProduct, ProductMonotonic
    <2> QED BY <1>0, <2>2, Position, SizesProduct
  <1>2. Quantum * Quant(x) + Quantum <= Length
    BY <1>0, <1>1, Position, SizesProduct, ProductMonotonic
  <1>3. Item(x) < Items
    <2>1. SUFFICES ASSUME Items <= Item(x) PROVE FALSE
      BY <1>0, Position
    <2>2. Qset * Items <= Qset * Item(x)
      BY <1>0, <2>1, Position, ProductMonotonic
    <2>3. Qset * Item(x) <= Quant(x) /\ Qset * Item(x) \in Nat
      BY <1>0, Position, ProductMonotonic
    <2>4. Quant(x) \in Nat /\ Qset * Items \in Nat
      BY <1>0, Position, SizesProduct
    <2> QED BY <1>1, <2>2, <2>3, <2>4
  <1>4. Quantum * Quant(x) \in Nat
    BY <1>0, Position, ProductMonotonic
  <1>5. x + (Quantum - Offset(x)) <= Length
    BY <1>0, <1>2, <1>4, Position
  <1>6. Quant(x) \in Nat /\ Item(x) \in Nat /\ Qset * Items \in Nat
    BY <1>0, Position, SizesProduct
  <1>7. Quant(x) \in 0 .. (Qset * Items) - 1 /\ Item(x) \in 0 .. Items - 1
    BY <1>1, <1>3, <1>6
  <1> QED BY <1>5, <1>7

LEMMA ItemMonotonic ==
  ASSUME NEW x \in Nat, NEW y \in Nat, x <= y
  PROVE  Item(x) <= Item(y)
  <1> DEFINE w == Quantum * Qset
  <1>1. w \in Nat \ {0}
    BY SizesProduct
  <1> HIDE DEF w
  <1>2. /\ x = w * (x \div w) + (x % w) /\ x \div w \in Nat /\ x % w \in 0 .. w - 1
        /\ y = w * (y \div w) + (y % w) /\ y \div w \in Nat /\ y % w \in 0 .. w - 1
    BY <1>1, DivisionSound
  <1>3. w * (x \div w) \in Nat /\ w * (y \div w) \in Nat
    BY <1>1, <1>2
  <1>4. ~ (y \div w) < (x \div w)
    BY <1>1, <1>2, <1>3, ProductMonotonic
  <1> QED BY <1>2, <1>4 DEF Item, w

(* moving on within a quantum *)
LEMMA SameQuantum ==
  ASSUME NEW x \in Nat, NEW k \in 0 .. Quantum - 1 - Offset(x)
  PROVE  Quant(x + k) = Quant(x) /\ Offset(x + k) = Offset(x) + k
  <1>1. /\ x + k \in Nat /\ Quant(x) \in Nat /\ Offset(x) + k \in 0 .. Quantum - 1
        /\ x + k = Quantum * Quant(x) + (Offset(x) + k)
    <2>1. Quantum * Quant(x) \in Nat
      BY Position, ProductMonotonic
    <2>2. /\ Quant(x) \in Nat /\ Offset(x) \in 0 .. Quantum - 1
          /\ x = Quantum * Quant(x) + Offset(x)
      BY Position
    <2> HIDE DEF Quant, Offset
    <2> QED BY <2>1, <2>2
  <1> HIDE DEF Quant, Offset
  <1>2. (x + k) \div Quantum = Quant(x) /\ (x + k) % Quantum = Offset(x) + k
    BY <1>1, DivisionUnique
  <1> QED BY <1>2 DEF Quant, Offset

(* a function on 1 .. n is a sequence of length n *)
LEMMA Tuple ==
  ASSUME NEW S, NEW n \in Nat, NEW s \in [1 .. n -> S]
  PROVE  s \in Seq(S) /\ Len(s) = n
  <1>1. s \in Seq(S)
    BY SeqDef
  <1>2. DOMAIN s = 1 .. n /\ DOMAIN s = 1 .. Len(s) /\ Len(s) \in Nat
    BY <1>1, LenProperties
  <1> QED BY <1>1, <1>2

-----------------------------------------------------------------------------
(***************************************************************************)
(* The inductive invariant, by the state it is about.                      *)
(***************************************************************************)
Places ==
  /\ pc \in [Procs -> {"closed", "open"} \union Holding]
  /\ f_mode \in [Procs -> {"none", "rdwr", "wronly"}]
  /\ sem \in {0, 1}
  /\ SemaphoreExact

Positions == f_pos \in [Procs -> 0 .. Length]

Quanta == [0 .. Quantum - 1 -> Byte \union {Junk}]

Stored ==
  /\ chain \in 0 .. Items
  /\ arrays \subseteq 0 .. Items - 1
  /\ DOMAIN mem \subseteq 0 .. Qset * Items - 1
  /\ \A q \in DOMAIN mem : mem[q] \in Quanta
  /\ size \in 0 .. Length
  /\ StoreSound

Inv == Places /\ Positions /\ Stored

LEMMA InvIs == Inv <=> TypeInvariant /\ SemaphoreExact /\ StoreSound
  BY DEF Inv, Places, Positions, Stored, Quanta, TypeInvariant

(* The initial state satisfies the invariant. *)
LEMMA InitInv == Init => Inv
  <1> SUFFICES ASSUME Init PROVE Inv
    OBVIOUS
  <1>1. Places
    BY DEF Init, Places, SemaphoreExact, Holding
  <1>2. Positions /\ Stored
    BY SizesProduct DEF Init, Positions, Stored, StoreSound
  <1> QED BY <1>1, <1>2 DEF Inv

(***************************************************************************)
(* Places: the semaphore goes down with the process that enters a body,    *)
(* and up with the one that leaves it.                                     *)
(***************************************************************************)
Entering(p) == OpenWriteOnly(p) \/ ReadBegin(p) \/ WriteBegin(p) \/ ShowBegin(p)

Body(p) == \/ ReadEnd(p) \/ ReadHole(p) \/ ReadData(p) \/ ReadFault(p)
           \/ WriteNoItem(p) \/ WriteNoQuantum(p) \/ WriteData(p) \/ WriteFault(p)

Leaving(p) == Trim(p) \/ ShowEnd(p) \/ Body(p)

LEMMA LeavingOut ==
  ASSUME NEW p \in Procs, Leaving(p)
  PROVE  /\ pc[p] \in Holding /\ sem' = sem + 1 /\ UNCHANGED f_mode
         /\ pc' = [pc EXCEPT ![p] = "open"] \/ pc' = [pc EXCEPT ![p] = "closed"]
  BY DEF Leaving, Body, Trim, ShowEnd, ReadEnd, ReadHole, ReadData, ReadFault,
         WriteNoItem, WriteNoQuantum, WriteData, WriteFault, Out, Goto, Holding

LEMMA EnteringDown ==
  ASSUME NEW p \in Procs, Entering(p)
  PROVE  /\ pc[p] \in {"closed", "open"} /\ sem > 0 /\ sem' = sem - 1
         /\ UNCHANGED storeVars
         /\ f_mode' = f_mode \/ f_mode' = [f_mode EXCEPT ![p] = "wronly"]
         /\ f_pos' = f_pos \/ f_pos' = [f_pos EXCEPT ![p] = 0]
         /\ \E l \in Holding : pc' = [pc EXCEPT ![p] = l]
  BY DEF Entering, OpenWriteOnly, ReadBegin, WriteBegin, ShowBegin, Down, Opened,
         Goto, Holding

LEMMA PlacesInv ==
  ASSUME Places, NEW p \in Procs,
         Entering(p) \/ Leaving(p) \/ Open(p) \/ Close(p)
  PROVE  Places'
  <1> USE DEF Places
  <1>1. CASE Entering(p)
    <2>1. PICK l \in Holding : pc' = [pc EXCEPT ![p] = l]
      BY <1>1, EnteringDown
    <2>2. sem = 1 /\ sem' = 0
      BY <1>1, EnteringDown
    <2>3. \A q \in Procs : pc[q] \notin Holding
      BY <2>2 DEF SemaphoreExact
    <2>4. \A q \in Procs : pc'[q] \in Holding <=> q = p
      BY <2>1, <2>3
    <2>5. SemaphoreExact'
      BY <2>2, <2>4 DEF SemaphoreExact
    <2> QED BY <1>1, <2>1, <2>2, <2>5, EnteringDown
  <1>2. CASE Leaving(p)
    <2>1. SemaphoreExact' /\ sem' \in {0, 1}
      BY <1>2, LeavingOut DEF SemaphoreExact, Holding
    <2> QED BY <1>2, <2>1, LeavingOut
  <1>3. CASE Open(p) \/ Close(p)
    <2>1. SemaphoreExact'
      BY <1>3 DEF SemaphoreExact, Holding, Open, Close, Goto
    <2> QED BY <1>3, <2>1 DEF Open, Opened, Close, Goto
  <1> QED BY <1>1, <1>2, <1>3

(***************************************************************************)
(* The list: what scull_follow does to it, and that it does nothing below  *)
(* dev->size.                                                              *)
(***************************************************************************)
LEMMA FollowGrows ==
  ASSUME Stored, NEW n \in 0 .. Items - 1, NEW ok \in BOOLEAN, Follow(n, ok)
  PROVE  /\ chain' \in 0 .. Items /\ chain <= chain'
         /\ ok => n < chain'
         /\ n < chain => ok /\ chain' = chain
  BY DEF Stored, Follow

LEMMA BelowSize ==
  ASSUME Stored, NEW x \in 0 .. size - 1
  PROVE  x \in 0 .. Length - 1 /\ Item(x) \in 0 .. Items - 1 /\ Item(x) < chain
  <1>1. x \in Nat /\ size - 1 \in Nat /\ x <= size - 1 /\ size > 0
        /\ x \in 0 .. Length - 1 /\ size - 1 \in 0 .. Length - 1
    BY SizesProduct DEF Stored
  <1>2. Item(x) <= Item(size - 1) /\ Item(size - 1) < chain
    BY <1>1, ItemMonotonic DEF Stored, StoreSound
  <1>3. Item(x) \in 0 .. Items - 1 /\ Item(size - 1) \in 0 .. Items - 1
    BY <1>1, PositionBounds
  <1> QED BY <1>1, <1>2, <1>3 DEF Stored

(* below dev->size every path through scull_follow finds the item *)
LEMMA FollowFinds ==
  ASSUME Stored, NEW x \in 0 .. size - 1, NEW ok \in BOOLEAN, Follow(Item(x), ok)
  PROVE  ok /\ chain' = chain
  BY BelowSize, FollowGrows

(* a list that has become longer keeps what hangs on it *)
LEMMA LongerList ==
  ASSUME Stored, chain' \in 0 .. Items, chain <= chain', UNCHANGED <<mem, size>>,
         \/ UNCHANGED arrays
         \/ \E i \in Nat : i < chain' /\ arrays' = arrays \union {i}
  PROVE  Stored'
  <1>1. ASSUME NEW i \in arrays' PROVE i \in 0 .. Items - 1 /\ i < chain'
    <2> DEFINE Listed == chain \in 0 .. Items /\ i \in arrays
                           => i \in 0 .. Items - 1 /\ i < chain
    <2>0. chain \in 0 .. Items /\ Listed
      BY DEF Stored, StoreSound
    <2>1. CASE i \in arrays
      BY <2>0, <2>1
    <2>2. CASE i \in Nat /\ i < chain'
      BY <2>2
    <2> QED BY <2>1, <2>2
  <1>2. arrays \subseteq arrays'
    OBVIOUS
  <1>3. size > 0 => Item(size - 1) < chain'
    <2>1. SUFFICES ASSUME size > 0 PROVE Item(size - 1) < chain'
      OBVIOUS
    <2>2. size - 1 \in 0 .. Length - 1
      BY <2>1, SizesProduct DEF Stored
    <2>3. Item(size - 1) \in 0 .. Items - 1
      BY <2>2, PositionBounds
    <2> QED BY <2>1, <2>3 DEF Stored, StoreSound
  <1> QED BY <1>1, <1>2, <1>3 DEF Stored, StoreSound

(* the store of n bytes in a quantum at pos, when dev->size stays or grows *)
(* to the end of them                                                      *)
LEMMA StoreKeepsSound ==
  ASSUME Stored, NEW pos \in 0 .. Length - 1, NEW n \in Nat,
         n <= Quantum - Offset(pos), NEW s \in [1 .. n -> Byte], Store(pos, s),
         size' \in {size, pos + n}
  PROVE  Stored'
  <1>1. Len(s) = n
    BY Tuple
  <1>2. /\ Item(pos) \in 0 .. Items - 1 /\ Quant(pos) \in 0 .. (Qset * Items) - 1
        /\ pos + (Quantum - Offset(pos)) <= Length /\ pos \in Nat
        /\ Offset(pos) \in 0 .. Quantum - 1 /\ Quant(pos) \div Qset = Item(pos)
    BY PositionBounds, Position, SizesProduct
  <1>3. chain' \in 0 .. Items /\ chain <= chain' /\ Item(pos) < chain'
    BY <1>2, FollowGrows DEF Store
  <1>4. arrays' = arrays \union {Item(pos)}
    BY DEF Store
  <1>5. DOMAIN mem' = DOMAIN mem \union {Quant(pos)}
    BY DEF Store
  <1>6. Allocated(pos) \in Quanta
    BY DEF Allocated, Quanta, Stored
  <1>7. \A q \in DOMAIN mem' : mem'[q] \in Quanta
    <2> SUFFICES ASSUME NEW q \in DOMAIN mem' PROVE mem'[q] \in Quanta
      OBVIOUS
    <2>1. CASE q # Quant(pos)
      BY <1>5, <2>1 DEF Store, Stored
    <2>2. CASE q = Quant(pos)
      <3>1. mem'[q] = [o \in 0 .. Quantum - 1 |->
                         IF o \in Offset(pos) .. Offset(pos) + Len(s) - 1
                         THEN s[o - Offset(pos) + 1] ELSE Allocated(pos)[o]]
        BY <2>2 DEF Store
      <3>2. ASSUME NEW o \in 0 .. Quantum - 1, o \in Offset(pos) .. Offset(pos) + Len(s) - 1
            PROVE  s[o - Offset(pos) + 1] \in Byte
        <4>1. o \in Nat /\ Offset(pos) \in Nat /\ o \in Offset(pos) .. Offset(pos) + n - 1
          BY <1>1, <1>2, <3>2, LengthPositive
        <4>2. \A x, y \in Nat : x \in y .. y + n - 1 => x - y + 1 \in 1 .. n
          OBVIOUS
        <4>3. o - Offset(pos) + 1 \in 1 .. n
          BY <4>1, <4>2
        <4> QED BY <4>3
      <3>3. ASSUME NEW o \in 0 .. Quantum - 1 PROVE Allocated(pos)[o] \in Byte \union {Junk}
        BY <1>6 DEF Quanta
      <3> QED BY <3>1, <3>2, <3>3 DEF Quanta
    <2> QED BY <2>1, <2>2
  <1>8. size' \in 0 .. Length
    <2>1. size \in 0 .. Length /\ Length \in Nat /\ Quantum \in Nat
      BY SizesProduct DEF Stored
    <2>2. pos + n \in 0 .. Length
      <3> DEFINE f == Offset(pos)
                 l == Length
      <3>1. f \in Nat /\ l \in Nat /\ pos + (Quantum - f) <= l /\ n <= Quantum - f
        BY <1>2, <2>1
      <3> HIDE DEF f, l
      <3>2. pos + n \in 0 .. l
        BY <1>2, <2>1, <3>1
      <3> QED BY <3>2 DEF l
    <2> QED BY <2>1, <2>2
  <1>9. \A i \in arrays' : i \in 0 .. Items - 1 /\ i < chain'
    <2>1. \A i \in arrays : i \in 0 .. Items - 1 /\ i < chain
      BY DEF Stored, StoreSound
    <2>2. chain \in Nat /\ chain' \in Nat /\ Items \in Nat
      BY <1>3 DEF Stored
    <2> QED BY <1>2, <1>3, <1>4, <2>1, <2>2, SMTT(30)
  <1>10. \A q \in DOMAIN mem' : q \div Qset \in arrays' /\ q \in 0 .. (Qset * Items) - 1
    <2>1. \A q \in DOMAIN mem : q \div Qset \in arrays /\ q \in 0 .. (Qset * Items) - 1
      BY DEF Stored, StoreSound
    <2> QED BY <1>2, <1>4, <1>5, <2>1
  <1>11. size' > 0 => Item(size' - 1) < chain'
    <2> SUFFICES ASSUME size' > 0 PROVE Item(size' - 1) < chain'
      OBVIOUS
    <2>0. size' \in Nat /\ size' <= Length /\ Length \in Nat
      BY <1>8, LengthPositive
    <2>1. size' - 1 \in 0 .. Length - 1
      <3>1. \A a, b \in Nat : 0 < a /\ a <= b => a - 1 \in 0 .. b - 1
        OBVIOUS
      <3> QED BY <2>0, <3>1
    <2>2. Item(size' - 1) \in 0 .. Items - 1
      BY <2>1, PositionBounds
    <2>3. CASE size' = size
      BY <1>3, <2>2, <2>3 DEF Stored, StoreSound
    <2>4. CASE size' = pos + n /\ n = 0
      <3>1. size' - 1 \in Nat /\ size' - 1 <= pos
        BY <1>2, <2>1, <2>4
      <3> QED BY <1>2, <1>3, <2>2, <3>1, ItemMonotonic, SMTT(20)
    <2>5. CASE size' = pos + n /\ n > 0
      <3>1. n - 1 \in 0 .. Quantum - 1 - Offset(pos) /\ size' - 1 = pos + (n - 1)
        BY <1>2, <2>5
      <3>2. Quant(size' - 1) = Quant(pos) /\ size' - 1 \in Nat
        BY <1>2, <2>1, <3>1, SameQuantum
      <3>3. Item(size' - 1) = Item(pos)
        BY <1>2, <3>2, Position
      <3> QED BY <1>3, <3>3
    <2> QED BY <2>3, <2>4, <2>5
  <1> QED BY <1>3, <1>5, <1>7, <1>8, <1>9, <1>10, <1>11 DEF Stored, StoreSound

-----------------------------------------------------------------------------
(***************************************************************************)
(* The steps.                                                              *)
(***************************************************************************)

(* a write goes no further than its quantum *)
LEMMA FitsBounds ==
  ASSUME NEW pos \in 0 .. Length - 1, NEW c \in Counts
  PROVE  /\ pos \in Nat /\ c \in Nat /\ Fits(pos, c) \in 0 .. c
         /\ Fits(pos, c) <= Quantum - Offset(pos) /\ pos + Fits(pos, c) <= Length
         /\ c > 0 => Fits(pos, c) > 0
  <1>1. pos \in Nat /\ c \in Nat /\ Length \in Nat
    BY LengthPositive
  <1>2. Offset(pos) \in 0 .. Quantum - 1
    BY <1>1, Position
  <1>3. pos + (Quantum - Offset(pos)) <= Length
    BY PositionBounds
  <1> QED BY <1>1, <1>2, <1>3 DEF Fits, Least

(* a read goes no further than the file and the quantum *)
LEMMA FoundBounds ==
  ASSUME Stored, NEW pos \in 0 .. size - 1, NEW c \in Counts, Quant(pos) \in DOMAIN mem
  PROVE  /\ Found(pos, c) \in Seq(Byte \union {Junk})
         /\ Len(Found(pos, c)) \in 0 .. c
         /\ Len(Found(pos, c)) <= size - pos
         /\ Len(Found(pos, c)) <= Quantum - Offset(pos)
         /\ c > 0 => Len(Found(pos, c)) > 0
         /\ Found(pos, c) \in [1 .. Len(Found(pos, c)) -> Byte \union {Junk}]
         /\ \A i \in 1 .. Len(Found(pos, c)) :
              Found(pos, c)[i] = mem[Quant(pos)][Offset(pos) + i - 1]
  <1> DEFINE n == Least(Least(c, size - pos), Quantum - Offset(pos))
             f == [i \in 1 .. n |-> mem[Quant(pos)][Offset(pos) + i - 1]]
  <1>1. Found(pos, c) = f
    BY DEF Found
  <1>2. c \in Nat /\ pos \in 0 .. Length - 1 /\ pos \in Nat /\ size \in Nat /\ pos < size
    BY BelowSize, LengthPositive DEF Stored
  <1>3. Offset(pos) \in 0 .. Quantum - 1
    BY <1>2, Position
  <1>4. /\ n \in 0 .. c /\ n <= size - pos /\ n <= Quantum - Offset(pos)
        /\ c > 0 => n > 0
    BY <1>2, <1>3 DEF Least
  <1> HIDE DEF n
  <1>5. ASSUME NEW i \in 1 .. n
        PROVE  mem[Quant(pos)][Offset(pos) + i - 1] \in Byte \union {Junk}
    <2>1. Offset(pos) + i - 1 \in 0 .. Quantum - 1
      BY <1>2, <1>3, <1>4
    <2>2. mem[Quant(pos)] \in Quanta
      BY DEF Stored
    <2> QED BY <2>1, <2>2 DEF Quanta
  <1>6. n \in Nat /\ f \in [1 .. n -> Byte \union {Junk}]
    BY <1>2, <1>4, <1>5
  <1> HIDE DEF f
  <1>7. f \in Seq(Byte \union {Junk}) /\ Len(f) = n
    BY <1>6, Tuple
  <1>8. \A i \in 1 .. n : f[i] = mem[Quant(pos)][Offset(pos) + i - 1]
    BY DEF f
  <1> QED BY <1>1, <1>4, <1>6, <1>7, <1>8

(* f_pos moves to where the transfer ends *)
LEMMA AtMoves ==
  ASSUME Positions, NEW p \in Procs, NEW pos, NEW n, At(p, pos, n), pos + n \in 0 .. Length
  PROVE  Positions'
  BY DEF Positions, At

(* Reading leaves the device as it is. *)
LEMMA ReadKeeps ==
  ASSUME Stored, NEW p \in Procs,
         ReadEnd(p) \/ ReadHole(p) \/ ReadData(p) \/ ReadFault(p)
  PROVE  UNCHANGED storeVars
  <1>1. CASE ReadEnd(p)
    BY <1>1 DEF ReadEnd
  <1>2. CASE ReadHole(p)
    <2>1. PICK pos \in 0 .. size - 1, ok \in BOOLEAN : Follow(Item(pos), ok)
      BY <1>2 DEF ReadHole
    <2>2. chain' = chain
      BY <2>1, FollowFinds
    <2> QED BY <1>2, <2>2 DEF ReadHole, storeVars
  <1>3. CASE ReadData(p) \/ ReadFault(p)
    <2>1. PICK pos \in 0 .. size - 1 : Follow(Item(pos), TRUE)
      BY <1>3 DEF ReadData, ReadFault
    <2>2. chain' = chain
      BY <2>1, FollowFinds
    <2> QED BY <1>3, <2>2 DEF ReadData, ReadFault, storeVars
  <1> QED BY <1>1, <1>2, <1>3

LEMMA ReadPositions ==
  ASSUME Inv, NEW p \in Procs,
         ReadEnd(p) \/ ReadHole(p) \/ ReadData(p) \/ ReadFault(p)
  PROVE  Positions'
  <1> USE DEF Inv
  <1>1. \A pos \in 0 .. size - 1 : pos \in 0 .. Length /\ pos + 0 \in 0 .. Length
    BY BelowSize, LengthPositive
  <1>2. Len(<<>>) = 0
    OBVIOUS
  <1>3. CASE ReadEnd(p)
    <2>1. PICK pos \in 0 .. Length : At(p, pos, Len(<<>>))
      BY <1>3 DEF ReadEnd, Delivered
    <2>2. pos + Len(<<>>) \in 0 .. Length
      BY <1>2, LengthPositive
    <2> QED BY <2>1, <2>2, AtMoves
  <1>4. CASE ReadHole(p)
    <2>1. PICK pos \in 0 .. size - 1 : At(p, pos, Len(<<>>))
      BY <1>4 DEF ReadHole, Delivered
    <2> QED BY <1>1, <1>2, <2>1, AtMoves
  <1>5. CASE ReadFault(p)
    <2>1. PICK pos \in 0 .. size - 1 : At(p, pos, 0)
      BY <1>5 DEF ReadFault
    <2> QED BY <1>1, <2>1, AtMoves
  <1>6. CASE ReadData(p)
    <2>1. PICK pos \in 0 .. size - 1, c \in Counts :
            Quant(pos) \in DOMAIN mem /\ At(p, pos, Len(Found(pos, c)))
      BY <1>6 DEF ReadData, Delivered
    <2> DEFINE n == Len(Found(pos, c))
    <2>2. n \in 0 .. c /\ n <= size - pos /\ c \in Nat
      BY <2>1, FoundBounds
    <2>3. pos \in Nat /\ size \in Nat /\ size <= Length /\ Length \in Nat
      BY BelowSize, LengthPositive DEF Stored
    <2> HIDE DEF n
    <2>4. pos + n \in 0 .. Length
      BY <2>2, <2>3
    <2>5. At(p, pos, n)
      BY <2>1 DEF n
    <2> QED BY <2>4, <2>5, AtMoves
  <1> QED BY <1>3, <1>4, <1>5, <1>6

(* A write that finds no memory leaves a longer list behind at most. *)
LEMMA WriteNoMemoryInv ==
  ASSUME Inv, NEW p \in Procs, WriteNoItem(p) \/ WriteNoQuantum(p)
  PROVE  Positions' /\ Stored' /\ UNCHANGED <<mem, size>>
  <1> USE DEF Inv
  <1>1. PICK pos \in 0 .. Length - 1, ok \in BOOLEAN :
          /\ At(p, pos, 0) /\ Follow(Item(pos), ok)
          /\ \/ UNCHANGED arrays
             \/ ok /\ arrays' = arrays \union {Item(pos)}
    BY DEF WriteNoItem, WriteNoQuantum
  <1>2. pos + 0 \in 0 .. Length /\ Item(pos) \in 0 .. Items - 1
    BY PositionBounds, LengthPositive
  <1>3. Positions'
    BY <1>1, <1>2, AtMoves
  <1>4. chain' \in 0 .. Items /\ chain <= chain' /\ (ok => Item(pos) < chain')
    BY <1>1, <1>2, FollowGrows
  <1>5. UNCHANGED <<mem, size>>
    BY DEF WriteNoItem, WriteNoQuantum
  <1>6. Stored'
    BY <1>1, <1>2, <1>4, <1>5, LongerList
  <1> QED BY <1>3, <1>5, <1>6

(* A write, complete or cut short by a fault, stores within its quantum. *)
LEMMA WriteStores ==
  ASSUME Inv, NEW p \in Procs, WriteData(p) \/ WriteFault(p)
  PROVE  Positions' /\ Stored'
  <1> USE DEF Inv
  <1>1. CASE WriteData(p)
    <2>1. PICK pos \in 0 .. Length - 1, c \in Counts :
            \E s \in [1 .. Fits(pos, c) -> Byte] :
              /\ At(p, pos, Len(s)) /\ Store(pos, s)
              /\ size' = IF size < pos + Len(s) THEN pos + Len(s) ELSE size
      BY <1>1 DEF WriteData
    <2> DEFINE n == Fits(pos, c)
    <2>2. /\ n \in Nat /\ n <= Quantum - Offset(pos) /\ pos \in Nat /\ Length \in Nat
          /\ pos + n <= Length
      BY FitsBounds, LengthPositive
    <2> HIDE DEF n
    <2>3. PICK s \in [1 .. n -> Byte] :
              /\ At(p, pos, Len(s)) /\ Store(pos, s)
              /\ size' = IF size < pos + Len(s) THEN pos + Len(s) ELSE size
      BY <2>1 DEF n
    <2>4. Len(s) = n
      BY <2>2, Tuple
    <2>5. At(p, pos, n) /\ pos + n \in 0 .. Length /\ size' \in {size, pos + n}
      BY <2>2, <2>3, <2>4
    <2>6. Positions'
      BY <2>5, AtMoves
    <2> QED BY <2>2, <2>3, <2>5, <2>6, StoreKeepsSound
  <1>2. CASE WriteFault(p)
    <2>0. PICK pos \in 0 .. Length - 1, c \in Counts :
            \E n \in 0 .. Fits(pos, c) - 1 :
              At(p, pos, 0) /\ \E s \in [1 .. n -> Byte] : Store(pos, s)
      BY <1>2 DEF WriteFault
    <2>1. PICK n \in 0 .. Fits(pos, c) - 1 :
            At(p, pos, 0) /\ \E s \in [1 .. n -> Byte] : Store(pos, s)
      BY <2>0
    <2>2. /\ n \in Nat /\ n <= Quantum - Offset(pos) /\ pos + 0 \in 0 .. Length
      <3>1. /\ Fits(pos, c) \in Nat /\ Fits(pos, c) <= Quantum - Offset(pos)
            /\ Offset(pos) \in Nat /\ pos \in Nat /\ Length \in Nat
        BY FitsBounds, Position, LengthPositive
      <3> QED BY <3>1, LengthPositive
    <2>3. PICK s \in [1 .. n -> Byte] : Store(pos, s)
      BY <2>1
    <2>4. size' \in {size, pos + n}
      BY <1>2 DEF WriteFault
    <2>5. Positions'
      BY <2>1, <2>2, AtMoves
    <2> QED BY <2>2, <2>3, <2>4, <2>5, StoreKeepsSound
  <1> QED BY <1>1, <1>2

LEMMA EmptySound == ASSUME scull_trim PROVE Stored'
  BY LengthPositive DEF scull_trim, Stored, StoreSound

LEMMA SameStore == ASSUME Stored, UNCHANGED storeVars PROVE Stored'
  BY DEF Stored, StoreSound, storeVars

LEMMA NextInv == ASSUME Inv, [Next]_vars PROVE Inv'
  <1>1. CASE UNCHANGED vars
    BY <1>1, SameStore DEF Inv, vars, Places, Positions, SemaphoreExact
  <1>2. ASSUME NEW p \in Procs, Open(p) \/ Close(p) \/ Entering(p) PROVE Inv'
    <2>1. UNCHANGED storeVars
      BY <1>2, EnteringDown DEF Open, Close
    <2>2. f_pos' = f_pos \/ f_pos' = [f_pos EXCEPT ![p] = 0]
      BY <1>2, EnteringDown DEF Open, Opened, Close
    <2>3. Positions'
      BY <2>2, LengthPositive DEF Inv, Positions
    <2> QED BY <1>2, <2>1, <2>3, SameStore, PlacesInv DEF Inv
  <1>3. ASSUME NEW p \in Procs, Leaving(p) PROVE Inv'
    <2>1. Places'
      BY <1>3, PlacesInv DEF Inv
    <2>2. CASE Trim(p) \/ ShowEnd(p)
      <3>1. Positions'
        BY <2>2 DEF Trim, ShowEnd, Inv, Positions
      <3>2. Stored'
        BY <2>2, EmptySound, SameStore DEF Trim, ShowEnd, Inv
      <3> QED BY <2>1, <3>1, <3>2 DEF Inv
    <2>3. CASE ReadEnd(p) \/ ReadHole(p) \/ ReadData(p) \/ ReadFault(p)
      BY <2>1, <2>3, ReadPositions, ReadKeeps, SameStore DEF Inv
    <2>4. CASE WriteNoItem(p) \/ WriteNoQuantum(p)
      BY <2>1, <2>4, WriteNoMemoryInv DEF Inv
    <2>5. CASE WriteData(p) \/ WriteFault(p)
      BY <2>1, <2>5, WriteStores DEF Inv
    <2> QED BY <1>3, <2>2, <2>3, <2>4, <2>5 DEF Leaving, Body
  <1> QED BY <1>1, <1>2, <1>3 DEF Next, Entering, Leaving, Body

-----------------------------------------------------------------------------
(* main.c: the types of the semaphore, the files, the list and its memory. *)
THEOREM TypeCorrect == Spec => []TypeInvariant
  <1>1. Inv => TypeInvariant
    BY InvIs
  <1> QED BY InitInv, NextInv, <1>1, PTL DEF Spec

(* main.c 170-276: no path through a body leaves dev->sem taken or gives   *)
(* it back twice, so no two processes are ever in the device.              *)
THEOREM SemaphoreCorrect == Spec => []SemaphoreExact
  <1>1. Inv => SemaphoreExact
    BY InvIs
  <1> QED BY InitInv, NextInv, <1>1, PTL DEF Spec

(* main.c 51-75 and 227-276: after any sequence of writes, failed          *)
(* allocations and truncations the list reaches every allocated array and  *)
(* quantum and the last byte of the file.                                  *)
THEOREM StoreCorrect == Spec => []StoreSound
  <1>1. Inv => StoreSound
    BY InvIs
  <1> QED BY InitInv, NextInv, <1>1, PTL DEF Spec

(* main.c 185-226: reading never makes the list longer, so a device open   *)
(* for reading cannot be made to use memory.                               *)
THEOREM ReadsCorrect == Spec => ReadsDontAllocate
  <1> DEFINE A == \A p \in Procs : pc[p] = "read" /\ pc'[p] # "read" => chain' = chain
  <1>1. ASSUME Inv, [Next]_vars PROVE [A]_vars
    <2> SUFFICES ASSUME Next, NEW p \in Procs, pc[p] = "read", pc'[p] # "read"
                 PROVE  chain' = chain
      BY <1>1
    <2>1. PICK q \in Procs :
            Entering(q) \/ Leaving(q) \/ Open(q) \/ Close(q)
      BY DEF Next, Entering, Leaving, Body
    <2>2. \A l : pc' = [pc EXCEPT ![q] = l] => q = p
      BY <1>1 DEF Inv, Places
    <2>3. q = p
      BY <2>1, <2>2, EnteringDown, LeavingOut DEF Open, Close, Goto
    <2>4. ReadEnd(p) \/ ReadHole(p) \/ ReadData(p) \/ ReadFault(p)
      BY <2>1, <2>3, EnteringDown DEF Leaving, Body, Trim, ShowEnd, WriteNoItem,
           WriteNoQuantum, WriteData, WriteFault, Open, Close
    <2> QED BY <1>1, <2>4, ReadKeeps DEF Inv, storeVars
  <1> QED BY InitInv, NextInv, <1>1, PTL DEF Spec, ReadsDontAllocate

-----------------------------------------------------------------------------
(***************************************************************************)
(* The device implements ScullFile.  A call in its body has not yet        *)
(* reported a transfer, which is when ScullFile may make one.              *)
(***************************************************************************)
NothingReported == sem = 0 => io = NoIo

LEMMA ReportedInit == Init => NothingReported
  BY DEF Init, NothingReported

LEMMA ReportedNext == ASSUME Inv, NothingReported, [Next]_vars PROVE NothingReported'
  <1>1. CASE UNCHANGED vars
    BY <1>1 DEF vars, NothingReported
  <1>2. ASSUME NEW p \in Procs, Open(p) \/ Close(p) PROVE NothingReported'
    BY <1>2 DEF Open, Close, NothingReported
  <1>3. ASSUME NEW p \in Procs, Entering(p) PROVE NothingReported'
    BY <1>3 DEF Entering, OpenWriteOnly, ReadBegin, WriteBegin, ShowBegin, Down,
                NothingReported
  <1>4. ASSUME NEW p \in Procs, Leaving(p) PROVE NothingReported'
    <2>1. sem' # 0
      BY <1>4, LeavingOut DEF Inv, Places
    <2> QED BY <2>1 DEF NothingReported
  <1> QED BY <1>1, <1>2, <1>3, <1>4 DEF Next, Entering, Leaving, Body

LEMMA BodyNotReported ==
  ASSUME Inv, NothingReported, NEW p \in Procs, Leaving(p)
  PROVE  io = NoIo
  <1>1. sem = 0
    BY LeavingOut DEF Inv, Places, SemaphoreExact
  <1> QED BY <1>1 DEF NothingReported

(* same quanta, same content *)
LEMMA SameContent == ASSUME mem' = mem PROVE Content' = Content
  BY DEF Content

LEMMA ContentAt ==
  /\ \A x : x \in DOMAIN Content <=> x \in 0 .. Length - 1 /\ Quant(x) \in DOMAIN mem
  /\ \A x \in DOMAIN Content : Content[x] = mem[Quant(x)][Offset(x)]
  BY DEF Content

(* the blocks of the file are the quanta *)
LEMMA BlockIsQuantum ==
  ASSUME NEW pos
  PROVE  \A x : x \in File!BlockOf(pos) <=> x \in 0 .. Length - 1 /\ Quant(x) = Quant(pos)
  BY DEF File!BlockOf, Quant

(* a stretch that begins in a quantum and does not leave it *)
LEMMA Stretch ==
  ASSUME NEW pos \in 0 .. Length - 1, NEW n \in Nat, n <= Quantum - Offset(pos)
  PROVE  /\ File!Span(pos, n) \subseteq File!BlockOf(pos)
         /\ \A x \in File!Span(pos, n) : Offset(x) = Offset(pos) + (x - pos)
  <1>1. SUFFICES ASSUME NEW x \in File!Span(pos, n)
                 PROVE  x \in File!BlockOf(pos) /\ Offset(x) = Offset(pos) + (x - pos)
    OBVIOUS
  <1>2. pos \in Nat /\ Length \in Nat
    BY LengthPositive
  <1>3. Offset(pos) \in 0 .. Quantum - 1 /\ pos + (Quantum - Offset(pos)) <= Length
    BY <1>2, Position, PositionBounds
  <1>4. /\ x - pos \in 0 .. Quantum - 1 - Offset(pos) /\ pos + (x - pos) = x
        /\ x \in 0 .. Length - 1
    BY <1>2, <1>3 DEF File!Span
  <1>5. Quant(x) = Quant(pos) /\ Offset(x) = Offset(pos) + (x - pos)
    BY <1>2, <1>4, SameQuantum
  <1> QED BY <1>4, <1>5, BlockIsQuantum

(* The store gives the quantum to the content, and changes it at the       *)
(* positions of its bytes only.                                            *)
LEMMA StoreOverwrites ==
  ASSUME Stored, NEW pos \in 0 .. Length - 1, NEW n \in Nat,
         n <= Quantum - Offset(pos), NEW s \in [1 .. n -> Byte], Store(pos, s)
  PROVE  File!Overwrite(pos, s)
  <1>1. Len(s) = n
    BY Tuple
  <1>2. pos \in Nat /\ Offset(pos) \in 0 .. Quantum - 1
    <2>1. pos \in Nat
      BY LengthPositive
    <2> QED BY <2>1, Position
  <1>3. DOMAIN mem' = DOMAIN mem \union {Quant(pos)}
    BY DEF Store
  <1> DEFINE D == {y \in 0 .. Length - 1 : Quant(y) \in DOMAIN mem'}
             New(x) == IF x \in File!Span(pos, n) THEN s[x - pos + 1]
                       ELSE IF x \in DOMAIN Content THEN Content[x] ELSE Junk
  <1>4. D = DOMAIN Content \union File!BlockOf(pos)
    BY <1>3, ContentAt, BlockIsQuantum
  <1>5. ASSUME NEW x \in D PROVE mem'[Quant(x)][Offset(x)] = New(x)
    <2>1. x \in Nat /\ x \in 0 .. Length - 1 /\ Quant(x) \in DOMAIN mem'
      BY LengthPositive
    <2>2. Offset(x) \in 0 .. Quantum - 1
      BY <2>1, Position
    <2>3. CASE Quant(x) # Quant(pos)
      <3>1. x \notin File!Span(pos, n)
        BY <2>3, Stretch, BlockIsQuantum
      <3>2. x \in DOMAIN Content /\ Content[x] = mem[Quant(x)][Offset(x)]
        BY <1>3, <2>1, <2>3, ContentAt
      <3>3. mem'[Quant(x)] = mem[Quant(x)]
        BY <2>1, <2>3 DEF Store
      <3> QED BY <3>1, <3>2, <3>3
    <2>4. CASE Quant(x) = Quant(pos)
      <3>1. x - pos = Offset(x) - Offset(pos)
        <4> DEFINE b == Quantum * Quant(pos)
        <4>1. b \in Nat
          BY <1>2, Position, ProductMonotonic
        <4>2. x = b + Offset(x) /\ pos = b + Offset(pos)
          BY <1>2, <2>1, <2>4, Position
        <4> HIDE DEF b
        <4> QED BY <1>2, <2>1, <2>2, <4>1, <4>2
      <3>2. mem'[Quant(x)] = [o \in 0 .. Quantum - 1 |->
                                IF o \in Offset(pos) .. Offset(pos) + Len(s) - 1
                                THEN s[o - Offset(pos) + 1] ELSE Allocated(pos)[o]]
        BY <2>1, <2>4 DEF Store
      <3>3. mem'[Quant(x)][Offset(x)] =
              IF Offset(x) \in Offset(pos) .. Offset(pos) + Len(s) - 1
              THEN s[Offset(x) - Offset(pos) + 1] ELSE Allocated(pos)[Offset(x)]
        BY <2>2, <3>2
      <3>4. /\ Offset(x) \in Offset(pos) .. Offset(pos) + Len(s) - 1
                 <=> x \in File!Span(pos, n)
            /\ Offset(x) - Offset(pos) + 1 = x - pos + 1
        BY <1>1, <1>2, <2>1, <2>2, <3>1 DEF File!Span
      <3>5. Allocated(pos)[Offset(x)] = IF x \in DOMAIN Content THEN Content[x] ELSE Junk
        BY <2>1, <2>2, <2>4, ContentAt DEF Allocated
      <3> QED BY <3>3, <3>4, <3>5
    <2> QED BY <2>3, <2>4
  <1>6. Content' = [x \in D |-> mem'[Quant(x)][Offset(x)]]
    BY DEF Content
  <1>7. Content' = [x \in D |-> New(x)]
    BY <1>5, <1>6
  <1> QED BY <1>1, <1>4, <1>7 DEF File!Overwrite

FileStep == [File!Next]_<<Content, size, io>>

LEMMA NoQuanta == ASSUME DOMAIN mem = {} PROVE Content = File!Nothing
  BY DEF Content, File!Nothing

LEMMA NoQuantaLeft == ASSUME DOMAIN mem' = {} PROVE Content' = File!Nothing
  BY DEF Content, File!Nothing

LEMMA InitRefines == Init => File!Init
  BY NoQuanta DEF Init, File!Init, NoIo, File!NoIo

(* Opens, closes and entries into a body are silent, or withdraw a report. *)
LEMMA OutsideRefines ==
  ASSUME NEW p \in Procs, Open(p) \/ Close(p) \/ Entering(p)
  PROVE  FileStep
  <1>1. UNCHANGED <<mem, size>> /\ (io' = io \/ io' = NoIo)
    BY DEF Open, Close, Entering, OpenWriteOnly, ReadBegin, WriteBegin, ShowBegin,
           Down, storeVars
  <1>2. Content' = Content
    BY <1>1, SameContent
  <1> QED BY <1>1, <1>2 DEF FileStep, File!Next, File!Done, NoIo, File!NoIo

LEMMA TrimRefines ==
  ASSUME NEW p \in Procs, Trim(p) \/ ShowEnd(p)
  PROVE  FileStep
  <1>1. CASE Trim(p)
    <2>1. DOMAIN mem' = {} /\ size' = 0 /\ io' = io
      BY <1>1 DEF Trim, scull_trim
    <2>2. Content' = File!Nothing
      BY <2>1, NoQuantaLeft
    <2> QED BY <2>1, <2>2 DEF FileStep, File!Next, File!Truncate
  <1>2. CASE ShowEnd(p)
    BY <1>2, SameContent DEF ShowEnd, storeVars, FileStep
  <1> QED BY <1>1, <1>2

(* A call that delivers nothing: at the end of the file, or at a hole. *)
LEMMA NothingRead ==
  ASSUME NEW pos \in Nat, NEW c \in Nat, pos >= size \/ pos \notin DOMAIN Content,
         UNCHANGED <<Content, size>>,
         io' = [op |-> "read", pos |-> pos, count |-> c, bytes |-> <<>>]
  PROVE  File!Read(pos, c)
  <1> DEFINE E == {m \in 0 .. c : File!Span(pos, m) \subseteq DOMAIN Content}
  <1>1. 0 \in E
    BY DEF File!Span
  <1>2. [i \in 1 .. 0 |-> Content[pos + i - 1]] = <<>>
    OBVIOUS
  <1> QED BY <1>1, <1>2 DEF File!Read

(* A read delivers what its positions hold. *)
LEMMA ReadRefines ==
  ASSUME Inv, NothingReported, NEW p \in Procs,
         ReadEnd(p) \/ ReadHole(p) \/ ReadData(p) \/ ReadFault(p)
  PROVE  FileStep
  <1> USE DEF Inv
  <1>1. UNCHANGED <<Content, size>>
    BY ReadKeeps, SameContent DEF storeVars
  <1>2. io = File!NoIo
    BY BodyNotReported DEF Leaving, Body, NoIo, File!NoIo
  <1>3. size \in Nat /\ Length \in Nat
    BY LengthPositive DEF Stored
  <1> SUFFICES ASSUME ~ReadFault(p)
               PROVE  \E pos \in 0 .. Length, c \in Counts : File!Read(pos, c)
    BY <1>1, <1>2 DEF FileStep, File!Next, ReadFault
  <1>4. CASE ReadEnd(p)
    <2>1. PICK pos \in 0 .. Length, c \in Counts : pos >= size /\ Delivered(p, pos, c, <<>>)
      BY <1>4 DEF ReadEnd
    <2>2. File!Read(pos, c)
      BY <1>1, <1>3, <2>1, NothingRead DEF Delivered
    <2> QED BY <2>2
  <1>5. CASE ReadHole(p)
    <2>1. PICK pos \in 0 .. size - 1, c \in Counts, ok \in BOOLEAN :
            /\ Follow(Item(pos), ok) /\ (ok => Quant(pos) \notin DOMAIN mem)
            /\ Delivered(p, pos, c, <<>>)
      BY <1>5 DEF ReadHole
    <2>2. ok /\ pos \in Nat /\ pos \in 0 .. Length
      BY <1>3, <2>1, FollowFinds, BelowSize
    <2>3. pos \notin DOMAIN Content
      BY <2>1, <2>2, ContentAt
    <2>4. File!Read(pos, c)
      BY <1>1, <2>1, <2>2, <2>3, NothingRead DEF Delivered
    <2> QED BY <2>2, <2>4
  <1>6. CASE ReadData(p)
    <2>1. PICK pos \in 0 .. size - 1, c \in Counts :
            Quant(pos) \in DOMAIN mem /\ Delivered(p, pos, c, Found(pos, c))
      BY <1>6 DEF ReadData
    <2> DEFINE s == Found(pos, c)
               n == Len(s)
    <2>2. /\ n \in 0 .. c /\ n <= size - pos /\ n <= Quantum - Offset(pos)
          /\ c > 0 => n > 0
          /\ s \in [1 .. n -> Byte \union {Junk}]
          /\ \A i \in 1 .. n : s[i] = mem[Quant(pos)][Offset(pos) + i - 1]
      BY <2>1, FoundBounds
    <2>3. pos \in Nat /\ pos \in 0 .. Length - 1 /\ pos \in 0 .. Length /\ c \in Nat
      BY <1>3, BelowSize
    <2>4. io' = [op |-> "read", pos |-> pos, count |-> c, bytes |-> s]
      BY <2>1 DEF Delivered
    <2> HIDE DEF s, n
    <2>5. n \in Nat
      BY <2>2, <2>3
    <2>6. File!Span(pos, n) \subseteq DOMAIN Content
      BY <2>1, <2>2, <2>3, <2>5, Stretch, BlockIsQuantum, ContentAt
    <2>7. ASSUME NEW i \in 1 .. n PROVE s[i] = Content[pos + i - 1]
      <3>1. pos + i - 1 \in File!Span(pos, n)
        BY <2>3, <2>5 DEF File!Span
      <3>2. /\ Quant(pos + i - 1) = Quant(pos)
            /\ Offset(pos + i - 1) = Offset(pos) + ((pos + i - 1) - pos)
        BY <2>2, <2>3, <2>5, <3>1, Stretch, BlockIsQuantum
      <3>3. Offset(pos) \in Int /\ Offset(pos) + ((pos + i - 1) - pos) = Offset(pos) + i - 1
        <4>1. Offset(pos) \in Nat
          BY <2>3, Position
        <4> HIDE DEF Offset
        <4> QED BY <2>3, <2>5, <4>1
      <3>4. Content[pos + i - 1] = mem[Quant(pos)][Offset(pos) + i - 1]
        BY <2>6, <3>1, <3>2, <3>3, ContentAt
      <3> QED BY <2>2, <3>4
    <2>8. s = [i \in 1 .. n |-> Content[pos + i - 1]]
      BY <2>2, <2>7
    <2>9. (n > 0 => pos + n <= size) /\ (n = 0 => c = 0)
      BY <1>3, <2>2, <2>3, <2>5
    <2>10. File!Read(pos, c)
      BY <1>1, <2>2, <2>4, <2>6, <2>8, <2>9 DEF File!Read
    <2> QED BY <2>3, <2>10
  <1> QED BY <1>4, <1>5, <1>6

(* A write stores what ScullFile lets it store, or nothing. *)
LEMMA WriteRefines ==
  ASSUME Inv, NothingReported, NEW p \in Procs,
         WriteNoItem(p) \/ WriteNoQuantum(p) \/ WriteData(p) \/ WriteFault(p)
  PROVE  FileStep
  <1> USE DEF Inv
  <1>1. io = File!NoIo
    BY BodyNotReported DEF Leaving, Body, NoIo, File!NoIo
  <1>2. CASE WriteNoItem(p) \/ WriteNoQuantum(p)
    BY <1>2, SameContent DEF WriteNoItem, WriteNoQuantum, FileStep
  <1>3. CASE WriteData(p)
    <2>1. PICK pos \in 0 .. Length - 1, c \in Counts :
            \E s \in [1 .. Fits(pos, c) -> Byte] :
              /\ Store(pos, s)
              /\ size' = IF size < pos + Len(s) THEN pos + Len(s) ELSE size
              /\ io' = [op |-> "write", pos |-> pos, count |-> c, bytes |-> s]
      BY <1>3 DEF WriteData
    <2> DEFINE n == Fits(pos, c)
    <2>2. /\ n \in 0 .. c /\ n <= Quantum - Offset(pos) /\ pos + n <= Length
          /\ pos \in Nat /\ c \in Nat /\ Length \in Nat /\ (c > 0 => n > 0)
      BY FitsBounds, LengthPositive
    <2> HIDE DEF n
    <2>3. PICK s \in [1 .. n -> Byte] :
              /\ Store(pos, s)
              /\ size' = IF size < pos + Len(s) THEN pos + Len(s) ELSE size
              /\ io' = [op |-> "write", pos |-> pos, count |-> c, bytes |-> s]
      BY <2>1 DEF n
    <2>4. n \in Nat /\ Len(s) = n
      BY <2>2, Tuple
    <2>5. File!Span(pos, n) \subseteq File!BlockOf(pos)
      BY <2>2, <2>4, Stretch
    <2>6. File!Overwrite(pos, s)
      BY <2>2, <2>3, <2>4, StoreOverwrites
    <2>7. File!Write(pos, c)
      BY <2>2, <2>3, <2>4, <2>5, <2>6 DEF File!Write
    <2> QED BY <1>1, <2>7 DEF FileStep, File!Next
  <1>4. CASE WriteFault(p)
    <2>1. PICK pos \in 0 .. Length - 1, c \in Counts :
            \E n \in 0 .. Fits(pos, c) - 1 : \E s \in [1 .. n -> Byte] : Store(pos, s)
      BY <1>4 DEF WriteFault
    <2>2. PICK n \in 0 .. Fits(pos, c) - 1 : \E s \in [1 .. n -> Byte] : Store(pos, s)
      BY <2>1
    <2>3. PICK s \in [1 .. n -> Byte] : Store(pos, s)
      BY <2>2
    <2>4. Fits(pos, c) \in 0 .. c /\ Fits(pos, c) <= Quantum - Offset(pos) /\ c \in Nat
      BY FitsBounds
    <2>5. Offset(pos) \in Nat
      <3>1. pos \in Nat
        BY FitsBounds
      <3> QED BY <3>1, Position
    <2>6. n \in Nat /\ n <= Quantum - Offset(pos) /\ n \in 0 .. c - 1
      BY <2>4, <2>5
    <2>7. File!Overwrite(pos, s) /\ File!Span(pos, n) \subseteq File!BlockOf(pos)
      BY <2>3, <2>6, StoreOverwrites, Stretch
    <2>8. UNCHANGED <<size, io>>
      BY <1>4 DEF WriteFault
    <2>9. File!FailedWrite(pos, c)
      BY <2>3, <2>6, <2>7, <2>8 DEF File!FailedWrite
    <2> QED BY <1>1, <2>9 DEF FileStep, File!Next
  <1> QED BY <1>2, <1>3, <1>4

LEMMA NextRefines == ASSUME Inv, NothingReported, [Next]_vars PROVE FileStep
  <1>1. CASE UNCHANGED vars
    BY <1>1, SameContent DEF vars, storeVars, FileStep
  <1> QED BY <1>1, OutsideRefines, TrimRefines, ReadRefines, WriteRefines
          DEF Next, Entering

(* main.c 142-276: the device implements the file of ScullFile, for every  *)
(* number of processes and every size of quanta, quantum sets and lists.   *)
(* A read delivers exactly what its positions hold: the bytes last written *)
(* there since the truncation and, where nothing was written in a quantum  *)
(* that is there, the memory that line 254 does not clear.                 *)
THEOREM FileRefined == Spec => ImplementsFile
  <1>1. Inv /\ NothingReported /\ [Next]_vars
          => [File!Next]_<<Content, size, io>>
    BY NextRefines DEF FileStep
  <1> QED BY InitInv, NextInv, ReportedInit, ReportedNext, InitRefines, <1>1, PTL
          DEF Spec, ImplementsFile, File!Spec
=============================================================================
