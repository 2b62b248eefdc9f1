------------------------------ MODULE ScullFile ------------------------------
(***************************************************************************)
(* What the bare scull device is, seen from its calls: a file with holes.  *)
(* It gets storage one block at a time, by the writes, and loses all of it *)
(* when it is truncated.  A read delivers what its positions hold and no   *)
(* other byte: the one last written there since the truncation or, where   *)
(* the block has storage and nothing was written, Junk, because the block  *)
(* is not cleared when it gets its storage.  A read delivers none before   *)
(* the end of the file only at a position without storage.                 *)
(***************************************************************************)
EXTENDS Integers, Sequences

CONSTANTS Byte, Junk, Length, Block, Counts

VARIABLES
  file,    \* what the positions that have storage hold
  size,
  io       \* the transfer a call has just made

NoIo == [op |-> "none", pos |-> 0, count |-> 0, bytes |-> <<>>]
Nothing == [x \in {} |-> Junk]

Init == file = Nothing /\ size = 0 /\ io = NoIo

BlockOf(pos) == {x \in 0 .. Length - 1 : x \div Block = pos \div Block}
Span(pos, n) == pos .. pos + n - 1

(* the block of pos has storage from now on, and holds s from pos on *)
Overwrite(pos, s) ==
  file' = [x \in DOMAIN file \union BlockOf(pos) |->
             IF x \in Span(pos, Len(s)) THEN s[x - pos + 1]
             ELSE IF x \in DOMAIN file THEN file[x] ELSE Junk]

(* a write stores up to the end of a block, and something of it *)
Write(pos, c) ==
  \E n \in {m \in 0 .. c : Span(pos, m) \subseteq BlockOf(pos)} : \E s \in [1 .. n -> Byte] :
    /\ c > 0 => n > 0
    /\ io' = [op |-> "write", pos |-> pos, count |-> c, bytes |-> s]
    /\ size' = IF size < pos + n THEN pos + n ELSE size
    /\ Overwrite(pos, s)

(* a write that fails has stored less than it was asked for, and the size  *)
(* does not show it                                                        *)
FailedWrite(pos, c) ==
  /\ UNCHANGED <<size, io>>
  /\ \E n \in {m \in 0 .. c - 1 : Span(pos, m) \subseteq BlockOf(pos)} :
       \E s \in [1 .. n -> Byte] : Overwrite(pos, s)

Read(pos, c) ==
  \E n \in {m \in 0 .. c : Span(pos, m) \subseteq DOMAIN file} :
    /\ n > 0 => pos + n <= size
    /\ n = 0 => c = 0 \/ pos >= size \/ pos \notin DOMAIN file
    /\ io' = [op |-> "read", pos |-> pos, count |-> c,
              bytes |-> [i \in 1 .. n |-> file[pos + i - 1]]]
    /\ UNCHANGED <<file, size>>

Truncate == file' = Nothing /\ size' = 0 /\ UNCHANGED io

Done == io' = NoIo /\ UNCHANGED <<file, size>>

Next == \/ Done \/ Truncate
        \/ /\ io = NoIo
           /\ \E pos \in 0 .. Length - 1, c \in Counts : Write(pos, c) \/ FailedWrite(pos, c)
        \/ /\ io = NoIo
           /\ \E pos \in 0 .. Length, c \in Counts : Read(pos, c)

Spec == Init /\ [][Next]_<<file, size, io>>
=============================================================================
