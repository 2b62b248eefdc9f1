------------------------- MODULE ScullAccessProofs -------------------------
(***************************************************************************)
(* Theorems about the restricted-open devices of ScullAccess, for any      *)
(* finite set of processes and any users.                                  *)
(***************************************************************************)
EXTENDS ScullAccess, FiniteSetTheorems, TLAPS

(* the places that belong to one device only *)
OwnPlaces ==
  /\ device # "scullsingle" => \A p \in Procs : pc[p] # "undo"
  /\ device # "scullwuid" => \A p \in Procs : pc[p] \notin Waiting \union {"wake"}

SemaphoreExact ==
  /\ sem = 0 <=> \E p \in Procs : pc[p] = "io"
  /\ \A p, q \in Procs : pc[p] = "io" /\ pc[q] = "io" => p = q

WakerActive == \E q \in Procs : pc[q] = "wake"

(* A task still on the queue: once it has found the count not 0, the count *)
(* becomes 0 only with a wake-up under way; asleep, it is shut out.        *)
WaitersAsleep ==
  \A p \in wait : \/ WakerActive
                  \/ /\ pc[p] = "check2" => count # 0
                     /\ pc[p] = "sched" => ~available(p)

Core == TypeInvariant /\ OwnPlaces /\ SemaphoreExact /\ CountExact

Inv == Core /\ OneOpener /\ OwnersOnly /\ WaitersAsleep

USE ProcsAssumption

-----------------------------------------------------------------------------
(***************************************************************************)
(* Counting the processes at a set L of places when one of them moves.     *)
(***************************************************************************)
At(L) == {p \in Procs : pc[p] \in L}

(* the processes at L are finitely many *)
LEMMA AtFinite == \A L : IsFiniteSet(At(L)) /\ Cardinality(At(L)) \in Nat
  BY FS_Subset, FS_CardinalityType DEF At

(* p joins the set, leaves it, or neither *)
LEMMA Moved ==
  ASSUME NEW Loc, pc \in [Procs -> Loc], NEW p \in Procs, NEW l,
         pc' = [pc EXCEPT ![p] = l], NEW L
  PROVE  /\ pc[p] \notin L /\ l \in L
              => Cardinality(At(L))' = Cardinality(At(L)) + 1
         /\ pc[p] \in L /\ l \notin L
              => Cardinality(At(L))' = Cardinality(At(L)) - 1
         /\ (pc[p] \in L <=> l \in L) => Cardinality(At(L))' = Cardinality(At(L))
  <1>1. CASE pc[p] \notin L /\ l \in L
    <2>1. At(L)' = At(L) \union {p} /\ p \notin At(L)
      BY <1>1 DEF At
    <2> QED BY <1>1, <2>1, AtFinite, FS_AddElement
  <1>2. CASE pc[p] \in L /\ l \notin L
    <2>1. At(L)' = At(L) \ {p} /\ p \in At(L)
      BY <1>2 DEF At
    <2> QED BY <1>2, <2>1, AtFinite, FS_RemoveElement
  <1>3. CASE pc[p] \in L <=> l \in L
    <2>1. At(L)' = At(L)
      BY <1>3 DEF At
    <2> QED BY <1>3, <2>1
  <1> QED BY <1>1, <1>2, <1>3

InsidePlaces == {"admitted", "trim", "open", "io"}

(* the two sets that the property counts, as sets of places *)
LEMMA InsideAt == Inside = At(InsidePlaces) /\ Undoing = At({"undo"})
  BY DEF Inside, Undoing, At, InsidePlaces

(* a count of 0 means that nobody is inside *)
LEMMA NobodyInside ==
  ASSUME Cardinality(Inside) = 0
  PROVE  Inside = {}
  BY InsideAt, AtFinite, FS_EmptySet

(* what a step of p from its place to l does to the two counts *)
LEMMA CountMoved ==
  ASSUME TypeInvariant, NEW p \in Procs, NEW l, pc' = [pc EXCEPT ![p] = l]
  PROVE  /\ pc[p] \notin InsidePlaces /\ l \in InsidePlaces
              => Cardinality(Inside)' = Cardinality(Inside) + 1
         /\ pc[p] \in InsidePlaces /\ l \notin InsidePlaces
              => Cardinality(Inside)' = Cardinality(Inside) - 1
         /\ (pc[p] \in InsidePlaces <=> l \in InsidePlaces)
              => Cardinality(Inside)' = Cardinality(Inside)
         /\ pc[p] # "undo" /\ l = "undo"
              => Cardinality(Undoing)' = Cardinality(Undoing) + 1
         /\ pc[p] = "undo" /\ l # "undo"
              => Cardinality(Undoing)' = Cardinality(Undoing) - 1
         /\ pc[p] # "undo" /\ l # "undo"
              => Cardinality(Undoing)' = Cardinality(Undoing)
         /\ Cardinality(Inside) \in Nat /\ Cardinality(Inside)' \in Nat
         /\ Cardinality(Undoing) \in Nat /\ Cardinality(Undoing)' \in Nat
  <1>1. PICK Loc : pc \in [Procs -> Loc]
    BY DEF TypeInvariant
  <1>2. Inside' = At(InsidePlaces)' /\ Undoing' = At({"undo"})'
    BY DEF Inside, Undoing, At, InsidePlaces
  <1>3. /\ IsFiniteSet(At(InsidePlaces)') /\ IsFiniteSet(At({"undo"})')
    BY FS_Subset DEF At
  <1>4. Cardinality(Inside)' \in Nat /\ Cardinality(Undoing)' \in Nat
    BY <1>2, <1>3, FS_CardinalityType
  <1>5. Cardinality(Inside) \in Nat /\ Cardinality(Undoing) \in Nat
    BY InsideAt, AtFinite
  <1>6. /\ pc[p] \notin InsidePlaces /\ l \in InsidePlaces
             => Cardinality(At(InsidePlaces))' = Cardinality(At(InsidePlaces)) + 1
        /\ pc[p] \in InsidePlaces /\ l \notin InsidePlaces
             => Cardinality(At(InsidePlaces))' = Cardinality(At(InsidePlaces)) - 1
        /\ (pc[p] \in InsidePlaces <=> l \in InsidePlaces)
             => Cardinality(At(InsidePlaces))' = Cardinality(At(InsidePlaces))
    BY <1>1, Moved
  <1>7. /\ pc[p] \notin {"undo"} /\ l \in {"undo"}
             => Cardinality(At({"undo"}))' = Cardinality(At({"undo"})) + 1
        /\ pc[p] \in {"undo"} /\ l \notin {"undo"}
             => Cardinality(At({"undo"}))' = Cardinality(At({"undo"})) - 1
        /\ (pc[p] \in {"undo"} <=> l \in {"undo"})
             => Cardinality(At({"undo"}))' = Cardinality(At({"undo"}))
    BY <1>1, Moved
  <1>8. /\ Inside = At(InsidePlaces) /\ Undoing = At({"undo"})
        /\ Cardinality(Inside)' = Cardinality(At(InsidePlaces))'
        /\ Cardinality(Undoing)' = Cardinality(At({"undo"}))'
    BY <1>2, InsideAt
  <1> QED BY <1>4, <1>5, <1>6, <1>7, <1>8

(* a step inside the device, or outside it, changes no count *)
LEMMA CountKept ==
  ASSUME TypeInvariant, CountExact, NEW p \in Procs, NEW l,
         pc' = [pc EXCEPT ![p] = l], UNCHANGED <<device, countVars>>,
         pc[p] \in InsidePlaces <=> l \in InsidePlaces, pc[p] # "undo", l # "undo"
  PROVE  CountExact'
  BY CountMoved DEF CountExact, countVars

-----------------------------------------------------------------------------
(***************************************************************************)
(* Core is inductive                                                       *)
(***************************************************************************)
(* the devices start with nobody inside and the semaphore free *)
LEMMA CoreInit == Init => Core
  <1> SUFFICES ASSUME Init PROVE Core
    OBVIOUS
  <1>1. TypeInvariant /\ OwnPlaces /\ SemaphoreExact
    BY DEF Init, TypeInvariant, OwnPlaces, SemaphoreExact, Waiting
  <1>2. Inside = {} /\ Undoing = {}
    BY DEF Init, Inside, Undoing
  <1>3. CountExact
    BY <1>2, FS_EmptySet DEF Init, CountExact
  <1> QED BY <1>1, <1>3 DEF Core

(* the steps that change no counter *)
Quiet(p) == \/ WOpen(p) \/ WRefuse(p) \/ WPrepare(p) \/ WCheckCount(p)
            \/ WCheckOwner(p) \/ WAwake(p) \/ WWake(p) \/ Signal(p)
            \/ Trim(p) \/ Opened(p) \/ UseBegin(p) \/ UseEnd(p)

(* none of them breaks Core *)
LEMMA QuietCore ==
  ASSUME Core, NEW p \in Procs, Quiet(p)
  PROVE  Core'
  <1> USE DEF Goto, Return, countVars, waitVars
  <1>1. TypeInvariant /\ OwnPlaces /\ SemaphoreExact /\ CountExact
    BY DEF Core
  <1>2. CASE WOpen(p)
    <2>1. TypeInvariant' /\ OwnPlaces' /\ SemaphoreExact'
      BY <1>1, <1>2 DEF WOpen, TypeInvariant, OwnPlaces, SemaphoreExact, Waiting
    <2>2. CountExact'
      BY <1>1, <1>2, CountKept DEF WOpen, InsidePlaces
    <2> QED BY <2>1, <2>2 DEF Core
  <1>3. CASE WRefuse(p)
    <2>1. TypeInvariant' /\ OwnPlaces' /\ SemaphoreExact'
      BY <1>1, <1>3 DEF WRefuse, TypeInvariant, OwnPlaces, SemaphoreExact, Waiting
    <2>2. CountExact'
      BY <1>1, <1>3, CountKept DEF WRefuse, InsidePlaces
    <2> QED BY <2>1, <2>2 DEF Core
  <1>4. CASE WPrepare(p)
    <2>1. TypeInvariant' /\ OwnPlaces' /\ SemaphoreExact'
      BY <1>1, <1>4 DEF WPrepare, TypeInvariant, OwnPlaces, SemaphoreExact, Waiting
    <2>2. CountExact'
      BY <1>1, <1>4, CountKept DEF WPrepare, InsidePlaces
    <2> QED BY <2>1, <2>2 DEF Core
  <1>5. CASE WCheckCount(p)
    <2>1. TypeInvariant' /\ OwnPlaces' /\ SemaphoreExact'
      BY <1>1, <1>5 DEF WCheckCount, TypeInvariant, OwnPlaces, SemaphoreExact, Waiting
    <2>2. CountExact'
      BY <1>1, <1>5, CountKept DEF WCheckCount, InsidePlaces
    <2> QED BY <2>1, <2>2 DEF Core
  <1>6. CASE WCheckOwner(p)
    <2>1. TypeInvariant' /\ OwnPlaces' /\ SemaphoreExact'
      <3>1. TypeInvariant'
        BY <1>1, <1>6 DEF WCheckOwner, TypeInvariant, Waiting
      <3>2. OwnPlaces'
        BY <1>1, <1>6 DEF WCheckOwner, TypeInvariant, OwnPlaces, Waiting
      <3>3. SemaphoreExact'
        BY <1>1, <1>6 DEF WCheckOwner, TypeInvariant, SemaphoreExact, Waiting
      <3> QED BY <3>1, <3>2, <3>3
    <2>2. CountExact'
      BY <1>1, <1>6, CountKept DEF WCheckOwner, InsidePlaces
    <2> QED BY <2>1, <2>2 DEF Core
  <1>7. CASE WAwake(p)
    <2>1. TypeInvariant' /\ OwnPlaces' /\ SemaphoreExact'
      BY <1>1, <1>7 DEF WAwake, TypeInvariant, OwnPlaces, SemaphoreExact, Waiting
    <2>2. CountExact'
      BY <1>1, <1>7, CountKept DEF WAwake, InsidePlaces
    <2> QED BY <2>1, <2>2 DEF Core
  <1>8. CASE WWake(p)
    <2>1. TypeInvariant' /\ OwnPlaces' /\ SemaphoreExact'
      BY <1>1, <1>8 DEF WWake, TypeInvariant, OwnPlaces, SemaphoreExact, Waiting
    <2>2. CountExact'
      BY <1>1, <1>8, CountKept DEF WWake, InsidePlaces
    <2> QED BY <2>1, <2>2 DEF Core
  <1>9. CASE Signal(p)
    BY <1>1, <1>9 DEF Signal, Core, TypeInvariant, OwnPlaces, SemaphoreExact,
       CountExact, Inside, Undoing
  <1>10. CASE Trim(p)
    <2>1. TypeInvariant' /\ OwnPlaces' /\ SemaphoreExact'
      BY <1>1, <1>10 DEF Trim, TypeInvariant, OwnPlaces, SemaphoreExact, Waiting
    <2>2. CountExact'
      BY <1>1, <1>10, CountKept DEF Trim, InsidePlaces
    <2> QED BY <2>1, <2>2 DEF Core
  <1>11. CASE Opened(p)
    <2>1. TypeInvariant' /\ OwnPlaces' /\ SemaphoreExact'
      BY <1>1, <1>11 DEF Opened, TypeInvariant, OwnPlaces, SemaphoreExact, Waiting
    <2>2. CountExact'
      BY <1>1, <1>11, CountKept DEF Opened, InsidePlaces
    <2> QED BY <2>1, <2>2 DEF Core
  <1>12. CASE UseBegin(p)
    <2>1. TypeInvariant' /\ OwnPlaces' /\ SemaphoreExact'
      BY <1>1, <1>12 DEF UseBegin, TypeInvariant, OwnPlaces, SemaphoreExact, Waiting
    <2>2. CountExact'
      BY <1>1, <1>12, CountKept DEF UseBegin, InsidePlaces
    <2> QED BY <2>1, <2>2 DEF Core
  <1>13. CASE UseEnd(p)
    <2>1. TypeInvariant' /\ OwnPlaces' /\ SemaphoreExact'
      BY <1>1, <1>13 DEF UseEnd, TypeInvariant, OwnPlaces, SemaphoreExact, Waiting
    <2>2. CountExact'
      BY <1>1, <1>13, CountKept DEF UseEnd, InsidePlaces
    <2> QED BY <2>1, <2>2 DEF Core
  <1> QED BY <1>2, <1>3, <1>4, <1>5, <1>6, <1>7, <1>8, <1>9, <1>10, <1>11, <1>12,
             <1>13 DEF Quiet

(* an open of scullsingle: one more inside, or one more decrement to undo *)
LEMMA SDecAndTestCore ==
  ASSUME Core, NEW p \in Procs, SDecAndTest(p)
  PROVE  Core'
  <1> DEFINE l == IF scull_s_available' = 0 THEN "admitted" ELSE "undo"
  <1>1. TypeInvariant /\ OwnPlaces /\ SemaphoreExact /\ CountExact
    BY DEF Core
  <1>2. pc' = [pc EXCEPT ![p] = l] /\ pc[p] = "closed" /\ l \in {"admitted", "undo"}
    BY DEF SDecAndTest, Goto
  <1>3. TypeInvariant' /\ OwnPlaces' /\ SemaphoreExact'
    BY <1>1, <1>2 DEF SDecAndTest, TypeInvariant, OwnPlaces, SemaphoreExact, Waiting, waitVars
  <1>4. scull_s_available' = scull_s_available - 1 /\ UNCHANGED device
        /\ device = "scullsingle"
    BY DEF SDecAndTest
  <1>5. CountExact'
    <2>1. /\ l = "admitted" => /\ Cardinality(Inside)' = Cardinality(Inside) + 1
                               /\ Cardinality(Undoing)' = Cardinality(Undoing)
          /\ l = "undo" => /\ Cardinality(Inside)' = Cardinality(Inside)
                           /\ Cardinality(Undoing)' = Cardinality(Undoing) + 1
      BY <1>1, <1>2, CountMoved DEF InsidePlaces
    <2>2. Cardinality(Inside) \in Nat /\ Cardinality(Undoing) \in Nat
      BY InsideAt, AtFinite
    <2> QED BY <1>1, <1>2, <1>4, <2>1, <2>2 DEF CountExact
  <1> QED BY <1>3, <1>5 DEF Core

(* the refused open gives its decrement back *)
LEMMA SUndoCore ==
  ASSUME Core, NEW p \in Procs, SUndo(p)
  PROVE  Core'
  <1>1. TypeInvariant /\ OwnPlaces /\ SemaphoreExact /\ CountExact
    BY DEF Core
  <1>2. TypeInvariant' /\ OwnPlaces' /\ SemaphoreExact'
    BY <1>1 DEF SUndo, Goto, TypeInvariant, OwnPlaces, SemaphoreExact, Waiting, waitVars
  <1>3. PICK l : l = "closed" /\ pc' = [pc EXCEPT ![p] = l] /\ pc[p] = "undo"
    BY DEF SUndo, Goto
  <1>4. device = "scullsingle"
    BY <1>1, <1>3 DEF OwnPlaces
  <1>5. CountExact'
    <2>1. /\ pc[p] \notin InsidePlaces /\ l \notin InsidePlaces
          /\ pc[p] = "undo" /\ l # "undo"
      BY <1>3 DEF InsidePlaces
    <2>3. /\ Cardinality(Inside)' = Cardinality(Inside)
          /\ Cardinality(Undoing)' = Cardinality(Undoing) - 1
      BY <1>1, <1>3, <2>1, CountMoved
    <2>2. Cardinality(Inside) \in Nat /\ Cardinality(Undoing) \in Nat
      BY InsideAt, AtFinite
    <2> QED BY <1>1, <1>4, <2>2, <2>3 DEF SUndo, CountExact
  <1> QED BY <1>2, <1>5 DEF Core

(* the only file of scullsingle is closed *)
LEMMA SReleaseCore ==
  ASSUME Core, NEW p \in Procs, SRelease(p)
  PROVE  Core'
  <1>1. TypeInvariant /\ OwnPlaces /\ SemaphoreExact /\ CountExact
    BY DEF Core
  <1>2. TypeInvariant' /\ OwnPlaces' /\ SemaphoreExact'
    BY <1>1 DEF SRelease, Goto, TypeInvariant, OwnPlaces, SemaphoreExact, Waiting, waitVars
  <1>3. PICK l : l = "closed" /\ pc' = [pc EXCEPT ![p] = l] /\ pc[p] = "open"
    BY DEF SRelease, Goto
  <1>4. CountExact'
    <2>1. /\ pc[p] \in InsidePlaces /\ l \notin InsidePlaces
          /\ pc[p] # "undo" /\ l # "undo"
      BY <1>3 DEF InsidePlaces
    <2>3. /\ Cardinality(Inside)' = Cardinality(Inside) - 1
          /\ Cardinality(Undoing)' = Cardinality(Undoing)
      BY <1>1, <1>3, <2>1, CountMoved
    <2>2. Cardinality(Inside) \in Nat /\ Cardinality(Undoing) \in Nat
      BY InsideAt, AtFinite
    <2> QED BY <1>1, <2>2, <2>3 DEF SRelease, CountExact
  <1> QED BY <1>2, <1>4 DEF Core

(* an open of the other two is admitted and counted *)
LEMMA AdmitCore ==
  ASSUME Core, NEW p \in Procs, UOpen(p) \/ WAdmit(p)
  PROVE  Core'
  <1>1. TypeInvariant /\ OwnPlaces /\ SemaphoreExact /\ CountExact
    BY DEF Core
  <1>2. /\ pc' = [pc EXCEPT ![p] = "admitted"] /\ pc[p] \in {"closed", "lock"}
        /\ UNCHANGED device /\ count' = count + 1
    BY DEF UOpen, WAdmit, Goto, Return, Grab
  <1>3. device # "scullsingle"
    BY <1>1 DEF UOpen, WAdmit, OwnPlaces, Waiting
  <1>4. owner' \in Users
    BY <1>1, UsersAssumption DEF UOpen, WAdmit, Grab, TypeInvariant
  <1>5. TypeInvariant' /\ OwnPlaces' /\ SemaphoreExact'
    <2>1. CASE UOpen(p)
      BY <1>1, <1>2, <1>4, <2>1 DEF UOpen, TypeInvariant, OwnPlaces,
         SemaphoreExact, Waiting, waitVars
    <2>2. CASE WAdmit(p)
      BY <1>1, <1>2, <1>4, <2>2 DEF WAdmit, Return, Goto, TypeInvariant, OwnPlaces,
         SemaphoreExact, Waiting
    <2> QED BY <2>1, <2>2
  <1>6. CountExact'
    BY <1>1, <1>2, <1>3, CountMoved DEF CountExact, InsidePlaces
  <1> QED BY <1>5, <1>6 DEF Core

(* a file of theirs is closed, so the count was not 0 *)
LEMMA ReleaseCore ==
  ASSUME Core, NEW p \in Procs, Release(p)
  PROVE  Core'
  <1> DEFINE l == IF device = "scullwuid" /\ count' = 0 THEN "wake" ELSE "closed"
  <1>1. TypeInvariant /\ OwnPlaces /\ SemaphoreExact /\ CountExact
    BY DEF Core
  <1>2. /\ pc' = [pc EXCEPT ![p] = l] /\ pc[p] = "open" /\ l \in {"wake", "closed"}
        /\ device # "scullsingle" /\ UNCHANGED device /\ count' = count - 1
    BY DEF Release, Goto
  <1>3. CountExact' /\ count' \in Nat
    BY <1>1, <1>2, CountMoved DEF CountExact, InsidePlaces
  <1>4. TypeInvariant' /\ OwnPlaces' /\ SemaphoreExact'
    BY <1>1, <1>2, <1>3 DEF Release, TypeInvariant, OwnPlaces, SemaphoreExact,
       Waiting, waitVars
  <1> QED BY <1>3, <1>4 DEF Core

(* Core is inductive *)
LEMMA CoreStep == Core /\ [Next]_vars => Core'
  <1> SUFFICES ASSUME Core, [Next]_vars PROVE Core'
    OBVIOUS
  <1>1. CASE UNCHANGED vars
    BY <1>1 DEF vars, countVars, waitVars, Core, TypeInvariant, OwnPlaces,
       SemaphoreExact, CountExact, Inside, Undoing
  <1>2. CASE Next
    BY <1>2, QuietCore, SDecAndTestCore, SUndoCore, SReleaseCore, AdmitCore,
       ReleaseCore DEF Next, WStep, Quiet
  <1> QED BY <1>1, <1>2

-----------------------------------------------------------------------------
(***************************************************************************)
(* One opener, one owner, and nobody left asleep                           *)
(***************************************************************************)

(* scullsingle admits a process only when the counter says nobody is inside *)
LEMMA OneOpenerStep ==
  ASSUME Core, OneOpener, [Next]_vars
  PROVE  OneOpener'
  <1>1. TypeInvariant /\ OwnPlaces /\ CountExact
    BY DEF Core
  <1>2. CASE UNCHANGED vars
    BY <1>2 DEF vars, OneOpener, Inside
  <1>3. ASSUME NEW p \in Procs, SDecAndTest(p) PROVE OneOpener'
    <2>1. CASE scull_s_available' = 0
      <3>1. Cardinality(Inside) = 0
        BY <1>1, <1>3, <2>1, InsideAt, AtFinite DEF SDecAndTest, CountExact
      <3>2. Inside' \subseteq {p}
        BY <1>1, <1>3, <3>1, NobodyInside DEF SDecAndTest, Goto, Inside, TypeInvariant
      <3> QED BY <3>2 DEF OneOpener
    <2>2. CASE scull_s_available' # 0
      BY <1>1, <1>3, <2>2 DEF SDecAndTest, Goto, OneOpener, Inside, TypeInvariant
    <2> QED BY <2>1, <2>2
  <1>4. ASSUME NEW p \in Procs, UOpen(p) \/ WOpen(p) \/ WStep(p) \/ Release(p)
        PROVE  OneOpener'
    <2>1. device # "scullsingle" /\ device' = device
      BY <1>1, <1>4 DEF UOpen, WOpen, WStep, Release, WAdmit, WRefuse, WPrepare,
         WCheckCount, WCheckOwner, WAwake, WWake, OwnPlaces, Waiting
    <2> QED BY <2>1 DEF OneOpener
  <1>5. ASSUME NEW p \in Procs,
               \/ SUndo(p) \/ SRelease(p) \/ Signal(p)
               \/ Trim(p) \/ Opened(p) \/ UseBegin(p) \/ UseEnd(p)
        PROVE  OneOpener'
    <2>1. Inside' \subseteq Inside /\ device' = device
      BY <1>1, <1>5 DEF SUndo, SRelease, Signal, Trim, Opened, UseBegin, UseEnd,
         Goto, Inside, TypeInvariant
    <2> QED BY <2>1 DEF OneOpener
  <1> QED BY <1>2, <1>3, <1>4, <1>5 DEF Next

(* the owner changes only while nobody is inside *)
LEMMA OwnersOnlyStep ==
  ASSUME Core, OwnersOnly, [Next]_vars
  PROVE  OwnersOnly'
  <1>1. TypeInvariant /\ OwnPlaces /\ CountExact
    BY DEF Core
  <1>2. CASE UNCHANGED vars
    BY <1>2 DEF vars, countVars, OwnersOnly, Inside, Owner
  <1>3. ASSUME NEW p \in Procs, UOpen(p) \/ WAdmit(p) PROVE OwnersOnly'
    <2>1. /\ available(p) /\ Grab(p) /\ pc' = [pc EXCEPT ![p] = "admitted"]
          /\ device # "scullsingle"
      BY <1>1, <1>3 DEF UOpen, WAdmit, Goto, Return, OwnPlaces, Waiting
    <2>2. CASE count = 0
      <3>1. Inside = {}
        BY <1>1, <2>1, <2>2, NobodyInside DEF CountExact
      <3>2. Inside' \subseteq {p} /\ owner' = uid[p]
        BY <1>1, <2>1, <2>2, <3>1 DEF Inside, TypeInvariant, Grab
      <3> QED BY <3>2 DEF OwnersOnly, Owner
    <2>3. CASE count # 0
      <3>1. Inside' \subseteq Inside \union {p} /\ Owner(p) /\ owner' = owner
        BY <1>1, <2>1, <2>3 DEF Inside, TypeInvariant, Grab, available
      <3> QED BY <2>1, <3>1 DEF OwnersOnly, Owner
    <2> QED BY <2>2, <2>3
  <1>4. ASSUME NEW p \in Procs,
               \/ SUndo(p) \/ SRelease(p) \/ WOpen(p) \/ WRefuse(p)
               \/ WPrepare(p) \/ WCheckCount(p) \/ WCheckOwner(p) \/ WAwake(p)
               \/ WWake(p) \/ Release(p) \/ Signal(p)
               \/ Trim(p) \/ Opened(p) \/ UseBegin(p) \/ UseEnd(p)
        PROVE  OwnersOnly'
    <2>1. Inside' \subseteq Inside /\ device' = device /\ owner' = owner
      BY <1>1, <1>4 DEF SUndo, SRelease, WOpen, WRefuse, WPrepare, WCheckCount,
         WCheckOwner, WAwake, WWake, Release, Signal, Trim, Opened, UseBegin,
         UseEnd, Goto, Return, Inside, TypeInvariant, countVars
    <2> QED BY <2>1 DEF OwnersOnly, Owner
  <1>5. ASSUME NEW p \in Procs, SDecAndTest(p) PROVE OwnersOnly'
    BY <1>5 DEF SDecAndTest, OwnersOnly
  <1> QED BY <1>2, <1>3, <1>4, <1>5 DEF Next, WStep

(* A wake-up under way stays so until it empties the queue.  Without one:  *)
(* a task passes the test of the count only while it is not 0, and of the  *)
(* owner only if shut out; and only the last release, which starts a       *)
(* wake-up, or an admission at count 0 could change either.                *)
LEMMA WaitersAsleepStep ==
  ASSUME Core, WaitersAsleep, [Next]_vars
  PROVE  WaitersAsleep'
  <1>1. TypeInvariant /\ OwnPlaces
    BY DEF Core
  <1> USE DEF Goto, Return, countVars, waitVars
  <1>2. CASE UNCHANGED vars
    BY <1>2 DEF vars, WaitersAsleep, WakerActive, available, Owner
  <1>3. ASSUME NEW q \in Procs, WWake(q) PROVE WaitersAsleep'
    BY <1>3 DEF WWake, WaitersAsleep
  <1>4. ASSUME NEW q \in Procs, UOpen(q) \/ WAdmit(q) PROVE WaitersAsleep'
    <2>1. /\ Grab(q) /\ wait' = wait /\ pc' = [pc EXCEPT ![q] = "admitted"]
          /\ pc[q] # "wake"
      BY <1>4 DEF UOpen, WAdmit
    <2>2. WakerActive => WakerActive'
      BY <1>1, <2>1 DEF WakerActive, TypeInvariant
    <2>3. count' # 0 /\ (count # 0 => owner' = owner)
      BY <1>1, <2>1 DEF Grab, TypeInvariant
    <2>4. ASSUME NEW p \in wait, ~WakerActive
          PROVE  pc'[p] = "sched" => ~available(p)'
      BY <1>1, <2>1, <2>3, <2>4 DEF WaitersAsleep, TypeInvariant, available, Owner
    <2> QED BY <2>1, <2>2, <2>3, <2>4 DEF WaitersAsleep
  <1>5. ASSUME NEW q \in Procs, Release(q) PROVE WaitersAsleep'
    <2>1. WakerActive => WakerActive'
      BY <1>1, <1>5 DEF Release, WakerActive, TypeInvariant
    <2>2. CASE device = "scullwuid" /\ count' = 0
      BY <1>1, <1>5, <2>2 DEF Release, WaitersAsleep, WakerActive, TypeInvariant
    <2>3. CASE device # "scullwuid"
      BY <1>1, <1>5, <2>3 DEF Release, WaitersAsleep, OwnPlaces, Waiting, TypeInvariant
    <2>4. CASE device = "scullwuid" /\ count' # 0
      BY <1>1, <1>5, <2>1, <2>4 DEF Release, WaitersAsleep, available, Owner,
         TypeInvariant
    <2> QED BY <2>2, <2>3, <2>4
  <1>6. ASSUME NEW q \in Procs, WCheckCount(q) \/ WCheckOwner(q) PROVE WaitersAsleep'
    <2>1. WakerActive => WakerActive'
      BY <1>1, <1>6 DEF WCheckCount, WCheckOwner, WakerActive, TypeInvariant
    <2>2. wait' \subseteq wait /\ count' = count /\ owner' = owner
      BY <1>6 DEF WCheckCount, WCheckOwner
    <2>3. ASSUME NEW p \in wait', ~WakerActive
          PROVE  /\ pc'[p] = "check2" => count' # 0
                 /\ pc'[p] = "sched" => ~available(p)'
      BY <1>1, <1>6, <2>2, <2>3 DEF WCheckCount, WCheckOwner, WaitersAsleep,
         TypeInvariant, available, Owner
    <2> QED BY <2>1, <2>3 DEF WaitersAsleep
  <1>7. ASSUME NEW q \in Procs,
               \/ SDecAndTest(q) \/ SUndo(q) \/ SRelease(q) \/ WOpen(q)
               \/ WRefuse(q) \/ WPrepare(q) \/ WAwake(q) \/ Signal(q)
               \/ Trim(q) \/ Opened(q) \/ UseBegin(q) \/ UseEnd(q)
        PROVE  WaitersAsleep'
    <2>1. WakerActive => WakerActive'
      BY <1>1, <1>7 DEF SDecAndTest, SUndo, SRelease, WOpen, WRefuse, WPrepare,
         WAwake, Signal, Trim, Opened, UseBegin, UseEnd, WakerActive, TypeInvariant
    <2>2. /\ count' = count /\ owner' = owner
          /\ \A p \in wait' : \/ p \in wait /\ pc'[p] = pc[p]
                              \/ pc'[p] \notin {"check2", "sched"}
      BY <1>1, <1>7 DEF SDecAndTest, SUndo, SRelease, WOpen, WRefuse, WPrepare,
         WAwake, Signal, Trim, Opened, UseBegin, UseEnd, TypeInvariant
    <2> QED BY <2>1, <2>2 DEF WaitersAsleep, available, Owner
  <1> QED BY <1>2, <1>3, <1>4, <1>5, <1>6, <1>7 DEF Next, WStep

(* nobody is inside, or on the queue, at the start *)
LEMMA InvInit == Init => Inv
  <1> SUFFICES ASSUME Init PROVE Inv
    OBVIOUS
  <1>1. Inside = {}
    BY DEF Init, Inside
  <1>2. OneOpener /\ OwnersOnly /\ WaitersAsleep
    BY <1>1 DEF Init, OneOpener, OwnersOnly, WaitersAsleep
  <1> QED BY <1>2, CoreInit DEF Inv

(* Inv is inductive *)
LEMMA InvStep == Inv /\ [Next]_vars => Inv'
  BY CoreStep, OneOpenerStep, OwnersOnlyStep, WaitersAsleepStep DEF Inv

-----------------------------------------------------------------------------
(***************************************************************************)
(* The theorems                                                            *)
(***************************************************************************)

(* Inv is an invariant of the three devices, each named part of it with it *)
THEOREM InvInvariant == Spec => []Inv
  BY InvInit, InvStep, PTL DEF Spec

(* Every variable keeps its type; in particular count never goes below 0,  *)
(* although scull_u_release and scull_w_release decrement it untested      *)
(* (lines 130 and 200), and dev->sem is never given up twice.              *)
THEOREM TypeCorrect == Spec => []TypeInvariant
  <1>1. Inv => TypeInvariant
    BY DEF Inv, Core
  <1> QED BY <1>1, InvInvariant, PTL

(* The counters count the open files of the device exactly, for scullsingle *)
(* minus the decrements that refused opens have yet to give back            *)
(* (access.c:56-57, 70, 116, 130, 185, 200).                                *)
THEOREM CountsExact == Spec => []CountExact
  <1>1. Inv => CountExact
    BY DEF Inv, Core
  <1> QED BY <1>1, InvInvariant, PTL

(* scullsingle is open at most once, however opens and releases interleave *)
(* (access.c:56).                                                          *)
THEOREM AtMostOneOpener == Spec => []OneOpener
  <1>1. Inv => OneOpener
    BY DEF Inv
  <1> QED BY <1>1, InvInvariant, PTL

(* Every process with sculluid or scullwuid open is allowed there by the    *)
(* owner the device has now, not only by the one it had at the open         *)
(* (access.c:104-116 and 175-185).                                          *)
THEOREM InsideAreOwners == Spec => []OwnersOnly
  <1>1. Inv => OwnersOnly
    BY DEF Inv
  <1> QED BY <1>1, InvInvariant, PTL

(* An opener of scullwuid asleep while it could get in is about to be woken *)
(* by the last release (access.c:179, 204-205).                             *)
THEOREM WakeupsNotLost == Spec => []NoLostWakeup
  <1>1. Inv => NoLostWakeup
    BY DEF Inv, WaitersAsleep, WakerActive, NoLostWakeup
  <1> QED BY <1>1, InvInvariant, PTL

(* On scullsingle the trim of line 63, made without dev->sem, runs beside   *)
(* no read, write or other trim: whoever makes it is alone inside.          *)
THEOREM SingleTrimsAlone == Spec => []SingleTrimAlone
  <1>1. OneOpener => SingleTrimAlone
    BY DEF OneOpener, SingleTrimAlone, TrimAlone, Inside
  <1>2. Inv => OneOpener
    BY DEF Inv
  <1> QED BY <1>1, <1>2, InvInvariant, PTL
=============================================================================
