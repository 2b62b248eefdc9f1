---------------------------- MODULE DevicesProofs ----------------------------
(***************************************************************************)
(* Theorems about the devices of Devices, for all its constants.  Each     *)
(* device has an inductive invariant.  Those of the sleeping device, of    *)
(* usb-skeleton and of scullpriv are proved in the modules of their own;   *)
(* those of the completion, scullc, the tables of loading and unloading,   *)
(* the interrupt probe and the deferred work are proved here.              *)
(***************************************************************************)
EXTENDS Devices, FiniteSetTheorems, SequenceTheorems, TLAPS

-----------------------------------------------------------------------------
(* Work put off.                                                           *)
LEMMA DeferInit == Defer!Init => Defer!TypeInvariant
  BY DEF Defer!Init, Defer!TypeInvariant

LEMMA DeferNext ==
  ASSUME Defer!TypeInvariant, [Defer!Next]_Defer!vars PROVE Defer!TypeInvariant'
  <1> USE DEF Defer!TypeInvariant
  <1>1. CASE UNCHANGED Defer!vars
    BY <1>1 DEF Defer!vars
  <1>2. CASE Defer!myirq_init \/ Defer!test_init \/ Defer!mytimer_init
    BY <1>2 DEF Defer!myirq_init, Defer!test_init, Defer!mytimer_init
  <1>3. CASE Defer!Interrupt \/ Defer!HandlerEnds
    BY <1>3 DEF Defer!Interrupt, Defer!HandlerEnds
  <1>4. CASE Defer!CallbackRuns \/ Defer!CallbackEnds
    BY <1>4 DEF Defer!CallbackRuns, Defer!CallbackEnds
  <1>5. CASE Defer!myirq_exit \/ Defer!test_exit \/ Defer!mytimer_exit
    BY <1>5 DEF Defer!myirq_exit, Defer!test_exit, Defer!mytimer_exit
  <1> QED BY <1>1, <1>2, <1>3, <1>4, <1>5 DEF Defer!Next

-----------------------------------------------------------------------------
(* The interrupt probe.                                                    *)
LEMMA ProbeInit ==
  ASSUME Probe!Parameters, Probe!Init PROVE Probe!Inv
  <1> USE DEF Probe!Init, Probe!Parameters
  <1>1. Probe!TypeInvariant
    <2>1. a1 \in BOOLEAN /\ a2 \in BOOLEAN /\ a8 \in BOOLEAN
      OBVIOUS
    <2>2. a4 \in Probe!Irqs
      BY DEF Probe!Irqs
    <2>3. a7 \in [Lines -> {"off", "claim", "compare", "negate"}]
      OBVIOUS
    <2>4. a9 = {} /\ a6 = {} /\ a5 = 0 /\ a3 \in {"kernel", "request", "default"}
      OBVIOUS
    <2> QED BY <2>1, <2>2, <2>3, <2>4 DEF Probe!TypeInvariant
  <1>2. Probe!ProbingInTime
    BY DEF Probe!ProbingInTime
  <1>3. Probe!InstalledExact
    BY DEF Probe!InstalledExact
  <1> QED BY <1>1, <1>2, <1>3 DEF Probe!Inv

LEMMA ProbeTypes ==
  ASSUME Probe!Parameters, Probe!TypeInvariant, Probe!InstalledExact,
         [Probe!Next]_Probe!vars
  PROVE  Probe!TypeInvariant'
  <1> USE DEF Probe!TypeInvariant, Probe!Irqs, Probe!Parameters, Probe!choice
  <1>1. CASE UNCHANGED Probe!vars
    BY <1>1 DEF Probe!vars
  <1>2. CASE Probe!KernelProbe
    BY <1>2 DEF Probe!KernelProbe
  <1>3. CASE Probe!RequestAll
    BY <1>3 DEF Probe!RequestAll
  <1>4. CASE Probe!Trial
    BY <1>4 DEF Probe!Trial
  <1>5. CASE Probe!EndTrial
    BY <1>5 DEF Probe!EndTrial
  <1>6. CASE Probe!FreeAll
    BY <1>6 DEF Probe!FreeAll
  <1>7. CASE Probe!TakeDefault
    BY <1>7 DEF Probe!TakeDefault
  <1>8. CASE Probe!Install
    BY <1>8 DEF Probe!Install
  <1>9. CASE Probe!Exchange
    <2>1. a9' \subseteq (Lines \union {0, Default}) \X {"plain", "shared", "halves"}
      BY <1>9 DEF Probe!Exchange, Probe!InstalledExact
    <2>2. a4' \in Probe!Irqs
      BY <1>9 DEF Probe!Exchange
    <2> QED BY <1>9, <2>1, <2>2 DEF Probe!Exchange
  <1>10. CASE Probe!Cleanup
    BY <1>10 DEF Probe!Cleanup
  <1>11. ASSUME NEW l \in Lines, Probe!Interrupt(l) \/ Probe!Claim(l)
        PROVE  Probe!TypeInvariant'
    BY <1>11 DEF Probe!Interrupt, Probe!Claim, Probe!ProbingUnchanged
  <1>12. ASSUME NEW l \in Lines, Probe!Compare(l) \/ Probe!Negate(l)
        PROVE  Probe!TypeInvariant'
    BY <1>12 DEF Probe!Compare, Probe!Negate, Probe!ProbingUnchanged
  <1> QED BY <1>1, <1>2, <1>3, <1>4, <1>5, <1>6, <1>7, <1>8, <1>9, <1>10, <1>11, <1>12
          DEF Probe!Next

LEMMA ProbingKept ==
  ASSUME Probe!TypeInvariant, Probe!ProbingInTime, [Probe!Next]_Probe!vars
  PROVE  Probe!ProbingInTime'
  <1> USE DEF Probe!TypeInvariant, Probe!ProbingInTime, Probe!choice
  <1>1. CASE UNCHANGED Probe!vars
    BY <1>1 DEF Probe!vars
  <1>2. CASE Probe!KernelProbe
    BY <1>2 DEF Probe!KernelProbe
  <1>3. CASE Probe!RequestAll
    BY <1>3 DEF Probe!RequestAll
  <1>4. CASE Probe!Trial
    BY <1>4 DEF Probe!Trial
  <1>5. CASE Probe!EndTrial
    BY <1>5 DEF Probe!EndTrial
  <1>6. CASE Probe!FreeAll
    BY <1>6 DEF Probe!FreeAll
  <1>7. CASE Probe!TakeDefault
    BY <1>7 DEF Probe!TakeDefault
  <1>8. CASE Probe!Install
    BY <1>8 DEF Probe!Install
  <1>9. CASE Probe!Exchange
    BY <1>9 DEF Probe!Exchange
  <1>10. CASE Probe!Cleanup
    BY <1>10 DEF Probe!Cleanup
  <1>11. ASSUME NEW l \in Lines, Probe!Interrupt(l) \/ Probe!Claim(l)
        PROVE  Probe!ProbingInTime'
    BY <1>11 DEF Probe!Interrupt, Probe!Claim, Probe!ProbingUnchanged
  <1>12. ASSUME NEW l \in Lines, Probe!Compare(l) \/ Probe!Negate(l)
        PROVE  Probe!ProbingInTime'
    BY <1>12 DEF Probe!Compare, Probe!Negate, Probe!ProbingUnchanged
  <1> QED BY <1>1, <1>2, <1>3, <1>4, <1>5, <1>6, <1>7, <1>8, <1>9, <1>10, <1>11, <1>12
          DEF Probe!Next

LEMMA InstalledKept ==
  ASSUME Probe!Parameters, Probe!TypeInvariant, Probe!ProbingInTime,
         Probe!InstalledExact, [Probe!Next]_Probe!vars
  PROVE  Probe!InstalledExact'
  <1> USE DEF Probe!TypeInvariant, Probe!ProbingInTime, Probe!InstalledExact,
              Probe!Parameters, Probe!choice
  <1>0. a4 \in Int
    BY DEF Probe!Irqs
  <1>1. CASE UNCHANGED Probe!vars
    BY <1>1 DEF Probe!vars, Probe!Handlers
  <1>2. CASE Probe!KernelProbe
    BY <1>2 DEF Probe!KernelProbe
  <1>3. CASE Probe!RequestAll
    BY <1>3 DEF Probe!RequestAll
  <1>4. CASE Probe!Trial
    BY <1>4 DEF Probe!Trial
  <1>5. CASE Probe!EndTrial
    BY <1>5 DEF Probe!EndTrial
  <1>6. CASE Probe!FreeAll
    BY <1>6 DEF Probe!FreeAll
  <1>7. CASE Probe!TakeDefault
    BY <1>7 DEF Probe!TakeDefault
  <1>8. CASE Probe!Install
    <2>1. a9 = {} /\ a1' = a1 /\ a3' = IF ~a1 /\ a2 /\ a4' >= 0 THEN "exchange" ELSE "loaded"
      BY <1>8 DEF Probe!Install
    <2>2. CASE a4' = -1 /\ a9' = a9
      BY <2>1, <2>2
    <2>3. CASE a4 >= 0 /\ a4' = a4 /\ a9' = {<<a4, IF a1 THEN "shared" ELSE "plain">>}
      <3>1. CASE a1
        <4>1. a3' = "loaded" /\ a9' = {<<a4', "shared">>} /\ Probe!Handlers' = {"shared"}
          BY <2>1, <2>3, <3>1 DEF Probe!Handlers
        <4> QED BY <1>0, <2>3, <4>1
      <3>2. CASE ~a1
        <4>1. ~a1' /\ a9' = {<<a4', "plain">>} /\ Probe!Handlers' = {"plain", "halves"}
          BY <2>1, <2>3, <3>2 DEF Probe!Handlers
        <4>2. a3' \in {"exchange", "loaded"}
          BY <2>1
        <4> QED BY <1>0, <2>3, <4>1, <4>2
      <3> QED BY <3>1, <3>2
    <2> QED BY <1>8, <2>2, <2>3 DEF Probe!Install
  <1>9. CASE Probe!Exchange
    <2>1. a3 = "exchange" /\ a3' = "loaded" /\ a1' = a1 /\ ~a1 /\ a4 >= 0
      BY <1>9 DEF Probe!Exchange
    <2>2. Probe!Handlers' = {"plain", "halves"}
      BY <2>1 DEF Probe!Handlers
    <2>3. CASE a9' = {<<a4, "halves">>} /\ a4' = a4
      BY <1>0, <2>1, <2>2, <2>3
    <2>4. CASE a9' = {} /\ a4' = -1
      BY <2>1, <2>4
    <2> QED BY <1>9, <2>3, <2>4 DEF Probe!Exchange
  <1>10. CASE Probe!Cleanup
    BY <1>10 DEF Probe!Cleanup, Probe!Handlers
  <1>11. ASSUME NEW l \in Lines, Probe!Interrupt(l) \/ Probe!Claim(l)
        PROVE  Probe!InstalledExact'
    BY <1>11 DEF Probe!Interrupt, Probe!Claim, Probe!ProbingUnchanged
  <1>12. ASSUME NEW l \in Lines, Probe!Compare(l) \/ Probe!Negate(l)
        PROVE  Probe!InstalledExact'
    BY <1>12 DEF Probe!Compare, Probe!Negate, Probe!ProbingUnchanged
  <1> QED BY <1>1, <1>2, <1>3, <1>4, <1>5, <1>6, <1>7, <1>8, <1>9, <1>10, <1>11, <1>12
          DEF Probe!Next

LEMMA ProbeNext ==
  ASSUME Probe!Parameters, Probe!Inv, [Probe!Next]_Probe!vars PROVE Probe!Inv'
  BY ProbeTypes, ProbingKept, InstalledKept DEF Probe!Inv

LEMMA ProbeImplies ==
  ASSUME Probe!Parameters, Probe!Inv PROVE Probe!TypeInvariant /\ Probe!HandlerAccounted
  <1>1. a3 \notin {"trial", "delay", "free"} => a6 = {} /\ \A l \in Lines : a7[l] = "off"
    BY DEF Probe!Inv, Probe!ProbingInTime
  <1>2. a4 \in Int
    BY DEF Probe!Inv, Probe!TypeInvariant, Probe!Irqs, Probe!Parameters
  <1>3. ASSUME a3 = "loaded"
        PROVE  (a4 >= 0 <=> a9 # {}) /\ \A i \in a9 : i[1] = a4
    <2>1. CASE a4 < 0
      BY <1>2, <1>3, <2>1 DEF Probe!Inv, Probe!InstalledExact
    <2>2. CASE ~ (a4 < 0)
      <3>1. PICK h \in Probe!Handlers : a9 = {<<a4, h>>}
        BY <1>3, <2>2 DEF Probe!Inv, Probe!InstalledExact
      <3> QED BY <1>2, <2>2, <3>1
    <2> QED BY <2>1, <2>2
  <1>4. a3 = "unloaded" => a9 = {}
    BY DEF Probe!Inv, Probe!InstalledExact
  <1> QED BY <1>1, <1>3, <1>4 DEF Probe!Inv, Probe!HandlerAccounted

-----------------------------------------------------------------------------
(* The completion: first the queue of waiters without its i-th place.      *)
LEMMA RemoveAtIs ==
  ASSUME NEW S, NEW s \in Seq(S), NEW i \in DOMAIN s
  PROVE  /\ Comp!RemoveAt(s, i) \in Seq(S)
         /\ Len(Comp!RemoveAt(s, i)) = Len(s) - 1
         /\ \A k \in 1 .. Len(s) - 1 :
              Comp!RemoveAt(s, i)[k] = s[IF k < i THEN k ELSE k + 1]
  <1> DEFINE a == SubSeq(s, 1, i - 1)
             b == SubSeq(s, i + 1, Len(s))
  <1>1. i \in 1 .. Len(s) /\ Len(s) \in Nat
    OBVIOUS
  <1>2. a \in Seq(S) /\ Len(a) = i - 1 /\ \A k \in 1 .. i - 1 : a[k] = s[k]
    BY <1>1
  <1>3. b \in Seq(S) /\ Len(b) = Len(s) - i /\ \A k \in 1 .. Len(s) - i : b[k] = s[i + k]
    BY <1>1
  <1> HIDE DEF a, b
  <1>4. Comp!RemoveAt(s, i) = a \o b
    BY DEF Comp!RemoveAt, a, b
  <1>5. a \o b \in Seq(S) /\ Len(a \o b) = Len(s) - 1
    BY <1>1, <1>2, <1>3
  <1>6. ASSUME NEW k \in 1 .. Len(s) - 1
        PROVE  (a \o b)[k] = s[IF k < i THEN k ELSE k + 1]
    <2>1. CASE k < i
      <3>1. k \in 1 .. i - 1 /\ k \in 1 .. Len(a)
        BY <1>1, <1>2, <2>1
      <3>2. (a \o b)[k] = a[k]
        BY <1>1, <1>2, <1>3, <3>1
      <3> QED BY <1>2, <2>1, <3>1, <3>2
    <2>2. CASE ~ (k < i)
      <3> DEFINE j == k - (i - 1)
      <3>1. j \in 1 .. Len(s) - i /\ j = k - Len(a) /\ i + j = k + 1 /\ ~ (k <= Len(a))
        BY <1>1, <1>2, <2>2
      <3>2. (a \o b)[k] = b[k - Len(a)]
        <4>1. k \in 1 .. Len(a) + Len(b)
          BY <1>1, <1>2, <1>3
        <4> QED BY <1>2, <1>3, <3>1, <4>1, ConcatProperties, Zenon
      <3> HIDE DEF j
      <3>3. (a \o b)[k] = s[k + 1]
        BY <1>3, <3>1, <3>2
      <3> QED BY <2>2, <3>3
    <2> QED BY <2>1, <2>2
  <1> DEFINE c == a \o b
  <1> HIDE DEF c
  <1>7. /\ Comp!RemoveAt(s, i) = c /\ c \in Seq(S) /\ Len(c) = Len(s) - 1
        /\ \A k \in 1 .. Len(s) - 1 : c[k] = s[IF k < i THEN k ELSE k + 1]
    BY <1>4, <1>5, <1>6, Zenon DEF c
  <1> QED BY <1>7, Zenon

(* The queue with one waiter more, or without one of them.                 *)
InQueue(s) == {s[i] : i \in DOMAIN s}
Distinct(s) == \A i, j \in DOMAIN s : s[i] = s[j] => i = j

LEMMA QueueJoined ==
  ASSUME NEW S, NEW s \in Seq(S), NEW e \in S, Distinct(s), e \notin InQueue(s)
  PROVE  /\ Append(s, e) \in Seq(S)
         /\ Distinct(Append(s, e))
         /\ InQueue(Append(s, e)) = InQueue(s) \union {e}
  <1> DEFINE t == Append(s, e)
  <1>1. /\ t \in Seq(S) /\ DOMAIN s = 1 .. Len(s) /\ DOMAIN t = 1 .. Len(s) + 1
        /\ Len(s) \in Nat /\ t[Len(s) + 1] = e /\ \A i \in 1 .. Len(s) : t[i] = s[i]
    BY AppendProperties
  <1> HIDE DEF t
  <1>2. \A i \in 1 .. Len(s) : s[i] # e
    BY <1>1 DEF InQueue
  <1>3. Distinct(t)
    BY <1>1, <1>2 DEF Distinct
  <1>4. InQueue(t) = InQueue(s) \union {e}
    BY <1>1 DEF InQueue
  <1> QED BY <1>1, <1>3, <1>4 DEF t

LEMMA QueueLeft ==
  ASSUME NEW S, NEW s \in Seq(S), NEW i \in DOMAIN s, Distinct(s)
  PROVE  /\ Comp!RemoveAt(s, i) \in Seq(S)
         /\ Distinct(Comp!RemoveAt(s, i))
         /\ InQueue(Comp!RemoveAt(s, i)) = InQueue(s) \ {s[i]}
  <1> DEFINE t == Comp!RemoveAt(s, i)
             From(k) == IF k < i THEN k ELSE k + 1
  <1>1. /\ t \in Seq(S) /\ DOMAIN s = 1 .. Len(s) /\ DOMAIN t = 1 .. Len(s) - 1
        /\ Len(s) \in Nat /\ \A k \in 1 .. Len(s) - 1 : t[k] = s[From(k)]
    BY RemoveAtIs
  <1> HIDE DEF t
  <1>2. ASSUME NEW k \in DOMAIN t PROVE From(k) \in DOMAIN s \ {i}
    <2>1. k \in 1 .. Len(s) - 1 /\ i \in 1 .. Len(s)
      BY <1>1
    <2>2. From(k) \in 1 .. Len(s) /\ From(k) # i
      BY <1>1, <2>1
    <2> QED BY <1>1, <2>2
  <1>3. Distinct(t)
    <2> SUFFICES ASSUME NEW k \in DOMAIN t, NEW l \in DOMAIN t, t[k] = t[l] PROVE k = l
      BY DEF Distinct
    <2>1. From(k) = From(l)
      BY <1>1, <1>2 DEF Distinct
    <2> QED BY <1>1, <2>1
  <1>4. ASSUME NEW e \in InQueue(t) PROVE e \in InQueue(s) \ {s[i]}
    <2>1. PICK k \in DOMAIN t : e = t[k]
      BY DEF InQueue
    <2>2. From(k) \in DOMAIN s /\ From(k) # i /\ e = s[From(k)]
      BY <1>1, <1>2, <2>1
    <2> QED BY <2>2 DEF Distinct, InQueue
  <1>5. ASSUME NEW e \in InQueue(s), e # s[i] PROVE e \in InQueue(t)
    <2>1. PICK j \in DOMAIN s : e = s[j]
      BY DEF InQueue
    <2> DEFINE k == IF j < i THEN j ELSE j - 1
    <2>2. j # i
      BY <1>5, <2>1
    <2>3. k \in DOMAIN t /\ From(k) = j
      BY <1>1, <2>2
    <2> QED BY <1>1, <2>1, <2>3 DEF InQueue
  <1> QED BY <1>1, <1>3, <1>4, <1>5 DEF t

(* Completion counts by the FiniteSets of its own instance.                *)
LEMMA SameCounts ==
  ASSUME NEW S
  PROVE  Comp!Cardinality(S) = Cardinality(S) /\ (Comp!IsFiniteSet(S) <=> IsFiniteSet(S))
  <1>1. Comp!Cardinality(S) = Cardinality(S)
    BY DEF Comp!Cardinality, Cardinality
  <1>2. Comp!IsFiniteSet(S) <=> IsFiniteSet(S)
    BY DEF Comp!IsFiniteSet, IsFiniteSet
  <1> QED BY <1>1, <1>2

Wait == {p \in Procs : a1[p] \in {"asleep", "woken"}}

LEMMA CompQueue ==
  Comp!NoDuplicates /\ Comp!NoLostCompletion
    <=> /\ Distinct(a3) /\ InQueue(a3) = Wait
        /\ Comp!Asleep # {} => a2 <= Cardinality(Comp!Woken)
  BY SameCounts DEF Comp!NoDuplicates, Comp!NoLostCompletion, Distinct, InQueue, Wait

LEMMA CompQueueNext ==
  ASSUME Distinct(a3'), InQueue(a3') = Wait',
         (Comp!Asleep)' # {} => a2' <= Cardinality((Comp!Woken)')
  PROVE  Comp!NoDuplicates' /\ Comp!NoLostCompletion'
  BY SameCounts DEF Comp!NoDuplicates, Comp!NoLostCompletion, Distinct, InQueue, Wait

LEMMA WokenFinite ==
  ASSUME Comp!Parameters, NEW S \in SUBSET Procs
  PROVE  IsFiniteSet(S) /\ Cardinality(S) \in Nat
  BY SameCounts, FS_Subset, FS_CardinalityType DEF Comp!Parameters

LEMMA CompInit == ASSUME Comp!Init PROVE Comp!Inv
  <1>1. Comp!TypeInvariant /\ Comp!UnitsConserved
    BY DEF Comp!Init, Comp!TypeInvariant, Comp!UnitsConserved
  <1>2. Distinct(a3) /\ InQueue(a3) = Wait /\ Comp!Asleep = {}
    BY DEF Comp!Init, Distinct, InQueue, Wait, Comp!Asleep
  <1> QED BY <1>1, <1>2, CompQueue DEF Comp!Inv

(* A reader comes, takes a unit at once, or leaves the queue with one.     *)
LEMMA CompReads ==
  ASSUME Comp!Parameters, Comp!Inv, NEW p \in Procs, Comp!Read(p) \/ Comp!Take(p)
  PROVE  Comp!Inv'
  <1> USE DEF Comp!Inv
  <1>0. Distinct(a3) /\ InQueue(a3) = Wait /\ a3 \in Seq(Procs)
    BY CompQueue DEF Comp!TypeInvariant
  <1>1. CASE UNCHANGED a3 /\ a1[p] \in {"idle", "start"}
    <2>1. Comp!TypeInvariant' /\ Comp!UnitsConserved'
      BY <1>1 DEF Comp!TypeInvariant, Comp!UnitsConserved, Comp!Read, Comp!Take
    <2>2. Wait' = Wait /\ (Comp!Asleep)' = Comp!Asleep /\ (Comp!Woken)' = Comp!Woken
      BY <1>1 DEF Comp!TypeInvariant, Comp!Read, Comp!Take, Wait, Comp!Asleep, Comp!Woken
    <2>3. a2' <= a2 /\ a2 \in Nat /\ a2' \in Nat
      BY DEF Comp!TypeInvariant, Comp!Read, Comp!Take
    <2>4. Cardinality(Comp!Woken) \in Nat
      BY WokenFinite DEF Comp!Woken
    <2>5. Distinct(a3') /\ InQueue(a3') = Wait'
      BY <1>0, <1>1, <2>2
    <2>6. (Comp!Asleep)' # {} => a2' <= Cardinality((Comp!Woken)')
      BY <2>2, <2>3, <2>4, CompQueue
    <2> QED BY <2>1, <2>5, <2>6, CompQueueNext
  <1>2. CASE a1[p] = "woken"
    <2>1. PICK i \in DOMAIN a3 : a3[i] = p /\ a3' = Comp!RemoveAt(a3, i)
      BY <1>2 DEF Comp!Read, Comp!Take
    <2>2. Distinct(a3') /\ InQueue(a3') = Wait \ {p} /\ a3' \in Seq(Procs)
      BY <1>0, <2>1, QueueLeft
    <2>3. /\ a1' = [a1 EXCEPT ![p] = "idle"] /\ a2' = a2 - 1 /\ a2 > 0
          /\ a5' = a5 + 1 /\ a6' = a6 \ {p} /\ a4' = a4
      BY <1>2 DEF Comp!Read, Comp!Take
    <2>4. Comp!TypeInvariant' /\ Comp!UnitsConserved'
      BY <2>2, <2>3 DEF Comp!TypeInvariant, Comp!UnitsConserved
    <2>5. Wait' = Wait \ {p} /\ (Comp!Asleep)' = Comp!Asleep
          /\ (Comp!Woken)' = Comp!Woken \ {p} /\ p \in Comp!Woken
      BY <1>2, <2>3 DEF Comp!TypeInvariant, Wait, Comp!Asleep, Comp!Woken
    <2>6. /\ Cardinality(Comp!Woken) \in Nat
          /\ Cardinality(Comp!Woken \ {p}) = Cardinality(Comp!Woken) - 1
      BY <2>5, WokenFinite, FS_RemoveElement DEF Comp!Woken
    <2>7. (Comp!Asleep)' # {} => a2' <= Cardinality((Comp!Woken)')
      BY <2>3, <2>5, <2>6, CompQueue DEF Comp!TypeInvariant
    <2> QED BY <2>2, <2>4, <2>5, <2>7, CompQueueNext
  <1>3. a1[p] = "woken" \/ (UNCHANGED a3 /\ a1[p] \in {"idle", "start"})
    BY DEF Comp!Read, Comp!Take
  <1> QED BY <1>1, <1>2, <1>3

(* Nothing is left to take: a reader joins the queue, or goes back to      *)
(* sleep at its place.                                                     *)
LEMMA CompSleeps ==
  ASSUME Comp!Parameters, Comp!Inv, NEW p \in Procs, Comp!Sleep(p)
  PROVE  Comp!Inv'
  <1> USE DEF Comp!Inv
  <1>0. Distinct(a3) /\ InQueue(a3) = Wait /\ a3 \in Seq(Procs)
    BY CompQueue DEF Comp!TypeInvariant
  <1>1. a1' = [a1 EXCEPT ![p] = "asleep"] /\ a2 = 0 /\ UNCHANGED <<a2, a4, a5, a6>>
    BY DEF Comp!Sleep
  <1>2. Wait' = Wait \union {p}
    BY <1>1 DEF Comp!TypeInvariant, Wait
  <1>3. a3' \in Seq(Procs) /\ Distinct(a3') /\ InQueue(a3') = Wait'
    <2>1. CASE a1[p] = "start"
      BY <1>0, <1>2, <2>1, QueueJoined DEF Comp!Sleep, Wait
    <2>2. CASE a1[p] = "woken"
      BY <1>0, <1>2, <2>2 DEF Comp!Sleep, Wait
    <2> QED BY <2>1, <2>2 DEF Comp!Sleep
  <1>4. Comp!TypeInvariant' /\ Comp!UnitsConserved'
    BY <1>1, <1>3 DEF Comp!TypeInvariant, Comp!UnitsConserved
  <1>5. a2' <= Cardinality((Comp!Woken)')
    <2>1. Cardinality((Comp!Woken)') \in Nat
      BY WokenFinite DEF Comp!Woken
    <2> QED BY <1>1, <2>1
  <1> QED BY <1>3, <1>4, <1>5, CompQueueNext

(* A unit more, and if anybody sleeps one reader more on its way to it.    *)
LEMMA CompWrites ==
  ASSUME Comp!Parameters, Comp!Inv, NEW p \in Procs, Comp!Write(p)
  PROVE  Comp!Inv'
  <1> USE DEF Comp!Inv
  <1>0. Distinct(a3) /\ InQueue(a3) = Wait
    BY CompQueue
  <1>1. /\ a2' = a2 + 1 /\ a4' = a4 + 1 /\ UNCHANGED <<a3, a5>>
        /\ a6' = a6 \union Comp!Asleep
    BY DEF Comp!Write, Comp!complete
  <1>2. CASE Comp!Asleep = {} /\ UNCHANGED a1
    <2>1. Comp!TypeInvariant' /\ Comp!UnitsConserved'
      BY <1>1, <1>2 DEF Comp!TypeInvariant, Comp!UnitsConserved, Comp!Asleep
    <2>2. Wait' = Wait /\ (Comp!Asleep)' = {}
      BY <1>2 DEF Wait, Comp!Asleep
    <2> QED BY <1>0, <1>1, <2>1, <2>2, CompQueueNext
  <1>3. ASSUME NEW i \in DOMAIN a3, a3[i] \in Comp!Asleep,
               a1' = [a1 EXCEPT ![a3[i]] = "woken"]
        PROVE  Comp!Inv'
    <2> DEFINE w == a3[i]
    <2>1. w \in Procs /\ a1[w] = "asleep"
      BY <1>3 DEF Comp!Asleep
    <2> HIDE DEF w
    <2>2. a1' = [a1 EXCEPT ![w] = "woken"]
      BY <1>3 DEF w
    <2>3. Comp!TypeInvariant' /\ Comp!UnitsConserved'
      BY <1>1, <2>1, <2>2 DEF Comp!TypeInvariant, Comp!UnitsConserved, Comp!Asleep
    <2>4. Wait' = Wait /\ (Comp!Woken)' = Comp!Woken \union {w} /\ w \notin Comp!Woken
      BY <2>1, <2>2 DEF Comp!TypeInvariant, Wait, Comp!Woken
    <2>5. /\ Cardinality(Comp!Woken) \in Nat
          /\ Cardinality(Comp!Woken \union {w}) = Cardinality(Comp!Woken) + 1
      BY <2>4, WokenFinite, FS_AddElement DEF Comp!Woken
    <2>6. a2' <= Cardinality((Comp!Woken)')
      BY <1>1, <1>3, <2>4, <2>5, CompQueue DEF Comp!TypeInvariant
    <2> QED BY <1>0, <1>1, <2>3, <2>4, <2>6, CompQueueNext
  <1> QED BY <1>2, <1>3 DEF Comp!Write, Comp!complete

LEMMA CompNext ==
  ASSUME Comp!Parameters, Comp!Inv, [Comp!Next]_Comp!vars PROVE Comp!Inv'
  <1>1. CASE UNCHANGED Comp!vars
    BY <1>1 DEF Comp!vars, Comp!Inv, Comp!TypeInvariant, Comp!UnitsConserved,
                Comp!NoDuplicates, Comp!NoLostCompletion, Comp!Asleep, Comp!Woken
  <1> QED BY <1>1, CompReads, CompSleeps, CompWrites DEF Comp!Next

LEMMA CompImplies ==
  ASSUME Comp!Inv
  PROVE  Comp!TypeInvariant /\ Comp!UnitsConserved /\ Comp!NoLostCompletion
  BY DEF Comp!Inv

-----------------------------------------------------------------------------
(* scullc: first, where a position lies.                                   *)
LEMMA PlaceIs ==
  ASSUME Slab!Parameters, NEW pos \in Nat
  PROVE  /\ Slab!Item(pos) \in Nat /\ Slab!QPos(pos) \in 0 .. Quantum - 1
         /\ \E s \in 0 .. Qset - 1 : Slab!Place(pos) = <<Slab!Item(pos), s>>
  <1>1. Quantum \in Nat \ {0} /\ Qset \in Nat \ {0}
    BY DEF Slab!Parameters
  <1>2. \A a \in Nat, b \in Nat \ {0} :
          a \div b \in Nat /\ a % b \in 0 .. b - 1 /\ a = b * (a \div b) + (a % b)
    OBVIOUS
  <1>3. Quantum * Qset \in Nat \ {0}
    BY <1>1
  <1> DEFINE r == pos % (Quantum * Qset)
             s == r \div Quantum
  <1>4. pos \div (Quantum * Qset) \in Nat /\ pos % Quantum \in 0 .. Quantum - 1
    BY <1>1, <1>2, <1>3
  <1>5. r \in 0 .. Quantum * Qset - 1
    BY <1>2, <1>3
  <1> HIDE DEF r
  <1>6. s \in Nat /\ r % Quantum \in 0 .. Quantum - 1 /\ r = Quantum * s + (r % Quantum)
    <2>1. r \in Nat
      BY <1>3, <1>5
    <2> QED BY <1>1, <1>2, <2>1
  <1> HIDE DEF s
  <1>7. s < Qset
    <2>1. \A a, b, c \in Nat : c * a \in Nat /\ (a <= b => c * a <= c * b)
      OBVIOUS
    <2>2. ~ Qset <= s
      BY <1>1, <1>3, <1>5, <1>6, <2>1
    <2> QED BY <1>1, <1>6, <2>2
  <1>8. Slab!Place(pos) = <<Slab!Item(pos), s>>
    BY DEF Slab!Place, Slab!Item, Slab!ItemSize, r, s
  <1> QED BY <1>1, <1>4, <1>6, <1>7, <1>8 DEF Slab!Item, Slab!ItemSize, Slab!QPos

LEMMA SlabInit == ASSUME Slab!Parameters, Slab!Init PROVE Slab!Inv
  <1> USE DEF Slab!Init
  <1>1. DOMAIN a5 = {}
    OBVIOUS
  <1>2. /\ a7 \in [SlabProcs -> {"closed"}] /\ a9 \in [SlabProcs -> {"none"}]
        /\ a8 \in [SlabProcs -> [kind : {"none", "read", "write"}, pos : Nat, count : Nat]]
    BY DEF Slab!NoOp
  <1>3. Slab!TypeInvariant
    BY <1>1, <1>2 DEF Slab!TypeInvariant
  <1>4. Slab!SemExact /\ Slab!StepsSound /\ Slab!QuantaClean
    BY <1>1 DEF Slab!SemExact, Slab!StepsSound, Slab!QuantaClean
  <1> QED BY <1>3, <1>4 DEF Slab!Inv

(* Steps that leave the data alone and move no process into or out of its  *)
(* call.                                                                   *)
LEMMA SlabQuiet ==
  ASSUME Slab!Inv,
         \/ Slab!CreateCache
         \/ \E p \in SlabProcs : Slab!Open(p) \/ Slab!Release(p) \/ Slab!Deferred(p)
  PROVE  Slab!Inv'
  <1> USE DEF Slab!Inv, Slab!store, Slab!CreateCache, Slab!Open, Slab!Release,
              Slab!Deferred
  <1>1. UNCHANGED <<a2, a3, a4, a5, a6, a8>>
    OBVIOUS
  <1>2. Slab!TypeInvariant'
    BY <1>1 DEF Slab!TypeInvariant
  <1>3. \A q \in SlabProcs : a7'[q] = a7[q] \/ a7'[q] \in {"closed", "open"}
    BY DEF Slab!TypeInvariant
  <1>4. Slab!SemExact' /\ Slab!StepsSound' /\ Slab!QuantaClean'
    BY <1>1, <1>3 DEF Slab!SemExact, Slab!StepsSound, Slab!QuantaClean, Slab!Item,
                      Slab!ItemSize
  <1> QED BY <1>2, <1>4

(* A trim happens while nobody is in a call. *)
LEMMA SlabTrim ==
  ASSUME Slab!Parameters, Slab!Inv, NEW p \in SlabProcs, Slab!OpenTrims(p)
  PROVE  Slab!Inv'
  <1> USE DEF Slab!Inv, Slab!OpenTrims
  <1>1. DOMAIN a5' = {}
    OBVIOUS
  <1>2. Slab!TypeInvariant'
    BY <1>1 DEF Slab!TypeInvariant
  <1>3. \A q \in SlabProcs : a7'[q] \in {"closed", "open"}
    BY DEF Slab!TypeInvariant, Slab!SemExact, Slab!Parameters
  <1>4. Slab!SemExact' /\ Slab!StepsSound' /\ Slab!QuantaClean'
    BY <1>1, <1>3 DEF Slab!SemExact, Slab!StepsSound, Slab!QuantaClean
  <1> QED BY <1>2, <1>4

LEMMA SlabCall ==
  ASSUME Slab!Parameters, Slab!Inv, NEW p \in SlabProcs, NEW kind \in {"read", "write"},
         NEW pos \in Nat, NEW n \in Nat, Slab!Call(p, kind, pos, n)
  PROVE  Slab!Inv'
  <1> USE DEF Slab!Inv, Slab!Call, Slab!store
  <1>1. UNCHANGED <<a3, a4, a5, a6>>
    OBVIOUS
  <1>2. Slab!TypeInvariant'
    BY <1>1 DEF Slab!TypeInvariant
  <1>3. \A q \in SlabProcs : q # p => a7[q] \in {"closed", "open"} /\ a7'[q] = a7[q]
    BY DEF Slab!TypeInvariant, Slab!SemExact, Slab!Parameters
  <1>4. a2' = p /\ a7'[p] = kind
    BY DEF Slab!TypeInvariant
  <1>5. Slab!SemExact' /\ Slab!StepsSound' /\ Slab!QuantaClean'
    BY <1>1, <1>3, <1>4 DEF Slab!SemExact, Slab!StepsSound, Slab!QuantaClean
  <1> QED BY <1>2, <1>5

(* The end of a call: the caller held the semaphore, so nobody is left in  *)
(* a call.                                                                 *)
LEMMA SlabReturn ==
  ASSUME Slab!Parameters, Slab!TypeInvariant, Slab!SemExact, NEW p \in SlabProcs,
         a7[p] \notin {"closed", "open"}, Slab!Return(p)
  PROVE  /\ \A q \in SlabProcs : a7'[q] \in {"closed", "open"}
         /\ a2' = "free"
         /\ a7' \in [SlabProcs -> {"closed", "open"}]
         /\ a8' \in [SlabProcs -> [kind : {"none", "read", "write"}, pos : Nat, count : Nat]]
         /\ a9' \in [SlabProcs -> {"none", "queued", "lost"}]
         /\ Slab!SemExact' /\ Slab!StepsSound'
  <1>1. a2 = p
    BY DEF Slab!SemExact
  <1>2. a7' = [a7 EXCEPT ![p] = "open"]
    BY DEF Slab!Return
  <1>3. a7' \in [SlabProcs -> {"closed", "open"}]
    BY <1>1, <1>2 DEF Slab!TypeInvariant, Slab!SemExact
  <1>4. /\ a8' \in [SlabProcs -> [kind : {"none", "read", "write"}, pos : Nat, count : Nat]]
        /\ a9' \in [SlabProcs -> {"none", "queued", "lost"}] /\ a2' = "free"
    BY DEF Slab!Return, Slab!TypeInvariant, Slab!NoOp
  <1> QED BY <1>3, <1>4 DEF Slab!SemExact, Slab!StepsSound

LEMMA SlabReturns ==
  ASSUME Slab!Parameters, Slab!Inv, NEW p \in SlabProcs,
         Slab!ReadReturns(p) \/ Slab!NoMemory(p)
  PROVE  Slab!Inv'
  <1> USE DEF Slab!Inv
  <1>1. /\ a7[p] \notin {"closed", "open"} /\ Slab!Return(p)
        /\ UNCHANGED <<a1, a3, a4, a5, a6>>
    BY DEF Slab!ReadReturns, Slab!NoMemory, Slab!store
  <1>2. Slab!TypeInvariant' /\ Slab!SemExact' /\ Slab!StepsSound'
    BY <1>1, SlabReturn DEF Slab!TypeInvariant
  <1>3. Slab!QuantaClean'
    BY <1>1 DEF Slab!QuantaClean
  <1> QED BY <1>2, <1>3

(* The steps of a call that find an item, an array or a quantum, or make   *)
(* one: the caller moves on, and what was there is still there.            *)
LEMMA SlabMove ==
  ASSUME Slab!TypeInvariant, Slab!SemExact, NEW p \in SlabProcs, NEW next,
         a7[p] \notin {"closed", "open"}, a7' = [a7 EXCEPT ![p] = next],
         UNCHANGED <<a2, a8>>
  PROVE  /\ Slab!SemExact' /\ a7'[p] = next
         /\ \A q \in SlabProcs : q # p => a7'[q] \in {"closed", "open"}
  <1>1. a2 = p /\ \A q \in SlabProcs : q # p => a7[q] \in {"closed", "open"}
    BY DEF Slab!SemExact
  <1>2. a7'[p] = next /\ \A q \in SlabProcs : q # p => a7'[q] = a7[q]
    BY DEF Slab!TypeInvariant
  <1>3. Slab!SemExact'
    BY <1>1, <1>2 DEF Slab!SemExact
  <1> QED BY <1>1, <1>2, <1>3

LEMMA IndicesGrow == \A m, n \in Nat : m <= n => 0 .. m - 1 \subseteq 0 .. n - 1
  OBVIOUS

LEMMA SlabFollows ==
  ASSUME Slab!Parameters, Slab!Inv, NEW p \in SlabProcs,
         Slab!ReadFollows(p) \/ Slab!WriteFollows(p) \/ Slab!Dies(p)
  PROVE  Slab!Inv'
  <1> USE DEF Slab!Inv
  <1>1. /\ a7[p] \notin {"closed", "open"} /\ UNCHANGED <<a1, a2, a4, a5, a6, a8, a9>>
        /\ \/ Slab!ReadFollows(p) /\ Slab!Follow(p, "copyout")
           \/ Slab!WriteFollows(p) /\ Slab!Follow(p, "array")
           \/ a7' = [a7 EXCEPT ![p] = "dead"] /\ a3' = a3
    BY DEF Slab!ReadFollows, Slab!WriteFollows, Slab!Dies, Slab!store
  <1>2. PICK next \in {"copyout", "array", "dead"} : a7' = [a7 EXCEPT ![p] = next]
    BY <1>1 DEF Slab!Follow
  <1>3. a8[p].pos \in Nat /\ Slab!Item(a8[p].pos) \in Nat /\ a3 \in Nat
    BY PlaceIs DEF Slab!TypeInvariant
  <1>4. a3' \in Nat /\ a3 <= a3' /\ (next = "array" => Slab!Item(a8[p].pos) < a3')
    <2>1. CASE a3' = IF Slab!Item(a8[p].pos) >= a3 THEN Slab!Item(a8[p].pos) + 1 ELSE a3
      BY <1>3, <2>1
    <2>2. CASE a7' = [a7 EXCEPT ![p] = "dead"] /\ a3' = a3
      BY <1>2, <1>3, <2>2 DEF Slab!TypeInvariant
    <2> QED BY <1>1, <2>1, <2>2 DEF Slab!Follow
  <1>5. /\ Slab!SemExact' /\ a7'[p] = next
        /\ \A q \in SlabProcs : q # p => a7'[q] \in {"closed", "open"}
    BY <1>1, <1>2, SlabMove
  <1>6. Slab!TypeInvariant'
    <2>1. a4' \subseteq 0 .. a3' - 1
      <3>1. a4' = a4 /\ a3 \in Nat /\ a3' \in Nat /\ a3 <= a3'
        BY <1>1, <1>3, <1>4
      <3>2. a4 \subseteq 0 .. a3 - 1
        BY DEF Slab!TypeInvariant
      <3> QED BY <3>1, <3>2, IndicesGrow
    <2>2. a7' \in [SlabProcs -> {"closed", "open", "read", "copyout", "write", "array",
                                 "quantum", "copyin", "dead"}]
      BY <1>2 DEF Slab!TypeInvariant
    <2> QED BY <1>1, <1>4, <2>1, <2>2 DEF Slab!TypeInvariant
  <1>7. Slab!StepsSound'
    <2>1. Slab!Item(a8'[p].pos) = Slab!Item(a8[p].pos)
      BY <1>1
    <2> QED BY <1>4, <1>5, <2>1 DEF Slab!StepsSound
  <1>8. Slab!QuantaClean'
    BY <1>1 DEF Slab!QuantaClean
  <1> QED BY <1>5, <1>6, <1>7, <1>8

LEMMA SlabArray ==
  ASSUME Slab!Parameters, Slab!Inv, NEW p \in SlabProcs, Slab!WriteArray(p)
  PROVE  Slab!Inv'
  <1> USE DEF Slab!Inv
  <1> DEFINE i == Slab!Item(a8[p].pos)
  <1>1. /\ a7[p] = "array" /\ a7' = [a7 EXCEPT ![p] = "quantum"]
        /\ a4' = a4 \union {i} /\ UNCHANGED <<a1, a2, a3, a5, a6, a8, a9>>
    BY DEF Slab!WriteArray
  <1>2. i \in Nat /\ i < a3 /\ a3 \in Nat
    BY <1>1, PlaceIs DEF Slab!TypeInvariant, Slab!StepsSound
  <1>3. Slab!Item(a8'[p].pos) = i
    BY <1>1
  <1> HIDE DEF i
  <1>4. /\ Slab!SemExact' /\ a7'[p] = "quantum"
        /\ \A q \in SlabProcs : q # p => a7'[q] \in {"closed", "open"}
    BY <1>1, SlabMove
  <1>5. Slab!TypeInvariant'
    BY <1>1, <1>2 DEF Slab!TypeInvariant
  <1>6. Slab!StepsSound'
    BY <1>1, <1>2, <1>3, <1>4 DEF Slab!StepsSound
  <1>7. Slab!QuantaClean'
    BY <1>1 DEF Slab!QuantaClean
  <1> QED BY <1>4, <1>5, <1>6, <1>7

LEMMA SlabQuantum ==
  ASSUME Slab!Parameters, Slab!Inv, NEW p \in SlabProcs, Slab!WriteQuantum(p)
  PROVE  Slab!Inv'
  <1> USE DEF Slab!Inv
  <1> DEFINE i == Slab!Item(a8[p].pos)
             d == Slab!Place(a8[p].pos)
             zeros == [b \in 0 .. Quantum - 1 |-> 0]
  <1>1. /\ a7[p] = "quantum" /\ a7' = [a7 EXCEPT ![p] = "copyin"]
        /\ a5' = [k \in DOMAIN a5 \union {d} |-> IF k \in DOMAIN a5 THEN a5[k] ELSE zeros]
        /\ UNCHANGED <<a1, a2, a3, a4, a6, a8, a9>>
    BY DEF Slab!WriteQuantum, Slab!NewQuantum
  <1>2. i \in a4 /\ i < a3 /\ d \in a4 \X (0 .. Qset - 1)
    <2>1. a8[p].pos \in Nat
      BY DEF Slab!TypeInvariant
    <2>2. i \in a4 /\ i < a3
      BY <1>1 DEF Slab!StepsSound
    <2>3. \E s \in 0 .. Qset - 1 : d = <<i, s>>
      BY <2>1, PlaceIs
    <2> QED BY <2>2, <2>3
  <1>3. zeros \in [0 .. Quantum - 1 -> {0, 1}]
    OBVIOUS
  <1>4. Slab!Item(a8'[p].pos) = i
    BY <1>1
  <1> HIDE DEF i, d, zeros
  <1>5. /\ Slab!SemExact' /\ a7'[p] = "copyin"
        /\ \A q \in SlabProcs : q # p => a7'[q] \in {"closed", "open"}
    BY <1>1, SlabMove
  <1>6. Slab!QuantaClean'
    BY <1>1, <1>2, <1>3 DEF Slab!QuantaClean
  <1>7. Slab!TypeInvariant'
    <2>1. \A k \in DOMAIN a5' : a5'[k] \in [0 .. Quantum - 1 -> {-1, 0, 1}]
      BY <1>6 DEF Slab!QuantaClean
    <2> QED BY <1>1, <2>1 DEF Slab!TypeInvariant, Slab!Bytes, Slab!Stale
  <1>8. Slab!StepsSound'
    BY <1>1, <1>2, <1>4, <1>5 DEF Slab!StepsSound
  <1> QED BY <1>5, <1>6, <1>7, <1>8

LEMMA SlabCopies ==
  ASSUME Slab!Parameters, Slab!Inv, NEW p \in SlabProcs, NEW n \in 0 .. Quantum,
         Slab!WriteCopies(p, n)
  PROVE  Slab!Inv'
  <1> USE DEF Slab!Inv
  <1> DEFINE d == Slab!Place(a8[p].pos)
             f == Slab!QPos(a8[p].pos)
             new == [b \in 0 .. Quantum - 1 |-> IF b \in f .. f + n - 1 THEN 1 ELSE a5[d][b]]
  <1>1. /\ a7[p] = "copyin" /\ Slab!Return(p) /\ UNCHANGED <<a1, a3, a4>>
        /\ a5' = [a5 EXCEPT ![d] = new]
        /\ a6' = a8[p].pos + n \/ a6' = a6
    BY DEF Slab!WriteCopies
  <1>2. a8[p].pos + n \in Nat
    BY DEF Slab!TypeInvariant, Slab!Parameters
  <1>3. DOMAIN a5' = DOMAIN a5
        /\ \A k \in DOMAIN a5 : a5'[k] = IF k = d THEN new ELSE a5[k]
    BY <1>1
  <1>4. d \in DOMAIN a5 => new \in [0 .. Quantum - 1 -> {0, 1}]
    BY DEF Slab!QuantaClean
  <1> HIDE DEF d, f, new
  <1>5. Slab!QuantaClean'
    BY <1>1, <1>3, <1>4 DEF Slab!QuantaClean
  <1>6. \A k \in DOMAIN a5' : a5'[k] \in [0 .. Quantum - 1 -> Slab!Bytes]
    BY <1>5 DEF Slab!QuantaClean, Slab!Bytes
  <1>7. Slab!TypeInvariant' /\ Slab!SemExact' /\ Slab!StepsSound'
    BY <1>1, <1>2, <1>6, SlabReturn DEF Slab!TypeInvariant
  <1> QED BY <1>5, <1>7

LEMMA SlabNext ==
  ASSUME Slab!Parameters, Slab!Inv, [Slab!Next]_Slab!vars PROVE Slab!Inv'
  <1>1. CASE UNCHANGED Slab!vars
    BY <1>1 DEF Slab!vars, Slab!Inv, Slab!TypeInvariant, Slab!SemExact,
                Slab!StepsSound, Slab!QuantaClean, Slab!Item, Slab!ItemSize
  <1>2. ASSUME NEW p \in SlabProcs, Slab!Step(p) PROVE Slab!Inv'
    BY <1>2, SlabFollows, SlabReturns, SlabArray, SlabQuantum, SlabCopies DEF Slab!Step
  <1>3. ASSUME NEW p \in SlabProcs, NEW kind \in {"read", "write"}, NEW pos \in 0 .. MaxPos,
               NEW n \in 1 .. Quantum, Slab!Call(p, kind, pos, n)
        PROVE  Slab!Inv'
    BY <1>3, SlabCall DEF Slab!Parameters
  <1> QED BY <1>1, <1>2, <1>3, SlabQuiet, SlabTrim DEF Slab!Next

(* A read takes bytes of a quantum, and no quantum has a stale one.        *)
LEMMA SlabImplies ==
  ASSUME Slab!Parameters, Slab!Inv PROVE Slab!TypeInvariant /\ Slab!NoStaleBytes
  <1> USE DEF Slab!Inv
  <1>1. ASSUME NEW p \in SlabProcs PROVE Slab!Stale \notin Slab!Handed(p)
    <2> DEFINE d == Slab!Place(a8[p].pos)
               f == Slab!QPos(a8[p].pos)
    <2>1. f \in 0 .. Quantum - 1 /\ a8[p].count \in Nat /\ a8[p].pos \in Nat
          /\ Quantum \in Nat /\ a6 \in Nat
      BY PlaceIs DEF Slab!TypeInvariant, Slab!Parameters
    <2> DEFINE r == Slab!Readable(p)
    <2>2. r \in Int /\ r <= Quantum - f
      BY <2>1 DEF Slab!Readable
    <2> HIDE DEF d, f, r
    <2>3. ASSUME NEW k \in 0 .. r - 1, d \in DOMAIN a5 PROVE a5[d][f + k] # Slab!Stale
      <3>1. f + k \in 0 .. Quantum - 1
        BY <2>1, <2>2
      <3>2. a5[d][f + k] \in {0, 1}
        BY <2>3, <3>1 DEF Slab!QuantaClean
      <3> QED BY <3>2 DEF Slab!Stale
    <2> QED BY <2>3 DEF Slab!Handed, d, f, r
  <1>2. ASSUME NEW k \in DOMAIN a5 PROVE k[1] \in a4 /\ k[1] < a3 /\ k[2] < Qset
    <2>1. k[1] \in a4 /\ k[2] \in 0 .. Qset - 1
      BY DEF Slab!QuantaClean
    <2>2. k[1] \in 0 .. a3 - 1 /\ a3 \in Nat /\ Qset \in Nat
      BY <2>1 DEF Slab!TypeInvariant, Slab!Parameters
    <2> QED BY <2>1, <2>2
  <1> QED BY <1>1, <1>2 DEF Slab!NoStaleBytes

-----------------------------------------------------------------------------
(* Loading and unloading: first the tables.  A row of two functions is the *)
(* one sequence after the other.                                           *)
LEMMA Glued ==
  ASSUME NEW S, NEW s \in Seq(S), NEW t \in Seq(S), NEW u \in Seq(S),
         Len(u) = Len(s) + Len(t),
         \A i \in 1 .. Len(s) : u[i] = s[i],
         \A i \in 1 .. Len(t) : u[Len(s) + i] = t[i]
  PROVE  s \o t = u
  <1> DEFINE c == s \o t
  <1>1. /\ c \in Seq(S) /\ Len(c) = Len(s) + Len(t)
        /\ \A i \in 1 .. Len(s) + Len(t) :
             c[i] = IF i <= Len(s) THEN s[i] ELSE t[i - Len(s)]
    BY ConcatProperties, Zenon
  <1> HIDE DEF c
  <1>2. ASSUME NEW i \in 1 .. Len(u) PROVE c[i] = u[i]
    <2>1. CASE i <= Len(s)
      BY <1>1, <2>1
    <2>2. CASE ~ i <= Len(s)
      <3> DEFINE j == i - Len(s)
      <3>1. j \in 1 .. Len(t) /\ i = Len(s) + j
        BY <2>2
      <3> HIDE DEF j
      <3>2. u[i] = t[j] /\ c[i] = t[i - Len(s)] /\ i - Len(s) = j
        BY <1>1, <2>2, <3>1
      <3> QED BY <3>2
    <2> QED BY <2>1, <2>2
  <1>3. c = u
    BY <1>1, <1>2, SeqEqual
  <1> QED BY <1>3 DEF c

PipeRow == {"pipe_region", "pipe_devices", "pipe_cdevs"}
HighRow == {"region", "devices", "cdevs", "proc"} \union PipeRow

LEMMA HighInit ==
  Module!high_init = <<"region", "devices", "cdevs", "pipe_region", "pipe_devices",
                       "pipe_cdevs", "proc">>
  <1> DEFINE a == <<"region", "devices", "cdevs">>
             b == <<"pipe_region", "pipe_devices", "pipe_cdevs">>
             c == <<"proc">>
             s == <<"region", "devices", "cdevs", "pipe_region", "pipe_devices", "pipe_cdevs">>
             t == <<"region", "devices", "cdevs", "pipe_region", "pipe_devices",
                    "pipe_cdevs", "proc">>
  <1>1. /\ a \in Seq(HighRow) /\ b \in Seq(HighRow) /\ c \in Seq(HighRow)
        /\ s \in Seq(HighRow) /\ t \in Seq(HighRow)
    BY DEF HighRow, PipeRow
  <1>2. Len(a) = 3 /\ Len(b) = 3 /\ Len(s) = 6 /\ Len(t) = 7 /\ Len(c) = 1
    OBVIOUS
  <1>3. /\ \A i \in 1 .. 3 : s[i] = a[i] /\ s[3 + i] = b[i]
        /\ \A i \in 1 .. 6 : t[i] = s[i]
        /\ \A i \in 1 .. 1 : t[6 + i] = c[i]
    OBVIOUS
  <1>4. Module!high_init = (a \o b) \o c
    BY Zenon DEF Module!high_init, Module!scull_p_init
  <1> HIDE DEF a, b, c, s, t
  <1>5. a \o b = s
    <2>1. /\ Len(s) = Len(a) + Len(b) /\ \A i \in 1 .. Len(a) : s[i] = a[i]
          /\ \A i \in 1 .. Len(b) : s[Len(a) + i] = b[i]
      BY <1>2, <1>3
    <2> QED BY <1>1, <2>1, Glued, Zenon
  <1>6. s \o c = t
    <2>1. /\ Len(t) = Len(s) + Len(c) /\ \A i \in 1 .. Len(s) : t[i] = s[i]
          /\ \A i \in 1 .. Len(c) : t[Len(s) + i] = c[i]
      BY <1>2, <1>3
    <2> QED BY <1>1, <2>1, Glued, Zenon
  <1> QED BY <1>4, <1>5, <1>6, Zenon DEF t

LEMMA HighCleanup ==
  Module!high_cleanup = <<"cdevs", "devices", "proc", "region", "pipe_cdevs",
                          "pipe_devices", "pipe_region">>
  <1> DEFINE a == <<"cdevs", "devices", "proc", "region">>
             b == <<"pipe_cdevs", "pipe_devices", "pipe_region">>
             s == <<"cdevs", "devices", "proc", "region", "pipe_cdevs", "pipe_devices",
                    "pipe_region">>
  <1>1. a \in Seq(HighRow) /\ b \in Seq(HighRow) /\ s \in Seq(HighRow)
    BY DEF HighRow, PipeRow
  <1>2. Len(a) = 4 /\ Len(b) = 3 /\ Len(s) = 7
    OBVIOUS
  <1>3. (\A i \in 1 .. 4 : s[i] = a[i]) /\ \A i \in 1 .. 3 : s[4 + i] = b[i]
    OBVIOUS
  <1>4. Module!high_cleanup = a \o b
    BY Zenon DEF Module!high_cleanup, Module!scull_p_cleanup
  <1> HIDE DEF a, b, s
  <1>5. /\ Len(s) = Len(a) + Len(b) /\ \A i \in 1 .. Len(a) : s[i] = a[i]
        /\ \A i \in 1 .. Len(b) : s[Len(a) + i] = b[i]
    BY <1>2, <1>3
  <1>6. a \o b = s
    BY <1>1, <1>5, Glued, Zenon
  <1> QED BY <1>4, <1>6 DEF s

(* What the proof asks of the row of a driver: an unload lets go of all a  *)
(* load acquires; the array of devices is the second step; a refusal lets  *)
(* go of what was acquired before it, at a time when no number answers     *)
(* yet; and a pipe that is refused leaves the /proc entries to do.         *)
Before(k) == {Module!Steps[i] : i \in 1 .. k - 1}
Refusable(k) == ~Module!Tolerated(Module!Steps[k]) /\ Module!Steps[k] \notin PipeRow

UnloadComplete ==
  Module!ToSet(Module!Steps)
    \subseteq Module!ToSet(Module!ExitOf[a1]) \union Module!KnownLeft("unloaded")

ArraySecond ==
  Module!HasArray => /\ Len(Module!Steps) >= 2
                     /\ Module!Steps[1] = "region" /\ Module!Steps[2] = "devices"

RefusalUndone(k) ==
  /\ Before(k) \subseteq Module!ToSet(Module!OnRefusal(Module!Steps[k]))
                          \union Module!KnownLeft("failed")
  /\ a1 # "scullc" => Before(k) \cap {"cdevs", "pipe_cdevs", "chrdev"} = {}

PipeLast(k) ==
  Module!Steps[k] \in {"pipe_region", "pipe_devices"} =>
    /\ k \in {4, 5} /\ Len(Module!Steps) = 7
    /\ Module!Steps[4] = "pipe_region" /\ Module!Steps[7] = "proc"

RowTyped ==
  Module!Steps \in Seq(Module!Resources) /\ Module!ExitOf[a1] \in Seq(Module!Resources)

RowSound ==
  /\ UnloadComplete /\ ArraySecond
  /\ \A k \in DOMAIN Module!Steps :
       /\ Refusable(k) => RefusalUndone(k)
       /\ PipeLast(k)

LEMMA RowsSound == a1 \in Module!Drivers => RowTyped /\ RowSound
  <1> USE DEF RowSound, UnloadComplete, ArraySecond, Module!HasArray, Refusable,
              RefusalUndone, PipeLast, Before, PipeRow, Module!OnRefusal,
              Module!Tolerated, Module!ToSet, Module!KnownLeft
  <1>1. CASE a1 = "basic"
    <2>1. /\ Module!Steps = <<"region", "devices", "cdevs">>
          /\ Module!ExitOf[a1] = <<"cdevs", "devices", "region">>
      BY <1>1 DEF Module!Steps, Module!InitOf, Module!ExitOf, Module!basic_init,
                  Module!basic_cleanup
    <2>2. RowTyped
      BY <2>1 DEF RowTyped, Module!Resources
    <2> QED BY <1>1, <2>1, <2>2
  <1>2. CASE a1 = "test"
    <2>1. /\ Module!Steps = <<"region", "devices", "cdevs", "proc">>
          /\ Module!ExitOf[a1] = <<"cdevs", "devices", "proc", "region">>
      BY <1>2 DEF Module!Steps, Module!InitOf, Module!ExitOf, Module!test_init,
                  Module!test_cleanup
    <2>2. RowTyped
      BY <2>1 DEF RowTyped, Module!Resources
    <2> QED BY <1>2, <2>1, <2>2
  <1>3. CASE a1 = "scullc"
    <2>1. /\ Module!Steps = <<"region", "devices", "cdevs", "cache">>
          /\ Module!ExitOf[a1] = <<"cdevs", "devices", "cache", "region">>
      BY <1>3 DEF Module!Steps, Module!InitOf, Module!ExitOf, Module!scullc_init,
                  Module!scullc_cleanup
    <2>2. RowTyped
      BY <2>1 DEF RowTyped, Module!Resources
    <2> QED BY <1>3, <2>1, <2>2 DEF Module!scullc_cleanup
  <1>4. CASE a1 = "short"
    <2>1. /\ Module!Steps = <<"ports", "chrdev", "page">>
          /\ Module!ExitOf[a1] = <<"chrdev", "ports", "page">>
      BY <1>4 DEF Module!Steps, Module!InitOf, Module!ExitOf, Module!short_init,
                  Module!short_cleanup
    <2>2. RowTyped
      BY <2>1 DEF RowTyped, Module!Resources
    <2> QED BY <1>4, <2>1, <2>2
  <1>5. CASE a1 = "short_mem"
    <2>1. /\ Module!Steps = <<"memory", "mapping", "chrdev", "page">>
          /\ Module!ExitOf[a1] = <<"chrdev", "mapping", "memory", "page">>
      BY <1>5 DEF Module!Steps, Module!InitOf, Module!ExitOf, Module!short_mem_init,
                  Module!short_mem_cleanup
    <2>2. RowTyped
      BY <2>1 DEF RowTyped, Module!Resources
    <2> QED BY <1>5, <2>1, <2>2
  <1>6. CASE a1 = "short_io"
    <2>1. /\ Module!Steps = <<"ports", "chrdev">>
          /\ Module!ExitOf[a1] = <<>>
      BY <1>6 DEF Module!Steps, Module!InitOf, Module!ExitOf, Module!short_io_init,
                  Module!short_io_cleanup
    <2>2. RowTyped
      BY <2>1 DEF RowTyped, Module!Resources
    <2> QED BY <1>6, <2>1, <2>2
  <1>7. CASE a1 = "short_port"
    <2>1. /\ Module!Steps = <<"ports", "chrdev">>
          /\ Module!ExitOf[a1] = <<"chrdev", "ports">>
      BY <1>7 DEF Module!Steps, Module!InitOf, Module!ExitOf, Module!short_port_init,
                  Module!short_port_cleanup
    <2>2. RowTyped
      BY <2>1 DEF RowTyped, Module!Resources
    <2> QED BY <1>7, <2>1, <2>2
  <1>8. CASE a1 = "sleepy"
    <2>1. /\ Module!Steps = <<"chrdev">>
          /\ Module!ExitOf[a1] = <<"chrdev">>
      BY <1>8 DEF Module!Steps, Module!InitOf, Module!ExitOf, Module!sleepy_init,
                  Module!sleepy_cleanup
    <2>2. RowTyped
      BY <2>1 DEF RowTyped, Module!Resources
    <2> QED BY <1>8, <2>1, <2>2
  <1>9. CASE a1 = "complete"
    <2>1. /\ Module!Steps = <<"chrdev">>
          /\ Module!ExitOf[a1] = <<"chrdev">>
      BY <1>9 DEF Module!Steps, Module!InitOf, Module!ExitOf, Module!complete_init,
                  Module!complete_cleanup
    <2>2. RowTyped
      BY <2>1 DEF RowTyped, Module!Resources
    <2> QED BY <1>9, <2>1, <2>2
  <1>10. CASE a1 = "dely"
    <2>1. /\ Module!Steps = <<"region", "proc">>
          /\ Module!ExitOf[a1] = <<"proc", "region">>
      BY <1>10 DEF Module!Steps, Module!InitOf, Module!ExitOf, Module!dely_init,
                  Module!dely_cleanup
    <2>2. RowTyped
      BY <2>1 DEF RowTyped, Module!Resources
    <2> QED BY <1>10, <2>1, <2>2
  <1>11. CASE a1 = "usb"
    <2>1. /\ Module!Steps = <<"usb">>
          /\ Module!ExitOf[a1] = <<"usb">>
      BY <1>11 DEF Module!Steps, Module!InitOf, Module!ExitOf, Module!usb_skel_init,
                  Module!usb_skel_exit
    <2>2. RowTyped
      BY <2>1 DEF RowTyped, Module!Resources
    <2> QED BY <1>11, <2>1, <2>2
  <1>12. CASE a1 = "high"
    <2>1. /\ Module!Steps = <<"region", "devices", "cdevs", "pipe_region", "pipe_devices",
                              "pipe_cdevs", "proc">>
          /\ Module!ExitOf[a1] = <<"cdevs", "devices", "proc", "region", "pipe_cdevs",
                                   "pipe_devices", "pipe_region">>
      BY <1>12, HighInit, HighCleanup DEF Module!Steps, Module!InitOf, Module!ExitOf
    <2>2. RowTyped
      BY <2>1 DEF RowTyped, Module!Resources
    <2> QED BY <1>12, <2>1, <2>2
  <1> QED BY <1>1, <1>2, <1>3, <1>4, <1>5, <1>6, <1>7, <1>8, <1>9, <1>10, <1>11, <1>12
          DEF Module!Drivers, Module!InitOf

LEMMA RefusalTyped ==
  ASSUME a1 \in Module!Drivers, NEW s
  PROVE  Module!OnRefusal(s) \in Seq(Module!Resources)
  <1>1. Module!ExitOf[a1] \in Seq(Module!Resources)
    BY RowsSound DEF RowTyped
  <1>2. /\ <<"region">> \in Seq(Module!Resources) /\ <<"ports">> \in Seq(Module!Resources)
        /\ <<>> \in Seq(Module!Resources)
    BY DEF Module!Resources
  <1>3. Module!scullc_cleanup \in Seq(Module!Resources)
    BY DEF Module!scullc_cleanup, Module!Resources
  <1> QED BY <1>1, <1>2, <1>3 DEF Module!OnRefusal

(* The driver stays, and so does its row.                                  *)
LEMMA RowStays ==
  ASSUME UNCHANGED a1
  PROVE  /\ Module!Steps' = Module!Steps /\ Module!HasArray' = Module!HasArray
         /\ (Module!KnownLeft("failed"))' = Module!KnownLeft("failed")
         /\ (Module!KnownLeft("unloaded"))' = Module!KnownLeft("unloaded")
  BY DEF Module!Steps, Module!HasArray, Module!KnownLeft

(* The steps left of a function, taken one by one.                         *)
LEMMA TakeStep ==
  ASSUME NEW S, NEW s \in Seq(S), s # <<>>
  PROVE  /\ Tail(s) \in Seq(S) /\ Head(s) \in S
         /\ Module!ToSet(s) = {Head(s)} \union Module!ToSet(Tail(s))
  <1>1. /\ Tail(s) \in Seq(S) /\ Head(s) \in S /\ Len(s) \in Nat /\ Len(s) > 0
        /\ Len(Tail(s)) = Len(s) - 1 /\ \A i \in 1 .. Len(Tail(s)) : Tail(s)[i] = s[i + 1]
        /\ Head(s) = s[1]
    BY HeadTailProperties
  <1> DEFINE t == Tail(s)
  <1> HIDE DEF t
  <1>2. DOMAIN s = 1 .. Len(s) /\ DOMAIN t = 1 .. Len(s) - 1
    BY <1>1 DEF t
  <1>3. \A i \in 1 .. Len(s) - 1 : t[i] = s[i + 1]
    BY <1>1 DEF t
  <1>4. ASSUME NEW e \in Module!ToSet(s) PROVE e = s[1] \/ e \in Module!ToSet(t)
    <2>1. PICK i \in 1 .. Len(s) : e = s[i]
      BY <1>2 DEF Module!ToSet
    <2>2. i # 1 => i - 1 \in 1 .. Len(s) - 1 /\ t[i - 1] = e
      BY <1>1, <1>3, <2>1
    <2> QED BY <1>2, <2>1, <2>2 DEF Module!ToSet
  <1>5. ASSUME NEW e \in Module!ToSet(t) PROVE e \in Module!ToSet(s)
    <2>1. PICK i \in 1 .. Len(s) - 1 : e = t[i]
      BY <1>2 DEF Module!ToSet
    <2>2. i + 1 \in 1 .. Len(s) /\ s[i + 1] = e
      BY <1>1, <1>3, <2>1
    <2> QED BY <1>2, <2>2 DEF Module!ToSet
  <1>6. s[1] \in Module!ToSet(s)
    BY <1>1, <1>2 DEF Module!ToSet
  <1> QED BY <1>1, <1>4, <1>5, <1>6 DEF t

LEMMA StepsLeft ==
  ASSUME RowTyped, NEW k \in 1 .. Len(Module!Steps) + 1,
         a3 = SubSeq(Module!Steps, k, Len(Module!Steps))
  PROVE  /\ a3 = <<>> => k = Len(Module!Steps) + 1
         /\ a3 # <<>> => /\ k \in DOMAIN Module!Steps /\ Head(a3) = Module!Steps[k]
                         /\ Tail(a3) = SubSeq(Module!Steps, k + 1, Len(Module!Steps))
  <1> DEFINE s == Module!Steps
             n == Len(Module!Steps)
  <1>1. s \in Seq(Module!Resources) /\ n \in Nat /\ DOMAIN s = 1 .. n
    BY DEF RowTyped
  <1>2. CASE k = n + 1
    <2>1. SubSeq(s, k, n) = <<>>
      BY <1>1, <1>2, SubSeqEmpty
    <2> QED BY <1>2, <2>1
  <1>3. CASE k # n + 1
    <2>1. k \in 1 .. n /\ n \in k .. n
      BY <1>1, <1>3
    <2>2. Head(SubSeq(s, k, n)) = s[k] /\ Tail(SubSeq(s, k, n)) = SubSeq(s, k + 1, n)
      BY <1>1, <2>1, HeadTailOfSubSeq
    <2>3. Len(SubSeq(s, k, n)) = n - k + 1
      BY <1>1, <2>1, SubSeqProperties
    <2>4. SubSeq(s, k, n) # <<>>
      <3> DEFINE u == SubSeq(s, k, n)
      <3>1. Len(u) # Len(<<>>)
        BY <1>1, <2>1, <2>3
      <3> HIDE DEF u
      <3>2. u # <<>>
        BY <3>1
      <3> QED BY <3>2 DEF u
    <2> QED BY <1>1, <2>1, <2>2, <2>4
  <1> QED BY <1>2, <1>3

LEMMA ModuleInit ==
  ASSUME Module!Parameters, Module!Init PROVE Module!Inv
  <1> USE DEF Module!Init
  <1>1. a1 \in Module!Drivers /\ a3 = Module!Steps /\ RowTyped /\ RowSound
    BY RowsSound DEF Module!Steps
  <1>2. Module!TypeInvariant
    BY <1>1 DEF Module!TypeInvariant, Module!Parameters, RowTyped
  <1>3. Len(Module!Steps) \in Nat /\ a3 = SubSeq(Module!Steps, 1, Len(Module!Steps))
    BY <1>1, SubSeqFull DEF RowTyped
  <1>4. Module!LoadInOrder(1)
    BY <1>3 DEF Module!LoadInOrder
  <1>5. Module!LoadSound
    BY <1>3, <1>4 DEF Module!LoadSound
  <1> QED BY <1>2, <1>5 DEF Module!Inv, Module!ReleaseSound, Module!FilesClosed,
                            Module!NothingLeft

(* A load goes on: k is the step that comes next.                          *)
LEMMA LoadOn ==
  ASSUME Module!Inv, RowTyped, RowSound, a2 = "init", a3 # <<>>,
         NEW k \in 1 .. Len(Module!Steps) + 1, Module!LoadInOrder(k)
  PROVE  /\ k \in DOMAIN Module!Steps /\ k \in Nat /\ k >= 1 /\ k <= Len(Module!Steps)
         /\ Len(Module!Steps) \in Nat /\ DOMAIN Module!Steps = 1 .. Len(Module!Steps)
         /\ Head(a3) = Module!Steps[k]
         /\ Tail(a3) = SubSeq(Module!Steps, k + 1, Len(Module!Steps))
         /\ Tail(a3) \in Seq(Module!Resources)
         /\ Module!Steps[k] \in Module!ToSet(Module!Steps)
         /\ Module!HasArray /\ k = 2 => Module!Steps[k] = "devices"
         /\ k + 1 \in 1 .. Len(Module!Steps) + 1
  <1>1. Len(Module!Steps) \in Nat /\ DOMAIN Module!Steps = 1 .. Len(Module!Steps)
    BY DEF RowTyped
  <1>2. /\ k \in DOMAIN Module!Steps /\ Head(a3) = Module!Steps[k]
        /\ Tail(a3) = SubSeq(Module!Steps, k + 1, Len(Module!Steps))
    BY StepsLeft DEF Module!LoadInOrder
  <1>3. Tail(a3) \in Seq(Module!Resources)
    BY TakeStep DEF Module!Inv, Module!TypeInvariant
  <1>4. Module!Steps[k] \in Module!ToSet(Module!Steps)
    BY <1>2 DEF Module!ToSet
  <1>5. Module!HasArray /\ k = 2 => Module!Steps[k] = "devices"
    BY DEF RowSound, ArraySecond
  <1>6. /\ k \in Nat /\ k >= 1 /\ k <= Len(Module!Steps)
        /\ k + 1 \in 1 .. Len(Module!Steps) + 1
    BY <1>1, <1>2
  <1> QED BY <1>1, <1>2, <1>3, <1>4, <1>5, <1>6, Zenon

LEMMA ModuleAcquire ==
  ASSUME Module!Inv, Module!Acquire PROVE Module!Inv'
  <1> USE DEF Module!Acquire
  <1>1. RowTyped /\ RowSound
    BY RowsSound DEF Module!Inv, Module!TypeInvariant
  <1>2. PICK k \in 1 .. Len(Module!Steps) + 1 : Module!LoadInOrder(k)
    BY DEF Module!Inv, Module!LoadSound
  <1>3. /\ Module!Steps' = Module!Steps /\ Module!HasArray' = Module!HasArray
    BY RowStays
  <1>4. /\ k \in Nat /\ k >= 1 /\ Head(a3) = Module!Steps[k]
        /\ Tail(a3) = SubSeq(Module!Steps, k + 1, Len(Module!Steps))
        /\ Tail(a3) \in Seq(Module!Resources)
        /\ Module!Steps[k] \in Module!ToSet(Module!Steps)
        /\ Module!HasArray /\ k = 2 => Module!Steps[k] = "devices"
        /\ k + 1 \in 1 .. Len(Module!Steps) + 1
    BY <1>1, <1>2, LoadOn
  <1>5. Module!TypeInvariant'
    BY <1>4 DEF Module!Inv, Module!TypeInvariant, Module!Steps
  <1>6. Module!LoadInOrder(k + 1)'
    <2>1. a3' = SubSeq(Module!Steps', k + 1, Len(Module!Steps'))
      BY <1>3, <1>4
    <2>2. a4' \subseteq {Module!Steps'[i] : i \in 1 .. (k + 1) - 1}
      <3>1. a4 \subseteq {Module!Steps[i] : i \in 1 .. k - 1}
        BY <1>2 DEF Module!LoadInOrder
      <3>2. 1 .. k - 1 \subseteq 1 .. (k + 1) - 1 /\ k \in 1 .. (k + 1) - 1
        BY <1>4
      <3> QED BY <1>3, <1>4, <3>1, <3>2
    <2>3. Module!HasArray' /\ k + 1 > 2 => "devices" \in a4'
      BY <1>2, <1>3, <1>4 DEF Module!LoadInOrder
    <2>4. a5' > 0 => Module!Answering'
      BY <1>2 DEF Module!LoadInOrder, Module!Answering
    <2> QED BY <2>1, <2>2, <2>3, <2>4 DEF Module!LoadInOrder
  <1>7. Module!LoadSound'
    BY <1>3, <1>4, <1>6 DEF Module!LoadSound
  <1> QED BY <1>5, <1>7 DEF Module!Inv, Module!ReleaseSound, Module!FilesClosed,
                            Module!NothingLeft

LEMMA ModuleTolerate ==
  ASSUME Module!Inv, Module!Tolerate PROVE Module!Inv'
  <1> USE DEF Module!Tolerate
  <1>1. RowTyped /\ RowSound
    BY RowsSound DEF Module!Inv, Module!TypeInvariant
  <1>2. PICK k \in 1 .. Len(Module!Steps) + 1 : Module!LoadInOrder(k)
    BY DEF Module!Inv, Module!LoadSound
  <1>3. /\ Module!Steps' = Module!Steps /\ Module!HasArray' = Module!HasArray
    BY RowStays
  <1>4. /\ k \in Nat /\ k >= 1 /\ Head(a3) = Module!Steps[k]
        /\ Tail(a3) = SubSeq(Module!Steps, k + 1, Len(Module!Steps))
        /\ Tail(a3) \in Seq(Module!Resources)
        /\ Module!HasArray /\ k = 2 => Module!Steps[k] = "devices"
        /\ k + 1 \in 1 .. Len(Module!Steps) + 1
    BY <1>1, <1>2, LoadOn
  <1>5. Module!TypeInvariant'
    BY <1>4 DEF Module!Inv, Module!TypeInvariant
  <1>6. Module!LoadInOrder(k + 1)'
    <2>1. a3' = SubSeq(Module!Steps', k + 1, Len(Module!Steps'))
      BY <1>3, <1>4
    <2>2. a4' \subseteq {Module!Steps'[i] : i \in 1 .. (k + 1) - 1}
      <3>1. a4 \subseteq {Module!Steps[i] : i \in 1 .. k - 1}
        BY <1>2 DEF Module!LoadInOrder
      <3>2. 1 .. k - 1 \subseteq 1 .. (k + 1) - 1
        BY <1>4
      <3> QED BY <1>3, <3>1, <3>2
    <2>3. Module!HasArray' /\ k + 1 > 2 => "devices" \in a4'
      <3>1. Module!HasArray => Head(a3) # "devices"
        BY DEF Module!HasArray, Module!Tolerated
      <3>2. Module!HasArray => k # 2
        BY <1>4, <3>1
      <3> QED BY <1>2, <1>3, <1>4, <3>2 DEF Module!LoadInOrder
    <2>4. a5' > 0 => Module!Answering'
      BY <1>2 DEF Module!LoadInOrder, Module!Answering
    <2> QED BY <2>1, <2>2, <2>3, <2>4 DEF Module!LoadInOrder
  <1>7. Module!LoadSound'
    BY <1>3, <1>4, <1>6 DEF Module!LoadSound
  <1> QED BY <1>5, <1>7 DEF Module!Inv, Module!ReleaseSound, Module!FilesClosed,
                            Module!NothingLeft

LEMMA LastStep ==
  ASSUME NEW S, NEW s \in Seq(S), s # <<>>
  PROVE  SubSeq(s, Len(s), Len(s)) = <<s[Len(s)]>>
  <1>1. Len(s) \in Nat /\ Len(s) >= 1
    BY EmptySeq
  <1> DEFINE n == Len(s)
             u == SubSeq(s, n, n)
             v == <<s[n]>>
  <1>2. u \in Seq(S) /\ Len(u) = 1 /\ u[1] = s[n]
    BY <1>1, SubSeqProperties
  <1>3. v \in Seq(S) /\ Len(v) = 1 /\ v[1] = s[n]
    BY <1>1
  <1> HIDE DEF u, v
  <1>4. u = v
    BY <1>2, <1>3, SeqEqual
  <1> QED BY <1>4 DEF u, v

LEMMA ModuleRefusePipe ==
  ASSUME Module!Inv, Module!RefusePipe PROVE Module!Inv'
  <1> USE DEF Module!RefusePipe
  <1>1. RowTyped /\ RowSound
    BY RowsSound DEF Module!Inv, Module!TypeInvariant
  <1>2. PICK k \in 1 .. Len(Module!Steps) + 1 : Module!LoadInOrder(k)
    BY DEF Module!Inv, Module!LoadSound
  <1>3. /\ Module!Steps' = Module!Steps /\ Module!HasArray' = Module!HasArray
    BY RowStays
  <1>4. k \in DOMAIN Module!Steps /\ Head(a3) = Module!Steps[k]
    BY <1>1, <1>2, LoadOn
  <1>5. k \in {4, 5} /\ Len(Module!Steps) = 7 /\ Module!Steps[7] = "proc"
    BY <1>1, <1>4 DEF RowSound, PipeLast
  <1>6. a3' = SubSeq(Module!Steps, 7, Len(Module!Steps))
    <2>1. Module!Steps # <<>>
      BY <1>4
    <2> QED BY <1>1, <1>5, <2>1, LastStep DEF RowTyped
  <1>7. Module!TypeInvariant'
    BY DEF Module!Inv, Module!TypeInvariant, Module!Resources
  <1>8. Module!LoadInOrder(7)'
    <2>1. a3' = SubSeq(Module!Steps', 7, Len(Module!Steps'))
      BY <1>3, <1>6
    <2>2. a4' \subseteq {Module!Steps'[i] : i \in 1 .. 7 - 1}
      <3>1. a4 \subseteq {Module!Steps[i] : i \in 1 .. k - 1}
        BY <1>2 DEF Module!LoadInOrder
      <3>2. 1 .. k - 1 \subseteq 1 .. 7 - 1
        BY <1>5
      <3> QED BY <1>3, <3>1, <3>2
    <2>3. Module!HasArray' => "devices" \in a4'
      BY <1>2, <1>3, <1>5 DEF Module!LoadInOrder
    <2>4. a5' > 0 => Module!Answering'
      BY <1>2 DEF Module!LoadInOrder, Module!Answering
    <2> QED BY <2>1, <2>2, <2>3, <2>4 DEF Module!LoadInOrder
  <1>9. Module!LoadSound'
    BY <1>3, <1>5, <1>8 DEF Module!LoadSound
  <1> QED BY <1>7, <1>9 DEF Module!Inv, Module!ReleaseSound, Module!FilesClosed,
                            Module!NothingLeft

LEMMA ModuleRefuse ==
  ASSUME Module!Inv, Module!Refuse PROVE Module!Inv'
  <1> USE DEF Module!Refuse
  <1>1. RowTyped /\ RowSound
    BY RowsSound DEF Module!Inv, Module!TypeInvariant
  <1>2. PICK k \in 1 .. Len(Module!Steps) + 1 : Module!LoadInOrder(k)
    BY DEF Module!Inv, Module!LoadSound
  <1>3. k \in DOMAIN Module!Steps /\ Head(a3) = Module!Steps[k]
    BY <1>1, <1>2, LoadOn
  <1>4. Module!Steps[k] \notin PipeRow
    BY <1>3 DEF PipeRow, Module!Tolerated
  <1>5. RefusalUndone(k)
    BY <1>1, <1>3, <1>4 DEF RowSound, Refusable
  <1>6. a4 \subseteq Before(k)
    BY <1>2 DEF Module!LoadInOrder, Before
  <1>7. Module!TypeInvariant'
    BY RefusalTyped DEF Module!Inv, Module!TypeInvariant
  <1>8. Module!ReleaseSound'
    <2>1. a1 # "dely"
      BY DEF Module!Tolerated
    <2>2. a4 \subseteq Module!ToSet(Module!OnRefusal(Head(a3)))
                         \union Module!KnownLeft("failed")
      BY <1>3, <1>5, <1>6 DEF RefusalUndone
    <2>3. a4' \subseteq Module!ToSet(a3)' \union Module!KnownLeft("failed")'
      BY <2>2, RowStays DEF Module!ToSet
    <2> QED BY <2>1, <2>3 DEF Module!ReleaseSound
  <1>9. Module!FilesClosed'
    <2>1. ~Module!Answering \/ a1 = "scullc"
      BY <1>5, <1>6 DEF RefusalUndone, Module!Answering
    <2>2. a5 \in Nat
      BY DEF Module!Inv, Module!TypeInvariant
    <2>3. a5 > 0 => Module!Answering
      BY <1>2 DEF Module!LoadInOrder
    <2> QED BY <2>1, <2>2, <2>3 DEF Module!FilesClosed
  <1> QED BY <1>7, <1>8, <1>9 DEF Module!Inv, Module!LoadSound, Module!NothingLeft

LEMMA ModuleLoaded ==
  ASSUME Module!Inv, Module!Loaded PROVE Module!Inv'
  <1> USE DEF Module!Loaded
  <1>1. RowTyped /\ RowSound
    BY RowsSound DEF Module!Inv, Module!TypeInvariant
  <1>2. PICK k \in 1 .. Len(Module!Steps) + 1 : Module!LoadInOrder(k)
    BY DEF Module!Inv, Module!LoadSound
  <1>3. k = Len(Module!Steps) + 1 /\ Len(Module!Steps) \in Nat
    BY <1>1, <1>2, StepsLeft DEF Module!LoadInOrder, RowTyped
  <1>4. Module!HasArray => "devices" \in a4
    BY <1>1, <1>2, <1>3 DEF Module!LoadInOrder, RowSound, ArraySecond
  <1>5. Module!LoadSound'
    BY <1>4, RowStays DEF Module!LoadSound
  <1>6. Module!TypeInvariant'
    BY DEF Module!Inv, Module!TypeInvariant
  <1> QED BY <1>5, <1>6 DEF Module!Inv, Module!ReleaseSound, Module!FilesClosed,
                            Module!NothingLeft

LEMMA ModuleUnload ==
  ASSUME Module!Inv, Module!Unload PROVE Module!Inv'
  <1> USE DEF Module!Unload
  <1>1. RowTyped /\ RowSound
    BY RowsSound DEF Module!Inv, Module!TypeInvariant
  <1>2. Module!TypeInvariant'
    BY <1>1 DEF Module!Inv, Module!TypeInvariant, RowTyped
  <1>3. Module!ReleaseSound'
    <2>1. a4 \subseteq Module!ToSet(Module!ExitOf[a1]) \union Module!KnownLeft("unloaded")
      BY <1>1 DEF RowSound, UnloadComplete, Module!Inv, Module!TypeInvariant, Module!Steps
    <2>2. a4' \subseteq Module!ToSet(a3)' \union Module!KnownLeft("unloaded")'
      BY <2>1, RowStays DEF Module!ToSet
    <2> QED BY <2>2 DEF Module!ReleaseSound
  <1> QED BY <1>2, <1>3 DEF Module!Inv, Module!LoadSound, Module!FilesClosed,
                            Module!NothingLeft

LEMMA ModuleRelease ==
  ASSUME Module!Inv, Module!Release PROVE Module!Inv'
  <1> USE DEF Module!Release
  <1>1. /\ Tail(a3) \in Seq(Module!Resources)
        /\ Module!ToSet(a3) = {Head(a3)} \union Module!ToSet(Tail(a3))
    BY TakeStep DEF Module!Inv, Module!TypeInvariant
  <1>2. Module!TypeInvariant'
    BY <1>1 DEF Module!Inv, Module!TypeInvariant
  <1>3. Module!ToSet(a3)' = Module!ToSet(Tail(a3))
    BY DEF Module!ToSet
  <1>4. a1 = "dely" => "region" \in Module!KnownLeft("unloaded")
    BY DEF Module!KnownLeft
  <1>5. Module!ReleaseSound'
    <2>1. CASE a2 = "fail"
      <3>1. a1 # "dely" /\ a4 \subseteq Module!ToSet(a3) \union Module!KnownLeft("failed")
        BY <2>1 DEF Module!Inv, Module!ReleaseSound
      <3>2. a4' \subseteq Module!ToSet(a3)' \union Module!KnownLeft("failed")'
        BY <1>1, <1>3, <3>1, RowStays
      <3> QED BY <2>1, <3>1, <3>2 DEF Module!ReleaseSound
    <2>2. CASE a2 = "exit"
      <3>1. a4 \subseteq Module!ToSet(a3) \union Module!KnownLeft("unloaded")
        BY <2>2 DEF Module!Inv, Module!ReleaseSound
      <3>2. a4' \subseteq Module!ToSet(a3)' \union Module!KnownLeft("unloaded")'
        BY <1>1, <1>3, <1>4, <3>1, RowStays
      <3> QED BY <2>2, <3>2 DEF Module!ReleaseSound
    <2> QED BY <2>1, <2>2
  <1> QED BY <1>2, <1>5 DEF Module!Inv, Module!LoadSound, Module!FilesClosed,
                            Module!NothingLeft

LEMMA ModuleGone ==
  ASSUME Module!Inv, Module!Gone PROVE Module!Inv'
  <1> USE DEF Module!Gone
  <1>1. Module!ToSet(a3) = {}
    BY DEF Module!ToSet
  <1>2. Module!NothingLeft'
    <2>1. CASE a2 = "fail"
      BY <1>1, <2>1, RowStays
      DEF Module!Inv, Module!ReleaseSound, Module!NothingLeft
    <2>2. CASE a2 = "exit"
      BY <1>1, <2>2, RowStays
      DEF Module!Inv, Module!ReleaseSound, Module!NothingLeft
    <2> QED BY <2>1, <2>2
  <1>3. Module!TypeInvariant'
    BY DEF Module!Inv, Module!TypeInvariant
  <1> QED BY <1>2, <1>3 DEF Module!Inv, Module!LoadSound, Module!ReleaseSound,
                            Module!FilesClosed

LEMMA ModuleFiles ==
  ASSUME Module!Parameters, Module!Inv, Module!Open \/ Module!Close PROVE Module!Inv'
  <1> USE DEF Module!Open, Module!Close
  <1>1. Module!TypeInvariant'
    BY DEF Module!Inv, Module!TypeInvariant, Module!Parameters
  <1>2. Module!LoadSound'
    <2>1. Module!Steps' = Module!Steps /\ Module!HasArray' = Module!HasArray
      BY RowStays
    <2>2. ASSUME a2 = "init"
          PROVE  \E k \in 1 .. Len(Module!Steps') + 1 : Module!LoadInOrder(k)'
      <3>1. PICK k \in 1 .. Len(Module!Steps) + 1 : Module!LoadInOrder(k)
        BY <2>2 DEF Module!Inv, Module!LoadSound
      <3>2. a5' > 0 => Module!Answering'
        BY <3>1 DEF Module!LoadInOrder, Module!Answering, Module!Inv, Module!TypeInvariant,
                    Module!Parameters
      <3>3. Module!LoadInOrder(k)'
        BY <2>1, <3>1, <3>2 DEF Module!LoadInOrder
      <3> QED BY <2>1, <3>3
    <2> QED BY <2>1, <2>2 DEF Module!Inv, Module!LoadSound
  <1>3. Module!ReleaseSound'
    BY RowStays DEF Module!Inv, Module!ReleaseSound, Module!ToSet
  <1>4. Module!NothingLeft'
    BY RowStays DEF Module!Inv, Module!NothingLeft, Module!KnownLeft
  <1>5. Module!FilesClosed'
    BY DEF Module!Inv, Module!FilesClosed, Module!TypeInvariant, Module!Parameters
  <1> QED BY <1>1, <1>2, <1>3, <1>4, <1>5 DEF Module!Inv

LEMMA ModuleStutters ==
  ASSUME Module!Inv, UNCHANGED Module!vars PROVE Module!Inv'
  <1> USE DEF Module!vars
  <1>1. Module!TypeInvariant'
    BY DEF Module!Inv, Module!TypeInvariant
  <1>2. Module!LoadSound'
    BY RowStays DEF Module!Inv, Module!LoadSound, Module!LoadInOrder, Module!Answering
  <1>3. Module!ReleaseSound' /\ Module!NothingLeft' /\ Module!FilesClosed'
    BY RowStays DEF Module!Inv, Module!ReleaseSound, Module!ToSet, Module!NothingLeft,
                    Module!KnownLeft, Module!FilesClosed
  <1> QED BY <1>1, <1>2, <1>3 DEF Module!Inv

LEMMA ModuleNext ==
  ASSUME Module!Parameters, Module!Inv, [Module!Next]_Module!vars PROVE Module!Inv'
  BY ModuleStutters, ModuleAcquire, ModuleTolerate, ModuleRefusePipe, ModuleRefuse,
     ModuleLoaded, ModuleUnload, ModuleRelease, ModuleGone, ModuleFiles DEF Module!Next

LEMMA ModuleImplies ==
  ASSUME Module!Inv
  PROVE  Module!TypeInvariant /\ Module!NothingLeft /\ Module!OpenFindsDevice
  <1>1. ASSUME a5 > 0, a1 # "scullc" PROVE a2 \in {"init", "loaded"}
    BY <1>1 DEF Module!Inv, Module!FilesClosed
  <1>2. ASSUME a5 > 0, a2 = "init", Module!HasArray PROVE "devices" \in a4
    <2>1. RowTyped /\ RowSound
      BY RowsSound DEF Module!Inv, Module!TypeInvariant
    <2>2. PICK k \in 1 .. Len(Module!Steps) + 1 : Module!LoadInOrder(k)
      BY <1>2 DEF Module!Inv, Module!LoadSound
    <2>3. PICK i \in 1 .. k - 1 : Module!Steps[i] \in {"cdevs", "pipe_cdevs", "chrdev"}
      BY <1>2, <2>2 DEF Module!LoadInOrder, Module!Answering
    <2>4. i # 1
      BY <1>2, <2>1, <2>3 DEF RowSound, ArraySecond
    <2>5. k > 2
      BY <2>1, <2>3, <2>4 DEF RowTyped
    <2> QED BY <1>2, <2>2, <2>5 DEF Module!LoadInOrder
  <1>3. ASSUME a2 = "loaded", Module!HasArray PROVE "devices" \in a4
    BY <1>3 DEF Module!Inv, Module!LoadSound
  <1> QED BY <1>1, <1>2, <1>3 DEF Module!Inv, Module!OpenFindsDevice, Module!HasArray

-----------------------------------------------------------------------------
(* The devices with proofs of their own: their modules again, now with     *)
(* their theorems.                                                         *)
UP == INSTANCE UsbSkelProofs WITH
  hub <- a1, bound <- a2, intfdata <- a3, minor <- a4, kref <- a5, fresh <- a6,
  pc <- a7, found <- a8, file <- a9, urbs <- a10
PP == INSTANCE ScullPrivProofs WITH
  list <- a1, key <- a2, lock <- a3, pc <- a4, dev <- a5
SP == INSTANCE SleepyProofs WITH Signals <- TRUE,
  pc <- a1, flag <- a2, wq <- a3, signal <- a4

(* The definitions of the two instances of a module are the same.          *)
LEMMA UsbSame ==
  /\ Usb!Parameters <=> UP!Parameters
  /\ Usb!Init <=> UP!Init
  /\ Usb!Next <=> UP!Next
  /\ Usb!TypeInvariant <=> UP!TypeInvariant
  /\ Usb!NoUseAfterFree <=> UP!NoUseAfterFree
  <1>1. Usb!Parameters <=> UP!Parameters
    BY DEF Usb!Parameters, UP!Parameters, Usb!IsFiniteSet, UP!IsFiniteSet
  <1>2. Usb!Init <=> UP!Init
    BY DEF Usb!Init, UP!Init
  <1>3. Usb!Hub <=> UP!Hub
    BY DEF Usb!Hub, UP!Hub, Usb!ProbeAllocate, UP!ProbeAllocate, Usb!ProbeFails,
           UP!ProbeFails, Usb!SetInterfaceData, UP!SetInterfaceData, Usb!RegisterDevice,
           UP!RegisterDevice, Usb!ClearInterfaceData, UP!ClearInterfaceData,
           Usb!GiveBackMinor, UP!GiveBackMinor, Usb!DropBinding, UP!DropBinding,
           Usb!InOpen, UP!InOpen, Usb!kref_put, UP!kref_put, Usb!core, UP!core
  <1>4. Usb!Next <=> UP!Next
    BY <1>3 DEF Usb!Next, UP!Next, Usb!OpenCall, UP!OpenCall, Usb!FindInterface,
                UP!FindInterface, Usb!GetInterfaceData, UP!GetInterfaceData,
                Usb!GetReference, UP!GetReference, Usb!skel_release, UP!skel_release,
                Usb!ReadStart, UP!ReadStart, Usb!ReadEnd, UP!ReadEnd, Usb!WriteSubmit,
                UP!WriteSubmit, Usb!WriteDone, UP!WriteDone, Usb!kref_put, UP!kref_put,
                Usb!core, UP!core
  <1>5. Usb!TypeInvariant <=> UP!TypeInvariant
    BY DEF Usb!TypeInvariant, UP!TypeInvariant
  <1>6. \A S : Usb!Cardinality(S) = UP!Cardinality(S)
    BY DEF Usb!Cardinality, UP!Cardinality, Usb!IsFiniteSet, UP!IsFiniteSet
  <1>7. Usb!NoUseAfterFree <=> UP!NoUseAfterFree
    BY <1>6 DEF Usb!NoUseAfterFree, UP!NoUseAfterFree, Usb!KrefExact, UP!KrefExact,
                Usb!Opened, UP!Opened, Usb!Live, UP!Live
  <1> QED BY <1>1, <1>2, <1>4, <1>5, <1>7

LEMMA PrivSame ==
  /\ Priv!Parameters <=> PP!Parameters
  /\ Priv!Init <=> PP!Init
  /\ Priv!Next <=> PP!Next
  /\ Priv!TypeInvariant <=> PP!TypeInvariant
  /\ Priv!OneDevicePerTerminal <=> PP!OneDevicePerTerminal
  <1>1. Priv!Parameters <=> PP!Parameters
    BY DEF Priv!Parameters, PP!Parameters
  <1>2. Priv!Init <=> PP!Init
    BY DEF Priv!Init, PP!Init
  <1>3. Priv!FreeCpu <=> PP!FreeCpu
    BY DEF Priv!FreeCpu, PP!FreeCpu, Priv!OnCpu, PP!OnCpu, Priv!Cardinality,
           PP!Cardinality
  <1>4. Priv!Next <=> PP!Next
    BY <1>3 DEF Priv!Next, PP!Next, Priv!Open, PP!Open, Priv!InKernel, PP!InKernel,
                Priv!Lock, PP!Lock, Priv!Look, PP!Look, Priv!Found, PP!Found,
                Priv!SleepInKmalloc, PP!SleepInKmalloc, Priv!WakeInKmalloc, PP!WakeInKmalloc,
                Priv!AddItem, PP!AddItem, Priv!AllocationFails, PP!AllocationFails,
                Priv!Unlock, PP!Unlock, Priv!Release, PP!Release
  <1>5. Priv!TypeInvariant <=> PP!TypeInvariant
    BY DEF Priv!TypeInvariant, PP!TypeInvariant
  <1>6. Priv!OneDevicePerTerminal <=> PP!OneDevicePerTerminal
    BY DEF Priv!OneDevicePerTerminal, PP!OneDevicePerTerminal
  <1> QED BY <1>1, <1>2, <1>4, <1>5, <1>6

LEMMA SleepySame ==
  /\ Sleepy!Init <=> SP!Init
  /\ Sleepy!Next <=> SP!Next
  /\ Sleepy!TypeInvariant <=> SP!TypeInvariant
  /\ Sleepy!NoLostWakeup <=> SP!NoLostWakeup
  <1>1. Sleepy!Init <=> SP!Init
    BY DEF Sleepy!Init, SP!Init
  <1>2. Sleepy!Next <=> SP!Next
    BY DEF Sleepy!Next, SP!Next, Sleepy!Read, SP!Read, Sleepy!Write, SP!Write,
           Sleepy!Signal, SP!Signal, Sleepy!Blocked, SP!Blocked, Sleepy!Step, SP!Step,
           Sleepy!Prepare, SP!Prepare, Sleepy!Check, SP!Check, Sleepy!Awake, SP!Awake,
           Sleepy!Clear, SP!Clear, Sleepy!Wake, SP!Wake
  <1>3. Sleepy!TypeInvariant <=> SP!TypeInvariant
    BY DEF Sleepy!TypeInvariant, SP!TypeInvariant
  <1>4. Sleepy!NoLostWakeup <=> SP!NoLostWakeup
    BY DEF Sleepy!NoLostWakeup, SP!NoLostWakeup, Sleepy!Asleep, SP!Asleep
  <1> QED BY <1>1, <1>2, <1>3, <1>4

-----------------------------------------------------------------------------
(* The devices side by side.  The one that was chosen keeps its invariant. *)
ChosenInv ==
  /\ device = "sleepy" => SP!TypeInvariant /\ SP!NoLostWakeup
  /\ device = "complete" => Comp!Inv
  /\ device = "usb" => UP!Inv
  /\ device = "priv" => PP!Inv
  /\ device = "scullc" => Slab!Inv
  /\ device = "module" => Module!Inv
  /\ device = "probe" => Probe!Inv
  /\ device = "deferred" => Defer!TypeInvariant

Chosen == {"sleepy", "complete", "usb", "priv", "scullc", "module", "probe", "deferred"}

Inv == device \in Chosen /\ ChosenInv

LEMMA InitInv == Init => Inv
  <1> SUFFICES ASSUME Init PROVE Inv
    OBVIOUS
  <1>1. CASE device = "sleepy" /\ Sleepy!Init
    BY <1>1 DEF Inv, ChosenInv, Chosen, Sleepy!Init, SP!TypeInvariant, SP!NoLostWakeup
  <1>2. CASE device = "complete" /\ Comp!Init
    BY <1>2, CompInit DEF Inv, ChosenInv, Chosen
  <1>3. CASE device = "usb" /\ Usb!Init
    BY <1>3, UsbSame, UP!InitInv, ParametersAssumption DEF Inv, ChosenInv, Chosen
  <1>4. CASE device = "priv" /\ Priv!Init
    BY <1>4, PrivSame, PP!InitInv, ParametersAssumption DEF Inv, ChosenInv, Chosen
  <1>5. CASE device = "scullc" /\ Slab!Init
    BY <1>5, SlabInit, ParametersAssumption DEF Inv, ChosenInv, Chosen
  <1>6. CASE device = "module" /\ Module!Init
    BY <1>6, ModuleInit, ParametersAssumption DEF Inv, ChosenInv, Chosen
  <1>7. CASE device = "probe" /\ Probe!Init
    BY <1>7, ProbeInit, ParametersAssumption DEF Inv, ChosenInv, Chosen
  <1>8. CASE device = "deferred" /\ Defer!Init
    BY <1>8, DeferInit DEF Inv, ChosenInv, Chosen
  <1> QED BY <1>1, <1>2, <1>3, <1>4, <1>5, <1>6, <1>7, <1>8 DEF Init

(* A step is one of the device that was chosen, or none.                   *)
LEMMA ChosenSteps ==
  ASSUME [Next]_vars
  PROVE  /\ device' = device
         /\ device = "sleepy" => [SP!Next]_SP!vars
         /\ device = "complete" => [Comp!Next]_Comp!vars
         /\ device = "usb" => [UP!Next]_UP!vars
         /\ device = "priv" => [PP!Next]_PP!vars
         /\ device = "scullc" => [Slab!Next]_Slab!vars
         /\ device = "module" => [Module!Next]_Module!vars
         /\ device = "probe" => [Probe!Next]_Probe!vars
         /\ device = "deferred" => [Defer!Next]_Defer!vars
  <1>1. CASE UNCHANGED vars
    BY <1>1 DEF vars, SP!vars, Comp!vars, UP!vars, PP!vars, Slab!vars, Module!vars,
                Probe!vars, Defer!vars
  <1>2. CASE Next
    BY <1>2, SleepySame, UsbSame, PrivSame
    DEF Next, OnSleepy, OnCompletion, Rest5, Rest6, Rest7, Rest10
  <1> QED BY <1>1, <1>2

LEMMA NextInv == ASSUME Inv, [Next]_vars PROVE Inv'
  <1> USE DEF Inv, ChosenInv
  <1>1. device' = device
    BY ChosenSteps
  <1>2. CASE device = "sleepy"
    BY <1>1, <1>2, ChosenSteps, SP!TypesKept, SP!WakeupKept
  <1>3. CASE device = "complete"
    BY <1>1, <1>3, ChosenSteps, CompNext, ParametersAssumption
  <1>4. CASE device = "usb"
    BY <1>1, <1>4, ChosenSteps, UsbSame, UP!NextInv, ParametersAssumption
  <1>5. CASE device = "priv"
    BY <1>1, <1>5, ChosenSteps, PrivSame, PP!NextInv, ParametersAssumption
  <1>6. CASE device = "scullc"
    BY <1>1, <1>6, ChosenSteps, SlabNext, ParametersAssumption
  <1>7. CASE device = "module"
    BY <1>1, <1>7, ChosenSteps, ModuleNext, ParametersAssumption
  <1>8. CASE device = "probe"
    BY <1>1, <1>8, ChosenSteps, ProbeNext, ParametersAssumption
  <1>9. CASE device = "deferred"
    BY <1>1, <1>9, ChosenSteps, DeferNext
  <1> QED BY <1>2, <1>3, <1>4, <1>5, <1>6, <1>7, <1>8, <1>9 DEF Chosen

(* All theorems below follow from this one.                                *)
THEOREM Invariance == Spec => []Inv
  BY InitInv, NextInv, PTL DEF Spec

(* Whatever the constants, each of the eight devices keeps to its types.   *)
THEOREM TypeCorrect == Spec => []TypeInvariant
  <1>1. Inv => TypeInvariant
    BY CompImplies, SlabImplies, ModuleImplies, ProbeImplies, SleepySame,
       UsbSame, PrivSame, ParametersAssumption
    DEF Inv, ChosenInv, Chosen, TypeInvariant, UP!Inv, PP!Inv
  <1> QED BY <1>1, Invariance, PTL

(* sleepy.c 21, 32-33 and complete.c 19, 29: with any number of readers    *)
(* and writers, nobody sleeps on for what has been given already.          *)
THEOREM WakeupsNotLost == Spec => []NoLostWakeup
  <1>1. Inv => NoLostWakeup
    BY CompImplies, SleepySame DEF Inv, ChosenInv, NoLostWakeup
  <1> QED BY <1>1, Invariance, PTL

(* complete.c 19, 29: each write lets exactly one read return, then or     *)
(* later, for any finite set of processes and any number of writes.        *)
THEOREM UnitsCorrect == Spec => []UnitsConserved
  <1>1. Inv => UnitsConserved
    BY CompImplies DEF Inv, ChosenInv, UnitsConserved
  <1> QED BY <1>1, Invariance, PTL

(* usb-skeleton.c 82-95, 110, 303, 308-328: no process uses a struct that  *)
(* was freed, for any number of processes and of devices plugged in.       *)
THEOREM UseCorrect == Spec => []NoUseAfterFree
  <1>1. Inv => NoUseAfterFree
    BY UsbSame, UP!InvImplies, ParametersAssumption DEF Inv, ChosenInv, NoUseAfterFree
  <1> QED BY <1>1, Invariance, PTL

(* access.c 246-287: for any processes, terminals and processors, files of *)
(* one terminal share a device and files of two do not.                    *)
THEOREM DevicesCorrect == Spec => []OneDevicePerTerminal
  <1>1. Inv => OneDevicePerTerminal
    BY PrivSame, PP!InvImplies DEF Inv, ChosenInv, OneDevicePerTerminal
  <1> QED BY <1>1, Invariance, PTL

(* scullslab/main.c 152-251: whatever the sizes of a quantum and an array, *)
(* a read of scullc never hands out what the cache left in a quantum, and  *)
(* every quantum hangs where the next trim finds it.                       *)
THEOREM BytesCorrect == Spec => []NoStaleBytes
  <1>1. Inv => NoStaleBytes
    BY SlabImplies, ParametersAssumption DEF Inv, ChosenInv, NoStaleBytes
  <1> QED BY <1>1, Invariance, PTL

(* The init and cleanup functions of all modules: whichever step of a load *)
(* is refused, and after every unload, nothing stays behind but what the   *)
(* four exceptions name.                                                   *)
THEOREM CleanupCorrect == Spec => []NothingLeft
  <1>1. Inv => NothingLeft
    BY ModuleImplies DEF Inv, ChosenInv, NothingLeft
  <1> QED BY <1>1, Invariance, PTL

(* The init functions of all modules: however many files are opened while  *)
(* a module loads, none finds its device missing and no load fails under   *)
(* an open file, scullc apart.                                             *)
THEOREM OpensCorrect == Spec => []OpenFindsDevice
  <1>1. Inv => OpenFindsDevice
    BY ModuleImplies DEF Inv, ChosenInv, OpenFindsDevice
  <1> QED BY <1>1, Invariance, PTL

(* short.c 508-539, 595-677: with any lines, the port on any of them or on *)
(* none, no probing handler outlives the probe, short_irq is the one line  *)
(* with a handler, and the cleanup takes it away.                          *)
THEOREM HandlersCorrect == Spec => []HandlerAccounted
  <1>1. Inv => HandlerAccounted
    BY ProbeImplies, ParametersAssumption DEF Inv, ChosenInv, HandlerAccounted
  <1> QED BY <1>1, Invariance, PTL
=============================================================================
