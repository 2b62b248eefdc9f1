---------------------------- MODULE UsbSkelProofs ----------------------------
(***************************************************************************)
(* Proof that no process uses a freed struct usb_skel, for any number of   *)
(* processes and of structs.  The invariant says why the lock commented    *)
(* out at line 313 is not missed: the minor is given back only when no     *)
(* open is under way, and the binding keeps its reference until then.      *)
(***************************************************************************)
EXTENDS UsbSkel, FiniteSetTheorems, TLAPS

(* the binding, the interface's data and the minor at each place of probe  *)
(* and disconnect                                                          *)
HubSound ==
  /\ hub = "unplugged" <=> bound = None
  /\ intfdata = IF hub \in {"ready", "bound"} THEN bound ELSE None
  /\ minor <=> hub \in {"bound", "cleared"}

(* an open past its first look holds the minor, and has found the struct   *)
(* that is bound                                                           *)
OpensSound ==
  \A p \in Procs :
    /\ pc[p] \in {"data", "get"} => minor
    /\ pc[p] = "get" => found[p] = bound
    /\ InOpen(p) => file[p] = None

(* a struct not allocated is neither bound nor open *)
FreshUnused == \A d \in fresh : bound # d /\ Opened(d) = {}

Inv == TypeInvariant /\ HubSound /\ OpensSound /\ FreshUnused /\ KrefExact

-----------------------------------------------------------------------------
LEMMA OpenedFinite ==
  ASSUME Parameters, NEW d
  PROVE  /\ IsFiniteSet(Opened(d)) /\ Cardinality(Opened(d)) \in Nat
         /\ IsFiniteSet(Opened(d)') /\ Cardinality(Opened(d)') \in Nat
  BY FS_Subset, FS_CardinalityType DEF Parameters, Opened

(* what a change of the file of p does to the files open on d *)
LEMMA FileMoved ==
  ASSUME Parameters, TypeInvariant, NEW p \in Procs, NEW f,
         file' = [file EXCEPT ![p] = f], NEW d
  PROVE  /\ file[p] # d /\ f = d
              => Cardinality(Opened(d)') = Cardinality(Opened(d)) + 1
         /\ file[p] = d /\ f # d
              => Cardinality(Opened(d)') = Cardinality(Opened(d)) - 1
         /\ (file[p] = d <=> f = d) => Opened(d)' = Opened(d)
  <1>1. CASE file[p] # d /\ f = d
    <2>1. Opened(d)' = Opened(d) \union {p} /\ p \notin Opened(d)
      BY <1>1 DEF Opened, TypeInvariant
    <2> QED BY <1>1, <2>1, OpenedFinite, FS_AddElement
  <1>2. CASE file[p] = d /\ f # d
    <2>1. Opened(d)' = Opened(d) \ {p} /\ p \in Opened(d)
      BY <1>2 DEF Opened, TypeInvariant
    <2> QED BY <1>2, <2>1, OpenedFinite, FS_RemoveElement
  <1>3. CASE file[p] = d <=> f = d
    <2>1. Opened(d)' = Opened(d)
      BY <1>3 DEF Opened, TypeInvariant
    <2> QED BY <1>3, <2>1
  <1> QED BY <1>1, <1>2, <1>3

(* an exact count is not 0 for a struct that is bound or open *)
LEMMA HeldAlive ==
  ASSUME Parameters, TypeInvariant, KrefExact, NEW d \in Devs,
         bound = d \/ Opened(d) # {}
  PROVE  kref[d] \in Nat /\ kref[d] > 0
  <1>1. kref[d] = Cardinality(Opened(d)) + (IF bound = d THEN 1 ELSE 0)
    BY DEF KrefExact
  <1>2. Cardinality(Opened(d)) \in Nat /\ IsFiniteSet(Opened(d))
    BY OpenedFinite
  <1>3. CASE bound = d
    BY <1>1, <1>2, <1>3
  <1>4. CASE Opened(d) # {}
    <2>1. Cardinality(Opened(d)) # 0
      BY <1>2, <1>4, FS_EmptySet
    <2> QED BY <1>1, <1>2, <2>1
  <1> QED BY <1>3, <1>4

(* The initial state satisfies the invariant. *)
LEMMA InitInv == ASSUME Parameters PROVE Init => Inv
  <1> SUFFICES ASSUME Init PROVE Inv
    OBVIOUS
  <1>1. TypeInvariant /\ HubSound /\ OpensSound
    BY DEF Init, TypeInvariant, HubSound, OpensSound, InOpen
  <1>2. \A d \in Devs : Opened(d) = {} /\ bound # d
    BY DEF Init, Opened, Parameters
  <1>3. FreshUnused
    BY <1>2 DEF Init, FreshUnused
  <1>4. KrefExact
    BY <1>2, FS_EmptySet DEF Init, KrefExact
  <1> QED BY <1>1, <1>3, <1>4 DEF Inv

-----------------------------------------------------------------------------
(* Probe and disconnect change the count of one struct with its binding.   *)
LEMMA HubInv ==
  ASSUME Parameters, Inv, Hub
  PROVE  Inv'
  <1> USE DEF Inv
  <1>1. UNCHANGED <<pc, found, file, urbs>>
    BY DEF Hub, ProbeAllocate, ProbeFails, SetInterfaceData, RegisterDevice,
           ClearInterfaceData, GiveBackMinor, DropBinding
  <1>2. \A d : Opened(d)' = Opened(d)
    BY <1>1 DEF Opened
  <1>3. CASE ProbeAllocate
    <2>1. PICK d \in fresh :
            /\ kref' = [kref EXCEPT ![d] = 1] /\ fresh' = fresh \ {d} /\ bound' = d
      BY <1>3 DEF ProbeAllocate
    <2>2. d \in Devs /\ Opened(d) = {} /\ bound = None /\ hub' = "allocated"
      BY <1>3, <2>1 DEF TypeInvariant, FreshUnused, HubSound, ProbeAllocate
    <2>3. UNCHANGED <<intfdata, minor>> /\ intfdata = None /\ ~minor
      BY <1>3 DEF ProbeAllocate, HubSound
    <2>4. TypeInvariant'
      BY <1>1, <2>1, <2>2, <2>3 DEF TypeInvariant
    <2>5. HubSound'
      BY <2>1, <2>2, <2>3 DEF HubSound, Parameters
    <2>6. OpensSound'
      BY <1>1, <2>3 DEF OpensSound, InOpen
    <2>7. FreshUnused'
      BY <1>2, <2>1 DEF FreshUnused
    <2>8. KrefExact'
      <3> SUFFICES ASSUME NEW e \in Devs
                   PROVE  kref'[e] = Cardinality(Opened(e)')
                                       + (IF bound' = e THEN 1 ELSE 0)
        BY DEF KrefExact
      <3>1. kref[e] = Cardinality(Opened(e)) + (IF bound = e THEN 1 ELSE 0)
        BY DEF KrefExact
      <3>2. Opened(e)' = Opened(e) /\ bound # e
        BY <1>2, <2>2 DEF Parameters
      <3>3. CASE e = d
        <4>1. Cardinality(Opened(e)) = 0
          BY <2>2, <3>3, FS_EmptySet
        <4> QED BY <2>1, <2>2, <3>2, <3>3, <4>1 DEF TypeInvariant
      <3>4. CASE e # d
        BY <2>1, <3>1, <3>2, <3>4 DEF TypeInvariant
      <3> QED BY <3>3, <3>4
    <2> QED BY <2>4, <2>5, <2>6, <2>7, <2>8
  <1>4. CASE SetInterfaceData \/ ClearInterfaceData \/ GiveBackMinor
    <2>1. UNCHANGED <<bound, kref, fresh>>
      BY <1>4 DEF SetInterfaceData, ClearInterfaceData, GiveBackMinor
    <2>2. TypeInvariant'
      BY <1>1, <1>4, <2>1 DEF TypeInvariant, SetInterfaceData, ClearInterfaceData,
                              GiveBackMinor
    <2>3. HubSound'
      BY <1>4, <2>1 DEF HubSound, SetInterfaceData, ClearInterfaceData, GiveBackMinor
    <2>4. OpensSound'
      BY <1>1, <1>4, <2>1 DEF OpensSound, InOpen, SetInterfaceData,
                              ClearInterfaceData, GiveBackMinor
    <2>5. FreshUnused' /\ KrefExact'
      BY <1>2, <2>1 DEF FreshUnused, KrefExact
    <2> QED BY <2>2, <2>3, <2>4, <2>5
  <1>5. CASE RegisterDevice /\ minor'
    <2>1. UNCHANGED <<bound, intfdata, kref, fresh>> /\ hub = "ready" /\ hub' = "bound"
      BY <1>5 DEF RegisterDevice, HubSound
    <2>2. TypeInvariant'
      BY <1>1, <1>5, <2>1 DEF TypeInvariant, RegisterDevice
    <2>3. HubSound' /\ OpensSound'
      BY <1>1, <1>5, <2>1 DEF HubSound, OpensSound, InOpen
    <2>4. FreshUnused' /\ KrefExact'
      BY <1>2, <2>1 DEF FreshUnused, KrefExact
    <2> QED BY <2>2, <2>3, <2>4
  <1>6. CASE ProbeFails \/ (RegisterDevice /\ ~minor') \/ DropBinding
    <2>1. /\ hub' = "unplugged" /\ bound' = None /\ intfdata' = None
          /\ kref' = [kref EXCEPT ![bound] = @ - 1] /\ UNCHANGED fresh /\ ~minor /\ ~minor'
      BY <1>6 DEF ProbeFails, RegisterDevice, DropBinding, kref_put, HubSound
    <2>2. bound \in Devs
      BY <1>6 DEF ProbeFails, RegisterDevice, DropBinding, HubSound, TypeInvariant
    <2>3. kref[bound] \in Nat /\ kref[bound] > 0
      BY <2>2, HeldAlive
    <2>4. minor' \in BOOLEAN
      BY <1>6 DEF ProbeFails, RegisterDevice, DropBinding, TypeInvariant
    <2>5. TypeInvariant'
      BY <1>1, <2>1, <2>2, <2>3, <2>4 DEF TypeInvariant
    <2>6. HubSound' /\ OpensSound'
      BY <1>1, <2>1 DEF HubSound, OpensSound, InOpen
    <2>7. FreshUnused'
      BY <1>2, <2>1 DEF FreshUnused, TypeInvariant, Parameters
    <2>8. KrefExact'
      <3> SUFFICES ASSUME NEW d \in Devs
                   PROVE  kref'[d] = Cardinality(Opened(d)')
                                       + (IF bound' = d THEN 1 ELSE 0)
        BY DEF KrefExact
      <3>1. kref[d] = Cardinality(Opened(d)) + (IF bound = d THEN 1 ELSE 0)
        BY DEF KrefExact
      <3>2. Cardinality(Opened(d)) \in Nat /\ Opened(d)' = Opened(d) /\ bound' # d
        BY <1>2, <2>1, OpenedFinite DEF Parameters
      <3> QED BY <2>1, <2>2, <3>1, <3>2 DEF TypeInvariant
    <2> QED BY <2>5, <2>6, <2>7, <2>8
  <1> QED BY <1>3, <1>4, <1>5, <1>6 DEF Hub

(* What a process does without taking or dropping a reference. *)
LEMMA CallInv ==
  ASSUME Parameters, Inv, NEW p \in Procs,
         OpenCall(p) \/ FindInterface(p) \/ GetInterfaceData(p)
           \/ ReadStart(p) \/ ReadEnd(p) \/ WriteSubmit(p)
  PROVE  Inv'
  <1> USE DEF Inv
  <1>1. UNCHANGED <<hub, bound, intfdata, minor, fresh, kref, file>>
    BY DEF core, OpenCall, FindInterface, GetInterfaceData, ReadStart, ReadEnd,
           WriteSubmit
  <1>2. TypeInvariant'
    <2>1. CASE WriteSubmit(p)
      BY <1>1, <2>1 DEF TypeInvariant, WriteSubmit
    <2>2. CASE ~WriteSubmit(p)
      BY <1>1, <2>2 DEF TypeInvariant, OpenCall, FindInterface, GetInterfaceData,
                        ReadStart, ReadEnd
    <2> QED BY <2>1, <2>2
  <1>3. HubSound' /\ FreshUnused' /\ KrefExact'
    BY <1>1 DEF HubSound, FreshUnused, KrefExact, Opened
  <1>4. OpensSound'
    <2>1. CASE GetInterfaceData(p)
      BY <1>1, <2>1 DEF OpensSound, InOpen, HubSound, TypeInvariant, GetInterfaceData
    <2>2. CASE ~GetInterfaceData(p)
      BY <1>1, <2>2 DEF OpensSound, InOpen, TypeInvariant, OpenCall, FindInterface,
                        ReadStart, ReadEnd, WriteSubmit
    <2> QED BY <2>1, <2>2
  <1> QED BY <1>2, <1>3, <1>4

(* An open takes one reference for one file, and a release drops it.       *)
LEMMA ReferenceInv ==
  ASSUME Parameters, Inv, NEW p \in Procs, GetReference(p) \/ skel_release(p)
  PROVE  Inv'
  <1> USE DEF Inv
  <1>1. UNCHANGED <<hub, bound, intfdata, minor, fresh, urbs>>
    BY DEF core, GetReference, skel_release
  <1>2. CASE GetReference(p)
    <2> DEFINE d == bound
    <2>1. found[p] = d /\ file[p] = None /\ d \in Devs
      BY <1>2 DEF OpensSound, InOpen, HubSound, GetReference, TypeInvariant
    <2>2. /\ kref' = [kref EXCEPT ![d] = @ + 1] /\ file' = [file EXCEPT ![p] = d]
          /\ pc' = [pc EXCEPT ![p] = "idle"] /\ found' = [found EXCEPT ![p] = None]
      BY <1>2, <2>1 DEF GetReference
    <2>3. TypeInvariant' /\ HubSound' /\ OpensSound'
      BY <1>1, <2>1, <2>2 DEF TypeInvariant, HubSound, OpensSound, InOpen
    <2>4. FreshUnused'
      BY <1>1, <2>1, <2>2 DEF FreshUnused, Opened, TypeInvariant
    <2>5. KrefExact'
      <3> SUFFICES ASSUME NEW e \in Devs
                   PROVE  kref'[e] = Cardinality(Opened(e)')
                                       + (IF bound' = e THEN 1 ELSE 0)
        BY DEF KrefExact
      <3>1. kref[e] = Cardinality(Opened(e)) + (IF bound = e THEN 1 ELSE 0)
        BY DEF KrefExact
      <3>2. Cardinality(Opened(e)) \in Nat
        BY OpenedFinite
      <3>3. CASE e = d
        <4>1. Cardinality(Opened(e)') = Cardinality(Opened(e)) + 1
          BY <2>1, <2>2, <3>3, FileMoved DEF Parameters
        <4> QED BY <1>1, <2>1, <2>2, <3>1, <3>2, <3>3, <4>1 DEF TypeInvariant
      <3>4. CASE e # d
        <4>1. Opened(e)' = Opened(e)
          BY <2>1, <2>2, <3>4, FileMoved DEF Parameters
        <4> QED BY <1>1, <2>1, <2>2, <3>1, <3>4, <4>1 DEF TypeInvariant
      <3> QED BY <3>3, <3>4
    <2> QED BY <2>3, <2>4, <2>5
  <1>3. CASE skel_release(p)
    <2> DEFINE d == file[p]
    <2>1. d \in Devs /\ p \in Opened(d) /\ pc[p] = "idle"
      BY <1>3 DEF skel_release, TypeInvariant, Opened
    <2>2. /\ kref' = [kref EXCEPT ![d] = @ - 1] /\ file' = [file EXCEPT ![p] = None]
          /\ UNCHANGED <<pc, found>>
      BY <1>3 DEF skel_release, kref_put
    <2>3. kref[d] \in Nat /\ kref[d] > 0
      BY <2>1, HeldAlive
    <2>4. TypeInvariant' /\ HubSound' /\ OpensSound'
      BY <1>1, <2>1, <2>2, <2>3 DEF TypeInvariant, HubSound, OpensSound, InOpen
    <2>5. FreshUnused'
      BY <1>1, <2>1, <2>2 DEF FreshUnused, Opened, TypeInvariant, Parameters
    <2>6. KrefExact'
      <3> SUFFICES ASSUME NEW e \in Devs
                   PROVE  kref'[e] = Cardinality(Opened(e)')
                                       + (IF bound' = e THEN 1 ELSE 0)
        BY DEF KrefExact
      <3>1. kref[e] = Cardinality(Opened(e)) + (IF bound = e THEN 1 ELSE 0)
        BY DEF KrefExact
      <3>2. Cardinality(Opened(e)) \in Nat
        BY OpenedFinite
      <3>3. CASE e = d
        <4>1. Cardinality(Opened(e)') = Cardinality(Opened(e)) - 1
          BY <2>1, <2>2, <3>3, FileMoved DEF Parameters
        <4> QED BY <1>1, <2>1, <2>2, <3>1, <3>2, <3>3, <4>1 DEF TypeInvariant
      <3>4. CASE e # d
        <4>1. Opened(e)' = Opened(e)
          BY <2>1, <2>2, <3>4, FileMoved DEF Parameters
        <4> QED BY <1>1, <2>1, <2>2, <3>1, <3>4, <4>1 DEF TypeInvariant
      <3> QED BY <3>3, <3>4
    <2> QED BY <2>4, <2>5, <2>6
  <1> QED BY <1>2, <1>3

LEMMA NextInv == ASSUME Parameters, Inv, [Next]_vars PROVE Inv'
  <1>1. CASE UNCHANGED vars
    BY <1>1 DEF Inv, vars, TypeInvariant, HubSound, OpensSound, InOpen, FreshUnused,
                KrefExact, Opened
  <1>2. ASSUME NEW d \in Devs, WriteDone(d) PROVE Inv'
    <2>1. UNCHANGED <<hub, bound, intfdata, minor, fresh, kref, pc, found, file>>
      BY <1>2 DEF WriteDone, core
    <2>2. TypeInvariant'
      BY <1>2, <2>1 DEF Inv, TypeInvariant, WriteDone
    <2> QED BY <2>1, <2>2 DEF Inv, HubSound, OpensSound, InOpen, FreshUnused,
                              KrefExact, Opened
  <1> QED BY <1>1, <1>2, HubInv, CallInv, ReferenceInv DEF Next

(* A struct that a process has found is bound, one it has open is open.    *)
LEMMA InvImplies == ASSUME Parameters, Inv PROVE NoUseAfterFree
  <1> USE DEF Inv
  <1>1. ASSUME NEW p \in Procs, pc[p] = "get" PROVE found[p] \in Live
    <2>1. found[p] = bound /\ bound \in Devs
      BY <1>1 DEF OpensSound, HubSound, TypeInvariant
    <2> QED BY <2>1, HeldAlive DEF Live
  <1>2. ASSUME NEW p \in Procs, file[p] # None PROVE file[p] \in Live
    <2>1. file[p] \in Devs /\ p \in Opened(file[p])
      BY <1>2 DEF TypeInvariant, Opened
    <2> QED BY <2>1, HeldAlive DEF Live
  <1> QED BY <1>1, <1>2 DEF NoUseAfterFree

-----------------------------------------------------------------------------
(* usb-skeleton.c: the types of the structs' counts and of the processes.  *)
THEOREM TypeCorrect == ASSUME Parameters PROVE Spec => []TypeInvariant
  <1>1. Inv => TypeInvariant
    BY DEF Inv
  <1> QED BY InitInv, NextInv, <1>1, PTL DEF Spec

(* usb-skeleton.c 77-124 and 254-332: whatever processes open, read, write *)
(* and close while the device is plugged in and pulled out, references are *)
(* counted exactly and nobody uses a struct that was freed.                *)
THEOREM UseCorrect == ASSUME Parameters PROVE Spec => []NoUseAfterFree
  BY InitInv, NextInv, InvImplies, PTL DEF Spec
=============================================================================
