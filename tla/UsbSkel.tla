------------------------------- MODULE UsbSkel -------------------------------
(***************************************************************************)
(* USB_driver/code/usb/usb-skeleton.c: processes open, read, write and     *)
(* close the node of a device that is plugged in and pulled out under      *)
(* them.  A struct usb_skel lives as long as its kref counts a holder: the *)
(* binding to the interface or an open file.  The USB core is external:    *)
(* its minor semaphore is held for reading around skel_open and for        *)
(* writing where a minor is handed out or taken back; probe and disconnect *)
(* of the interface exclude each other; a pulled device completes its urbs.*)
(***************************************************************************)
EXTENDS Naturals, FiniteSets

CONSTANTS Procs, Devs,   \* Devs: the structs probe may allocate, one a plug
          None,          \* the null pointer
          MaxUrbs        \* bound on the urbs in flight

(* what the constants satisfy; Devices assumes it *)
Parameters == IsFiniteSet(Procs) /\ None \notin Devs /\ MaxUrbs \in Nat

VARIABLES
  hub,       \* where probe or disconnect of the interface is
  bound,     \* the struct probe or disconnect works on
  intfdata,  \* usb_get_intfdata of the interface
  minor,     \* whether the minor leads to the interface
  kref,      \* reference count of each struct, 0 when it is freed or unused
  fresh,     \* structs not allocated yet
  pc, found, \* where each process is, and the struct skel_open has found
  file,      \* private_data of the file each process has open
  urbs       \* urbs in flight for each struct's device

vars == <<hub, bound, intfdata, minor, kref, fresh, pc, found, file, urbs>>
core == <<hub, bound, intfdata, minor, fresh>>

Live == {d \in Devs : kref[d] > 0}

Init ==
  /\ hub = "unplugged" /\ bound = None /\ intfdata = None /\ minor = FALSE
  /\ kref = [d \in Devs |-> 0] /\ fresh = Devs
  /\ pc = [p \in Procs |-> "idle"] /\ found = [p \in Procs |-> None]
  /\ file = [p \in Procs |-> None] /\ urbs = [d \in Devs |-> 0]

(* skel_delete frees the struct and its buffer when the count reaches 0    *)
kref_put(d) == kref' = [kref EXCEPT ![d] = @ - 1]

-----------------------------------------------------------------------------
(* skel_probe.  A failed kmalloc leaves everything as it was; the failures *)
(* after it (buffer, endpoints) drop the only reference.                   *)
ProbeAllocate ==
  /\ hub = "unplugged"
  /\ \E d \in fresh :
       /\ kref' = [kref EXCEPT ![d] = 1] /\ fresh' = fresh \ {d} /\ bound' = d
       /\ hub' = "allocated"
  /\ UNCHANGED <<intfdata, minor, pc, found, file, urbs>>

ProbeFails ==
  /\ hub = "allocated" /\ hub' = "unplugged" /\ bound' = None
  /\ kref_put(bound)
  /\ UNCHANGED <<intfdata, minor, fresh, pc, found, file, urbs>>

SetInterfaceData ==
  /\ hub = "allocated" /\ hub' = "ready" /\ intfdata' = bound
  /\ UNCHANGED <<bound, minor, kref, fresh, pc, found, file, urbs>>

InOpen(p) == pc[p] \in {"find", "data", "get"}

(* usb_register_dev; refused, probe undoes what it did *)
RegisterDevice ==
  /\ hub = "ready"
  /\ \/ /\ \A p \in Procs : ~InOpen(p)
        /\ minor' = TRUE /\ hub' = "bound" /\ UNCHANGED <<bound, intfdata, kref>>
     \/ /\ intfdata' = None /\ hub' = "unplugged" /\ bound' = None
        /\ kref_put(bound) /\ UNCHANGED minor
  /\ UNCHANGED <<fresh, pc, found, file, urbs>>

(* skel_disconnect; its lock_kernel is commented out.  The core has given  *)
(* up the device's urbs by then.                                           *)
ClearInterfaceData ==
  /\ hub = "bound" /\ urbs[bound] = 0
  /\ hub' = "cleared" /\ intfdata' = None
  /\ UNCHANGED <<bound, minor, kref, fresh, pc, found, file, urbs>>

(* variant: the minor is not given back before the reference is *)
GiveBackNothing ==
  /\ hub = "cleared" /\ hub' = "dropping" /\ minor' = FALSE
  /\ UNCHANGED <<bound, intfdata, kref, fresh, pc, found, file, urbs>>

(* usb_deregister_dev waits for the opens under way *)
GiveBackMinor ==
  /\ hub = "cleared" /\ \A p \in Procs : ~InOpen(p)
  /\ hub' = "dropping" /\ minor' = FALSE
  /\ UNCHANGED <<bound, intfdata, kref, fresh, pc, found, file, urbs>>

DropBinding ==
  /\ hub = "dropping" /\ hub' = "unplugged" /\ bound' = None
  /\ kref_put(bound)
  /\ UNCHANGED <<intfdata, minor, fresh, pc, found, file, urbs>>

-----------------------------------------------------------------------------
(* skel_open, under the semaphore of the core *)
OpenCall(p) ==
  /\ pc[p] = "idle" /\ file[p] = None
  /\ pc' = [pc EXCEPT ![p] = "find"]
  /\ UNCHANGED <<core, kref, found, file, urbs>>

FindInterface(p) ==
  /\ pc[p] = "find" /\ pc' = [pc EXCEPT ![p] = IF minor THEN "data" ELSE "idle"]
  /\ UNCHANGED <<core, kref, found, file, urbs>>

GetInterfaceData(p) ==
  /\ pc[p] = "data"
  /\ pc' = [pc EXCEPT ![p] = IF intfdata = None THEN "idle" ELSE "get"]
  /\ found' = [found EXCEPT ![p] = intfdata]
  /\ UNCHANGED <<core, kref, file, urbs>>

(* variant: the file takes no reference of its own *)
OpenWithoutGet(p) ==
  /\ pc[p] = "get" /\ pc' = [pc EXCEPT ![p] = "idle"]
  /\ file' = [file EXCEPT ![p] = found[p]] /\ found' = [found EXCEPT ![p] = None]
  /\ UNCHANGED <<core, kref, urbs>>

GetReference(p) ==
  /\ pc[p] = "get" /\ pc' = [pc EXCEPT ![p] = "idle"]
  /\ kref' = [kref EXCEPT ![found[p]] = @ + 1]
  /\ file' = [file EXCEPT ![p] = found[p]] /\ found' = [found EXCEPT ![p] = None]
  /\ UNCHANGED <<core, urbs>>

skel_release(p) ==
  /\ pc[p] = "idle" /\ file[p] # None
  /\ kref_put(file[p]) /\ file' = [file EXCEPT ![p] = None]
  /\ UNCHANGED <<core, pc, found, urbs>>

(* skel_read waits for a bulk message, up to ten seconds, and then copies  *)
(* out of bulk_in_buffer, which all readers of the device share            *)
ReadStart(p) ==
  /\ pc[p] = "idle" /\ file[p] # None /\ pc' = [pc EXCEPT ![p] = "read"]
  /\ UNCHANGED <<core, kref, found, file, urbs>>

ReadEnd(p) ==
  /\ pc[p] = "read" /\ pc' = [pc EXCEPT ![p] = "idle"]
  /\ UNCHANGED <<core, kref, found, file, urbs>>

(* skel_write hands its buffer to the core, which accepts it only while    *)
(* the device is there; the error paths change nothing counted here        *)
WriteSubmit(p) ==
  /\ pc[p] = "idle" /\ file[p] # None /\ file[p] = bound /\ hub = "bound"
  /\ urbs[bound] < MaxUrbs
  /\ urbs' = [urbs EXCEPT ![bound] = @ + 1]
  /\ UNCHANGED <<core, kref, pc, found, file>>

(* skel_write_bulk_callback: the urb may outlive the file that sent it *)
WriteDone(d) ==
  /\ urbs[d] > 0 /\ urbs' = [urbs EXCEPT ![d] = @ - 1]
  /\ UNCHANGED <<core, kref, pc, found, file>>

Hub == \/ ProbeAllocate \/ ProbeFails \/ SetInterfaceData \/ RegisterDevice
       \/ ClearInterfaceData \/ GiveBackMinor \/ DropBinding

Next == \/ Hub
        \/ \E p \in Procs : \/ OpenCall(p) \/ FindInterface(p) \/ GetInterfaceData(p)
                            \/ GetReference(p) \/ skel_release(p)
                            \/ ReadStart(p) \/ ReadEnd(p) \/ WriteSubmit(p)
        \/ \E d \in Devs : WriteDone(d)

Spec == Init /\ [][Next]_vars

-----------------------------------------------------------------------------
TypeInvariant ==
  /\ hub \in {"unplugged", "allocated", "ready", "bound", "cleared", "dropping"}
  /\ bound \in Devs \union {None} /\ intfdata \in Devs \union {None}
  /\ minor \in BOOLEAN /\ fresh \subseteq Devs
  /\ kref \in [Devs -> Nat] /\ urbs \in [Devs -> Nat]
  /\ pc \in [Procs -> {"idle", "find", "data", "get", "read"}]
  /\ found \in [Procs -> Devs \union {None}] /\ file \in [Procs -> Devs \union {None}]

Opened(d) == {p \in Procs : file[p] = d}

(* Lines 91, 110, 303, 325: the reference count of each struct is the      *)
(* number of the files open on it, and one for the binding.                *)
KrefExact ==
  \A d \in Devs : kref[d] = Cardinality(Opened(d)) + (IF bound = d THEN 1 ELSE 0)

(* A process that has found a struct, or has it open, finds it alive, at   *)
(* every step of opens, releases, plugs and pulls: references are counted  *)
(* exactly, and no open takes its own after disconnect gave up the last    *)
(* one, though the lock that was to prevent it (line 313) is commented out.*)
NoUseAfterFree ==
  /\ KrefExact
  /\ \A p \in Procs : pc[p] = "get" => found[p] \in Live
  /\ \A p \in Procs : file[p] # None => file[p] \in Live
=============================================================================
