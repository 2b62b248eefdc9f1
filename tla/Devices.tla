------------------------------- MODULE Devices -------------------------------
(***************************************************************************)
(* The devices and modules that share no state with another, side by side: *)
(* a behaviour is that of one of them, chosen at the start.  The variables *)
(* a1, a2, ... stand for the variables of the one chosen, in the order of  *)
(* its declaration; those it does not need stay 0.                         *)
(***************************************************************************)
EXTENDS Integers, FiniteSets

CONSTANTS
  Procs, None, MaxWrites,                  \* as in Sleepy, Completion, UsbSkel
  Devs, MaxUrbs,                           \* as in UsbSkel
  Items, Terminals, NoTty, tty, CPUs,      \* as in ScullPriv
  SlabProcs, Quantum, Qset, MaxPos,        \* as in Scullc
  MaxFiles,                                \* as in Lifecycle
  Lines, Wired, Shared, Default            \* as in ShortProbe

VARIABLES device, a1, a2, a3, a4, a5, a6, a7, a8, a9, a10

Sleepy == INSTANCE Sleepy WITH Signals <- TRUE,
  pc <- a1, flag <- a2, wq <- a3, signal <- a4
Comp == INSTANCE Completion WITH
  pc <- a1, done <- a2, waiters <- a3, writes <- a4, reads <- a5, called <- a6
Usb == INSTANCE UsbSkel WITH
  hub <- a1, bound <- a2, intfdata <- a3, minor <- a4, kref <- a5, fresh <- a6,
  pc <- a7, found <- a8, file <- a9, urbs <- a10
Priv == INSTANCE ScullPriv WITH
  list <- a1, key <- a2, lock <- a3, pc <- a4, dev <- a5
Slab == INSTANCE Scullc WITH Procs <- SlabProcs,
  cache <- a1, sem <- a2, items <- a3, arrays <- a4, quanta <- a5, size <- a6,
  pc <- a7, op <- a8, aio <- a9
Module == INSTANCE Lifecycle WITH
  driver <- a1, phase <- a2, todo <- a3, held <- a4, files <- a5
Probe == INSTANCE ShortProbe WITH
  share <- a1, halves <- a2, pc <- a3, short_irq <- a4, count <- a5, probing <- a6,
  cpu <- a7, fired <- a8, installed <- a9
Defer == INSTANCE Deferred WITH
  example <- a1, phase <- a2, installed <- a3, hard <- a4, pending <- a5, soft <- a6

ASSUME ParametersAssumption ==
  /\ Comp!Parameters /\ Usb!Parameters /\ Priv!Parameters
  /\ Slab!Parameters /\ Module!Parameters /\ Probe!Parameters

-----------------------------------------------------------------------------
vars == <<device, a1, a2, a3, a4, a5, a6, a7, a8, a9, a10>>

Zero5 == a5 = 0 /\ a6 = 0 /\ a7 = 0 /\ a8 = 0 /\ a9 = 0 /\ a10 = 0
Zero7 == a7 = 0 /\ a8 = 0 /\ a9 = 0 /\ a10 = 0

Init ==
  \/ device = "sleepy" /\ Sleepy!Init /\ Zero5
  \/ device = "complete" /\ Comp!Init /\ Zero7
  \/ device = "usb" /\ Usb!Init
  \/ device = "priv" /\ Priv!Init /\ a6 = 0 /\ Zero7
  \/ device = "scullc" /\ Slab!Init /\ a10 = 0
  \/ device = "module" /\ Module!Init /\ a6 = 0 /\ Zero7
  \/ device = "probe" /\ Probe!Init /\ a10 = 0
  \/ device = "deferred" /\ Defer!Init /\ Zero7

Rest5 == UNCHANGED <<device, a5, a6, a7, a8, a9, a10>>
Rest6 == UNCHANGED <<device, a6, a7, a8, a9, a10>>
Rest7 == UNCHANGED <<device, a7, a8, a9, a10>>
Rest10 == UNCHANGED <<device, a10>>

OnSleepy(A) == device = "sleepy" /\ A /\ Rest5
OnCompletion(A) == device = "complete" /\ A /\ Rest7

Next ==
  \/ OnSleepy(Sleepy!Next)
  \/ OnCompletion(Comp!Next)
  \/ device = "usb" /\ Usb!Next /\ UNCHANGED device
  \/ device = "priv" /\ Priv!Next /\ Rest6
  \/ device = "scullc" /\ Slab!Next /\ Rest10
  \/ device = "module" /\ Module!Next /\ Rest6
  \/ device = "probe" /\ Probe!Next /\ Rest10
  \/ device = "deferred" /\ Defer!Next /\ Rest7

(* The fairness of the two small devices: a process inside a driver that   *)
(* is not asleep runs on, and nobody has to call it.                       *)
Spec ==
  /\ Init /\ [][Next]_vars
  /\ \A p \in Procs : /\ WF_vars(OnSleepy(Sleepy!Step(p)))
                      /\ WF_vars(OnCompletion(Comp!Take(p) \/ Comp!Sleep(p)))

-----------------------------------------------------------------------------
(* Each of them keeps to its types. *)
TypeInvariant ==
  CASE device = "sleepy" -> Sleepy!TypeInvariant
    [] device = "complete" -> Comp!TypeInvariant
    [] device = "usb" -> Usb!TypeInvariant
    [] device = "priv" -> Priv!TypeInvariant
    [] device = "scullc" -> Slab!TypeInvariant
    [] device = "module" -> Module!TypeInvariant
    [] device = "probe" -> Probe!TypeInvariant
    [] device = "deferred" -> Defer!TypeInvariant

(* sleepy.c 21, 32-33 and complete.c 19, 29: nobody sleeps for what has    *)
(* been given and is about to be announced to no one; see the two modules. *)
NoLostWakeup ==
  /\ device = "sleepy" => Sleepy!NoLostWakeup
  /\ device = "complete" => Comp!NoLostCompletion

(* sleepy.c 21-22: see Sleepy. *)
ReaderReleased ==
  device = "sleepy" /\ (\E p \in Procs : Sleepy!Blocked(p)) /\ a2 # 0
    ~> device = "sleepy" /\ \E p \in Procs : a1[p] = "clear"

(* complete.c 19, 29: see Completion. *)
UnitsConserved == device = "complete" => Comp!UnitsConserved

(* complete.c 19: see Completion. *)
UnitsTaken ==
  \A p \in Procs : device = "complete" /\ Comp!Waiting(p) /\ a2 > 0
                     ~> device = "complete" /\ (~Comp!Waiting(p) \/ a2 = 0)

(* usb-skeleton.c 82-95, 110, 303, 308-328: see UsbSkel. *)
NoUseAfterFree == device = "usb" => Usb!NoUseAfterFree

(* access.c 246-287: see ScullPriv. *)
OneDevicePerTerminal == device = "priv" => Priv!OneDevicePerTerminal

(* scullslab/main.c 152-251: see Scullc. *)
NoStaleBytes == device = "scullc" => Slab!NoStaleBytes

(* The init and cleanup functions of all modules: see Lifecycle. *)
NothingLeft == device = "module" => Module!NothingLeft

(* The init functions of all modules: see Lifecycle. *)
OpenFindsDevice == device = "module" => Module!OpenFindsDevice

(* short.c 508-539, 595-677: see ShortProbe. *)
HandlerAccounted == device = "probe" => Probe!HandlerAccounted
=============================================================================
