----------------------------- MODULE ShortProbe -----------------------------
(***************************************************************************)
(* How short_init of IO_port/copy/short.c finds its interrupt line and     *)
(* installs its handler, and how short_cleanup takes it away.  The driver  *)
(* can ask the kernel, probe by itself with a handler on all lines that    *)
(* other devices may share and use, or fall back on a default; handlers of *)
(* different lines run on different processors.                            *)
(***************************************************************************)
EXTENDS Integers, FiniteSets

CONSTANTS
  Lines,      \* the lines of trials[]
  Wired,      \* the line the port is on, or 0 if on none
  Shared,     \* lines of other devices, which interrupt when they like
  Default     \* the line for this short_base, or -1 for another base

(* what the constants satisfy; Devices assumes it *)
Parameters ==
  /\ Lines \subseteq Nat \ {0} /\ Shared \subseteq Lines
  /\ Wired \in Lines \union {0} /\ Default \in Nat \union {-1}

VARIABLES
  share, halves,  \* parameters: a shared handler, one in two halves
  pc,             \* where short_init or short_cleanup is
  short_irq,      \* the variable, volatile and without a lock
  count,          \* trials begun again
  probing,        \* lines with short_probing installed
  cpu,            \* where short_probing is on each line, and what it loaded
  fired,          \* the port has raised its line in this trial
  installed       \* <<line, handler>> installed for good

vars == <<share, halves, pc, short_irq, count, probing, cpu, fired, installed>>
choice == <<share, halves>>

Init ==
  /\ share \in BOOLEAN /\ halves \in BOOLEAN
  /\ pc \in {"kernel", "request", "default"} \* probe=1, probe=2, or neither
  /\ short_irq \in {-1} \union (IF pc = "default" THEN Lines ELSE {}) \* irq=
  /\ count = 0 /\ probing = {} /\ installed = {}
  /\ cpu = [l \in Lines |-> "off"] /\ fired = FALSE

(* short_kernelprobe: up to six times while the kernel saw no line, which  *)
(* it turns into -1, or several, which the kernel reports as negative      *)
KernelProbe ==
  /\ pc = "kernel"
  /\ short_irq' \in {-1} \union {-l : l \in Lines} \union (Lines \cap {Wired})
  /\ \/ short_irq' < 0 /\ count < 5 /\ count' = count + 1 /\ UNCHANGED pc
     \/ ~(short_irq' < 0 /\ count < 5) /\ pc' = "default" /\ count' = 0
  /\ UNCHANGED <<choice, probing, cpu, fired, installed>>

-----------------------------------------------------------------------------
(* short_selfprobe: each line may be refused; only the others are freed    *)
RequestAll ==
  /\ pc = "request" /\ probing' \in SUBSET Lines /\ pc' = "trial"
  /\ UNCHANGED <<choice, short_irq, count, cpu, fired, installed>>

Trial ==
  /\ pc = "trial" /\ short_irq' = 0 /\ pc' = "delay" /\ fired' = FALSE
  /\ UNCHANGED <<choice, count, probing, cpu, installed>>

(* udelay(5), and the condition of the loop.  A result of 0, no interrupt  *)
(* at all, leaves the loop as 0 after six trials.                          *)
EndTrial ==
  /\ pc = "delay"
  /\ \/ short_irq <= 0 /\ count < 5 /\ count' = count + 1 /\ pc' = "trial"
     \/ ~(short_irq <= 0 /\ count < 5) /\ count' = 0 /\ pc' = "free"
  /\ UNCHANGED <<choice, short_irq, probing, cpu, fired, installed>>

(* variant: only the line found is freed *)
FreeFound ==
  /\ pc = "free" /\ probing' = probing \ {short_irq} /\ pc' = "default"
  /\ UNCHANGED <<choice, short_irq, count, cpu, fired, installed>>

(* free_irq, one line after the other, waits for a handler that runs       *)
FreeAll ==
  /\ pc = "free"
  /\ \/ \E l \in probing : /\ cpu[l] = "off" /\ probing' = probing \ {l}
                           /\ UNCHANGED pc
     \/ probing = {} /\ pc' = "default" /\ UNCHANGED probing
  /\ UNCHANGED <<choice, short_irq, count, cpu, fired, installed>>

(* short_probing: if (short_irq == 0) short_irq = irq;                     *)
(*                if (short_irq != irq) short_irq = -irq;                  *)
ProbingUnchanged == UNCHANGED <<choice, pc, count, probing, installed>>

Interrupt(l) ==
  /\ l \in probing /\ cpu[l] = "off"
  /\ \/ l \in Shared /\ UNCHANGED fired
     \/ l = Wired /\ pc = "delay" /\ ~fired /\ fired' = TRUE
  /\ cpu' = [cpu EXCEPT ![l] = IF short_irq = 0 THEN "claim" ELSE "compare"]
  /\ UNCHANGED short_irq /\ ProbingUnchanged

Claim(l) ==
  /\ cpu[l] = "claim" /\ cpu' = [cpu EXCEPT ![l] = "compare"]
  /\ short_irq' = l
  /\ UNCHANGED fired /\ ProbingUnchanged

Compare(l) ==
  /\ cpu[l] = "compare"
  /\ cpu' = [cpu EXCEPT ![l] = IF short_irq # l THEN "negate" ELSE "off"]
  /\ UNCHANGED <<short_irq, fired>> /\ ProbingUnchanged

Negate(l) ==
  /\ cpu[l] = "negate" /\ cpu' = [cpu EXCEPT ![l] = "off"]
  /\ short_irq' = -l
  /\ UNCHANGED fired /\ ProbingUnchanged

-----------------------------------------------------------------------------
TakeDefault ==
  /\ pc = "default"
  /\ short_irq' = IF short_irq < 0 THEN Default ELSE short_irq
  /\ pc' = "install"
  /\ UNCHANGED <<choice, count, probing, cpu, fired, installed>>

(* request_irq for the shared handler or the plain one, or nothing to do   *)
Install ==
  /\ pc = "install"
  /\ \/ short_irq >= 0
        /\ installed' = {<<short_irq, IF share THEN "shared" ELSE "plain">>}
        /\ UNCHANGED short_irq
     \/ short_irq' = -1 /\ UNCHANGED installed
  /\ pc' = IF ~share /\ halves /\ short_irq' >= 0 THEN "exchange" ELSE "loaded"
  /\ UNCHANGED <<choice, count, probing, cpu, fired>>

(* the plain handler is freed and that of the two halves requested         *)
Exchange ==
  /\ pc = "exchange"
  /\ \/ installed' = {<<short_irq, "halves">>} /\ UNCHANGED short_irq
     \/ installed' = {} /\ short_irq' = -1
  /\ pc' = "loaded"
  /\ UNCHANGED <<choice, count, probing, cpu, fired>>

(* short_cleanup frees the handler of short_irq, the shared one by its own *)
(* address, the others by NULL                                             *)
Cleanup ==
  /\ pc = "loaded"
  /\ installed' = IF short_irq < 0 THEN installed
                  ELSE installed \ {<<short_irq, h>> :
                         h \in IF share THEN {"shared"} ELSE {"plain", "halves"}}
  /\ pc' = "unloaded"
  /\ UNCHANGED <<choice, short_irq, count, probing, cpu, fired>>

Next ==
  \/ KernelProbe \/ RequestAll \/ Trial \/ EndTrial \/ FreeAll
  \/ TakeDefault \/ Install \/ Exchange \/ Cleanup
  \/ \E l \in Lines : Interrupt(l) \/ Claim(l) \/ Compare(l) \/ Negate(l)

-----------------------------------------------------------------------------
Irqs == Lines \union {0, -1, Default} \union {-l : l \in Lines}

TypeInvariant ==
  /\ share \in BOOLEAN /\ halves \in BOOLEAN /\ fired \in BOOLEAN
  /\ pc \in {"kernel", "request", "trial", "delay", "free", "default", "install",
             "exchange", "loaded", "unloaded"}
  /\ short_irq \in Irqs /\ count \in 0..5 /\ probing \subseteq Lines
  /\ cpu \in [Lines -> {"off", "claim", "compare", "negate"}]
  /\ installed \subseteq (Lines \union {0, Default})
                         \X {"plain", "shared", "halves"}

(* Lines 508-539 and 595-677: once the line is chosen no probing handler   *)
(* is left on any line, short_irq is not negative exactly while one        *)
(* handler is installed there, and the cleanup takes away what the load    *)
(* installed.                                                              *)
HandlerAccounted ==
  /\ pc \notin {"trial", "delay", "free"} =>
       probing = {} /\ \A l \in Lines : cpu[l] = "off"
  /\ pc = "loaded" => /\ short_irq >= 0 <=> installed # {}
                      /\ \A i \in installed : i[1] = short_irq
  /\ pc = "unloaded" => installed = {}

-----------------------------------------------------------------------------
(* What HandlerAccounted rests on: probing handlers run only where they    *)
(* are installed and only during the probe, and what is installed for good *)
(* is what short_irq and the parameters say.                               *)
ProbingInTime ==
  /\ \A l \in Lines : cpu[l] # "off" => l \in probing
  /\ probing # {} => pc \in {"trial", "delay", "free"}

Handlers == IF share THEN {"shared"} ELSE {"plain", "halves"}

InstalledExact ==
  /\ pc \notin {"exchange", "loaded"} => installed = {}
  /\ pc = "exchange" => ~share /\ short_irq >= 0 /\ installed = {<<short_irq, "plain">>}
  /\ pc = "loaded" => IF short_irq < 0 THEN installed = {}
                      ELSE \E h \in Handlers : installed = {<<short_irq, h>>}

Inv == TypeInvariant /\ ProbingInTime /\ InstalledExact
=============================================================================
