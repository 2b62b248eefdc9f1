------------------------------- MODULE MCShort -------------------------------
(* The driver of Short with a bound on the interrupts that depends on the  *)
(* handler: one interrupt makes several records when a bottom half prints. *)
EXTENDS Short

PlainIrqs == 4
HalvesIrqs == 2
MCMaxIrq == [h \in Handlers |-> IF h = "halves" THEN HalvesIrqs ELSE PlainIrqs]
=============================================================================
