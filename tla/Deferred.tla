------------------------------ MODULE Deferred ------------------------------
(***************************************************************************)
(* The examples of work put off: interrupt/code/irq_qu.c (an interrupt     *)
(* handler alone), tasklet.c (a handler that schedules a tasklet),         *)
(* workqueue_my.c (a work item) and timer_s simple_timer.c (a timer that   *)
(* arms itself again).  Handlers and callbacks run beside the exit of the  *)
(* module; only free_irq waits for them.                                   *)
(***************************************************************************)
EXTENDS Naturals

VARIABLES
  example,    \* irq, tasklet, work or timer
  phase,      \* init, loaded, exit, then gone; or failed
  installed,  \* the interrupt handler is registered
  hard,       \* it runs on some processor
  pending,    \* the callback is queued or armed
  soft        \* the callback runs

vars == <<example, phase, installed, hard, pending, soft>>

Init ==
  /\ example \in {"irq", "tasklet", "work", "timer"} /\ phase = "init"
  /\ installed = FALSE /\ hard = FALSE /\ pending = FALSE /\ soft = FALSE

(* request_irq, or -EIO *)
myirq_init ==
  /\ phase = "init" /\ example \in {"irq", "tasklet"}
  /\ \/ phase' = "loaded" /\ installed' = TRUE
     \/ phase' = "failed" /\ UNCHANGED installed
  /\ UNCHANGED <<example, hard, pending, soft>>

(* schedule_work, unless there is no memory for the queue it does not use  *)
test_init ==
  /\ phase = "init" /\ example = "work"
  /\ \/ phase' = "loaded" /\ pending' = TRUE
     \/ phase' = "failed" /\ UNCHANGED pending
  /\ UNCHANGED <<example, installed, hard, soft>>

mytimer_init ==
  /\ phase = "init" /\ example = "timer"
  /\ phase' = "loaded" /\ pending' = TRUE
  /\ UNCHANGED <<example, installed, hard, soft>>

Interrupt ==
  /\ installed /\ ~hard /\ hard' = TRUE
  /\ UNCHANGED <<example, phase, installed, pending, soft>>

(* myirq_handler; tasklet_schedule has no effect on a scheduled tasklet    *)
HandlerEnds ==
  /\ hard /\ hard' = FALSE
  /\ pending' = (pending \/ example = "tasklet")
  /\ UNCHANGED <<example, phase, installed, soft>>

CallbackRuns ==
  /\ pending /\ ~soft /\ pending' = FALSE /\ soft' = TRUE
  /\ UNCHANGED <<example, phase, installed, hard>>

(* the end of tasklet_func and work_handler, and of myfunc after mod_timer *)
CallbackEnds ==
  /\ soft /\ soft' = FALSE /\ pending' = (pending \/ example = "timer")
  /\ UNCHANGED <<example, phase, installed, hard>>

(* free_irq: no new interrupt, then a wait for the handler that runs.  The *)
(* tasklet is not killed.                                                  *)
myirq_exit ==
  /\ example \in {"irq", "tasklet"}
  /\ \/ phase = "loaded" /\ phase' = "exit" /\ installed' = FALSE
     \/ phase = "exit" /\ ~hard /\ phase' = "gone" /\ UNCHANGED installed
  /\ UNCHANGED <<example, hard, pending, soft>>

(* destroy_workqueue, of the queue that never had the work item *)
test_exit ==
  /\ phase = "loaded" /\ example = "work" /\ phase' = "gone"
  /\ UNCHANGED <<example, installed, hard, pending, soft>>

(* del_timer does not wait for a function that runs *)
mytimer_exit ==
  /\ phase = "loaded" /\ example = "timer" /\ phase' = "gone"
  /\ pending' = FALSE
  /\ UNCHANGED <<example, installed, hard, soft>>

Next == \/ myirq_init \/ test_init \/ mytimer_init \/ Interrupt \/ HandlerEnds
        \/ CallbackRuns \/ CallbackEnds \/ myirq_exit \/ test_exit \/ mytimer_exit

-----------------------------------------------------------------------------
TypeInvariant ==
  /\ example \in {"irq", "tasklet", "work", "timer"}
  /\ phase \in {"init", "loaded", "exit", "gone", "failed"}
  /\ installed \in BOOLEAN /\ hard \in BOOLEAN /\ pending \in BOOLEAN /\ soft \in BOOLEAN
=============================================================================
