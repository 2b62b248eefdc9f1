------------------------------ MODULE Lifecycle ------------------------------
(***************************************************************************)
(* Loading and unloading of the modules that register something.  A load   *)
(* acquires its resources one after the other and any of them may be       *)
(* refused; files are opened as soon as a device number answers, during    *)
(* the load too.  What each module acquires, in which order, what it does  *)
(* on a refusal and in which order it lets go is a table read off its init *)
(* and cleanup functions.                                                  *)
(***************************************************************************)
EXTENDS Naturals, Sequences, SequencesExt

CONSTANT MaxFiles   \* bound on the files open at a time

(* what the constant satisfies; Devices assumes it *)
Parameters == MaxFiles \in Nat

VARIABLES
  driver,    \* the module loaded in this behaviour
  phase,     \* init, loaded, fail or exit (letting go),
             \* then failed or unloaded
  todo,      \* the steps of the current function that are left
  held,      \* what the module has acquired
  files      \* files open on its devices

vars == <<driver, phase, todo, held, files>>

(* scull_init_module and its callees.  region: the device numbers;         *)
(* devices: the array of them; cdevs: scull_setup_cdev for each, "pipe..." *)
(* the same three in scull_p_init.                                         *)
(* variant: the numbers answer before the array is allocated *)
basic_init_early == <<"region", "cdevs", "devices">>
basic_init == <<"region", "devices", "cdevs">>
test_init == <<"region", "devices", "cdevs", "proc">>
scull_p_init == <<"pipe_region", "pipe_devices", "pipe_cdevs">>
high_init == <<"region", "devices", "cdevs">> \o scull_p_init \o <<"proc">>

basic_cleanup == <<"cdevs", "devices", "region">>
test_cleanup == <<"cdevs", "devices", "proc", "region">>
scull_p_cleanup == <<"pipe_cdevs", "pipe_devices", "pipe_region">>
high_cleanup == <<"cdevs", "devices", "proc", "region">> \o scull_p_cleanup

(* the slab cache comes last, after the devices *)
scullc_init == <<"region", "devices", "cdevs", "cache">>
scullc_cleanup == <<"cdevs", "devices", "cache", "region">>

(* chrdev: register_chrdev, which also makes the device answer.  The       *)
(* handler of short_init is ShortProbe's subject.                          *)
short_init == <<"ports", "chrdev", "page">>
short_mem_init == <<"memory", "mapping", "chrdev", "page">>
short_cleanup == <<"chrdev", "ports", "page">>
short_mem_cleanup == <<"chrdev", "mapping", "memory", "page">>
short_io_init == <<"ports", "chrdev">>       \* the older copy/code/short.c
short_io_cleanup == <<>>                     \* whose cleanup is empty
short_port_init == <<"ports", "chrdev">>     \* code/short.c, which does not
short_port_cleanup == <<"chrdev", "ports">>  \* look at the ports' result

sleepy_init == <<"chrdev">>
sleepy_cleanup == <<"chrdev">>
complete_init == <<"chrdev">>
complete_cleanup == <<"chrdev">>

(* timer_s/curranddely: the result of the registration is not looked at,   *)
(* and the cleanup passes an uninitialised number                          *)
dely_init == <<"region", "proc">>
dely_cleanup == <<"proc", "region">>

usb_skel_init == <<"usb">>
usb_skel_exit == <<"usb">>

InitOf == [basic |-> basic_init, test |-> test_init, high |-> high_init,
           scullc |-> scullc_init, short |-> short_init, short_mem |-> short_mem_init,
           short_io |-> short_io_init, short_port |-> short_port_init,
           sleepy |-> sleepy_init, complete |-> complete_init, dely |-> dely_init,
           usb |-> usb_skel_init]
ExitOf == [basic |-> basic_cleanup, test |-> test_cleanup, high |-> high_cleanup,
           scullc |-> scullc_cleanup, short |-> short_cleanup,
           short_mem |-> short_mem_cleanup, short_io |-> short_io_cleanup,
           short_port |-> short_port_cleanup, sleepy |-> sleepy_cleanup,
           complete |-> complete_cleanup, dely |-> dely_cleanup, usb |-> usb_skel_exit]

Drivers == DOMAIN InitOf

(* cdev_add, proc_create, ioremap and __get_free_pages: "fail gracefully", *)
(* "never fails", or not looked at; the load goes on.                      *)
Tolerated(s) == s \in {"cdevs", "pipe_cdevs", "proc", "mapping", "page"}
                \/ driver = "dely" \/ (s = "ports" /\ driver = "short_port")

(* A refusal in scull_p_init undoes that function and the load goes on; in *)
(* scull_init_module after the numbers it runs the whole cleanup; scullc   *)
(* gives its numbers back, or runs the cleanup for the cache; short gives  *)
(* back I/O ports, also when it holds memory (its FIXME).                  *)
(* variant: goto fail is a plain return *)
OnRefusalReturns(s) == <<>>
OnRefusal(s) ==
  CASE s = "devices" /\ driver \in {"basic", "test", "high"} -> ExitOf[driver]
    [] s = "devices" /\ driver = "scullc" -> <<"region">>
    [] s = "cache" -> scullc_cleanup
    [] s = "chrdev" /\ driver \in {"short", "short_mem", "short_io"} -> <<"ports">>
    [] OTHER -> <<>>

-----------------------------------------------------------------------------
Init ==
  /\ driver \in Drivers /\ phase = "init" /\ todo = InitOf[driver]
  /\ held = {} /\ files = 0

Acquire ==
  /\ phase = "init" /\ todo # <<>>
  /\ held' = held \union {Head(todo)} /\ todo' = Tail(todo)
  /\ UNCHANGED <<driver, phase, files>>

Tolerate ==
  /\ phase = "init" /\ todo # <<>> /\ Tolerated(Head(todo))
  /\ todo' = Tail(todo)
  /\ UNCHANGED <<driver, phase, held, files>>

(* the two early returns of scull_p_init *)
RefusePipe ==
  /\ phase = "init" /\ todo # <<>>
  /\ Head(todo) \in {"pipe_region", "pipe_devices"}
  /\ held' = held \ {"pipe_region"} /\ todo' = <<"proc">>
  /\ UNCHANGED <<driver, phase, files>>

Refuse ==
  /\ phase = "init" /\ todo # <<>>
  /\ ~Tolerated(Head(todo)) /\ Head(todo) \notin {"pipe_region", "pipe_devices"}
  /\ phase' = "fail" /\ todo' = OnRefusal(Head(todo))
  /\ UNCHANGED <<driver, held, files>>

Loaded ==
  /\ phase = "init" /\ todo = <<>> /\ phase' = "loaded"
  /\ UNCHANGED <<driver, todo, held, files>>

(* rmmod: every file_operations names its owner, so not while a file is    *)
(* open                                                                    *)
Unload ==
  /\ phase = "loaded" /\ files = 0
  /\ phase' = "exit" /\ todo' = ExitOf[driver]
  /\ UNCHANGED <<driver, held, files>>

(* Letting go of what was not acquired does nothing: the null pointers     *)
(* tested, kfree(NULL), remove_proc_entry.  dely's devno is any number.    *)
Release ==
  /\ phase \in {"fail", "exit"} /\ todo # <<>>
  /\ \/ held' = held \ {Head(todo)}
     \/ driver = "dely" /\ Head(todo) = "region" /\ UNCHANGED held
  /\ todo' = Tail(todo)
  /\ UNCHANGED <<driver, phase, files>>

Gone ==
  /\ phase \in {"fail", "exit"} /\ todo = <<>>
  /\ phase' = IF phase = "fail" THEN "failed" ELSE "unloaded"
  /\ UNCHANGED <<driver, todo, held, files>>

(* an open finds a cdev or a registered major; try_module_get refuses a    *)
(* module that is being unloaded                                           *)
Answering == held \cap {"cdevs", "pipe_cdevs", "chrdev"} # {}

Open ==
  /\ phase \in {"init", "loaded"} /\ Answering
  /\ files < MaxFiles /\ files' = files + 1
  /\ UNCHANGED <<driver, phase, todo, held>>

Close ==
  /\ files > 0 /\ files' = files - 1
  /\ UNCHANGED <<driver, phase, todo, held>>

Next == Acquire \/ Tolerate \/ RefusePipe \/ Refuse \/ Loaded \/ Unload
        \/ Release \/ Gone \/ Open \/ Close

-----------------------------------------------------------------------------
Resources == {"region", "devices", "cdevs", "proc", "pipe_region", "pipe_devices",
              "pipe_cdevs", "cache", "ports", "memory", "mapping", "chrdev", "page", "usb"}

TypeInvariant ==
  /\ driver \in Drivers /\ phase \in {"init", "loaded", "fail", "exit", "failed", "unloaded"}
  /\ held \subseteq ToSet(InitOf[driver])
  /\ todo \in Seq(Resources)
  /\ files \in 0..MaxFiles

KnownLeft(end) ==
  CASE end = "failed" /\ driver = "short_mem" -> {"memory", "mapping"}
    [] end = "failed" /\ driver = "short_port" -> {"ports"}
    [] end = "unloaded" /\ driver = "short_io" -> {"ports", "chrdev"}
    [] end = "unloaded" /\ driver = "dely" -> {"region"}
    [] OTHER -> {}

(* Whatever was refused and however far a load came, a module that is not  *)
(* loaded holds nothing, up to four known exceptions: where the major was  *)
(* refused, the memory of a short (the FIXME in its line 583) and the      *)
(* ports of code/short.c; the older short, whose cleanup is empty; and the *)
(* numbers of curranddely, whose cleanup passes an uninitialised one.      *)
NothingLeft == phase \in {"failed", "unloaded"} => held \subseteq KnownLeft(phase)

(* Devices answer before the load has ended, but where the code registers  *)
(* them last nobody finds an array of devices missing, and no load fails   *)
(* under an open file.  scullc, which creates its cache after its devices, *)
(* is the exception.                                                       *)
OpenFindsDevice ==
  files > 0 /\ driver # "scullc" =>
    /\ phase \in {"init", "loaded"}
    /\ driver \in {"basic", "test", "high"} => "devices" \in held

-----------------------------------------------------------------------------
(* What the two rest on.  During a load what is left to do is the end of   *)
(* the table's row, what is held comes from the part before, and the array *)
(* of devices is there once its step is behind; a file can be open only if *)
(* a number answers.  While a module lets go, what it holds is still to be *)
(* let go or among the exceptions.                                         *)
HasArray == driver \in {"basic", "test", "high"}
Steps == InitOf[driver]

LoadInOrder(k) ==
  /\ todo = SubSeq(Steps, k, Len(Steps))
  /\ held \subseteq {Steps[i] : i \in 1 .. k - 1}
  /\ HasArray /\ k > 2 => "devices" \in held
  /\ files > 0 => Answering

LoadSound ==
  /\ phase = "init" => \E k \in 1 .. Len(Steps) + 1 : LoadInOrder(k)
  /\ phase = "loaded" => todo = <<>> /\ (HasArray => "devices" \in held)

ReleaseSound ==
  /\ phase = "fail" =>
       driver # "dely" /\ held \subseteq ToSet(todo) \union KnownLeft("failed")
  /\ phase = "exit" => held \subseteq ToSet(todo) \union KnownLeft("unloaded")

FilesClosed == phase \notin {"init", "loaded"} /\ driver # "scullc" => files = 0

Inv == TypeInvariant /\ LoadSound /\ ReleaseSound /\ FilesClosed /\ NothingLeft
=============================================================================
