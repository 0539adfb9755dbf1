---------------------------- MODULE DriverLifecycle ----------------------------
(***************************************************************************)
(* Loading and unloading of the three drivers: hello_drv, mmap_drv and     *)
(* adv_io.  Init takes resources one by one and unwinds through goto       *)
(* labels when a step fails; exit gives them back; meanwhile processes     *)
(* open the device, map its page, fork and close, and adv_io's work item   *)
(* re-arms itself.  One step is one call of init, unwinding or exit.       *)
(***************************************************************************)
EXTENDS Integers, Sequences

CONSTANTS Drivers,  \* the drivers that may be loaded
          Users     \* the processes that may open the device

ASSUME DriversAssumption == Drivers \subseteq {"hello", "mmap", "adv_io"}

VARIABLES driver,   \* the driver this behaviour is about
          mod,      \* "out", "init", "undo", "live" or "exit"
          pc,       \* which call of init, of the labels or of exit is next
          held,     \* the resources init took and nobody gave back
          fds,      \* processes with the device open
          maps,     \* processes with the page mapped
          timer,    \* the delayed work is armed
          running,  \* the producer is running
          cancel    \* cancel_delayed_work_sync has begun

moduleVars == <<driver, mod, pc, held>>
fileVars   == <<fds, maps>>
workVars   == <<timer, running, cancel>>
lifeVars   == <<moduleVars, fileVars, workVars>>

Init ==
    /\ driver \in Drivers /\ mod = "out" /\ pc = 1 /\ held = {}
    /\ fds = {} /\ maps = {}
    /\ timer = FALSE /\ running = FALSE /\ cancel = FALSE

------------------------------------------------------------------------------
(* The three init functions, call by call: the resource a call takes, and  *)
(* the place among the labels its failure jumps to.  A failure at Unwatched *)
(* is not looked at; Never is a call that cannot fail.                      *)

Never     == -1
Unwatched == 0

Call(res, label) == [res |-> res, label |-> label]

HelloInit == << Call("region", 3), Call("cdev", 2), Call("class", 1),
                Call("device", Unwatched) >>
HelloUndo == << "cdev", "region" >>
HelloExit == << "device", "class", "cdev", "region" >>

\* Mutant of MmapInit: a failing alloc_chrdev_region returns at once.
MmapInitLeaks ==
    << Call("page", 5), Call("reserved", Never), Call("region", 5),
       Call("cdev", 2), Call("class", 1), Call("device", Unwatched) >>

MmapInit == << Call("page", 5), Call("reserved", Never), Call("region", 3),
               Call("cdev", 2), Call("class", 1), Call("device", Unwatched) >>
MmapUndo == << "cdev", "region", "reserved", "page" >>
MmapExit == << "device", "class", "cdev", "region", "reserved", "page" >>

\* Mutant of AdvIoInit: the result of device_create is not looked at.
AdvIoInitUnwatched ==
    << Call("mem", 5), Call("region", 4), Call("cdev", 3), Call("class", 2),
       Call("device", Unwatched), Call("work", Never) >>

AdvIoInit == << Call("mem", 5), Call("region", 4), Call("cdev", 3),
                Call("class", 2), Call("device", 1), Call("work", Never) >>
AdvIoUndo == << "class", "cdev", "region", "mem" >>

\* Mutant of AdvIoExit: the device is freed before its character device.
AdvIoExitFreesEarly == << "work", "device", "class", "mem", "cdev", "region" >>

AdvIoExit == << "work", "device", "class", "cdev", "region", "mem" >>

InitCalls ==
    [hello |-> HelloInit, mmap |-> MmapInit, adv_io |-> AdvIoInit][driver]

UndoCalls ==
    [hello |-> HelloUndo, mmap |-> MmapUndo, adv_io |-> AdvIoUndo][driver]

ExitCalls ==
    [hello |-> HelloExit, mmap |-> MmapExit, adv_io |-> AdvIoExit][driver]

------------------------------------------------------------------------------
(* insmod *)

Insmod ==
    /\ mod = "out" /\ mod' = "init" /\ pc' = 1
    /\ UNCHANGED <<driver, held, fileVars, workVars>>

\* A call of init that succeeds; the last one ends init.
InitCall ==
    /\ mod = "init"
    /\ held' = held \cup {InitCalls[pc].res}
    /\ timer' = (timer \/ InitCalls[pc].res = "work")
    /\ IF pc = Len(InitCalls) THEN mod' = "live" /\ pc' = 1
                              ELSE mod' = mod /\ pc' = pc + 1
    /\ UNCHANGED <<driver, running, cancel, fileVars>>

\* A call of init that fails and jumps to its label, or returns when there is
\* nothing to undo.
InitFails ==
    /\ mod = "init" /\ InitCalls[pc].label > 0
    /\ IF InitCalls[pc].label > Len(UndoCalls)
       THEN mod' = "out" /\ pc' = 1
       ELSE mod' = "undo" /\ pc' = InitCalls[pc].label
    /\ UNCHANGED <<driver, held, fileVars, workVars>>

\* device_create fails and nobody looks: the module is loaded without a node.
InitFailsUnseen ==
    /\ mod = "init" /\ InitCalls[pc].label = Unwatched
    /\ IF pc = Len(InitCalls) THEN mod' = "live" /\ pc' = 1
                              ELSE mod' = mod /\ pc' = pc + 1
    /\ UNCHANGED <<driver, held, fileVars, workVars>>

\* The labels fall through to the last one.
UndoCall ==
    /\ mod = "undo"
    /\ held' = held \ {UndoCalls[pc]}
    /\ IF pc = Len(UndoCalls) THEN mod' = "out" /\ pc' = 1
                              ELSE mod' = mod /\ pc' = pc + 1
    /\ UNCHANGED <<driver, fileVars, workVars>>

------------------------------------------------------------------------------
(* rmmod *)

\* fops.owner: an open file, or a mapping that outlives it, pins the module.
Unreferenced == fds = {} /\ maps = {}

Rmmod ==
    /\ mod = "live" /\ Unreferenced
    /\ mod' = "exit" /\ pc' = 1
    /\ UNCHANGED <<driver, held, fileVars, workVars>>

\* cancel_delayed_work_sync takes the timer and keeps the work from re-arming.
CancelWork ==
    /\ mod = "exit" /\ ExitCalls[pc] = "work" /\ ~cancel
    /\ timer' = FALSE /\ cancel' = TRUE
    /\ UNCHANGED <<moduleVars, fileVars, running>>

\* Mutant of Cancelled: cancel_delayed_work, without _sync.
CancelledAtOnce == cancel

\* ... and returns when the work that had begun is over.
Cancelled == cancel /\ ~running

ExitCall ==
    /\ mod = "exit"
    /\ ExitCalls[pc] = "work" => Cancelled
    /\ held' = held \ {ExitCalls[pc]}
    /\ cancel' = FALSE
    /\ IF pc = Len(ExitCalls) THEN mod' = "out" /\ pc' = 1
                              ELSE mod' = mod /\ pc' = pc + 1
    /\ UNCHANGED <<driver, fileVars, timer, running>>

------------------------------------------------------------------------------
(* The delayed work: adv_io_producer as far as its life goes *)

TimerFires ==
    /\ timer /\ ~running
    /\ timer' = FALSE /\ running' = TRUE
    /\ UNCHANGED <<moduleVars, fileVars, cancel>>

\* Mutant of Rearms: cancelling does not keep the work from re-arming.
RearmsAlways == TRUE

Rearms == ~cancel

ProducerEnds ==
    /\ running /\ running' = FALSE /\ timer' = Rearms
    /\ UNCHANGED <<moduleVars, fileVars, cancel>>

------------------------------------------------------------------------------
(* Processes *)

\* The node is there while the device is; a module on its way out is not
\* opened, one that is still in init may be.
Openable == "device" \in held /\ mod \in {"init", "live"}

Open(u) ==
    /\ u \notin fds /\ Openable
    /\ fds' = fds \cup {u}
    /\ UNCHANGED <<moduleVars, maps, workVars>>

\* Of the three drivers only mmap_drv maps its page, once per process here.
Mmap(u) ==
    /\ driver = "mmap" /\ u \in fds \ maps
    /\ maps' = maps \cup {u}
    /\ UNCHANGED <<moduleVars, fds, workVars>>

\* fork: the child has its parent's descriptor and mapping.
Fork(u, v) ==
    /\ u \in fds /\ v \notin fds \cup maps
    /\ fds' = fds \cup {v}
    /\ maps' = IF u \in maps THEN maps \cup {v} ELSE maps
    /\ UNCHANGED <<moduleVars, workVars>>

Munmap(u) ==
    /\ u \in maps /\ maps' = maps \ {u}
    /\ UNCHANGED <<moduleVars, fds, workVars>>

Close(u) ==
    /\ u \in fds /\ fds' = fds \ {u}
    /\ UNCHANGED <<moduleVars, maps, workVars>>

Module == Insmod \/ InitCall \/ InitFails \/ InitFailsUnseen \/ UndoCall
          \/ Rmmod \/ CancelWork \/ ExitCall
Work == TimerFires \/ ProducerEnds
Process(u) == Open(u) \/ Mmap(u) \/ Munmap(u) \/ Close(u)
              \/ \E v \in Users : Fork(u, v)

LifeNext == Module \/ Work \/ \E u \in Users : Process(u)

\* The kernel runs init and exit to their ends, and the work that is due.
LifeFairness ==
    /\ WF_lifeVars(InitCall) /\ WF_lifeVars(UndoCall)
    /\ WF_lifeVars(CancelWork) /\ WF_lifeVars(ExitCall)
    /\ WF_lifeVars(Work)

LifeSpec == Init /\ [][LifeNext]_lifeVars
FairLifeSpec == LifeSpec /\ LifeFairness

------------------------------------------------------------------------------
(* Properties *)

Resources == {"page", "reserved", "mem", "region", "cdev", "class", "device",
              "work"}

\* The types of the state; the program counter stays within its function, and
\* the timer stays off once it is being cancelled.
LifeTypeOK ==
    /\ driver \in Drivers
    /\ mod \in {"out", "init", "undo", "live", "exit"}
    /\ pc \in Nat \ {0}
    /\ mod = "init" => pc <= Len(InitCalls)
    /\ mod = "undo" => pc <= Len(UndoCalls)
    /\ mod = "exit" => pc <= Len(ExitCalls)
    /\ held \subseteq Resources
    /\ fds \subseteq Users /\ maps \subseteq Users
    /\ timer \in BOOLEAN /\ running \in BOOLEAN /\ cancel \in BOOLEAN
    /\ cancel => ~timer

\* The calls from place pc of a list on.
From(calls) == {calls[i] : i \in pc..Len(calls)}

\* What a failed init still has to undo is exactly what it took, what exit
\* still has to release is exactly what is held (the device, which may be
\* missing, aside), and an unloaded driver holds nothing: no leak and no
\* second release, whichever call failed.
UndoIsExact ==
    /\ mod = "out"  => held = {}
    /\ mod = "undo" => held = From(UndoCalls)
    /\ mod = "exit" => held \cup {"device"} = From(ExitCalls) \cup {"device"}

\* Resources go in the reverse of the order they were taken in, so that none is
\* ever held without those it was built on, the region of a character device or
\* the memory it lives in.
HeldInOrder ==
    \A i, j \in DOMAIN InitCalls :
        i < j /\ InitCalls[j].res \in held => InitCalls[i].res \in held

\* Nothing reaches freed memory: the work, running or armed, has its device
\* structure, a mapping has its page, an open file has the driver's character
\* device and a module that is not on its way out.
NoUseAfterFree ==
    /\ running \/ timer => "mem" \in held
    /\ maps # {} => "page" \in held
    /\ fds # {} => "cdev" \in held /\ mod \in {"init", "live"}

\* insmod of adv_io that succeeds has made everything, the node included, and
\* the producer is on its way; the other two may be loaded without a node.
LoadedIsComplete ==
    mod = "live" =>
        /\ {InitCalls[i].res : i \in DOMAIN InitCalls} \ held \subseteq {"device"}
        /\ driver = "adv_io" => "device" \in held /\ (timer \/ running)

\* cancel_delayed_work_sync waits for one run of the producer at most: none
\* begins once it has been called, although each run re-arms the next.
WorkNotRestarted ==
    [][cancel /\ cancel' /\ ~running => ~running']_lifeVars

\* An init that fails and an rmmod that begins come to their end, although the
\* producer re-arms itself for ever.
UnloadCompletes == mod \in {"undo", "exit"} ~> mod = "out"
===============================================================================
