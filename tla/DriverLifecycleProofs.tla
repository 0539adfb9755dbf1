------------------------- MODULE DriverLifecycleProofs -------------------------
(***************************************************************************)
(* Proofs about DriverLifecycle, for any set of processes: a failed init   *)
(* and an exit release exactly what was taken, in reverse order, and       *)
(* nothing reaches freed memory.  MmapIpcProofs carries the results over   *)
(* to the application.                                                     *)
(***************************************************************************)
EXTENDS DriverLifecycle, TLAPS

\* What the calls of init before place n took.
Taken(n) == {InitCalls[i].res : i \in 1..n-1}

AllTaken == {InitCalls[i].res : i \in 1..Len(InitCalls)}

\* What is held, at each place of the module's life.
HeldInv ==
    /\ mod = "out"  => held = {}
    /\ mod = "init" => held = Taken(pc)
    /\ mod = "undo" => held = From(UndoCalls)
    /\ mod = "live" => \/ held = AllTaken
                       \/ driver # "adv_io" /\ held = AllTaken \ {"device"}
    /\ mod = "exit" => \/ held = From(ExitCalls)
                       \/ /\ driver # "adv_io"
                          /\ held = From(ExitCalls) \ {"device"}

\* The work item runs and is armed only while exit has not cancelled it.
WorkInv ==
    /\ timer \/ running => "work" \in held
    /\ mod = "live" /\ "work" \in held => timer \/ running
    /\ cancel => mod = "exit" /\ ExitCalls[pc] = "work" /\ ~timer

\* Open files and mappings pin the module and keep its device.
FileInv ==
    /\ fds # {} \/ maps # {} => mod \in {"init", "live"} /\ "device" \in held
    /\ maps # {} => driver = "mmap"

LifeInv == LifeTypeOK /\ HeldInv /\ WorkInv /\ FileInv

------------------------------------------------------------------------------
(* The tables of the three drivers *)

\* Which table is whose.
LEMMA TablesOf ==
    /\ driver = "hello" =>
          /\ InitCalls = HelloInit /\ UndoCalls = HelloUndo
          /\ ExitCalls = HelloExit
    /\ driver = "mmap" =>
          /\ InitCalls = MmapInit /\ UndoCalls = MmapUndo
          /\ ExitCalls = MmapExit
    /\ driver = "adv_io" =>
          /\ InitCalls = AdvIoInit /\ UndoCalls = AdvIoUndo
          /\ ExitCalls = AdvIoExit
  BY DEF InitCalls, UndoCalls, ExitCalls

\* The shape of the tables.
LEMMA TableTypes ==
    ASSUME driver \in Drivers
    PROVE  /\ Len(InitCalls) \in Nat \ {0} /\ Len(UndoCalls) \in Nat \ {0}
           /\ Len(ExitCalls) \in Nat \ {0}
           /\ DOMAIN InitCalls = 1..Len(InitCalls)
           /\ \A i \in 1..Len(InitCalls) :
                 InitCalls[i].res \in Resources /\ InitCalls[i].label \in Int
  <1>. driver \in {"hello", "mmap", "adv_io"}
    BY DriversAssumption
  <1>1. CASE driver = "hello"
    <2>1. InitCalls = HelloInit /\ UndoCalls = HelloUndo /\ ExitCalls = HelloExit
      BY <1>1, TablesOf
    <2>. QED
      BY <2>1 DEF HelloInit, HelloUndo, HelloExit, Call, Unwatched, Never, Resources
  <1>2. CASE driver = "mmap"
    <2>1. InitCalls = MmapInit /\ UndoCalls = MmapUndo /\ ExitCalls = MmapExit
      BY <1>2, TablesOf
    <2>. QED
      BY <2>1 DEF MmapInit, MmapUndo, MmapExit, Call, Unwatched, Never, Resources
  <1>3. CASE driver = "adv_io"
    <2>1. InitCalls = AdvIoInit /\ UndoCalls = AdvIoUndo /\ ExitCalls = AdvIoExit
      BY <1>3, TablesOf
    <2>. QED
      BY <2>1 DEF AdvIoInit, AdvIoUndo, AdvIoExit, Call, Unwatched, Never, Resources
  <1>. QED  BY <1>1, <1>2, <1>3

\* No table names a resource twice.
LEMMA NoRepeats ==
    ASSUME driver \in Drivers
    PROVE  /\ \A i, j \in 1..Len(InitCalls) :
                 InitCalls[i].res = InitCalls[j].res => i = j
           /\ \A i, j \in 1..Len(UndoCalls) : UndoCalls[i] = UndoCalls[j] => i = j
           /\ \A i, j \in 1..Len(ExitCalls) : ExitCalls[i] = ExitCalls[j] => i = j
  <1>. driver \in {"hello", "mmap", "adv_io"}
    BY DriversAssumption
  <1>1. CASE driver = "hello"
    <2>1. InitCalls = HelloInit /\ UndoCalls = HelloUndo /\ ExitCalls = HelloExit
      BY <1>1, TablesOf
    <2>. QED
      BY <2>1 DEF HelloInit, HelloUndo, HelloExit, Call
  <1>2. CASE driver = "mmap"
    <2>1. InitCalls = MmapInit /\ UndoCalls = MmapUndo /\ ExitCalls = MmapExit
      BY <1>2, TablesOf
    <2>. QED
      BY <2>1 DEF MmapInit, MmapUndo, MmapExit, Call
  <1>3. CASE driver = "adv_io"
    <2>1. InitCalls = AdvIoInit /\ UndoCalls = AdvIoUndo /\ ExitCalls = AdvIoExit
      BY <1>3, TablesOf
    <2>. QED
      BY <2>1 DEF AdvIoInit, AdvIoUndo, AdvIoExit, Call
  <1>. QED  BY <1>1, <1>2, <1>3

\* A label undoes what was taken before the call that jumps to it, and nothing
\* was taken before a call that returns.
LEMMA LabelsUndo ==
    ASSUME driver \in Drivers,
           NEW n \in 1..Len(InitCalls), InitCalls[n].label > 0
    PROVE  /\ InitCalls[n].label > Len(UndoCalls) => Taken(n) = {}
           /\ InitCalls[n].label <= Len(UndoCalls) =>
                 Taken(n) = {UndoCalls[i] : i \in InitCalls[n].label..Len(UndoCalls)}
           /\ "device" \notin Taken(n)
  <1>. driver \in {"hello", "mmap", "adv_io"}
    BY DriversAssumption
  <1>1. CASE driver = "hello"
    <2>1. InitCalls = HelloInit /\ UndoCalls = HelloUndo
      BY <1>1, TablesOf
    <2>. QED
      BY <2>1 DEF HelloInit, HelloUndo, Call, Taken, Unwatched
  <1>2. CASE driver = "mmap"
    <2>1. InitCalls = MmapInit /\ UndoCalls = MmapUndo
      BY <1>2, TablesOf
    <2>. QED
      BY <2>1 DEF MmapInit, MmapUndo, Call, Taken, Unwatched, Never
  <1>3. CASE driver = "adv_io"
    <2>1. InitCalls = AdvIoInit /\ UndoCalls = AdvIoUndo
      BY <1>3, TablesOf
    <2>. QED
      BY <2>1 DEF AdvIoInit, AdvIoUndo, Call, Taken, Unwatched, Never
  <1>. QED  BY <1>1, <1>2, <1>3

\* Exit releases all that init takes.
LEMMA ExitReleasesAll ==
    ASSUME driver \in Drivers
    PROVE  AllTaken = {ExitCalls[i] : i \in 1..Len(ExitCalls)}
  <1>. driver \in {"hello", "mmap", "adv_io"}
    BY DriversAssumption
  <1>1. CASE driver = "hello"
    <2>1. InitCalls = HelloInit /\ ExitCalls = HelloExit
      BY <1>1, TablesOf
    <2>. QED
      BY <2>1 DEF HelloInit, HelloExit, Call, AllTaken
  <1>2. CASE driver = "mmap"
    <2>1. InitCalls = MmapInit /\ ExitCalls = MmapExit
      BY <1>2, TablesOf
    <2>. QED
      BY <2>1 DEF MmapInit, MmapExit, Call, AllTaken
  <1>3. CASE driver = "adv_io"
    <2>1. InitCalls = AdvIoInit /\ ExitCalls = AdvIoExit
      BY <1>3, TablesOf
    <2>. QED
      BY <2>1 DEF AdvIoInit, AdvIoExit, Call, AllTaken
  <1>. QED  BY <1>1, <1>2, <1>3

\* A call whose failure is not looked at is the last one of init and makes the
\* device; adv_io has none.
LEMMA UnwatchedIsDevice ==
    ASSUME driver \in Drivers,
           NEW n \in 1..Len(InitCalls), InitCalls[n].label = Unwatched
    PROVE  n = Len(InitCalls) /\ InitCalls[n].res = "device" /\ driver # "adv_io"
  <1>. driver \in {"hello", "mmap", "adv_io"}
    BY DriversAssumption
  <1>1. CASE driver = "hello"
    <2>1. InitCalls = HelloInit
      BY <1>1, TablesOf
    <2>. QED
      BY <1>1, <2>1 DEF HelloInit, Call, Unwatched
  <1>2. CASE driver = "mmap"
    <2>1. InitCalls = MmapInit
      BY <1>2, TablesOf
    <2>. QED
      BY <1>2, <2>1 DEF MmapInit, Call, Unwatched, Never
  <1>3. CASE driver = "adv_io"
    <2>1. InitCalls = AdvIoInit
      BY <1>3, TablesOf
    <2>. QED
      BY <2>1 DEF AdvIoInit, Call, Unwatched, Never
  <1>. QED  BY <1>1, <1>2, <1>3

\* The work is the last call of init.
LEMMA WorkIsLast ==
    ASSUME driver \in Drivers, NEW n \in 1..Len(InitCalls),
           InitCalls[n].res = "work"
    PROVE  n = Len(InitCalls)
  <1>. driver \in {"hello", "mmap", "adv_io"}
    BY DriversAssumption
  <1>1. CASE driver = "hello"
    <2>1. InitCalls = HelloInit
      BY <1>1, TablesOf
    <2>. QED
      BY <2>1 DEF HelloInit, Call
  <1>2. CASE driver = "mmap"
    <2>1. InitCalls = MmapInit
      BY <1>2, TablesOf
    <2>. QED
      BY <2>1 DEF MmapInit, Call
  <1>3. CASE driver = "adv_io"
    <2>1. InitCalls = AdvIoInit
      BY <1>3, TablesOf
    <2>. QED
      BY <2>1 DEF AdvIoInit, Call
  <1>. QED  BY <1>1, <1>2, <1>3

\* What is left to undo, and what is left to release, is at every place closed
\* under the order of init.
LEMMA UndoInOrder ==
    ASSUME driver \in Drivers, NEW p \in 1..Len(UndoCalls),
           NEW i \in 1..Len(InitCalls), NEW j \in 1..Len(InitCalls), i < j,
           InitCalls[j].res \in {UndoCalls[k] : k \in p..Len(UndoCalls)}
    PROVE  InitCalls[i].res \in {UndoCalls[k] : k \in p..Len(UndoCalls)}
  <1>. driver \in {"hello", "mmap", "adv_io"}
    BY DriversAssumption
  <1>1. CASE driver = "hello"
    <2>1. InitCalls = HelloInit /\ UndoCalls = HelloUndo
      BY <1>1, TablesOf
    <2>. QED
      BY <1>1, <2>1 DEF HelloInit, HelloUndo, Call
  <1>2. CASE driver = "mmap"
    <2>1. InitCalls = MmapInit /\ UndoCalls = MmapUndo
      BY <1>2, TablesOf
    <2>. QED
      BY <1>2, <2>1 DEF MmapInit, MmapUndo, Call
  <1>3. CASE driver = "adv_io"
    <2>1. InitCalls = AdvIoInit /\ UndoCalls = AdvIoUndo
      BY <1>3, TablesOf
    <2>. QED
      BY <1>3, <2>1 DEF AdvIoInit, AdvIoUndo, Call
  <1>. QED  BY <1>1, <1>2, <1>3

\* The same of exit.
LEMMA ExitInOrder ==
    ASSUME driver \in Drivers, NEW p \in 1..Len(ExitCalls),
           NEW i \in 1..Len(InitCalls), NEW j \in 1..Len(InitCalls), i < j,
           InitCalls[j].res \in {ExitCalls[k] : k \in p..Len(ExitCalls)}
    PROVE  InitCalls[i].res \in {ExitCalls[k] : k \in p..Len(ExitCalls)}
  <1>. driver \in {"hello", "mmap", "adv_io"}
    BY DriversAssumption
  <1>1. CASE driver = "hello"
    <2>1. InitCalls = HelloInit /\ ExitCalls = HelloExit
      BY <1>1, TablesOf
    <2>. QED
      BY <1>1, <2>1 DEF HelloInit, HelloExit, Call
  <1>2. CASE driver = "mmap"
    <2>1. InitCalls = MmapInit /\ ExitCalls = MmapExit
      BY <1>2, TablesOf
    <2>. QED
      BY <1>2, <2>1 DEF MmapInit, MmapExit, Call
  <1>3. CASE driver = "adv_io"
    <2>1. InitCalls = AdvIoInit /\ ExitCalls = AdvIoExit
      BY <1>3, TablesOf
    <2>. QED
      BY <1>3, <2>1 DEF AdvIoInit, AdvIoExit, Call
  <1>. QED  BY <1>1, <1>2, <1>3

\* The work is taken by adv_io alone, after its memory, and released first.
LEMMA WorkNeedsMemory ==
    ASSUME driver \in Drivers
    PROVE  /\ \A i \in 1..Len(InitCalls) : InitCalls[i].res = "work" =>
                 i > 1 /\ InitCalls[1].res = "mem" /\ driver = "adv_io"
           /\ \A i \in 1..Len(ExitCalls) : ExitCalls[i] = "work" => i = 1
           /\ driver = "adv_io" => ExitCalls[1] = "work" /\ "work" \in AllTaken
           /\ \A i \in 1..Len(UndoCalls) : UndoCalls[i] # "work"
  <1>. driver \in {"hello", "mmap", "adv_io"}
    BY DriversAssumption
  <1>1. CASE driver = "hello"
    <2>1. InitCalls = HelloInit /\ UndoCalls = HelloUndo /\ ExitCalls = HelloExit
      BY <1>1, TablesOf
    <2>. QED
      BY <1>1, <2>1 DEF HelloInit, HelloUndo, HelloExit, Call, AllTaken
  <1>2. CASE driver = "mmap"
    <2>1. InitCalls = MmapInit /\ UndoCalls = MmapUndo /\ ExitCalls = MmapExit
      BY <1>2, TablesOf
    <2>. QED
      BY <1>2, <2>1 DEF MmapInit, MmapUndo, MmapExit, Call, AllTaken
  <1>3. CASE driver = "adv_io"
    <2>1. InitCalls = AdvIoInit /\ UndoCalls = AdvIoUndo /\ ExitCalls = AdvIoExit
      BY <1>3, TablesOf
    <2>. QED
      BY <1>3, <2>1 DEF AdvIoInit, AdvIoUndo, AdvIoExit, Call, AllTaken
  <1>. QED  BY <1>1, <1>2, <1>3

\* The device is taken after the character device and, in mmap_drv, the page;
\* where its failure goes unseen it is the last call.
LEMMA DeviceNeedsOthers ==
    ASSUME driver \in Drivers, NEW i \in 1..Len(InitCalls),
           InitCalls[i].res = "device"
    PROVE  /\ \E j \in 1..i-1 : InitCalls[j].res = "cdev"
           /\ driver = "mmap" => i > 1 /\ InitCalls[1].res = "page"
           /\ driver # "adv_io" => i = Len(InitCalls)
           /\ driver = "adv_io" => i # Len(InitCalls)
  <1>. driver \in {"hello", "mmap", "adv_io"}
    BY DriversAssumption
  <1>1. CASE driver = "hello"
    <2>1. InitCalls = HelloInit
      BY <1>1, TablesOf
    <2>. QED
      BY <1>1, <2>1 DEF HelloInit, Call
  <1>2. CASE driver = "mmap"
    <2>1. InitCalls = MmapInit
      BY <1>2, TablesOf
    <2>. QED
      BY <1>2, <2>1 DEF MmapInit, Call
  <1>3. CASE driver = "adv_io"
    <2>1. InitCalls = AdvIoInit
      BY <1>3, TablesOf
    <2>. QED
      BY <1>3, <2>1 DEF AdvIoInit, Call
  <1>. QED  BY <1>1, <1>2, <1>3

\* The labels undo what init takes.
LEMMA UndoIsTaken ==
    ASSUME driver \in Drivers, NEW k \in 1..Len(UndoCalls)
    PROVE  \E i \in 1..Len(InitCalls) : InitCalls[i].res = UndoCalls[k]
  <1>. driver \in {"hello", "mmap", "adv_io"}
    BY DriversAssumption
  <1>1. CASE driver = "hello"
    <2>1. InitCalls = HelloInit /\ UndoCalls = HelloUndo
      BY <1>1, TablesOf
    <2>. QED
      BY <1>1, <2>1 DEF HelloInit, HelloUndo, Call
  <1>2. CASE driver = "mmap"
    <2>1. InitCalls = MmapInit /\ UndoCalls = MmapUndo
      BY <1>2, TablesOf
    <2>. QED
      BY <1>2, <2>1 DEF MmapInit, MmapUndo, Call
  <1>3. CASE driver = "adv_io"
    <2>1. InitCalls = AdvIoInit /\ UndoCalls = AdvIoUndo
      BY <1>3, TablesOf
    <2>. QED
      BY <1>3, <2>1 DEF AdvIoInit, AdvIoUndo, Call
  <1>. QED  BY <1>1, <1>2, <1>3

\* adv_io makes a device.
LEMMA AdvIoMakesDevice ==
    ASSUME driver = "adv_io"
    PROVE  "device" \in AllTaken
  <1>1. InitCalls = AdvIoInit
    BY TablesOf
  <1>. QED  BY <1>1 DEF AdvIoInit, Call, AllTaken

------------------------------------------------------------------------------
(* The invariant *)

\* The tables depend on the driver alone.
LEMMA TablesStay ==
    ASSUME driver' = driver
    PROVE  InitCalls' = InitCalls /\ UndoCalls' = UndoCalls
           /\ ExitCalls' = ExitCalls /\ AllTaken' = AllTaken
  BY DEF InitCalls, UndoCalls, ExitCalls, AllTaken

\* Taking and releasing move the place by one call.
LEMMA TakenGrows ==
    ASSUME NEW n \in Nat \ {0}
    PROVE  Taken(n + 1) = Taken(n) \cup {InitCalls[n].res}
  BY DEF Taken

\* A list without repeats loses its first element.
LEMMA FromShrinks ==
    ASSUME NEW s, NEW p \in Nat \ {0}, NEW n \in Nat, p <= n,
           \A i, j \in 1..n : s[i] = s[j] => i = j
    PROVE  {s[i] : i \in p..n} \ {s[p]} = {s[i] : i \in p+1..n}
  <1>1. ASSUME NEW i \in p..n, s[i] # s[p]
        PROVE  s[i] \in {s[k] : k \in p+1..n}
    <2>1. i \in p+1..n
      BY <1>1
    <2>. QED  BY <2>1
  <1>2. ASSUME NEW i \in p+1..n
        PROVE  s[i] \in {s[k] : k \in p..n} /\ s[i] # s[p]
    <2>1. i \in p..n /\ i \in 1..n /\ p \in 1..n /\ i # p
      OBVIOUS
    <2>. QED  BY <2>1
  <1>. QED  BY <1>1, <1>2

\* Initially the driver is out and nothing is taken.
LEMMA LifeInvInit == Init => LifeInv
  <1>. SUFFICES ASSUME Init
                PROVE  LifeInv
    OBVIOUS
  <1>0. timer \in BOOLEAN /\ running \in BOOLEAN /\ cancel \in BOOLEAN /\ ~cancel
    BY DEF Init
  <1>1. LifeTypeOK
    BY <1>0 DEF Init, LifeTypeOK, Resources
  <1>2. HeldInv /\ WorkInv /\ FileInv
    BY DEF Init, HeldInv, WorkInv, FileInv
  <1>. QED  BY <1>1, <1>2 DEF LifeInv

\* Every step of the module, of the work and of the processes keeps the
\* invariant.
LEMMA LifeInvNext ==
    ASSUME LifeInv, [LifeNext]_lifeVars
    PROVE  LifeInv'
  <1>. USE DEF LifeInv
  <1>. DEFINE Tables == /\ InitCalls' = InitCalls /\ UndoCalls' = UndoCalls
                        /\ ExitCalls' = ExitCalls /\ AllTaken' = AllTaken
  <1>0. driver \in Drivers
    BY DEF LifeTypeOK
  <1>1. CASE Insmod
    <2>1. Tables
      BY <1>1, TablesStay DEF Insmod
    <2>2. LifeTypeOK'
      BY <1>0, <1>1, <2>1, TableTypes DEF Insmod, LifeTypeOK, fileVars, workVars
    <2>3. HeldInv'
      BY <1>1 DEF Insmod, HeldInv, Taken
    <2>4. WorkInv' /\ FileInv'
      BY <1>1 DEF Insmod, WorkInv, FileInv, HeldInv, fileVars, workVars
    <2>. QED  BY <2>2, <2>3, <2>4
  <1>2. CASE InitCall
    <2>1. Tables /\ pc \in 1..Len(InitCalls)
      BY <1>2, TablesStay DEF InitCall, LifeTypeOK
    <2>2. InitCalls[pc].res \in Resources
      BY <1>0, <2>1, TableTypes
    <2>3. ~cancel
      BY <1>2 DEF InitCall, WorkInv
    <2>4. LifeTypeOK'
      <3>1. timer' \in BOOLEAN
        BY <1>2, Zenon DEF InitCall
      <3>2. \/ mod' = "live" /\ pc' = 1
            \/ mod' = "init" /\ pc' = pc + 1 /\ pc' <= Len(InitCalls')
        BY <1>0, <1>2, <2>1, TableTypes DEF InitCall
      <3>3. /\ held' \subseteq Resources
            /\ UNCHANGED <<driver, running, cancel, fds, maps>>
        BY <1>2, <2>2 DEF InitCall, LifeTypeOK, fileVars
      <3>. QED
        BY <2>1, <2>3, <3>1, <3>2, <3>3 DEF LifeTypeOK
    <2>5. held' = Taken(pc + 1)
      <3>1. pc \in Nat \ {0}
        BY DEF LifeTypeOK
      <3>. QED  BY <1>2, <3>1, TakenGrows DEF InitCall, HeldInv
    <2>6. HeldInv'
      <3>1. CASE pc = Len(InitCalls)
        <4>1. Taken(pc + 1) = AllTaken
          BY <1>0, <3>1, TableTypes DEF Taken, AllTaken
        <4>. QED  BY <1>2, <2>1, <2>5, <3>1, <4>1 DEF InitCall, HeldInv
      <3>2. CASE pc # Len(InitCalls)
        <4>1. mod' = "init" /\ pc' = pc + 1
          BY <1>2, <3>2 DEF InitCall
        <4>2. held' = {InitCalls'[i].res : i \in 1..pc'-1}
          BY <2>1, <2>5, <4>1 DEF Taken
        <4>. QED  BY <4>1, <4>2 DEF HeldInv, Taken
      <3>. QED  BY <3>1, <3>2
    <2>7. InitCalls[pc].res = "work" => pc = Len(InitCalls)
      BY <1>0, <2>1, WorkIsLast
    <2>8. "work" \in held' => "work" \in held \/ InitCalls[pc].res = "work"
      BY <1>2 DEF InitCall
    <2>9. "work" \notin held
      <3>. SUFFICES ASSUME "work" \in held
                    PROVE  FALSE
        OBVIOUS
      <3>1. PICK i \in 1..pc-1 : InitCalls[i].res = "work"
        BY <1>2 DEF InitCall, HeldInv, Taken
      <3>2. Len(InitCalls) \in Nat /\ pc \in Nat
        BY <1>0, <2>1, TableTypes
      <3>3. i \in 1..Len(InitCalls) /\ i # Len(InitCalls)
        BY <2>1, <3>2
      <3>. QED  BY <1>0, <3>1, <3>3, WorkIsLast
    <2>10. WorkInv'
      BY <1>2, <2>3, <2>7, <2>8, <2>9 DEF InitCall, WorkInv
    <2>11. FileInv'
      BY <1>2 DEF InitCall, FileInv, fileVars
    <2>. QED  BY <2>4, <2>6, <2>10, <2>11
  <1>3. CASE InitFails
    <2>1. Tables /\ pc \in 1..Len(InitCalls)
      BY <1>3, TablesStay DEF InitFails, LifeTypeOK
    <2>2. /\ InitCalls[pc].label > Len(UndoCalls) => held = {}
          /\ InitCalls[pc].label <= Len(UndoCalls) =>
                held = {UndoCalls[i] : i \in InitCalls[pc].label..Len(UndoCalls)}
          /\ "device" \notin held
      BY <1>0, <1>3, <2>1, LabelsUndo DEF InitFails, HeldInv
    <2>3. ~cancel /\ fds = {} /\ maps = {} /\ InitCalls[pc].label \in Int
      BY <1>0, <1>3, <2>1, <2>2, TableTypes DEF InitFails, WorkInv, FileInv
    <2>4. LifeTypeOK'
      BY <1>0, <1>3, <2>1, <2>3, TableTypes
      DEF InitFails, LifeTypeOK, fileVars, workVars
    <2>5. HeldInv'
      BY <1>0, <1>3, <2>1, <2>2, <2>3, TableTypes DEF InitFails, HeldInv, From
    <2>6. WorkInv' /\ FileInv'
      BY <1>3, <2>3 DEF InitFails, WorkInv, FileInv, fileVars, workVars
    <2>. QED  BY <2>4, <2>5, <2>6
  <1>4. CASE InitFailsUnseen
    <2>1. Tables /\ pc \in 1..Len(InitCalls)
      BY <1>4, TablesStay DEF InitFailsUnseen, LifeTypeOK
    <2>2. pc = Len(InitCalls) /\ InitCalls[pc].res = "device" /\ driver # "adv_io"
      BY <1>0, <1>4, <2>1, UnwatchedIsDevice DEF InitFailsUnseen
    <2>3. ~cancel /\ mod' = "live" /\ pc' = 1
      BY <1>4, <2>2 DEF InitFailsUnseen, WorkInv
    <2>4. LifeTypeOK'
      BY <1>4, <2>1, <2>3 DEF InitFailsUnseen, LifeTypeOK, fileVars, workVars
    <2>5. held = AllTaken \ {"device"}
      BY <1>0, <1>4, <2>1, <2>2, NoRepeats
      DEF InitFailsUnseen, HeldInv, Taken, AllTaken
    <2>6. HeldInv'
      BY <1>4, <2>1, <2>2, <2>3, <2>5 DEF InitFailsUnseen, HeldInv
    <2>7. "work" \notin held
      BY <1>0, <2>2, <2>5, WorkNeedsMemory DEF AllTaken
    <2>8. WorkInv' /\ FileInv'
      BY <1>4, <2>3, <2>7
      DEF InitFailsUnseen, WorkInv, FileInv, fileVars, workVars
    <2>. QED  BY <2>4, <2>6, <2>8
  <1>5. CASE UndoCall
    <2>1. Tables /\ pc \in 1..Len(UndoCalls)
      BY <1>5, TablesStay DEF UndoCall, LifeTypeOK
    <2>2. {UndoCalls[i] : i \in pc..Len(UndoCalls)} \ {UndoCalls[pc]}
          = {UndoCalls[i] : i \in pc+1..Len(UndoCalls)}
      BY <1>0, <2>1, NoRepeats, TableTypes, FromShrinks
    <2>3. ~cancel /\ fds = {} /\ maps = {}
      BY <1>5 DEF UndoCall, WorkInv, FileInv
    <2>4. LifeTypeOK'
      BY <1>0, <1>5, <2>1, <2>3, TableTypes
      DEF UndoCall, LifeTypeOK, fileVars, workVars
    <2>5. HeldInv'
      BY <1>0, <1>5, <2>1, <2>2, TableTypes DEF UndoCall, HeldInv, From
    <2>6. "work" \notin held
      BY <1>0, <1>5, <2>1, TableTypes, WorkNeedsMemory DEF UndoCall, HeldInv, From
    <2>7. WorkInv' /\ FileInv'
      BY <1>5, <2>3, <2>6 DEF UndoCall, WorkInv, FileInv, fileVars, workVars
    <2>. QED  BY <2>4, <2>5, <2>7
  <1>6. CASE Rmmod
    <2>1. Tables
      BY <1>6, TablesStay DEF Rmmod
    <2>2. LifeTypeOK'
      BY <1>0, <1>6, <2>1, TableTypes DEF Rmmod, LifeTypeOK, fileVars, workVars
    <2>3. HeldInv'
      BY <1>0, <1>6, <2>1, ExitReleasesAll DEF Rmmod, HeldInv, From
    <2>4. WorkInv' /\ FileInv'
      BY <1>6 DEF Rmmod, Unreferenced, WorkInv, FileInv, fileVars, workVars
    <2>. QED  BY <2>2, <2>3, <2>4
  <1>7. CASE CancelWork
    <2>1. Tables
      BY <1>7, TablesStay DEF CancelWork, moduleVars
    <2>2. LifeTypeOK'
      BY <1>7, <2>1 DEF CancelWork, LifeTypeOK, moduleVars, fileVars
    <2>3. HeldInv'
      BY <1>7, <2>1 DEF CancelWork, HeldInv, From, moduleVars, Taken
    <2>4. WorkInv' /\ FileInv'
      BY <1>7, <2>1 DEF CancelWork, WorkInv, FileInv, moduleVars, fileVars
    <2>. QED  BY <2>2, <2>3, <2>4
  <1>8. CASE ExitCall
    <2>1. Tables /\ pc \in 1..Len(ExitCalls)
      BY <1>8, TablesStay DEF ExitCall, LifeTypeOK
    <2>2. {ExitCalls[i] : i \in pc..Len(ExitCalls)} \ {ExitCalls[pc]}
          = {ExitCalls[i] : i \in pc+1..Len(ExitCalls)}
      BY <1>0, <2>1, NoRepeats, TableTypes, FromShrinks
    <2>3. fds = {} /\ maps = {}
      BY <1>8 DEF ExitCall, FileInv
    <2>4. LifeTypeOK'
      <3>1. \/ mod' = "out" /\ pc' = 1
            \/ mod' = "exit" /\ pc' = pc + 1 /\ pc # Len(ExitCalls)
        BY <1>8 DEF ExitCall
      <3>2. pc' \in Nat \ {0} /\ (mod' = "exit" => pc' <= Len(ExitCalls'))
        BY <1>0, <2>1, <3>1, TableTypes
      <3>3. /\ held' \subseteq Resources /\ ~cancel'
            /\ UNCHANGED <<driver, timer, running, fds, maps>>
        BY <1>8 DEF ExitCall, LifeTypeOK, fileVars
      <3>4. cancel' \in BOOLEAN
        BY <1>8 DEF ExitCall
      <3>. QED
        BY <3>1, <3>2, <3>3, <3>4 DEF LifeTypeOK
    <2>5. HeldInv'
      <3>1. \/ held' = {ExitCalls[i] : i \in pc+1..Len(ExitCalls)}
            \/ /\ driver # "adv_io"
               /\ held' = {ExitCalls[i] : i \in pc+1..Len(ExitCalls)} \ {"device"}
        BY <1>8, <2>2 DEF ExitCall, HeldInv, From
      <3>2. CASE pc = Len(ExitCalls)
        <4>1. {ExitCalls[i] : i \in pc+1..Len(ExitCalls)} = {}
          BY <1>0, <2>1, <3>2, TableTypes
        <4>. QED  BY <1>8, <3>1, <3>2, <4>1 DEF ExitCall, HeldInv
      <3>3. CASE pc # Len(ExitCalls)
        <4>1. mod' = "exit" /\ pc' = pc + 1 /\ driver' = driver
          BY <1>8, <3>3 DEF ExitCall
        <4>. QED  BY <2>1, <3>1, <4>1 DEF HeldInv, From
      <3>. QED  BY <3>2, <3>3
    <2>6. WorkInv'
      <3>1. CASE ExitCalls[pc] = "work"
        BY <1>8, <3>1 DEF ExitCall, Cancelled, WorkInv
      <3>2. CASE ExitCalls[pc] # "work"
        BY <1>8, <3>2 DEF ExitCall, WorkInv
      <3>. QED  BY <3>1, <3>2
    <2>7. FileInv'
      BY <1>8, <2>3 DEF ExitCall, FileInv, fileVars
    <2>. QED  BY <2>4, <2>5, <2>6, <2>7
  <1>9. CASE TimerFires
    <2>1. Tables
      BY <1>9, TablesStay DEF TimerFires, moduleVars
    <2>2. LifeTypeOK'
      BY <1>9, <2>1 DEF TimerFires, LifeTypeOK, moduleVars, fileVars
    <2>3. HeldInv'
      BY <1>9, <2>1 DEF TimerFires, HeldInv, From, Taken, moduleVars
    <2>4. WorkInv' /\ FileInv'
      BY <1>9, <2>1 DEF TimerFires, WorkInv, FileInv, moduleVars, fileVars
    <2>. QED  BY <2>2, <2>3, <2>4
  <1>12. CASE ProducerEnds
    <2>1. Tables
      BY <1>12, TablesStay DEF ProducerEnds, moduleVars
    <2>2. timer' \in BOOLEAN /\ (timer' => ~cancel) /\ (~cancel => timer')
      BY <1>12 DEF ProducerEnds, Rearms
    <2>3. LifeTypeOK'
      BY <1>12, <2>1, <2>2 DEF ProducerEnds, LifeTypeOK, moduleVars, fileVars
    <2>4. HeldInv'
      BY <1>12, <2>1 DEF ProducerEnds, HeldInv, From, Taken, moduleVars
    <2>5. WorkInv' /\ FileInv'
      BY <1>12, <2>1, <2>2
      DEF ProducerEnds, WorkInv, FileInv, moduleVars, fileVars
    <2>. QED  BY <2>3, <2>4, <2>5
  <1>10. ASSUME NEW u \in Users, Process(u)
         PROVE  LifeInv'
    <2>. USE <1>10 DEF Process, Open, Mmap, Munmap, Close, Fork
    <2>1. Tables
      BY TablesStay DEF moduleVars
    <2>2. LifeTypeOK'
      BY <2>1 DEF LifeTypeOK, moduleVars, workVars
    <2>3. HeldInv' /\ WorkInv'
      BY <2>1 DEF HeldInv, WorkInv, From, Taken, moduleVars, workVars
    <2>4. FileInv'
      BY DEF FileInv, Openable, moduleVars
    <2>. QED  BY <2>2, <2>3, <2>4
  <1>11. CASE UNCHANGED lifeVars
    <2>1. Tables
      BY <1>11, TablesStay DEF lifeVars, moduleVars
    <2>. QED
      BY <1>11, <2>1 DEF LifeTypeOK, HeldInv, WorkInv, FileInv, From, Taken,
                         lifeVars, moduleVars, fileVars, workVars
  <1>. QED
    BY <1>1, <1>2, <1>3, <1>4, <1>5, <1>6, <1>7, <1>8, <1>9, <1>10, <1>11,
       <1>12
    DEF LifeNext, Module, Work

\* The inductive invariant of loading and unloading.
THEOREM LifecycleInvariant == LifeSpec => []LifeInv
  <1>1. LifeInv /\ [LifeNext]_lifeVars => LifeInv'
    BY LifeInvNext
  <1>. QED  BY <1>1, LifeInvInit, PTL DEF LifeSpec

------------------------------------------------------------------------------
(* What follows from the invariant *)

\* The strengthened invariant names what is held.
LEMMA InvUndoIsExact == LifeInv => UndoIsExact
  BY DEF LifeInv, HeldInv, UndoIsExact

\* At every place, what is held is closed under the order of init.
LEMMA InvHeldInOrder == LifeInv => HeldInOrder
  <1>. SUFFICES ASSUME LifeInv, NEW i \in DOMAIN InitCalls,
                       NEW j \in DOMAIN InitCalls, i < j,
                       InitCalls[j].res \in held
                PROVE  InitCalls[i].res \in held
    BY DEF HeldInOrder
  <1>0. driver \in Drivers
    BY DEF LifeInv, LifeTypeOK
  <1>1. i \in 1..Len(InitCalls) /\ j \in 1..Len(InitCalls)
    BY <1>0, TableTypes
  <1>2. CASE mod = "init"
    <2>1. held = Taken(pc) /\ pc \in 1..Len(InitCalls)
      BY <1>2 DEF LifeInv, HeldInv, LifeTypeOK
    <2>2. PICK k \in 1..pc-1 : InitCalls[k].res = InitCalls[j].res
      BY <2>1 DEF Taken
    <2>3. Len(InitCalls) \in Nat /\ k \in 1..Len(InitCalls)
      BY <1>0, <2>1, TableTypes
    <2>4. k = j
      BY <1>0, <1>1, <2>2, <2>3, NoRepeats
    <2>5. i \in 1..pc-1
      BY <1>1, <2>1, <2>2, <2>3, <2>4
    <2>. QED  BY <2>1, <2>5 DEF Taken
  <1>3. CASE mod = "undo"
    <2>1. held = {UndoCalls[k] : k \in pc..Len(UndoCalls)} /\ pc \in 1..Len(UndoCalls)
      BY <1>3 DEF LifeInv, HeldInv, From, LifeTypeOK
    <2>. QED  BY <1>0, <1>1, <2>1, UndoInOrder
  <1>4. InitCalls[i].res = "device" => driver = "adv_io"
    <2>. SUFFICES ASSUME InitCalls[i].res = "device", driver # "adv_io"
                  PROVE  FALSE
      OBVIOUS
    <2>1. i = Len(InitCalls) /\ Len(InitCalls) \in Nat
      BY <1>0, <1>1, DeviceNeedsOthers, TableTypes
    <2>. QED  BY <1>1, <2>1
  <1>5. CASE mod = "live"
    <2>1. InitCalls[i].res \in AllTaken
      BY <1>1 DEF AllTaken
    <2>. QED  BY <1>4, <1>5, <2>1 DEF LifeInv, HeldInv
  <1>6. CASE mod = "exit"
    <2>1. pc \in 1..Len(ExitCalls)
      BY <1>6 DEF LifeInv, LifeTypeOK
    <2>2. InitCalls[j].res \in {ExitCalls[k] : k \in pc..Len(ExitCalls)}
      BY <1>6 DEF LifeInv, HeldInv, From
    <2>3. InitCalls[i].res \in {ExitCalls[k] : k \in pc..Len(ExitCalls)}
      BY <1>0, <1>1, <2>1, <2>2, ExitInOrder
    <2>. QED  BY <1>4, <1>6, <2>3 DEF LifeInv, HeldInv, From
  <1>7. CASE mod = "out"
    BY <1>7 DEF LifeInv, HeldInv
  <1>. QED
    BY <1>2, <1>3, <1>5, <1>6, <1>7 DEF LifeInv, LifeTypeOK

\* What is held was taken by a call of init.
LEMMA InvHeldIsTaken ==
    ASSUME LifeInv, NEW r \in held
    PROVE  \E i \in 1..Len(InitCalls) : InitCalls[i].res = r
  <1>0. driver \in Drivers
    BY DEF LifeInv, LifeTypeOK
  <1>1. CASE mod = "undo"
    <2>1. PICK k \in 1..Len(UndoCalls) : r = UndoCalls[k]
      BY <1>1 DEF LifeInv, HeldInv, From, LifeTypeOK
    <2>. QED  BY <1>0, <2>1, UndoIsTaken
  <1>2. CASE mod = "exit"
    <2>1. PICK k \in pc..Len(ExitCalls) : r = ExitCalls[k]
      BY <1>2 DEF LifeInv, HeldInv, From
    <2>2. k \in 1..Len(ExitCalls)
      BY <1>2, <2>1 DEF LifeInv, LifeTypeOK
    <2>3. r \in AllTaken
      BY <1>0, <2>1, <2>2, ExitReleasesAll
    <2>. QED  BY <2>3 DEF AllTaken
  <1>3. CASE mod = "init"
    <2>1. PICK k \in 1..pc-1 : r = InitCalls[k].res
      BY <1>3 DEF LifeInv, HeldInv, Taken
    <2>2. pc \in Nat /\ pc <= Len(InitCalls) /\ Len(InitCalls) \in Nat
      BY <1>0, <1>3, TableTypes DEF LifeInv, LifeTypeOK
    <2>. QED  BY <2>1, <2>2
  <1>4. CASE mod = "live"
    BY <1>4 DEF LifeInv, HeldInv, AllTaken
  <1>5. CASE mod = "out"
    BY <1>5 DEF LifeInv, HeldInv
  <1>. QED
    BY <1>1, <1>2, <1>3, <1>4, <1>5 DEF LifeInv, LifeTypeOK

\* The work has its memory, a mapping its page, an open file its driver.
LEMMA InvNoUseAfterFree == LifeInv => NoUseAfterFree
  <1>. SUFFICES ASSUME LifeInv
                PROVE  NoUseAfterFree
    OBVIOUS
  <1>0. driver \in Drivers /\ HeldInOrder
    BY InvHeldInOrder DEF LifeInv, LifeTypeOK
  <1>d. DOMAIN InitCalls = 1..Len(InitCalls) /\ Len(InitCalls) \in Nat \ {0}
    BY <1>0, TableTypes
  <1>1. ASSUME "work" \in held
        PROVE  "mem" \in held
    <2>1. PICK i \in 1..Len(InitCalls) : InitCalls[i].res = "work"
      BY <1>1, InvHeldIsTaken
    <2>2. i > 1 /\ InitCalls[1].res = "mem"
      BY <1>0, <2>1, WorkNeedsMemory
    <2>. QED  BY <1>0, <1>d, <1>1, <2>1, <2>2 DEF HeldInOrder
  <1>2. ASSUME "device" \in held
        PROVE  "cdev" \in held /\ (driver = "mmap" => "page" \in held)
    <2>1. PICK i \in 1..Len(InitCalls) : InitCalls[i].res = "device"
      BY <1>2, InvHeldIsTaken
    <2>2. PICK j \in 1..i-1 : InitCalls[j].res = "cdev"
      BY <1>0, <2>1, DeviceNeedsOthers
    <2>3. "cdev" \in held
      BY <1>0, <1>d, <1>2, <2>1, <2>2 DEF HeldInOrder
    <2>4. ASSUME driver = "mmap"
          PROVE  "page" \in held
      <3>1. i > 1 /\ InitCalls[1].res = "page"
        BY <1>0, <2>1, <2>4, DeviceNeedsOthers
      <3>. QED  BY <1>0, <1>d, <1>2, <2>1, <3>1 DEF HeldInOrder
    <2>. QED  BY <2>3, <2>4
  <1>. QED
    BY <1>1, <1>2 DEF LifeInv, WorkInv, FileInv, NoUseAfterFree

\* A live module has made everything but perhaps the node; adv_io's is made.
LEMMA InvLoadedIsComplete == LifeInv => LoadedIsComplete
  <1>. SUFFICES ASSUME LifeInv, mod = "live"
                PROVE  /\ {InitCalls[i].res : i \in DOMAIN InitCalls} \ held
                             \subseteq {"device"}
                       /\ driver = "adv_io" => "device" \in held /\ (timer \/ running)
    BY DEF LoadedIsComplete
  <1>0. driver \in Drivers
    BY DEF LifeInv, LifeTypeOK
  <1>1. {InitCalls[i].res : i \in DOMAIN InitCalls} = AllTaken
    BY <1>0, TableTypes DEF AllTaken
  <1>2. driver = "adv_io" => "work" \in AllTaken /\ "device" \in AllTaken
    BY <1>0, WorkNeedsMemory, AdvIoMakesDevice
  <1>. QED  BY <1>1, <1>2 DEF LifeInv, HeldInv, WorkInv

\* What a failing init, or an exit, still has to release is exactly what is held.
THEOREM UndoExact == LifeSpec => []UndoIsExact
  BY LifecycleInvariant, InvUndoIsExact, PTL

\* Resources are held in the order of init.
THEOREM ReleasedInReverse == LifeSpec => []HeldInOrder
  BY LifecycleInvariant, InvHeldInOrder, PTL

\* The producer never runs on freed memory, nor does a mapping outlive its page,
\* whatever processes open, map, fork and close.
THEOREM MemorySafe == LifeSpec => []NoUseAfterFree
  BY LifecycleInvariant, InvNoUseAfterFree, PTL

\* An adv_io that loads has its node and its producer.
THEOREM LoadedComplete == LifeSpec => []LoadedIsComplete
  BY LifecycleInvariant, InvLoadedIsComplete, PTL

\* Once it is cancelled the producer is not started again: what exit waits for
\* is over when the run that had begun is.
THEOREM WorkStaysStopped == LifeSpec => WorkNotRestarted
  <1>1. LifeInv /\ [LifeNext]_lifeVars
        => [cancel /\ cancel' /\ ~running => ~running']_lifeVars
    <2>. SUFFICES ASSUME LifeInv, LifeNext, cancel, ~running
                  PROVE  ~running'
      OBVIOUS
    <2>1. ~timer
      BY DEF LifeInv, LifeTypeOK
    <2>. QED
      BY <2>1 DEF LifeNext, Module, Insmod, InitCall, InitFails,
         InitFailsUnseen, UndoCall, Rmmod, CancelWork, ExitCall, Work,
         TimerFires, ProducerEnds, Process, Open, Mmap, Munmap, Close, Fork,
         workVars
  <1>. QED
    BY <1>1, LifecycleInvariant, PTL DEF LifeSpec, WorkNotRestarted
===============================================================================
