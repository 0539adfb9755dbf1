----------------------------- MODULE MmapIpcProofs -----------------------------
(***************************************************************************)
(* Proofs about MmapIpc, for any number of rounds, any periods and any     *)
(* scheduling delay: the application is one of the users DriverLifecycle   *)
(* allows, so that nothing proved there is lost; the mutex keeps the       *)
(* rounds whole; a nap longer than any delay lets the parent write first;  *)
(* the page stays while it is used, nobody waits in vain, and there is an  *)
(* end to the application's steps.                                         *)
(***************************************************************************)
EXTENDS MmapIpc, DriverLifecycleProofs

\* The mutex is held between lock and unlock, by one process at a time.
OwnerInv ==
    /\ lock = "parent" <=> pp \in {"seq", "msg", "unlock"}
    /\ lock = "child" <=> cp \in {"seq", "msg", "unlock"}
    /\ lock \in {"free", "parent", "child"}

\* The page is whole but for the time between the two writes of the parent.
PageInv ==
    /\ pp # "msg" => seq = msg
    /\ pp = "msg" => seq = round
    /\ pp = "unlock" => seq = round
    /\ pp = "dump" => seq = Rounds

\* What the child has read so far is what the page still holds.
ChildInv ==
    /\ pp \in {"off", "opened", "init", "fork", "munmap", "close"} => cp = "none"
    /\ saw \in [seq : Int, msg : Int]
    /\ cp = "msg" => saw.seq = seq
    /\ cp = "unlock" => saw.seq = saw.msg

AppInv == /\ round \in Int /\ seq \in Int /\ msg \in Int
          /\ OwnerInv /\ PageInv /\ ChildInv /\ DumpSeesLastRound

------------------------------------------------------------------------------

\* Every step of the application is a step the drivers' environment may take.
LEMMA AppStepIsLifeStep ==
    ASSUME [Next]_vars
    PROVE  [LifeNext]_lifeVars
  <1>. "parent" \in Users /\ "child" \in Users
    BY MmapAssumption
  <1>1. CASE ModuleOrWork
    BY <1>1 DEF ModuleOrWork, LifeNext
  <1>2. CASE OtherProcess
    BY <1>2 DEF OtherProcess, LifeNext
  <1>3. CASE Run
    BY <1>3 DEF Run, LifeNext, Process
  <1>4. CASE Parent
    BY <1>4 DEF Parent, MapPage, InitShared, ForkChild, ParentLocks,
         ParentWritesSeq, ParentWritesMsg, ParentUnlocks, Dump, Reap,
         ParentUnmaps, ParentCloses, LifeNext, Process
  <1>5. CASE Child
    BY <1>5 DEF Child, ChildLocks, ChildReadsSeq, ChildReadsMsg, ChildUnlocks,
         ChildUnmaps, ChildCloses, LifeNext, Process
  <1>6. CASE Tick
    BY <1>6 DEF Tick
  <1>7. CASE UNCHANGED vars
    BY <1>7 DEF vars
  <1>. QED  BY <1>1, <1>2, <1>3, <1>4, <1>5, <1>6, <1>7 DEF Next

\* The application and the module loader together are a behaviour of
\* DriverLifecycle.
THEOREM AppRefinesLifecycle == IpcSpec => LifeSpec
  <1>1. [Next]_vars => [LifeNext]_lifeVars
    BY AppStepIsLifeStep
  <1>2. AppInit => Init
    BY DEF AppInit
  <1>. QED  BY <1>1, <1>2, PTL DEF IpcSpec, LifeSpec

\* Neither process of the application reaches a page that was freed.
THEOREM AppMemorySafe == IpcSpec => []NoUseAfterFree
  BY AppRefinesLifecycle, MemorySafe, PTL

------------------------------------------------------------------------------

\* The initial state.
LEMMA AppInvInit == AppInit => AppInv
  BY DEF AppInit, AppInv, OwnerInv, PageInv, ChildInv, DumpSeesLastRound, View

\* The parent's steps.
LEMMA AppInvParent ==
    ASSUME AppInv, Parent
    PROVE  AppInv'
  <1>. USE DEF AppInv, OwnerInv, PageInv, ChildInv, DumpSeesLastRound, View,
               pageVars, lifeVars
  <1>1. CASE MapPage
    BY <1>1 DEF MapPage
  <1>2. CASE InitShared
    <2>1. /\ pp' = "fork" /\ cp' = "none" /\ lock' = "free"
          /\ seq' = 0 /\ msg' = 0 /\ round' = round
      BY <1>2 DEF InitShared
    <2>2. saw' \in [seq : Int, msg : Int]
      BY <1>2 DEF InitShared
    <2>. QED  BY <2>1, <2>2
  <1>3. CASE ForkChild
    BY <1>3 DEF ForkChild
  <1>4. CASE ParentLocks
    BY <1>4 DEF ParentLocks, Acquire
  <1>5. CASE ParentWritesSeq
    BY <1>5 DEF ParentWritesSeq
  <1>6. CASE ParentWritesMsg
    BY <1>6 DEF ParentWritesMsg
  <1>7. CASE ParentUnlocks
    BY <1>7 DEF ParentUnlocks, ReleaseLock, LastRound
  <1>8. CASE Dump
    BY <1>8 DEF Dump
  <1>9. CASE Reap
    BY <1>9 DEF Reap
  <1>10. CASE ParentUnmaps \/ ParentCloses
    BY <1>10 DEF ParentUnmaps, ParentCloses
  <1>. QED
    BY <1>1, <1>2, <1>3, <1>4, <1>5, <1>6, <1>7, <1>8, <1>9, <1>10 DEF Parent

\* The child's steps.
LEMMA AppInvChild ==
    ASSUME AppInv, Child
    PROVE  AppInv'
  <1>. USE DEF AppInv, OwnerInv, PageInv, ChildInv, DumpSeesLastRound, View,
               pageVars, lifeVars
  <1>1. CASE ChildLocks
    BY <1>1 DEF ChildLocks, Acquire
  <1>2. CASE ChildReadsSeq
    BY <1>2 DEF ChildReadsSeq
  <1>3. CASE ChildReadsMsg
    BY <1>3 DEF ChildReadsMsg
  <1>4. CASE ChildUnlocks
    BY <1>4 DEF ChildUnlocks, ReleaseLock
  <1>5. CASE ChildUnmaps \/ ChildCloses
    BY <1>5 DEF ChildUnmaps, ChildCloses
  <1>. QED
    BY <1>1, <1>2, <1>3, <1>4, <1>5 DEF Child

\* Every other step leaves the page, the mutex and the places alone.
LEMMA AppInvNext ==
    ASSUME AppInv, [Next]_vars
    PROVE  AppInv'
  <1>. USE DEF AppInv, OwnerInv, PageInv, ChildInv, DumpSeesLastRound, View,
               pageVars
  <1>1. CASE ModuleOrWork \/ OtherProcess \/ UNCHANGED vars
    BY <1>1 DEF ModuleOrWork, OtherProcess, appVars, vars
  <1>2. CASE Run
    BY <1>2 DEF Run
  <1>3. CASE Tick
    BY <1>3 DEF Tick
  <1>. QED
    BY <1>1, <1>2, <1>3, AppInvParent, AppInvChild DEF Next

\* The inductive invariant of the mutex and the page.
THEOREM AppInvariant == IpcSpec => []AppInv
  <1>1. AppInv /\ [Next]_vars => AppInv'
    BY AppInvNext
  <1>. QED  BY <1>1, AppInvInit, PTL DEF IpcSpec

\* With the mutex, no round is read half-written, whatever the periods are.
THEOREM RoundsAreWhole == IpcSpec => []RoundNotTorn
  <1>1. AppInv => RoundNotTorn
    BY DEF AppInv, ChildInv, RoundNotTorn
  <1>. QED  BY <1>1, AppInvariant, PTL

\* The ioctl, without the mutex, reads the last round.
THEOREM DumpIsLastRound == IpcSpec => []DumpSeesLastRound
  <1>1. AppInv => DumpSeesLastRound
    BY DEF AppInv
  <1>. QED  BY <1>1, AppInvariant, PTL

\* A child that still reads has turns left.
AppTypeInv ==
    AppTypeOK /\ (cp \in {"lock", "seq", "msg", "unlock"} => reads < Rounds)

LEMMA AppTypeInit ==
    ASSUME AppInit, LifeTypeOK
    PROVE  AppTypeInv
  <1>. Rounds \in Nat \ {0}
    BY MmapAssumption
  <1>. QED  BY DEF AppInit, AppTypeInv, AppTypeOK, View, pageVars

LEMMA AppTypeParent ==
    ASSUME AppTypeInv, Parent, LifeTypeOK'
    PROVE  AppTypeInv'
  <1>. USE MmapAssumption DEF AppTypeInv, AppTypeOK, View, pageVars
  <1>1. CASE MapPage
    BY <1>1 DEF MapPage
  <1>2. CASE InitShared
    BY <1>2 DEF InitShared
  <1>3. CASE ForkChild
    <2>1. CASE pp' = "lock"
      <3>1. /\ pp' = "lock" /\ cp' = "lock" /\ round' = 1 /\ reads' = 0
            /\ left' = [u \in Users |-> IF u = "child" THEN FirstNap ELSE 0]
        BY <1>3, <2>1 DEF ForkChild
      <3>2. left' \in [Users -> Int]
        BY <3>1 DEF FirstNap
      <3>. QED  BY <1>3, <3>1, <3>2 DEF ForkChild
    <2>2. CASE pp' # "lock"
      BY <1>3, <2>2 DEF ForkChild
    <2>. QED  BY <2>1, <2>2
  <1>4. CASE ParentLocks
    BY <1>4 DEF ParentLocks, Acquire
  <1>5. CASE ParentWritesSeq \/ ParentWritesMsg
    BY <1>5 DEF ParentWritesSeq, ParentWritesMsg
  <1>6. CASE ParentUnlocks
    BY <1>6 DEF ParentUnlocks, ReleaseLock, LastRound
  <1>7. CASE Dump
    BY <1>7 DEF Dump
  <1>8. CASE Reap \/ ParentUnmaps \/ ParentCloses
    BY <1>8 DEF Reap, ParentUnmaps, ParentCloses
  <1>. QED
    BY <1>1, <1>2, <1>3, <1>4, <1>5, <1>6, <1>7, <1>8 DEF Parent

LEMMA AppTypeChild ==
    ASSUME AppTypeInv, Child, LifeTypeOK'
    PROVE  AppTypeInv'
  <1>. USE MmapAssumption DEF AppTypeInv, AppTypeOK, View, pageVars
  <1>1. CASE ChildLocks
    BY <1>1 DEF ChildLocks, Acquire
  <1>2. CASE ChildReadsSeq \/ ChildReadsMsg
    BY <1>2 DEF ChildReadsSeq, ChildReadsMsg
  <1>3. CASE ChildUnlocks
    <2>. /\ cp = "unlock" /\ lock' = "free" /\ reads' = reads + 1
         /\ UNCHANGED <<pp, round, seq, msg, saw, dump>>
      BY <1>3 DEF ChildUnlocks, ReleaseLock, Counted
    <2>1. CASE reads + 1 = Rounds
      <3>. cp' = "munmap" /\ left' = left
        BY <1>3, <2>1 DEF ChildUnlocks, Counted
      <3>. QED  BY <2>1
    <2>2. CASE reads + 1 # Rounds
      <3>. cp' = "lock" /\ left' = [left EXCEPT !["child"] = ReadEvery]
        BY <1>3, <2>2 DEF ChildUnlocks, Counted
      <3>. QED  BY <2>2
    <2>. QED  BY <2>1, <2>2
  <1>4. CASE ChildUnmaps \/ ChildCloses
    BY <1>4 DEF ChildUnmaps, ChildCloses
  <1>. QED  BY <1>1, <1>2, <1>3, <1>4 DEF Child

LEMMA AppTypeNext ==
    ASSUME AppTypeInv, [Next]_vars, LifeTypeOK'
    PROVE  AppTypeInv'
  <1>. USE DEF AppTypeInv, AppTypeOK, pageVars
  <1>1. CASE ModuleOrWork \/ OtherProcess \/ UNCHANGED vars
    BY <1>1 DEF ModuleOrWork, OtherProcess, appVars, vars
  <1>2. CASE Run
    BY <1>2 DEF Run
  <1>3. CASE Tick
    BY <1>3, MmapAssumption DEF Tick
  <1>. QED
    BY <1>1, <1>2, <1>3, AppTypeParent, AppTypeChild DEF Next

LEMMA AppTypeInvHolds == IpcSpec => []AppTypeInv
  <1>1. LifeInv => LifeTypeOK
    BY DEF LifeInv
  <1>2. AppInit /\ LifeTypeOK => AppTypeInv
    BY AppTypeInit
  <1>3. AppTypeInv /\ [Next]_vars /\ LifeTypeOK' => AppTypeInv'
    BY AppTypeNext
  <1>. QED
    BY <1>1, <1>2, <1>3, AppRefinesLifecycle, LifecycleInvariant, PTL DEF IpcSpec

\* The drivers and the application keep their types; the rounds written and
\* read stay within Rounds.
THEOREM AppTypes == IpcSpec => []AppTypeOK
  <1>1. AppTypeInv => AppTypeOK
    BY DEF AppTypeInv
  <1>. QED  BY <1>1, AppTypeInvHolds, PTL

------------------------------------------------------------------------------
(* "let parent write first" *)

\* Until the parent has written its first round it does not sleep, and both
\* clocks run together, so that the child has the head start of its first nap
\* still before it.
FirstInv ==
    /\ pp \in {"lock", "seq"} /\ round = 1 =>
          /\ cp = "lock" /\ left["child"] = ReadEvery + left["parent"]
          /\ left["parent"] >= -MaxLag
    /\ pp \in {"lock", "seq"} /\ round > 1 => seq >= 1
    /\ pp \in {"msg", "unlock", "dump", "wait"} => seq >= 1
    /\ cp \in {"seq", "msg", "unlock"} => seq >= 1
    /\ cp \in {"msg", "unlock"} => saw.seq >= 1

LEMMA FirstStep ==
    ASSUME ReadEvery > MaxLag, FirstInv, AppInv, AppTypeOK, AppTypeOK', [Next]_vars
    PROVE  FirstInv'
  <1>. USE MmapAssumption DEF FirstInv, pageVars
  <1>0. /\ left \in [Users -> Int] /\ "parent" \in Users /\ "child" \in Users
        /\ round \in 1..Rounds /\ seq \in 0..Rounds
        /\ saw \in [seq : 0..Rounds, msg : 0..Rounds]
    BY DEF AppTypeOK
  <1>1. pp \in {"off", "opened", "init", "fork", "munmap", "close"} => cp = "none"
    BY DEF AppInv, ChildInv
  <1>2. CASE Parent
    <2>1. CASE MapPage \/ InitShared
      BY <1>1, <2>1 DEF MapPage, InitShared
    <2>2. CASE ForkChild
      <3>1. CASE pp' = "lock"
        <4>1. /\ cp' = "lock" /\ round' = 1 /\ seq' = seq
              /\ left' = [u \in Users |-> IF u = "child" THEN FirstNap ELSE 0]
          BY <2>2, <3>1 DEF ForkChild
        <4>2. left'["child"] = ReadEvery /\ left'["parent"] = 0
          BY <1>0, <4>1 DEF FirstNap
        <4>. QED  BY <3>1, <4>1, <4>2
      <3>2. CASE pp' # "lock"
        BY <1>1, <2>2, <3>2 DEF ForkChild
      <3>. QED  BY <3>1, <3>2
    <2>3. CASE ParentLocks
      BY <2>3 DEF ParentLocks
    <2>4. CASE ParentWritesSeq
      BY <1>0, <2>4 DEF ParentWritesSeq
    <2>5. CASE ParentWritesMsg
      BY <2>5 DEF ParentWritesMsg
    <2>6. CASE ParentUnlocks
      BY <1>0, <2>6 DEF ParentUnlocks, LastRound
    <2>7. CASE Dump
      BY <2>7 DEF Dump
    <2>8. CASE Reap \/ ParentUnmaps \/ ParentCloses
      BY <1>1, <2>8 DEF Reap, ParentUnmaps, ParentCloses
    <2>. QED
      BY <1>2, <2>1, <2>2, <2>3, <2>4, <2>5, <2>6, <2>7, <2>8 DEF Parent
  <1>3. CASE Child
    <2>1. CASE ChildLocks
      <3>1. cp = "lock" /\ left["child"] <= 0 /\ cp' = "seq"
            /\ UNCHANGED <<pp, left, round, seq, saw>>
        BY <2>1 DEF ChildLocks, Awake
      <3>2. left["child"] \in Int /\ left["parent"] \in Int
        BY <1>0
      <3>3. ~(pp \in {"lock", "seq"} /\ round = 1)
        BY <3>1, <3>2
      <3>4. pp \in {"lock", "seq", "msg", "unlock", "dump", "wait"}
        BY <1>1, <3>1 DEF AppTypeOK
      <3>5. seq >= 1
        BY <1>0, <3>3, <3>4
      <3>. QED  BY <3>1, <3>3, <3>5
    <2>2. CASE ChildReadsSeq
      <3>1. cp = "seq" /\ cp' = "msg" /\ saw'.seq = seq /\ UNCHANGED <<pp, left, round, seq>>
        BY <1>0, <2>2 DEF ChildReadsSeq
      <3>. QED  BY <3>1
    <2>3. CASE ChildReadsMsg
      <3>1. cp = "msg" /\ cp' = "unlock" /\ saw'.seq = saw.seq
            /\ UNCHANGED <<pp, left, round, seq>>
        BY <1>0, <2>3 DEF ChildReadsMsg
      <3>. QED  BY <3>1
    <2>4. CASE ChildUnlocks \/ ChildUnmaps \/ ChildCloses
      <3>1. cp \in {"unlock", "munmap", "close"} /\ cp' \in {"lock", "munmap", "close", "zombie"}
            /\ UNCHANGED <<pp, round, seq, saw>>
        BY <2>4 DEF ChildUnlocks, ChildUnmaps, ChildCloses
      <3>. QED  BY <3>1
    <2>. QED  BY <1>3, <2>1, <2>2, <2>3, <2>4 DEF Child
  <1>4. CASE Tick
    <2>1. UNCHANGED <<pp, cp, round, seq, saw>>
      BY <1>4 DEF Tick
    <2>2. ASSUME pp \in {"lock", "seq"}, round = 1
          PROVE  /\ left'["child"] = ReadEvery + left'["parent"]
                 /\ left'["parent"] >= -MaxLag
      <3>1. "parent" \in Timed /\ "child" \in Timed
        BY <2>2 DEF Timed
      <3>2. /\ left'["child"] = left["child"] - 1 /\ left'["parent"] = left["parent"] - 1
            /\ left["parent"] > -MaxLag
        BY <1>0, <1>4, <3>1 DEF Tick
      <3>3. left["child"] \in Int /\ left["parent"] \in Int
        BY <1>0
      <3>. QED  BY <2>2, <3>2, <3>3
    <2>. QED  BY <2>1, <2>2
  <1>5. CASE Run
    BY <1>1, <1>5 DEF Run
  <1>6. CASE ModuleOrWork \/ OtherProcess \/ UNCHANGED vars
    BY <1>6 DEF ModuleOrWork, OtherProcess, appVars, vars
  <1>. QED  BY <1>2, <1>3, <1>4, <1>5, <1>6 DEF Next

\* The child's nap is enough when it is longer than a process may be late: for
\* any number of rounds the child never reads the page as it was before the
\* first.
THEOREM ParentWritesFirst ==
    ASSUME ReadEvery > MaxLag
    PROVE  IpcSpec => []FirstReadSeesARound
  <1>1. AppInit => FirstInv
    BY DEF AppInit, FirstInv
  <1>2. FirstInv /\ AppInv /\ AppTypeOK /\ AppTypeOK' /\ [Next]_vars => FirstInv'
    BY FirstStep
  <1>3. FirstInv => FirstReadSeesARound
    BY DEF FirstInv, FirstReadSeesARound
  <1>. QED  BY <1>1, <1>2, <1>3, AppInvariant, AppTypes, PTL DEF IpcSpec

------------------------------------------------------------------------------
(* The application's files and mappings *)

\* A program of mmap_drv has the file open from open to close, and the page
\* mapped from mmap to munmap; so has its child, from the fork on.
PlacesInv ==
    /\ pp # "off" => driver = "mmap"
    /\ driver = "mmap" =>
          /\ "parent" \in fds  <=> pp # "off"
          /\ "parent" \in maps <=> pp \in UsesPage \cup {"dump", "wait"}
          /\ "child" \in fds   <=> cp \in UsesPage \cup {"close"}
          /\ "child" \in maps  <=> cp \in UsesPage

\* The driver a behaviour is about stays the same.
LEMMA DriverStays == [Next]_vars => driver' = driver
  <1>1. [LifeNext]_lifeVars => driver' = driver
    BY DEF LifeNext, Module, Insmod, InitCall, InitFails, InitFailsUnseen,
           UndoCall, Rmmod, CancelWork, ExitCall, Work, TimerFires,
           ProducerEnds, Process, Open, Mmap, Munmap, Close, Fork, lifeVars,
           moduleVars
  <1>. QED  BY <1>1, AppStepIsLifeStep

\* The parent opens, maps, forks, unmaps and closes.
LEMMA PlacesParent ==
    ASSUME PlacesInv, AppInv, Run \/ Parent
    PROVE  PlacesInv'
  <1>. USE DEF PlacesInv, UsesPage, fileVars
  <1>0. driver' = driver
    BY DriverStays DEF Next
  <1>1. CASE Run
    <2>1. /\ pp = "off" /\ pp' = "opened" /\ cp' = cp /\ driver = "mmap"
          /\ fds' = fds \cup {"parent"} /\ maps' = maps
      BY <1>1 DEF Run, Open
    <2>. QED  BY <1>0, <2>1
  <1>2. CASE MapPage
    <2>1. /\ pp = "opened" /\ cp' = cp /\ fds' = fds
          /\ \/ pp' = "init" /\ maps' = maps \cup {"parent"}
             \/ pp' = "close" /\ maps' = maps
      BY <1>2 DEF MapPage, Mmap, lifeVars
    <2>. QED  BY <1>0, <2>1
  <1>3. CASE ForkChild
    <2>1. /\ pp = "fork" /\ cp = "none"
          /\ \/ /\ pp' = "lock" /\ cp' = "lock" /\ fds' = fds \cup {"child"}
                /\ maps' = IF "parent" \in maps THEN maps \cup {"child"} ELSE maps
             \/ pp' = "munmap" /\ UNCHANGED <<cp, fds, maps>>
      BY <1>3 DEF ForkChild, Fork, lifeVars, AppInv, ChildInv
    <2>. QED  BY <1>0, <2>1
  <1>4. CASE ParentUnmaps
    <2>1. /\ pp = "munmap" /\ pp' = "close" /\ cp' = cp
          /\ fds' = fds /\ maps' = maps \ {"parent"}
      BY <1>4 DEF ParentUnmaps, Munmap
    <2>. QED  BY <1>0, <2>1
  <1>5. CASE ParentCloses
    <2>1. /\ pp = "close" /\ pp' = "off" /\ cp' = cp
          /\ fds' = fds \ {"parent"} /\ maps' = maps
      BY <1>5 DEF ParentCloses, Close
    <2>. QED  BY <1>0, <2>1
  <1>6. CASE Reap
    <2>1. /\ pp = "wait" /\ pp' = "munmap" /\ cp = "zombie" /\ cp' = "none"
          /\ fds' = fds /\ maps' = maps
      BY <1>6 DEF Reap, lifeVars
    <2>. QED  BY <1>0, <2>1
  <1>7. CASE InitShared \/ ParentLocks \/ ParentWritesSeq \/ ParentWritesMsg
             \/ ParentUnlocks \/ Dump
    <2>1. /\ {pp, pp'} \subseteq {"init", "fork", "lock", "seq", "msg", "unlock",
                                  "dump", "wait"}
          /\ cp' = cp /\ fds' = fds /\ maps' = maps
      BY <1>7 DEF InitShared, ParentLocks, ParentWritesSeq, ParentWritesMsg,
                  ParentUnlocks, Dump, lifeVars
    <2>. QED  BY <1>0, <2>1
  <1>. QED
    BY <1>1, <1>2, <1>3, <1>4, <1>5, <1>6, <1>7 DEF Parent

LEMMA PlacesNext ==
    ASSUME PlacesInv, AppInv, [Next]_vars
    PROVE  PlacesInv'
  <1>. USE DEF PlacesInv, UsesPage, fileVars
  <1>0. driver' = driver
    BY DriverStays
  <1>1. CASE Child
    <2>1. CASE ChildLocks \/ ChildReadsSeq \/ ChildReadsMsg \/ ChildUnlocks
      <3>1. /\ {cp, cp'} \subseteq {"lock", "seq", "msg", "unlock", "munmap"}
            /\ pp' = pp /\ fds' = fds /\ maps' = maps
        BY <2>1 DEF ChildLocks, ChildReadsSeq, ChildReadsMsg, ChildUnlocks,
                    lifeVars
      <3>. QED  BY <1>0, <3>1
    <2>2. CASE ChildUnmaps
      <3>1. /\ cp = "munmap" /\ cp' = "close" /\ pp' = pp
            /\ fds' = fds /\ maps' = maps \ {"child"}
        BY <2>2 DEF ChildUnmaps, Munmap
      <3>. QED  BY <1>0, <3>1
    <2>3. CASE ChildCloses
      <3>1. /\ cp = "close" /\ cp' = "zombie" /\ pp' = pp
            /\ fds' = fds \ {"child"} /\ maps' = maps
        BY <2>3 DEF ChildCloses, Close
      <3>. QED  BY <1>0, <3>1
    <2>. QED  BY <1>1, <2>1, <2>2, <2>3 DEF Child
  <1>2. CASE ModuleOrWork
    <2>1. UNCHANGED <<pp, cp, fds, maps>>
      BY <1>2 DEF ModuleOrWork, appVars, Module, Insmod, InitCall, InitFails,
                  InitFailsUnseen, UndoCall, Rmmod, CancelWork, ExitCall, Work,
                  TimerFires, ProducerEnds
    <2>. QED  BY <1>0, <2>1
  <1>3. CASE OtherProcess
    BY <1>0, <1>3 DEF OtherProcess, appVars
  <1>4. CASE Tick \/ UNCHANGED vars
    BY <1>4 DEF Tick, vars, appVars, lifeVars, moduleVars
  <1>. QED  BY <1>1, <1>2, <1>3, <1>4, PlacesParent DEF Next

THEOREM PlacesInvariant == IpcSpec => []PlacesInv
  <1>1. AppInit => PlacesInv
    BY DEF AppInit, Init, PlacesInv, UsesPage
  <1>2. PlacesInv /\ AppInv /\ [Next]_vars => PlacesInv'
    BY PlacesNext
  <1>. QED  BY <1>1, <1>2, AppInvariant, PTL DEF IpcSpec

\* The page is mapped and there wherever the application may touch it.
THEOREM PageIsThere == IpcSpec => []PageStays
  <1>1. PlacesInv /\ AppInv /\ NoUseAfterFree => PageStays
    <2>. SUFFICES ASSUME PlacesInv, AppInv, NoUseAfterFree
                  PROVE  PageStays
      OBVIOUS
    <2>1. maps # {} => "page" \in held
      BY DEF NoUseAfterFree
    <2>2. pp \in UsesPage \cup {"dump", "wait"} => "parent" \in maps
      BY DEF PlacesInv, UsesPage
    <2>3. cp \in UsesPage => pp # "off"
      BY DEF AppInv, ChildInv, UsesPage
    <2>4. cp \in UsesPage => "child" \in maps
      BY <2>3 DEF PlacesInv
    <2>. QED  BY <2>1, <2>2, <2>4 DEF PageStays
  <1>. QED  BY <1>1, PlacesInvariant, AppInvariant, AppMemorySafe, PTL

------------------------------------------------------------------------------
(* The end of the application *)

\* From the fork to waitpid there is a child.
ForkedInv == pp \in {"lock", "seq", "msg", "unlock", "dump", "wait"} => cp # "none"

\* The mutex is always about to be released, and a child is waited for.
THEOREM NobodyWaits == IpcSpec => []NobodyWaitsInVain
  <1>1. AppInit => ForkedInv
    BY DEF AppInit, ForkedInv
  <1>2. ForkedInv /\ [Next]_vars => ForkedInv'
    <2>. SUFFICES ASSUME ForkedInv, [Next]_vars
                  PROVE  ForkedInv'
      OBVIOUS
    <2>1. CASE Parent
      BY <2>1 DEF Parent, ForkedInv, MapPage, InitShared, ForkChild, ParentLocks,
         ParentWritesSeq, ParentWritesMsg, ParentUnlocks, Dump, Reap,
         ParentUnmaps, ParentCloses
    <2>2. CASE Child
      BY <2>2 DEF Child, ForkedInv, ChildLocks, ChildReadsSeq, ChildReadsMsg,
         ChildUnlocks, ChildUnmaps, ChildCloses
    <2>3. CASE Run \/ Tick \/ ModuleOrWork \/ OtherProcess \/ UNCHANGED vars
      BY <2>3 DEF ForkedInv, Run, Tick, ModuleOrWork, OtherProcess, appVars, vars
    <2>. QED  BY <2>1, <2>2, <2>3 DEF Next
  <1>3. AppInv /\ AppTypeOK /\ ForkedInv => NobodyWaitsInVain
    BY DEF AppInv, OwnerInv, ChildInv, AppTypeOK, ForkedInv, NobodyWaitsInVain
  <1>. QED  BY <1>1, <1>2, <1>3, AppInvariant, AppTypes, PTL DEF IpcSpec

\* Of two numbers one becomes smaller and the other stays.
LEMMA LessLeft ==
    ASSUME NEW p \in Int, NEW p1 \in Int, NEW c \in Int, NEW c1 \in Int,
           (p1 < p /\ c1 = c) \/ (p1 = p /\ c1 < c)
    PROVE  p1 + c1 < p + c
  OBVIOUS

\* A step of the parent comes nearer to its end.
LEMMA ParentGoesOn ==
    ASSUME AppTypeInv, AppTypeInv', AppInv, Parent
    PROVE  ParentLeft' + ChildLeft' < ParentLeft + ChildLeft
  <1>0. /\ Rounds \in Nat /\ round \in Nat /\ reads \in Nat /\ round <= Rounds
        /\ reads <= Rounds /\ round >= 1 /\ Rounds >= 1
    BY MmapAssumption DEF AppTypeInv, AppTypeOK
  <1>1. ChildLeft \in Int
    BY <1>0 DEF ChildLeft
  <1>2. CASE MapPage \/ InitShared
    <2>1. ChildLeft' = ChildLeft
      BY <1>2 DEF MapPage, InitShared, ChildLeft
    <2>2. ParentLeft' \in Int /\ ParentLeft \in Int /\ ParentLeft' < ParentLeft
      BY <1>0, <1>2 DEF MapPage, InitShared, ParentLeft
    <2>. QED  BY <1>1, <2>1, <2>2, LessLeft
  <1>3. CASE ForkChild
    <2>1. pp = "fork" /\ cp = "none" /\ ParentLeft = 8 * Rounds + 7
          /\ ChildLeft = 0
      BY <1>3 DEF ForkChild, ParentLeft, ChildLeft, AppInv, ChildInv
    <2>2. CASE pp' = "lock"
      <3>1. pp' = "lock" /\ cp' = "lock" /\ round' = 1 /\ reads' = 0
        BY <1>3, <2>2 DEF ForkChild
      <3>2. ParentLeft' = 4 * (Rounds - 1) + 8 /\ ChildLeft' = 4 * (Rounds - 0) + 2
        BY <3>1 DEF ParentLeft, ChildLeft
      <3>. QED  BY <1>0, <2>1, <3>2
    <2>3. CASE pp' = "munmap" /\ cp' = cp
      <3>1. ParentLeft' = 2 /\ ChildLeft' = 0
        BY <2>1, <2>3 DEF ParentLeft, ChildLeft
      <3>. QED  BY <1>0, <2>1, <3>1
    <2>. QED  BY <1>3, <2>2, <2>3 DEF ForkChild
  <1>4. CASE ParentLocks \/ ParentWritesSeq \/ ParentWritesMsg
    <2>1. ChildLeft' = ChildLeft /\ round' = round
      BY <1>4 DEF ParentLocks, ParentWritesSeq, ParentWritesMsg, ChildLeft
    <2>2. ParentLeft' \in Int /\ ParentLeft \in Int /\ ParentLeft' < ParentLeft
      BY <1>0, <1>4, <2>1
      DEF ParentLocks, ParentWritesSeq, ParentWritesMsg, ParentLeft
    <2>. QED  BY <1>1, <2>1, <2>2, LessLeft
  <1>5. CASE ParentUnlocks
    <2>1. ChildLeft' = ChildLeft /\ pp = "unlock"
          /\ ParentLeft = 4 * (Rounds - round) + 5
      BY <1>5 DEF ParentUnlocks, ChildLeft, ParentLeft
    <2>2. CASE round = Rounds
      <3>1. ParentLeft' = 4
        BY <1>5, <2>2 DEF ParentUnlocks, LastRound, ParentLeft
      <3>. QED  BY <1>0, <1>1, <2>1, <2>2, <3>1
    <2>3. CASE round # Rounds
      <3>1. ParentLeft' = 4 * (Rounds - (round + 1)) + 8
        BY <1>5, <2>3 DEF ParentUnlocks, LastRound, ParentLeft
      <3>2. round + 1 <= Rounds
        BY <1>0, <2>3
      <3>. QED  BY <1>0, <1>1, <2>1, <3>1, <3>2
    <2>. QED  BY <2>2, <2>3
  <1>6. CASE Dump \/ ParentUnmaps \/ ParentCloses
    <2>1. ChildLeft' = ChildLeft
      BY <1>6 DEF Dump, ParentUnmaps, ParentCloses, ChildLeft
    <2>2. ParentLeft' \in Int /\ ParentLeft \in Int /\ ParentLeft' < ParentLeft
      BY <1>6 DEF Dump, ParentUnmaps, ParentCloses, ParentLeft
    <2>. QED  BY <1>1, <2>1, <2>2, LessLeft
  <1>7. CASE Reap
    <2>1. ParentLeft = 3 /\ ParentLeft' = 2 /\ ChildLeft = 0 /\ ChildLeft' = 0
      BY <1>7 DEF Reap, ParentLeft, ChildLeft
    <2>. QED  BY <2>1
  <1>. QED
    BY <1>2, <1>3, <1>4, <1>5, <1>6, <1>7 DEF Parent

\* So does a step of the child.
LEMMA ChildGoesOn ==
    ASSUME AppTypeInv, Child
    PROVE  ParentLeft' + ChildLeft' < ParentLeft + ChildLeft
  <1>0. /\ Rounds \in Nat /\ round \in Nat /\ reads \in Nat /\ round <= Rounds
        /\ reads <= Rounds
    BY MmapAssumption DEF AppTypeInv, AppTypeOK
  <1>1. ParentLeft' = ParentLeft /\ ParentLeft \in Int
    <2>1. pp' = pp /\ round' = round
      BY DEF Child, ChildLocks, ChildReadsSeq, ChildReadsMsg, ChildUnlocks,
             ChildUnmaps, ChildCloses
    <2>. QED  BY <1>0, <2>1 DEF ParentLeft
  <1>2. ChildLeft' \in Int /\ ChildLeft \in Int /\ ChildLeft' < ChildLeft
    <2>1. CASE ChildLocks \/ ChildReadsSeq \/ ChildReadsMsg
      BY <1>0, <2>1 DEF ChildLocks, ChildReadsSeq, ChildReadsMsg, ChildLeft
    <2>2. CASE ChildUnlocks
      <3>1. ChildLeft = 4 * (Rounds - reads) - 1 /\ reads < Rounds
        BY <2>2 DEF ChildUnlocks, ChildLeft, AppTypeInv
      <3>2. CASE reads + 1 = Rounds
        <4>1. ChildLeft' = 2
          BY <2>2, <3>2 DEF ChildUnlocks, Counted, ChildLeft
        <4>. QED  BY <1>0, <3>1, <3>2, <4>1
      <3>3. CASE reads + 1 # Rounds
        <4>1. ChildLeft' = 4 * (Rounds - (reads + 1)) + 2
          BY <2>2, <3>3 DEF ChildUnlocks, Counted, ChildLeft
        <4>. QED  BY <1>0, <3>1, <4>1
      <3>. QED  BY <3>2, <3>3
    <2>3. CASE ChildUnmaps \/ ChildCloses
      BY <2>3 DEF ChildUnmaps, ChildCloses, ChildLeft
    <2>. QED  BY <2>1, <2>2, <2>3 DEF Child
  <1>. QED  BY <1>1, <1>2, LessLeft

\* What is left is a natural number.
LEMMA LeftIsNat == AppTypeInv => ParentLeft + ChildLeft \in Nat
  <1>. SUFFICES ASSUME AppTypeInv
                PROVE  ParentLeft + ChildLeft \in Nat
    OBVIOUS
  <1>0. /\ Rounds \in Nat /\ round \in Nat /\ reads \in Nat /\ round <= Rounds
        /\ reads <= Rounds
        /\ cp \in {"lock", "seq", "msg", "unlock"} => reads < Rounds
    BY MmapAssumption DEF AppTypeInv, AppTypeOK
  <1>1. ParentLeft \in Nat
    BY <1>0 DEF ParentLeft
  <1>2. ChildLeft \in Nat
    BY <1>0 DEF ChildLeft
  <1>. QED  BY <1>1, <1>2

\* For any number of rounds and however they are scheduled, parent and child take
\* a bounded number of steps from open to close.
THEOREM AppStepsAreNumbered == IpcSpec => AppStepsRunOut
  <1>1. AppTypeInv' => (ParentLeft + ChildLeft \in Nat)'
    BY LeftIsNat, PTL
  <1>2. AppTypeInv /\ AppTypeInv' /\ AppInv /\ [Next]_vars
        => [Parent \/ Child => ParentLeft' + ChildLeft' < ParentLeft + ChildLeft
                               /\ ParentLeft' + ChildLeft' \in Nat]_vars
    BY <1>1, ParentGoesOn, ChildGoesOn
  <1>. QED
    BY <1>2, AppTypeInvHolds, AppInvariant, PTL DEF IpcSpec, AppStepsRunOut
===============================================================================
