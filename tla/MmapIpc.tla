-------------------------------- MODULE MmapIpc --------------------------------
(***************************************************************************)
(* prj/02_mmap_drv/app composed with the drivers: a parent that writes     *)
(* rounds into the page mapped from /dev/mmap_drv and a forked child that  *)
(* reads them, under a mutex in the page; then the driver is asked to dump *)
(* the page, without the mutex.  Somebody loads and unloads the module all *)
(* the while.  Of hello_drv and adv_io the same two processes use the      *)
(* files at will.                                                          *)
(***************************************************************************)
EXTENDS DriverLifecycle

CONSTANTS Rounds,    \* 5, the turns of either loop
          WriteEvery, \* 500 ms, in some unit
          ReadEvery,  \* 300 ms
          MaxLag      \* bound: how late a process may be scheduled

ASSUME MmapAssumption ==
    /\ Rounds \in Nat \ {0} /\ WriteEvery \in Nat /\ ReadEvery \in Nat
    /\ MaxLag \in Nat /\ Users = {"parent", "child"}

VARIABLES pp,     \* where the parent is
          cp,     \* where the child is
          left,   \* left[u]: time until u wakes up, negative when it is late
          round,  \* the parent's i
          reads,  \* the child's i
          lock,   \* owner of shm->lock
          seq,    \* shm->seq
          msg,    \* shm->msg, the round it names; 0 for "(init)"
          saw,    \* what the child printed last
          dump    \* what the driver printed last

pageVars == <<lock, seq, msg>>
appVars == <<pp, cp, left, round, reads, pageVars, saw, dump>>
vars == <<lifeVars, appVars>>

View(s, m) == [seq |-> s, msg |-> m]

AppInit ==
    /\ Init
    /\ pp = "off" /\ cp = "none" /\ left = [u \in Users |-> 0]
    /\ round = 1 /\ reads = 0
    /\ lock = "free" /\ seq = 0 /\ msg = 0
    /\ saw = View(0, 0) /\ dump = View(0, 0)

------------------------------------------------------------------------------
(* main, up to fork *)

Run ==
    /\ driver = "mmap" /\ pp = "off" /\ Open("parent") /\ pp' = "opened"
    /\ UNCHANGED <<cp, left, round, reads, pageVars, saw, dump>>

\* mmap, which may fail; then main closes the file and returns.
MapPage ==
    /\ pp = "opened"
    /\ \/ Mmap("parent") /\ pp' = "init"
       \/ pp' = "close" /\ UNCHANGED lifeVars
    /\ UNCHANGED <<cp, left, round, reads, pageVars, saw, dump>>

\* init_shared_mutex and the first contents.
InitShared ==
    /\ pp = "init" /\ pp' = "fork"
    /\ lock' = "free" /\ seq' = 0 /\ msg' = 0
    /\ saw' = View(0, 0) /\ dump' = View(0, 0)
    /\ UNCHANGED <<lifeVars, cp, left, round, reads>>

\* Mutant of FirstNap: the child reads first and sleeps afterwards.
FirstNapNone == 0

\* The child sleeps before each read, the first included.
FirstNap == ReadEvery

ForkChild ==
    /\ pp = "fork"
    /\ \/ /\ Fork("parent", "child")
          /\ pp' = "lock" /\ cp' = "lock" /\ round' = 1 /\ reads' = 0
          /\ left' = [u \in Users |-> IF u = "child" THEN FirstNap ELSE 0]
       \/ /\ pp' = "munmap"
          /\ UNCHANGED <<lifeVars, cp, left, round, reads>>
    /\ UNCHANGED <<pageVars, saw, dump>>

------------------------------------------------------------------------------
(* Time: it passes while no process is later than MaxLag. *)

Timed == (IF pp \in {"lock", "seq", "msg", "unlock", "dump"} THEN {"parent"} ELSE {})
         \cup (IF cp \in {"lock", "seq", "msg", "unlock"} THEN {"child"} ELSE {})

Awake(u) == left[u] <= 0

Tick ==
    /\ Timed # {} /\ \A u \in Timed : left[u] > -MaxLag
    /\ left' = [u \in Users |-> IF u \in Timed THEN left[u] - 1 ELSE left[u]]
    /\ UNCHANGED <<lifeVars, pp, cp, round, reads, pageVars, saw, dump>>

\* Mutant of Acquire: the mutex is private to each process.
AcquirePrivate(u) == lock' = u

Acquire(u) == lock = "free" /\ lock' = u

ReleaseLock == lock' = "free"

------------------------------------------------------------------------------
(* The parent *)

ParentLocks ==
    /\ pp = "lock" /\ Awake("parent") /\ Acquire("parent") /\ pp' = "seq"
    /\ UNCHANGED <<lifeVars, cp, left, round, reads, seq, msg, saw, dump>>

ParentWritesSeq ==
    /\ pp = "seq" /\ seq' = round /\ pp' = "msg"
    /\ UNCHANGED <<lifeVars, cp, left, round, reads, lock, msg, saw, dump>>

ParentWritesMsg ==
    /\ pp = "msg" /\ msg' = round /\ pp' = "unlock"
    /\ UNCHANGED <<lifeVars, cp, left, round, reads, lock, seq, saw, dump>>

\* Mutant of LastRound: the loop stops one round early.
LastRoundEarly == round + 1 >= Rounds

\* Mutant of LastRound: the loop goes on for one round more.
LastRoundLate == round > Rounds

LastRound == round = Rounds

\* Unlock and sleep, after the last round too.
ParentUnlocks ==
    /\ pp = "unlock" /\ ReleaseLock
    /\ left' = [left EXCEPT !["parent"] = WriteEvery]
    /\ IF LastRound THEN pp' = "dump" /\ round' = round
                    ELSE pp' = "lock" /\ round' = round + 1
    /\ UNCHANGED <<lifeVars, cp, reads, seq, msg, saw, dump>>

\* MMAP_DRV_IOC_DUMP: the driver reads the page, with no lock.
Dump ==
    /\ pp = "dump" /\ Awake("parent")
    /\ dump' = View(seq, msg) /\ pp' = "wait"
    /\ UNCHANGED <<lifeVars, cp, left, round, reads, pageVars, saw>>

Reap ==
    /\ pp = "wait" /\ cp = "zombie"
    /\ pp' = "munmap" /\ cp' = "none"
    /\ UNCHANGED <<lifeVars, left, round, reads, pageVars, saw, dump>>

ParentUnmaps ==
    /\ pp = "munmap" /\ Munmap("parent") /\ pp' = "close"
    /\ UNCHANGED <<cp, left, round, reads, pageVars, saw, dump>>

ParentCloses ==
    /\ pp = "close" /\ Close("parent") /\ pp' = "off"
    /\ UNCHANGED <<cp, left, round, reads, pageVars, saw, dump>>

Parent == MapPage \/ InitShared \/ ForkChild \/ ParentLocks
          \/ ParentWritesSeq \/ ParentWritesMsg \/ ParentUnlocks \/ Dump
          \/ Reap \/ ParentUnmaps \/ ParentCloses

------------------------------------------------------------------------------
(* The child *)

ChildLocks ==
    /\ cp = "lock" /\ Awake("child") /\ Acquire("child") /\ cp' = "seq"
    /\ UNCHANGED <<lifeVars, pp, left, round, reads, seq, msg, saw, dump>>

ChildReadsSeq ==
    /\ cp = "seq" /\ saw' = [saw EXCEPT !.seq = seq] /\ cp' = "msg"
    /\ UNCHANGED <<lifeVars, pp, left, round, reads, pageVars, dump>>

ChildReadsMsg ==
    /\ cp = "msg" /\ saw' = [saw EXCEPT !.msg = msg] /\ cp' = "unlock"
    /\ UNCHANGED <<lifeVars, pp, left, round, reads, pageVars, dump>>

\* Mutant of Counted: the loop does not count its turns.
CountedNever == 0

Counted == reads + 1

ChildUnlocks ==
    /\ cp = "unlock" /\ ReleaseLock
    /\ reads' = Counted
    /\ IF Counted = Rounds
       THEN cp' = "munmap" /\ left' = left
       ELSE cp' = "lock" /\ left' = [left EXCEPT !["child"] = ReadEvery]
    /\ UNCHANGED <<lifeVars, pp, round, seq, msg, saw, dump>>

ChildUnmaps ==
    /\ cp = "munmap" /\ Munmap("child") /\ cp' = "close"
    /\ UNCHANGED <<pp, left, round, reads, pageVars, saw, dump>>

ChildCloses ==
    /\ cp = "close" /\ Close("child") /\ cp' = "zombie"
    /\ UNCHANGED <<pp, left, round, reads, pageVars, saw, dump>>

Child == ChildLocks \/ ChildReadsSeq \/ ChildReadsMsg \/ ChildUnlocks
         \/ ChildUnmaps \/ ChildCloses

------------------------------------------------------------------------------

\* The other two drivers, used by any program.
OtherProcess ==
    /\ driver # "mmap" /\ \E u \in Users : Process(u)
    /\ UNCHANGED appVars

ModuleOrWork == (Module \/ Work) /\ UNCHANGED appVars

Next == ModuleOrWork \/ OtherProcess \/ Run \/ Parent \/ Child \/ Tick

\* The kernel's part, and both processes are scheduled.
IpcSpec ==
    /\ AppInit /\ [][Next]_vars
    /\ LifeFairness /\ WF_vars(Parent) /\ WF_vars(Child) /\ WF_vars(Tick)

------------------------------------------------------------------------------
(* Properties *)

\* The types of the state, the drivers' and the application's.
AppTypeOK ==
    /\ LifeTypeOK
    /\ pp \in {"off", "opened", "init", "fork", "lock", "seq", "msg", "unlock",
               "dump", "wait", "munmap", "close"}
    /\ cp \in {"none", "lock", "seq", "msg", "unlock", "munmap", "close", "zombie"}
    /\ left \in [Users -> Int]
    /\ round \in 1..Rounds /\ reads \in 0..Rounds
    /\ lock \in {"free", "parent", "child"}
    /\ seq \in 0..Rounds /\ msg \in 0..Rounds
    /\ saw \in [seq : 0..Rounds, msg : 0..Rounds]
    /\ dump \in [seq : 0..Rounds, msg : 0..Rounds]

\* The child never prints the number of one round with the text of another.
RoundNotTorn == cp = "unlock" => saw.seq = saw.msg

\* "let parent write first": however the two are scheduled, up to MaxLag, the
\* child never reads the page as it was before the first round.
FirstReadSeesARound == cp = "unlock" => saw.seq >= 1

\* The ioctl takes no lock, and yet what the driver prints is the whole last
\* round.
DumpSeesLastRound == pp = "wait" => dump = View(Rounds, Rounds)

\* Wherever the application may touch the page, it has the page mapped and the
\* page is there, although somebody may try to unload the module at any time
\* and parent and child unmap and close when they like.
UsesPage == {"init", "fork", "lock", "seq", "msg", "unlock", "munmap"}
PageStays ==
    /\ pp \in UsesPage \cup {"dump", "wait"} => "parent" \in maps /\ "page" \in held
    /\ cp \in UsesPage => "child" \in maps /\ "page" \in held

\* Who waits for the mutex waits for a process that is about to release it; who
\* waits for a child has one, and a child that has ended has a parent that
\* will wait for it.
NobodyWaitsInVain ==
    /\ lock = "parent" => pp \in {"seq", "msg", "unlock"}
    /\ lock = "child"  => cp \in {"seq", "msg", "unlock"}
    /\ pp = "wait"     => cp # "none"
    /\ cp = "zombie"   => pp \in {"lock", "seq", "msg", "unlock", "dump", "wait"}

\* How many steps the two processes have left, at most: four in a round, and a
\* fork gives the child its own.
ParentLeft == CASE pp = "opened" -> 8 * Rounds + 9
                [] pp = "init"   -> 8 * Rounds + 8
                [] pp = "fork"   -> 8 * Rounds + 7
                [] pp = "lock"   -> 4 * (Rounds - round) + 8
                [] pp = "seq"    -> 4 * (Rounds - round) + 7
                [] pp = "msg"    -> 4 * (Rounds - round) + 6
                [] pp = "unlock" -> 4 * (Rounds - round) + 5
                [] pp = "dump"   -> 4
                [] pp = "wait"   -> 3
                [] pp = "munmap" -> 2
                [] pp = "close"  -> 1
                [] OTHER         -> 0
ChildLeft == CASE cp = "lock"   -> 4 * (Rounds - reads) + 2
               [] cp = "seq"    -> 4 * (Rounds - reads) + 1
               [] cp = "msg"    -> 4 * (Rounds - reads)
               [] cp = "unlock" -> 4 * (Rounds - reads) - 1
               [] cp = "munmap" -> 2
               [] cp = "close"  -> 1
               [] OTHER         -> 0

\* Every step of either brings the end of the application nearer: nothing is
\* retried, no loop goes on.
AppStepsRunOut ==
    [][Parent \/ Child => ParentLeft' + ChildLeft' < ParentLeft + ChildLeft
                           /\ ParentLeft' + ChildLeft' \in Nat]_vars

\* The application, once it runs, ends: it is not stuck on the mutex or in
\* waitpid.  Its files and mappings are then gone, so that the module can go.
AppEnds == pp = "opened" ~> (pp = "off" /\ fds = {} /\ maps = {})
===============================================================================
