-------------------------------- MODULE AdvIo ---------------------------------
(***************************************************************************)
(* The character driver /dev/adv_io (prj/03-Advanced-IO/src): a ring of    *)
(* bytes filled by a periodic work item and by write calls, drained by     *)
(* read calls, with blocking and O_NONBLOCK waits on two wait queues,      *)
(* poll(2) and SIGIO subscribers.                                          *)
(*                                                                         *)
(* One step is what the code does atomically: a section under ring_lock,   *)
(* one wake_up_interruptible, one kill_fasync, one test of a wait          *)
(* condition.  pc[u] is the place of process u between two such steps;     *)
(* "user" is user mode.  The kernel's wait queues, fasync list and signal  *)
(* delivery are modelled from how the driver uses them.                    *)
(***************************************************************************)
EXTENDS Integers, Sequences, FiniteSets

CONSTANTS Users,      \* processes; each opens the device once, single-threaded
          RingSize,   \* RING_SIZE
          SeqMod,     \* values of the producer's u8 counter (256)
          MaxLen,     \* bound: the longest read or write request
          Payload,    \* Payload[u]: the bytes in u's user buffer when it writes
          Faulty,     \* users whose user buffer may fault during a copy
          Signalled,  \* users that other processes send signals to
          Calls       \* Calls[u]: the calls and open modes u's program uses

ReadOps  == {"read", "readv"}
WriteOps == {"write", "writev"}
PollOps  == {"pollin", "pollout"}
IterOps  == {"readv", "writev"}      \* served by the _iter handlers
OpenModes == {"block", "nonblock"}   \* open(2) without and with O_NONBLOCK
CallKinds == OpenModes \union ReadOps \union WriteOps \union PollOps
             \union {"fasync"}

Byte  == 0..SeqMod-1
Slots == 0..RingSize-1

ASSUME ConstantsAssumption ==
    /\ RingSize \in Nat \ {0}
    /\ SeqMod \in Nat \ {0}
    /\ MaxLen \in Nat \ {0}
    /\ Payload \in [Users -> [1..MaxLen -> Byte]]
    /\ Faulty \subseteq Users
    /\ Signalled \subseteq Users
    /\ Calls \in [Users -> SUBSET CallKinds]

\* Results of a call: a byte count, a poll mask, or a negated errno.
EINTR       == -4
EAGAIN      == -11
EFAULT      == -14
ERESTARTSYS == -512
POLLIN      == 1
POLLOUT     == 4

VARIABLES
    ring, head, tail, count,  \* struct adv_io_dev: the ring buffer
    seq,                      \* the producer's static counter
    worker,                   \* where producer_work is: "armed" is its timer
    opened, openCnt,          \* files in existence; the driver's count of them
    nonblock,                 \* those with O_NONBLOCK in f_flags
    readWq, writeWq,          \* processes enqueued on read_wq and write_wq
    fasyncQ,                  \* SIGIO subscribers
    sigpend,                  \* processes with a signal pending
    pc,                       \* where each process is
    op, ret,                  \* its current or last call, and the last result
    want, total,              \* bytes the call asks for; bytes moved so far
    tmp                       \* the call's kernel buffer

ringVars == <<ring, head, tail, count>>
fileVars == <<opened, openCnt, nonblock>>
wqVars   == <<readWq, writeWq>>
sigVars  == <<fasyncQ, sigpend>>
callVars == <<pc, op, ret, want, total, tmp>>
vars == <<ringVars, seq, worker, fileVars, wqVars, sigVars, callVars>>

UserPcs  == {"user", "release"}
ReadPcs  == {"pop", "copyout", "killout", "readwait", "readcheck", "readsleep"}
WritePcs == {"copyin", "push", "wakein", "killin",
             "writewait", "writecheck", "writesleep"}
PollPcs  == {"pollmask", "pollsleep", "polllast"}
Pcs == UserPcs \union ReadPcs \union WritePcs \union PollPcs

------------------------------------------------------------------------------
\* Mutant of Wrap: off by one.
WrapLate(i) == IF i <= RingSize THEN i ELSE i - RingSize

\* An index is advanced modulo RING_SIZE; no index passes 2 * RING_SIZE here.
Wrap(i) == IF i < RingSize THEN i ELSE i - RingSize

AtMost(a, b) == IF a < b THEN a ELSE b

\* The n oldest bytes of the ring.
Oldest(n) == [i \in 1..n |-> ring[Wrap(tail + i - 1)]]

\* ring_pop: take the n oldest bytes; the slots keep their contents.
RingPop(n) ==
    /\ tail' = Wrap(tail + n)
    /\ count' = count - n
    /\ UNCHANGED <<ring, head>>

\* Mutant of RingPush: head moves by one slot whatever was stored.
RingPushHeadByOne(s, n) ==
    /\ ring' = [i \in Slots |->
                   LET off == Wrap(i + RingSize - head)
                   IN  IF off < n THEN s[off + 1] ELSE ring[i]]
    /\ head' = IF n > 0 THEN Wrap(head + 1) ELSE head
    /\ count' = count + n
    /\ UNCHANGED tail

\* ring_push: store the first n bytes of s in the n free slots from head on.
RingPush(s, n) ==
    /\ ring' = [i \in Slots |->
                   LET off == Wrap(i + RingSize - head)
                   IN  IF off < n THEN s[off + 1] ELSE ring[i]]
    /\ head' = Wrap(head + n)
    /\ count' = count + n
    /\ UNCHANGED tail

\* Mutant of WakeReaders: one waiter is woken, as for exclusive waits.
WakeOneReader ==
    IF readWq = {} THEN UNCHANGED readWq
    ELSE \E v \in readWq : readWq' = readWq \ {v}

\* Mutant of WakeWriters: only when the ring has just stopped being full.
WakeWritersOnEdge ==
    writeWq' = IF count = RingSize - 1 THEN {} ELSE writeWq

\* wake_up_interruptible wakes and dequeues every (non-exclusive) waiter.
WakeReaders == readWq' = {}
WakeWriters == writeWq' = {}

\* kill_fasync: SIGIO becomes pending for every subscriber.
KillFasync == sigpend' = sigpend \union fasyncQ

\* Process u's call returns r; its buffer and counters cease to exist.
Return(u, r) ==
    /\ pc' = [pc EXCEPT ![u] = "user"]
    /\ ret' = [ret EXCEPT ![u] = r]
    /\ want' = [want EXCEPT ![u] = 0]
    /\ total' = [total EXCEPT ![u] = 0]
    /\ tmp' = [tmp EXCEPT ![u] = <<>>]
    /\ UNCHANGED op

Goto(u, place) ==
    /\ pc' = [pc EXCEPT ![u] = place]
    /\ UNCHANGED <<op, ret, want, total, tmp>>

\* Process u enters call k for n bytes at the given place of the driver.
Enter(u, k, n, place) ==
    /\ pc' = [pc EXCEPT ![u] = place]
    /\ op' = [op EXCEPT ![u] = k]
    /\ ret' = [ret EXCEPT ![u] = 0]
    /\ want' = [want EXCEPT ![u] = n]
    /\ UNCHANGED <<total, tmp>>

\* Mutant of MovedNothing: the _iter handlers test O_NONBLOCK before total.
MovedNothingFlagFirst(u, place) ==
    \/ u \in nonblock /\ Return(u, EAGAIN)
    \/ u \notin nonblock /\ total[u] > 0 /\ Return(u, total[u])
    \/ u \notin nonblock /\ total[u] = 0 /\ Goto(u, place)

\* The locked section moved nothing: report earlier chunks, fail, or wait.
MovedNothing(u, place) ==
    \/ total[u] > 0 /\ Return(u, total[u])
    \/ total[u] = 0 /\ u \in nonblock /\ Return(u, EAGAIN)
    \/ total[u] = 0 /\ u \notin nonblock /\ Goto(u, place)

InUserMode(u) == pc[u] = "user" /\ u \in opened

------------------------------------------------------------------------------
\* The state right after adv_io_init: zeroed device, first work item scheduled.
Init ==
    /\ ring = [i \in Slots |-> 0]
    /\ head = 0 /\ tail = 0 /\ count = 0
    /\ seq = 0
    /\ worker = "armed"
    /\ opened = {} /\ openCnt = 0 /\ nonblock = {}
    /\ readWq = {} /\ writeWq = {}
    /\ fasyncQ = {} /\ sigpend = {}
    /\ pc = [u \in Users |-> "user"]
    /\ op = [u \in Users |-> "none"]
    /\ ret = [u \in Users |-> 0]
    /\ want = [u \in Users |-> 0]
    /\ total = [u \in Users |-> 0]
    /\ tmp = [u \in Users |-> <<>>]

------------------------------------------------------------------------------
(* adv_io_producer *)

\* Mutant of Produce: the work item returns early on a full ring.
ProduceStopsWhenFull ==
    /\ worker = "armed"
    /\ seq' = (seq + 1) % SeqMod
    /\ IF count < RingSize THEN RingPush(<<seq>>, 1) ELSE UNCHANGED ringVars
    /\ worker' = IF count = 0 THEN "wake"
                 ELSE IF count < RingSize THEN "armed" ELSE "stopped"
    /\ UNCHANGED <<fileVars, wqVars, sigVars, callVars>>

\* The timer fires: number a byte, push it unless the ring is full (the byte
\* is then lost), and remember whether the ring became readable.  When it did
\* not, the work item only re-arms itself.
Produce ==
    /\ worker = "armed"
    /\ seq' = (seq + 1) % SeqMod
    /\ IF count < RingSize THEN RingPush(<<seq>>, 1) ELSE UNCHANGED ringVars
    /\ worker' = IF count = 0 THEN "wake" ELSE "armed"
    /\ UNCHANGED <<fileVars, wqVars, sigVars, callVars>>

\* Mutant of ProducerWake: no kill_fasync after the wake-up.
ProducerWakeOnly ==
    /\ worker = "wake"
    /\ WakeReaders
    /\ worker' = "armed"
    /\ UNCHANGED <<ringVars, seq, fileVars, writeWq, sigVars, callVars>>

\* Blocked readers and pollers are woken, after ring_lock is dropped.
ProducerWake ==
    /\ worker = "wake"
    /\ WakeReaders
    /\ worker' = "kill"
    /\ UNCHANGED <<ringVars, seq, fileVars, writeWq, sigVars, callVars>>

\* Mutant of ProducerKill: the work item does not re-arm itself.
ProducerKillOnce ==
    /\ worker = "kill"
    /\ KillFasync
    /\ worker' = "stopped"
    /\ UNCHANGED <<ringVars, seq, fileVars, wqVars, fasyncQ, callVars>>

\* SIGIO to the subscribers, then re-arm.
ProducerKill ==
    /\ worker = "kill"
    /\ KillFasync
    /\ worker' = "armed"
    /\ UNCHANGED <<ringVars, seq, fileVars, wqVars, fasyncQ, callVars>>

Producer == Produce \/ ProducerWake \/ ProducerKill

------------------------------------------------------------------------------
(* open, fasync, release *)

Open(u, mode) ==
    /\ pc[u] = "user" /\ u \notin opened /\ mode \in Calls[u]
    /\ opened' = opened \union {u}
    /\ nonblock' = IF mode = "nonblock" THEN nonblock \union {u} ELSE nonblock
    /\ openCnt' = openCnt + 1
    /\ UNCHANGED <<ringVars, seq, worker, wqVars, sigVars, callVars>>

\* fcntl(F_SETFL) sets or clears O_ASYNC: the file joins or leaves fasync_q.
SetAsync(u, on) ==
    /\ InUserMode(u) /\ "fasync" \in Calls[u]
    /\ fasyncQ' = IF on THEN fasyncQ \union {u} ELSE fasyncQ \ {u}
    /\ Enter(u, "fasync", 0, "user")
    /\ UNCHANGED <<ringVars, seq, worker, fileVars, wqVars, sigpend>>

\* Mutant of Release: the program is trusted to have cleared O_ASYNC.
ReleaseKeepsNode(u) ==
    /\ InUserMode(u)
    /\ Enter(u, "none", 0, "release")
    /\ UNCHANGED <<ringVars, seq, worker, fileVars, wqVars, sigVars>>

\* Last close: leave fasync_q first, whatever the program did before.
Release(u) ==
    /\ InUserMode(u)
    /\ fasyncQ' = fasyncQ \ {u}
    /\ Enter(u, "none", 0, "release")
    /\ UNCHANGED <<ringVars, seq, worker, fileVars, wqVars, sigpend>>

\* Then open_cnt goes down and the file is gone.
ReleaseCount(u) ==
    /\ pc[u] = "release"
    /\ openCnt' = openCnt - 1
    /\ opened' = opened \ {u}
    /\ nonblock' = nonblock \ {u}
    /\ Return(u, 0)
    /\ UNCHANGED <<ringVars, seq, worker, wqVars, sigVars>>

------------------------------------------------------------------------------
(* read, readv: adv_io_do_read and adv_io_read_iter *)

\* A request of length 0 returns at once; read(2) is cut to RING_SIZE.
Read(u, k, n) ==
    /\ InUserMode(u) /\ k \in Calls[u]
    /\ Enter(u, k, IF k \in IterOps THEN n ELSE AtMost(n, RingSize),
             IF n = 0 THEN "user" ELSE "pop")
    /\ UNCHANGED <<ringVars, seq, worker, fileVars, wqVars, sigVars>>

\* The locked section: move what is there, up to what is still wanted.
Pop(u) ==
    /\ pc[u] = "pop"
    /\ LET n == AtMost(AtMost(want[u] - total[u], RingSize), count) IN
         \/ /\ n > 0
            /\ RingPop(n)
            /\ tmp' = [tmp EXCEPT ![u] = Oldest(n)]
            /\ pc' = [pc EXCEPT ![u] = "copyout"]
            /\ UNCHANGED <<op, ret, want, total>>
         \/ /\ n = 0
            /\ MovedNothing(u, "readwait")
            /\ UNCHANGED ringVars
    /\ UNCHANGED <<seq, worker, fileVars, wqVars, sigVars>>

\* wait_event_interruptible on read_wq: done at once if there is data now,
\* else enqueue before the condition is looked at again.
ReadWait(u) ==
    /\ pc[u] = "readwait"
    /\ \/ count > 0 /\ Goto(u, "pop") /\ UNCHANGED readWq
       \/ Goto(u, "readcheck") /\ readWq' = readWq \union {u}
    /\ UNCHANGED <<ringVars, seq, worker, fileVars, writeWq, sigVars>>

\* Enqueued: data ends the wait, a pending signal aborts it, else sleep.
ReadCheck(u) ==
    /\ pc[u] = "readcheck"
    /\ \/ /\ count > 0
          /\ Goto(u, "pop")
          /\ readWq' = readWq \ {u}
       \/ /\ count = 0 /\ u \in sigpend
          /\ Return(u, ERESTARTSYS)
          /\ readWq' = readWq \ {u}
       \/ /\ count = 0 /\ u \notin sigpend
          /\ Goto(u, "readsleep")
          /\ UNCHANGED readWq
    /\ UNCHANGED <<ringVars, seq, worker, fileVars, writeWq, sigVars>>

\* Woken by a wake-up or by a signal: enqueue again and look again.
ReadWoken(u) ==
    /\ pc[u] = "readsleep"
    /\ u \notin readWq \/ u \in sigpend
    /\ readWq' = readWq \union {u}
    /\ Goto(u, "readcheck")
    /\ UNCHANGED <<ringVars, seq, worker, fileVars, writeWq, sigVars>>

\* The bytes reach the user buffer and writers are woken for the freed slots.
CopyOut(u) ==
    /\ pc[u] = "copyout"
    /\ total' = [total EXCEPT ![u] = @ + Len(tmp[u])]
    /\ tmp' = [tmp EXCEPT ![u] = <<>>]
    /\ pc' = [pc EXCEPT ![u] = "killout"]
    /\ WakeWriters
    /\ UNCHANGED <<ringVars, seq, worker, fileVars, readWq, sigVars,
                   op, ret, want>>

\* The user buffer faults: the popped bytes are gone, nobody is woken.
CopyOutFaults(u) ==
    /\ pc[u] = "copyout" /\ u \in Faulty
    /\ Return(u, EFAULT)
    /\ UNCHANGED <<ringVars, seq, worker, fileVars, wqVars, sigVars>>

\* Mutant of KillOut: no SIGIO for freed slots.
KillOutSilent(u) ==
    /\ pc[u] = "killout"
    /\ IF op[u] \in IterOps /\ total[u] < want[u]
       THEN Goto(u, "pop")
       ELSE Return(u, total[u])
    /\ UNCHANGED <<ringVars, seq, worker, fileVars, wqVars, sigVars>>

\* SIGIO (POLL_OUT); read(2) returns, readv(2) goes on until it has enough.
KillOut(u) ==
    /\ pc[u] = "killout"
    /\ KillFasync
    /\ IF op[u] \in IterOps /\ total[u] < want[u]
       THEN Goto(u, "pop")
       ELSE Return(u, total[u])
    /\ UNCHANGED <<ringVars, seq, worker, fileVars, wqVars, fasyncQ>>

------------------------------------------------------------------------------
(* write, writev: adv_io_do_write and adv_io_write_iter *)

Write(u, k, n) ==
    /\ InUserMode(u) /\ k \in Calls[u]
    /\ Enter(u, k, IF k \in IterOps THEN n ELSE AtMost(n, RingSize),
             IF n = 0 THEN "user" ELSE "copyin")
    /\ UNCHANGED <<ringVars, seq, worker, fileVars, wqVars, sigVars>>

\* The next chunk, at most RING_SIZE bytes, is copied from the user buffer.
CopyIn(u) ==
    /\ pc[u] = "copyin"
    /\ LET n == AtMost(want[u] - total[u], RingSize)
       IN  tmp' = [tmp EXCEPT ![u] = [i \in 1..n |-> Payload[u][total[u] + i]]]
    /\ pc' = [pc EXCEPT ![u] = "push"]
    /\ UNCHANGED <<ringVars, seq, worker, fileVars, wqVars, sigVars,
                   op, ret, want, total>>

\* The user buffer faults: -EFAULT, even when earlier chunks went through.
CopyInFaults(u) ==
    /\ pc[u] = "copyin" /\ u \in Faulty
    /\ Return(u, EFAULT)
    /\ UNCHANGED <<ringVars, seq, worker, fileVars, wqVars, sigVars>>

\* The locked section: store what fits; tmp keeps what does not.
Push(u) ==
    /\ pc[u] = "push"
    /\ LET n == AtMost(Len(tmp[u]), RingSize - count) IN
         \/ /\ n > 0
            /\ RingPush(tmp[u], n)
            /\ tmp' = [tmp EXCEPT ![u] = SubSeq(@, n + 1, Len(@))]
            /\ total' = [total EXCEPT ![u] = @ + n]
            /\ pc' = [pc EXCEPT ![u] = "wakein"]
            /\ UNCHANGED <<op, ret, want>>
         \/ /\ n = 0
            /\ MovedNothing(u, "writewait")
            /\ UNCHANGED ringVars
    /\ UNCHANGED <<seq, worker, fileVars, wqVars, sigVars>>

WriteWait(u) ==
    /\ pc[u] = "writewait"
    /\ \/ count < RingSize /\ Goto(u, "push") /\ UNCHANGED writeWq
       \/ Goto(u, "writecheck") /\ writeWq' = writeWq \union {u}
    /\ UNCHANGED <<ringVars, seq, worker, fileVars, readWq, sigVars>>

WriteCheck(u) ==
    /\ pc[u] = "writecheck"
    /\ \/ /\ count < RingSize
          /\ Goto(u, "push")
          /\ writeWq' = writeWq \ {u}
       \/ /\ count = RingSize /\ u \in sigpend
          /\ Return(u, ERESTARTSYS)
          /\ writeWq' = writeWq \ {u}
       \/ /\ count = RingSize /\ u \notin sigpend
          /\ Goto(u, "writesleep")
          /\ UNCHANGED writeWq
    /\ UNCHANGED <<ringVars, seq, worker, fileVars, readWq, sigVars>>

WriteWoken(u) ==
    /\ pc[u] = "writesleep"
    /\ u \notin writeWq \/ u \in sigpend
    /\ writeWq' = writeWq \union {u}
    /\ Goto(u, "writecheck")
    /\ UNCHANGED <<ringVars, seq, worker, fileVars, readWq, sigVars>>

WakeIn(u) ==
    /\ pc[u] = "wakein"
    /\ WakeReaders
    /\ Goto(u, "killin")
    /\ UNCHANGED <<ringVars, seq, worker, fileVars, writeWq, sigVars>>

\* SIGIO (POLL_IN); write(2) returns, and so does writev(2) after a chunk that
\* did not fit whole or when nothing is left to write.
KillIn(u) ==
    /\ pc[u] = "killin"
    /\ KillFasync
    /\ IF op[u] \in IterOps /\ tmp[u] = <<>> /\ total[u] < want[u]
       THEN Goto(u, "copyin")
       ELSE Return(u, total[u])
    /\ UNCHANGED <<ringVars, seq, worker, fileVars, wqVars, fasyncQ>>

------------------------------------------------------------------------------
(* poll *)

\* Mutant of Ready: readable means not full, as for writing.
ReadyForAnything(u) == count < RingSize

\* The events the driver reports and those the caller asks for.
Ready(u) == IF op[u] = "pollin" THEN count > 0 ELSE count < RingSize
Mask(u)  == IF op[u] = "pollin" THEN POLLIN ELSE POLLOUT

\* poll_wait on both queues, before the mask is computed.
Poll(u, k) ==
    /\ InUserMode(u) /\ k \in Calls[u]
    /\ Enter(u, k, 0, "pollmask")
    /\ readWq' = readWq \union {u}
    /\ writeWq' = writeWq \union {u}
    /\ UNCHANGED <<ringVars, seq, worker, fileVars, sigVars>>

\* u's poll ends with r and its entries leave both queues.
PollReturn(u, r) ==
    /\ Return(u, r)
    /\ readWq' = readWq \ {u}
    /\ writeWq' = writeWq \ {u}

\* The mask, under ring_lock: an event or a pending signal ends the call.
PollMask(u) ==
    /\ pc[u] = "pollmask"
    /\ \/ Ready(u) /\ PollReturn(u, Mask(u))
       \/ ~Ready(u) /\ u \in sigpend /\ PollReturn(u, EINTR)
       \/ ~Ready(u) /\ u \notin sigpend /\ Goto(u, "pollsleep")
                    /\ UNCHANGED wqVars
    /\ UNCHANGED <<ringVars, seq, worker, fileVars, sigVars>>

\* Either queue or a signal wakes the poller; it asks the driver again.
PollWoken(u) ==
    /\ pc[u] = "pollsleep"
    /\ u \notin readWq \/ u \notin writeWq \/ u \in sigpend
    /\ readWq' = readWq \union {u}
    /\ writeWq' = writeWq \union {u}
    /\ Goto(u, "pollmask")
    /\ UNCHANGED <<ringVars, seq, worker, fileVars, sigVars>>

\* The timeout passes: the driver is asked one last time.
PollTimeout(u) ==
    /\ pc[u] = "pollsleep"
    /\ Goto(u, "polllast")
    /\ UNCHANGED <<ringVars, seq, worker, fileVars, wqVars, sigVars>>

PollLast(u) ==
    /\ pc[u] = "polllast"
    /\ PollReturn(u, IF Ready(u) THEN Mask(u)
                     ELSE IF u \in sigpend THEN EINTR ELSE 0)
    /\ UNCHANGED <<ringVars, seq, worker, fileVars, sigVars>>

------------------------------------------------------------------------------
\* A signal other than SIGIO is sent to u.
Interrupt(u) ==
    /\ u \in Signalled /\ u \in opened /\ u \notin sigpend
    /\ sigpend' = sigpend \union {u}
    /\ UNCHANGED <<ringVars, seq, worker, fileVars, wqVars, fasyncQ, callVars>>

\* In user mode a pending signal runs its handler; what the program learned
\* from its last call is then out of date.
Handle(u) ==
    /\ pc[u] = "user" /\ u \in sigpend
    /\ sigpend' = sigpend \ {u}
    /\ Enter(u, "none", 0, "user")
    /\ UNCHANGED <<ringVars, seq, worker, fileVars, wqVars, fasyncQ>>

\* What a program chooses to do, and what the kernel does for it once in a call.
Program(u) ==
    \/ \E mode \in OpenModes : Open(u, mode)
    \/ Release(u)
    \/ \E on \in BOOLEAN : SetAsync(u, on)
    \/ \E n \in 0..MaxLen :
          \/ \E k \in ReadOps : Read(u, k, n)
          \/ \E k \in WriteOps : Write(u, k, n)
    \/ \E k \in PollOps : Poll(u, k)

InRead(u) == Pop(u) \/ ReadWait(u) \/ ReadCheck(u) \/ ReadWoken(u)
             \/ CopyOut(u) \/ CopyOutFaults(u) \/ KillOut(u)
InWrite(u) == CopyIn(u) \/ CopyInFaults(u) \/ Push(u) \/ WriteWait(u)
              \/ WriteCheck(u) \/ WriteWoken(u) \/ WakeIn(u) \/ KillIn(u)
InPoll(u) == PollMask(u) \/ PollWoken(u) \/ PollLast(u)
Kernel(u) == InRead(u) \/ InWrite(u) \/ InPoll(u) \/ ReleaseCount(u)
             \/ Handle(u)

Next ==
    \/ Producer
    \/ \E u \in Users :
          Program(u) \/ Kernel(u) \/ PollTimeout(u) \/ Interrupt(u)

Spec == Init /\ [][Next]_vars

\* The timer fires again and again, a runnable process is scheduled and a
\* pending signal is delivered; programs owe nothing.
Fairness ==
    /\ WF_vars(Producer)
    /\ \A u \in Users : WF_vars(Kernel(u))

FairSpec == Spec /\ Fairness

------------------------------------------------------------------------------
DeviceTypeOK ==
    /\ ring \in [Slots -> Byte]
    /\ head \in Slots /\ tail \in Slots /\ count \in 0..RingSize
    /\ seq \in Byte
    /\ worker \in {"armed", "wake", "kill"}
    /\ opened \subseteq Users /\ openCnt \in Int /\ nonblock \subseteq Users
    /\ readWq \subseteq Users /\ writeWq \subseteq Users
    /\ fasyncQ \subseteq Users /\ sigpend \subseteq Users

CallTypeOK ==
    /\ pc \in [Users -> Pcs]
    /\ op \in [Users -> CallKinds \union {"none"}]
    /\ ret \in [Users -> Int]
    /\ want \in [Users -> 0..MaxLen]
    /\ total \in [Users -> 0..MaxLen]
    /\ tmp \in [Users -> Seq(Byte)]

\* The types of the driver's state; indices stay within the ring.
TypeOK == DeviceTypeOK /\ CallTypeOK

------------------------------------------------------------------------------
(* Properties *)

\* A wake-up of read_wq (write_wq) is on its way: the data (space) is in place
\* and the process that made it has not yet called wake_up_interruptible.
ReadersGetWoken == worker = "wake" \/ \E v \in Users : pc[v] = "wakein"
WritersGetWoken == \E v \in Users : pc[v] = "copyout"

\* SIGIO for new data is on its way.
SubscribersGetTold ==
    \/ worker \in {"wake", "kill"}
    \/ \E v \in Users : pc[v] \in {"wakein", "killin"}

AsleepForData(u) ==
    /\ pc[u] = "readsleep" \/ (pc[u] = "pollsleep" /\ op[u] = "pollin")
    /\ u \in readWq
AsleepForSpace(u) ==
    /\ pc[u] = "writesleep" \/ (pc[u] = "pollsleep" /\ op[u] = "pollout")
    /\ u \in writeWq

\* No lost wake-up on read_wq (adv_io_producer wakes only on the transition
\* from empty, and outside the lock): a reader or a POLLIN poller sleeps over
\* a nonempty ring only while a wake-up is on its way.
NoLostReaderWakeup ==
    \A u \in Users : AsleepForData(u) /\ count > 0 => ReadersGetWoken

\* No lost wake-up on write_wq ("a slot freed up - wake writers"): a writer or
\* a POLLOUT poller sleeps over free slots only while a wake-up is on its way.
NoLostWriterWakeup ==
    \A u \in Users : AsleepForSpace(u) /\ count < RingSize => WritersGetWoken

\* No step but a read whose user buffer faults (it returns before it wakes
\* anybody for the slots it has freed) leaves a writer or POLLOUT poller asleep
\* over free slots, whatever else fails, is interrupted or times out.
OnlyFaultsLoseWakeups ==
    [][NoLostWriterWakeup /\ ~NoLostWriterWakeup'
       => \E u \in Users : CopyOutFaults(u)]_vars

\* The three redundant descriptions of the ring agree after any number of pushes
\* and pops that wrap around: head is where count bytes from tail on end.
RingCoherent == head = Wrap(tail + count)

\* kill_fasync never meets the node of a closed file: every subscriber's file
\* exists, and a file being released has left fasync_q before it goes.
NoStaleSubscriber ==
    \A u \in fasyncQ : u \in opened /\ pc[u] # "release"

\* The contract of signal-driven reading: a subscriber that read until EAGAIN
\* can sleep in pause(); when there is data again a SIGIO is pending for it or
\* on its way, although the producer signals only the transition from empty.
DrainedSubscriberIsTold ==
    \A u \in fasyncQ :
        /\ pc[u] = "user" /\ op[u] \in ReadOps /\ ret[u] = EAGAIN
        /\ u \notin sigpend /\ count > 0
        => SubscribersGetTold

\* poll, then read: when nobody else reads the device, a process that was told
\* POLLIN finds data, whatever the producer, writers and signals do meanwhile.
PollReadyIsReadable ==
    \A u \in Users :
        /\ \A v \in Users \ {u} : Calls[v] \intersect ReadOps = {}
        /\ pc[u] = "user" /\ op[u] = "pollin" /\ ret[u] = POLLIN
        => count > 0

\* The result of a read or write call tells the truth about the bytes moved:
\* a count is positive (0 would read as end of file) and exact, and -EAGAIN and
\* -ERESTARTSYS mean that nothing moved, also in the chunk loops of the _iter
\* handlers.  Only -EFAULT can hide bytes that moved.
ResultTellsProgress ==
    [][\A u \in Users :
          /\ pc[u] \in ReadPcs \union WritePcs /\ pc'[u] = "user"
          /\ ret'[u] # EFAULT
          => IF total[u] > 0 THEN ret'[u] = total[u] ELSE ret'[u] < 0]_vars

\* The ring is a FIFO of bytes: the slots, indices and chunked copies of the
\* driver implement ByteFifo.  A read call loses bytes only when its user buffer
\* faults, and the producer skips a number only when the ring is full.
Fifo == INSTANCE ByteFifo WITH
    Capacity <- RingSize,
    fifo  <- Oldest(count),
    out   <- [u \in Users |-> IF op[u] \in ReadOps THEN tmp[u] ELSE <<>>],
    given <- [u \in Users |-> IF op[u] \in ReadOps THEN total[u] ELSE 0],
    sent  <- [u \in Users |-> IF op[u] \in WriteOps THEN total[u] ELSE 0]
ImplementsFifo == Fifo!Spec

\* Nobody sleeps for ever: a process asleep for data is woken, since the producer
\* fills an empty ring, whoever else takes the byte; free slots reach a sleeping
\* writer.
SleepersWake ==
    \A u \in Users :
        /\ AsleepForData(u) ~> ~AsleepForData(u)
        /\ AsleepForSpace(u) /\ count < RingSize ~> ~AsleepForSpace(u)

\* A read call of the device's only reader returns.
SoleReadReturns ==
    \A u \in Users :
        (\A v \in Users \ {u} : Calls[v] \intersect ReadOps = {})
        => (pc[u] \in ReadPcs ~> pc[u] = "user")

\* A subscriber that drained the ring and then waits is signalled.
DrainedSubscriberIsSignalled ==
    \A u \in Users :
        /\ u \in fasyncQ /\ pc[u] = "user"
        /\ op[u] \in ReadOps /\ ret[u] = EAGAIN
        ~> \/ u \in sigpend
           \/ op[u] \notin ReadOps \/ pc[u] # "user"
===============================================================================
