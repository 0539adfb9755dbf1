--------------------------- MODULE AdvIoFifoProofs ----------------------------
(***************************************************************************)
(* The driver implements the abstract FIFO: for any RING_SIZE, any         *)
(* requests and any number of processes, every behaviour of AdvIo is one   *)
(* of ByteFifo under the mapping that reads the ring from tail on.         *)
(***************************************************************************)
EXTENDS AdvIoProofs, SequenceTheorems

------------------------------------------------------------------------------
(* The ring helpers as operations on the sequence Oldest(count) *)

\* The i-th oldest byte of the ring.
LEMMA OldestAt ==
    ASSUME DeviceTypeOK, NEW n \in 0..count, NEW i \in 1..n
    PROVE  Oldest(n)[i] = ring[Wrap(tail + i - 1)]
BY DEF Oldest, DeviceTypeOK

\* What ring_pop takes is the beginning of the FIFO, what it leaves the rest.
LEMMA PopTakes ==
    ASSUME DeviceTypeOK, NEW n \in 0..count, RingPop(n), DeviceTypeOK'
    PROVE  /\ Oldest(n) = SubSeq(Oldest(count), 1, n)
           /\ Oldest(count)' = SubSeq(Oldest(count), n + 1, Len(Oldest(count)))
<1> DEFINE old == Oldest(count)
<1>0. /\ count \in 0..RingSize /\ RingSize \in Nat \ {0}
      /\ tail \in 0..RingSize-1 /\ n \in Nat
      /\ count' = count - n /\ tail' = Wrap(tail + n) /\ ring' = ring
  BY ConstantsAssumption DEF DeviceTypeOK, RingPop, Slots
<1>1. old \in Seq(Byte) /\ Len(old) = count
  BY <1>0, OldestType
<1>2. Oldest(n) = SubSeq(old, 1, n)
  <2>1. Oldest(n) \in Seq(Byte) /\ Len(Oldest(n)) = n
    BY <1>0, OldestType
  <2>2. /\ SubSeq(old, 1, n) \in Seq(Byte)
        /\ Len(SubSeq(old, 1, n)) = n
        /\ \A i \in 1..n : SubSeq(old, 1, n)[i] = old[i]
    BY <1>0, <1>1, ElementOfSeq, SubSeqProperties
  <2>3. \A i \in 1..n : Oldest(n)[i] = old[i]
    BY <1>0, OldestAt
  <2> HIDE DEF old
  <2>4. QED BY <2>1, <2>2, <2>3, SeqEqual
<1>3. Oldest(count)' = SubSeq(old, n + 1, Len(old))
  <2> DEFINE new == Oldest(count)'
             rest == SubSeq(old, n + 1, Len(old))
  <2>1. new \in Seq(Byte) /\ Len(new) = count - n
    <3>1. ASSUME NEW i \in 1..count'
          PROVE  Wrap(tail' + i - 1) \in Slots
      BY <1>0 DEF DeviceTypeOK, Slots, Wrap
    <3>2. new \in [1..count' -> Byte]
      BY <3>1 DEF Oldest, DeviceTypeOK, Wrap
    <3>3. count' \in Nat BY <1>0
    <3> HIDE DEF new
    <3>4. QED BY <1>0, <3>2, <3>3, SeqOf
  <2>2. /\ rest \in Seq(Byte) /\ Len(rest) = count - n
        /\ \A i \in 1..count - n : rest[i] = old[n + i]
    <3> HIDE DEF old
    <3>1. \A i \in n + 1..Len(old) : old[i] \in Byte
      BY <1>0, <1>1, ElementOfSeq
    <3>2. QED BY <1>0, <1>1, <3>1, SubSeqProperties
  <2>3. ASSUME NEW i \in 1..count - n PROVE new[i] = rest[i]
    <3>1. new[i] = ring[Wrap(Wrap(tail + n) + i - 1)]
      BY <1>0 DEF Oldest, Wrap
    <3>2. n + i \in 1..count BY <1>0
    <3>3. old[n + i] = ring[Wrap(tail + (n + i) - 1)]
      BY <1>0, <3>2, OldestAt
    <3>4. Wrap(Wrap(tail + n) + i - 1) = Wrap(tail + (n + i) - 1)
      BY <1>0 DEF Wrap
    <3>5. QED BY <2>2, <3>1, <3>3, <3>4
  <2> HIDE DEF new, rest
  <2>4. new = rest BY <2>1, <2>2, <2>3, SeqEqual
  <2>5. QED BY <2>4 DEF new, rest
<1>4. QED BY <1>2, <1>3

\* ring_push appends the first n bytes it is given.
LEMMA PushAppends ==
    ASSUME DeviceTypeOK, RingCoherent, NEW s \in Seq(Byte), NEW n \in 0..Len(s),
           n <= RingSize - count, RingPush(s, n), DeviceTypeOK'
    PROVE  Oldest(count)' = Oldest(count) \o SubSeq(s, 1, n)
<1> DEFINE old == Oldest(count)
           add == SubSeq(s, 1, n)
           new == Oldest(count)'
<1>0. /\ count \in 0..RingSize /\ RingSize \in Nat \ {0}
      /\ tail \in 0..RingSize-1 /\ n \in Nat /\ head = Wrap(tail + count)
      /\ head \in 0..RingSize-1
      /\ count' = count + n /\ tail' = tail
  BY ConstantsAssumption DEF DeviceTypeOK, RingPush, Slots, RingCoherent
<1>1. old \in Seq(Byte) /\ Len(old) = count
  BY <1>0, OldestType
<1>2. /\ add \in Seq(Byte) /\ Len(add) = n
      /\ \A i \in 1..n : add[i] = s[i]
  <2>1. \A i \in 1..n : s[i] \in Byte BY ElementOfSeq
  <2>2. QED BY <1>0, <2>1, SubSeqProperties
<1>3. new \in Seq(Byte) /\ Len(new) = count + n
  <2>1. ASSUME NEW i \in 1..count'
        PROVE  Wrap(tail' + i - 1) \in Slots
    BY <1>0 DEF DeviceTypeOK, Slots, Wrap
  <2>2. new \in [1..count' -> Byte]
    BY <2>1 DEF Oldest, DeviceTypeOK, Wrap
  <2>3. count' \in Nat BY <1>0
  <2> HIDE DEF new
  <2>4. QED BY <1>0, <2>2, <2>3, SeqOf
<1>4. ASSUME NEW i \in 1..count + n
      PROVE  new[i] = IF i <= count THEN old[i] ELSE add[i - count]
  <2> DEFINE slot == Wrap(tail + i - 1)
             off == Wrap(slot + RingSize - head)
  <2>1. slot \in Slots BY <1>0 DEF Slots, Wrap
  <2>2. new[i] = ring'[slot] BY <1>0 DEF Oldest, Wrap
  <2>3. ring'[slot] = IF off < n THEN s[off + 1] ELSE ring[slot]
    BY <2>1 DEF RingPush
  <2>4. CASE i <= count
    <3>1. ~(off < n) BY <1>0, <2>4 DEF Wrap
    <3>2. old[i] = ring[slot] BY <1>0, <2>4, OldestAt
    <3>3. QED BY <2>2, <2>3, <2>4, <3>1, <3>2
  <2>5. CASE i > count
    <3>1. off = i - count - 1 BY <1>0, <2>5 DEF Wrap
    <3>2. off < n /\ off + 1 = i - count /\ i - count \in 1..n
      BY <1>0, <2>5, <3>1
    <3>3. QED BY <1>0, <1>2, <2>2, <2>3, <2>5, <3>2
  <2>6. QED BY <1>0, <2>4, <2>5
<1> HIDE DEF old, add, new
<1>5. /\ old \o add \in Seq(Byte) /\ Len(old \o add) = count + n
      /\ \A i \in 1..count + n :
            (old \o add)[i] = IF i <= count THEN old[i] ELSE add[i - count]
  BY <1>1, <1>2, ConcatProperties
<1>6. new = old \o add
  BY <1>3, <1>4, <1>5, SeqEqual
<1>7. QED BY <1>6 DEF new, old, add

------------------------------------------------------------------------------
(* The inductive invariant *)

\* A process outside the transfer handlers has no bytes in flight.
Idle ==
    \A u \in Users : pc[u] \notin ReadPcs \union WritePcs
                     => total[u] = 0 /\ tmp[u] = <<>>

FifoInv == CallsInv /\ RingCoherent /\ Idle

LEMMA RingStep ==
    ASSUME CallsInv, RingCoherent, [Next]_vars PROVE RingCoherent'
<1>0. /\ count \in 0..RingSize /\ RingSize \in Nat \ {0}
      /\ tail \in 0..RingSize-1 /\ head \in 0..RingSize-1
      /\ total \in [Users -> 0..MaxLen] /\ want \in [Users -> 0..MaxLen]
      /\ tmp \in [Users -> Seq(Byte)] /\ MaxLen \in Nat
      /\ head = Wrap(tail + count)
  BY ConstantsAssumption DEF CallsInv, TypeInv, CallInv, CallTypeOK,
     DeviceTypeOK, Slots, RingCoherent
<1>1. ASSUME NEW s, NEW n \in 0..RingSize - count, RingPush(s, n)
      PROVE  RingCoherent'
  <2>1. head' = Wrap(head + n) /\ count' = count + n /\ tail' = tail
    BY <1>1 DEF RingPush
  <2>2. QED BY <1>0, <2>1 DEF RingCoherent, Wrap
<1>2. ASSUME NEW n \in 0..count, RingPop(n) PROVE RingCoherent'
  <2>1. tail' = Wrap(tail + n) /\ count' = count - n /\ head' = head
    BY <1>2 DEF RingPop
  <2>2. QED BY <1>0, <2>1 DEF RingCoherent, Wrap
<1>3. ASSUME UNCHANGED ringVars PROVE RingCoherent'
  BY <1>3 DEF RingCoherent, Wrap, ringVars
<1>4. CASE Producer
  <2>1. CASE Produce
    <3>1. (RingPush(<<seq>>, 1) /\ count < RingSize) \/ UNCHANGED ringVars
      BY <2>1 DEF Produce
    <3>2. QED BY <1>0, <1>1, <1>3, <3>1
  <2>2. QED BY <1>3, <1>4, <2>1 DEF Producer, ProducerWake, ProducerKill
<1>5. ASSUME NEW u \in Users,
             Program(u) \/ Kernel(u) \/ PollTimeout(u) \/ Interrupt(u)
      PROVE  RingCoherent'
  <2>1. CASE Pop(u)
    <3> DEFINE n == AtMost(AtMost(want[u] - total[u], RingSize), count)
    <3>1. (n > 0 /\ RingPop(n)) \/ UNCHANGED ringVars
      BY <2>1 DEF Pop
    <3>2. n \in Int /\ n <= count BY <1>0 DEF AtMost
    <3> HIDE DEF n
    <3>3. QED BY <1>0, <1>2, <1>3, <3>1, <3>2
  <2>2. CASE Push(u)
    <3> DEFINE n == AtMost(Len(tmp[u]), RingSize - count)
    <3>1. (n > 0 /\ RingPush(tmp[u], n)) \/ UNCHANGED ringVars
      BY <2>2 DEF Push
    <3>2. n \in Int /\ n <= RingSize - count BY <1>0 DEF AtMost
    <3> HIDE DEF n
    <3>3. QED BY <1>0, <1>1, <1>3, <3>1, <3>2
  <2>3. CASE ~Pop(u) /\ ~Push(u)
    <3>1. UNCHANGED ringVars
      BY <1>5, <2>3 DEF Program, Open, Release, SetAsync, Read, Write, Poll,
         Kernel, InRead, ReadWait, ReadCheck, ReadWoken, CopyOut,
         CopyOutFaults, KillOut, InWrite, CopyIn, CopyInFaults, WriteWait,
         WriteCheck, WriteWoken, WakeIn, KillIn, InPoll, PollMask, PollWoken,
         PollLast, PollTimeout, ReleaseCount, Handle, Interrupt
    <3>2. QED BY <1>3, <3>1
  <2>4. QED BY <2>1, <2>2, <2>3
<1>6. CASE UNCHANGED vars
  BY <1>3, <1>6 DEF vars
<1>7. QED BY <1>4, <1>5, <1>6 DEF Next

LEMMA IdleStep ==
    ASSUME CallsInv, Idle, [Next]_vars PROVE Idle'
<1>0. CallTypeOK /\ pc \in [Users -> Pcs]
  BY DEF CallsInv, TypeInv, CallInv, CallTypeOK
<1>1. CASE Producer \/ UNCHANGED vars
  BY <1>1 DEF Producer, Produce, ProducerWake, ProducerKill, vars, callVars,
              Idle
<1>2. ASSUME NEW u \in Users,
             Program(u) \/ Kernel(u) \/ PollTimeout(u) \/ Interrupt(u)
      PROVE  Idle'
  <2>1. ASSUME pc'[u] \notin ReadPcs \union WritePcs
        PROVE  total'[u] = 0 /\ tmp'[u] = <<>>
    <3>1. ASSUME NEW r, Return(u, r) PROVE total'[u] = 0 /\ tmp'[u] = <<>>
      BY <1>0, <3>1 DEF Return, CallTypeOK
    <3>2. ASSUME pc[u] \notin ReadPcs \union WritePcs,
                 total' = total, tmp' = tmp
          PROVE  total'[u] = 0 /\ tmp'[u] = <<>>
      BY <3>2 DEF Idle
    <3>3. CASE Program(u)
      <4>1. pc[u] = "user" /\ total' = total /\ tmp' = tmp
        BY <3>3 DEF Program, Open, Release, SetAsync, Read, Write, Poll,
                    InUserMode, Enter, callVars
      <4>2. QED BY <3>2, <4>1 DEF ReadPcs, WritePcs
    <3>4. CASE InRead(u) \/ InWrite(u)
      <4>1. ASSUME NEW place \in ReadPcs \union WritePcs,
                   pc' = [pc EXCEPT ![u] = place]
            PROVE  FALSE
        BY <1>0, <2>1, <4>1
      <4>2. QED
        BY <3>1, <3>4, <4>1 DEF InRead, Pop, ReadWait, ReadCheck, ReadWoken,
           CopyOut, CopyOutFaults, KillOut, InWrite, CopyIn, CopyInFaults,
           Push, WriteWait, WriteCheck, WriteWoken, WakeIn, KillIn,
           MovedNothing, Goto, ReadPcs, WritePcs
    <3>5. CASE InPoll(u) \/ PollTimeout(u) \/ ReleaseCount(u)
      <4>1. pc[u] \in {"release"} \union PollPcs
        BY <3>5 DEF InPoll, PollMask, PollWoken, PollLast, PollTimeout,
                    ReleaseCount, PollPcs
      <4>2. pc[u] \notin ReadPcs \union WritePcs
        BY <4>1 DEF PollPcs, ReadPcs, WritePcs
      <4>3. QED
        BY <3>1, <3>2, <3>5, <4>2 DEF InPoll, PollMask, PollWoken, PollLast,
           PollTimeout, PollReturn, ReleaseCount, Goto
    <3>6. CASE Handle(u)
      <4>1. pc[u] = "user" /\ total' = total /\ tmp' = tmp
        BY <3>6 DEF Handle, Enter
      <4>2. QED BY <3>2, <4>1 DEF ReadPcs, WritePcs
    <3>7. CASE Interrupt(u)
      BY <2>1, <3>2, <3>7 DEF Interrupt, callVars
    <3>8. QED BY <1>2, <3>3, <3>4, <3>5, <3>6, <3>7 DEF Kernel
  <2>2. ASSUME NEW v \in Users, v # u PROVE SameCallOf(v)
    BY <1>0, <1>2, <2>2, OthersKeep
  <2>3. QED BY <2>1, <2>2 DEF Idle, SameCallOf
<1>3. QED BY <1>1, <1>2 DEF Next

\* head, tail and count always describe the same bytes.
THEOREM RingStaysCoherent == Spec => []RingCoherent
<1>1. Init => RingCoherent
  BY ConstantsAssumption DEF Init, RingCoherent, Wrap
<1>2. QED BY <1>1, RingStep, CallsInvHolds, PTL DEF Spec

LEMMA FifoInvHolds == Spec => []FifoInv
<1>1. Init => Idle BY DEF Init, Idle
<1>2. Spec => []Idle BY <1>1, IdleStep, CallsInvHolds, PTL DEF Spec
<1>3. QED BY <1>2, CallsInvHolds, RingStaysCoherent, PTL DEF FifoInv

------------------------------------------------------------------------------
(* Step simulation *)

\* The abstract variables, as in Fifo's refinement mapping.
Out(u)  == IF op[u] \in ReadOps THEN tmp[u] ELSE <<>>
Given(u) == IF op[u] \in ReadOps THEN total[u] ELSE 0
Sent(u) == IF op[u] \in WriteOps THEN total[u] ELSE 0
AbsOut  == [u \in Users |-> Out(u)]
AbsGiven == [u \in Users |-> Given(u)]
AbsSent == [u \in Users |-> Sent(u)]
AbsFifo == Oldest(count)

SameBytes == AbsFifo' = AbsFifo
SameFlight(u) == Out(u)' = Out(u) /\ Given(u)' = Given(u) /\ Sent(u)' = Sent(u)

LEMMA RingKept == UNCHANGED ringVars => SameBytes
BY DEF ringVars, SameBytes, AbsFifo, Oldest, Wrap

\* A step of u changes what is in flight for u alone.
LEMMA FlightOf ==
    ASSUME CallTypeOK, NEW u \in Users,
           Program(u) \/ Kernel(u) \/ PollTimeout(u) \/ Interrupt(u)
    PROVE  /\ AbsOut' = [AbsOut EXCEPT ![u] = Out(u)']
           /\ AbsGiven' = [AbsGiven EXCEPT ![u] = Given(u)']
           /\ AbsSent' = [AbsSent EXCEPT ![u] = Sent(u)']
           /\ seq' = seq
<1>1. ASSUME NEW v \in Users, v # u PROVE SameFlight(v)
  <2>1. SameCallOf(v) BY <1>1, OthersKeep
  <2>2. QED BY <2>1 DEF SameCallOf, SameFlight, Out, Given, Sent
<1>2. seq' = seq
  BY DEF Program, Open, Release, SetAsync, Read, Write, Poll, Kernel, InRead,
     Pop, ReadWait, ReadCheck, ReadWoken, CopyOut, CopyOutFaults, KillOut,
     InWrite, CopyIn, CopyInFaults, Push, WriteWait, WriteCheck, WriteWoken,
     WakeIn, KillIn, InPoll, PollMask, PollWoken, PollLast, PollTimeout,
     ReleaseCount, Handle, Interrupt
<1>3. QED BY <1>1, <1>2 DEF AbsOut, AbsGiven, AbsSent, SameFlight

\* Steps that move no byte.
LEMMA Stutter ==
    ASSUME CallTypeOK, NEW u \in Users,
           Program(u) \/ Kernel(u) \/ PollTimeout(u) \/ Interrupt(u),
           SameBytes, SameFlight(u)
    PROVE  UNCHANGED Fifo!fifoVars
<1>1. /\ AbsOut' = AbsOut /\ AbsGiven' = AbsGiven /\ AbsSent' = AbsSent
      /\ seq' = seq
  BY FlightOf DEF SameFlight, AbsOut, AbsGiven, AbsSent
<1>2. QED BY <1>1 DEF Fifo!fifoVars, SameBytes, AbsFifo, AbsOut, AbsGiven,
                      AbsSent, Out, Given, Sent

LEMMA ProducerSim ==
    ASSUME FifoInv, Producer, TypeInv'
    PROVE  Fifo!Next \/ UNCHANGED Fifo!fifoVars
<1>0. /\ count \in 0..RingSize /\ RingSize \in Nat \ {0} /\ seq \in Byte
      /\ DeviceTypeOK /\ RingCoherent /\ DeviceTypeOK'
  BY ConstantsAssumption DEF FifoInv, CallsInv, TypeInv, DeviceTypeOK
<1>1. AbsOut' = AbsOut /\ AbsGiven' = AbsGiven /\ AbsSent' = AbsSent
  BY DEF Producer, Produce, ProducerWake, ProducerKill, callVars, AbsOut,
         AbsGiven, AbsSent, Out, Given, Sent
<1>2. CASE Produce /\ count < RingSize
  <2>1. <<seq>> \in Seq(Byte) /\ Len(<<seq>>) = 1 BY <1>0
  <2>2. /\ RingPush(<<seq>>, 1) /\ 1 \in 0..Len(<<seq>>)
        /\ 1 <= RingSize - count
    BY <1>0, <1>2, <2>1 DEF Produce
  <2>3. AbsFifo' = AbsFifo \o SubSeq(<<seq>>, 1, 1)
    <3> HIDE <2>1, <2>2
    <3>1. <<seq>> \in Seq(Byte) BY <2>1
    <3>2. RingPush(<<seq>>, 1) BY <2>2
    <3>3. QED BY <1>0, <2>2, <3>1, <3>2, PushAppends, Zenon DEF AbsFifo
  <2>4. AbsFifo \in Seq(Byte) /\ Len(AbsFifo) = count
    BY <1>0, OldestType DEF AbsFifo
  <2>5. SubSeq(<<seq>>, 1, 1) = <<seq>> BY <2>1, SubSeqFull
  <2>6. AbsFifo' = Append(AbsFifo, seq)
    BY <1>0, <2>3, <2>4, <2>5, AppendIsConcat
  <2>7. seq' = (seq + 1) % SeqMod BY <1>2 DEF Produce
  <2>8. Fifo!Produce
    BY <1>1, <1>2, <2>4, <2>6, <2>7
    DEF Fifo!Produce, AbsFifo, AbsOut, AbsGiven, AbsSent, Out, Given, Sent
  <2>9. QED BY <2>8 DEF Fifo!Next
<1>3. CASE Produce /\ count = RingSize
  <2>1. UNCHANGED ringVars /\ seq' = (seq + 1) % SeqMod
    BY <1>0, <1>3 DEF Produce
  <2>2. AbsFifo' = AbsFifo BY <2>1, RingKept DEF SameBytes
  <2>3. Len(AbsFifo) = RingSize BY <1>0, <1>3, OldestType DEF AbsFifo
  <2>4. Fifo!Drop
    BY <1>1, <2>1, <2>2, <2>3
    DEF Fifo!Drop, AbsFifo, AbsOut, AbsGiven, AbsSent, Out, Given, Sent
  <2>5. QED BY <2>4 DEF Fifo!Next
<1>4. CASE ProducerWake \/ ProducerKill
  <2>1. UNCHANGED ringVars /\ seq' = seq
    BY <1>4 DEF ProducerWake, ProducerKill
  <2>2. AbsFifo' = AbsFifo BY <2>1, RingKept DEF SameBytes
  <2>3. QED BY <1>1, <2>1, <2>2 DEF Fifo!fifoVars, AbsFifo, AbsOut, AbsGiven,
                                    AbsSent, Out, Given, Sent
<1>5. count < RingSize \/ count = RingSize BY <1>0
<1>6. QED BY <1>2, <1>3, <1>4, <1>5 DEF Producer

\* The ends of calls: nothing is in flight afterwards.
LEMMA ReturnFlight ==
    ASSUME CallTypeOK, NEW u \in Users, NEW r, Return(u, r)
    PROVE  Out(u)' = <<>> /\ Given(u)' = 0 /\ Sent(u)' = 0
BY DEF CallTypeOK, Return, Out, Given, Sent

\* A call that holds no bytes and ends takes its counts with it.
LEMMA FinishSim ==
    ASSUME CallTypeOK, NEW u \in Users, Kernel(u), UNCHANGED ringVars,
           Out(u) = <<>>, NEW r, Return(u, r)
    PROVE  Fifo!Next
<1>1. Out(u)' = <<>> /\ Given(u)' = 0 /\ Sent(u)' = 0 BY ReturnFlight
<1>2. AbsOut' = AbsOut /\ AbsOut[u] = <<>> BY <1>1, FlightOf DEF AbsOut
<1>3. /\ AbsGiven' = [AbsGiven EXCEPT ![u] = 0]
      /\ AbsSent' = [AbsSent EXCEPT ![u] = 0]
      /\ seq' = seq
  BY <1>1, FlightOf
<1>4. AbsFifo' = AbsFifo BY RingKept DEF SameBytes
<1>5. Fifo!Finish(u)
  BY <1>2, <1>3, <1>4
  DEF Fifo!Finish, AbsFifo, AbsOut, AbsGiven, AbsSent, Out, Given, Sent
<1>6. QED BY <1>5 DEF Fifo!Next

LEMMA ReadSim ==
    ASSUME FifoInv, NEW u \in Users, InRead(u), TypeInv'
    PROVE  Fifo!Next \/ UNCHANGED Fifo!fifoVars
<1>0. /\ CallTypeOK /\ DeviceTypeOK /\ InCallOK(u) /\ DeviceTypeOK'
      /\ count \in 0..RingSize /\ RingSize \in Nat \ {0}
      /\ total[u] \in Nat /\ want[u] \in Nat /\ Kernel(u)
      /\ pc \in [Users -> Pcs] /\ tmp \in [Users -> Seq(Byte)]
  BY ConstantsAssumption DEF FifoInv, CallsInv, TypeInv, CallInv, CallTypeOK,
     DeviceTypeOK, Kernel
<1>1. pc[u] \in ReadPcs /\ op[u] \in ReadOps /\ op' = op
  <2>1. pc[u] \in ReadPcs
    BY DEF InRead, Pop, ReadWait, ReadCheck, ReadWoken, CopyOut, CopyOutFaults,
           KillOut, ReadPcs
  <2>2. op' = op
    BY DEF InRead, Pop, ReadWait, ReadCheck, ReadWoken, CopyOut, CopyOutFaults,
           KillOut, MovedNothing, Return, Goto
  <2>3. QED BY <1>0, <2>1, <2>2 DEF InCallOK, InReadOK
<1>2. /\ Out(u) = tmp[u] /\ Out(u)' = tmp'[u]
      /\ Given(u) = total[u] /\ Given(u)' = total'[u]
      /\ Sent(u) = 0 /\ Sent(u)' = 0
  BY <1>1 DEF Out, Given, Sent, ReadOps, WriteOps
<1>3. ASSUME UNCHANGED ringVars, tmp[u] = <<>>,
             (\E place : Goto(u, place)) \/ (\E r : Return(u, r))
      PROVE  Fifo!Next \/ UNCHANGED Fifo!fifoVars
  <2>1. ASSUME NEW place, Goto(u, place) PROVE UNCHANGED Fifo!fifoVars
    BY <1>0, <1>2, <1>3, <2>1, RingKept, Stutter DEF SameFlight, Goto
  <2>2. ASSUME NEW r, Return(u, r) PROVE Fifo!Next
    BY <1>0, <1>2, <1>3, <2>2, FinishSim
  <2>3. QED BY <1>3, <2>1, <2>2
<1>4. CASE Pop(u)
  <2> DEFINE n == AtMost(AtMost(want[u] - total[u], RingSize), count)
  <2>1. tmp[u] = <<>> BY <1>0, <1>4 DEF Pop, InCallOK, InReadOK, ReadWaits
  <2>2. n \in Int /\ n <= count BY <1>0 DEF AtMost
  <2>3. CASE n > 0 /\ RingPop(n) /\ tmp' = [tmp EXCEPT ![u] = Oldest(n)]
    <3> HIDE DEF n
    <3>1. n \in 0..count /\ n \in 1..count /\ n \in 1..RingSize
      BY <1>0, <2>2, <2>3
    <3>2. /\ Oldest(n) = SubSeq(AbsFifo, 1, n)
          /\ AbsFifo' = SubSeq(AbsFifo, n + 1, Len(AbsFifo))
      BY <1>0, <2>3, <3>1, PopTakes DEF AbsFifo
    <3>3. Len(AbsFifo) = count BY <1>0, OldestType DEF AbsFifo
    <3>4. tmp'[u] = Oldest(n) BY <1>0, <2>3
    <3>5. AbsOut' = [AbsOut EXCEPT ![u] = SubSeq(AbsFifo, 1, n)]
      BY <1>0, <1>2, <3>2, <3>4, FlightOf
    <3>6. AbsGiven' = AbsGiven /\ AbsSent' = AbsSent /\ seq' = seq
      <4>1. total' = total BY <1>4, <2>3 DEF Pop, n
      <4>2. QED BY <1>0, <1>2, <4>1, FlightOf DEF AbsGiven, AbsSent
    <3>7. AbsOut[u] = <<>> BY <1>2, <2>1 DEF AbsOut
    <3>8. PICK m \in 1..RingSize : m = n BY <3>1
    <3>9. Fifo!Take(u, m)
      BY <3>1, <3>2, <3>3, <3>5, <3>6, <3>7, <3>8
      DEF Fifo!Take, AbsFifo, AbsOut, AbsGiven, AbsSent, Out, Given, Sent
    <3>10. QED BY <3>9 DEF Fifo!Next
  <2>4. CASE MovedNothing(u, "readwait") /\ UNCHANGED ringVars
    BY <1>3, <2>1, <2>4 DEF MovedNothing
  <2>5. QED BY <1>4, <2>3, <2>4 DEF Pop, n
<1>5. CASE ReadWait(u) \/ ReadCheck(u) \/ ReadWoken(u)
  <2>1. tmp[u] = <<>>
    BY <1>0, <1>5 DEF ReadWait, ReadCheck, ReadWoken, InCallOK, InReadOK,
                      ReadWaits
  <2>2. QED BY <1>3, <1>5, <2>1 DEF ReadWait, ReadCheck, ReadWoken
<1>6. CASE CopyOut(u)
  <2>1. /\ tmp'[u] = <<>> /\ UNCHANGED ringVars
        /\ total'[u] = total[u] + Len(tmp[u])
    BY <1>0, <1>6 DEF CopyOut, CallTypeOK
  <2>2. AbsOut' = [AbsOut EXCEPT ![u] = <<>>]
    BY <1>0, <1>2, <2>1, FlightOf
  <2>3. AbsGiven' = [AbsGiven EXCEPT ![u] = @ + Len(AbsOut[u])]
    <3>1. AbsGiven[u] = total[u] /\ AbsOut[u] = tmp[u]
      BY <1>2 DEF AbsGiven, AbsOut
    <3>2. QED BY <1>0, <1>2, <2>1, <3>1, FlightOf
  <2>4. AbsSent' = AbsSent /\ seq' = seq
    BY <1>0, <1>2, FlightOf DEF AbsSent
  <2>5. AbsFifo' = AbsFifo BY <2>1, RingKept DEF SameBytes
  <2>6. Fifo!Deliver(u)
    BY <2>2, <2>3, <2>4, <2>5
    DEF Fifo!Deliver, AbsFifo, AbsOut, AbsGiven, AbsSent, Out, Given, Sent
  <2>7. QED BY <2>6 DEF Fifo!Next
<1>7. CASE CopyOutFaults(u)
  <2>1. /\ tmp'[u] = <<>> /\ total'[u] = 0 /\ UNCHANGED ringVars
        /\ u \in Faulty
    BY <1>0, <1>7 DEF CopyOutFaults, Return, CallTypeOK
  <2>2. /\ AbsOut' = [AbsOut EXCEPT ![u] = <<>>]
        /\ AbsGiven' = [AbsGiven EXCEPT ![u] = 0]
    BY <1>0, <1>2, <2>1, FlightOf
  <2>3. AbsSent' = AbsSent /\ seq' = seq
    BY <1>0, <1>2, FlightOf DEF AbsSent
  <2>4. AbsFifo' = AbsFifo BY <2>1, RingKept DEF SameBytes
  <2>5. Fifo!Lose(u)
    BY <2>1, <2>2, <2>3, <2>4
    DEF Fifo!Lose, AbsFifo, AbsOut, AbsGiven, AbsSent, Out, Given, Sent
  <2>6. QED BY <2>5 DEF Fifo!Next
<1>8. CASE KillOut(u)
  <2>1. tmp[u] = <<>> BY <1>0, <1>8 DEF KillOut, InCallOK, InReadOK
  <2>2. QED BY <1>3, <1>8, <2>1 DEF KillOut
<1>9. QED BY <1>4, <1>5, <1>6, <1>7, <1>8 DEF InRead

LEMMA WriteSim ==
    ASSUME FifoInv, NEW u \in Users, InWrite(u), TypeInv'
    PROVE  Fifo!Next \/ UNCHANGED Fifo!fifoVars
<1>0. /\ CallTypeOK /\ DeviceTypeOK /\ InCallOK(u) /\ DeviceTypeOK'
      /\ RingCoherent
      /\ count \in 0..RingSize /\ RingSize \in Nat \ {0} /\ MaxLen \in Nat
      /\ total[u] \in Nat /\ want[u] \in 0..MaxLen /\ Kernel(u)
      /\ total[u] + Len(tmp[u]) <= want[u]
      /\ pc \in [Users -> Pcs] /\ tmp \in [Users -> Seq(Byte)]
      /\ total \in [Users -> 0..MaxLen]
      /\ Payload[u] \in [1..MaxLen -> Byte]
  BY ConstantsAssumption DEF FifoInv, CallsInv, TypeInv, CallInv, CallTypeOK,
     Bounded, DeviceTypeOK, Kernel
<1>1. pc[u] \in WritePcs /\ op[u] \in WriteOps /\ op' = op
  <2>1. pc[u] \in WritePcs
    BY DEF InWrite, CopyIn, CopyInFaults, Push, WriteWait, WriteCheck,
           WriteWoken, WakeIn, KillIn, WritePcs
  <2>2. op' = op
    BY DEF InWrite, CopyIn, CopyInFaults, Push, WriteWait, WriteCheck,
           WriteWoken, WakeIn, KillIn, MovedNothing, Return, Goto
  <2>3. QED BY <1>0, <2>1, <2>2 DEF InCallOK, InWriteOK
<1>2. /\ Out(u) = <<>> /\ Out(u)' = <<>> /\ Given(u) = 0 /\ Given(u)' = 0
      /\ Sent(u) = total[u] /\ Sent(u)' = total'[u]
  BY <1>1 DEF Out, Given, Sent, ReadOps, WriteOps
<1>3. ASSUME UNCHANGED ringVars, total' = total
      PROVE  UNCHANGED Fifo!fifoVars
  BY <1>0, <1>2, <1>3, RingKept, Stutter DEF SameFlight
<1>4. ASSUME UNCHANGED ringVars, NEW place, MovedNothing(u, place)
      PROVE  Fifo!Next \/ UNCHANGED Fifo!fifoVars
  BY <1>0, <1>2, <1>3, <1>4, FinishSim DEF MovedNothing, Goto
<1>5. CASE Push(u)
  <2> DEFINE n == AtMost(Len(tmp[u]), RingSize - count)
  <2>1. n \in Int /\ n <= Len(tmp[u]) /\ n <= RingSize - count
    BY <1>0 DEF AtMost
  <2>2. CASE /\ n > 0 /\ RingPush(tmp[u], n)
             /\ total' = [total EXCEPT ![u] = @ + n]
    <3> HIDE DEF n
    <3>1. n \in 0..Len(tmp[u]) /\ n \in 1..RingSize
      BY <1>0, <2>1, <2>2
    <3>2. PICK m \in 1..RingSize : m = n BY <3>1
    <3>3. tmp[u] \in Seq(Byte) BY <1>0
    <3>4. AbsFifo' = AbsFifo \o SubSeq(tmp[u], 1, m)
      <4>1. m \in 0..Len(tmp[u]) /\ m <= RingSize - count BY <2>1, <3>1, <3>2
      <4>2. RingPush(tmp[u], m) BY <2>2, <3>2
      <4>3. QED BY <1>0, <3>3, <4>1, <4>2, PushAppends, Zenon DEF AbsFifo
    <3>5. AbsFifo \in Seq(Byte) /\ Len(AbsFifo) = count
      BY <1>0, OldestType DEF AbsFifo
    <3>6. SubSeq(tmp[u], 1, m)
          = SubSeq(Payload[u], total[u] + 1, total[u] + m)
      <4> DEFINE s == SubSeq(tmp[u], 1, m)
                 t == SubSeq(Payload[u], total[u] + 1, total[u] + m)
      <4>1. Offers(u)
        BY <1>0, <1>1 DEF InCallOK, InWriteOK
      <4>2. /\ s \in Seq(Byte) /\ Len(s) = m
            /\ \A i \in 1..m : s[i] = tmp[u][i]
        <5>1. \A i \in 1..m : tmp[u][i] \in Byte
          BY <3>1, <3>2, <3>3, ElementOfSeq
        <5>2. QED BY <5>1, SubSeqProperties
      <4>3. /\ t \in Seq(Byte) /\ Len(t) = m
            /\ \A i \in 1..m : t[i] = Payload[u][total[u] + i]
        <5>1. \A i \in total[u] + 1 .. total[u] + m : Payload[u][i] \in Byte
          BY <1>0, <3>1, <3>2
        <5> DEFINE a == total[u] + 1
                   b == total[u] + m
        <5>2. a \in Int /\ b \in Int /\ b - a + 1 = m /\ a <= b
          BY <1>0
        <5>3. \A i \in 1..m : a + i - 1 = total[u] + i
          BY <1>0
        <5> HIDE DEF a, b
        <5>4. /\ SubSeq(Payload[u], a, b) \in Seq(Byte)
              /\ Len(SubSeq(Payload[u], a, b)) = m
              /\ \A i \in 1..m : SubSeq(Payload[u], a, b)[i]
                                 = Payload[u][a + i - 1]
          <6>1. \A i \in a..b : Payload[u][i] \in Byte BY <5>1 DEF a, b
          <6>2. QED BY <5>2, <6>1, SubSeqProperties
        <5>5. QED BY <5>3, <5>4 DEF a, b
      <4>4. \A i \in 1..m : tmp[u][i] = Payload[u][total[u] + i]
        BY <1>0, <3>1, <3>2, <4>1 DEF Offers
      <4> HIDE DEF s, t
      <4>5. s = t BY <4>2, <4>3, <4>4, SeqEqual
      <4>6. QED BY <4>5 DEF s, t
    <3>7. AbsOut' = AbsOut /\ AbsGiven' = AbsGiven /\ seq' = seq
      BY <1>0, <1>2, FlightOf DEF AbsOut, AbsGiven
    <3>8. AbsSent' = [AbsSent EXCEPT ![u] = @ + m] /\ AbsSent[u] = total[u]
      <4>1. Sent(u)' = total[u] + m BY <1>0, <1>2, <2>2, <3>2
      <4>2. AbsSent[u] = total[u] BY <1>2 DEF AbsSent
      <4>3. AbsSent' = [AbsSent EXCEPT ![u] = Sent(u)'] BY <1>0, FlightOf
      <4>4. QED BY <4>1, <4>2, <4>3
    <3>9. /\ Len(AbsFifo) + m <= RingSize
          /\ AbsSent[u] + m \in DOMAIN Payload[u]
      BY <1>0, <2>1, <3>1, <3>2, <3>5, <3>8
    <3>10. AbsFifo' = AbsFifo \o SubSeq(Payload[u], AbsSent[u] + 1,
                                        AbsSent[u] + m)
      BY <3>4, <3>6, <3>8
    <3>11. Fifo!Put(u, m)
      BY <3>7, <3>8, <3>9, <3>10
      DEF Fifo!Put, AbsFifo, AbsOut, AbsGiven, AbsSent, Out, Given, Sent
    <3>12. QED BY <3>11 DEF Fifo!Next
  <2>3. CASE MovedNothing(u, "writewait") /\ UNCHANGED ringVars
    BY <1>4, <2>3
  <2>4. QED BY <1>5, <2>2, <2>3 DEF Push, n
<1>6. CASE WriteWait(u) \/ WriteCheck(u) \/ WriteWoken(u)
  BY <1>0, <1>2, <1>3, <1>6, FinishSim
  DEF WriteWait, WriteCheck, WriteWoken, Goto
<1>7. CASE CopyIn(u) \/ WakeIn(u)
  BY <1>3, <1>7 DEF CopyIn, WakeIn, Goto
<1>8. CASE CopyInFaults(u) \/ KillIn(u)
  BY <1>0, <1>2, <1>3, <1>8, FinishSim DEF CopyInFaults, KillIn, Goto
<1>9. QED BY <1>5, <1>6, <1>7, <1>8 DEF InWrite

LEMMA OtherSim ==
    ASSUME FifoInv, NEW u \in Users,
           Program(u) \/ InPoll(u) \/ ReleaseCount(u) \/ Handle(u)
           \/ PollTimeout(u) \/ Interrupt(u)
    PROVE  UNCHANGED Fifo!fifoVars
<1>0. CallTypeOK BY DEF FifoInv, CallsInv, TypeInv, CallInv
<1>1. UNCHANGED ringVars
  BY DEF Program, Open, Release, SetAsync, Read, Write, Poll, InPoll, PollMask,
     PollWoken, PollLast, PollTimeout, ReleaseCount, Handle, Interrupt
<1>2. SameFlight(u)
  <2>1. CASE Interrupt(u) \/ \E mode \in OpenModes : Open(u, mode)
    BY <2>1 DEF Interrupt, Open, callVars, SameFlight, Out, Given, Sent
  <2>2. CASE ~(Interrupt(u) \/ \E mode \in OpenModes : Open(u, mode))
    <3>1. pc[u] \in {"user", "release"} \union PollPcs
      BY <2>2 DEF Program, Open, Release, SetAsync, Read, Write, Poll, InPoll,
         PollMask, PollWoken, PollLast, PollTimeout, ReleaseCount, Handle,
         InUserMode, PollPcs
    <3>2. pc[u] \notin ReadPcs \union WritePcs
      BY <3>1 DEF PollPcs, ReadPcs, WritePcs
    <3>3. total[u] = 0 /\ tmp[u] = <<>> BY <3>2 DEF FifoInv, Idle
    <3>4. total'[u] = 0 /\ tmp'[u] = <<>>
      <4>1. ASSUME NEW r, Return(u, r) PROVE total'[u] = 0 /\ tmp'[u] = <<>>
        BY <1>0, <4>1 DEF Return, CallTypeOK
      <4>2. QED
        BY <2>2, <3>3, <4>1 DEF Program, Release, SetAsync, Read, Write, Poll,
           InPoll, PollMask, PollWoken, PollLast, PollTimeout, PollReturn,
           ReleaseCount, Handle, Goto, Enter
    <3>5. QED BY <3>3, <3>4 DEF SameFlight, Out, Given, Sent
  <2>3. QED BY <2>1, <2>2
<1>3. QED BY <1>0, <1>1, <1>2, RingKept, Stutter DEF Kernel

LEMMA FifoStep ==
    ASSUME FifoInv, [Next]_vars PROVE [Fifo!Next]_(Fifo!fifoVars)
<1>1. TypeInv' BY NextTypeInv DEF FifoInv, CallsInv
<1>2. CASE Producer BY <1>1, <1>2, ProducerSim
<1>3. ASSUME NEW u \in Users,
             Program(u) \/ Kernel(u) \/ PollTimeout(u) \/ Interrupt(u)
      PROVE  [Fifo!Next]_(Fifo!fifoVars)
  BY <1>1, <1>3, ReadSim, WriteSim, OtherSim DEF Kernel
<1>4. CASE UNCHANGED vars
  BY <1>4 DEF vars, ringVars, callVars, Fifo!fifoVars, Oldest, Wrap
<1>5. QED BY <1>2, <1>3, <1>4 DEF Next

\* The driver implements the abstract FIFO: no byte is duplicated, skipped or
\* reordered between ring_push and ring_pop, in requests of any length; only a
\* faulting read loses bytes, and the producer skips one only on a full ring.
THEOREM DriverImplementsFifo == Spec => ImplementsFifo
<1>1. Init => Fifo!Init
  <2>1. ASSUME Init PROVE Oldest(count) = <<>>
    <3>1. DeviceTypeOK /\ count = 0
      BY <2>1, InitTypeInv DEF TypeInv, Init
    <3>2. Oldest(count) \in Seq(Byte) /\ Len(Oldest(count)) = 0
      BY <3>1, OldestType
    <3>3. QED BY <3>2
  <2>2. ASSUME Init
        PROVE  \A u \in Users : op[u] \notin ReadOps \union WriteOps
    BY <2>2 DEF Init, ReadOps, WriteOps
  <2>3. Init => seq = 0 BY DEF Init
  <2>4. QED BY <2>1, <2>2, <2>3 DEF Fifo!Init
<1>2. QED BY <1>1, FifoStep, FifoInvHolds, PTL
          DEF Spec, ImplementsFifo, Fifo!Spec
===============================================================================
