----------------------------- MODULE AdvIoProofs ------------------------------
(***************************************************************************)
(* Theorems about AdvIo for any number of processes, any RING_SIZE, any    *)
(* request length and any payload.                                         *)
(***************************************************************************)
EXTENDS AdvIo, TLAPS

\* A call never moves more than it was asked for: what it has moved and what
\* its kernel buffer still holds fit into the request; outside a call nothing
\* is left of it.
Bounded ==
    \A u \in Users :
        /\ total[u] + Len(tmp[u]) <= want[u]
        /\ pc[u] = "user" => total[u] = 0 /\ tmp[u] = <<>>

CallInv == CallTypeOK /\ Bounded
TypeInv == DeviceTypeOK /\ CallInv

------------------------------------------------------------------------------
(* The ring helpers *)

\* A function on 1..n with values in S is a sequence over S of length n.
LEMMA SeqOf ==
    ASSUME NEW S, NEW n \in Nat, NEW f, f \in [1..n -> S]
    PROVE  f \in Seq(S) /\ Len(f) = n
PROOF OBVIOUS

\* Cutting the first n elements off a sequence.
LEMMA Rest ==
    ASSUME NEW S, NEW s \in Seq(S), NEW n \in 1..Len(s)
    PROVE  /\ SubSeq(s, n + 1, Len(s)) \in Seq(S)
           /\ Len(SubSeq(s, n + 1, Len(s))) = Len(s) - n
PROOF OBVIOUS

\* The oldest n bytes of the ring are a sequence of n bytes.
LEMMA OldestType ==
    ASSUME DeviceTypeOK, NEW n \in 0..count
    PROVE  Oldest(n) \in Seq(Byte) /\ Len(Oldest(n)) = n
<1>1. ASSUME NEW i \in 1..n PROVE Wrap(tail + i - 1) \in Slots
  BY ConstantsAssumption DEF DeviceTypeOK, Slots, Wrap
<1>2. Oldest(n) \in [1..n -> Byte]
  BY <1>1 DEF Oldest, DeviceTypeOK
<1>3. QED BY <1>2, SeqOf DEF DeviceTypeOK

\* ring_push keeps the ring well-typed.
LEMMA RingPushType ==
    ASSUME DeviceTypeOK, NEW s \in Seq(Byte), NEW n \in 0..Len(s),
           n <= RingSize - count, RingPush(s, n)
    PROVE  /\ ring' \in [Slots -> Byte]
           /\ head' \in Slots /\ tail' \in Slots /\ count' \in 0..RingSize
           /\ count' = count + n
<1>1. head' \in Slots
  BY ConstantsAssumption DEF DeviceTypeOK, RingPush, Wrap, Slots
<1>2. ASSUME NEW i \in Slots
      PROVE  (LET off == Wrap(i + RingSize - head)
              IN  IF off < n THEN s[off + 1] ELSE ring[i]) \in Byte
  <2>1. Wrap(i + RingSize - head) \in Nat
    BY ConstantsAssumption DEF DeviceTypeOK, Wrap, Slots
  <2>2. CASE Wrap(i + RingSize - head) < n
    <3>1. Wrap(i + RingSize - head) + 1 \in 1..Len(s)
      BY <2>1, <2>2
    <3>2. QED BY <3>1, <2>2
  <2>3. CASE ~(Wrap(i + RingSize - head) < n)
    BY <2>3 DEF DeviceTypeOK
  <2>4. QED BY <2>2, <2>3
<1>3. ring' \in [Slots -> Byte]
  BY <1>2 DEF RingPush
<1>4. QED BY <1>1, <1>3, ConstantsAssumption DEF DeviceTypeOK, RingPush

\* ring_pop keeps the ring well-typed.
LEMMA RingPopType ==
    ASSUME DeviceTypeOK, NEW n \in 0..count, RingPop(n)
    PROVE  /\ ring' \in [Slots -> Byte]
           /\ head' \in Slots /\ tail' \in Slots /\ count' \in 0..RingSize
           /\ count' = count - n
BY ConstantsAssumption DEF DeviceTypeOK, RingPop, Wrap, Slots

------------------------------------------------------------------------------
(* Calls: returning, moving on, entering *)

LEMMA ReturnCall ==
    ASSUME CallInv, NEW u \in Users, NEW r \in Int, Return(u, r)
    PROVE  CallInv'
BY ConstantsAssumption
DEF CallInv, CallTypeOK, Bounded, Return, Pcs, UserPcs

LEMMA GotoCall ==
    ASSUME CallInv, NEW u \in Users, NEW place \in Pcs, place # "user",
           Goto(u, place)
    PROVE  CallInv'
BY DEF CallInv, CallTypeOK, Bounded, Goto

LEMMA EnterCall ==
    ASSUME CallInv, NEW u \in Users, pc[u] = "user",
           NEW k \in CallKinds \union {"none"}, NEW n \in 0..MaxLen,
           NEW place \in Pcs, Enter(u, k, n, place)
    PROVE  CallInv'
<1>1. CallTypeOK'
  BY ConstantsAssumption DEF CallInv, CallTypeOK, Enter
<1>2. ASSUME NEW v \in Users
      PROVE  /\ total'[v] + Len(tmp'[v]) <= want'[v]
             /\ pc'[v] = "user" => total'[v] = 0 /\ tmp'[v] = <<>>
  <2>1. total'[v] = total[v] /\ tmp'[v] = tmp[v] BY DEF Enter
  <2>2. CASE v = u
    <3>1. total[v] = 0 /\ tmp[v] = <<>> /\ Len(tmp[v]) = 0
      BY <2>2 DEF CallInv, Bounded
    <3>2. want'[v] = n BY <2>2 DEF Enter, CallInv, CallTypeOK
    <3>3. QED BY <2>1, <3>1, <3>2, ConstantsAssumption
  <2>3. CASE v # u
    <3>1. want'[v] = want[v] /\ pc'[v] = pc[v]
      BY <2>3 DEF Enter, CallInv, CallTypeOK
    <3>2. QED BY <2>1, <3>1 DEF CallInv, Bounded
  <2>4. QED BY <2>2, <2>3
<1>3. QED BY <1>1, <1>2 DEF CallInv, Bounded

LEMMA SameCall == CallInv /\ UNCHANGED callVars => CallInv'
BY DEF CallInv, CallTypeOK, Bounded, callVars

\* A locked section that moves nothing only ends or suspends its call.
LEMMA MovedNothingCall ==
    ASSUME CallInv, NEW u \in Users, NEW place \in Pcs, place # "user",
           MovedNothing(u, place)
    PROVE  CallInv'
<1>1. CASE Return(u, total[u])
  BY <1>1, ReturnCall DEF CallInv, CallTypeOK
<1>2. CASE Return(u, EAGAIN)
  BY <1>2, ReturnCall DEF EAGAIN
<1>3. CASE Goto(u, place)
  BY <1>3, GotoCall
<1>4. QED BY <1>1, <1>2, <1>3 DEF MovedNothing

------------------------------------------------------------------------------
(* Type correctness *)

LEMMA InitTypeInv == Init => TypeInv
<1> SUFFICES ASSUME Init PROVE TypeInv OBVIOUS
<1>1. 0 \in Slots /\ 0 \in Byte
  BY ConstantsAssumption DEF Slots, Byte
<1>2. DeviceTypeOK
  BY <1>1, ConstantsAssumption DEF Init, DeviceTypeOK
<1>3. CallInv
  BY ConstantsAssumption DEF Init, CallInv, CallTypeOK, Bounded, Pcs, UserPcs
<1>4. QED BY <1>2, <1>3 DEF TypeInv

\* The steps of the work item.
LEMMA ProducerTypeInv == TypeInv /\ Producer => TypeInv'
<1> SUFFICES ASSUME TypeInv, Producer PROVE TypeInv' OBVIOUS
<1> USE DEF TypeInv
<1>1. UNCHANGED callVars
  BY DEF Producer, Produce, ProducerWake, ProducerKill
<1>2. CASE Produce
  <2>1. seq' \in Byte
    BY <1>2, ConstantsAssumption DEF Produce, Byte, DeviceTypeOK
  <2>2. /\ ring' \in [Slots -> Byte]
        /\ head' \in Slots /\ tail' \in Slots /\ count' \in 0..RingSize
    <3>1. CASE count < RingSize
      <4>1. RingPush(<<seq>>, 1) BY <1>2, <3>1 DEF Produce
      <4>2. <<seq>> \in Seq(Byte) /\ 1 \in 0..Len(<<seq>>) BY DEF DeviceTypeOK
      <4>3. 1 <= RingSize - count
        BY <3>1, ConstantsAssumption DEF DeviceTypeOK
      <4>4. QED BY <4>1, <4>2, <4>3, RingPushType
    <3>2. CASE ~(count < RingSize)
      BY <1>2, <3>2 DEF Produce, ringVars, DeviceTypeOK
    <3>3. QED BY <3>1, <3>2
  <2>3. DeviceTypeOK'
    BY <1>2, <2>1, <2>2 DEF Produce, DeviceTypeOK, fileVars, wqVars, sigVars
  <2>4. QED BY <1>1, <2>3, SameCall
<1>3. CASE ProducerWake
  BY <1>1, <1>3, SameCall
  DEF ProducerWake, WakeReaders, DeviceTypeOK, ringVars, fileVars, sigVars
<1>4. CASE ProducerKill
  BY <1>1, <1>4, SameCall
  DEF ProducerKill, KillFasync, DeviceTypeOK, ringVars, fileVars, wqVars
<1>5. QED BY <1>2, <1>3, <1>4 DEF Producer

\* The steps a program takes outside the driver's transfer and poll handlers.
LEMMA ProgramTypeInv ==
    ASSUME TypeInv, NEW u \in Users, Program(u) \/ Interrupt(u)
    PROVE  TypeInv'
<1> USE DEF TypeInv
<1>0. 0 \in 0..MaxLen /\ 0 \in Int
  BY ConstantsAssumption
<1>1. ASSUME NEW mode \in OpenModes, Open(u, mode) PROVE TypeInv'
  BY <1>1, SameCall DEF Open, DeviceTypeOK, ringVars, wqVars, sigVars
<1>2. CASE Release(u)
  <2>1. CallInv'
    BY <1>0, <1>2, EnterCall DEF Release, InUserMode, Pcs, UserPcs
  <2>2. QED BY <1>2, <2>1
            DEF Release, DeviceTypeOK, ringVars, fileVars, wqVars
<1>3. ASSUME NEW on \in BOOLEAN, SetAsync(u, on) PROVE TypeInv'
  <2>1. CallInv'
    BY <1>0, <1>3, EnterCall DEF SetAsync, InUserMode, Pcs, UserPcs, CallKinds
  <2>2. QED BY <1>3, <2>1
            DEF SetAsync, DeviceTypeOK, ringVars, fileVars, wqVars
<1>4. ASSUME NEW n \in 0..MaxLen, NEW k \in ReadOps, Read(u, k, n)
      PROVE  TypeInv'
  <2>1. (IF k \in IterOps THEN n ELSE AtMost(n, RingSize)) \in 0..MaxLen
    BY ConstantsAssumption DEF AtMost
  <2>2. (IF n = 0 THEN "user" ELSE "pop") \in Pcs /\ k \in CallKinds
    BY DEF Pcs, UserPcs, ReadPcs, CallKinds
  <2>3. CallInv'
    BY <1>4, <2>1, <2>2, EnterCall DEF Read, InUserMode
  <2>4. QED BY <1>4, <2>3
            DEF Read, DeviceTypeOK, ringVars, fileVars, wqVars, sigVars
<1>5. ASSUME NEW n \in 0..MaxLen, NEW k \in WriteOps, Write(u, k, n)
      PROVE  TypeInv'
  <2>1. (IF k \in IterOps THEN n ELSE AtMost(n, RingSize)) \in 0..MaxLen
    BY ConstantsAssumption DEF AtMost
  <2>2. (IF n = 0 THEN "user" ELSE "copyin") \in Pcs /\ k \in CallKinds
    BY DEF Pcs, UserPcs, WritePcs, CallKinds
  <2>3. CallInv'
    BY <1>5, <2>1, <2>2, EnterCall DEF Write, InUserMode
  <2>4. QED BY <1>5, <2>3
            DEF Write, DeviceTypeOK, ringVars, fileVars, wqVars, sigVars
<1>6. ASSUME NEW k \in PollOps, Poll(u, k) PROVE TypeInv'
  <2>1. CallInv'
    BY <1>0, <1>6, EnterCall DEF Poll, InUserMode, Pcs, PollPcs, CallKinds
  <2>2. QED BY <1>6, <2>1 DEF Poll, DeviceTypeOK, ringVars, fileVars, sigVars
<1>7. CASE Interrupt(u)
  BY <1>7, SameCall DEF Interrupt, DeviceTypeOK, ringVars, fileVars, wqVars
<1>8. QED
  BY <1>1, <1>2, <1>3, <1>4, <1>5, <1>6, <1>7 DEF Program

\* The steps of read and readv.
LEMMA ReadTypeInv ==
    ASSUME TypeInv, NEW u \in Users, InRead(u)
    PROVE  TypeInv'
<1> USE DEF TypeInv
<1>0. {"pop", "copyout", "killout", "readwait", "readcheck", "readsleep"}
        \subseteq Pcs
  BY DEF Pcs, ReadPcs
<1>1. CASE Pop(u)
  <2> DEFINE n == AtMost(AtMost(want[u] - total[u], RingSize), count)
  <2>1. /\ n \in 0..count /\ n <= want[u] - total[u]
    BY ConstantsAssumption
    DEF AtMost, CallInv, CallTypeOK, Bounded, DeviceTypeOK
  <2> HIDE DEF n
  <2>2. CASE n > 0 /\ RingPop(n) /\ pc' = [pc EXCEPT ![u] = "copyout"]
             /\ tmp' = [tmp EXCEPT ![u] = Oldest(n)]
             /\ UNCHANGED <<op, ret, want, total>>
    <3>1. Oldest(n) \in Seq(Byte) /\ Len(Oldest(n)) = n
      BY <2>1, OldestType
    <3>2. CallInv'
      BY <1>0, <2>1, <2>2, <3>1 DEF CallInv, CallTypeOK, Bounded
    <3>3. QED BY <1>1, <2>1, <2>2, <3>2, RingPopType
              DEF Pop, DeviceTypeOK, fileVars, wqVars, sigVars
  <2>3. CASE MovedNothing(u, "readwait") /\ UNCHANGED ringVars
    <3>1. CallInv' BY <1>0, <2>3, MovedNothingCall
    <3>2. QED BY <1>1, <2>3, <3>1
              DEF Pop, DeviceTypeOK, ringVars, fileVars, wqVars, sigVars
  <2>4. QED BY <1>1, <2>2, <2>3 DEF Pop, n
<1>2. CASE ReadWait(u)
  <2>1. CallInv' BY <1>0, <1>2, GotoCall DEF ReadWait
  <2>2. QED BY <1>2, <2>1 DEF ReadWait, DeviceTypeOK, ringVars, fileVars, sigVars
<1>3. CASE ReadCheck(u)
  <2>1. CallInv' 
    BY <1>0, <1>3, GotoCall, ReturnCall DEF ReadCheck, ERESTARTSYS
  <2>2. QED BY <1>3, <2>1
            DEF ReadCheck, DeviceTypeOK, ringVars, fileVars, sigVars
<1>4. CASE ReadWoken(u)
  <2>1. CallInv' BY <1>0, <1>4, GotoCall DEF ReadWoken
  <2>2. QED BY <1>4, <2>1
            DEF ReadWoken, DeviceTypeOK, ringVars, fileVars, sigVars
<1>5. CASE CopyOut(u)
  <2>1. Len(tmp[u]) \in Nat /\ total[u] + Len(tmp[u]) <= want[u]
    BY DEF CallInv, CallTypeOK, Bounded
  <2>2. total[u] + Len(tmp[u]) \in 0..MaxLen
    BY <2>1, ConstantsAssumption DEF CallInv, CallTypeOK
  <2>3. <<>> \in Seq(Byte) /\ Len(<<>>) = 0
    OBVIOUS
  <2>4. CallInv'
    BY <1>0, <1>5, <2>1, <2>2, <2>3 DEF CopyOut, CallInv, CallTypeOK, Bounded
  <2>5. QED BY <1>5, <2>4
            DEF CopyOut, WakeWriters, DeviceTypeOK, ringVars, fileVars, sigVars
<1>6. CASE CopyOutFaults(u)
  <2>1. CallInv' BY <1>6, ReturnCall DEF CopyOutFaults, EFAULT
  <2>2. QED BY <1>6, <2>1
            DEF CopyOutFaults, DeviceTypeOK, ringVars, fileVars, wqVars, sigVars
<1>7. CASE KillOut(u)
  <2>1. total[u] \in Int BY DEF CallInv, CallTypeOK
  <2>2. CallInv' BY <1>0, <1>7, <2>1, GotoCall, ReturnCall DEF KillOut
  <2>3. QED BY <1>7, <2>2
            DEF KillOut, KillFasync, DeviceTypeOK, ringVars, fileVars, wqVars
<1>8. QED
  BY <1>1, <1>2, <1>3, <1>4, <1>5, <1>6, <1>7 DEF InRead

\* The steps of write and writev.
LEMMA WriteTypeInv ==
    ASSUME TypeInv, NEW u \in Users, InWrite(u)
    PROVE  TypeInv'
<1> USE DEF TypeInv
<1>0. {"copyin", "push", "wakein", "killin", "writewait", "writecheck",
       "writesleep"} \subseteq Pcs
  BY DEF Pcs, WritePcs
<1>1. CASE CopyIn(u)
  <2> DEFINE n == AtMost(want[u] - total[u], RingSize)
             chunk == [i \in 1..n |-> Payload[u][total[u] + i]]
  <2>1. n \in Nat /\ n <= want[u] - total[u]
    BY ConstantsAssumption DEF AtMost, CallInv, CallTypeOK, Bounded
  <2>2. \A i \in 1..n : total[u] + i \in 1..MaxLen
    BY <2>1, ConstantsAssumption DEF CallInv, CallTypeOK
  <2>3. chunk \in [1..n -> Byte]
    BY <2>2, ConstantsAssumption
  <2>4. chunk \in Seq(Byte) /\ Len(chunk) = n
    BY <2>1, <2>3, SeqOf
  <2>5. /\ tmp' = [tmp EXCEPT ![u] = chunk]
        /\ pc' = [pc EXCEPT ![u] = "push"]
        /\ UNCHANGED <<op, ret, want, total>>
    BY <1>1 DEF CopyIn
  <2> HIDE DEF n, chunk
  <2>6. CallInv'
    BY <1>0, <2>1, <2>4, <2>5 DEF CallInv, CallTypeOK, Bounded
  <2>7. QED BY <1>1, <2>6
            DEF CopyIn, DeviceTypeOK, ringVars, fileVars, wqVars, sigVars
<1>2. CASE CopyInFaults(u)
  <2>1. CallInv' BY <1>2, ReturnCall DEF CopyInFaults, EFAULT
  <2>2. QED BY <1>2, <2>1
            DEF CopyInFaults, DeviceTypeOK, ringVars, fileVars, wqVars, sigVars
<1>3. CASE Push(u)
  <2> DEFINE n == AtMost(Len(tmp[u]), RingSize - count)
  <2>1. tmp[u] \in Seq(Byte) /\ n \in 0..Len(tmp[u]) /\ n <= RingSize - count
    BY ConstantsAssumption DEF AtMost, CallInv, CallTypeOK, DeviceTypeOK
  <2> HIDE DEF n
  <2>2. CASE /\ n > 0 /\ RingPush(tmp[u], n)
             /\ tmp' = [tmp EXCEPT ![u] = SubSeq(@, n + 1, Len(@))]
             /\ total' = [total EXCEPT ![u] = @ + n]
             /\ pc' = [pc EXCEPT ![u] = "wakein"]
             /\ UNCHANGED <<op, ret, want>>
    <3>1. /\ SubSeq(tmp[u], n + 1, Len(tmp[u])) \in Seq(Byte)
          /\ Len(SubSeq(tmp[u], n + 1, Len(tmp[u]))) = Len(tmp[u]) - n
      BY <2>1, <2>2, Rest
    <3>2. total[u] + n \in 0..MaxLen
      BY <2>1, ConstantsAssumption DEF CallInv, CallTypeOK, Bounded
    <3>3. CallInv'
      BY <1>0, <2>1, <2>2, <3>1, <3>2 DEF CallInv, CallTypeOK, Bounded
    <3>4. QED BY <1>3, <2>1, <2>2, <3>3, RingPushType
              DEF Push, DeviceTypeOK, fileVars, wqVars, sigVars
  <2>3. CASE MovedNothing(u, "writewait") /\ UNCHANGED ringVars
    <3>1. CallInv' BY <1>0, <2>3, MovedNothingCall
    <3>2. QED BY <1>3, <2>3, <3>1
              DEF Push, DeviceTypeOK, ringVars, fileVars, wqVars, sigVars
  <2>4. QED BY <1>3, <2>2, <2>3 DEF Push, n
<1>4. CASE WriteWait(u)
  <2>1. CallInv' BY <1>0, <1>4, GotoCall DEF WriteWait
  <2>2. QED BY <1>4, <2>1
            DEF WriteWait, DeviceTypeOK, ringVars, fileVars, sigVars
<1>5. CASE WriteCheck(u)
  <2>1. CallInv'
    BY <1>0, <1>5, GotoCall, ReturnCall DEF WriteCheck, ERESTARTSYS
  <2>2. QED BY <1>5, <2>1
            DEF WriteCheck, DeviceTypeOK, ringVars, fileVars, sigVars
<1>6. CASE WriteWoken(u)
  <2>1. CallInv' BY <1>0, <1>6, GotoCall DEF WriteWoken
  <2>2. QED BY <1>6, <2>1
            DEF WriteWoken, DeviceTypeOK, ringVars, fileVars, sigVars
<1>7. CASE WakeIn(u)
  <2>1. CallInv' BY <1>0, <1>7, GotoCall DEF WakeIn
  <2>2. QED BY <1>7, <2>1
            DEF WakeIn, WakeReaders, DeviceTypeOK, ringVars, fileVars, sigVars
<1>8. CASE KillIn(u)
  <2>1. total[u] \in Int BY DEF CallInv, CallTypeOK
  <2>2. CallInv' BY <1>0, <1>8, <2>1, GotoCall, ReturnCall DEF KillIn
  <2>3. QED BY <1>8, <2>2
            DEF KillIn, KillFasync, DeviceTypeOK, ringVars, fileVars, wqVars
<1>9. QED
  BY <1>1, <1>2, <1>3, <1>4, <1>5, <1>6, <1>7, <1>8 DEF InWrite

\* The steps of poll, of signal delivery and of the last step of release.
LEMMA OtherTypeInv ==
    ASSUME TypeInv, NEW u \in Users,
           InPoll(u) \/ PollTimeout(u) \/ ReleaseCount(u) \/ Handle(u)
    PROVE  TypeInv'
<1> USE DEF TypeInv
<1>0. /\ {"user", "pollmask", "pollsleep", "polllast"} \subseteq Pcs
      /\ 0 \in Int /\ 0 \in 0..MaxLen
  BY ConstantsAssumption DEF Pcs, PollPcs, UserPcs
<1>1. Mask(u) \in Int BY DEF Mask, POLLIN, POLLOUT
<1>2. CASE PollMask(u)
  <2>1. CallInv'
    BY <1>0, <1>1, <1>2, GotoCall, ReturnCall DEF PollMask, PollReturn, EINTR
  <2>2. QED BY <1>2, <2>1 DEF PollMask, PollReturn, DeviceTypeOK,
                              ringVars, fileVars, wqVars, sigVars
<1>3. CASE PollWoken(u)
  <2>1. CallInv' BY <1>0, <1>3, GotoCall DEF PollWoken
  <2>2. QED BY <1>3, <2>1
            DEF PollWoken, DeviceTypeOK, ringVars, fileVars, sigVars
<1>4. CASE PollTimeout(u)
  <2>1. CallInv' BY <1>0, <1>4, GotoCall DEF PollTimeout
  <2>2. QED BY <1>4, <2>1
            DEF PollTimeout, DeviceTypeOK, ringVars, fileVars, wqVars, sigVars
<1>5. CASE PollLast(u)
  <2>1. CallInv'
    BY <1>0, <1>1, <1>5, ReturnCall DEF PollLast, PollReturn, EINTR
  <2>2. QED BY <1>5, <2>1 DEF PollLast, PollReturn, DeviceTypeOK,
                              ringVars, fileVars, sigVars
<1>6. CASE ReleaseCount(u)
  <2>1. CallInv' BY <1>0, <1>6, ReturnCall DEF ReleaseCount
  <2>2. QED BY <1>6, <2>1
            DEF ReleaseCount, DeviceTypeOK, ringVars, wqVars, sigVars
<1>7. CASE Handle(u)
  <2>1. CallInv' BY <1>0, <1>7, EnterCall DEF Handle
  <2>2. QED BY <1>7, <2>1
            DEF Handle, DeviceTypeOK, ringVars, fileVars, wqVars
<1>8. QED
  BY <1>2, <1>3, <1>4, <1>5, <1>6, <1>7 DEF InPoll

LEMMA NextTypeInv == TypeInv /\ [Next]_vars => TypeInv'
<1> SUFFICES ASSUME TypeInv, [Next]_vars PROVE TypeInv' OBVIOUS
<1>1. CASE Producer
  BY <1>1, ProducerTypeInv
<1>2. ASSUME NEW u \in Users,
             Program(u) \/ Kernel(u) \/ PollTimeout(u) \/ Interrupt(u)
      PROVE  TypeInv'
  BY <1>2, ProgramTypeInv, ReadTypeInv, WriteTypeInv, OtherTypeInv DEF Kernel
<1>3. CASE UNCHANGED vars
  BY <1>3, SameCall DEF TypeInv, DeviceTypeOK, vars, ringVars, fileVars,
                        wqVars, sigVars
<1>4. QED BY <1>1, <1>2, <1>3 DEF Next

\* The state stays well-typed and no call moves more than it asked for.
THEOREM TypeInvHolds == Spec => []TypeInv
BY InitTypeInv, NextTypeInv, PTL DEF Spec

\* Type correctness of the driver: indices never leave the ring, count never
\* exceeds RING_SIZE, kernel buffers hold bytes.
THEOREM TypeCorrect == Spec => []TypeOK
<1>1. TypeInv => TypeOK BY DEF TypeInv, CallInv, TypeOK
<1>2. QED BY <1>1, TypeInvHolds, PTL

------------------------------------------------------------------------------
(* No lost wake-ups *)

LEMMA ReaderWakeupStep ==
    ASSUME TypeInv, NoLostReaderWakeup, [Next]_vars
    PROVE  NoLostReaderWakeup'
<1> SUFFICES ASSUME NEW v \in Users, AsleepForData(v)', count' > 0
             PROVE  ReadersGetWoken'
  BY DEF NoLostReaderWakeup
<1> USE DEF AsleepForData, ReadersGetWoken
<1>0. /\ pc \in [Users -> Pcs] /\ op \in [Users -> CallKinds \union {"none"}]
      /\ count \in 0..RingSize /\ RingSize \in Nat \ {0}
      /\ AsleepForData(v) /\ count > 0 => ReadersGetWoken
  BY ConstantsAssumption
  DEF TypeInv, DeviceTypeOK, CallInv, CallTypeOK, NoLostReaderWakeup
<1>1. CASE Producer
  BY <1>0, <1>1 DEF Producer, Produce, ProducerWake, ProducerKill, WakeReaders,
     ringVars, callVars, wqVars
<1>2. ASSUME NEW u \in Users, Program(u) PROVE ReadersGetWoken'
  BY <1>0, <1>2 DEF Program, Open, Release, SetAsync, Read, Write, Poll, Enter,
     InUserMode, ringVars, callVars, wqVars
<1>3. ASSUME NEW u \in Users, InRead(u) PROVE ReadersGetWoken'
  <2>1. CASE Pop(u)
    <3>1. count' > 0 => count > 0
      BY <1>0, <2>1, ConstantsAssumption
      DEF Pop, RingPop, AtMost, ringVars, TypeInv, CallInv, CallTypeOK
    <3>2. QED BY <1>0, <2>1, <3>1
              DEF Pop, MovedNothing, Return, Goto, wqVars
  <2>2. CASE ReadWait(u) \/ ReadCheck(u) \/ ReadWoken(u)
    BY <1>0, <2>2 DEF ReadWait, ReadCheck, ReadWoken, Return, Goto, ringVars
  <2>3. CASE CopyOut(u) \/ CopyOutFaults(u) \/ KillOut(u)
    BY <1>0, <2>3 DEF CopyOut, CopyOutFaults, KillOut, Return, Goto, ringVars,
                      wqVars
  <2>4. QED BY <1>3, <2>1, <2>2, <2>3 DEF InRead
<1>4. ASSUME NEW u \in Users, InWrite(u) PROVE ReadersGetWoken'
  BY <1>0, <1>4 DEF InWrite, CopyIn, CopyInFaults, Push, WriteWait, WriteCheck,
     WriteWoken, WakeIn, KillIn, MovedNothing, Return, Goto,
     WakeReaders, AtMost, ringVars, callVars, wqVars
<1>5. ASSUME NEW u \in Users, InPoll(u) \/ PollTimeout(u) PROVE ReadersGetWoken'
  BY <1>0, <1>5 DEF InPoll, PollMask, PollWoken, PollLast, PollTimeout,
     PollReturn, Ready, Return, Goto, ringVars, callVars, wqVars
<1>6. ASSUME NEW u \in Users, ReleaseCount(u) \/ Handle(u) \/ Interrupt(u)
      PROVE  ReadersGetWoken'
  BY <1>0, <1>6 DEF ReleaseCount, Handle, Interrupt, Enter, Return,
     ringVars, callVars, wqVars
<1>7. CASE UNCHANGED vars
  BY <1>0, <1>7 DEF vars, ringVars, callVars, wqVars
<1>8. QED BY <1>1, <1>2, <1>3, <1>4, <1>5, <1>6, <1>7 DEF Next, Kernel

\* A reader or POLLIN poller never sleeps over data that nobody will announce,
\* for any number of readers, writers and pollers, faults and signals included.
THEOREM ReaderWakeups == Spec => []NoLostReaderWakeup
<1>1. Init => NoLostReaderWakeup
  BY DEF Init, NoLostReaderWakeup
<1>2. TypeInv /\ NoLostReaderWakeup /\ [Next]_vars => NoLostReaderWakeup'
  BY ReaderWakeupStep
<1>3. QED BY <1>1, <1>2, TypeInvHolds, PTL DEF Spec

\* The only step that loses a wake-up of writers is a faulting read.
LEMMA WriterWakeupStep ==
    ASSUME TypeInv, NoLostWriterWakeup, [Next]_vars,
           ~\E u \in Users : CopyOutFaults(u)
    PROVE  NoLostWriterWakeup'
<1> SUFFICES ASSUME NEW v \in Users, AsleepForSpace(v)', count' < RingSize
             PROVE  WritersGetWoken'
  BY DEF NoLostWriterWakeup
<1> USE DEF AsleepForSpace, WritersGetWoken
<1>0. /\ pc \in [Users -> Pcs] /\ op \in [Users -> CallKinds \union {"none"}]
      /\ count \in 0..RingSize /\ RingSize \in Nat \ {0}
      /\ AsleepForSpace(v) /\ count < RingSize => WritersGetWoken
  BY ConstantsAssumption
  DEF TypeInv, DeviceTypeOK, CallInv, CallTypeOK, NoLostWriterWakeup
<1>1. CASE Producer
  BY <1>0, <1>1 DEF Producer, Produce, ProducerWake, ProducerKill, RingPush,
     ringVars, callVars, wqVars
<1>2. ASSUME NEW u \in Users, Program(u) PROVE WritersGetWoken'
  BY <1>0, <1>2 DEF Program, Open, Release, SetAsync, Read, Write, Poll, Enter,
     InUserMode, ringVars, callVars, wqVars
<1>3. ASSUME NEW u \in Users, InRead(u) PROVE WritersGetWoken'
  <2>1. CASE Pop(u)
    BY <1>0, <2>1 DEF Pop, MovedNothing, Return, Goto, ringVars, wqVars
  <2>2. CASE ReadWait(u) \/ ReadCheck(u) \/ ReadWoken(u)
    BY <1>0, <2>2 DEF ReadWait, ReadCheck, ReadWoken, Return, Goto, ringVars
  <2>3. CASE CopyOut(u)
    BY <1>0, <2>3 DEF CopyOut, WakeWriters
  <2>4. CASE KillOut(u)
    BY <1>0, <2>4 DEF KillOut, Return, Goto, ringVars, wqVars
  <2>5. QED BY <1>3, <2>1, <2>2, <2>3, <2>4 DEF InRead
<1>4. ASSUME NEW u \in Users, InWrite(u) PROVE WritersGetWoken'
  <2>1. CASE Push(u)
    <3>0. Len(tmp[u]) \in Nat
      BY DEF TypeInv, CallInv, CallTypeOK
    <3>1. count' < RingSize => count < RingSize
      <4>1. count' = count \/ count' = count + AtMost(Len(tmp[u]), RingSize - count)
        BY <2>1 DEF Push, RingPush, ringVars
      <4>2. QED BY <1>0, <3>0, <4>1 DEF AtMost
    <3>2. QED BY <1>0, <2>1, <3>1
              DEF Push, MovedNothing, Return, Goto, wqVars
  <2>2. CASE WriteWait(u) \/ WriteCheck(u) \/ WriteWoken(u)
    BY <1>0, <2>2 DEF WriteWait, WriteCheck, WriteWoken, Return, Goto, ringVars
  <2>3. CASE CopyIn(u) \/ CopyInFaults(u) \/ WakeIn(u) \/ KillIn(u)
    BY <1>0, <2>3 DEF CopyIn, CopyInFaults, WakeIn, KillIn, Return, Goto,
                      ringVars, wqVars
  <2>4. QED BY <1>4, <2>1, <2>2, <2>3 DEF InWrite
<1>5. ASSUME NEW u \in Users, InPoll(u) \/ PollTimeout(u)
      PROVE  WritersGetWoken'
  <2>1. CASE PollMask(u)
    BY <1>0, <2>1 DEF PollMask, PollReturn, Ready, Return, Goto, ringVars,
                      wqVars
  <2>2. CASE PollWoken(u) \/ PollTimeout(u)
    BY <1>0, <2>2 DEF PollWoken, PollTimeout, Goto, ringVars, wqVars
  <2>3. CASE PollLast(u)
    BY <1>0, <2>3 DEF PollLast, PollReturn, Return, ringVars
  <2>4. QED BY <1>5, <2>1, <2>2, <2>3 DEF InPoll
<1>6. ASSUME NEW u \in Users, ReleaseCount(u) \/ Handle(u) \/ Interrupt(u)
      PROVE  WritersGetWoken'
  BY <1>0, <1>6 DEF ReleaseCount, Handle, Interrupt, Enter, Return,
     ringVars, callVars, wqVars
<1>7. CASE UNCHANGED vars
  BY <1>0, <1>7 DEF vars, ringVars, callVars, wqVars
<1>8. QED BY <1>1, <1>2, <1>3, <1>4, <1>5, <1>6, <1>7 DEF Next, Kernel

\* When no user buffer faults, a writer or POLLOUT poller never sleeps over free
\* slots that nobody will announce.  Without the assumption this is false.
THEOREM WriterWakeups ==
    ASSUME Faulty = {}
    PROVE  Spec => []NoLostWriterWakeup
<1>1. Init => NoLostWriterWakeup
  BY DEF Init, NoLostWriterWakeup, AsleepForSpace
<1>2. TypeInv /\ NoLostWriterWakeup /\ [Next]_vars => NoLostWriterWakeup'
  BY WriterWakeupStep DEF CopyOutFaults
<1>3. QED BY <1>1, <1>2, TypeInvHolds, PTL DEF Spec

\* With faults a wake-up of writers can be lost, but by a faulting read alone.
THEOREM FaultsAloneLoseWakeups == Spec => OnlyFaultsLoseWakeups
<1>1. TypeInv /\ [Next]_vars
      => [NoLostWriterWakeup /\ ~NoLostWriterWakeup'
          => \E u \in Users : CopyOutFaults(u)]_vars
  BY WriterWakeupStep
<1>2. QED BY <1>1, TypeInvHolds, PTL DEF Spec, OnlyFaultsLoseWakeups

------------------------------------------------------------------------------
(* What a call knows of its own progress at each of its places, what        *)
(* follows for the results it returns, and what a subscriber that drained    *)
(* the ring may rely on.                                                     *)

ReadWaits  == {"readwait", "readcheck", "readsleep"}
WriteWaits == {"writewait", "writecheck", "writesleep"}

\* The kernel buffer of a write call holds the bytes of the payload that follow
\* those already moved.
Offers(u) == \A i \in 1..Len(tmp[u]) : tmp[u][i] = Payload[u][total[u] + i]

\* What holds of process u's call at each place of the handlers: a call waits
\* only before it has moved anything, and signals only after it has.
InReadOK(u) ==
    /\ pc[u] \in ReadPcs => op[u] \in ReadOps
    /\ pc[u] \in {"pop"} \union ReadWaits =>
          total[u] < want[u] /\ tmp[u] = <<>>
    /\ pc[u] \in ReadWaits => total[u] = 0
    /\ pc[u] = "copyout" => Len(tmp[u]) > 0
    /\ pc[u] = "killout" => total[u] > 0 /\ tmp[u] = <<>>

InWriteOK(u) ==
    /\ pc[u] \in WritePcs => op[u] \in WriteOps
    /\ pc[u] = "copyin" => total[u] < want[u] /\ tmp[u] = <<>>
    /\ pc[u] \in {"push"} \union WriteWaits => Len(tmp[u]) > 0
    /\ pc[u] \in WriteWaits => total[u] = 0
    /\ pc[u] \in {"wakein", "killin"} => total[u] > 0
    /\ pc[u] \in WritePcs => Offers(u)

InCallOK(u) == InReadOK(u) /\ InWriteOK(u)

CallsInv == TypeInv /\ \A u \in Users : InCallOK(u)

\* Nothing of u's call changes.
SameCallOf(u) ==
    /\ pc'[u] = pc[u] /\ op'[u] = op[u] /\ ret'[u] = ret[u]
    /\ want'[u] = want[u] /\ total'[u] = total[u] /\ tmp'[u] = tmp[u]

------------------------------------------------------------------------------
LEMMA SameCallOK ==
    ASSUME NEW u \in Users, InCallOK(u), SameCallOf(u) PROVE InCallOK(u)'
BY DEF SameCallOf, InCallOK, InReadOK, InWriteOK, Offers

\* A step of u leaves the calls of the others alone.
LEMMA OthersKeep ==
    ASSUME CallTypeOK, NEW u \in Users, NEW v \in Users, v # u,
           Program(u) \/ Kernel(u) \/ PollTimeout(u) \/ Interrupt(u)
    PROVE  SameCallOf(v)
<1> USE DEF SameCallOf
<1>1. ASSUME NEW r, Return(u, r) PROVE SameCallOf(v)
  BY <1>1 DEF Return, CallTypeOK
<1>2. ASSUME NEW place, Goto(u, place) PROVE SameCallOf(v)
  BY <1>2 DEF Goto, CallTypeOK
<1>3. ASSUME NEW k, NEW n, NEW place, Enter(u, k, n, place)
      PROVE  SameCallOf(v)
  BY <1>3 DEF Enter, CallTypeOK
<1>4. CASE Program(u)
  BY <1>3, <1>4 DEF Program, Open, Release, SetAsync, Read, Write, Poll,
                    callVars
<1>5. CASE InRead(u)
  <2>1. CASE Pop(u)
    BY <1>1, <1>2, <2>1 DEF Pop, MovedNothing, CallTypeOK
  <2>2. CASE ReadWait(u) \/ ReadCheck(u) \/ ReadWoken(u)
    BY <1>1, <1>2, <2>2 DEF ReadWait, ReadCheck, ReadWoken
  <2>3. CASE CopyOut(u) \/ CopyOutFaults(u) \/ KillOut(u)
    BY <1>1, <1>2, <2>3 DEF CopyOut, CopyOutFaults, KillOut, CallTypeOK
  <2>4. QED BY <1>5, <2>1, <2>2, <2>3 DEF InRead
<1>6. CASE InWrite(u)
  <2>1. CASE Push(u)
    BY <1>1, <1>2, <2>1 DEF Push, MovedNothing, CallTypeOK
  <2>2. CASE WriteWait(u) \/ WriteCheck(u) \/ WriteWoken(u)
    BY <1>1, <1>2, <2>2 DEF WriteWait, WriteCheck, WriteWoken
  <2>3. CASE CopyIn(u) \/ CopyInFaults(u) \/ WakeIn(u) \/ KillIn(u)
    BY <1>1, <1>2, <2>3 DEF CopyIn, CopyInFaults, WakeIn, KillIn, CallTypeOK
  <2>4. QED BY <1>6, <2>1, <2>2, <2>3 DEF InWrite
<1>7. CASE InPoll(u) \/ PollTimeout(u)
  BY <1>1, <1>2, <1>7 DEF InPoll, PollMask, PollWoken, PollLast, PollTimeout,
                          PollReturn
<1>8. CASE ReleaseCount(u) \/ Handle(u) \/ Interrupt(u)
  BY <1>1, <1>3, <1>8 DEF ReleaseCount, Handle, Interrupt, callVars
<1>9. QED BY <1>4, <1>5, <1>6, <1>7, <1>8 DEF Kernel

\* A call that returned, or waits somewhere outside the transfer handlers, owes
\* nothing.
LEMMA OutsideOK ==
    ASSUME NEW u \in Users, pc'[u] \notin ReadPcs \union WritePcs
    PROVE  InCallOK(u)'
BY DEF InCallOK, InReadOK, InWriteOK, ReadPcs, WritePcs, ReadWaits, WriteWaits

LEMMA ReturnOK ==
    ASSUME CallTypeOK, NEW u \in Users, NEW r, Return(u, r)
    PROVE  InCallOK(u)'
<1>1. pc'[u] = "user" BY DEF Return, CallTypeOK
<1>2. QED BY <1>1, OutsideOK DEF ReadPcs, WritePcs

\* A locked section that moves nothing may suspend a call only at its start.
LEMMA MovedNothingOK ==
    ASSUME CallTypeOK, NEW u \in Users, NEW place, MovedNothing(u, place),
           total[u] = 0 /\ Goto(u, place) => InCallOK(u)'
    PROVE  InCallOK(u)'
BY ReturnOK DEF MovedNothing

\* Moving on within the same wait keeps what holds there.
LEMMA GotoReadWaitOK ==
    ASSUME CallTypeOK, NEW u \in Users, InCallOK(u), total[u] = 0,
           pc[u] \in {"pop"} \union ReadWaits,
           NEW place \in {"pop"} \union ReadWaits, Goto(u, place)
    PROVE  InCallOK(u)'
BY DEF Goto, CallTypeOK, InCallOK, InReadOK, InWriteOK, Offers,
       ReadPcs, WritePcs, ReadWaits, WriteWaits

LEMMA GotoWriteWaitOK ==
    ASSUME CallTypeOK, NEW u \in Users, InCallOK(u), total[u] = 0,
           pc[u] \in {"push"} \union WriteWaits,
           NEW place \in {"push"} \union WriteWaits, Goto(u, place)
    PROVE  InCallOK(u)'
BY DEF Goto, CallTypeOK, InCallOK, InReadOK, InWriteOK, Offers,
       ReadPcs, WritePcs, ReadWaits, WriteWaits

LEMMA InReadStep ==
    ASSUME CallsInv, NEW u \in Users, InRead(u) PROVE InCallOK(u)'
<1>0. /\ CallTypeOK /\ InCallOK(u) /\ DeviceTypeOK /\ Bounded
      /\ RingSize \in Nat \ {0} /\ MaxLen \in Nat
  BY ConstantsAssumption DEF CallsInv, TypeInv, CallInv
<1>t. /\ want[u] \in Nat /\ total[u] \in Nat /\ count \in Nat
      /\ pc \in [Users -> Pcs] /\ op \in [Users -> CallKinds \union {"none"}]
      /\ tmp \in [Users -> Seq(Byte)] /\ total \in [Users -> 0..MaxLen]
  BY <1>0 DEF CallTypeOK, DeviceTypeOK
<1>1. CASE Pop(u)
  <2> DEFINE n == AtMost(AtMost(want[u] - total[u], RingSize), count)
  <2>1. /\ pc[u] = "pop" /\ op[u] \in ReadOps /\ total[u] < want[u]
        /\ tmp[u] = <<>>
    BY <1>0, <1>1 DEF Pop, InCallOK, InReadOK, ReadPcs, ReadWaits
  <2>2. n \in 0..count
    BY <1>0, <1>t, <2>1 DEF AtMost
  <2>3. CASE /\ n > 0
             /\ tmp' = [tmp EXCEPT ![u] = Oldest(n)]
             /\ pc' = [pc EXCEPT ![u] = "copyout"]
             /\ UNCHANGED <<op, ret, want, total>>
    <3>1. Len(tmp'[u]) = n
      BY <1>0, <1>t, <2>2, <2>3, OldestType
    <3>2. pc'[u] = "copyout" /\ op'[u] \in ReadOps /\ Len(tmp'[u]) > 0
      BY <1>t, <2>1, <2>2, <2>3, <3>1
    <3>3. QED BY <3>2 DEF InCallOK, InReadOK, InWriteOK, ReadPcs, WritePcs,
                          ReadWaits, WriteWaits
  <2>4. CASE MovedNothing(u, "readwait")
    <3>1. total[u] = 0 /\ Goto(u, "readwait") => InCallOK(u)'
      BY <1>0, <2>1, GotoReadWaitOK DEF ReadWaits
    <3>2. QED BY <1>0, <2>4, <3>1, MovedNothingOK
  <2>5. QED BY <1>1, <2>3, <2>4 DEF Pop, n
<1>2. CASE ReadWait(u) \/ ReadCheck(u) \/ ReadWoken(u)
  <2>1. pc[u] \in ReadWaits /\ total[u] = 0
    BY <1>0, <1>2
    DEF ReadWait, ReadCheck, ReadWoken, InCallOK, InReadOK, ReadWaits
  <2>2. \/ \E place \in {"pop"} \union ReadWaits : Goto(u, place)
        \/ Return(u, ERESTARTSYS)
    BY <1>2 DEF ReadWait, ReadCheck, ReadWoken, ReadWaits
  <2>3. QED BY <1>0, <2>1, <2>2, GotoReadWaitOK, ReturnOK
<1>3. CASE CopyOut(u)
  <2>1. pc[u] = "copyout" /\ op[u] \in ReadOps /\ Len(tmp[u]) > 0
    BY <1>0, <1>3 DEF CopyOut, InCallOK, InReadOK, ReadPcs
  <2>2. /\ pc'[u] = "killout" /\ op'[u] = op[u] /\ tmp'[u] = <<>>
        /\ total'[u] = total[u] + Len(tmp[u])
    BY <1>t, <1>3 DEF CopyOut
  <2>3. Len(tmp[u]) \in Nat BY <1>t
  <2>4. total'[u] > 0 BY <1>t, <2>1, <2>2, <2>3
  <2>5. QED BY <2>1, <2>2, <2>4 DEF InCallOK, InReadOK, InWriteOK, ReadPcs,
                                    WritePcs, ReadWaits, WriteWaits
<1>4. CASE CopyOutFaults(u)
  BY <1>0, <1>4, ReturnOK DEF CopyOutFaults
<1>5. CASE KillOut(u)
  <2>1. pc[u] = "killout" /\ op[u] \in ReadOps /\ tmp[u] = <<>>
    BY <1>0, <1>5 DEF KillOut, InCallOK, InReadOK, ReadPcs
  <2>2. CASE total[u] < want[u] /\ Goto(u, "pop")
    BY <1>t, <2>1, <2>2 DEF Goto, InCallOK, InReadOK, InWriteOK, ReadPcs,
                            WritePcs, ReadWaits, WriteWaits
  <2>3. CASE Return(u, total[u])
    BY <1>0, <2>3, ReturnOK
  <2>4. QED BY <1>5, <2>2, <2>3 DEF KillOut
<1>6. QED BY <1>1, <1>2, <1>3, <1>4, <1>5, <1>0 DEF InRead, CallsInv

LEMMA InWriteStep ==
    ASSUME CallsInv, NEW u \in Users, InWrite(u) PROVE InCallOK(u)'
<1>0. /\ CallTypeOK /\ InCallOK(u) /\ DeviceTypeOK /\ Bounded
      /\ RingSize \in Nat \ {0} /\ MaxLen \in Nat
  BY ConstantsAssumption DEF CallsInv, TypeInv, CallInv
<1>t. /\ want[u] \in 0..MaxLen /\ total[u] \in Nat /\ count \in 0..RingSize
      /\ pc \in [Users -> Pcs] /\ op \in [Users -> CallKinds \union {"none"}]
      /\ tmp \in [Users -> Seq(Byte)] /\ total \in [Users -> 0..MaxLen]
      /\ total[u] + Len(tmp[u]) <= want[u]
  BY <1>0 DEF CallTypeOK, DeviceTypeOK, Bounded
<1>1. CASE CopyIn(u)
  <2> DEFINE n == AtMost(want[u] - total[u], RingSize)
             s == [i \in 1..n |-> Payload[u][total[u] + i]]
  <2>1. pc[u] = "copyin" /\ op[u] \in WriteOps /\ total[u] < want[u]
    BY <1>0, <1>1 DEF CopyIn, InCallOK, InWriteOK, WritePcs
  <2>2. n \in Nat /\ n > 0 /\ n <= want[u] - total[u]
    BY <1>0, <1>t, <2>1 DEF AtMost
  <2>3. ASSUME NEW i \in 1..n PROVE Payload[u][total[u] + i] \in Byte
    BY <1>t, <2>2, ConstantsAssumption
  <2>4. s \in Seq(Byte) /\ Len(s) = n
    <3> HIDE DEF n
    <3>1. s \in [1..n -> Byte] BY <2>3
    <3>2. QED BY <2>2, <3>1, SeqOf
  <2>5. /\ pc'[u] = "push" /\ op'[u] = op[u] /\ total'[u] = total[u]
        /\ tmp'[u] = s
    BY <1>t, <1>1 DEF CopyIn
  <2>6. \A i \in 1..Len(tmp'[u]) : tmp'[u][i] = Payload[u][total'[u] + i]
    BY <2>4, <2>5
  <2>7. op'[u] \in WriteOps /\ Len(tmp'[u]) > 0
    BY <2>1, <2>2, <2>4, <2>5
  <2> HIDE DEF s, n
  <2>8. QED BY <2>5, <2>6, <2>7 DEF InCallOK, InReadOK, InWriteOK, Offers,
                                    ReadPcs, WritePcs, ReadWaits, WriteWaits
<1>2. CASE CopyInFaults(u)
  BY <1>0, <1>2, ReturnOK DEF CopyInFaults
<1>3. CASE Push(u)
  <2> DEFINE n == AtMost(Len(tmp[u]), RingSize - count)
  <2>1. /\ pc[u] = "push" /\ op[u] \in WriteOps /\ Len(tmp[u]) > 0
        /\ Offers(u)
    BY <1>0, <1>3 DEF Push, InCallOK, InWriteOK, WritePcs
  <2>2. n \in 0..Len(tmp[u]) /\ Len(tmp[u]) \in Nat
    BY <1>0, <1>t DEF AtMost
  <2>3. CASE /\ n > 0
             /\ tmp' = [tmp EXCEPT ![u] = SubSeq(@, n + 1, Len(@))]
             /\ total' = [total EXCEPT ![u] = @ + n]
             /\ pc' = [pc EXCEPT ![u] = "wakein"]
             /\ UNCHANGED <<op, ret, want>>
    <3>1. /\ pc'[u] = "wakein" /\ op'[u] = op[u]
          /\ total'[u] = total[u] + n
          /\ tmp'[u] = SubSeq(tmp[u], n + 1, Len(tmp[u]))
      BY <1>t, <2>3
    <3> HIDE DEF n
    <3>2. Len(tmp'[u]) = Len(tmp[u]) - n
      BY <1>t, <2>2, <2>3, <3>1, Rest
    <3>3. ASSUME NEW i \in 1..Len(tmp'[u])
          PROVE  tmp'[u][i] = Payload[u][total'[u] + i]
      <4>1. tmp'[u][i] = tmp[u][n + i]
        BY <1>t, <2>2, <3>1, <3>2
      <4>2. n + i \in 1..Len(tmp[u]) BY <2>2, <3>2
      <4>3. tmp[u][n + i] = Payload[u][total[u] + (n + i)]
        BY <2>1, <4>2 DEF Offers
      <4>4. total[u] + (n + i) = total'[u] + i
        BY <1>t, <2>2, <3>1
      <4>5. QED BY <4>1, <4>3, <4>4
    <3>4. total'[u] > 0 /\ op'[u] \in WriteOps
      BY <1>t, <2>1, <2>2, <2>3, <3>1
    <3>5. QED BY <3>1, <3>3, <3>4 DEF InCallOK, InReadOK, InWriteOK, Offers,
                                      ReadPcs, WritePcs, ReadWaits, WriteWaits
  <2>4. CASE MovedNothing(u, "writewait")
    <3>1. total[u] = 0 /\ Goto(u, "writewait") => InCallOK(u)'
      BY <1>0, <2>1, GotoWriteWaitOK DEF WriteWaits
    <3>2. QED BY <1>0, <2>4, <3>1, MovedNothingOK
  <2>5. QED BY <1>3, <2>3, <2>4 DEF Push, n
<1>4. CASE WriteWait(u) \/ WriteCheck(u) \/ WriteWoken(u)
  <2>1. pc[u] \in WriteWaits /\ total[u] = 0
    BY <1>0, <1>4
    DEF WriteWait, WriteCheck, WriteWoken, InCallOK, InWriteOK, WriteWaits
  <2>2. \/ \E place \in {"push"} \union WriteWaits : Goto(u, place)
        \/ Return(u, ERESTARTSYS)
    BY <1>4 DEF WriteWait, WriteCheck, WriteWoken, WriteWaits
  <2>3. QED BY <1>0, <2>1, <2>2, GotoWriteWaitOK, ReturnOK
<1>5. CASE WakeIn(u)
  BY <1>0, <1>t, <1>5 DEF WakeIn, Goto, InCallOK, InReadOK, InWriteOK, Offers,
     ReadPcs, WritePcs, ReadWaits, WriteWaits
<1>6. CASE KillIn(u)
  <2>1. pc[u] = "killin" /\ op[u] \in WriteOps
    BY <1>0, <1>6 DEF KillIn, InCallOK, InWriteOK, WritePcs
  <2>2. CASE tmp[u] = <<>> /\ total[u] < want[u] /\ Goto(u, "copyin")
    BY <1>t, <2>1, <2>2 DEF Goto, InCallOK, InReadOK, InWriteOK, Offers,
       ReadPcs, WritePcs, ReadWaits, WriteWaits
  <2>3. CASE Return(u, total[u])
    BY <1>0, <2>3, ReturnOK
  <2>4. QED BY <1>6, <2>2, <2>3 DEF KillIn
<1>7. QED BY <1>1, <1>2, <1>3, <1>4, <1>5, <1>6 DEF InWrite

LEMMA ProgramStep ==
    ASSUME CallsInv, NEW u \in Users, Program(u) PROVE InCallOK(u)'
<1>0. /\ CallTypeOK /\ InCallOK(u) /\ RingSize \in Nat \ {0} /\ MaxLen \in Nat
      /\ pc \in [Users -> Pcs] /\ op \in [Users -> CallKinds \union {"none"}]
      /\ want \in [Users -> 0..MaxLen]
      /\ pc[u] = "user" => total[u] = 0 /\ tmp[u] = <<>>
  BY ConstantsAssumption
  DEF CallsInv, TypeInv, CallInv, CallTypeOK, Bounded
<1>1. ASSUME NEW mode, Open(u, mode) PROVE InCallOK(u)'
  BY <1>0, <1>1, SameCallOK DEF Open, SameCallOf, callVars
<1>2. ASSUME Release(u) \/ (\E on \in BOOLEAN : SetAsync(u, on))
             \/ (\E k \in PollOps : Poll(u, k))
      PROVE  InCallOK(u)'
  <2>1. pc'[u] \in {"release", "user", "pollmask"}
    BY <1>0, <1>2 DEF Release, SetAsync, Poll, Enter
  <2>2. QED BY <2>1, OutsideOK DEF ReadPcs, WritePcs
<1>3. ASSUME NEW n \in 0..MaxLen, NEW k \in ReadOps, Read(u, k, n)
      PROVE  InCallOK(u)'
  <2>1. CASE n = 0
    <3>1. pc'[u] = "user" BY <1>0, <1>3, <2>1 DEF Read, Enter
    <3>2. QED BY <3>1, OutsideOK DEF ReadPcs, WritePcs
  <2>2. CASE n # 0
    <3>1. /\ pc'[u] = "pop" /\ op'[u] = k /\ tmp'[u] = <<>> /\ total'[u] = 0
          /\ want'[u] = IF k \in IterOps THEN n ELSE AtMost(n, RingSize)
      BY <1>0, <1>3, <2>2 DEF Read, Enter, InUserMode
    <3>2. want'[u] > 0 BY <1>0, <2>2, <3>1 DEF AtMost
    <3>3. QED BY <1>3, <3>1, <3>2 DEF InCallOK, InReadOK, InWriteOK, ReadPcs,
                                      WritePcs, ReadWaits, WriteWaits
  <2>3. QED BY <2>1, <2>2
<1>4. ASSUME NEW n \in 0..MaxLen, NEW k \in WriteOps, Write(u, k, n)
      PROVE  InCallOK(u)'
  <2>1. CASE n = 0
    <3>1. pc'[u] = "user" BY <1>0, <1>4, <2>1 DEF Write, Enter
    <3>2. QED BY <3>1, OutsideOK DEF ReadPcs, WritePcs
  <2>2. CASE n # 0
    <3>1. /\ pc'[u] = "copyin" /\ op'[u] = k /\ tmp'[u] = <<>>
          /\ total'[u] = 0
          /\ want'[u] = IF k \in IterOps THEN n ELSE AtMost(n, RingSize)
      BY <1>0, <1>4, <2>2 DEF Write, Enter, InUserMode
    <3>2. want'[u] > 0 BY <1>0, <2>2, <3>1 DEF AtMost
    <3>3. QED BY <1>4, <3>1, <3>2 DEF InCallOK, InReadOK, InWriteOK, Offers,
                              ReadPcs, WritePcs, ReadWaits, WriteWaits
  <2>3. QED BY <2>1, <2>2
<1>5. QED BY <1>0, <1>1, <1>2, <1>3, <1>4 DEF Program

LEMMA OtherStep ==
    ASSUME CallsInv, NEW u \in Users,
           InPoll(u) \/ PollTimeout(u) \/ ReleaseCount(u) \/ Handle(u)
           \/ Interrupt(u)
    PROVE  InCallOK(u)'
<1>0. CallTypeOK /\ InCallOK(u) /\ pc \in [Users -> Pcs]
  BY DEF CallsInv, TypeInv, CallInv, CallTypeOK
<1>1. CASE Interrupt(u)
  BY <1>0, <1>1, SameCallOK DEF Interrupt, SameCallOf, callVars
<1>2. CASE InPoll(u) \/ PollTimeout(u) \/ ReleaseCount(u) \/ Handle(u)
  <2>1. pc'[u] \in {"user", "pollmask", "pollsleep", "polllast"}
    BY <1>0, <1>2 DEF InPoll, PollMask, PollWoken, PollLast, PollTimeout,
       PollReturn, ReleaseCount, Handle, Return, Goto, Enter
  <2>2. QED BY <2>1, OutsideOK DEF ReadPcs, WritePcs
<1>3. QED BY <1>1, <1>2

LEMMA CallsInvStep == CallsInv /\ [Next]_vars => CallsInv'
<1> SUFFICES ASSUME CallsInv, [Next]_vars PROVE CallsInv' OBVIOUS
<1>1. TypeInv' BY NextTypeInv DEF CallsInv
<1>2. CASE Producer \/ UNCHANGED vars
  <2>1. ASSUME NEW v \in Users PROVE SameCallOf(v)
    BY <1>2 DEF Producer, Produce, ProducerWake, ProducerKill, callVars,
                SameCallOf, vars
  <2>2. QED BY <1>1, <2>1, SameCallOK DEF CallsInv
<1>3. ASSUME NEW u \in Users,
             Program(u) \/ Kernel(u) \/ PollTimeout(u) \/ Interrupt(u)
      PROVE  CallsInv'
  <2>1. InCallOK(u)'
    BY <1>3, ProgramStep, InReadStep, InWriteStep, OtherStep DEF Kernel
  <2>2. ASSUME NEW v \in Users, v # u PROVE InCallOK(v)'
    <3>1. SameCallOf(v)
      BY <1>3, <2>2, OthersKeep DEF CallsInv, TypeInv, CallInv
    <3>2. QED BY <3>1, SameCallOK DEF CallsInv
  <2>3. QED BY <1>1, <2>1, <2>2 DEF CallsInv
<1>4. QED BY <1>2, <1>3 DEF Next

\* A call waits only before it has moved anything, signals only after it has,
\* and offers the payload from where it stopped.
THEOREM CallsInvHolds == Spec => []CallsInv
<1>1. Init => CallsInv
  <2>1. ASSUME Init PROVE \A u \in Users : InCallOK(u)
    BY <2>1 DEF Init, InCallOK, InReadOK, InWriteOK, ReadPcs, WritePcs,
                ReadWaits, WriteWaits
  <2>2. QED BY <2>1, InitTypeInv DEF CallsInv
<1>2. QED BY <1>1, CallsInvStep, PTL DEF Spec

------------------------------------------------------------------------------
(* Results *)

\* When a transfer call ends, without a fault, its result is the number of
\* bytes it moved, or an error if there are none.
LEMMA ResultStep ==
    ASSUME CallsInv, Next, NEW u \in Users,
           pc[u] \in ReadPcs \union WritePcs, pc'[u] = "user",
           ret'[u] # EFAULT
    PROVE  IF total[u] > 0 THEN ret'[u] = total[u] ELSE ret'[u] < 0
<1>0. /\ CallTypeOK /\ InCallOK(u) /\ pc[u] # "user"
      /\ pc[u] \notin {"release", "pollmask", "pollsleep", "polllast"}
  BY DEF CallsInv, TypeInv, CallInv, ReadPcs, WritePcs
<1>t. /\ ret \in [Users -> Int] /\ pc \in [Users -> Pcs]
      /\ total[u] \in Nat
  BY <1>0 DEF CallTypeOK
<1>1. ~SameCallOf(u) BY <1>0 DEF SameCallOf
<1>2. InRead(u) \/ InWrite(u)
  <2>1. ~Producer
    BY <1>1 DEF Producer, Produce, ProducerWake, ProducerKill, callVars,
                SameCallOf
  <2>2. PICK v \in Users :
             Program(v) \/ Kernel(v) \/ PollTimeout(v) \/ Interrupt(v)
    BY <2>1 DEF Next
  <2>3. v = u BY <1>0, <1>1, <2>2, OthersKeep
  <2>4. ~Program(u)
    BY <1>0, <1>1 DEF Program, Open, Release, SetAsync, Read, Write, Poll,
                      InUserMode
  <2>5. QED
    BY <1>0, <2>2, <2>3, <2>4
    DEF Kernel, InPoll, PollMask, PollWoken, PollLast, PollTimeout,
        ReleaseCount, Handle, Interrupt, callVars
<1>3. \/ Return(u, total[u]) /\ total[u] > 0
      \/ Return(u, EAGAIN) /\ total[u] = 0
      \/ Return(u, ERESTARTSYS) /\ total[u] = 0
      \/ Return(u, EFAULT)
  <2>1. ASSUME NEW place, Goto(u, place), place # "user" PROVE FALSE
    BY <1>t, <2>1 DEF Goto
  <2>2. CASE InRead(u)
    <3>1. CASE Pop(u)
      <4>1. ~(pc' = [pc EXCEPT ![u] = "copyout"]) BY <1>t
      <4>2. QED BY <2>1, <3>1, <4>1 DEF Pop, MovedNothing
    <3>2. CASE ReadWait(u) \/ ReadCheck(u) \/ ReadWoken(u)
      BY <1>0, <2>1, <3>2 DEF ReadWait, ReadCheck, ReadWoken, InCallOK,
                              InReadOK, ReadWaits
    <3>3. CASE CopyOut(u) \/ CopyOutFaults(u) \/ KillOut(u)
      <4>1. ~(pc' = [pc EXCEPT ![u] = "killout"]) BY <1>t
      <4>2. QED BY <1>0, <2>1, <3>3, <4>1
                DEF CopyOut, CopyOutFaults, KillOut, InCallOK, InReadOK
    <3>4. QED BY <2>2, <3>1, <3>2, <3>3 DEF InRead
  <2>3. CASE InWrite(u)
    <3>1. CASE Push(u)
      <4>1. ~(pc' = [pc EXCEPT ![u] = "wakein"]) BY <1>t
      <4>2. QED BY <2>1, <3>1, <4>1 DEF Push, MovedNothing
    <3>2. CASE WriteWait(u) \/ WriteCheck(u) \/ WriteWoken(u)
      BY <1>0, <2>1, <3>2 DEF WriteWait, WriteCheck, WriteWoken, InCallOK,
                              InWriteOK, WriteWaits
    <3>3. CASE CopyIn(u) \/ CopyInFaults(u) \/ WakeIn(u) \/ KillIn(u)
      <4>1. ~(pc' = [pc EXCEPT ![u] = "push"]) BY <1>t
      <4>2. QED BY <1>0, <2>1, <3>3, <4>1
                DEF CopyIn, CopyInFaults, WakeIn, KillIn, InCallOK, InWriteOK
    <3>4. QED BY <2>3, <3>1, <3>2, <3>3 DEF InWrite
  <2>4. QED BY <1>2, <2>2, <2>3
<1>4. ASSUME NEW r \in Int, Return(u, r) PROVE ret'[u] = r
  BY <1>t, <1>4 DEF Return
<1>5. QED
  BY <1>t, <1>3, <1>4 DEF EAGAIN, ERESTARTSYS, EFAULT

\* The result of a read or write call tells the truth about the bytes moved.
THEOREM ResultsTellProgress == Spec => ResultTellsProgress
<1>1. CallsInv /\ [Next]_vars
      => [\A u \in Users :
             /\ pc[u] \in ReadPcs \union WritePcs /\ pc'[u] = "user"
             /\ ret'[u] # EFAULT
             => IF total[u] > 0 THEN ret'[u] = total[u] ELSE ret'[u] < 0]_vars
  BY ResultStep
<1>2. QED BY <1>1, CallsInvHolds, PTL DEF Spec, ResultTellsProgress

------------------------------------------------------------------------------
(* SIGIO subscribers and pollers *)

LEMMA SubscriberStep ==
    ASSUME TypeInv, NoStaleSubscriber, [Next]_vars PROVE NoStaleSubscriber'
<1> SUFFICES ASSUME NEW v \in fasyncQ' PROVE v \in opened' /\ pc'[v] # "release"
  BY DEF NoStaleSubscriber
<1>0. /\ pc \in [Users -> Pcs] /\ fasyncQ \subseteq Users
      /\ v \in fasyncQ => v \in opened /\ pc[v] # "release"
  BY DEF TypeInv, DeviceTypeOK, CallInv, CallTypeOK, NoStaleSubscriber
<1>1. CASE Producer \/ UNCHANGED vars
  BY <1>0, <1>1 DEF Producer, Produce, ProducerWake, ProducerKill, vars,
                    fileVars, sigVars, callVars
<1>2. ASSUME NEW u \in Users, Program(u)
      PROVE  v \in opened' /\ pc'[v] # "release"
  BY <1>0, <1>2 DEF Program, Open, Release, SetAsync, Read, Write, Poll, Enter,
                    InUserMode, fileVars, sigVars, callVars
<1>3. ASSUME NEW u \in Users, InRead(u)
      PROVE  v \in opened' /\ pc'[v] # "release"
  BY <1>0, <1>3 DEF InRead, Pop, ReadWait, ReadCheck, ReadWoken, CopyOut,
     CopyOutFaults, KillOut, MovedNothing, Return, Goto, fileVars, sigVars
<1>4. ASSUME NEW u \in Users, InWrite(u)
      PROVE  v \in opened' /\ pc'[v] # "release"
  BY <1>0, <1>4 DEF InWrite, CopyIn, CopyInFaults, Push, WriteWait, WriteCheck,
     WriteWoken, WakeIn, KillIn, MovedNothing, Return, Goto, fileVars, sigVars
<1>5. ASSUME NEW u \in Users,
             InPoll(u) \/ PollTimeout(u) \/ Handle(u) \/ Interrupt(u)
      PROVE  v \in opened' /\ pc'[v] # "release"
  BY <1>0, <1>5 DEF InPoll, PollMask, PollWoken, PollLast, PollTimeout, Handle,
     Interrupt, PollReturn, Return, Goto, Enter, fileVars, sigVars, callVars
<1>6. ASSUME NEW u \in Users, ReleaseCount(u)
      PROVE  v \in opened' /\ pc'[v] # "release"
  BY <1>0, <1>6 DEF ReleaseCount, Return, sigVars
<1>7. QED BY <1>1, <1>2, <1>3, <1>4, <1>5, <1>6 DEF Next, Kernel

\* kill_fasync never meets the node of a file that is closed or being closed.
THEOREM Subscribers == Spec => []NoStaleSubscriber
<1>1. Init => NoStaleSubscriber BY DEF Init, NoStaleSubscriber
<1>2. QED BY <1>1, SubscriberStep, TypeInvHolds, PTL DEF Spec

\* v is back in user mode after a read that found the ring empty.
Drained(v) == pc[v] = "user" /\ op[v] \in ReadOps /\ ret[v] = EAGAIN

LEMMA DrainedStep ==
    ASSUME CallsInv, DrainedSubscriberIsTold, [Next]_vars
    PROVE  DrainedSubscriberIsTold'
<1> SUFFICES ASSUME NEW v \in fasyncQ', Drained(v)', v \notin sigpend',
                    count' > 0
             PROVE  SubscribersGetTold'
  BY DEF DrainedSubscriberIsTold, Drained
<1> USE DEF Drained, SubscribersGetTold
<1>0. /\ pc \in [Users -> Pcs] /\ op \in [Users -> CallKinds \union {"none"}]
      /\ ret \in [Users -> Int] /\ total \in [Users -> 0..MaxLen]
      /\ want \in [Users -> 0..MaxLen]
      /\ count \in 0..RingSize /\ RingSize \in Nat \ {0}
      /\ EAGAIN = -11 /\ ERESTARTSYS = -512 /\ EFAULT = -14
      /\ v \in fasyncQ /\ Drained(v) /\ v \notin sigpend /\ count > 0
         => SubscribersGetTold
      /\ fasyncQ \subseteq Users
  BY ConstantsAssumption
  DEF CallsInv, TypeInv, DeviceTypeOK, CallInv, CallTypeOK,
      DrainedSubscriberIsTold, EAGAIN, ERESTARTSYS, EFAULT
<1>1. CASE Producer
  BY <1>0, <1>1 DEF Producer, Produce, ProducerWake, ProducerKill, KillFasync,
     ringVars, callVars, sigVars
<1>2. ASSUME NEW u \in Users, Program(u) PROVE SubscribersGetTold'
  BY <1>0, <1>2 DEF Program, Open, Release, SetAsync, Read, Write, Poll, Enter,
     InUserMode, ReadOps, ringVars, callVars, sigVars
<1>3. ASSUME NEW u \in Users, InRead(u) PROVE SubscribersGetTold'
  <2>0. /\ pc[u] = "pop" => total[u] < want[u]
        /\ pc[u] \notin {"wakein", "killin"} \/ ~InRead(u)
    BY DEF CallsInv, InCallOK, InReadOK, InRead, Pop, ReadWait, ReadCheck,
           ReadWoken, CopyOut, CopyOutFaults, KillOut
  <2>1. CASE Pop(u)
    <3>1. count' \in 0..count
      BY <1>0, <2>0, <2>1 DEF Pop, RingPop, AtMost, ringVars
    <3>2. count > 0 BY <1>0, <3>1
    <3>3. total[u] = 0 => ~MovedNothing(u, "readwait") \/ pc'[u] # "user"
                          \/ ret'[u] = EAGAIN
      BY <1>0 DEF MovedNothing, Return, Goto
    <3>4. CASE pc' = [pc EXCEPT ![u] = "copyout"] /\ op' = op /\ ret' = ret
      BY <1>0, <2>0, <2>1, <3>2, <3>4 DEF Pop, sigVars
    <3>5. CASE MovedNothing(u, "readwait")
               /\ AtMost(AtMost(want[u] - total[u], RingSize), count) = 0
      <4>1. total[u] < want[u] BY <2>0, <2>1 DEF Pop
      <4>2. count = 0 BY <1>0, <3>5, <4>1 DEF AtMost
      <4>3. QED BY <3>2, <4>2
    <3>6. QED BY <2>1, <3>4, <3>5 DEF Pop
  <2>2. CASE ReadWait(u) \/ ReadCheck(u) \/ ReadWoken(u)
    BY <1>0, <2>2 DEF ReadWait, ReadCheck, ReadWoken, Return, Goto, ringVars,
                      sigVars
  <2>3. CASE CopyOut(u) \/ CopyOutFaults(u) \/ KillOut(u)
    BY <1>0, <2>3 DEF CopyOut, CopyOutFaults, KillOut, KillFasync, Return, Goto,
                      ringVars, sigVars
  <2>4. QED BY <1>3, <2>1, <2>2, <2>3 DEF InRead
<1>4. ASSUME NEW u \in Users, InWrite(u) PROVE SubscribersGetTold'
  <2>0. op[u] \notin ReadOps
    BY <1>4 DEF CallsInv, InCallOK, InWriteOK, InWrite, CopyIn, CopyInFaults,
       Push, WriteWait, WriteCheck, WriteWoken, WakeIn, KillIn, WritePcs,
       ReadOps, WriteOps
  <2>1. v # u /\ op' = op
    <3>1. op' = op
      BY <1>4 DEF InWrite, CopyIn, CopyInFaults, Push, WriteWait, WriteCheck,
         WriteWoken, WakeIn, KillIn, MovedNothing, Return, Goto
    <3>2. QED BY <2>0, <3>1
  <2>2. CASE Push(u)
    BY <1>0, <2>1, <2>2 DEF Push, MovedNothing, Return, Goto, ringVars, sigVars
  <2>3. CASE WriteWait(u) \/ WriteCheck(u) \/ WriteWoken(u)
    BY <1>0, <2>1, <2>3 DEF WriteWait, WriteCheck, WriteWoken, Return, Goto,
                            ringVars, sigVars
  <2>4. CASE CopyIn(u) \/ CopyInFaults(u)
    BY <1>0, <2>1, <2>4 DEF CopyIn, CopyInFaults, Return, ringVars, sigVars
  <2>5. CASE WakeIn(u)
    BY <1>0, <2>1, <2>5 DEF WakeIn, Goto
  <2>6. CASE KillIn(u)
    BY <1>0, <2>1, <2>6 DEF KillIn, KillFasync, Return, Goto, ringVars
  <2>7. QED BY <1>4, <2>2, <2>3, <2>4, <2>5, <2>6 DEF InWrite
<1>5. ASSUME NEW u \in Users, InPoll(u) \/ PollTimeout(u)
      PROVE  SubscribersGetTold'
  <2>1. Mask(u) # EAGAIN /\ EINTR # EAGAIN
    BY <1>0 DEF Mask, POLLIN, POLLOUT, EINTR
  <2>2. QED
    BY <1>0, <1>5, <2>1 DEF InPoll, PollMask, PollWoken, PollLast, PollTimeout,
       PollReturn, Return, Goto, ringVars, sigVars
<1>6. ASSUME NEW u \in Users, ReleaseCount(u) \/ Handle(u) \/ Interrupt(u)
      PROVE  SubscribersGetTold'
  BY <1>0, <1>6 DEF ReleaseCount, Handle, Interrupt, Enter, Return, ReadOps,
     ringVars, callVars, sigVars
<1>7. CASE UNCHANGED vars
  BY <1>0, <1>7 DEF vars, ringVars, callVars, sigVars
<1>8. QED BY <1>1, <1>2, <1>3, <1>4, <1>5, <1>6, <1>7 DEF Next, Kernel

\* A subscriber that read until EAGAIN is signalled, or about to be, when there
\* is data again: signalling only the edge from empty suffices for it.
THEOREM DrainedSubscribers == Spec => []DrainedSubscriberIsTold
<1>1. Init => DrainedSubscriberIsTold BY DEF Init, DrainedSubscriberIsTold
<1>2. QED BY <1>1, DrainedStep, CallsInvHolds, PTL DEF Spec

\* A program makes only the calls that are its own.
OwnCalls == \A u \in Users : op[u] \in Calls[u] \union {"none"}

LEMMA OwnCallsStep == TypeInv /\ OwnCalls /\ [Next]_vars => OwnCalls'
<1> SUFFICES ASSUME TypeInv, OwnCalls, [Next]_vars PROVE OwnCalls' OBVIOUS
<1>0. op \in [Users -> CallKinds \union {"none"}]
  BY DEF TypeInv, CallInv, CallTypeOK
<1>1. CASE Producer \/ UNCHANGED vars
  BY <1>1 DEF Producer, Produce, ProducerWake, ProducerKill, vars, callVars,
              OwnCalls
<1>2. ASSUME NEW u \in Users, Program(u) PROVE OwnCalls'
  BY <1>0, <1>2 DEF Program, Open, Release, SetAsync, Read, Write, Poll, Enter,
                    callVars, OwnCalls
<1>3. ASSUME NEW u \in Users, Kernel(u) \/ PollTimeout(u) \/ Interrupt(u)
      PROVE  OwnCalls'
  <2>1. op' = op \/ Handle(u)
    BY <1>3 DEF Kernel, InRead, InWrite, InPoll, Pop, ReadWait, ReadCheck,
       ReadWoken, CopyOut, CopyOutFaults, KillOut, CopyIn, CopyInFaults, Push,
       WriteWait, WriteCheck, WriteWoken, WakeIn, KillIn, PollMask, PollWoken,
       PollLast, PollTimeout, PollReturn, ReleaseCount, Interrupt,
       MovedNothing, Return, Goto, callVars
  <2>2. QED BY <1>0, <2>1 DEF Handle, Enter, OwnCalls
<1>4. QED BY <1>1, <1>2, <1>3 DEF Next

LEMMA PollReadyStep ==
    ASSUME CallsInv, OwnCalls, PollReadyIsReadable, [Next]_vars
    PROVE  PollReadyIsReadable'
<1> SUFFICES ASSUME NEW v \in Users,
                    \A w \in Users \ {v} : Calls[w] \intersect ReadOps = {},
                    pc'[v] = "user", op'[v] = "pollin", ret'[v] = POLLIN
             PROVE  count' > 0
  BY DEF PollReadyIsReadable
<1>0. /\ pc \in [Users -> Pcs] /\ op \in [Users -> CallKinds \union {"none"}]
      /\ ret \in [Users -> Int] /\ total \in [Users -> 0..MaxLen]
      /\ count \in 0..RingSize /\ RingSize \in Nat \ {0}
      /\ POLLIN = 1 /\ POLLOUT = 4 /\ EINTR = -4
      /\ pc[v] = "user" /\ op[v] = "pollin" /\ ret[v] = POLLIN => count > 0
  BY ConstantsAssumption
  DEF CallsInv, TypeInv, DeviceTypeOK, CallInv, CallTypeOK,
      PollReadyIsReadable, POLLIN, POLLOUT, EINTR
<1>1. CASE Producer \/ UNCHANGED vars
  BY <1>0, <1>1 DEF Producer, Produce, ProducerWake, ProducerKill, RingPush,
     ringVars, callVars, vars
<1>2. ASSUME NEW u \in Users, Program(u) PROVE count' > 0
  BY <1>0, <1>2 DEF Program, Open, Release, SetAsync, Read, Write, Poll, Enter,
     ReadOps, WriteOps, ringVars, callVars
<1>3. ASSUME NEW u \in Users, InRead(u) PROVE count' > 0
  <2>1. op[u] \in ReadOps
    BY <1>3 DEF CallsInv, InCallOK, InReadOK, InRead, Pop, ReadWait, ReadCheck,
       ReadWoken, CopyOut, CopyOutFaults, KillOut, ReadPcs
  <2>2. u = v BY <2>1 DEF OwnCalls, ReadOps
  <2>3. op' = op
    BY <1>3 DEF InRead, Pop, ReadWait, ReadCheck, ReadWoken, CopyOut,
       CopyOutFaults, KillOut, MovedNothing, Return, Goto
  <2>4. QED BY <2>1, <2>2, <2>3 DEF ReadOps
<1>4. ASSUME NEW u \in Users, InWrite(u) PROVE count' > 0
  <2>1. op[u] \in WriteOps
    BY <1>4 DEF CallsInv, InCallOK, InWriteOK, InWrite, CopyIn, CopyInFaults,
       Push, WriteWait, WriteCheck, WriteWoken, WakeIn, KillIn, WritePcs
  <2>2. /\ op' = op
        /\ \A w \in Users \ {u} : pc'[w] = pc[w] /\ ret'[w] = ret[w]
    BY <1>0, <1>4 DEF InWrite, CopyIn, CopyInFaults, Push, WriteWait,
       WriteCheck, WriteWoken, WakeIn, KillIn, MovedNothing, Return, Goto
  <2>3. count > 0 BY <1>0, <2>1, <2>2 DEF WriteOps
  <2>4. CASE Push(u)
    <3> DEFINE n == AtMost(Len(tmp[u]), RingSize - count)
    <3>1. n \in Int
      BY <1>0 DEF AtMost, CallsInv, TypeInv, CallInv, CallTypeOK
    <3>2. (n > 0 /\ count' = count + n) \/ count' = count
      BY <2>4 DEF Push, RingPush, ringVars
    <3> HIDE DEF n
    <3>3. QED BY <1>0, <2>3, <3>1, <3>2
  <2>5. CASE ~Push(u)
    BY <1>4, <2>3, <2>5
    DEF InWrite, CopyIn, CopyInFaults, WriteWait, WriteCheck, WriteWoken,
        WakeIn, KillIn, ringVars
  <2>6. QED BY <2>4, <2>5
<1>5. ASSUME NEW u \in Users, InPoll(u) \/ PollTimeout(u) PROVE count' > 0
  BY <1>0, <1>5 DEF InPoll, PollMask, PollWoken, PollLast, PollTimeout,
     PollReturn, Ready, Mask, Return, Goto, ringVars
<1>6. ASSUME NEW u \in Users, ReleaseCount(u) \/ Handle(u) \/ Interrupt(u)
      PROVE  count' > 0
  BY <1>0, <1>6 DEF ReleaseCount, Handle, Interrupt, Enter, Return, ringVars,
     callVars
<1>7. QED BY <1>1, <1>2, <1>3, <1>4, <1>5, <1>6 DEF Next, Kernel

\* A process that was told POLLIN finds data when nobody else reads.
THEOREM PollIsHonest == Spec => []PollReadyIsReadable
<1>1. Init => OwnCalls /\ PollReadyIsReadable
  BY DEF Init, OwnCalls, PollReadyIsReadable
<1>2. QED BY <1>1, OwnCallsStep, PollReadyStep, CallsInvHolds, PTL
          DEF Spec, CallsInv
===============================================================================
