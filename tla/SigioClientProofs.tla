--------------------------- MODULE SigioClientProofs ---------------------------
(***************************************************************************)
(* Theorems about the signal-driven client on the driver, for any ring, any *)
(* request length and any number of events to wait for.  Its steps are      *)
(* steps of the driver's processes, so that the driver's invariants hold    *)
(* of it; with them the client's own invariant says what the handler has    *)
(* left behind when it returns.                                             *)
(***************************************************************************)
EXTENDS SigioClient, AdvIoProofs

MainPcs    == {"open", "subscribe", "test", "sleep", "pause", "close", "done"}
HandlerPcs == {"idle", "read", "reading", "unsubscribe"}
Waiting    == {"test", "sleep", "pause"}

ClientTypes ==
    /\ main \in MainPcs /\ handler \in HandlerPcs /\ gcount \in Nat

\* Where the process is in the driver, given where its program is.
PlaceOK ==
    /\ main = "open" => me \notin opened
    /\ main \in {"subscribe", "close"} \union Waiting
       => me \in opened /\ me \in nonblock
    /\ main \in {"open", "subscribe"}
       => me \notin fasyncQ /\ me \notin sigpend /\ handler = "idle" /\ gcount = 0
    /\ main = "done" => handler = "idle" /\ pc[me] \in UserPcs
    /\ main # "done" /\ handler # "reading" => pc[me] = "user"

\* The handler's read: it never waits, and when it is over it has drained the
\* ring or made SIGIO pending again.
ReadingOK ==
    handler = "reading" =>
        /\ pc[me] \in {"user", "pop", "copyout", "killout"} /\ op[me] = "read"
        /\ pc[me] = "pop" => total[me] = 0
        /\ pc[me] = "user" =>
              \/ ret[me] = EAGAIN
              \/ ret[me] > 0 /\ (me \in fasyncQ => me \in sigpend)

\* The client stays subscribed until it has counted its events.
SubscribedOK ==
    /\ main \in Waiting /\ gcount < Target => me \in fasyncQ
    /\ handler = "unsubscribe" => gcount >= Target
    /\ main \in {"close", "done"} => gcount >= Target

\* Between two runs of the handler the next one is pending, or the last one
\* found the ring empty.
HandledOK ==
    main \in Waiting /\ handler = "idle" /\ gcount \in 1..Target-1 =>
        me \in sigpend \/ (op[me] = "read" /\ ret[me] = EAGAIN)

\* What is left to come once the target is reached: SIGIO may be pending when
\* the client unsubscribes, and then once more is counted.
OvershootOK ==
    /\ gcount > Target => gcount = Target + 1 /\ me \notin sigpend
    /\ gcount >= Target /\ handler # "unsubscribe" => me \notin fasyncQ
    /\ gcount > Target => me \notin fasyncQ /\ handler \in {"idle", "unsubscribe"}
    /\ gcount = Target /\ handler \in {"read", "reading"} => me \notin sigpend

ClientInv ==
    /\ ClientTypes /\ PlaceOK /\ ReadingOK
    /\ SubscribedOK /\ HandledOK /\ OvershootOK

------------------------------------------------------------------------------
(* The client is one of the driver's processes *)

LEMMA ClientStepIsDriverStep == [ClientNext]_allVars => [Next]_vars
<1> SUFFICES ASSUME [ClientNext]_allVars PROVE [Next]_vars OBVIOUS
<1>0. me \in Users /\ MaxLen \in 0..MaxLen /\ "read" \in ReadOps
      /\ "nonblock" \in OpenModes /\ TRUE \in BOOLEAN /\ FALSE \in BOOLEAN
  BY ClientAssumption, ConstantsAssumption DEF ReadOps, OpenModes
<1>1. CASE Producer \/ InDriver
  BY <1>0, <1>1 DEF InDriver, Next, Kernel
<1>2. CASE MainStep
  BY <1>0, <1>2 DEF MainStep, OpenDevice, Subscribe, TestCount, CallPause,
     CloseDevice, Next, Program
<1>3. CASE HandlerStep
  <2>1. CASE EnterHandler
    BY <1>0, <2>1 DEF EnterHandler, Next, Kernel
  <2>2. CASE HandlerRead
    BY <1>0, <2>2 DEF HandlerRead, Next, Program
  <2>3. CASE HandlerCount
    BY <2>3 DEF HandlerCount
  <2>4. CASE HandlerUnsubscribe
    BY <1>0, <2>4 DEF HandlerUnsubscribe, Next, Program
  <2>5. QED BY <1>3, <2>1, <2>2, <2>3, <2>4 DEF HandlerStep
<1>4. CASE UNCHANGED allVars
  BY <1>4 DEF allVars
<1>5. QED BY <1>1, <1>2, <1>3, <1>4 DEF ClientNext

\* The signal-driven client keeps to the driver's specification: whatever its
\* handler interrupts, it makes the calls that AdvIo's processes make.
THEOREM ClientRefinesDriver == ClientSpec => Spec
<1>1. ClientInit => Init BY DEF ClientInit
<1>2. QED BY <1>1, ClientStepIsDriverStep, PTL DEF ClientSpec, Spec

------------------------------------------------------------------------------
(* The inductive invariant of main program and handler *)

\* Facts about the state that every step needs.
LEMMA ClientFacts ==
    ASSUME CallsInv
    PROVE  /\ pc \in [Users -> Pcs] /\ op \in [Users -> CallKinds \union {"none"}]
           /\ ret \in [Users -> Int] /\ total \in [Users -> 0..MaxLen]
           /\ want \in [Users -> 0..MaxLen] /\ MaxLen \in Nat \ {0}
           /\ count \in 0..RingSize /\ RingSize \in Nat \ {0}
           /\ me \in Users /\ me \notin Faulty /\ Target \in Nat \ {0}
           /\ pc[me] = "user" => total[me] = 0
           /\ pc[me] = "pop" => total[me] < want[me]
           /\ pc[me] = "killout" => total[me] > 0
BY ConstantsAssumption, ClientAssumption
DEF CallsInv, TypeInv, DeviceTypeOK, CallInv, CallTypeOK, Bounded, InCallOK,
    InReadOK

LEMMA InitClientInv == ClientInit => ClientInv
BY ClientAssumption
DEF ClientInit, Init, ClientInv, ClientTypes, PlaceOK, ReadingOK, SubscribedOK,
    HandledOK, OvershootOK, MainPcs, HandlerPcs, Waiting

\* The work item signals the subscribers and leaves the client where it is.
LEMMA ProducerClient ==
    ASSUME CallsInv, ClientInv, Producer, UNCHANGED clientVars
    PROVE  ClientInv'
<1>1. /\ UNCHANGED <<opened, nonblock, fasyncQ, pc, op, ret, total>>
      /\ sigpend' \in {sigpend, sigpend \union fasyncQ}
  BY DEF Producer, Produce, ProducerWake, ProducerKill, KillFasync, fileVars,
         sigVars, callVars
<1>2. UNCHANGED <<main, handler, gcount>> BY DEF clientVars
<1>3. QED
  BY <1>1, <1>2 DEF ClientInv, ClientTypes, PlaceOK, ReadingOK, SubscribedOK,
     HandledOK, OvershootOK, Waiting

\* The client inside the driver.
LEMMA InDriverClient ==
    ASSUME CallsInv, ClientInv, InDriver, UNCHANGED clientVars
    PROVE  ClientInv'
<1> USE ClientFacts
<1>0. UNCHANGED <<main, handler, gcount>> BY DEF clientVars
<1>1. CASE ReleaseCount(me)
  <2>1. main = "done" /\ handler = "idle" /\ gcount >= Target
    BY <1>1 DEF ReleaseCount, ClientInv, PlaceOK, ReadingOK, SubscribedOK,
       ClientTypes, HandlerPcs
  <2>2. pc'[me] = "user" /\ UNCHANGED <<fasyncQ, sigpend>>
    BY <1>1 DEF ReleaseCount, Return, sigVars
  <2>3. QED
    BY <1>0, <2>1, <2>2 DEF ClientInv, ClientTypes, PlaceOK, ReadingOK,
       SubscribedOK, HandledOK, OvershootOK, Waiting, UserPcs
<1>2. CASE InRead(me)
  <2>1. pc[me] \notin UserPcs
    BY <1>2 DEF InRead, Pop, ReadWait, ReadCheck, ReadWoken, CopyOut,
       CopyOutFaults, KillOut, UserPcs
  <2>2. /\ handler = "reading" /\ main \in {"close"} \union Waiting
        /\ me \in nonblock /\ op[me] = "read"
        /\ pc[me] \in {"pop", "copyout", "killout"}
    BY <2>1 DEF ClientInv, ClientTypes, PlaceOK, ReadingOK, UserPcs, HandlerPcs,
       MainPcs, Waiting
  <2>3. UNCHANGED <<opened, nonblock, fasyncQ>> /\ op' = op
    BY <1>2 DEF InRead, Pop, ReadWait, ReadCheck, ReadWoken, CopyOut,
       CopyOutFaults, KillOut, MovedNothing, Return, Goto, fileVars, sigVars
  <2>4. CASE Pop(me)
    <3>1. pc[me] = "pop" /\ total[me] = 0 /\ sigpend' = sigpend
      BY <2>2, <2>4 DEF Pop, sigVars, ClientInv, ReadingOK
    <3>2. pc'[me] = "copyout" \/ (pc'[me] = "user" /\ ret'[me] = EAGAIN)
      <4>1. CASE pc' = [pc EXCEPT ![me] = "copyout"]
        BY <4>1
      <4>2. CASE MovedNothing(me, "readwait")
        BY <2>2, <3>1, <4>2 DEF MovedNothing, Return, EAGAIN
      <4>3. QED BY <2>4, <4>1, <4>2 DEF Pop
    <3>3. QED
      BY <1>0, <2>2, <2>3, <3>1, <3>2 DEF ClientInv, ClientTypes, PlaceOK,
         ReadingOK, SubscribedOK, HandledOK, OvershootOK, Waiting
  <2>5. CASE CopyOut(me)
    <3>1. pc'[me] = "killout" /\ sigpend' = sigpend
      BY <2>5 DEF CopyOut, sigVars
    <3>2. QED
      BY <1>0, <2>2, <2>3, <3>1 DEF ClientInv, ClientTypes, PlaceOK,
         ReadingOK, SubscribedOK, HandledOK, OvershootOK, Waiting
  <2>6. CASE KillOut(me)
    <3>1. /\ pc[me] = "killout" /\ sigpend' = sigpend \union fasyncQ
          /\ Return(me, total[me])
      BY <2>2, <2>6 DEF KillOut, KillFasync, IterOps
    <3>2. pc'[me] = "user" /\ ret'[me] = total[me] /\ ret'[me] > 0
      BY <3>1 DEF Return
    <3>3. QED
      BY <1>0, <2>2, <2>3, <3>1, <3>2 DEF ClientInv, ClientTypes, PlaceOK,
         ReadingOK, SubscribedOK, HandledOK, OvershootOK, Waiting
  <2>7. QED
    BY <1>2, <2>2, <2>4, <2>5, <2>6
    DEF InRead, ReadWait, ReadCheck, ReadWoken, CopyOutFaults
<1>3. QED BY <1>1, <1>2 DEF InDriver

\* The main program.
LEMMA MainClient ==
    ASSUME CallsInv, ClientInv, MainStep PROVE ClientInv'
<1> USE ClientFacts
<1>0. handler = "idle" /\ handler' = "idle" /\ gcount' = gcount
  BY DEF MainStep, OpenDevice, Subscribe, TestCount, CallPause, CloseDevice, Main
<1>1. CASE OpenDevice
  <2>1. /\ main = "open" /\ main' = "subscribe"
        /\ me \in opened' /\ me \in nonblock'
        /\ UNCHANGED <<fasyncQ, sigpend, pc, op, ret, total>>
    BY <1>1 DEF OpenDevice, Open, Main, sigVars, callVars
  <2>2. QED
    BY <1>0, <2>1 DEF ClientInv, ClientTypes, PlaceOK, ReadingOK, SubscribedOK,
       HandledOK, OvershootOK, Waiting, MainPcs
<1>2. CASE Subscribe
  <2>1. /\ main = "subscribe" /\ main' = "test" /\ pc'[me] = "user"
        /\ fasyncQ' = fasyncQ \union {me}
        /\ UNCHANGED <<opened, nonblock, sigpend>>
    BY <1>2 DEF Subscribe, SetAsync, Main, Enter, fileVars
  <2>2. QED
    BY <1>0, <2>1 DEF ClientInv, ClientTypes, PlaceOK, ReadingOK, SubscribedOK,
       HandledOK, OvershootOK, Waiting, MainPcs
<1>3. CASE TestCount \/ CallPause
  <2>1. /\ main \in {"test", "sleep"} /\ main' \in {"sleep", "pause", "close"}
        /\ main' = "close" => ~(gcount < Target)
        /\ UNCHANGED <<opened, nonblock, fasyncQ, sigpend, pc, op, ret, total>>
    BY <1>3 DEF TestCount, CallPause, Main, vars, fileVars, sigVars, callVars
  <2>2. QED
    BY <1>0, <2>1 DEF ClientInv, ClientTypes, PlaceOK, ReadingOK, SubscribedOK,
       HandledOK, OvershootOK, Waiting, MainPcs
<1>4. CASE CloseDevice
  <2>1. /\ main = "close" /\ main' = "done" /\ pc'[me] = "release"
        /\ fasyncQ' = fasyncQ \ {me}
        /\ UNCHANGED <<opened, nonblock, sigpend>>
    BY <1>4 DEF CloseDevice, Release, Main, Enter, fileVars
  <2>2. QED
    BY <1>0, <2>1 DEF ClientInv, ClientTypes, PlaceOK, ReadingOK, SubscribedOK,
       HandledOK, OvershootOK, Waiting, MainPcs, UserPcs
<1>5. QED BY <1>1, <1>2, <1>3, <1>4 DEF MainStep

\* The handler.
LEMMA HandlerClient ==
    ASSUME CallsInv, ClientInv, HandlerStep PROVE ClientInv'
<1> USE ClientFacts
<1>1. CASE EnterHandler
  <2>1. /\ handler = "idle" /\ main # "done" /\ handler' = "read"
        /\ me \in sigpend /\ sigpend' = sigpend \ {me} /\ pc'[me] = "user"
        /\ UNCHANGED <<main, gcount, opened, nonblock, fasyncQ>>
    BY <1>1 DEF EnterHandler, Handle, Enter, fileVars
  <2>2. QED
    BY <2>1 DEF ClientInv, ClientTypes, PlaceOK, ReadingOK, SubscribedOK,
       HandledOK, OvershootOK, Waiting, HandlerPcs
<1>2. CASE HandlerRead
  <2>1. /\ handler = "read" /\ handler' = "reading"
        /\ pc'[me] = "pop" /\ op'[me] = "read" /\ total'[me] = 0
        /\ UNCHANGED <<main, gcount, opened, nonblock, fasyncQ, sigpend>>
    BY <1>2 DEF HandlerRead, Read, InUserMode, Enter, fileVars, sigVars
  <2>2. QED
    BY <2>1 DEF ClientInv, ClientTypes, PlaceOK, ReadingOK, SubscribedOK,
       HandledOK, OvershootOK, Waiting, HandlerPcs
<1>3. CASE HandlerCount
  <2>0. /\ handler = "reading" /\ pc[me] = "user"
        /\ UNCHANGED <<opened, nonblock, fasyncQ, sigpend, pc, op, ret, total>>
    BY <1>3 DEF HandlerCount, vars, fileVars, sigVars, callVars
  <2>1. CASE ret[me] > 0 /\ gcount' = gcount + 1 /\ gcount + 1 >= Target
             /\ handler' = "unsubscribe" /\ main' = main
    BY <2>0, <2>1 DEF ClientInv, ClientTypes, PlaceOK, ReadingOK, SubscribedOK,
       HandledOK, OvershootOK, Waiting, HandlerPcs
  <2>2. CASE ret[me] > 0 /\ gcount' = gcount + 1 /\ ~(gcount + 1 >= Target)
             /\ HandlerReturns
    BY <2>0, <2>2 DEF HandlerReturns, ClientInv, ClientTypes, PlaceOK,
       ReadingOK, SubscribedOK, HandledOK, OvershootOK, Waiting, HandlerPcs,
       MainPcs, EAGAIN
  <2>3. CASE ret[me] <= 0 /\ gcount' = gcount /\ HandlerReturns
    BY <2>0, <2>3 DEF HandlerReturns, ClientInv, ClientTypes, PlaceOK,
       ReadingOK, SubscribedOK, HandledOK, OvershootOK, Waiting, HandlerPcs,
       MainPcs
  <2>4. QED BY <1>3, <2>1, <2>2, <2>3 DEF HandlerCount, Enough
<1>4. CASE HandlerUnsubscribe
  <2>1. /\ handler = "unsubscribe" /\ handler' = "idle" /\ pc'[me] = "user"
        /\ main' = IF main = "pause" THEN "test" ELSE main
        /\ fasyncQ' = fasyncQ \ {me}
        /\ UNCHANGED <<gcount, opened, nonblock, sigpend>>
    BY <1>4 DEF HandlerUnsubscribe, HandlerReturns, SetAsync, Enter, fileVars
  <2>2. QED
    BY <2>1 DEF ClientInv, ClientTypes, PlaceOK, ReadingOK, SubscribedOK,
       HandledOK, OvershootOK, Waiting, HandlerPcs, MainPcs
<1>5. QED BY <1>1, <1>2, <1>3, <1>4 DEF HandlerStep

LEMMA ClientInvStep ==
    CallsInv /\ ClientInv /\ [ClientNext]_allVars => ClientInv'
<1> SUFFICES ASSUME CallsInv, ClientInv, [ClientNext]_allVars PROVE ClientInv'
  OBVIOUS
<1>1. CASE UNCHANGED allVars
  BY <1>1 DEF allVars, vars, clientVars, fileVars, sigVars, callVars, ClientInv,
     ClientTypes, PlaceOK, ReadingOK, SubscribedOK, HandledOK, OvershootOK
<1>2. QED
  BY <1>1, ProducerClient, InDriverClient, MainClient, HandlerClient
  DEF ClientNext

\* What main program, handler and driver know of each other at every step.
THEOREM ClientInvHolds == ClientSpec => []ClientInv
<1>1. ClientSpec => []CallsInv
  BY ClientRefinesDriver, CallsInvHolds, PTL
<1>2. QED BY <1>1, InitClientInv, ClientInvStep, PTL DEF ClientSpec

------------------------------------------------------------------------------
\* From its first event to its last but one, the client in pause() is told of
\* data: the read that got something made SIGIO pending again, and the one that
\* got nothing drained the ring, so that the next byte is an edge from empty.
THEOREM PausedClientHears == ClientSpec => []PausedClientIsTold
<1>1. CallsInv /\ ClientInv /\ DrainedSubscriberIsTold => PausedClientIsTold
  <2> SUFFICES ASSUME CallsInv, ClientInv, DrainedSubscriberIsTold,
                      main = "pause", handler = "idle",
                      gcount \in 1..Target-1, count > 0, me \notin sigpend
               PROVE  SubscribersGetTold
    BY DEF PausedClientIsTold
  <2>1. me \in fasyncQ /\ pc[me] = "user" /\ op[me] = "read" /\ ret[me] = EAGAIN
    BY ClientFacts
    DEF ClientInv, ClientTypes, PlaceOK, SubscribedOK, HandledOK, Waiting
  <2>2. QED BY <2>1 DEF DrainedSubscriberIsTold, ReadOps
<1>2. ClientSpec => []CallsInv /\ []DrainedSubscriberIsTold
  BY ClientRefinesDriver, CallsInvHolds, DrainedSubscribers, PTL
<1>3. QED BY <1>1, <1>2, ClientInvHolds, PTL

\* One event too many is counted at most: the one that was pending when the
\* handler unsubscribed.
THEOREM CountOvershootsByOne == ClientSpec => []OvershootsByOne
<1>1. ClientInv => OvershootsByOne
  BY ClientAssumption
  DEF ClientInv, ClientTypes, OvershootOK, OvershootsByOne
<1>2. QED BY <1>1, ClientInvHolds, PTL
===============================================================================
