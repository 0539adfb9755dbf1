----------------------------- MODULE SigioClient ------------------------------
(***************************************************************************)
(* The signal-driven client test_fasync.c running on the driver of AdvIo:  *)
(* a main program that subscribes to SIGIO and sleeps in pause() until its *)
(* handler has read data five times.  The handler interrupts the main      *)
(* program between any two of its steps; SIGIO is blocked while it runs.   *)
(***************************************************************************)
EXTENDS AdvIo

CONSTANTS me,      \* the process that runs the client
          Target   \* events to wait for (5)

\* The buffer the handler reads into is on its stack: it does not fault.
ASSUME ClientAssumption ==
    me \in Users /\ me \notin Faulty /\ Target \in Nat \ {0}

VARIABLES main,    \* where the main program is
          handler, \* where sigio_handler is; "idle" when it is not running
          gcount   \* g_count

clientVars == <<main, handler, gcount>>
allVars == <<vars, clientVars>>

ClientInit ==
    /\ Init
    /\ main = "open" /\ handler = "idle" /\ gcount = 0

------------------------------------------------------------------------------
(* The main program: it runs when its handler does not. *)

Main(from, to) ==
    /\ handler = "idle" /\ main = from
    /\ main' = to
    /\ UNCHANGED <<handler, gcount>>

OpenDevice == Open(me, "nonblock") /\ Main("open", "subscribe")

\* F_SETOWN and O_ASYNC; the signal handler is installed by now.
Subscribe == SetAsync(me, TRUE) /\ Main("subscribe", "test")

\* while (g_count < 5) pause(): the test and the call are two steps.
TestCount ==
    /\ Main("test", IF gcount < Target THEN "sleep" ELSE "close")
    /\ UNCHANGED vars

CallPause == Main("sleep", "pause") /\ UNCHANGED vars

CloseDevice == Release(me) /\ Main("close", "done")

MainStep == OpenDevice \/ Subscribe \/ TestCount \/ CallPause \/ CloseDevice

------------------------------------------------------------------------------
(* sigio_handler *)

\* The end of the handler; pause() returns when a handler has run in it, but
\* one that ran just before the call goes unnoticed.
HandlerReturns ==
    /\ handler' = "idle"
    /\ main' = IF main = "pause" THEN "test" ELSE main

EnterHandler ==
    /\ handler = "idle" /\ main # "done"
    /\ Handle(me)
    /\ handler' = "read"
    /\ UNCHANGED <<main, gcount>>

HandlerRead ==
    /\ handler = "read"
    /\ Read(me, "read", MaxLen)
    /\ handler' = "reading"
    /\ UNCHANGED <<main, gcount>>

\* Mutant of Enough: compared before the event is counted, off by one.
EnoughEarly(n) == n >= Target - 1

\* The handler has counted all the events it waits for.
Enough(n) == n >= Target

\* Only a read that got bytes counts; the fifth ends the subscription.
HandlerCount ==
    /\ handler = "reading" /\ pc[me] = "user"
    /\ \/ /\ ret[me] > 0
          /\ gcount' = gcount + 1
          /\ IF Enough(gcount + 1)
             THEN handler' = "unsubscribe" /\ UNCHANGED main
             ELSE HandlerReturns
       \/ /\ ret[me] <= 0
          /\ HandlerReturns
          /\ UNCHANGED gcount
    /\ UNCHANGED vars

\* Mutant of HandlerUnsubscribe: O_ASYNC stays set.
HandlerUnsubscribeNot ==
    /\ handler = "unsubscribe"
    /\ SetAsync(me, TRUE)
    /\ HandlerReturns
    /\ UNCHANGED gcount

\* The fifth event clears O_ASYNC.
HandlerUnsubscribe ==
    /\ handler = "unsubscribe"
    /\ SetAsync(me, FALSE)
    /\ HandlerReturns
    /\ UNCHANGED gcount

HandlerStep ==
    EnterHandler \/ HandlerRead \/ HandlerCount \/ HandlerUnsubscribe

------------------------------------------------------------------------------
\* The client's calls inside the driver.
InDriver == InRead(me) \/ ReleaseCount(me)

ClientNext ==
    \/ (Producer \/ InDriver) /\ UNCHANGED clientVars
    \/ MainStep
    \/ HandlerStep

\* The client is scheduled, its handler and its calls are, and time passes.
ClientSpec ==
    /\ ClientInit /\ [][ClientNext]_allVars
    /\ WF_allVars(Producer /\ UNCHANGED clientVars)
    /\ WF_allVars(InDriver /\ UNCHANGED clientVars)
    /\ WF_allVars(MainStep) /\ WF_allVars(HandlerStep)

------------------------------------------------------------------------------
(* Properties *)

\* Once it has counted one event, the client in pause() misses no data: a
\* nonempty ring implies that a SIGIO is pending or on its way, although the
\* handler reads only once per signal and the producer signals only the
\* transition from empty (the client's own POLL_OUT signal covers the rest).
PausedClientIsTold ==
    /\ main = "pause" /\ handler = "idle"
    /\ gcount \in 1..Target-1 /\ count > 0
    => me \in sigpend \/ SubscribersGetTold

\* Unsubscribing stops the events, although the read that is counted last has
\* made SIGIO pending once more: the handler runs and counts once too often at
\* most, whatever the producer does.
OvershootsByOne == gcount <= Target + 1

\* From the first event on, or from an empty ring met in pause() on, the count
\* reaches its target.  (A client that subscribes to a nonempty ring has seen
\* neither: no edge from empty follows, and it waits for ever.)
EventsKeepComing ==
    gcount \in 1..Target-1 \/ (main = "pause" /\ count = 0) ~> gcount >= Target

\* The demonstration ends once it has counted its five events.
ClientFinishes == gcount = Target ~> main = "done"
===============================================================================
