-------------------------------- MODULE MuxIo ---------------------------------
(***************************************************************************)
(* The I/O multiplexing demonstration prj/04-muxIO: a child that writes    *)
(* "MSG1" and "MSG2" into two pipes at two periods, and a parent that      *)
(* waits for both with select, poll or epoll and reads what is ready.      *)
(* Pipes are counted in messages; a read takes up to BufMsgs of them       *)
(* (MSG_SIZE bytes).  The clock advances between the steps of the child,   *)
(* by as much as the scheduler delays it.                                  *)
(***************************************************************************)
EXTENDS Integers, Sequences, FiniteSets

CONSTANTS Period1, Period2,  \* 400 ms and 700 ms, in some unit
          Limit,             \* 3000 ms
          MaxDelay,          \* bound: the most the clock advances in one loop
          BufMsgs            \* messages that fill the parent's buffer (4)

Pipes == {1, 2}
Modes == {"select", "poll", "epoll", "unknown"}

ASSUME MuxAssumption ==
    /\ Period1 \in Nat \ {0} /\ Period2 \in Nat \ {0}
    /\ Limit \in Nat /\ MaxDelay \in Nat \ {0} /\ BufMsgs \in Nat \ {0}

VARIABLES now,        \* the child's clock, ms since it started
          child,      \* where the child is
          sent,       \* sent[i]: messages the child wrote to pipe i
          open,       \* pipes whose write end is still open
          mode,       \* argv[1]
          parent,     \* where the parent is
          ready,      \* events of the last wait that are still to be handled
          got,        \* got[i]: messages the parent read from pipe i and printed
          overrun     \* a read filled the buffer: buf[n] = 0 wrote past its end

childVars  == <<now, child, sent, open>>
parentVars == <<mode, parent, ready, got, overrun>>
vars == <<childVars, parentVars>>

InPipe(i) == sent[i] - got[i]
AtMost(a, b) == IF a < b THEN a ELSE b

\* Mutant of Readable: hang-ups are not reported.
ReadableData(i) == InPipe(i) > 0

\* A pipe with data, or whose writer is gone, does not block its reader.
Readable(i) == InPipe(i) > 0 \/ i \notin open

Init ==
    /\ now = 0 /\ child = "loop"
    /\ sent = [i \in Pipes |-> 0] /\ open = Pipes
    /\ mode \in Modes /\ parent = "start" /\ ready = <<>>
    /\ got = [i \in Pipes |-> 0] /\ overrun = FALSE

------------------------------------------------------------------------------
(* child_producer *)

Period(i) == IF i = 1 THEN Period1 ELSE Period2

\* One turn of the loop reads the clock once; each pipe is due when the next
\* multiple of its period has passed.
Due(i) == now >= (sent[i] + 1) * Period(i)

\* usleep, and the time the child is not scheduled.
Sleep ==
    /\ child = "sleep"
    /\ \E d \in 1..MaxDelay : now' = AtMost(now + d, Limit + 1)
    /\ child' = "loop"
    /\ UNCHANGED <<sent, open, parentVars>>

Loop ==
    /\ child = "loop"
    /\ child' = IF now > Limit THEN "close1" ELSE "write1"
    /\ UNCHANGED <<now, sent, open, parentVars>>

\* The parent has closed the read end of pipe i.
NoReader(i) == parent \in {"wait", "done"} \/ (parent = "leave2" /\ i = 1)

\* write(2) to a pipe whose read end is closed kills the child (SIGPIPE).
WriteMsg(i, next) ==
    \/ ~Due(i) /\ child' = next /\ UNCHANGED <<sent, open>>
    \/ /\ Due(i) /\ NoReader(i)
       /\ child' = "killed" /\ open' = {} /\ UNCHANGED sent
    \/ /\ Due(i) /\ ~NoReader(i)
       /\ child' = next /\ sent' = [sent EXCEPT ![i] = @ + 1]
       /\ UNCHANGED open

Write1 ==
    /\ child = "write1" /\ WriteMsg(1, "write2")
    /\ UNCHANGED <<now, parentVars>>

Write2 ==
    /\ child = "write2" /\ WriteMsg(2, "sleep")
    /\ UNCHANGED <<now, parentVars>>

Close1 ==
    /\ child = "close1" /\ child' = "close2" /\ open' = open \ {1}
    /\ UNCHANGED <<now, sent, parentVars>>

Close2 ==
    /\ child = "close2" /\ child' = "exited" /\ open' = open \ {2}
    /\ UNCHANGED <<now, sent, parentVars>>

Child == Sleep \/ Loop \/ Write1 \/ Write2 \/ Close1 \/ Close2

------------------------------------------------------------------------------
(* the parent: run_select, run_poll, run_epoll and the end of main *)

Start ==
    /\ parent = "start"
    /\ parent' = IF mode = "unknown" THEN "leave" ELSE "select"
    /\ UNCHANGED <<childVars, mode, ready, got, overrun>>

\* Mutant of Reported: select, too, reports in any order.
ReportedAnyhow(q) == TRUE

\* select and poll report in the order of the descriptors, epoll in the order
\* of its ready list, which is any order.
Reported(q) == mode # "epoll" => \A i, j \in DOMAIN q : i < j => q[i] < q[j]

\* The wait returns the pipes that are readable now; a timeout waits again.
Wait ==
    /\ parent = "select"
    /\ LET S == {i \in Pipes : Readable(i)} IN
         /\ S # {}
         /\ \E q \in [1..Cardinality(S) -> S] :
               /\ {q[i] : i \in DOMAIN q} = S
               /\ Reported(q)
               /\ ready' = q
    /\ parent' = "handle"
    /\ UNCHANGED <<childVars, mode, got, overrun>>

\* Mutant of EndOfFile: a short read ends the loop.
ShortRead(n) == n < BufMsgs

\* Mutant of EndOfFile: nothing to read is waited out.
WaitedOut(n) == FALSE

EndOfFile(n) == n = 0

\* read up to MSG_SIZE bytes; end of file ends the loop, whatever is left.
Handle ==
    /\ parent = "handle" /\ ready # <<>>
    /\ LET i == Head(ready)
           n == AtMost(InPipe(i), BufMsgs) IN
         /\ got' = [got EXCEPT ![i] = @ + n]
         /\ overrun' = (overrun \/ n = BufMsgs)
         /\ \/ EndOfFile(n) /\ ready' = <<>> /\ parent' = "leave"
            \/ /\ ~EndOfFile(n) /\ ready' = Tail(ready)
               /\ parent' = IF Len(ready) > 1 THEN "handle" ELSE "select"
    /\ UNCHANGED <<childVars, mode>>

\* Close the read ends, one after the other.
Leave ==
    /\ \/ parent = "leave" /\ parent' = "leave2"
       \/ parent = "leave2" /\ parent' = "wait"
    /\ UNCHANGED <<childVars, mode, ready, got, overrun>>

\* wait(NULL) returns when the child is gone.
Reap ==
    /\ parent = "wait" /\ child \in {"exited", "killed"}
    /\ parent' = "done"
    /\ UNCHANGED <<childVars, mode, ready, got, overrun>>

Parent == Start \/ Wait \/ Handle \/ Leave \/ Reap

Next == Child \/ Parent

Spec == Init /\ [][Next]_vars /\ WF_vars(Child) /\ WF_vars(Parent)

------------------------------------------------------------------------------
(* Properties *)

\* The types of the state; the child writes each message at its period.
TypeOK ==
    /\ now \in 0..Limit+1
    /\ child \in {"loop", "write1", "write2", "sleep", "close1", "close2",
                  "exited", "killed"}
    /\ \A i \in Pipes : sent[i] \in 0..(Limit \div Period(i))
    /\ \A i \in Pipes : got[i] \in 0..sent[i]
    /\ open \subseteq Pipes
    /\ mode \in Modes
    /\ parent \in {"start", "select", "handle", "leave", "leave2",
                   "wait", "done"}
    /\ ready \in Seq(Pipes) /\ overrun \in BOOLEAN

\* The parent leaves its loop only on end of file, so that the child, in any of
\* the three modes, is never killed by a write to a pipe without a reader.
ChildNotKilled == mode # "unknown" => child # "killed"

\* select and poll handle pipe 1 before they see the end of pipe 2: as long as
\* no read filled the buffer, every MSG1 was read when the program ends.
FirstPipeDrained ==
    parent = "done" /\ mode \in {"select", "poll"} /\ ~overrun
    => got[1] = sent[1]

\* Whichever mode, and however full the buffer was: a known mode leaves the loop
\* at the end of some pipe, of which nothing is lost then or later.
OnePipeDrained ==
    mode # "unknown" /\ parent \in {"leave", "leave2", "wait", "done"}
    => \E i \in Pipes : got[i] = sent[i]

\* What is read for certain when the loop is left at the first end of file.
PipesDrained == OnePipeDrained /\ FirstPipeDrained

\* Neither waits for the other in vain: until the program is over, the child or
\* the parent can go on, also when an end of file is all the parent has to read.
ChildRuns  == child \notin {"exited", "killed"}
ParentRuns == /\ parent = "select" => \E i \in Pipes : Readable(i)
              /\ parent = "handle" => ready # <<>>
              /\ parent = "wait"   => ~ChildRuns
NobodyStuck == parent = "done" \/ ChildRuns \/ ParentRuns

\* How many steps the program has left, at most: a turn of the child's loop
\* takes four and advances the clock, each can give the parent a message, and
\* a message gives the parent another turn of its loop.
ChildPlace == CASE child = "loop"                  -> 3
                [] child \in {"write1", "close1"} -> 2
                [] child \in {"write2", "close2"} -> 1
                [] OTHER                           -> 0
ParentPlace == CASE parent = "start"  -> 7
                 [] parent = "select" -> 6
                 [] parent = "handle" -> 3 + Len(ready)
                 [] parent = "leave"  -> 3
                 [] parent = "leave2" -> 2
                 [] parent = "wait"   -> 1
                 [] OTHER             -> 0
StepsLeft == 4 * (4 * (Limit + 1 - now) + ChildPlace)
             + 3 * (InPipe(1) + InPipe(2)) + ParentPlace

\* No wait is busy: a pipe that is reported ready yields a message or ends the
\* loop, so that every step brings the end of the program nearer.
StepsRunOut == [][StepsLeft' < StepsLeft /\ StepsLeft' \in Nat]_vars

\* The program ends in every mode, an unknown one included.
ProgramEnds == <>(parent = "done")

\* All data is read and printed before the loop ends, in all three modes.
AllMessagesPrinted ==
    parent = "done" /\ mode # "unknown" => \A i \in Pipes : got[i] = sent[i]
===============================================================================
