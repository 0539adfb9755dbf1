------------------------------ MODULE MuxIoProofs ------------------------------
(***************************************************************************)
(* Proofs about MuxIo, for any periods, limit, delays and buffer: types,   *)
(* the child is not killed by a write, select and poll drain the first     *)
(* pipe and every mode drains one; the processes never wait in vain, and   *)
(* there is an end to their steps.                                         *)
(***************************************************************************)
EXTENDS MuxIo, FiniteSetTheorems, TLAPS

\* The functions have their domains, and a child in its loop is within its time.
FunInv ==
    /\ sent \in [Pipes -> Nat] /\ got \in [Pipes -> Nat]
    /\ child \in {"write1", "write2", "sleep"} => now <= Limit

\* Pipes are closed in order, by a child that has written all it will write.
CloseInv ==
    /\ 2 \notin open => 1 \notin open
    /\ 1 \notin open <=> child \in {"close2", "exited", "killed"}

\* One pipe, or both in either order.
Listing(q) == /\ q \in Seq(Pipes) /\ Len(q) \in {1, 2}
              /\ Len(q) = 2 => q[1] # q[2]

\* What is still to be handled was ready at the wait and is ready still.
ReadyInv ==
    parent = "handle" => /\ Listing(ready)
                         /\ \A k \in 1..Len(ready) : Readable(ready[k])

\* The parent leaves only when a pipe is closed and empty, so that nobody writes
\* any more.
LeaveInv ==
    mode # "unknown" =>
        /\ child # "killed"
        /\ parent \in {"leave", "leave2", "wait", "done"} =>
              /\ 1 \notin open
              /\ \E i \in Pipes \ open : InPipe(i) = 0

\* select and poll see pipe 2 at its end only when pipe 1 is at its end too.
DrainInv ==
    mode \in {"select", "poll"} /\ ~overrun =>
        /\ parent = "handle" /\ Len(ready) = 2 => ready[1] = 1
        /\ parent = "handle" /\ Len(ready) = 1 /\ ready[1] = 2 =>
              InPipe(2) > 0 \/ (2 \notin open /\ InPipe(1) = 0)
        /\ parent \in {"leave", "leave2", "wait", "done"} => InPipe(1) = 0

MuxInv == TypeOK /\ FunInv /\ CloseInv /\ ReadyInv /\ LeaveInv /\ DrainInv

------------------------------------------------------------------------------
(* Lemmas *)

\* The number of messages a period allows.
LEMMA DueFits ==
    ASSUME NEW k \in Nat, NEW p \in Nat \ {0}, NEW l \in Nat, (k + 1) * p <= l
    PROVE  k + 1 \in 0..(l \div p)
  <1>. DEFINE q == l \div p
  <1>1. q \in Nat /\ l < (q + 1) * p
    BY SMT
  <1>2. ASSUME k + 1 > q
        PROVE  FALSE
    <2>1. k >= q
      BY <1>1, <1>2
    <2>2. (k + 1) * p >= (q + 1) * p
      BY <1>1, <2>1
    <2>. QED  BY <1>1, <2>2
  <1>. QED  BY <1>1, <1>2

\* There are two pipes.
LEMMA BothPipes == IsFiniteSet({1, 2}) /\ Cardinality({1, 2}) = 2
  <1>1. IsFiniteSet({1}) /\ Cardinality({1}) = 1
    BY FS_Singleton
  <1>2. 2 \notin {1}
    OBVIOUS
  <1>3. /\ IsFiniteSet({1} \cup {2})
        /\ Cardinality({1} \cup {2}) = Cardinality({1}) + 1
    BY <1>1, <1>2, FS_AddElement, Zenon
  <1>4. Cardinality({1}) + 1 = 2
    BY <1>1
  <1>5. {1} \cup {2} = {1, 2}
    OBVIOUS
  <1>. QED  BY <1>3, <1>4, <1>5, Zenon

\* A sequence that lists a non-empty set of pipes without room to spare.
LEMMA ListOfPipes ==
    ASSUME NEW S \in SUBSET Pipes, S # {}, NEW q \in [1..Cardinality(S) -> S],
           {q[i] : i \in DOMAIN q} = S
    PROVE  /\ Listing(q)
           /\ {q[i] : i \in 1..Len(q)} = S
  <1>1. S = {1} \/ S = {2} \/ S = {1, 2}
    BY DEF Pipes
  <1>2. ASSUME NEW n \in Nat, n = Cardinality(S)
        PROVE  q \in Seq(Pipes) /\ Len(q) = n /\ DOMAIN q = 1..n
    BY <1>2
  <1>3. ASSUME NEW e, S = {e}
        PROVE  Listing(q)
    <2>1. Cardinality(S) = 1
      BY <1>3, FS_Singleton
    <2>. QED  BY <1>2, <2>1 DEF Listing
  <1>4. CASE S = {1, 2}
    <2>3. Cardinality(S) = 2
      BY <1>4, BothPipes, Zenon
    <2>4. Len(q) = 2 /\ DOMAIN q = 1..2 /\ q \in Seq(Pipes)
      BY <1>2, <2>3
    <2>5. PICK a \in 1..2, b \in 1..2 : q[a] = 1 /\ q[b] = 2
      <3>1. 1 \in {q[i] : i \in DOMAIN q} /\ 2 \in {q[i] : i \in DOMAIN q}
        BY <1>4
      <3>2. \E a \in 1..2 : q[a] = 1
        BY <2>4, <3>1
      <3>3. \E b \in 1..2 : q[b] = 2
        BY <2>4, <3>1
      <3>. QED  BY <3>2, <3>3
    <2>6. a # b /\ (a = 1 \/ a = 2) /\ (b = 1 \/ b = 2)
      BY <2>5
    <2>7. q[1] # q[2]
      BY <2>5, <2>6
    <2>. QED  BY <2>4, <2>7 DEF Listing
  <1>5. Listing(q)
    BY <1>1, <1>3, <1>4
  <1>6. Cardinality(S) \in Nat
    <2>1. IsFiniteSet(Pipes)
      BY BothPipes, Zenon DEF Pipes
    <2>. QED  BY <2>1, FS_Subset, FS_CardinalityType
  <1>. QED  BY <1>2, <1>5, <1>6

------------------------------------------------------------------------------
(* The invariant *)

\* The initial state.
LEMMA MuxInvInit == Init => MuxInv
  <1>. SUFFICES ASSUME Init
                PROVE  MuxInv
    OBVIOUS
  <1>1. Period1 \in Nat \ {0} /\ Period2 \in Nat \ {0} /\ Limit \in Nat
    BY MuxAssumption
  <1>2. overrun \in BOOLEAN
    BY DEF Init
  <1>3. \A i \in Pipes : Limit \div Period(i) \in Nat
    BY <1>1 DEF Period
  <1>4. TypeOK
    BY <1>1, <1>2, <1>3 DEF Init, TypeOK
  <1>5. FunInv /\ CloseInv /\ ReadyInv /\ LeaveInv /\ DrainInv
    BY DEF Init, FunInv, CloseInv, ReadyInv, LeaveInv, DrainInv, Pipes
  <1>. QED  BY <1>4, <1>5 DEF MuxInv

\* The child waits, looks at its clock or closes a pipe.
LEMMA MuxInvQuietChild ==
    ASSUME MuxInv, Sleep \/ Loop \/ Close1 \/ Close2
    PROVE  MuxInv'
  <1>. USE DEF MuxInv
  <1>1. Limit \in Nat /\ MaxDelay \in Nat
    BY MuxAssumption
  <1>2. parentVars' = parentVars /\ sent' = sent
    BY DEF Sleep, Loop, Close1, Close2
  <1>3. /\ now' \in 0..Limit+1
        /\ child' \in {"write1", "write2", "sleep"} => now' <= Limit
    <2>1. CASE Sleep
      BY <1>1, <2>1 DEF Sleep, AtMost, TypeOK
    <2>2. CASE Loop
      BY <1>1, <2>2 DEF Loop, TypeOK
    <2>3. CASE Close1 \/ Close2
      BY <2>3 DEF Close1, Close2, TypeOK, FunInv
    <2>. QED  BY <2>1, <2>2, <2>3
  <1>4. open' \subseteq open
    BY DEF Sleep, Loop, Close1, Close2
  <1>5. /\ child' \in {"loop", "write1", "write2", "sleep", "close1", "close2",
                       "exited", "killed"}
        /\ child' = "killed" => child = "killed"
    BY DEF Sleep, Loop, Close1, Close2, TypeOK
  <1>6. TypeOK' /\ FunInv'
    BY <1>2, <1>3, <1>4, <1>5 DEF TypeOK, FunInv, parentVars, Period
  <1>7. CloseInv'
    BY <1>2 DEF Sleep, Loop, Close1, Close2, CloseInv
  <1>8. ReadyInv' /\ LeaveInv'
    BY <1>2, <1>4, <1>5
    DEF ReadyInv, LeaveInv, Listing, Readable, InPipe, parentVars
  <1>9. DrainInv'
    BY <1>2, <1>4 DEF DrainInv, InPipe, parentVars
  <1>. QED  BY <1>6, <1>7, <1>8, <1>9

\* The child writes a message, or has none to write.
LEMMA MuxInvWrite ==
    ASSUME MuxInv, NEW i \in Pipes, NEW next \in {"write2", "sleep"},
           child \in {"write1", "write2"}, WriteMsg(i, next),
           now' = now, parentVars' = parentVars
    PROVE  MuxInv'
  <1>. USE DEF MuxInv
  <1>1. /\ Limit \in Nat /\ Period(i) \in Nat \ {0}
        /\ now \in Nat /\ now <= Limit
    BY MuxAssumption DEF Period, TypeOK, FunInv
  <1>2. \* before the pipes are closed the parent does not leave
        1 \in open /\ 2 \in open
    BY DEF CloseInv
  <1>3. CASE ~Due(i) /\ child' = next /\ UNCHANGED <<sent, open>>
    <2>1. TypeOK' /\ FunInv' /\ CloseInv'
      BY <1>1, <1>2, <1>3 DEF TypeOK, FunInv, CloseInv, parentVars, Period
    <2>2. ReadyInv' /\ LeaveInv' /\ DrainInv'
      BY <1>2, <1>3
      DEF ReadyInv, LeaveInv, DrainInv, Listing, Readable, InPipe, parentVars
    <2>. QED  BY <2>1, <2>2
  <1>4. CASE Due(i) /\ NoReader(i) /\ child' = "killed" /\ open' = {}
             /\ UNCHANGED sent
    <2>1. mode = "unknown"
      BY <1>2, <1>4 DEF LeaveInv, NoReader
    <2>2. TypeOK' /\ FunInv' /\ CloseInv'
      BY <1>4 DEF TypeOK, FunInv, CloseInv, parentVars, Period
    <2>3. ReadyInv' /\ LeaveInv' /\ DrainInv'
      BY <1>4, <2>1
      DEF ReadyInv, LeaveInv, DrainInv, Listing, Readable, InPipe, parentVars
    <2>. QED  BY <2>2, <2>3
  <1>5. CASE Due(i) /\ child' = next /\ sent' = [sent EXCEPT ![i] = @ + 1]
             /\ UNCHANGED open
    <2>1. sent[i] \in Nat /\ sent' \in [Pipes -> Nat]
      BY <1>5 DEF FunInv
    <2>2. sent'[i] = sent[i] + 1 /\ \A j \in Pipes \ {i} : sent'[j] = sent[j]
      BY <1>5 DEF FunInv
    <2>3. sent[i] + 1 \in 0..(Limit \div Period(i))
      BY <1>1, <1>5, <2>1, DueFits DEF Due
    <2>4. \A j \in Pipes : sent'[j] \in 0..(Limit \div Period(j))
      BY <2>2, <2>3 DEF TypeOK
    <2>5. \A j \in Pipes : got[j] \in 0..sent'[j]
      BY <2>1, <2>2 DEF TypeOK
    <2>6. TypeOK' /\ FunInv' /\ CloseInv'
      BY <1>1, <1>2, <1>5, <2>1, <2>4, <2>5
      DEF TypeOK, FunInv, CloseInv, parentVars, Period
    <2>7. \A j \in Pipes : /\ sent'[j] >= sent[j]
                           /\ sent[j] \in Nat /\ sent'[j] \in Nat /\ got[j] \in Nat
      BY <2>1, <2>2 DEF FunInv
    <2>8. ReadyInv'
      <3>. SUFFICES ASSUME parent = "handle", NEW k \in 1..Len(ready)
                    PROVE  Listing(ready) /\ Readable(ready[k])'
        BY DEF ReadyInv, parentVars, Listing
      <3>1. Listing(ready) /\ Readable(ready[k]) /\ ready[k] \in Pipes
        BY DEF ReadyInv, Listing
      <3>2. sent[ready[k]] - got[ready[k]] > 0
            => sent'[ready[k]] - got[ready[k]] > 0
        BY <2>7, <3>1
      <3>. QED  BY <1>5, <3>1, <3>2 DEF Readable, InPipe, parentVars
    <2>9. LeaveInv'
      BY <1>2, <1>5 DEF LeaveInv, parentVars
    <2>10. DrainInv'
      <3>1. sent[2] - got[2] > 0 => sent'[2] - got[2] > 0
        BY <2>7 DEF Pipes
      <3>2. mode # "unknown" => parent \notin {"leave", "leave2", "wait", "done"}
        BY <1>2 DEF LeaveInv
      <3>. QED
        BY <1>2, <1>5, <3>1, <3>2 DEF DrainInv, InPipe, parentVars
    <2>. QED  BY <2>6, <2>8, <2>9, <2>10
  <1>. QED  BY <1>3, <1>4, <1>5 DEF WriteMsg

\* The parent starts, leaves, reaps the child, or nothing happens.
LEMMA MuxInvQuietParent ==
    ASSUME MuxInv, Start \/ Leave \/ Reap \/ UNCHANGED vars
    PROVE  MuxInv'
  <1>. USE DEF MuxInv
  <1>1. childVars' = childVars /\ <<mode, ready, got, overrun>>' =
        <<mode, ready, got, overrun>>
    BY DEF Start, Leave, Reap, vars, childVars, parentVars
  <1>2. TypeOK' /\ FunInv' /\ CloseInv'
    BY <1>1 DEF Start, Leave, Reap, vars, childVars, parentVars, TypeOK, FunInv,
                CloseInv, Period
  <1>3. CASE Start
    BY <1>1, <1>2, <1>3 DEF Start, childVars, ReadyInv, LeaveInv, DrainInv, InPipe
  <1>4. CASE Leave \/ Reap
    BY <1>1, <1>2, <1>4 DEF Leave, Reap, childVars, ReadyInv, LeaveInv, DrainInv, InPipe
  <1>5. CASE UNCHANGED vars
    BY <1>1, <1>2, <1>5 DEF vars, parentVars, childVars, ReadyInv, LeaveInv, DrainInv,
                      InPipe, Listing, Readable
  <1>. QED  BY <1>2, <1>3, <1>4, <1>5

\* The wait lists what is readable.
LEMMA MuxInvWait ==
    ASSUME MuxInv, Wait
    PROVE  MuxInv'
  <1>. USE DEF MuxInv
  <1>. DEFINE S == {i \in Pipes : Readable(i)}
  <1>1. PICK q \in [1..Cardinality(S) -> S] :
            {q[i] : i \in DOMAIN q} = S /\ Reported(q) /\ ready' = q
    BY DEF Wait
  <1>2. /\ parent = "select" /\ parent' = "handle" /\ S # {}
        /\ UNCHANGED <<now, child, sent, open, mode, got, overrun>>
    BY DEF Wait, childVars
  <1>3. Listing(q) /\ {q[i] : i \in 1..Len(q)} = S
    BY <1>1, <1>2, ListOfPipes
  <1>4. TypeOK' /\ FunInv' /\ CloseInv'
    BY <1>1, <1>2, <1>3 DEF TypeOK, FunInv, CloseInv, Period, Listing
  <1>5. \A k \in 1..Len(q) : Readable(q[k])
    BY <1>3
  <1>6. ReadyInv'
    BY <1>1, <1>2, <1>3, <1>5 DEF ReadyInv, Readable, InPipe, Listing
  <1>7. LeaveInv'
    BY <1>2 DEF LeaveInv
  <1>8. DrainInv'
    <2>. SUFFICES ASSUME mode \in {"select", "poll"}
                  PROVE  /\ Len(q) = 2 => q[1] = 1
                         /\ Len(q) = 1 /\ q[1] = 2 =>
                               InPipe(2) > 0 \/ (2 \notin open /\ InPipe(1) = 0)
      BY <1>1, <1>2 DEF DrainInv, InPipe
    <2>1. DOMAIN q = 1..Len(q)
      BY <1>3 DEF Listing
    <2>2. ASSUME Len(q) = 2
          PROVE  q[1] = 1
      <3>1. q[1] < q[2]
        BY <1>1, <2>1, <2>2 DEF Reported
      <3>2. q[1] \in {1, 2} /\ q[2] \in {1, 2}
        <4>1. q[1] \in S /\ q[2] \in S
          BY <1>3, <2>2
        <4>. QED  BY <4>1 DEF Pipes
      <3>. QED  BY <3>1, <3>2
    <2>3. ASSUME Len(q) = 1, q[1] = 2, ~(InPipe(2) > 0)
          PROVE  FALSE
      <3>1. 2 \notin open
        BY <1>5, <2>3 DEF Readable
      <3>2. Readable(1)
        BY <3>1 DEF CloseInv, Readable
      <3>3. 1 \in S
        BY <3>2 DEF Pipes
      <3>4. \A k \in 1..Len(q) : q[k] = 2
        BY <2>3
      <3>. QED  BY <1>3, <3>3, <3>4
    <2>. QED  BY <2>2, <2>3
  <1>. QED  BY <1>4, <1>6, <1>7, <1>8

\* Reading from the first of the ready pipes.
LEMMA MuxInvHandle ==
    ASSUME MuxInv, Handle
    PROVE  MuxInv'
  <1>. USE DEF MuxInv
  <1>. DEFINE i == Head(ready)
              n == AtMost(InPipe(i), BufMsgs)
  <1>1. /\ parent = "handle" /\ ready # <<>>
        /\ got' = [got EXCEPT ![i] = @ + n]
        /\ overrun' = (overrun \/ n = BufMsgs)
        /\ \/ n = 0 /\ ready' = <<>> /\ parent' = "leave"
           \/ /\ n # 0 /\ ready' = Tail(ready)
              /\ parent' = IF Len(ready) > 1 THEN "handle" ELSE "select"
        /\ UNCHANGED <<now, child, sent, open, mode>>
    BY DEF Handle, EndOfFile, childVars
  <1>2. Listing(ready) /\ \A k \in 1..Len(ready) : Readable(ready[k])
    BY <1>1 DEF ReadyInv
  <1>3. i = ready[1] /\ i \in Pipes /\ Readable(i)
    BY <1>2 DEF Listing
  <1>4. BufMsgs \in Nat \ {0}
    BY MuxAssumption
  <1>5. \A j \in Pipes : got[j] \in Nat /\ sent[j] \in Nat /\ got[j] <= sent[j]
    BY DEF FunInv, TypeOK
  <1>6. n \in Nat /\ n <= InPipe(i) /\ n <= BufMsgs
        /\ (n = InPipe(i) \/ n = BufMsgs) /\ InPipe(i) = sent[i] - got[i]
    BY <1>3, <1>4, <1>5 DEF AtMost, InPipe
  <1>7. /\ got' \in [Pipes -> Nat] /\ got'[i] = got[i] + n
        /\ \A j \in Pipes \ {i} : got'[j] = got[j]
    BY <1>1, <1>3, <1>6 DEF FunInv
  <1>8. overrun' \in BOOLEAN /\ (~overrun' => ~overrun /\ n # BufMsgs)
    BY <1>1, Zenon
  <1>9. ready' \in Seq(Pipes)
    <2>1. ready \in Seq(Pipes) /\ ready # <<>>
      BY <1>1, <1>2 DEF Listing
    <2>2. Tail(ready) \in Seq(Pipes) /\ <<>> \in Seq(Pipes)
      BY <2>1
    <2>. QED  BY <1>1, <2>2
  <1>10. TypeOK' /\ FunInv' /\ CloseInv'
    <2>1. \A j \in Pipes : got'[j] \in 0..sent'[j]
      BY <1>1, <1>3, <1>5, <1>6, <1>7
    <2>. QED
      BY <1>1, <1>7, <1>8, <1>9, <2>1 DEF TypeOK, FunInv, CloseInv, Period
  <1>11. Len(ready) > 1 => /\ Len(ready) = 2 /\ Len(Tail(ready)) = 1
                           /\ Tail(ready)[1] = ready[2] /\ ready[2] # i
                           /\ ready[2] \in Pipes
    BY <1>2, <1>3 DEF Listing
  <1>12. ReadyInv'
    <2>. SUFFICES ASSUME parent' = "handle"
                  PROVE  /\ Listing(ready')
                         /\ \A k \in 1..Len(ready') :
                               \/ sent'[ready'[k]] - got'[ready'[k]] > 0
                               \/ ready'[k] \notin open'
      BY DEF ReadyInv, Listing, Readable, InPipe
    <2>1. ready' = Tail(ready) /\ Len(ready) > 1
      BY <1>1
    <2>2. Listing(ready') /\ \A k \in 1..Len(ready') : ready'[k] = ready[2]
      BY <1>9, <1>11, <2>1 DEF Listing
    <2>3. sent'[ready[2]] = sent[ready[2]] /\ got'[ready[2]] = got[ready[2]]
      BY <1>1, <1>7, <1>11, <2>1
    <2>4. Readable(ready[2])
      BY <1>2, <1>11, <2>1
    <2>. QED  BY <1>1, <2>2, <2>3, <2>4 DEF Readable, InPipe
  <1>13. n = 0 => InPipe(i) = 0 /\ i \notin open /\ 1 \notin open
    <2>1. n = 0 => InPipe(i) = 0
      BY <1>4, <1>6
    <2>. QED  BY <1>3, <2>1 DEF Readable, CloseInv, Pipes
  <1>14. LeaveInv'
    <2>1. n = 0 => sent'[i] - got'[i] = 0
      BY <1>1, <1>3, <1>5, <1>7, <1>13 DEF InPipe
    <2>. QED  BY <1>1, <1>3, <1>13, <2>1 DEF LeaveInv, InPipe
  <1>15. DrainInv'
    <2>. SUFFICES ASSUME mode \in {"select", "poll"}, ~overrun'
                  PROVE  DrainInv'
      BY <1>1 DEF DrainInv
    <2>1. ~overrun /\ n = sent[i] - got[i] /\ sent'[i] - got'[i] = 0
      <3>1. ~overrun /\ n = sent[i] - got[i]
        BY <1>6, <1>8
      <3>. QED  BY <1>1, <1>3, <1>5, <1>7, <3>1
    <2>2. CASE n = 0
      <3>1. InPipe(1) = 0
        <4>1. CASE i = 1
          BY <1>13, <2>2, <4>1
        <4>2. CASE i = 2
          <5>1. Len(ready) = 1
            BY <1>2, <1>3, <2>1, <4>2, <1>1 DEF Listing, DrainInv
          <5>. QED  BY <1>1, <1>3, <1>13, <2>1, <2>2, <4>2, <5>1 DEF DrainInv
        <4>. QED  BY <1>3, <4>1, <4>2 DEF Pipes
      <3>2. \A j \in Pipes : got'[j] = got[j]
        BY <1>3, <1>5, <1>7, <2>2
      <3>. QED  BY <1>1, <2>2, <3>1, <3>2 DEF DrainInv, InPipe, Pipes
    <2>3. CASE n # 0 /\ Len(ready) > 1
      <3>1. i = 1 /\ ready[2] = 2
        BY <1>1, <1>3, <1>11, <2>1, <2>3 DEF DrainInv, Pipes
      <3>2. Readable(2) /\ InPipe(2)' = InPipe(2) /\ InPipe(1)' = 0
        <4>1. Readable(2)
          BY <1>2, <1>11, <2>3, <3>1
        <4>2. got'[2] = got[2] /\ sent' = sent
          BY <1>1, <1>7, <3>1 DEF Pipes
        <4>. QED  BY <2>1, <3>1, <4>1, <4>2 DEF InPipe
      <3>3. /\ parent' = "handle" /\ Len(ready') = 1
            /\ InPipe(2)' > 0 \/ (2 \notin open' /\ InPipe(1)' = 0)
        BY <1>1, <1>11, <2>3, <3>2 DEF Readable
      <3>. QED  BY <3>3 DEF DrainInv
    <2>4. CASE n # 0 /\ ~(Len(ready) > 1)
      BY <1>1, <2>4 DEF DrainInv
    <2>. QED  BY <2>2, <2>3, <2>4
  <1>. QED  BY <1>10, <1>12, <1>14, <1>15

\* Every step keeps the invariant.
LEMMA MuxInvNext ==
    ASSUME MuxInv, [Next]_vars
    PROVE  MuxInv'
  <1>1. CASE Write1
    <2>1. "write2" \in {"write2", "sleep"} /\ 1 \in Pipes
      BY DEF Pipes
    <2>. QED  BY <1>1, <2>1, MuxInvWrite DEF Write1
  <1>2. CASE Write2
    <2>1. "sleep" \in {"write2", "sleep"} /\ 2 \in Pipes
      BY DEF Pipes
    <2>. QED  BY <1>2, <2>1, MuxInvWrite DEF Write2
  <1>. QED
    BY <1>1, <1>2, MuxInvQuietChild, MuxInvQuietParent, MuxInvWait, MuxInvHandle
    DEF Next, Child, Parent

\* The inductive invariant of the two processes and their pipes.
THEOREM MuxInvariant == Spec => []MuxInv
  <1>1. MuxInv /\ [Next]_vars => MuxInv'
    BY MuxInvNext
  <1>. QED  BY <1>1, MuxInvInit, PTL DEF Spec

\* The types, and no more messages than the periods allow.
THEOREM MuxTypes == Spec => []TypeOK
  <1>1. MuxInv => TypeOK
    BY DEF MuxInv
  <1>. QED  BY <1>1, MuxInvariant, PTL

\* In the three modes the child is never killed by SIGPIPE.
THEOREM ChildSurvives == Spec => []ChildNotKilled
  <1>1. MuxInv => ChildNotKilled
    BY DEF MuxInv, LeaveInv, ChildNotKilled
  <1>. QED  BY <1>1, MuxInvariant, PTL

\* select and poll read the whole first pipe before they leave.
THEOREM FirstPipeIsDrained == Spec => []FirstPipeDrained
  <1>1. MuxInv => FirstPipeDrained
    <2>. SUFFICES ASSUME MuxInv, parent = "done", mode \in {"select", "poll"},
                         ~overrun
                  PROVE  got[1] = sent[1]
      BY DEF FirstPipeDrained
    <2>1. sent[1] \in Nat /\ got[1] \in Nat
      BY DEF MuxInv, FunInv, Pipes
    <2>. QED  BY <2>1 DEF MuxInv, DrainInv, InPipe
  <1>. QED  BY <1>1, MuxInvariant, PTL

\* Every known mode reads one of the pipes to its end.
THEOREM OnePipeIsDrained == Spec => []OnePipeDrained
  <1>1. MuxInv => OnePipeDrained
    <2>. SUFFICES ASSUME MuxInv, mode # "unknown",
                         parent \in {"leave", "leave2", "wait", "done"}
                  PROVE  \E i \in Pipes : got[i] = sent[i]
      BY DEF OnePipeDrained
    <2>1. PICK i \in Pipes : InPipe(i) = 0
      BY DEF MuxInv, LeaveInv
    <2>2. sent[i] \in Nat /\ got[i] \in Nat
      BY DEF MuxInv, FunInv
    <2>. QED  BY <2>1, <2>2 DEF InPipe
  <1>. QED  BY <1>1, MuxInvariant, PTL

\* What the loop has read when it ends at the first end of file.
THEOREM PipesAreDrained == Spec => []PipesDrained
  BY FirstPipeIsDrained, OnePipeIsDrained, PTL DEF PipesDrained

------------------------------------------------------------------------------
(* The end of the program *)

\* Until it is over one of the two can go on, the child or the parent.
THEOREM NobodyIsStuck == Spec => []NobodyStuck
  <1>1. MuxInv => NobodyStuck
    <2>. SUFFICES ASSUME MuxInv, ~ChildRuns
                  PROVE  ParentRuns
      BY DEF NobodyStuck
    <2>1. 1 \in Pipes /\ Readable(1)
      BY DEF MuxInv, CloseInv, ChildRuns, Readable, Pipes
    <2>2. parent = "handle" => ready # <<>>
      BY DEF MuxInv, ReadyInv, Listing
    <2>. QED  BY <2>1, <2>2 DEF ParentRuns
  <1>. QED  BY <1>1, MuxInvariant, PTL

ChildLeft == 4 * (Limit + 1 - now) + ChildPlace
Unread == InPipe(1) + InPipe(2)
LeftOK == /\ ChildLeft \in Nat /\ Unread \in Nat /\ ParentPlace \in Nat
          /\ \A i \in Pipes : sent[i] \in Nat /\ got[i] \in Nat
          /\ StepsLeft = 4 * ChildLeft + 3 * Unread + ParentPlace

\* The three parts of what is left are naturals.
LEMMA LeftTypes == MuxInv => LeftOK
  <1>. SUFFICES ASSUME MuxInv PROVE LeftOK
    OBVIOUS
  <1>1. \A i \in Pipes : sent[i] \in Nat /\ got[i] \in Nat /\ got[i] <= sent[i]
    BY DEF MuxInv, FunInv, TypeOK
  <1>2. Unread \in Nat
    BY <1>1 DEF Unread, InPipe, Pipes
  <1>3. ChildPlace \in Nat
    BY DEF ChildPlace
  <1>4. Limit \in Nat /\ now \in 0..Limit+1
    BY MuxAssumption DEF MuxInv, TypeOK
  <1>5. ChildLeft \in Nat
    BY <1>3, <1>4 DEF ChildLeft
  <1>6. Len(ready) \in Nat
    BY DEF MuxInv, TypeOK
  <1>7. ParentPlace \in Nat
    BY <1>6 DEF ParentPlace
  <1>. QED
    BY <1>1, <1>2, <1>5, <1>7 DEF LeftOK, StepsLeft, ChildLeft, Unread

LEMMA LeftTypesNext == MuxInv' => LeftOK'
  BY LeftTypes, PTL

\* Arithmetic of the child's turns and of the steps left.
LEMMA LaterTurn ==
    ASSUME NEW l \in Int, NEW t \in Int, NEW t1 \in Int, NEW p \in Int,
           NEW p1 \in Int,
           (t1 = t /\ p1 < p) \/ (t1 >= t + 1 /\ p1 < p + 4)
    PROVE  4 * (l + 1 - t1) + p1 < 4 * (l + 1 - t) + p
  OBVIOUS

LEMMA FewerSteps ==
    ASSUME NEW c \in Nat, NEW c1 \in Nat, NEW d \in Nat, NEW d1 \in Nat,
           NEW p \in Nat, NEW p1 \in Nat,
           \/ c1 < c /\ d1 <= d + 1 /\ p1 = p
           \/ c1 = c /\ d1 = d /\ p1 < p
           \/ c1 = c /\ d1 < d /\ p1 <= p + 2
    PROVE  /\ 4 * c1 + 3 * d1 + p1 < 4 * c + 3 * d + p
           /\ 4 * c1 + 3 * d1 + p1 \in Nat
  OBVIOUS

\* A step of the child writes one message at most.
LEMMA ChildGoesOn ==
    ASSUME MuxInv, MuxInv', Child
    PROVE  ChildLeft' < ChildLeft /\ Unread' <= Unread + 1
           /\ ParentPlace' = ParentPlace
  <1>1. Limit \in Nat /\ MaxDelay \in Nat \ {0} /\ now \in 0..Limit+1
        /\ (child = "sleep" => now <= Limit)
    BY MuxAssumption DEF MuxInv, TypeOK, FunInv
  <1>0. Limit \in Int /\ now \in Int
    BY <1>1
  <1>2. parent' = parent /\ ready' = ready /\ got' = got
    BY DEF Child, Sleep, Loop, Write1, Write2, Close1, Close2, parentVars
  <1>3. ChildLeft' < ChildLeft
    <2>1. CASE Sleep
      <3>1. now' \in Int /\ now' >= now + 1
        BY <1>1, <2>1 DEF Sleep, AtMost
      <3>2. ChildPlace \in Int /\ ChildPlace' \in Int
            /\ ChildPlace' < ChildPlace + 4
        BY <2>1 DEF Sleep, ChildPlace
      <3>. QED  BY <1>0, <3>1, <3>2, LaterTurn DEF ChildLeft
    <2>2. CASE ~Sleep
      <3>1. now' = now
        BY <2>2 DEF Child, Loop, Write1, Write2, Close1, Close2
      <3>2. ChildPlace \in Int /\ ChildPlace' \in Int /\ ChildPlace' < ChildPlace
        BY <2>2 DEF Child, Loop, Write1, Write2, WriteMsg, Close1, Close2,
                    ChildPlace
      <3>. QED  BY <1>0, <3>1, <3>2, LaterTurn DEF ChildLeft
    <2>. QED  BY <2>1, <2>2
  <1>4. Unread' <= Unread + 1
    <2>1. sent \in [Pipes -> Nat] /\ got \in [Pipes -> Nat]
      BY DEF MuxInv, FunInv
    <2>2. \/ sent' = sent
          \/ sent' = [sent EXCEPT ![1] = @ + 1]
          \/ sent' = [sent EXCEPT ![2] = @ + 1]
      BY DEF Child, Sleep, Loop, Write1, Write2, WriteMsg, Close1, Close2
    <2>. QED  BY <1>2, <2>1, <2>2 DEF Unread, InPipe, Pipes
  <1>5. ParentPlace' = ParentPlace
    BY <1>2 DEF ParentPlace
  <1>. QED  BY <1>3, <1>4, <1>5

\* A step of the parent comes nearer to its end, or takes a message.
LEMMA ParentGoesOn ==
    ASSUME MuxInv, MuxInv', Parent
    PROVE  /\ ChildLeft' = ChildLeft
           /\ \/ Unread' = Unread /\ ParentPlace' < ParentPlace
              \/ Unread' < Unread /\ ParentPlace' <= ParentPlace + 2
  <1>1. now' = now /\ child' = child /\ sent' = sent
    BY DEF Parent, Start, Wait, Handle, Leave, Reap, childVars
  <1>2. ChildLeft' = ChildLeft
    BY <1>1 DEF ChildLeft, ChildPlace
  <1>3. Unread \in Nat /\ Unread' \in Nat
    BY LeftTypes, LeftTypesNext DEF LeftOK
  <1>4. CASE Start \/ Leave \/ Reap
    <2>1. Unread' = Unread
      BY <1>1, <1>4 DEF Start, Leave, Reap, Unread, InPipe
    <2>2. ParentPlace \in Nat /\ ParentPlace' \in Nat
          /\ ParentPlace' < ParentPlace
      BY <1>4 DEF Start, Leave, Reap, ParentPlace
    <2>. QED  BY <1>2, <1>3, <2>1, <2>2
  <1>5. CASE Wait
    <2>1. Unread' = Unread
      BY <1>1, <1>5 DEF Wait, Unread, InPipe
    <2>2. parent = "select" /\ parent' = "handle"
      BY <1>5 DEF Wait
    <2>3. Len(ready') = 1 \/ Len(ready') = 2
      BY <2>2 DEF MuxInv, ReadyInv, Listing
    <2>4. ParentPlace = 6
      BY <2>2 DEF ParentPlace
    <2>5. ASSUME NEW k \in {1, 2}, Len(ready') = k
          PROVE  ParentPlace' < 6
      BY <2>2, <2>5 DEF ParentPlace
    <2>. QED  BY <1>2, <2>1, <2>3, <2>4, <2>5
  <1>6. CASE Handle
    <2>. DEFINE i == Head(ready)
                n == AtMost(InPipe(i), BufMsgs)
    <2>1. /\ parent = "handle" /\ Listing(ready)
          /\ got' = [got EXCEPT ![i] = @ + n]
          /\ \/ n = 0 /\ parent' = "leave"
             \/ /\ n # 0 /\ ready' = Tail(ready)
                /\ parent' = IF Len(ready) > 1 THEN "handle" ELSE "select"
      BY <1>6 DEF Handle, EndOfFile, MuxInv, ReadyInv
    <2>2. i \in Pipes /\ Len(ready) \in {1, 2}
      BY <2>1 DEF Listing
    <2>3. n \in Nat
      BY <2>2, MuxAssumption DEF AtMost, InPipe, MuxInv, TypeOK, FunInv
    <2>4. Unread' = Unread - n
      <3>1. sent \in [Pipes -> Nat] /\ got \in [Pipes -> Nat]
        BY DEF MuxInv, FunInv
      <3>2. got'[i] = got[i] + n /\ \A j \in Pipes \ {i} : got'[j] = got[j]
        BY <2>1, <2>2, <3>1
      <3>3. i = 1 \/ i = 2
        BY <2>2 DEF Pipes
      <3>. QED  BY <1>1, <2>3, <3>1, <3>2, <3>3 DEF Unread, InPipe, Pipes
    <2>5. ParentPlace = 3 + Len(ready)
      BY <2>1 DEF ParentPlace
    <2>6. CASE n = 0 /\ parent' = "leave"
      <3>1. ParentPlace' = 3
        BY <2>6 DEF ParentPlace
      <3>. QED  BY <1>2, <1>3, <2>2, <2>4, <2>5, <2>6, <3>1
    <2>7. CASE /\ n # 0 /\ ready' = Tail(ready)
               /\ parent' = IF Len(ready) > 1 THEN "handle" ELSE "select"
      <3>1. Len(ready') = Len(ready) - 1
        BY <2>1, <2>2, <2>7 DEF Listing
      <3>2. ParentPlace' = 6 \/ ParentPlace' = 3 + Len(ready')
        BY <2>7 DEF ParentPlace
      <3>3. ParentPlace' <= ParentPlace + 2
        BY <2>2, <2>5, <3>1, <3>2
      <3>. QED  BY <1>2, <1>3, <2>3, <2>4, <2>7, <3>3
    <2>. QED  BY <2>1, <2>6, <2>7
  <1>. QED  BY <1>4, <1>5, <1>6 DEF Parent

\* The program takes at most StepsLeft steps: whatever the scheduler does, it
\* cannot go on for ever, and by NobodyIsStuck it stops only at its end.
THEOREM StepsAreNumbered == Spec => StepsRunOut
  <1>1. MuxInv /\ MuxInv' /\ [Next]_vars
        => [StepsLeft' < StepsLeft /\ StepsLeft' \in Nat]_vars
    <2>. SUFFICES ASSUME MuxInv, MuxInv', Next
                  PROVE  StepsLeft' < StepsLeft /\ StepsLeft' \in Nat
      OBVIOUS
    <2>1. /\ ChildLeft \in Nat /\ Unread \in Nat /\ ParentPlace \in Nat
          /\ StepsLeft = 4 * ChildLeft + 3 * Unread + ParentPlace
      BY LeftTypes DEF LeftOK
    <2>2. /\ ChildLeft' \in Nat /\ Unread' \in Nat /\ ParentPlace' \in Nat
          /\ StepsLeft' = 4 * ChildLeft' + 3 * Unread' + ParentPlace'
      BY LeftTypesNext DEF LeftOK
    <2>3. CASE Child
      BY <2>1, <2>2, <2>3, ChildGoesOn, FewerSteps
    <2>4. CASE Parent
      BY <2>1, <2>2, <2>4, ParentGoesOn, FewerSteps
    <2>. QED  BY <2>3, <2>4 DEF Next
  <1>. QED  BY <1>1, MuxInvariant, PTL DEF Spec, StepsRunOut
===============================================================================
