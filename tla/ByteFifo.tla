------------------------------- MODULE ByteFifo -------------------------------
(***************************************************************************)
(* What the ring buffer of the advanced-IO character driver promises to    *)
(* its users, without slots, indices, locks, wait queues or signals: one   *)
(* bounded FIFO of bytes.  A reader takes a nonempty prefix of the FIFO    *)
(* and holds it until it is handed to the process; only a user buffer that *)
(* faults loses it.  A writer appends its payload piece by piece, each     *)
(* piece continuing exactly where the previous one stopped.  The driver's  *)
(* own producer numbers its bytes one by one and skips a number only when  *)
(* the FIFO is full.  Nothing else is lost, duplicated or reordered.       *)
(***************************************************************************)
EXTENDS Integers, Sequences

CONSTANTS Users,       \* processes, each with one open file
          Faulty,      \* those whose user buffer may fault
          SeqMod,      \* the producer numbers its bytes modulo this
          Capacity,    \* bytes the FIFO can hold
          Payload      \* Payload[u]: what u's write calls offer, byte by byte

VARIABLES fifo,        \* the bytes in the device, oldest first
          seq,         \* the number of the producer's next byte
          out,         \* out[u]: bytes u's read call took and still holds
          given,       \* given[u]: how many bytes u's read call has handed over
          sent         \* sent[u]: how many bytes u's write call has appended

fifoVars == <<fifo, seq, out, given, sent>>

Init ==
    /\ fifo = <<>>
    /\ seq = 0
    /\ out = [u \in Users |-> <<>>]
    /\ given = [u \in Users |-> 0]
    /\ sent = [u \in Users |-> 0]

\* The device's own producer appends its next byte.
Produce ==
    /\ Len(fifo) < Capacity
    /\ fifo' = Append(fifo, seq)
    /\ seq' = (seq + 1) % SeqMod
    /\ UNCHANGED <<out, given, sent>>

\* The FIFO is full: the producer's byte is dropped, its number used up.
Drop ==
    /\ Len(fifo) = Capacity
    /\ seq' = (seq + 1) % SeqMod
    /\ UNCHANGED <<fifo, out, given, sent>>

\* A read call takes the n oldest bytes; it holds nothing from before.
Take(u, n) ==
    /\ out[u] = <<>>
    /\ n \in 1..Len(fifo)
    /\ out' = [out EXCEPT ![u] = SubSeq(fifo, 1, n)]
    /\ fifo' = SubSeq(fifo, n + 1, Len(fifo))
    /\ UNCHANGED <<seq, given, sent>>

\* A read call hands over all the bytes it holds.
Deliver(u) ==
    /\ given' = [given EXCEPT ![u] = @ + Len(out[u])]
    /\ out' = [out EXCEPT ![u] = <<>>]
    /\ UNCHANGED <<fifo, seq, sent>>

\* The user buffer faults: the call ends and the bytes it holds are lost.
Lose(u) ==
    /\ u \in Faulty
    /\ out' = [out EXCEPT ![u] = <<>>]
    /\ given' = [given EXCEPT ![u] = 0]
    /\ UNCHANGED <<fifo, seq, sent>>

\* A write call appends the next n bytes of its payload.
Put(u, n) ==
    /\ Len(fifo) + n <= Capacity
    /\ sent[u] + n \in DOMAIN Payload[u]
    /\ fifo' = fifo \o SubSeq(Payload[u], sent[u] + 1, sent[u] + n)
    /\ sent' = [sent EXCEPT ![u] = @ + n]
    /\ UNCHANGED <<seq, out, given>>

\* A call returns; it holds no bytes back.
Finish(u) ==
    /\ out[u] = <<>>
    /\ given' = [given EXCEPT ![u] = 0]
    /\ sent' = [sent EXCEPT ![u] = 0]
    /\ UNCHANGED <<fifo, seq, out>>

Next ==
    \/ Produce
    \/ Drop
    \/ \E u \in Users :
          \/ \E n \in 1..Capacity : Take(u, n) \/ Put(u, n)
          \/ Deliver(u)
          \/ Lose(u)
          \/ Finish(u)

Spec == Init /\ [][Next]_fifoVars
===============================================================================
