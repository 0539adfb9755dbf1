---------------------------- MODULE MCSigioClient -----------------------------
(***************************************************************************)
(* SigioClient on a ring of two bytes with a handler that reads at most    *)
(* one byte (the program: 256 and 32), waiting for three events.           *)
(***************************************************************************)
EXTENDS SigioClient

MCPayload == [u \in Users |-> [i \in 1..MaxLen |-> 0]]
MCCalls == [u \in Users |-> {"nonblock", "read", "fasync"}]
===============================================================================
