------------------------------- MODULE MCAdvIo --------------------------------
(***************************************************************************)
(* Instances of AdvIo for TLC.  r reads and polls; s reads with O_NONBLOCK *)
(* and subscribes to SIGIO, as test_fasync.c does; w writes.  The ring has *)
(* two slots and a request up to three bytes, so that indices wrap,        *)
(* requests are cut to RING_SIZE, the _iter handlers need a second chunk   *)
(* and the ring is full, empty and in between.                             *)
(***************************************************************************)
EXTENDS AdvIo, TLC

CONSTANTS r, s, w

\* A payload in which a skipped or repeated byte shows.
MCPayload == [u \in Users |-> [i \in 1..MaxLen |-> i % SeqMod]]

\* Transfers: every handler that moves bytes.
TransferCalls == (r :> {"nonblock", "read", "readv"})
                 @@ (w :> {"block", "write", "writev"})

\* Waiting: a reader, a subscriber and a writer, blocked, polling or signalled.
WaitCalls == (r :> {"block", "read", "pollin"})
             @@ (s :> {"nonblock", "read", "fasync"})
             @@ (w :> {"block", "write", "pollout"})

\* Progress: one reader, blocking or signal-driven, and one writer.
ProgressCalls == (r :> {"block", "nonblock", "read", "pollin", "fasync"})
                 @@ (w :> {"block", "write", "pollout"})
===============================================================================
