------------------------------- MODULE MCGreet -------------------------------
(***************************************************************************)
(* Greet with the clients and compositors its runs are about.              *)
(***************************************************************************)
EXTENDS Greet

Setup(c, l, f, n, p) ==
    [client |-> c, late |-> l, faults |-> f, configures |-> n, pings |-> p]

\* Every client with a compositor that configures before it answers the
\* roundtrip, changing the size while it goes on, and dying while it pings;
\* and one that draws on needs_redraw with one that may be late.
AllSetups ==
    {Setup(c, FALSE, FALSE, 2, 0) : c \in Clients}
        \cup {Setup(c, FALSE, TRUE, 1, 1) : c \in Clients}
        \cup {Setup("c", TRUE, FALSE, 2, 0)}

\* The EGL client with a compositor whose first configure may be late.
LateEgl == {Setup("egl", TRUE, FALSE, 1, 0)}
=============================================================================
