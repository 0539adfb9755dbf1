------------------------------- MODULE XdgShell -------------------------------
(***************************************************************************)
(* What a client of xdg-shell may do with one toplevel window and the      *)
(* buffers it shows there: acknowledge configure sequences in order, show  *)
(* nothing before the first, show what the acknowledged one asks for, draw *)
(* one frame for one frame callback, take no buffer away that the          *)
(* compositor still uses, destroy the objects from the role downwards,     *)
(* answer no ping twice.                                                   *)
(* The requests are those of tspi-greet/src/xdg-shell-client.h.            *)
(***************************************************************************)
EXTENDS Naturals, Sequences

CONSTANTS Sizes,   \* sizes of a window
          Buffers  \* names of the client's own buffers

VARIABLES objects,  \* of the client, of those that make the window
          sent,     \* sent[n]: the size of the n-th configure, 0: any
          acked,    \* the last configure acknowledged
          content,  \* size of what the window shows, 0: nothing
          framing,  \* a frame callback is due
          live,     \* buffers that exist
          lent,     \* buffers the compositor uses
          pings, pongs

shellVars == <<objects, sent, acked, content, framing, live, lent, pings, pongs>>
pingVars == <<pings, pongs>>

Window == {"wl_surface", "xdg_surface", "xdg_toplevel"}

\* Objects that have to be gone before o may be destroyed.
OnTopOf(o) ==
    CASE o = "wl_surface"  -> {"xdg_surface", "xdg_toplevel"}
      [] o = "xdg_surface" -> {"xdg_toplevel"}
      [] OTHER             -> {}

ShellInit ==
    /\ objects = {} /\ sent = <<>> /\ acked = 0 /\ content = 0
    /\ framing = FALSE /\ live = {} /\ lent = {} /\ pings = 0 /\ pongs = 0

CreateWindow ==
    /\ objects = {} /\ objects' = Window
    /\ UNCHANGED <<sent, acked, content, framing, live, lent, pingVars>>

SendConfigure(s) ==
    /\ "xdg_toplevel" \in objects /\ sent' = Append(sent, s)
    /\ UNCHANGED <<objects, acked, content, framing, live, lent, pingVars>>

AckConfigure(n) ==
    /\ "xdg_surface" \in objects /\ acked < n /\ n <= Len(sent)
    /\ acked' = n
    /\ UNCHANGED <<objects, sent, content, framing, live, lent, pingVars>>

\* Attach and commit: a new buffer of the client's, or one of a library's.
Present(size, own) ==
    /\ objects = Window /\ ~framing
    /\ acked > 0 /\ sent[acked] \in {0, size}
    /\ content' = size /\ framing' = TRUE
    /\ own \cap live = {}
    /\ live' = live \cup own /\ lent' = lent \cup own
    /\ UNCHANGED <<objects, sent, acked, pingVars>>

FrameShown ==
    /\ framing /\ framing' = FALSE
    /\ UNCHANGED <<objects, sent, acked, content, live, lent, pingVars>>

ReturnBuffer(b) ==
    /\ b \in lent /\ lent' = lent \ {b}
    /\ UNCHANGED <<objects, sent, acked, content, framing, live, pingVars>>

DestroyBuffer(b) ==
    /\ b \in live \ lent /\ live' = live \ {b}
    /\ UNCHANGED <<objects, sent, acked, content, framing, lent, pingVars>>

DestroyObject(o) ==
    /\ o \in objects /\ OnTopOf(o) \cap objects = {}
    /\ objects' = objects \ {o}
    /\ UNCHANGED <<sent, acked, content, framing, live, lent, pingVars>>

Ping ==
    /\ pings' = pings + 1
    /\ UNCHANGED <<objects, sent, acked, content, framing, live, lent, pongs>>

\* A pong answers a ping, once.
Pong ==
    /\ pongs < pings /\ pongs' = pongs + 1
    /\ UNCHANGED <<objects, sent, acked, content, framing, live, lent, pings>>

\* The connection ends: the compositor drops what the client had.
Disconnect ==
    /\ objects' = {} /\ content' = 0 /\ framing' = FALSE
    /\ live' = {} /\ lent' = {}
    /\ UNCHANGED <<sent, acked, pingVars>>

ShellNext ==
    \/ CreateWindow
    \/ \E s \in Sizes \cup {0} : SendConfigure(s)
    \/ \E n \in 1..Len(sent) : AckConfigure(n)
    \/ \E s \in Sizes, own \in {{}} \cup {{b} : b \in Buffers} : Present(s, own)
    \/ FrameShown \/ Ping \/ Pong
    \/ \E b \in Buffers : ReturnBuffer(b) \/ DestroyBuffer(b)
    \/ \E o \in Window : DestroyObject(o)
    \/ Disconnect

ShellSpec == ShellInit /\ [][ShellNext]_shellVars
=============================================================================
