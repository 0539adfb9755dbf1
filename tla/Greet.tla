-------------------------------- MODULE Greet --------------------------------
(***************************************************************************)
(* The welcome page of prj/05-GraphStack in its three forms, tspi-greet    *)
(* (C, shared-memory buffers), tspi-greet-rs (Rust, the same) and          *)
(* tspi-greet-egl (EGL), each against a compositor that configures, pings, *)
(* closes and may die.  Events travel in order on the wire; a client reads *)
(* what is there and handles all it has read before it looks at its state  *)
(* again.  Only sizes and the order of requests are kept of the drawing.   *)
(***************************************************************************)
EXTENDS Naturals, Sequences, FiniteSets

CONSTANTS Setups,  \* a client each, and what its compositor may do
          Sizes,   \* sizes the compositor asks for, and Preset
          Preset,  \* 480 x 800
          Buffers  \* bound: buffers of the client at a time

Clients == {"c", "rust", "egl"}

\* late: the first configure may come after the answer to the roundtrip;
\* faults: the compositor may die and the EGL client be signalled.  The two
\* numbers are bounds.
ASSUME GreetAssumption ==
    /\ Setups \subseteq [client : Clients, late : BOOLEAN, faults : BOOLEAN,
                        configures : Nat, pings : Nat]
    /\ Sizes \subseteq Nat \ {0} /\ Preset \in Sizes
    /\ Buffers \subseteq Nat \ {0} /\ IsFiniteSet(Buffers)

VARIABLES setup,      \* which client, which compositor
          phase,      \* where the client is
          wire,       \* events sent and not handled
          got,        \* of these, how many the client has read
          width,      \* the size the client draws
          pending,    \* pending_w of the EGL client
          redraw,     \* needs_redraw
          running,
          stop,       \* g_stop
          sync,       \* the roundtrip: "no", "asked", "replied", "done"
          objects, sent, acked, content,  \* as in XdgShell
          frames,     \* frame callbacks the compositor owes
          live, lent, \* as in XdgShell
          current,    \* the buffer last shown
          pings, pongs, closed, up

clientVars == <<phase, width, pending, redraw, running, stop>>
shellVars == <<objects, sent, acked, content, frames, live, lent, current>>
linkVars == <<pings, pongs, closed, up>>
vars == <<setup, clientVars, wire, got, sync, shellVars, linkVars>>

client == setup.client
Late == setup.late
Event(e, a) == [ev |-> e, arg |-> a]
Window == {"wl_surface", "xdg_surface", "xdg_toplevel"}
Globals == {"compositor", "shm", "wm_base"}
Phases == {"start", "sync", "look", "loop", "first", "second", "swap",
           "teardown", "gone"}

\* What main tests after the first roundtrip.
Needed == IF client = "egl" THEN {"compositor", "wm_base"} ELSE Globals

Init ==
    /\ setup \in Setups
    /\ phase = "start" /\ wire = <<>> /\ got = 0
    /\ width = Preset /\ pending = 0
    /\ redraw = FALSE /\ running = TRUE /\ stop = FALSE /\ sync = "no"
    /\ objects = {} /\ sent = <<>> /\ acked = 0 /\ content = 0
    /\ frames = 0 /\ live = {} /\ lent = {} /\ current = 0
    /\ pings = 0 /\ pongs = 0 /\ closed = FALSE /\ up = TRUE

------------------------------------------------------------------------------
(* The compositor *)

Serving == up /\ phase \notin {"start", "gone"}

\* A configure sequence: the size, then the serial that ends it.
Configure ==
    /\ Serving /\ "xdg_toplevel" \in objects /\ Len(sent) < setup.configures
    /\ \E s \in Sizes \cup {0} :
          /\ sent' = Append(sent, s)
          /\ wire' = Append(Append(wire, Event("top", s)),
                            Event("surf", Len(sent) + 1))
    /\ UNCHANGED <<setup, clientVars, got, sync, objects, acked, content,
                   frames, live, lent, current, linkVars>>

SyncReply ==
    /\ Serving /\ sync = "asked" /\ (Late \/ sent # <<>>)
    /\ sync' = "replied" /\ wire' = Append(wire, Event("sync", 0))
    /\ UNCHANGED <<setup, clientVars, got, shellVars, linkVars>>

Ping ==
    /\ Serving /\ pings < setup.pings
    /\ pings' = pings + 1 /\ wire' = Append(wire, Event("ping", pings + 1))
    /\ UNCHANGED <<setup, clientVars, got, sync, shellVars, pongs, closed, up>>

Close ==
    /\ Serving /\ "xdg_toplevel" \in objects /\ ~closed
    /\ closed' = TRUE /\ wire' = Append(wire, Event("close", 0))
    /\ UNCHANGED <<setup, clientVars, got, sync, shellVars, pings, pongs, up>>

Release(b) ==
    /\ Serving /\ b \in lent
    /\ lent' = lent \ {b} /\ wire' = Append(wire, Event("release", b))
    /\ UNCHANGED <<setup, clientVars, got, sync, objects, sent, acked,
                   content, frames, live, current, linkVars>>

\* A frame is on the screen; the buffers before it have been given back.
\* The callbacks of the EGL client are its library's.
FrameShown ==
    /\ Serving /\ frames > 0 /\ lent \subseteq {current}
    /\ frames' = frames - 1
    /\ wire' = IF client = "egl" THEN wire ELSE Append(wire, Event("done", 0))
    /\ UNCHANGED <<setup, clientVars, got, sync, objects, sent, acked,
                   content, live, lent, current, linkVars>>

HangUp ==
    /\ setup.faults /\ Serving /\ up' = FALSE
    /\ UNCHANGED <<setup, clientVars, wire, got, sync, shellVars, pings,
                   pongs, closed>>

------------------------------------------------------------------------------
(* Requests *)

\* The process ends or disconnects.
Exit ==
    /\ phase' = "gone" /\ wire' = <<>> /\ got' = 0
    /\ objects' = {} /\ content' = 0 /\ frames' = 0
    /\ live' = {} /\ lent' = {} /\ current' = 0
    /\ UNCHANGED <<setup, width, pending, redraw, running, stop, sync, sent,
                   acked, linkVars>>

\* Attach, damage, frame, commit.
Commit(size, own) ==
    /\ content' = size /\ frames' = frames + 1
    /\ live' = live \cup own /\ lent' = lent \cup own

NewBuffer == CHOOSE b \in Buffers : b \notin live

\* redraw: a buffer of the present size is made, drawn and committed; when
\* it cannot be made the client is to stop.
Redraw ==
    \/ /\ ~(Buffers \subseteq live)
       /\ Commit(width, {NewBuffer}) /\ current' = NewBuffer
       /\ UNCHANGED running
    \/ running' = FALSE /\ UNCHANGED <<content, frames, live, lent, current>>

------------------------------------------------------------------------------
(* Event handlers: each handles the event at the head of the wire *)

Handling ==
    /\ got > 0
    /\ phase \in {"sync", "first", "second"} \/ (phase = "loop" /\ client # "egl")

Takes(e) ==
    /\ Handling /\ Head(wire).ev = e
    /\ wire' = Tail(wire) /\ got' = got - 1
    /\ UNCHANGED setup

arg == Head(wire).arg

\* Mutant of Sized: 0 x 0 is taken for a size.
SizedAlways(s) == TRUE

\* Mutant of Sized: only the first size counts.
SizedOnce(s) == s > 0 /\ width = Preset /\ pending = 0

Sized(s) == s > 0

OnTopConfigure ==
    /\ Takes("top")
    /\ width' = IF client # "egl" /\ Sized(arg) THEN arg ELSE width
    /\ pending' = IF client = "egl" /\ Sized(arg) THEN arg ELSE pending
    /\ UNCHANGED <<phase, redraw, running, stop, sync, shellVars, linkVars>>

\* Mutant of Configured: a frame is drawn for every configure.
ConfiguredDraws ==
    \/ client # "egl" /\ acked > 0 /\ redraw' = redraw /\ Redraw
    \/ /\ client = "egl" \/ acked = 0
       /\ redraw' = (client # "egl")
       /\ UNCHANGED <<running, content, frames, live, lent, current>>

\* Only the clients in C and Rust have needs_redraw.
Configured ==
    /\ redraw' = (client # "egl")
    /\ UNCHANGED <<running, content, frames, live, lent, current>>

OnSurfConfigure ==
    /\ Takes("surf") /\ acked' = arg /\ Configured
    /\ UNCHANGED <<phase, width, pending, stop, sync, objects, sent, linkVars>>

OnClose ==
    /\ Takes("close") /\ running' = FALSE
    /\ UNCHANGED <<phase, width, pending, redraw, stop, sync, shellVars, linkVars>>

OnPing ==
    /\ Takes("ping") /\ pongs' = pongs + 1
    /\ UNCHANGED <<clientVars, sync, shellVars, pings, closed, up>>

\* Mutant of Discard: the buffer is not destroyed.
DiscardNot(b) == UNCHANGED live

Discard(b) == live' = live \ {b}

OnRelease ==
    /\ Takes("release") /\ Discard(arg)
    /\ UNCHANGED <<clientVars, sync, objects, sent, acked, content, frames, lent,
                   current, linkVars>>

OnFrameDone ==
    /\ Takes("done") /\ Redraw
    /\ UNCHANGED <<phase, width, pending, redraw, stop, sync, objects, sent,
                   acked, linkVars>>

OnSyncDone ==
    /\ Takes("sync") /\ sync' = "done"
    /\ UNCHANGED <<clientVars, shellVars, linkVars>>

Handle ==
    \/ OnTopConfigure \/ OnSurfConfigure \/ OnClose \/ OnPing
    \/ OnRelease \/ OnFrameDone \/ OnSyncDone

------------------------------------------------------------------------------
(* main *)

Goto(p) ==
    /\ phase' = p
    /\ UNCHANGED <<setup, wire, sync, width, pending, redraw, running, stop,
                   shellVars, linkVars>>

\* Connect, first roundtrip, the window, its first commit, second roundtrip.
CreateWindow(globals) ==
    /\ phase = "start" /\ Needed \subseteq globals
    /\ phase' = "sync" /\ sync' = "asked" /\ objects' = Window
    /\ UNCHANGED <<setup, wire, got, width, pending, redraw, running, stop,
                   sent, acked, content, frames, live, lent, current, linkVars>>

\* A global is missing, or egl_setup fails.
NoWindow(globals) ==
    /\ phase = "start"
    /\ ~(Needed \subseteq globals) \/ client = "egl"
    /\ Exit

\* Nothing left to handle: what is on the wire is read.
Reading ==
    /\ got = 0 /\ wire # <<>> /\ got' = Len(wire)
    /\ UNCHANGED <<setup, clientVars, wire, sync, shellVars, linkVars>>

ReadForSync == phase = "sync" /\ sync # "done" /\ Reading

\* The reply has come, or the roundtrip fails: Rust panics, C goes on.
SyncOver ==
    /\ phase = "sync" /\ got = 0 /\ UNCHANGED got
    /\ sync = "done" \/ (~up /\ client # "rust")
    /\ Goto("look")

SyncPanics ==
    phase = "sync" /\ got = 0 /\ ~up /\ sync # "done" /\ client = "rust" /\ Exit

LookRedraws ==
    /\ phase = "look" /\ client # "egl" /\ redraw
    /\ Redraw /\ redraw' = FALSE /\ phase' = "loop"
    /\ UNCHANGED <<setup, wire, got, sync, width, pending, stop, objects, sent,
                   acked, linkVars>>

LookSkips ==
    /\ phase = "look" /\ client # "egl" /\ ~redraw /\ UNCHANGED got /\ Goto("loop")

\* The size is taken over, then egl_attach_surface and render_init.
EglAttach ==
    /\ phase = "look" /\ client = "egl"
    /\ width' = (IF pending > 0 THEN pending ELSE width) /\ phase' = "loop"
    /\ UNCHANGED <<setup, wire, got, sync, pending, redraw, running, stop,
                   shellVars, linkVars>>

EglAttachFails == phase = "look" /\ client = "egl" /\ Exit

\* Mutant of Running: the signal is not looked at.
RunningUnsignalled == running

Running == running /\ ~stop

\* wl_display_dispatch, blocking_dispatch
Dispatch == phase = "loop" /\ client # "egl" /\ Running /\ Reading

DispatchFails ==
    /\ phase = "loop" /\ client # "egl" /\ Running /\ got = 0 /\ ~up
    /\ UNCHANGED got /\ Goto("teardown")

Stopped ==
    /\ phase = "loop" /\ ~Running /\ (client = "egl" \/ got = 0)
    /\ UNCHANGED got /\ Goto("teardown")

------------------------------------------------------------------------------
(* The loop of the EGL client *)

EglIterates ==
    phase = "loop" /\ client = "egl" /\ Running /\ UNCHANGED got /\ Goto("first")

\* Mutant of EglReads: read_events is left out.
EglReadsNot == phase = "first" /\ got = 0 /\ UNCHANGED got /\ Goto("second")

\* prepare_read succeeds once nothing is left to dispatch; read_events
\* does not wait.
EglReads == phase = "first" /\ got = 0 /\ got' = Len(wire) /\ Goto("second")

\* egl_apply_resize
Resized == IF pending > 0 THEN pending ELSE width

EglRenders ==
    /\ phase = "second" /\ got = 0 /\ width' = Resized /\ phase' = "swap"
    /\ UNCHANGED <<setup, wire, got, sync, pending, redraw, running, stop,
                   shellVars, linkVars>>

\* eglSwapBuffers waits for the callback of the frame before; when the
\* connection is gone it fails (assumed of the library).
EglSwaps ==
    /\ phase = "swap" /\ up /\ frames = 0
    /\ Commit(width, {}) /\ phase' = "loop"
    /\ UNCHANGED <<setup, wire, got, sync, width, pending, redraw, running,
                   stop, objects, sent, acked, current, linkVars>>

\* While it waits it may read for the client's own queue.
EglSwapReads ==
    /\ phase = "swap" /\ frames > 0 /\ got < Len(wire) /\ got' = Len(wire)
    /\ UNCHANGED <<setup, clientVars, wire, sync, shellVars, linkVars>>

EglSwapBroken == phase = "swap" /\ ~up /\ UNCHANGED got /\ Goto("teardown")
EglSwapFails  == phase = "swap" /\ up /\ UNCHANGED got /\ Goto("teardown")

Signal ==
    /\ setup.faults /\ client = "egl" /\ ~stop /\ phase \notin {"start", "gone"}
    /\ stop' = TRUE
    /\ UNCHANGED <<setup, phase, width, pending, redraw, running, wire, got,
                   sync, shellVars, linkVars>>

------------------------------------------------------------------------------
(* Teardown *)

\* The order is that of main.
Topmost(o) ==
    \/ o = "xdg_toplevel"
    \/ o = "xdg_surface" /\ "xdg_toplevel" \notin objects
    \/ objects = {"wl_surface"}

DestroyObject ==
    /\ phase = "teardown" /\ client # "rust"
    /\ \E o \in objects : Topmost(o) /\ objects' = objects \ {o}
    /\ UNCHANGED <<setup, clientVars, wire, got, sync, sent, acked, content,
                   frames, live, lent, current, linkVars>>

\* wl_display_disconnect; Rust drops the connection and what hangs on it.
Disconnect == phase = "teardown" /\ (client = "rust" \/ objects = {}) /\ Exit

Ended == phase = "gone" /\ UNCHANGED vars

------------------------------------------------------------------------------
Compositor ==
    \/ Configure \/ SyncReply \/ Ping \/ Close \/ FrameShown \/ HangUp
    \/ \E b \in Buffers : Release(b)

ClientStep ==
    \/ \E globals \in SUBSET Globals : CreateWindow(globals) \/ NoWindow(globals)
    \/ ReadForSync \/ Handle \/ SyncOver \/ SyncPanics
    \/ LookRedraws \/ LookSkips \/ EglAttach \/ EglAttachFails
    \/ Dispatch \/ DispatchFails \/ Stopped
    \/ EglIterates \/ EglReads \/ EglRenders \/ EglSwaps \/ EglSwapBroken
    \/ DestroyObject \/ Disconnect

Next == Compositor \/ ClientStep \/ EglSwapReads \/ EglSwapFails \/ Signal \/ Ended

Spec == Init /\ [][Next]_vars

\* The client is one thread that runs; the compositor sends the first
\* configure, answers the roundtrip, gives back what it does not show and
\* shows what is committed.
Fairness ==
    /\ WF_vars(ClientStep)
    /\ WF_vars(sent = <<>> /\ Configure)
    /\ WF_vars(SyncReply) /\ WF_vars(FrameShown)
    /\ \A b \in Buffers : WF_vars(b # current /\ Release(b))

FairSpec == Spec /\ Fairness

------------------------------------------------------------------------------
(* Properties *)

Events == [ev : {"top", "surf", "close", "ping", "release", "done", "sync"},
           arg : Nat]

\* The variables keep their types, and no more is read than was sent.
GreetTypeOK ==
    /\ setup \in Setups /\ phase \in Phases
    /\ wire \in Seq(Events) /\ got \in 0..Len(wire)
    /\ width \in Sizes /\ pending \in Sizes \cup {0}
    /\ redraw \in BOOLEAN /\ running \in BOOLEAN /\ stop \in BOOLEAN
    /\ sync \in {"no", "asked", "replied", "done"}
    /\ objects \subseteq Window /\ sent \in Seq(Sizes \cup {0})
    /\ acked \in 0..Len(sent) /\ content \in Sizes \cup {0} /\ frames \in Nat
    /\ live \subseteq Buffers /\ lent \subseteq live /\ current \in Buffers \cup {0}
    /\ pings \in Nat /\ pongs \in Nat /\ closed \in BOOLEAN /\ up \in BOOLEAN

Released(i) == wire[i].ev = "release"
Returning == {wire[i].arg : i \in {j \in 1..Len(wire) : Released(j)}}

\* Every buffer of the client is either in use by the compositor or named by
\* exactly one release on its way to buf_release: none is lost, none is
\* destroyed twice, none is destroyed while it is shown.
BuffersAccounted ==
    /\ live = lent \cup Returning /\ lent \cap Returning = {}
    /\ \A i, j \in 1..Len(wire) :
          Released(i) /\ Released(j) /\ wire[i].arg = wire[j].arg => i = j

\* Although a buffer is made for every frame, there are never more than two:
\* the one shown and the one drawn after it.
BuffersBounded == Cardinality(live) <= 2

Shell == INSTANCE XdgShell WITH framing <- frames > 0

\* Whatever the order of events, the clients keep to what xdg-shell allows.
KeepsToXdgShell == Shell!ShellSpec

\* egl_attach_surface is to run after the first configure only, says the
\* comment above it (tspi-greet-egl/src/main.c:184).
SurfaceAfterConfigure ==
    client = "egl" /\ phase \in {"first", "second", "swap"} => acked > 0

Fits == content > 0 /\ sent # <<>> /\ sent[Len(sent)] \in {0, content}

\* The first configure came after needs_redraw was looked at: it is set again,
\* and nobody looks (tspi-greet/src/main.c:280).
LeftBlank == Late /\ client # "egl" /\ redraw /\ content = 0

\* When the compositor asks for no more changes, the window comes to have the
\* last size asked for, and keeps it, unless the client ends.  (A compositor
\* whose first configure is late may leave the clients in C and Rust blank.)
LatestSizeShown == <>[](LeftBlank \/ phase = "gone" \/ Fits)

\* A client told to close, signalled, or left by its compositor, ends.
EndsWhenTold == (closed \/ stop \/ ~up) ~> (phase = "gone")

\* A ping is answered, unless the client ends.
PingsAnswered == (pings > pongs) ~> (pings = pongs \/ phase = "gone")
=============================================================================
