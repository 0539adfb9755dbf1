------------------------------ MODULE GreetProofs ------------------------------
(***************************************************************************)
(* Proofs about Greet, for any clients, compositors, sizes and supply of   *)
(* buffers: no buffer is lost, there are never more than two, and the      *)
(* clients keep to the rules of XdgShell.                                  *)
(***************************************************************************)
EXTENDS Greet, FiniteSetTheorems, TLAPS

Wire == 1..Len(wire)
EvAt(i) == wire[i].ev
ArgAt(i) == wire[i].arg

\* What the events carry.
WireInv ==
    \A i \in Wire :
        /\ EvAt(i) = "top" => ArgAt(i) \in Sizes \cup {0}
        /\ EvAt(i) = "surf" => ArgAt(i) \in 1..Len(sent)
        /\ EvAt(i) = "release" => ArgAt(i) \in Buffers

TypeInv == GreetTypeOK /\ WireInv

Handles ==
    phase \in {"sync", "first", "second"} \/ (phase = "loop" /\ client # "egl")

\* What exists in which phase of main.
PhaseInv ==
    /\ phase \in {"start", "gone"} => objects = {} /\ wire = <<>>
    /\ phase \notin {"start", "gone", "teardown"} => objects = Window
    /\ phase \in {"first", "second", "swap"} => client = "egl"
    /\ client # "egl" => pending = 0
    /\ phase = "look" => got = 0
    /\ phase = "start" => sent = <<>>

\* A size is followed by the serial of its configure sequence, and both are
\* read together.
PairInv ==
    \A i \in Wire :
        /\ EvAt(i) = "top" =>
              i < Len(wire) /\ EvAt(i + 1) = "surf" /\ i # got
              /\ sent[ArgAt(i + 1)] = ArgAt(i)
        /\ EvAt(i) = "surf" /\ i > 1 => EvAt(i - 1) = "top"

\* Serials arrive in the order they were sent, each once.
SerialInv ==
    \A i \in Wire : EvAt(i) = "surf" =>
        /\ ArgAt(i) > acked
        /\ \A j \in Wire : i < j /\ EvAt(j) = "surf" => ArgAt(i) < ArgAt(j)

\* The size of the next configure is taken over, its serial not yet.
Lone == wire # <<>> /\ EvAt(1) = "surf"

\* Outside of a configure sequence the client draws the size it acknowledged.
SettledInv ==
    /\ Lone => got > 0 /\ Handles /\ sent[ArgAt(1)] \in {0, Resized}
    /\ ~Lone => acked = 0 \/ sent[acked] \in {0, Resized}
    /\ phase = "swap" => width = Resized

\* One frame callback at most is due or on its way.
FrameInv ==
    /\ frames \in {0, 1}
    /\ \A i \in Wire : EvAt(i) = "done" =>
         /\ frames = 0 /\ client # "egl" /\ acked > 0
         /\ phase \notin {"sync", "look"}
         /\ \A j \in Wire : EvAt(j) = "done" => j = i
    /\ client # "egl" /\ frames > 0 => acked > 0
    /\ redraw => acked > 0
    /\ phase \in {"start", "sync", "look"} => frames = 0 /\ live = {}

\* Once a frame is shown, the buffers before it have been given back, and
\* their releases are ahead of its callback.
NewestInv ==
    /\ \E b \in Nat : live \subseteq {b, current}
    /\ \A i \in Wire : EvAt(i) = "done" =>
         /\ lent \subseteq {current}
         /\ \A j \in Wire : i < j /\ EvAt(j) = "release" => ArgAt(j) = current

\* The answer to the roundtrip comes after the first configure.
SyncInv ==
    ~Late =>
      /\ \A i \in Wire : EvAt(i) = "sync" =>
           acked > 0 \/ \E j \in Wire : j < i /\ EvAt(j) = "surf"
      /\ sync = "done" => acked > 0
      /\ sent # <<>> /\ phase # "gone" =>
           acked > 0 \/ \E j \in Wire : EvAt(j) = "surf"
      /\ /\ client = "egl" /\ up
         /\ phase \in {"look", "loop", "first", "second", "swap"}
         => acked > 0

\* Pings are answered in order.
PingInv ==
    /\ pongs <= pings
    /\ \A i \in Wire : EvAt(i) = "ping" =>
        /\ ArgAt(i) \in pongs + 1 .. pings
        /\ \A j \in Wire : i < j /\ EvAt(j) = "ping" => ArgAt(i) < ArgAt(j)

------------------------------------------------------------------------------
(* The wire *)

\* An event is added behind the others.
LEMMA Appended ==
    ASSUME NEW w \in Seq(Events), NEW e \in Events
    PROVE  /\ Append(w, e) \in Seq(Events)
           /\ Len(Append(w, e)) = Len(w) + 1
           /\ \A i \in 1..Len(w) : Append(w, e)[i] = w[i]
           /\ Append(w, e)[Len(w) + 1] = e
  OBVIOUS

\* A handler takes the first event; the others move up.
LEMMA Taken ==
    ASSUME TypeInv, NEW e, Takes(e)
    PROVE  /\ wire' \in Seq(Events) /\ Len(wire) >= 1 /\ Len(wire') = Len(wire) - 1
           /\ \A i \in 1..Len(wire') : i + 1 \in Wire /\ wire'[i] = wire[i + 1]
           /\ EvAt(1) = e /\ arg = ArgAt(1) /\ wire[1] \in Events
           /\ got > 0 /\ got' = got - 1 /\ got' \in 0..Len(wire')
           /\ setup' = setup /\ Handles
  <1>1. wire \in Seq(Events) /\ got \in 0..Len(wire) /\ got > 0
    BY DEF TypeInv, GreetTypeOK, Takes, Handling
  <1>2. wire # <<>> /\ Len(wire) >= 1
    BY <1>1
  <1>3. Head(wire) = wire[1] /\ wire[1] \in Events
    BY <1>1, <1>2
  <1>4. wire' = Tail(wire)
    BY DEF Takes
  <1>5. wire' \in Seq(Events) /\ Len(wire') = Len(wire) - 1
    BY <1>1, <1>2, <1>4
  <1>6. \A i \in 1..Len(wire') : i + 1 \in Wire /\ wire'[i] = wire[i + 1]
    BY <1>1, <1>2, <1>4 DEF Wire
  <1>. QED
    BY <1>1, <1>2, <1>3, <1>5, <1>6 DEF Takes, Handling, Handles, EvAt, ArgAt, arg

\* Handling an event leaves what the others carry.
LEMMA WireTaken ==
    ASSUME TypeInv, NEW e, Takes(e), sent' = sent
    PROVE  WireInv'
  <1>. QED  BY Taken DEF TypeInv, WireInv, Wire, EvAt, ArgAt

\* So does adding one that is none of the three that carry something.
LEMMA WireAppended ==
    ASSUME TypeInv, NEW e \in Events, wire' = Append(wire, e), sent' = sent,
           e.ev \notin {"top", "surf"}, e.ev = "release" => e.arg \in Buffers
    PROVE  wire' \in Seq(Events) /\ got \in 0..Len(wire') /\ WireInv'
  <1>1. wire \in Seq(Events) /\ got \in 0..Len(wire)
    BY DEF TypeInv, GreetTypeOK
  <1>2. /\ wire' \in Seq(Events) /\ Len(wire') = Len(wire) + 1
        /\ \A i \in 1..Len(wire) : wire'[i] = wire[i]
        /\ wire'[Len(wire) + 1] = e
    BY <1>1, Appended
  <1>. QED  BY <1>1, <1>2 DEF TypeInv, WireInv, Wire, EvAt, ArgAt

\* A new buffer is one that the client does not have.
LEMMA NewIsNew ==
    ASSUME ~(Buffers \subseteq live)
    PROVE  NewBuffer \in Buffers \ live
  BY DEF NewBuffer

\* What a configure sequence adds.
LEMMA Configures ==
    ASSUME TypeInv, Configure
    PROVE  \E s \in Sizes \cup {0} :
             /\ sent' \in Seq(Sizes \cup {0}) /\ Len(sent') = Len(sent) + 1
             /\ \A n \in 1..Len(sent) : sent'[n] = sent[n]
             /\ sent'[Len(sent) + 1] = s
             /\ wire' \in Seq(Events) /\ Len(wire') = Len(wire) + 2
             /\ \A i \in 1..Len(wire) : wire'[i] = wire[i]
             /\ wire'[Len(wire) + 1] = Event("top", s)
             /\ wire'[Len(wire) + 2] = Event("surf", Len(sent) + 1)
             /\ got \in 0..Len(wire)
  <1>1. PICK s \in Sizes \cup {0} :
             /\ sent' = Append(sent, s)
             /\ wire' = Append(Append(wire, Event("top", s)),
                               Event("surf", Len(sent) + 1))
    BY DEF Configure
  <1>2. /\ wire \in Seq(Events) /\ sent \in Seq(Sizes \cup {0})
        /\ got \in 0..Len(wire)
    BY DEF TypeInv, GreetTypeOK
  <1>3. Event("top", s) \in Events /\ Event("surf", Len(sent) + 1) \in Events
    <2>1. s \in Nat /\ Len(sent) + 1 \in Nat
      BY <1>2, GreetAssumption
    <2>. QED  BY <2>1 DEF Event, Events
  <1>4. DEFINE w == Append(wire, Event("top", s))
  <1>5. /\ w \in Seq(Events) /\ Len(w) = Len(wire) + 1
        /\ \A i \in 1..Len(wire) : w[i] = wire[i]
        /\ w[Len(wire) + 1] = Event("top", s)
    BY <1>2, <1>3, Appended
  <1>6. /\ wire' \in Seq(Events) /\ Len(wire') = Len(w) + 1
        /\ \A i \in 1..Len(w) : wire'[i] = w[i]
        /\ wire'[Len(w) + 1] = Event("surf", Len(sent) + 1)
    <2>1. wire' = Append(w, Event("surf", Len(sent) + 1))
      BY <1>1
    <2>. HIDE DEF w
    <2>. QED  BY <1>3, <1>5, <2>1, Appended
  <1>. HIDE DEF w
  <1>7. /\ Len(wire') = Len(wire) + 2
        /\ \A i \in 1..Len(wire) : wire'[i] = wire[i]
        /\ wire'[Len(wire) + 1] = Event("top", s)
        /\ wire'[Len(wire) + 2] = Event("surf", Len(sent) + 1)
    BY <1>2, <1>5, <1>6
  <1>8. /\ sent' \in Seq(Sizes \cup {0}) /\ Len(sent') = Len(sent) + 1
        /\ \A n \in 1..Len(sent) : sent'[n] = sent[n]
        /\ sent'[Len(sent) + 1] = s
    BY <1>1, <1>2
  <1>. QED  BY <1>2, <1>6, <1>7, <1>8

\* Types of a commit.
LEMMA RedrawTypes ==
    ASSUME TypeInv, Redraw
    PROVE  /\ content' \in Sizes \cup {0} /\ frames' \in Nat
           /\ live' \subseteq Buffers /\ lent' \subseteq live'
           /\ current' \in Buffers \cup {0} /\ running' \in BOOLEAN
  <1>. USE DEF TypeInv, GreetTypeOK
  <1>1. CASE UNCHANGED <<content, frames, live, lent, current>>
    BY <1>1 DEF Redraw
  <1>2. CASE ~(Buffers \subseteq live) /\ Commit(width, {NewBuffer})
               /\ current' = NewBuffer /\ UNCHANGED running
    <2>1. NewBuffer \in Buffers
      BY <1>2, NewIsNew
    <2>. QED  BY <1>2, <2>1 DEF Commit
  <1>. QED  BY <1>1, <1>2 DEF Redraw

\* The compositor's steps keep the types.
LEMMA CompositorTypes ==
    ASSUME TypeInv, Compositor
    PROVE  TypeInv'
  <1>. USE DEF TypeInv, GreetTypeOK, clientVars, shellVars, linkVars
  <1>1. CASE Configure
    <2>1. PICK s \in Sizes \cup {0} :
             /\ sent' \in Seq(Sizes \cup {0}) /\ Len(sent') = Len(sent) + 1
             /\ wire' \in Seq(Events) /\ Len(wire') = Len(wire) + 2
             /\ \A i \in 1..Len(wire) : wire'[i] = wire[i]
             /\ wire'[Len(wire) + 1] = Event("top", s)
             /\ wire'[Len(wire) + 2] = Event("surf", Len(sent) + 1)
      BY <1>1, Configures
    <2>2. WireInv'
      <3>. SUFFICES ASSUME NEW i \in 1..Len(wire')
           PROVE  /\ wire'[i].ev = "top" => wire'[i].arg \in Sizes \cup {0}
                  /\ wire'[i].ev = "surf" => wire'[i].arg \in 1..Len(sent')
                  /\ wire'[i].ev = "release" => wire'[i].arg \in Buffers
        BY <1>1 DEF WireInv, Wire, EvAt, ArgAt
      <3>1. CASE i \in 1..Len(wire)
        BY <2>1, <3>1 DEF WireInv, Wire, EvAt, ArgAt
      <3>2. CASE i = Len(wire) + 1
        BY <2>1, <3>2 DEF Event
      <3>3. CASE i = Len(wire) + 2
        BY <2>1, <3>3 DEF Event
      <3>4. Len(wire) \in Nat
        BY <2>1
      <3>5. i \in 1..(Len(wire) + 2)
        BY <2>1
      <3>6. i \in 1..Len(wire) \/ i = Len(wire) + 1 \/ i = Len(wire) + 2
        BY <3>4, <3>5
      <3>. QED  BY <3>1, <3>2, <3>3, <3>6
    <2>3. got' \in 0..Len(wire') /\ acked' \in 0..Len(sent')
      BY <1>1, <2>1 DEF Configure
    <2>. QED  BY <1>1, <2>1, <2>2, <2>3 DEF Configure
  <1>2. CASE SyncReply
    <2>1. Event("sync", 0) \in Events /\ Event("sync", 0).ev = "sync"
      BY DEF Event, Events
    <2>2. wire' \in Seq(Events) /\ got' \in 0..Len(wire') /\ WireInv'
      BY <1>2, <2>1, WireAppended DEF SyncReply
    <2>. QED  BY <1>2, <2>2 DEF SyncReply
  <1>3. CASE Ping
    <2>1. Event("ping", pings + 1) \in Events /\ Event("ping", pings + 1).ev = "ping"
      BY DEF Event, Events
    <2>2. wire' \in Seq(Events) /\ got' \in 0..Len(wire') /\ WireInv'
      BY <1>3, <2>1, WireAppended DEF Ping
    <2>. QED  BY <1>3, <2>2 DEF Ping
  <1>4. CASE Close
    <2>1. Event("close", 0) \in Events /\ Event("close", 0).ev = "close"
      BY DEF Event, Events
    <2>2. wire' \in Seq(Events) /\ got' \in 0..Len(wire') /\ WireInv'
      BY <1>4, <2>1, WireAppended DEF Close
    <2>. QED  BY <1>4, <2>2 DEF Close
  <1>5. ASSUME NEW b \in Buffers, Release(b)
        PROVE  TypeInv'
    <2>1. /\ Event("release", b) \in Events /\ Event("release", b).ev = "release"
          /\ Event("release", b).arg = b
      BY GreetAssumption DEF Event, Events
    <2>2. wire' \in Seq(Events) /\ got' \in 0..Len(wire') /\ WireInv'
      BY <1>5, <2>1, WireAppended DEF Release
    <2>. QED  BY <1>5, <2>2 DEF Release
  <1>6. CASE FrameShown
    <2>1. Event("done", 0) \in Events /\ Event("done", 0).ev = "done"
      BY DEF Event, Events
    <2>2. wire' \in Seq(Events) /\ got' \in 0..Len(wire') /\ WireInv'
      <3>1. CASE client = "egl"
        <4>. wire' = wire
          BY <1>6, <3>1 DEF FrameShown
        <4>. QED  BY <1>6 DEF FrameShown, WireInv, Wire, EvAt, ArgAt
      <3>2. CASE client # "egl"
        BY <1>6, <2>1, <3>2, WireAppended DEF FrameShown
      <3>. QED  BY <3>1, <3>2
    <2>. QED  BY <1>6, <2>2 DEF FrameShown
  <1>7. CASE HangUp
    BY <1>7 DEF HangUp, WireInv, Wire, EvAt, ArgAt
  <1>. QED  BY <1>1, <1>2, <1>3, <1>4, <1>5, <1>6, <1>7 DEF Compositor

\* The event handlers keep the types.
LEMMA HandleTypes ==
    ASSUME TypeInv, BuffersAccounted, Handle
    PROVE  TypeInv'
  <1>. USE DEF TypeInv, GreetTypeOK, clientVars, shellVars, linkVars
  <1>1. CASE OnTopConfigure
    <2>1. WireInv' /\ wire' \in Seq(Events) /\ got' \in 0..Len(wire')
      BY <1>1, WireTaken, Taken DEF OnTopConfigure
    <2>2. arg \in Sizes \cup {0}
      BY <1>1, Taken DEF OnTopConfigure, WireInv, Wire
    <2>. QED  BY <1>1, <2>1, <2>2 DEF OnTopConfigure, Sized, Takes
  <1>2. CASE OnSurfConfigure
    <2>1. WireInv' /\ wire' \in Seq(Events) /\ got' \in 0..Len(wire')
      BY <1>2, WireTaken, Taken DEF OnSurfConfigure
    <2>2. arg \in 1..Len(sent)
      BY <1>2, Taken DEF OnSurfConfigure, WireInv, Wire
    <2>. QED  BY <1>2, <2>1, <2>2 DEF OnSurfConfigure, Configured, Takes
  <1>3. CASE OnClose
    <2>1. WireInv' /\ wire' \in Seq(Events) /\ got' \in 0..Len(wire')
      BY <1>3, WireTaken, Taken DEF OnClose
    <2>. QED  BY <1>3, <2>1 DEF OnClose, Takes
  <1>4. CASE OnPing
    <2>1. WireInv' /\ wire' \in Seq(Events) /\ got' \in 0..Len(wire')
      BY <1>4, WireTaken, Taken DEF OnPing
    <2>. QED  BY <1>4, <2>1 DEF OnPing, Takes
  <1>5. CASE OnRelease
    <2>1. WireInv' /\ wire' \in Seq(Events) /\ got' \in 0..Len(wire')
      BY <1>5, WireTaken, Taken DEF OnRelease
    <2>2. arg \in Returning
      BY <1>5, Taken DEF OnRelease, Returning, Released, Wire, EvAt, ArgAt
    <2>3. live' \subseteq Buffers /\ lent' \subseteq live'
      BY <1>5, <2>2 DEF OnRelease, Discard, BuffersAccounted
    <2>. QED  BY <1>5, <2>1, <2>3 DEF OnRelease, Takes
  <1>6. CASE OnFrameDone
    <2>1. WireInv' /\ wire' \in Seq(Events) /\ got' \in 0..Len(wire')
      BY <1>6, WireTaken, Taken DEF OnFrameDone
    <2>2. /\ content' \in Sizes \cup {0} /\ frames' \in Nat
          /\ live' \subseteq Buffers /\ lent' \subseteq live'
          /\ current' \in Buffers \cup {0} /\ running' \in BOOLEAN
      BY <1>6, RedrawTypes DEF OnFrameDone
    <2>. QED  BY <1>6, <2>1, <2>2 DEF OnFrameDone, Takes
  <1>7. CASE OnSyncDone
    <2>1. WireInv' /\ wire' \in Seq(Events) /\ got' \in 0..Len(wire')
      BY <1>7, WireTaken, Taken DEF OnSyncDone
    <2>. QED  BY <1>7, <2>1 DEF OnSyncDone, Takes
  <1>. QED  BY <1>1, <1>2, <1>3, <1>4, <1>5, <1>6, <1>7 DEF Handle

\* The steps of main and of the EGL client's loop.
MainStep ==
    \/ \E globals \in SUBSET Globals : CreateWindow(globals) \/ NoWindow(globals)
    \/ ReadForSync \/ SyncOver \/ SyncPanics
    \/ LookRedraws \/ LookSkips \/ EglAttach \/ EglAttachFails
    \/ Dispatch \/ DispatchFails \/ Stopped
    \/ EglIterates \/ EglReads \/ EglRenders \/ EglSwaps \/ EglSwapBroken
    \/ DestroyObject \/ Disconnect \/ EglSwapReads \/ EglSwapFails \/ Signal
    \/ Ended

\* Steps that only read, and steps that only move the program; the events
\* that were read are handled before it moves on.
Reads ==
    /\ got = 0 /\ got' = Len(wire) /\ phase \in {"sync", "loop"}
    /\ UNCHANGED <<setup, clientVars, wire, sync, shellVars, linkVars>>

Moves ==
    \/ /\ phase = "sync" /\ got = 0 /\ got' = 0 /\ (sync = "done" \/ ~up)
       /\ Goto("look")
    \/ phase = "look" /\ client # "egl" /\ got' = got /\ Goto("loop")
    \/ phase = "loop" /\ client = "egl" /\ got' = got /\ Goto("first")
    \/ phase = "first" /\ got = 0 /\ got' = Len(wire) /\ Goto("second")
    \/ /\ phase \notin {"start", "gone"} /\ (got = 0 \/ ~Handles) /\ got' = got
       /\ Goto("teardown")

\* How each step of main changes the state the invariants speak of.
LEMMA MainKinds ==
    ASSUME MainStep
    PROVE  \/ Exit /\ (got = 0 \/ ~Handles)
           \/ LookRedraws \/ EglAttach \/ EglRenders \/ EglSwaps
           \/ EglSwapReads \/ Signal \/ DestroyObject \/ UNCHANGED vars
           \/ \E globals \in SUBSET Globals : CreateWindow(globals)
           \/ Reads \/ Moves
  BY DEF MainStep, NoWindow, ReadForSync, Reading, SyncOver, SyncPanics, LookSkips,
         EglAttachFails, Dispatch, DispatchFails, Stopped, EglIterates, EglReads,
         EglSwapBroken, EglSwapFails, Disconnect, Ended, Reads, Moves, Handles

\* What is on the wire stays well-typed when nothing is added.
LEMMA WireSame ==
    ASSUME TypeInv, UNCHANGED <<wire, sent>>
    PROVE  WireInv'
  BY DEF TypeInv, WireInv, Wire, EvAt, ArgAt

LEMMA MainTypes ==
    ASSUME TypeInv, MainStep
    PROVE  TypeInv'
  <1>. USE DEF TypeInv, GreetTypeOK, clientVars, shellVars, linkVars
  <1>0. wire \in Seq(Events) /\ Len(wire) \in Nat /\ Len(wire) \in 0..Len(wire)
    OBVIOUS
  <1>1. CASE Exit
    <2>1. WireInv'
      BY <1>1 DEF Exit, WireInv, Wire
    <2>. QED  BY <1>1, <2>1 DEF Exit, Phases
  <1>2. CASE LookRedraws
    <2>1. /\ content' \in Sizes \cup {0} /\ frames' \in Nat
          /\ live' \subseteq Buffers /\ lent' \subseteq live'
          /\ current' \in Buffers \cup {0} /\ running' \in BOOLEAN
      BY <1>2, RedrawTypes DEF LookRedraws
    <2>2. WireInv'
      BY <1>2, WireSame DEF LookRedraws
    <2>. QED  BY <1>2, <2>1, <2>2 DEF LookRedraws, Phases
  <1>3. CASE EglAttach
    BY <1>3, WireSame DEF EglAttach, Phases
  <1>4. CASE EglRenders
    BY <1>4, WireSame DEF EglRenders, Resized, Phases
  <1>5. CASE EglSwaps
    BY <1>5, WireSame DEF EglSwaps, Commit, Phases
  <1>6. CASE EglSwapReads
    BY <1>0, <1>6, WireSame DEF EglSwapReads
  <1>7. CASE Signal
    BY <1>7, WireSame DEF Signal
  <1>8. CASE DestroyObject
    BY <1>8, WireSame DEF DestroyObject
  <1>9. CASE UNCHANGED vars
    BY <1>9, WireSame DEF vars
  <1>10. ASSUME NEW globals \in SUBSET Globals, CreateWindow(globals)
         PROVE  TypeInv'
    BY <1>10, WireSame DEF CreateWindow, Phases
  <1>11. CASE Reads \/ Moves
    BY <1>0, <1>11, WireSame DEF Reads, Moves, Goto, Phases
  <1>. QED
    BY <1>1, <1>2, <1>3, <1>4, <1>5, <1>6, <1>7, <1>8, <1>9, <1>10, <1>11,
       MainKinds

\* Every step is one of these.
LEMMA NextKinds == [Next]_vars => Compositor \/ Handle \/ MainStep \/ UNCHANGED vars
  BY DEF Next, ClientStep, MainStep

LEMMA TypeStep ==
    ASSUME TypeInv, BuffersAccounted, [Next]_vars
    PROVE  TypeInv'
  <1>1. CASE UNCHANGED vars
    <2>. USE DEF TypeInv, GreetTypeOK, clientVars, shellVars, linkVars
    <2>. QED  BY <1>1, WireSame DEF vars
  <1>. QED  BY <1>1, NextKinds, CompositorTypes, HandleTypes, MainTypes

------------------------------------------------------------------------------
(* Buffers *)

\* No buffer is released twice.
Unique ==
    \A i, j \in Wire :
        EvAt(i) = "release" /\ EvAt(j) = "release" /\ ArgAt(i) = ArgAt(j) => i = j

\* What returns is what the releases on the wire name.
LEMMA Returns ==
    \A b : b \in Returning <=> \E i \in Wire : EvAt(i) = "release" /\ ArgAt(i) = b
  BY DEF Returning, Released, Wire, EvAt, ArgAt

LEMMA ReturnsNext ==
    \A b : b \in Returning' <=>
        \E i \in 1..Len(wire') : wire'[i].ev = "release" /\ wire'[i].arg = b
  BY DEF Returning, Released

LEMMA Accounted ==
    BuffersAccounted <=>
        live = lent \cup Returning /\ lent \cap Returning = {} /\ Unique
  BY DEF BuffersAccounted, Unique, Released, Wire, EvAt, ArgAt

LEMMA ReturningSame ==
    ASSUME UNCHANGED <<wire, live, lent>>, BuffersAccounted
    PROVE  BuffersAccounted'
  BY DEF BuffersAccounted, Returning, Released

\* An event is added: the releases on the wire grow by it.
LEMMA ReturningAppended ==
    ASSUME TypeInv, NEW e \in Events, wire' = Append(wire, e)
    PROVE  /\ e.ev # "release" => Returning' = Returning
           /\ e.ev = "release" => Returning' = Returning \cup {e.arg}
           /\ Unique /\ (e.ev = "release" => e.arg \notin Returning) => Unique'
  <1>1. /\ wire \in Seq(Events) /\ Len(wire) \in Nat
        /\ Len(wire') = Len(wire) + 1
        /\ \A i \in 1..Len(wire) : wire'[i] = wire[i]
        /\ wire'[Len(wire) + 1] = e
    BY Appended DEF TypeInv, GreetTypeOK
  <1>2. \A i : i \in 1..Len(wire') <=> i \in Wire \/ i = Len(wire) + 1
    BY <1>1 DEF Wire
  <1>3. \A b : b \in Returning' <=> b \in Returning \/ (e.ev = "release" /\ b = e.arg)
    BY <1>1, <1>2, Returns, ReturnsNext DEF Wire, EvAt, ArgAt
  <1>4. ASSUME Unique, e.ev = "release" => e.arg \notin Returning
        PROVE  Unique'
    <2>. SUFFICES ASSUME NEW i \in 1..Len(wire'), NEW j \in 1..Len(wire'),
                         wire'[i].ev = "release", wire'[j].ev = "release",
                         wire'[i].arg = wire'[j].arg
                  PROVE  i = j
      BY DEF Unique, Wire, EvAt, ArgAt
    <2>1. CASE i \in Wire /\ j \in Wire
      BY <1>1, <1>4, <2>1 DEF Unique, Wire, EvAt, ArgAt
    <2>2. CASE i \in Wire /\ j = Len(wire) + 1
      BY <1>1, <1>4, <2>2, Returns DEF Wire, EvAt, ArgAt
    <2>3. CASE j \in Wire /\ i = Len(wire) + 1
      BY <1>1, <1>4, <2>3, Returns DEF Wire, EvAt, ArgAt
    <2>. QED  BY <1>2, <2>1, <2>2, <2>3
  <1>5. e.ev # "release" => Returning' = Returning
    BY <1>3
  <1>6. e.ev = "release" => Returning' = Returning \cup {e.arg}
    BY <1>3
  <1>. QED  BY <1>4, <1>5, <1>6

\* An event is handled: when it is a release, its buffer returns no more.
LEMMA ReturningTaken ==
    ASSUME TypeInv, Unique, NEW e, Takes(e)
    PROVE  /\ e # "release" => Returning' = Returning
           /\ e = "release" => arg \in Returning /\ Returning' = Returning \ {arg}
           /\ Unique'
  <1>1. /\ wire' \in Seq(Events) /\ Len(wire) \in Nat /\ Len(wire) >= 1
        /\ Len(wire') = Len(wire) - 1
        /\ \A i \in 1..Len(wire') : i + 1 \in Wire /\ wire'[i] = wire[i + 1]
        /\ EvAt(1) = e /\ arg = ArgAt(1)
    BY Taken DEF TypeInv, GreetTypeOK
  <1>2. \A i \in Wire : i = 1 \/ (i - 1 \in 1..Len(wire') /\ wire'[i - 1] = wire[i])
    BY <1>1 DEF Wire
  <1>3. Unique'
    <2>. SUFFICES ASSUME NEW i \in 1..Len(wire'), NEW j \in 1..Len(wire'),
                         wire'[i].ev = "release", wire'[j].ev = "release",
                         wire'[i].arg = wire'[j].arg
                  PROVE  i = j
      BY DEF Unique, Wire, EvAt, ArgAt
    <2>1. i + 1 = j + 1
      BY <1>1 DEF Unique, EvAt, ArgAt
    <2>. QED  BY <2>1
  <1>4. e # "release" => \A b : b \in Returning' <=> b \in Returning
    BY <1>1, <1>2, Returns, ReturnsNext DEF EvAt, ArgAt
  <1>5. e = "release" =>
          arg \in Returning /\ \A b : b \in Returning' <=> b \in Returning \ {arg}
    <2>. SUFFICES ASSUME e = "release"
                  PROVE  /\ arg \in Returning
                         /\ \A b : b \in Returning' <=> b \in Returning \ {arg}
      OBVIOUS
    <2>1. 1 \in Wire
      BY <1>1 DEF Wire
    <2>2. arg \in Returning
      BY <1>1, <2>1, Returns
    <2>3. ASSUME NEW b \in Returning'
          PROVE  b \in Returning \ {arg}
      <3>1. PICK i \in 1..Len(wire') : wire'[i].ev = "release" /\ wire'[i].arg = b
        BY ReturnsNext
      <3>2. i + 1 \in Wire /\ EvAt(i + 1) = "release" /\ ArgAt(i + 1) = b /\ i + 1 # 1
        BY <1>1, <3>1 DEF EvAt, ArgAt
      <3>. QED  BY <1>1, <2>1, <3>2, Returns DEF Unique
    <2>4. ASSUME NEW b \in Returning \ {arg}
          PROVE  b \in Returning'
      <3>1. PICK i \in Wire : EvAt(i) = "release" /\ ArgAt(i) = b
        BY Returns
      <3>2. i # 1
        BY <1>1, <3>1
      <3>. QED  BY <1>2, <3>1, <3>2, ReturnsNext DEF EvAt, ArgAt
    <2>. QED  BY <2>2, <2>3, <2>4
  <1>6. e # "release" => Returning' = Returning
    BY <1>4
  <1>7. e = "release" => Returning' = Returning \ {arg}
    BY <1>5
  <1>. QED  BY <1>3, <1>5, <1>6, <1>7

\* Drawing adds one buffer to those in use, or none.
LEMMA RedrawAccounts ==
    ASSUME Redraw
    PROVE  \/ UNCHANGED <<live, lent>>
           \/ \E b : b \notin live /\ live' = live \cup {b} /\ lent' = lent \cup {b}
  BY NewIsNew DEF Redraw, Commit

LEMMA AccountedStep ==
    ASSUME TypeInv, BuffersAccounted, [Next]_vars
    PROVE  BuffersAccounted'
  <1>. USE DEF clientVars, shellVars, linkVars
  <1>0. live = lent \cup Returning /\ lent \cap Returning = {} /\ Unique
    BY Accounted
  <1>1. SUFFICES live' = lent' \cup Returning' /\ lent' \cap Returning' = {} /\ Unique'
    BY DEF BuffersAccounted, Unique, Released, Wire, EvAt, ArgAt
  <1>2. CASE Compositor
    <2>1. CASE Configure
      <3>2. PICK s \in Sizes \cup {0} :
             /\ Len(wire') = Len(wire) + 2
             /\ \A i \in 1..Len(wire) : wire'[i] = wire[i]
             /\ wire'[Len(wire) + 1] = Event("top", s)
             /\ wire'[Len(wire) + 2] = Event("surf", Len(sent) + 1)
        BY <2>1, Configures
      <3>3. Len(wire) \in Nat
        BY DEF TypeInv, GreetTypeOK
      <3>4. \A i \in 1..Len(wire') :
               (wire'[i].ev = "release" => i \in Wire) /\ (i \in Wire => wire'[i] = wire[i])
        BY <3>2, <3>3 DEF Event, Wire
      <3>5. \A i \in Wire : i \in 1..Len(wire')
        BY <3>2, <3>3 DEF Wire
      <3>6. \A b : b \in Returning' <=> b \in Returning
        BY <3>4, <3>5, Returns, ReturnsNext DEF EvAt, ArgAt
      <3>7. Returning' = Returning
        BY <3>6
      <3>8. Unique'
        BY <1>0, <3>4, <3>5 DEF Unique, Wire, EvAt, ArgAt
      <3>. QED  BY <1>0, <2>1, <3>7, <3>8 DEF Configure
    <2>2. CASE SyncReply \/ Ping \/ Close
      <3>1. PICK e \in Events : wire' = Append(wire, e) /\ e.ev # "release"
        <4>1. /\ Event("sync", 0) \in Events /\ Event("sync", 0).ev = "sync"
              /\ Event("close", 0) \in Events /\ Event("close", 0).ev = "close"
          BY DEF Event, Events
        <4>2. Event("ping", pings + 1) \in Events /\ Event("ping", pings + 1).ev = "ping"
          BY DEF Event, Events, TypeInv, GreetTypeOK
        <4>. QED  BY <2>2, <4>1, <4>2 DEF SyncReply, Ping, Close
      <3>2. UNCHANGED <<live, lent>>
        BY <2>2 DEF SyncReply, Ping, Close
      <3>. QED  BY <1>0, <3>1, <3>2, ReturningAppended
    <2>3. ASSUME NEW b \in Buffers, Release(b)
          PROVE  live' = lent' \cup Returning' /\ lent' \cap Returning' = {} /\ Unique'
      <3>1. /\ Event("release", b) \in Events /\ Event("release", b).ev = "release"
            /\ Event("release", b).arg = b
        BY GreetAssumption DEF Event, Events
      <3>2. b \in lent /\ lent' = lent \ {b} /\ live' = live
            /\ wire' = Append(wire, Event("release", b))
        BY <2>3 DEF Release
      <3>3. Returning' = Returning \cup {b} /\ Unique'
        BY <1>0, <3>1, <3>2, ReturningAppended
      <3>. QED  BY <1>0, <3>2, <3>3
    <2>4. CASE FrameShown
      <3>1. CASE client = "egl"
        <4>. UNCHANGED <<wire, live, lent>>
          BY <2>4, <3>1 DEF FrameShown
        <4>. QED  BY <1>0, ReturningSame, Accounted DEF BuffersAccounted, Unique, Released, Wire, EvAt, ArgAt
      <3>2. CASE client # "egl"
        <4>1. Event("done", 0) \in Events /\ Event("done", 0).ev = "done"
          BY DEF Event, Events
        <4>. QED  BY <1>0, <2>4, <3>2, <4>1, ReturningAppended DEF FrameShown
      <3>. QED  BY <3>1, <3>2
    <2>5. CASE HangUp
      <3>. UNCHANGED <<wire, live, lent>>
        BY <2>5 DEF HangUp
      <3>. QED  BY <1>0 DEF Returning, Released, Unique, Wire, EvAt, ArgAt
    <2>. QED  BY <1>2, <2>1, <2>2, <2>3, <2>4, <2>5 DEF Compositor
  <1>3. CASE Handle
    <2>1. CASE OnTopConfigure \/ OnSurfConfigure \/ OnClose \/ OnPing \/ OnSyncDone
      <3>1. PICK e \in {"top", "surf", "close", "ping", "sync"} : Takes(e)
        BY <2>1 DEF OnTopConfigure, OnSurfConfigure, OnClose, OnPing, OnSyncDone
      <3>2. UNCHANGED <<live, lent>>
        BY <2>1 DEF OnTopConfigure, OnSurfConfigure, Configured, OnClose, OnPing,
                    OnSyncDone
      <3>. QED  BY <1>0, <3>1, <3>2, ReturningTaken
    <2>2. CASE OnRelease
      <3>1. Takes("release") /\ live' = live \ {arg} /\ lent' = lent
        BY <2>2 DEF OnRelease, Discard
      <3>. QED  BY <1>0, <3>1, ReturningTaken
    <2>3. CASE OnFrameDone
      <3>1. Returning' = Returning /\ Unique'
        BY <1>0, <2>3, ReturningTaken DEF OnFrameDone
      <3>2. \/ UNCHANGED <<live, lent>>
            \/ \E b : b \notin live /\ live' = live \cup {b} /\ lent' = lent \cup {b}
        BY <2>3, RedrawAccounts DEF OnFrameDone
      <3>. QED  BY <1>0, <3>1, <3>2
    <2>. QED  BY <1>3, <2>1, <2>2, <2>3 DEF Handle
  <1>4. CASE MainStep
    <2>1. CASE Exit
      <3>1. wire' = <<>> /\ live' = {} /\ lent' = {}
        BY <2>1 DEF Exit
      <3>2. Returning' = {} /\ Unique'
        BY <3>1 DEF Returning, Released, Unique, Wire
      <3>. QED  BY <3>1, <3>2
    <2>2. CASE LookRedraws
      <3>1. wire' = wire
        BY <2>2 DEF LookRedraws
      <3>2. Returning' = Returning /\ Unique'
        BY <1>0, <3>1 DEF Returning, Released, Unique, Wire, EvAt, ArgAt
      <3>3. \/ UNCHANGED <<live, lent>>
            \/ \E b : b \notin live /\ live' = live \cup {b} /\ lent' = lent \cup {b}
        BY <2>2, RedrawAccounts DEF LookRedraws
      <3>. QED  BY <1>0, <3>2, <3>3
    <2>3. CASE UNCHANGED <<wire, live, lent>>
      BY <1>0, <2>3 DEF Returning, Released, Unique, Wire, EvAt, ArgAt
    <2>4. CASE \/ EglAttach \/ EglRenders \/ EglSwapReads \/ Signal
               \/ DestroyObject \/ UNCHANGED vars \/ Reads \/ Moves \/ EglSwaps
               \/ \E globals \in SUBSET Globals : CreateWindow(globals)
      <3>. UNCHANGED <<wire, live, lent>>
        BY <2>4 DEF EglAttach, EglRenders, EglSwapReads, Signal, DestroyObject, vars,
                    Reads, Moves, Goto, EglSwaps, Commit, CreateWindow
      <3>. QED  BY <2>3
    <2>. QED  BY <1>4, <2>1, <2>2, <2>4, MainKinds
  <1>5. CASE UNCHANGED vars
    <2>. UNCHANGED <<wire, live, lent>>
      BY <1>5 DEF vars
    <2>. QED  BY <1>0 DEF Returning, Released, Unique, Wire, EvAt, ArgAt
  <1>. QED  BY <1>2, <1>3, <1>4, <1>5, NextKinds

------------------------------------------------------------------------------
(* Phases *)

LEMMA PhaseStep ==
    ASSUME TypeInv, PhaseInv, [Next]_vars
    PROVE  PhaseInv'
  <1>. USE DEF PhaseInv, clientVars, shellVars, linkVars
  <1>1. CASE Compositor
    <2>1. /\ UNCHANGED <<setup, phase, pending, got, objects>>
          /\ phase \in {"start", "gone"} => UNCHANGED <<wire, sent>>
      BY <1>1 DEF Compositor, Serving, Configure, SyncReply, Ping, Close, Release,
                  FrameShown, HangUp
    <2>2. sent' = sent \/ phase # "start"
      BY <2>1
    <2>. QED  BY <2>1, <2>2 DEF client
  <1>2. CASE Handle
    <2>1. PICK e : Takes(e)
      BY <1>2 DEF Handle, OnTopConfigure, OnSurfConfigure, OnClose, OnPing, OnRelease,
                  OnFrameDone, OnSyncDone
    <2>2. Handles /\ setup' = setup
      BY <2>1, Taken
    <2>3. UNCHANGED <<phase, objects>> /\ (client # "egl" => pending' = pending)
      BY <1>2 DEF Handle, OnTopConfigure, OnSurfConfigure, OnClose, OnPing, OnRelease,
                  OnFrameDone, OnSyncDone
    <2>. QED  BY <2>2, <2>3 DEF Handles, client
  <1>3. CASE MainStep
    <2>1. CASE Exit
      BY <2>1 DEF Exit, client
    <2>2. CASE LookRedraws
      BY <2>2 DEF LookRedraws, client
    <2>3. CASE EglAttach
      BY <2>3 DEF EglAttach, client
    <2>4. CASE EglRenders
      BY <2>4 DEF EglRenders, client
    <2>5. CASE EglSwaps
      BY <2>5 DEF EglSwaps, Commit, client
    <2>6. CASE EglSwapReads
      BY <2>6 DEF EglSwapReads, client
    <2>7. CASE Signal
      BY <2>7 DEF Signal, client
    <2>8. CASE DestroyObject
      BY <2>8 DEF DestroyObject, client
    <2>9. CASE UNCHANGED vars
      BY <2>9 DEF vars, client
    <2>10. ASSUME NEW globals \in SUBSET Globals, CreateWindow(globals)
           PROVE  PhaseInv'
      BY <2>10 DEF CreateWindow, client, TypeInv, GreetTypeOK
    <2>11. CASE Reads
      BY <2>11 DEF Reads, client
    <2>12. CASE Moves
      BY <2>12 DEF Moves, Goto, client
    <2>. QED
      BY <1>3, <2>1, <2>2, <2>3, <2>4, <2>5, <2>6, <2>7, <2>8, <2>9, <2>10,
         <2>11, <2>12, MainKinds
  <1>4. CASE UNCHANGED vars
    BY <1>4 DEF vars, client
  <1>. QED  BY <1>1, <1>2, <1>3, <1>4, NextKinds

------------------------------------------------------------------------------
(* Configure sequences *)

Longer(e) ==
    /\ Len(wire') = Len(wire) + 1 /\ Len(wire) \in Nat
    /\ \A i \in 1..Len(wire) : wire'[i] = wire[i]
    /\ wire'[Len(wire) + 1] = e

\* An event that is no part of a configure sequence is sent.
Sends(e) ==
    /\ Longer(e) /\ e \in Events /\ e.ev \notin {"top", "surf"} /\ Serving
    /\ UNCHANGED <<setup, clientVars, got, objects, sent, acked, content, live,
                   current, pongs, up>>
    /\ \/ /\ e.ev = "sync" /\ sync = "asked" /\ (Late \/ sent # <<>>)
          /\ sync' = "replied" /\ UNCHANGED <<frames, lent, pings>>
       \/ /\ e.ev = "ping" /\ e.arg = pings + 1 /\ pings' = pings + 1
          /\ UNCHANGED <<sync, frames, lent>>
       \/ e.ev = "close" /\ UNCHANGED <<sync, frames, lent, pings>>
       \/ /\ e.ev = "release" /\ e.arg \in lent /\ lent' = lent \ {e.arg}
          /\ UNCHANGED <<sync, frames, pings>>
       \/ /\ e.ev = "done" /\ client # "egl" /\ frames > 0 /\ frames' = frames - 1
          /\ lent \subseteq {current} /\ UNCHANGED <<sync, lent, pings>>

LEMMA CompositorKinds ==
    ASSUME TypeInv, Compositor
    PROVE  \/ Configure \/ HangUp \/ (FrameShown /\ client = "egl")
           \/ \E e \in Events : Sends(e)
  <1>. USE DEF clientVars, shellVars, linkVars
  <1>0. wire \in Seq(Events) /\ Len(wire) \in Nat /\ pings \in Nat
    BY DEF TypeInv, GreetTypeOK
  <1>1. ASSUME NEW e \in Events, wire' = Append(wire, e)
        PROVE  Longer(e)
    BY <1>0, <1>1, Appended DEF Longer
  <1>2. CASE SyncReply
    <2>1. Event("sync", 0) \in Events /\ Event("sync", 0).ev = "sync"
      BY DEF Event, Events
    <2>2. Sends(Event("sync", 0))
      BY <1>1, <1>2, <2>1 DEF SyncReply, Sends
    <2>. QED  BY <2>1, <2>2
  <1>3. CASE Ping
    <2>1. /\ Event("ping", pings + 1) \in Events
          /\ Event("ping", pings + 1).ev = "ping"
          /\ Event("ping", pings + 1).arg = pings + 1
      BY <1>0 DEF Event, Events
    <2>2. Sends(Event("ping", pings + 1))
      BY <1>1, <1>3, <2>1 DEF Ping, Sends
    <2>. QED  BY <2>1, <2>2
  <1>4. CASE Close
    <2>1. Event("close", 0) \in Events /\ Event("close", 0).ev = "close"
      BY DEF Event, Events
    <2>2. Sends(Event("close", 0))
      BY <1>1, <1>4, <2>1 DEF Close, Sends
    <2>. QED  BY <2>1, <2>2
  <1>5. ASSUME NEW b \in Buffers, Release(b)
        PROVE  \E e \in Events : Sends(e)
    <2>1. /\ Event("release", b) \in Events /\ Event("release", b).ev = "release"
          /\ Event("release", b).arg = b
      BY GreetAssumption DEF Event, Events
    <2>2. Sends(Event("release", b))
      BY <1>1, <1>5, <2>1 DEF Release, Sends
    <2>. QED  BY <2>1, <2>2
  <1>6. CASE FrameShown /\ client # "egl"
    <2>1. Event("done", 0) \in Events /\ Event("done", 0).ev = "done"
      BY DEF Event, Events
    <2>2. wire' = Append(wire, Event("done", 0))
      BY <1>6 DEF FrameShown
    <2>3. Sends(Event("done", 0))
      BY <1>1, <1>6, <2>1, <2>2 DEF FrameShown, Sends
    <2>. QED  BY <2>1, <2>3
  <1>7. CASE FrameShown
    BY <1>6, <1>7
  <1>8. CASE Configure \/ HangUp
    BY <1>8
  <1>9. CASE \E b \in Buffers : Release(b)
    BY <1>5, <1>9
  <1>. QED  BY <1>2, <1>3, <1>4, <1>7, <1>8, <1>9 DEF Compositor

\* What a step of main may do to the wire.
LEMMA MainWire ==
    ASSUME TypeInv, MainStep
    PROVE  /\ wire' = wire \/ wire' = <<>>
           /\ got' = got \/ got' = Len(wire) \/ wire' = <<>>
           /\ UNCHANGED <<setup, sent, acked, pings, pongs, up>>
  BY MainKinds
  DEF Exit, LookRedraws, EglAttach, EglRenders, EglSwaps, Commit, EglSwapReads,
      Signal, DestroyObject, CreateWindow, Reads, Moves, Goto, vars, clientVars,
      shellVars, linkVars

\* The two invariants of configure sequences.
ConfigureInv == PairInv /\ SerialInv

\* Handling the first event moves every pair of events up by one place.
LEMMA ConfigureHandled ==
    ASSUME TypeInv, ConfigureInv, Handle
    PROVE  ConfigureInv'
  <1>. USE DEF clientVars, shellVars, linkVars
  <1>1. PICK e : /\ Takes(e) /\ sent' = sent
                 /\ e = "surf" => acked' = arg
                 /\ e # "surf" => acked' = acked
    BY DEF Handle, OnTopConfigure, OnSurfConfigure, OnClose, OnPing, OnRelease,
           OnFrameDone, OnSyncDone
  <1>2. /\ Len(wire) \in Nat /\ Len(wire) >= 1 /\ Len(wire') = Len(wire) - 1
        /\ \A i \in 1..Len(wire') : i + 1 \in Wire /\ wire'[i] = wire[i + 1]
        /\ EvAt(1) = e /\ arg = ArgAt(1) /\ 1 \in Wire
        /\ got \in Nat /\ got' = got - 1
    BY <1>1, Taken DEF TypeInv, GreetTypeOK, Wire
  <1>3. PairInv'
    <2>. SUFFICES ASSUME NEW i \in 1..Len(wire')
                  PROVE  /\ wire'[i].ev = "top" =>
                              /\ i < Len(wire') /\ wire'[i + 1].ev = "surf" /\ i # got'
                              /\ sent'[wire'[i + 1].arg] = wire'[i].arg
                         /\ wire'[i].ev = "surf" /\ i > 1 => wire'[i - 1].ev = "top"
      BY DEF PairInv, Wire, EvAt, ArgAt
    <2>1. i + 1 \in Wire /\ wire'[i] = wire[i + 1] /\ i \in Nat
      BY <1>2
    <2>2. ASSUME wire'[i].ev = "top"
          PROVE  /\ i < Len(wire') /\ wire'[i + 1].ev = "surf" /\ i # got'
                 /\ sent'[wire'[i + 1].arg] = wire'[i].arg
      <3>1. /\ i + 1 < Len(wire) /\ EvAt(i + 1 + 1) = "surf" /\ i + 1 # got
            /\ sent[ArgAt(i + 1 + 1)] = ArgAt(i + 1)
        BY <2>1, <2>2 DEF ConfigureInv, PairInv, EvAt, ArgAt
      <3>2. i + 1 \in 1..Len(wire')
        BY <1>2, <2>1, <3>1
      <3>. QED  BY <1>1, <1>2, <2>1, <3>1, <3>2 DEF EvAt, ArgAt
    <2>3. ASSUME wire'[i].ev = "surf", i > 1
          PROVE  wire'[i - 1].ev = "top"
      <3>1. EvAt(i + 1) = "surf" /\ i + 1 > 1
        BY <2>1, <2>3 DEF EvAt
      <3>2. EvAt((i + 1) - 1) = "top"
        BY <2>1, <3>1 DEF ConfigureInv, PairInv
      <3>3. i - 1 \in 1..Len(wire') /\ (i + 1) - 1 = (i - 1) + 1
        BY <2>1, <2>3
      <3>. QED  BY <1>2, <3>2, <3>3 DEF EvAt
    <2>. QED  BY <2>2, <2>3
  <1>4. SerialInv'
    <2>. SUFFICES ASSUME NEW i \in 1..Len(wire'), wire'[i].ev = "surf"
                  PROVE  /\ wire'[i].arg > acked'
                         /\ \A j \in 1..Len(wire') :
                              i < j /\ wire'[j].ev = "surf" => wire'[i].arg < wire'[j].arg
      BY DEF SerialInv, Wire, EvAt, ArgAt
    <2>1. i + 1 \in Wire /\ 1 < i + 1 /\ EvAt(i + 1) = "surf" /\ ArgAt(i + 1) = wire'[i].arg
      BY <1>2 DEF EvAt, ArgAt
    <2>2. wire'[i].arg > acked'
      BY <1>1, <1>2, <2>1 DEF ConfigureInv, SerialInv
    <2>3. ASSUME NEW j \in 1..Len(wire'), i < j, wire'[j].ev = "surf"
          PROVE  wire'[i].arg < wire'[j].arg
      <3>1. j + 1 \in Wire /\ i + 1 < j + 1 /\ EvAt(j + 1) = "surf"
            /\ ArgAt(j + 1) = wire'[j].arg
        BY <1>2, <2>3 DEF EvAt, ArgAt
      <3>. QED  BY <2>1, <3>1 DEF ConfigureInv, SerialInv
    <2>. QED  BY <2>2, <2>3
  <1>. QED  BY <1>3, <1>4 DEF ConfigureInv

LEMMA ConfigureSent ==
    ASSUME TypeInv, ConfigureInv, Compositor
    PROVE  ConfigureInv'
  <1>. USE DEF clientVars, shellVars, linkVars
  <1>0. /\ Len(wire) \in Nat /\ got \in 0..Len(wire) /\ Len(sent) \in Nat
        /\ acked \in 0..Len(sent)
    BY DEF TypeInv, GreetTypeOK
  <1>1. CASE Configure
    <2>1. PICK s \in Sizes \cup {0} :
             /\ Len(sent') = Len(sent) + 1
             /\ \A n \in 1..Len(sent) : sent'[n] = sent[n]
             /\ sent'[Len(sent) + 1] = s
             /\ Len(wire') = Len(wire) + 2
             /\ \A i \in 1..Len(wire) : wire'[i] = wire[i]
             /\ wire'[Len(wire) + 1] = Event("top", s)
             /\ wire'[Len(wire) + 2] = Event("surf", Len(sent) + 1)
      BY <1>1, Configures
    <2>2. UNCHANGED <<got, acked>>
      BY <1>1 DEF Configure
    <2>3. /\ wire'[Len(wire) + 1].ev = "top" /\ wire'[Len(wire) + 1].arg = s
          /\ wire'[Len(wire) + 2].ev = "surf" /\ wire'[Len(wire) + 2].arg = Len(sent) + 1
      BY <2>1 DEF Event
    <2>4. \A i \in 1..Len(wire') : i \in Wire \/ i = Len(wire) + 1 \/ i = Len(wire) + 2
      BY <1>0, <2>1 DEF Wire
    <2>5. PairInv'
      <3>. SUFFICES ASSUME NEW i \in 1..Len(wire')
                    PROVE  /\ wire'[i].ev = "top" =>
                                /\ i < Len(wire') /\ wire'[i + 1].ev = "surf" /\ i # got'
                                /\ sent'[wire'[i + 1].arg] = wire'[i].arg
                           /\ wire'[i].ev = "surf" /\ i > 1 => wire'[i - 1].ev = "top"
        BY DEF PairInv, Wire, EvAt, ArgAt
      <3>1. CASE i \in Wire
        <4>1. wire'[i] = wire[i] /\ i \in Nat /\ i <= Len(wire)
          BY <1>0, <2>1, <3>1 DEF Wire
        <4>2. ASSUME wire'[i].ev = "top"
              PROVE  /\ i < Len(wire') /\ wire'[i + 1].ev = "surf" /\ i # got'
                     /\ sent'[wire'[i + 1].arg] = wire'[i].arg
          <5>1. /\ i < Len(wire) /\ EvAt(i + 1) = "surf" /\ i # got
                /\ sent[ArgAt(i + 1)] = ArgAt(i)
            BY <3>1, <4>1, <4>2 DEF ConfigureInv, PairInv, EvAt, ArgAt
          <5>2. i + 1 \in Wire
            BY <1>0, <4>1, <5>1 DEF Wire
          <5>3. ArgAt(i + 1) \in 1..Len(sent) /\ wire'[i + 1] = wire[i + 1]
            BY <2>1, <5>1, <5>2 DEF TypeInv, WireInv, Wire
          <5>. QED  BY <1>0, <2>1, <2>2, <4>1, <5>1, <5>3 DEF EvAt, ArgAt
        <4>3. ASSUME wire'[i].ev = "surf", i > 1
              PROVE  wire'[i - 1].ev = "top"
          <5>1. EvAt(i - 1) = "top" /\ i - 1 \in Wire
            BY <1>0, <3>1, <4>1, <4>3 DEF ConfigureInv, PairInv, EvAt, Wire
          <5>. QED  BY <2>1, <5>1 DEF EvAt, Wire
        <4>. QED  BY <4>2, <4>3
      <3>2. CASE i = Len(wire) + 1
        BY <1>0, <2>1, <2>2, <2>3, <3>2
      <3>3. CASE i = Len(wire) + 2
        <4>1. i - 1 = Len(wire) + 1
          BY <1>0, <3>3
        <4>. QED  BY <2>3, <3>3, <4>1
      <3>. QED  BY <2>4, <3>1, <3>2, <3>3
    <2>6. SerialInv'
      <3>. SUFFICES ASSUME NEW i \in 1..Len(wire'), wire'[i].ev = "surf"
                    PROVE  /\ wire'[i].arg > acked'
                           /\ \A j \in 1..Len(wire') :
                                i < j /\ wire'[j].ev = "surf" => wire'[i].arg < wire'[j].arg
        BY DEF SerialInv, Wire, EvAt, ArgAt
      <3>1. \A k \in Wire : wire'[k] = wire[k]
        BY <2>1 DEF Wire
      <3>2. \A k \in Wire : EvAt(k) = "surf" => ArgAt(k) \in 1..Len(sent)
        BY DEF TypeInv, WireInv
      <3>3. CASE i \in Wire
        <4>1. EvAt(i) = "surf" /\ ArgAt(i) = wire'[i].arg
          BY <3>1, <3>3 DEF EvAt, ArgAt
        <4>2. wire'[i].arg > acked' /\ wire'[i].arg < Len(sent) + 1
          BY <1>0, <2>2, <3>2, <3>3, <4>1 DEF ConfigureInv, SerialInv
        <4>3. ASSUME NEW j \in 1..Len(wire'), i < j, wire'[j].ev = "surf"
              PROVE  wire'[i].arg < wire'[j].arg
          <5>1. CASE j \in Wire
            BY <3>1, <3>3, <4>1, <4>3, <5>1 DEF ConfigureInv, SerialInv, EvAt, ArgAt
          <5>2. CASE j = Len(wire) + 2
            BY <2>3, <4>2, <5>2
          <5>. QED  BY <2>3, <2>4, <4>3, <5>1, <5>2
        <4>. QED  BY <4>2, <4>3
      <3>4. CASE i = Len(wire) + 2
        BY <1>0, <2>1, <2>2, <2>3, <3>4
      <3>. QED  BY <2>3, <2>4, <3>3, <3>4
    <2>. QED  BY <2>5, <2>6 DEF ConfigureInv
  <1>2. ASSUME NEW e \in Events, Sends(e)
        PROVE  ConfigureInv'
    <2>1. /\ Len(wire') = Len(wire) + 1
          /\ \A i \in Wire : wire'[i] = wire[i]
          /\ wire'[Len(wire) + 1].ev \notin {"top", "surf"}
          /\ UNCHANGED <<got, sent, acked>>
      BY <1>2 DEF Sends, Longer, Wire
    <2>2. \A i \in 1..Len(wire') : i \in Wire \/ i = Len(wire) + 1
      BY <1>0, <2>1 DEF Wire
    <2>3. PairInv'
      <3>. SUFFICES ASSUME NEW i \in Wire
                    PROVE  /\ wire'[i].ev = "top" =>
                                /\ i < Len(wire') /\ wire'[i + 1].ev = "surf" /\ i # got'
                                /\ sent'[wire'[i + 1].arg] = wire'[i].arg
                           /\ wire'[i].ev = "surf" /\ i > 1 => wire'[i - 1].ev = "top"
        BY <2>1, <2>2 DEF PairInv, Wire, EvAt, ArgAt
      <3>1. wire'[i] = wire[i] /\ i \in Nat /\ i <= Len(wire)
        BY <1>0, <2>1 DEF Wire
      <3>2. i < Len(wire) => i + 1 \in Wire
        BY <1>0, <3>1 DEF Wire
      <3>3. i > 1 => i - 1 \in Wire
        BY <1>0, <3>1 DEF Wire
      <3>. QED  BY <1>0, <2>1, <3>1, <3>2, <3>3 DEF ConfigureInv, PairInv, EvAt, ArgAt
    <2>4. SerialInv'
      BY <2>1, <2>2 DEF ConfigureInv, SerialInv, Wire, EvAt, ArgAt
    <2>. QED  BY <2>3, <2>4 DEF ConfigureInv
  <1>3. CASE HangUp \/ (FrameShown /\ client = "egl")
    <2>. UNCHANGED <<wire, got, sent, acked>>
      BY <1>3 DEF HangUp, FrameShown
    <2>. QED  BY DEF ConfigureInv, PairInv, SerialInv, Wire, EvAt, ArgAt
  <1>. QED  BY <1>1, <1>2, <1>3, CompositorKinds

LEMMA ConfigureStep ==
    ASSUME TypeInv, ConfigureInv, [Next]_vars
    PROVE  ConfigureInv'
  <1>0. Len(wire) \in Nat
    BY DEF TypeInv, GreetTypeOK
  <1>1. CASE MainStep \/ UNCHANGED vars
    <2>1. UNCHANGED <<sent, acked>>
      BY <1>1, MainWire DEF vars, shellVars
    <2>2. CASE wire' = <<>>
      BY <2>2 DEF ConfigureInv, PairInv, SerialInv, Wire
    <2>3. CASE wire' = wire /\ (got' = got \/ got' = Len(wire))
      BY <1>0, <2>1, <2>3 DEF ConfigureInv, PairInv, SerialInv, Wire, EvAt, ArgAt
    <2>4. wire' = <<>> \/ (wire' = wire /\ (got' = got \/ got' = Len(wire)))
      BY <1>1, MainWire DEF vars
    <2>. QED  BY <2>2, <2>3, <2>4
  <1>. QED  BY <1>1, NextKinds, ConfigureHandled, ConfigureSent

------------------------------------------------------------------------------
(* The size that is drawn *)

LEMMA LoneIs ==
    ASSUME wire \in Seq(Events)
    PROVE  Lone <=> Len(wire) >= 1 /\ EvAt(1) = "surf"
  BY DEF Lone

LEMMA SettledSent ==
    ASSUME TypeInv, TypeInv', SettledInv, Compositor
    PROVE  SettledInv'
  <1>0. /\ wire \in Seq(Events) /\ wire' \in Seq(Events) /\ Len(wire) \in Nat
        /\ acked \in 0..Len(sent) /\ Len(sent) \in Nat
    BY DEF TypeInv, GreetTypeOK
  <1>1. UNCHANGED <<setup, phase, width, pending, got, acked>>
    BY DEF Compositor, Configure, SyncReply, Ping, Close, Release, FrameShown, HangUp,
           clientVars, shellVars, linkVars
  <1>2. Resized' = Resized /\ Handles' = Handles
    BY <1>1 DEF Resized, Handles, client
  <1>3. /\ Len(wire) >= 1 => Len(wire') >= 1 /\ wire'[1] = wire[1]
        /\ Len(wire) = 0 /\ Len(wire') >= 1 => wire'[1].ev # "surf"
        /\ \A n \in 1..Len(sent) : sent'[n] = sent[n]
    <2>1. CASE Configure
      <3>1. PICK s \in Sizes \cup {0} :
             /\ \A n \in 1..Len(sent) : sent'[n] = sent[n]
             /\ Len(wire') = Len(wire) + 2
             /\ \A i \in 1..Len(wire) : wire'[i] = wire[i]
             /\ wire'[Len(wire) + 1] = Event("top", s)
        BY <2>1, Configures
      <3>. QED  BY <1>0, <3>1 DEF Event
    <2>2. ASSUME NEW e \in Events, Sends(e)
          PROVE  /\ Len(wire) >= 1 => Len(wire') >= 1 /\ wire'[1] = wire[1]
                 /\ Len(wire) = 0 /\ Len(wire') >= 1 => wire'[1].ev # "surf"
                 /\ sent' = sent
      BY <2>2 DEF Sends, Longer
    <2>3. CASE HangUp \/ (FrameShown /\ client = "egl")
      BY <1>0, <2>3 DEF HangUp, FrameShown, shellVars
    <2>. QED  BY <2>1, <2>2, <2>3, CompositorKinds
  <1>4. Lone' <=> Lone
    <2>1. Lone' <=> Len(wire') >= 1 /\ wire'[1].ev = "surf"
      BY <1>0 DEF Lone, EvAt
    <2>. QED  BY <1>0, <1>3, <2>1, LoneIs DEF EvAt
  <1>5. Lone => ArgAt(1) \in 1..Len(sent) /\ ArgAt(1)' = ArgAt(1)
    <2>1. Lone => 1 \in Wire
      BY <1>0, LoneIs DEF Wire
    <2>. QED  BY <1>0, <1>3, <2>1, LoneIs DEF TypeInv, WireInv, ArgAt
  <1>6. acked = 0 \/ sent'[acked] = sent[acked]
    BY <1>0, <1>3
  <1>. QED  BY <1>1, <1>2, <1>3, <1>4, <1>5, <1>6 DEF SettledInv

LEMMA SettledHandled ==
    ASSUME TypeInv, TypeInv', PhaseInv, ConfigureInv, SettledInv, Handle
    PROVE  SettledInv'
  <1>. USE DEF clientVars, shellVars, linkVars
  <1>1. PICK e : Takes(e) /\ UNCHANGED <<phase, sent>>
                 /\ \/ e = "top" /\ OnTopConfigure
                    \/ e = "surf" /\ OnSurfConfigure
                    \/ e \notin {"top", "surf"} /\ UNCHANGED <<acked, width, pending>>
    BY DEF Handle, OnTopConfigure, OnSurfConfigure, OnClose, OnPing, OnRelease,
           OnFrameDone, OnSyncDone
  <1>2. /\ wire \in Seq(Events) /\ Len(wire) \in Nat /\ Len(wire) >= 1
        /\ wire' \in Seq(Events) /\ Len(wire') = Len(wire) - 1
        /\ \A i \in 1..Len(wire') : i + 1 \in Wire /\ wire'[i] = wire[i + 1]
        /\ EvAt(1) = e /\ arg = ArgAt(1) /\ 1 \in Wire
        /\ got \in Nat /\ got' = got - 1 /\ got > 0
        /\ setup' = setup /\ Handles
    BY <1>1, Taken DEF TypeInv, GreetTypeOK, Wire
  <1>3. phase # "swap" /\ phase' # "swap" /\ Handles'
    BY <1>1, <1>2 DEF Handles, client
  <1>4. Lone' <=> Len(wire) >= 2 /\ EvAt(2) = "surf"
    <2>1. Lone' <=> Len(wire') >= 1 /\ wire'[1].ev = "surf"
      BY <1>2 DEF Lone, EvAt
    <2>2. Len(wire') >= 1 => wire'[1] = wire[2] /\ Len(wire) >= 2
      BY <1>2
    <2>3. Len(wire) >= 2 => Len(wire') >= 1
      BY <1>2
    <2>. QED  BY <2>1, <2>2, <2>3 DEF EvAt
  <1>5. Len(wire) >= 2 /\ EvAt(2) = "surf" => e = "top"
    <2>1. Len(wire) >= 2 => 2 \in Wire /\ 2 - 1 = 1
      BY <1>2 DEF Wire
    <2>. QED  BY <1>2, <2>1 DEF ConfigureInv, PairInv
  <1>6. CASE e = "top" /\ OnTopConfigure
    <2>1. /\ Len(wire) >= 2 /\ EvAt(2) = "surf" /\ got # 1 /\ sent[ArgAt(2)] = arg
      BY <1>2, <1>6 DEF ConfigureInv, PairInv
    <2>2. Lone' /\ got' > 0
      BY <1>2, <1>4, <2>1
    <2>3. ArgAt(1)' = ArgAt(2)
      BY <1>2, <2>1 DEF ArgAt
    <2>4. arg \in Sizes \cup {0} /\ width \in Sizes
      BY <1>2, <1>6 DEF TypeInv, WireInv, GreetTypeOK
    <2>5. arg = 0 \/ Resized' = arg
      BY <1>6, <2>4, GreetAssumption DEF OnTopConfigure, Sized, Resized, PhaseInv
    <2>. QED  BY <1>1, <1>3, <2>1, <2>2, <2>3, <2>5 DEF SettledInv
  <1>7. CASE e = "surf" /\ OnSurfConfigure
    <2>1. Lone
      BY <1>2, <1>7, LoneIs
    <2>2. acked' = arg /\ Resized' = Resized
      BY <1>7 DEF OnSurfConfigure, Resized
    <2>3. ~Lone'
      BY <1>4, <1>5, <1>7
    <2>. QED  BY <1>1, <1>2, <1>3, <2>1, <2>2, <2>3 DEF SettledInv
  <1>8. CASE e \notin {"top", "surf"} /\ UNCHANGED <<acked, width, pending>>
    <2>1. ~Lone /\ ~Lone'
      BY <1>2, <1>4, <1>5, <1>8, LoneIs
    <2>2. Resized' = Resized
      BY <1>8 DEF Resized
    <2>. QED  BY <1>1, <1>3, <1>8, <2>1, <2>2 DEF SettledInv
  <1>. QED  BY <1>1, <1>6, <1>7, <1>8

LEMMA SettledMain ==
    ASSUME TypeInv, PhaseInv, SettledInv, MainStep
    PROVE  SettledInv'
  <1>. USE DEF clientVars, shellVars, linkVars
  <1>0. pending \in Nat /\ UNCHANGED <<setup, sent, acked>>
    BY MainWire, GreetAssumption DEF TypeInv, GreetTypeOK
  <1>1. CASE Exit /\ (got = 0 \/ ~Handles)
    <2>1. ~Lone /\ ~Lone' /\ phase' # "swap" /\ Resized' = Resized
      BY <1>1 DEF Exit, SettledInv, Lone, Resized
    <2>. QED  BY <1>0, <2>1 DEF SettledInv
  <1>2. CASE wire' = wire
    <2>1. Lone' = Lone /\ ArgAt(1)' = ArgAt(1)
      BY <1>2 DEF Lone, EvAt, ArgAt
    <2>2. Resized' = Resized /\ (Lone => got' > 0 /\ Handles')
          /\ (phase' = "swap" => width' = Resized)
      <3>0. Lone => got > 0 /\ Handles
        BY DEF SettledInv
      <3>1. CASE LookRedraws \/ EglSwaps \/ DestroyObject \/ Reads \/ EglSwapReads
        <4>1. ~Lone
          BY <3>0, <3>1 DEF LookRedraws, EglSwaps, DestroyObject, Reads, EglSwapReads,
                            Handles
        <4>2. UNCHANGED <<width, pending>> /\ (phase' = "swap" => phase = "swap")
          BY <3>1 DEF LookRedraws, EglSwaps, Commit, DestroyObject, Reads, EglSwapReads
        <4>. QED  BY <4>1, <4>2 DEF SettledInv, Resized
      <3>2. CASE EglAttach \/ EglRenders
        <4>1. ~Lone
          BY <3>0, <3>2 DEF EglAttach, EglRenders, Handles
        <4>2. width' = Resized /\ pending' = pending
          BY <3>2 DEF EglAttach, EglRenders, Resized
        <4>. QED  BY <4>1, <4>2 DEF Resized
      <3>3. CASE Signal \/ UNCHANGED vars
        <4>1. UNCHANGED <<setup, phase, width, pending, got>>
          BY <3>3 DEF Signal, vars
        <4>. QED  BY <4>1 DEF SettledInv, Resized, Handles, client
      <3>4. CASE Moves
        <4>1. ~Lone
          BY <3>0, <3>4 DEF Moves, Handles
        <4>2. UNCHANGED <<width, pending>> /\ phase' # "swap"
          BY <3>4 DEF Moves, Goto
        <4>. QED  BY <4>1, <4>2 DEF Resized
      <3>5. CASE \E globals \in SUBSET Globals : CreateWindow(globals)
        <4>1. ~Lone
          BY <3>0, <3>5 DEF CreateWindow, Handles
        <4>2. UNCHANGED <<width, pending>> /\ phase' # "swap"
          BY <3>5 DEF CreateWindow
        <4>. QED  BY <4>1, <4>2 DEF Resized
      <3>6. CASE Exit /\ (got = 0 \/ ~Handles)
        <4>1. ~Lone /\ phase' # "swap" /\ Resized' = Resized
          BY <3>0, <3>6 DEF Exit, Resized
        <4>. QED  BY <4>1
      <3>. QED  BY <3>1, <3>2, <3>3, <3>4, <3>5, <3>6, MainKinds
    <2>. QED  BY <1>0, <2>1, <2>2 DEF SettledInv
  <1>3. wire' = wire \/ (Exit /\ (got = 0 \/ ~Handles))
    BY MainKinds
    DEF LookRedraws, EglAttach, EglRenders, EglSwaps, Commit, EglSwapReads,
        Signal, DestroyObject, CreateWindow, Reads, Moves, Goto, vars
  <1>. QED  BY <1>1, <1>2, <1>3

LEMMA SettledStep ==
    ASSUME TypeInv, TypeInv', PhaseInv, ConfigureInv, SettledInv, [Next]_vars
    PROVE  SettledInv'
  <1>1. CASE UNCHANGED vars
    BY <1>1 DEF SettledInv, vars, clientVars, shellVars, Lone, EvAt, ArgAt, Resized,
                Handles, client
  <1>. QED  BY <1>1, NextKinds, SettledSent, SettledHandled, SettledMain

------------------------------------------------------------------------------
(* Frames *)

\* The compositor shows no frame that was not committed.
LEMMA FrameSent ==
    ASSUME TypeInv, PhaseInv, FrameInv, Compositor
    PROVE  FrameInv'
  <1>. USE DEF clientVars, shellVars, linkVars
  <1>0. Len(wire) \in Nat /\ frames \in Nat
    BY DEF TypeInv, GreetTypeOK
  <1>1. CASE Configure
    <2>1. PICK s \in Sizes \cup {0} :
             /\ Len(wire') = Len(wire) + 2
             /\ \A i \in 1..Len(wire) : wire'[i] = wire[i]
             /\ wire'[Len(wire) + 1] = Event("top", s)
             /\ wire'[Len(wire) + 2] = Event("surf", Len(sent) + 1)
      BY <1>1, Configures
    <2>2. \A i \in 1..Len(wire') : wire'[i].ev = "done" => i \in Wire /\ EvAt(i) = "done"
      BY <1>0, <2>1 DEF Event, Wire, EvAt
    <2>3. UNCHANGED <<setup, phase, redraw, acked, frames, live>>
      BY <1>1 DEF Configure
    <2>. QED  BY <2>2, <2>3 DEF FrameInv, Wire, EvAt, client
  <1>2. ASSUME NEW e \in Events, Sends(e)
        PROVE  FrameInv'
    <2>1. /\ Len(wire') = Len(wire) + 1
          /\ \A i \in Wire : wire'[i] = wire[i]
          /\ wire'[Len(wire) + 1] = e
          /\ UNCHANGED <<setup, phase, redraw, acked, live>>
      BY <1>2 DEF Sends, Longer, Wire
    <2>2. \A i \in 1..Len(wire') : i \in Wire \/ i = Len(wire) + 1
      BY <1>0, <2>1 DEF Wire
    <2>3. CASE e.ev # "done"
      <3>1. frames' = frames
        BY <1>2, <2>3 DEF Sends
      <3>2. \A i \in 1..Len(wire') : wire'[i].ev = "done" => i \in Wire /\ EvAt(i) = "done"
        BY <2>1, <2>2, <2>3 DEF EvAt
      <3>. QED  BY <2>1, <3>1, <3>2 DEF FrameInv, Wire, EvAt, client
    <2>4. CASE e.ev = "done"
      <3>1. client # "egl" /\ frames > 0 /\ frames' = frames - 1
        BY <1>2, <2>4 DEF Sends
      <3>2. frames = 1 /\ frames' = 0 /\ \A i \in Wire : EvAt(i) # "done"
        BY <1>0, <3>1 DEF FrameInv
      <3>3. \A i \in 1..Len(wire') : wire'[i].ev = "done" => i = Len(wire) + 1
        BY <2>1, <2>2, <3>2 DEF EvAt
      <3>4. acked > 0 /\ phase \notin {"start", "sync", "look"}
        BY <3>1, <3>2 DEF FrameInv
      <3>. QED  BY <2>1, <3>1, <3>2, <3>3, <3>4 DEF FrameInv, Wire, EvAt, client
    <2>. QED  BY <2>3, <2>4
  <1>3. CASE HangUp
    BY <1>3 DEF HangUp, FrameInv, Wire, EvAt, client
  <1>4. CASE FrameShown /\ client = "egl"
    <2>1. /\ wire' = wire /\ frames' = frames - 1 /\ frames > 0
          /\ UNCHANGED <<setup, phase, redraw, acked, live>>
      BY <1>4 DEF FrameShown
    <2>2. frames = 1 /\ frames' = 0
      BY <1>0, <2>1 DEF FrameInv
    <2>. QED  BY <2>1, <2>2 DEF FrameInv, Wire, EvAt, client
  <1>. QED  BY <1>1, <1>2, <1>3, <1>4, CompositorKinds

\* Drawing asks for one callback, or stops the client.
LEMMA RedrawFrames ==
    ASSUME Redraw
    PROVE  \/ frames' = frames /\ live' = live /\ lent' = lent /\ current' = current
           \/ /\ frames' = frames + 1 /\ current' \in Buffers
              /\ live' = live \cup {current'} /\ lent' = lent \cup {current'}
  <1>1. CASE UNCHANGED <<content, frames, live, lent, current>>
    BY <1>1
  <1>2. CASE ~(Buffers \subseteq live) /\ Commit(width, {NewBuffer})
               /\ current' = NewBuffer
    BY <1>2, NewIsNew DEF Commit
  <1>. QED  BY <1>1, <1>2 DEF Redraw

LEMMA FrameHandled ==
    ASSUME TypeInv, FrameInv, Handle
    PROVE  FrameInv'
  <1>. USE DEF clientVars, shellVars, linkVars
  <1>1. PICK e : Takes(e) /\ phase' = phase
                 /\ \/ e = "done" /\ OnFrameDone
                    \/ e = "surf" /\ OnSurfConfigure
                    \/ /\ e \notin {"done", "surf"} /\ live' \subseteq live
                       /\ UNCHANGED <<acked, redraw, frames>>
    BY DEF Handle, OnTopConfigure, OnSurfConfigure, OnClose, OnPing, OnRelease,
           OnFrameDone, OnSyncDone, Discard
  <1>2. /\ Len(wire) \in Nat /\ Len(wire) >= 1
        /\ Len(wire') = Len(wire) - 1
        /\ \A i \in 1..Len(wire') : i + 1 \in Wire /\ wire'[i] = wire[i + 1]
        /\ EvAt(1) = e /\ arg = ArgAt(1) /\ 1 \in Wire
        /\ setup' = setup
    <2>1. Takes(e)
      BY <1>1
    <2>2. wire \in Seq(Events) /\ Len(wire) \in Nat
      BY DEF TypeInv, GreetTypeOK
    <2>3. /\ Len(wire) >= 1 /\ Len(wire') = Len(wire) - 1
          /\ \A i \in 1..Len(wire') : i + 1 \in Wire /\ wire'[i] = wire[i + 1]
          /\ EvAt(1) = e /\ arg = ArgAt(1) /\ setup' = setup
      BY <2>1, Taken
    <2>. QED  BY <2>2, <2>3 DEF Wire
  <1>3. \A i \in 1..Len(wire') : wire'[i].ev = "done" => i + 1 \in Wire /\ EvAt(i + 1) = "done"
    BY <1>2 DEF EvAt
  <1>4. \A i, j \in 1..Len(wire') :
           wire'[i].ev = "done" /\ wire'[j].ev = "done" => i = j
    <2>. SUFFICES ASSUME NEW i \in 1..Len(wire'), NEW j \in 1..Len(wire'),
                         wire'[i].ev = "done", wire'[j].ev = "done"
                  PROVE  i = j
      OBVIOUS
    <2>1. i + 1 = j + 1
      BY <1>3 DEF FrameInv
    <2>. QED  BY <2>1
  <1>5. CASE e = "done" /\ OnFrameDone
    <2>1. frames = 0 /\ client # "egl" /\ acked > 0 /\ phase \notin {"sync", "look"}
      BY <1>2, <1>5 DEF FrameInv
    <2>2. \A i \in 1..Len(wire') : wire'[i].ev # "done"
      <3>. SUFFICES ASSUME NEW i \in 1..Len(wire'), wire'[i].ev = "done"
                    PROVE  FALSE
        OBVIOUS
      <3>1. i + 1 = 1
        BY <1>2, <1>3, <1>5 DEF FrameInv
      <3>. QED  BY <3>1
    <2>3. frames' \in {0, 1} /\ UNCHANGED <<acked, redraw>>
      BY <1>5, <2>1, RedrawFrames DEF OnFrameDone
    <2>4. phase # "start"
      BY <1>1, Taken DEF Handles
    <2>. QED  BY <1>1, <1>2, <2>1, <2>2, <2>3, <2>4 DEF FrameInv, Wire, EvAt, client
  <1>6. CASE e = "surf" /\ OnSurfConfigure
    <2>1. acked' = arg /\ UNCHANGED <<frames, live>>
      BY <1>6 DEF OnSurfConfigure, Configured
    <2>2. acked' \in Nat /\ acked' > 0
      BY <1>2, <1>6, <2>1 DEF TypeInv, WireInv, GreetTypeOK
    <2>. QED  BY <1>1, <1>2, <1>3, <1>4, <2>1, <2>2 DEF FrameInv, Wire, EvAt, client
  <1>7. CASE e \notin {"done", "surf"} /\ live' \subseteq live
             /\ UNCHANGED <<acked, redraw, frames>>
    BY <1>1, <1>2, <1>3, <1>4, <1>7 DEF FrameInv, Wire, EvAt, client
  <1>. QED  BY <1>1, <1>5, <1>6, <1>7

LEMMA FrameMain ==
    ASSUME TypeInv, PhaseInv, FrameInv, MainStep
    PROVE  FrameInv'
  <1>. USE DEF clientVars, shellVars, linkVars
  <1>0. UNCHANGED <<setup, acked>>
    BY MainWire
  <1>1. CASE Exit
    BY <1>0, <1>1 DEF Exit, FrameInv, Wire, EvAt, client
  <1>2. CASE LookRedraws
    <2>1. client # "egl" /\ redraw /\ phase = "look" /\ frames = 0 /\ acked > 0
          /\ wire' = wire /\ redraw' = FALSE /\ phase' = "loop"
      BY <1>2 DEF LookRedraws, FrameInv
    <2>2. \A i \in Wire : EvAt(i) # "done"
      BY <2>1 DEF FrameInv
    <2>3. frames' \in {0, 1}
      BY <1>2, <2>1, RedrawFrames DEF LookRedraws
    <2>. QED  BY <1>0, <2>1, <2>2, <2>3 DEF FrameInv, Wire, EvAt, client
  <1>3. CASE EglSwaps
    <2>1. client = "egl" /\ frames = 0 /\ frames' = 1 /\ wire' = wire /\ phase' = "loop"
          /\ redraw' = redraw
      BY <1>3 DEF EglSwaps, Commit, PhaseInv
    <2>. QED  BY <1>0, <2>1 DEF FrameInv, Wire, EvAt, client
  <1>4. CASE \E globals \in SUBSET Globals : CreateWindow(globals)
    <2>1. wire = <<>> /\ UNCHANGED <<wire, redraw, frames, live>> /\ phase = "start"
      BY <1>4 DEF CreateWindow, PhaseInv
    <2>. QED  BY <1>0, <2>1 DEF FrameInv, Wire, EvAt, client
  <1>5. CASE EglAttach \/ EglRenders \/ EglSwapReads \/ Signal \/ DestroyObject
             \/ UNCHANGED vars \/ Reads \/ Moves
    <2>1. UNCHANGED <<wire, redraw, frames, live>>
      BY <1>5 DEF EglAttach, EglRenders, EglSwapReads, Signal, DestroyObject, vars,
                  Reads, Moves, Goto
    <2>2. phase' \in {"sync", "look"} => phase \in {"sync", "look"}
      BY <1>5 DEF EglAttach, EglRenders, EglSwapReads, Signal, DestroyObject, vars,
                  Reads, Moves, Goto
    <2>3. phase' = "start" => phase = "start"
      BY <1>5 DEF EglAttach, EglRenders, EglSwapReads, Signal, DestroyObject, vars,
                  Reads, Moves, Goto
    <2>. QED  BY <1>0, <2>1, <2>2, <2>3 DEF FrameInv, Wire, EvAt, client
  <1>. QED  BY <1>1, <1>2, <1>3, <1>4, <1>5, MainKinds

LEMMA FrameStep ==
    ASSUME TypeInv, PhaseInv, FrameInv, [Next]_vars
    PROVE  FrameInv'
  <1>1. CASE UNCHANGED vars
    BY <1>1 DEF FrameInv, vars, clientVars, shellVars, Wire, EvAt, client
  <1>. QED  BY <1>1, NextKinds, FrameSent, FrameHandled, FrameMain

\* Two buffers are enough.
LEMMA NewestStep ==
    ASSUME TypeInv, BuffersAccounted, PhaseInv, FrameInv, NewestInv, [Next]_vars
    PROVE  NewestInv'
  <1>. USE DEF clientVars, shellVars, linkVars
  <1>0. /\ Len(wire) \in Nat /\ frames \in Nat /\ current \in Nat
        /\ Buffers \subseteq Nat
    BY GreetAssumption DEF TypeInv, GreetTypeOK
  <1>1. ASSUME live' \subseteq live, UNCHANGED current
        PROVE  \E b \in Nat : live' \subseteq {b, current'}
    BY <1>1 DEF NewestInv
  <1>2. CASE Handle
    <2>1. PICK e : Takes(e)
                   /\ \/ e = "done" /\ OnFrameDone
                      \/ e # "done" /\ live' \subseteq live /\ UNCHANGED <<lent, current>>
      BY <1>2 DEF Handle, OnTopConfigure, OnSurfConfigure, Configured, OnClose, OnPing,
                  OnRelease, OnFrameDone, OnSyncDone, Discard
    <2>2. /\ Len(wire) >= 1 /\ Len(wire') = Len(wire) - 1
          /\ \A i \in 1..Len(wire') : i + 1 \in Wire /\ wire'[i] = wire[i + 1]
          /\ EvAt(1) = e /\ 1 \in Wire
      BY <1>0, <2>1, Taken DEF Wire
    <2>3. CASE e = "done" /\ OnFrameDone
      <3>1. live \subseteq {current}
        <4>1. lent \subseteq {current}
              /\ \A j \in Wire : 1 < j /\ EvAt(j) = "release" => ArgAt(j) = current
          BY <2>2, <2>3 DEF NewestInv
        <4>2. \A j \in Wire : EvAt(j) = "release" => 1 < j
          BY <1>0, <2>2, <2>3 DEF Wire
        <4>. QED  BY <4>1, <4>2, Returns, Accounted
      <3>2. \A i \in 1..Len(wire') : wire'[i].ev # "done"
        <4>. SUFFICES ASSUME NEW i \in 1..Len(wire'), wire'[i].ev = "done"
                      PROVE  FALSE
          OBVIOUS
        <4>1. i + 1 \in Wire /\ EvAt(i + 1) = "done"
          BY <2>2 DEF EvAt
        <4>2. i + 1 = 1
          BY <2>2, <2>3, <4>1 DEF FrameInv
        <4>. QED  BY <4>2
      <3>3. live' \subseteq {current, current'}
        BY <2>3, <3>1, RedrawFrames DEF OnFrameDone
      <3>. QED  BY <1>0, <3>2, <3>3 DEF NewestInv, Wire, EvAt
    <2>4. CASE e # "done" /\ live' \subseteq live /\ UNCHANGED <<lent, current>>
      <3>1. ASSUME NEW i \in 1..Len(wire'), wire'[i].ev = "done"
            PROVE  /\ lent' \subseteq {current'}
                   /\ \A j \in 1..Len(wire') :
                        i < j /\ wire'[j].ev = "release" => wire'[j].arg = current'
        <4>1. i + 1 \in Wire /\ EvAt(i + 1) = "done"
          BY <2>2, <3>1 DEF EvAt
        <4>2. ASSUME NEW j \in 1..Len(wire'), i < j, wire'[j].ev = "release"
              PROVE  wire'[j].arg = current'
          <5>1. j + 1 \in Wire /\ i + 1 < j + 1 /\ EvAt(j + 1) = "release"
                /\ ArgAt(j + 1) = wire'[j].arg
            BY <2>2, <4>2 DEF EvAt, ArgAt
          <5>. QED  BY <2>4, <4>1, <5>1 DEF NewestInv
        <4>. QED  BY <2>4, <4>1, <4>2 DEF NewestInv
      <3>. QED  BY <1>1, <2>4, <3>1 DEF NewestInv, Wire, EvAt, ArgAt
    <2>. QED  BY <2>1, <2>3, <2>4
  <1>3. CASE Configure
    <2>1. PICK s \in Sizes \cup {0} :
             /\ Len(wire') = Len(wire) + 2
             /\ \A i \in 1..Len(wire) : wire'[i] = wire[i]
             /\ wire'[Len(wire) + 1] = Event("top", s)
             /\ wire'[Len(wire) + 2] = Event("surf", Len(sent) + 1)
      BY <1>3, Configures
    <2>2. \A i \in 1..Len(wire') : wire'[i].ev \in {"done", "release"} =>
              i \in Wire /\ wire'[i] = wire[i]
      BY <1>0, <2>1 DEF Event, Wire
    <2>3. UNCHANGED <<live, lent, current>>
      BY <1>3 DEF Configure
    <2>. QED  BY <2>2, <2>3 DEF NewestInv, Wire, EvAt, ArgAt
  <1>4. ASSUME NEW e \in Events, Sends(e)
        PROVE  NewestInv'
    <2>1. /\ Len(wire') = Len(wire) + 1
          /\ \A i \in Wire : wire'[i] = wire[i]
          /\ wire'[Len(wire) + 1] = e
          /\ UNCHANGED <<live, current>> /\ lent' \subseteq lent
      BY <1>4 DEF Sends, Longer, Wire
    <2>2. \A i \in 1..Len(wire') : i \in Wire \/ i = Len(wire) + 1
      BY <1>0, <2>1 DEF Wire
    <2>3. ASSUME NEW i \in 1..Len(wire'), wire'[i].ev = "done"
          PROVE  /\ lent' \subseteq {current'}
                 /\ \A j \in 1..Len(wire') :
                      i < j /\ wire'[j].ev = "release" => wire'[j].arg = current'
      <3>1. CASE i \in Wire
        <4>1. EvAt(i) = "done"
          BY <2>1, <2>3, <3>1 DEF EvAt
        <4>2. /\ lent \subseteq {current}
              /\ \A j \in Wire : i < j /\ EvAt(j) = "release" => ArgAt(j) = current
          BY <3>1, <4>1 DEF NewestInv
        <4>3. e.ev = "release" => e.arg = current
          BY <1>4, <4>2 DEF Sends
        <4>. QED  BY <2>1, <2>2, <4>2, <4>3 DEF EvAt, ArgAt
      <3>2. CASE i = Len(wire) + 1
        <4>1. e.ev = "done"
          BY <2>1, <2>3, <3>2
        <4>2. lent \subseteq {current}
          BY <1>4, <4>1 DEF Sends
        <4>3. \A j \in 1..Len(wire') : ~(i < j)
          BY <1>0, <2>1, <3>2
        <4>. QED  BY <2>1, <4>2, <4>3
      <3>. QED  BY <2>2, <3>1, <3>2
    <2>. QED  BY <1>1, <2>1, <2>3 DEF NewestInv, Wire, EvAt, ArgAt
  <1>5. CASE HangUp \/ (FrameShown /\ client = "egl")
    <2>. UNCHANGED <<wire, live, lent, current>>
      BY <1>5 DEF HangUp, FrameShown
    <2>. QED  BY DEF NewestInv, Wire, EvAt, ArgAt
  <1>6. CASE MainStep
    <2>1. CASE Exit
      BY <2>1 DEF Exit, NewestInv, Wire
    <2>2. CASE LookRedraws
      <3>1. wire' = wire /\ phase = "look" /\ live = {}
        BY <2>2 DEF LookRedraws, FrameInv
      <3>2. \A i \in Wire : EvAt(i) # "done"
        BY <3>1 DEF FrameInv
      <3>3. live' \subseteq {current, current'}
        BY <2>2, <3>1, RedrawFrames DEF LookRedraws
      <3>. QED  BY <1>0, <3>1, <3>2, <3>3 DEF NewestInv, Wire, EvAt
    <2>3. CASE EglSwaps \/ EglAttach \/ EglRenders \/ EglSwapReads \/ Signal
               \/ DestroyObject \/ UNCHANGED vars \/ Reads \/ Moves
               \/ (\E globals \in SUBSET Globals : CreateWindow(globals))
      <3>1. UNCHANGED <<wire, current>> /\ live' = live /\ lent' = lent
        BY <2>3 DEF EglSwaps, Commit, EglAttach, EglRenders, EglSwapReads, Signal,
                    DestroyObject, vars, Reads, Moves, Goto, CreateWindow
      <3>. QED  BY <3>1 DEF NewestInv, Wire, EvAt, ArgAt
    <2>. QED  BY <1>6, <2>1, <2>2, <2>3, MainKinds
  <1>7. CASE UNCHANGED vars
    BY <1>7 DEF vars, NewestInv, Wire, EvAt, ArgAt
  <1>. QED  BY <1>2, <1>3, <1>4, <1>5, <1>6, <1>7, NextKinds, CompositorKinds

------------------------------------------------------------------------------
(* The roundtrip, and pings *)

LEMMA SyncStep ==
    ASSUME TypeInv, PhaseInv, SyncInv, [Next]_vars
    PROVE  SyncInv'
  <1>. USE DEF clientVars, shellVars, linkVars
  <1>0. Len(wire) \in Nat /\ Len(sent) \in Nat /\ acked \in Nat
    BY DEF TypeInv, GreetTypeOK
  <1>1. CASE Handle
    <2>1. PICK e : /\ Takes(e) /\ UNCHANGED <<phase, sent, up>>
                   /\ acked' = IF e = "surf" THEN arg ELSE acked
                   /\ sync' = IF e = "sync" THEN "done" ELSE sync
      BY <1>1 DEF Handle, OnTopConfigure, OnSurfConfigure, OnClose, OnPing, OnRelease,
                  OnFrameDone, OnSyncDone
    <2>2. /\ Len(wire) >= 1 /\ Len(wire') = Len(wire) - 1
          /\ \A i \in 1..Len(wire') : i + 1 \in Wire /\ wire'[i] = wire[i + 1]
          /\ EvAt(1) = e /\ arg = ArgAt(1) /\ setup' = setup
      BY <2>1, Taken
    <2>3. 1 \in Wire
      BY <1>0, <2>2 DEF Wire
    <2>4. e = "surf" => acked' > 0
      BY <2>1, <2>2, <2>3 DEF TypeInv, WireInv
    <2>5. acked > 0 => acked' > 0
      BY <2>1, <2>4
    <2>6. ASSUME NEW j \in Wire, EvAt(j) = "surf", ~(acked' > 0)
          PROVE  j - 1 \in 1..Len(wire') /\ wire'[j - 1].ev = "surf"
      <3>1. j # 1
        BY <2>2, <2>4, <2>6
      <3>2. j - 1 \in 1..Len(wire') /\ (j - 1) + 1 = j
        BY <1>0, <2>2, <3>1 DEF Wire
      <3>3. wire'[j - 1] = wire[j]
        BY <2>2, <3>2
      <3>. QED  BY <2>6, <3>2, <3>3 DEF EvAt
    <2>7. Late' = Late /\ client' = client
      BY <2>2 DEF Late, client
    <2>. SUFFICES ASSUME ~Late, ~(acked' > 0)
                  PROVE  /\ \A i \in 1..Len(wire') : wire'[i].ev = "sync" =>
                              \E j \in 1..Len(wire') : j < i /\ wire'[j].ev = "surf"
                         /\ sync' # "done"
                         /\ sent' # <<>> /\ phase' # "gone" =>
                              \E j \in 1..Len(wire') : wire'[j].ev = "surf"
                         /\ ~(/\ client = "egl" /\ up'
                              /\ phase' \in {"look", "loop", "first", "second", "swap"})
      BY <2>7 DEF SyncInv, Wire, EvAt
    <2>8. ASSUME NEW i \in 1..Len(wire'), wire'[i].ev = "sync"
          PROVE  \E j \in 1..Len(wire') : j < i /\ wire'[j].ev = "surf"
      <3>1. i + 1 \in Wire /\ EvAt(i + 1) = "sync"
        BY <2>2, <2>8 DEF EvAt
      <3>2. PICK j \in Wire : j < i + 1 /\ EvAt(j) = "surf"
        BY <2>5, <3>1 DEF SyncInv
      <3>3. j - 1 \in 1..Len(wire') /\ wire'[j - 1].ev = "surf"
        BY <2>6, <3>2
      <3>4. j - 1 < i
        BY <3>2 DEF Wire
      <3>. QED  BY <3>3, <3>4
    <2>9. sync' # "done"
      <3>1. ASSUME e = "sync"
            PROVE  FALSE
        <4>1. PICK j \in Wire : j < 1 /\ EvAt(j) = "surf"
          BY <2>2, <2>3, <2>5, <3>1 DEF SyncInv
        <4>. QED  BY <4>1 DEF Wire
      <3>. QED  BY <2>1, <2>5, <3>1 DEF SyncInv
    <2>10. ASSUME sent' # <<>>, phase' # "gone"
           PROVE  \E j \in 1..Len(wire') : wire'[j].ev = "surf"
      <3>1. PICK j \in Wire : EvAt(j) = "surf"
        BY <2>1, <2>5, <2>10 DEF SyncInv
      <3>. QED  BY <2>6, <3>1
    <2>. QED  BY <2>1, <2>5, <2>8, <2>9, <2>10 DEF SyncInv
  <1>2. CASE Configure
    <2>1. PICK s \in Sizes \cup {0} :
             /\ Len(wire') = Len(wire) + 2
             /\ \A i \in 1..Len(wire) : wire'[i] = wire[i]
             /\ wire'[Len(wire) + 1] = Event("top", s)
             /\ wire'[Len(wire) + 2] = Event("surf", Len(sent) + 1)
      BY <1>2, Configures
    <2>2. /\ wire'[Len(wire) + 1].ev = "top" /\ wire'[Len(wire) + 2].ev = "surf"
          /\ Len(wire) + 2 \in 1..Len(wire')
      BY <1>0, <2>1 DEF Event
    <2>3. \A i \in 1..Len(wire') : wire'[i].ev = "sync" => i \in Wire
      BY <1>0, <2>1, <2>2 DEF Wire
    <2>4. \A i \in Wire : i \in 1..Len(wire') /\ wire'[i] = wire[i]
      BY <1>0, <2>1 DEF Wire
    <2>5. UNCHANGED <<setup, phase, sync, acked, up>>
      BY <1>2 DEF Configure
    <2>. QED  BY <2>2, <2>3, <2>4, <2>5 DEF SyncInv, Wire, EvAt, Late, client
  <1>3. ASSUME NEW e \in Events, Sends(e)
        PROVE  SyncInv'
    <2>1. /\ Len(wire') = Len(wire) + 1
          /\ \A i \in Wire : wire'[i] = wire[i]
          /\ wire'[Len(wire) + 1] = e
          /\ UNCHANGED <<setup, phase, sent, acked, up>>
          /\ phase # "gone"
          /\ e.ev = "sync" => (Late \/ sent # <<>>)
          /\ sync' = "done" => sync = "done"
      BY <1>3 DEF Sends, Longer, Serving, Wire
    <2>2. \A i \in 1..Len(wire') : i \in Wire \/ i = Len(wire) + 1
      BY <1>0, <2>1 DEF Wire
    <2>3. \A i \in Wire : i \in 1..Len(wire') /\ i < Len(wire) + 1
      BY <1>0, <2>1 DEF Wire
    <2>4. ASSUME ~Late, ~(acked > 0), NEW i \in 1..Len(wire'), wire'[i].ev = "sync"
          PROVE  \E j \in 1..Len(wire') : j < i /\ wire'[j].ev = "surf"
      <3>1. CASE i \in Wire
        <4>1. PICK j \in Wire : j < i /\ EvAt(j) = "surf"
          BY <2>1, <2>4, <3>1 DEF SyncInv, EvAt
        <4>. QED  BY <2>1, <2>3, <4>1 DEF EvAt
      <3>2. CASE i = Len(wire) + 1
        <4>1. PICK j \in Wire : EvAt(j) = "surf"
          BY <2>1, <2>4, <3>2 DEF SyncInv
        <4>. QED  BY <2>1, <2>3, <3>2, <4>1 DEF EvAt
      <3>. QED  BY <2>2, <3>1, <3>2
    <2>5. ASSUME ~Late, ~(acked > 0), sent # <<>>
          PROVE  \E j \in 1..Len(wire') : wire'[j].ev = "surf"
      <3>1. PICK j \in Wire : EvAt(j) = "surf"
        BY <2>1, <2>5 DEF SyncInv
      <3>. QED  BY <2>1, <2>3, <3>1 DEF EvAt
    <2>. QED  BY <2>1, <2>4, <2>5 DEF SyncInv, Wire, EvAt, Late, client
  <1>4. CASE HangUp \/ (FrameShown /\ client = "egl")
    <2>. UNCHANGED <<setup, phase, sync, wire, sent, acked>> /\ (up' => up)
      BY <1>4 DEF HangUp, FrameShown
    <2>. QED  BY DEF SyncInv, Wire, EvAt, Late, client
  <1>5. CASE MainStep
    <2>0. UNCHANGED <<setup, sent, acked, up>>
      BY <1>5, MainWire
    <2>1. CASE Exit
      BY <2>0, <2>1 DEF Exit, SyncInv, Wire, Late, client
    <2>2. CASE \E globals \in SUBSET Globals : CreateWindow(globals)
      <3>. wire' = <<>> /\ sent = <<>> /\ phase' = "sync" /\ sync' = "asked"
        BY <2>2 DEF CreateWindow, PhaseInv
      <3>. QED  BY <2>0 DEF SyncInv, Wire, Late, client
    <2>3. CASE Moves \/ Reads \/ LookRedraws \/ EglAttach \/ EglRenders \/ EglSwaps
               \/ EglSwapReads \/ Signal \/ DestroyObject \/ UNCHANGED vars
      <3>1. UNCHANGED <<wire, sync>>
        BY <2>3 DEF Moves, Goto, Reads, LookRedraws, EglAttach, EglRenders, EglSwaps,
                    Commit, EglSwapReads, Signal, DestroyObject, vars
      <3>2. client = "egl" /\ up
            /\ phase' \in {"look", "loop", "first", "second", "swap"} =>
              phase \in {"look", "loop", "first", "second", "swap"} \/ sync = "done"
        BY <2>3 DEF Moves, Goto, Reads, LookRedraws, EglAttach, EglRenders, EglSwaps,
                    Commit, EglSwapReads, Signal, DestroyObject, vars
      <3>3. phase = "gone" => phase' = "gone"
        BY <2>3 DEF Moves, Goto, Reads, LookRedraws, EglAttach, EglRenders, EglSwaps,
                    Commit, EglSwapReads, Signal, DestroyObject, vars
      <3>. QED  BY <2>0, <3>1, <3>2, <3>3 DEF SyncInv, Wire, EvAt, Late, client
    <2>. QED  BY <1>5, <2>1, <2>2, <2>3, MainKinds
  <1>6. CASE UNCHANGED vars
    BY <1>6 DEF vars, SyncInv, Wire, EvAt, Late, client
  <1>. QED  BY <1>1, <1>2, <1>3, <1>4, <1>5, <1>6, NextKinds, CompositorKinds

LEMMA PingStep ==
    ASSUME TypeInv, PingInv, [Next]_vars
    PROVE  PingInv'
  <1>. USE DEF clientVars, shellVars, linkVars
  <1>0. Len(wire) \in Nat /\ pings \in Nat /\ pongs \in Nat
    BY DEF TypeInv, GreetTypeOK
  <1>1. CASE Handle
    <2>1. PICK e : /\ Takes(e) /\ pings' = pings
                   /\ pongs' = IF e = "ping" THEN pongs + 1 ELSE pongs
      BY <1>1 DEF Handle, OnTopConfigure, OnSurfConfigure, OnClose, OnPing, OnRelease,
                  OnFrameDone, OnSyncDone
    <2>2. /\ Len(wire) >= 1
          /\ \A i \in 1..Len(wire') : i + 1 \in Wire /\ wire'[i] = wire[i + 1]
          /\ EvAt(1) = e
      BY <2>1, Taken
    <2>3. 1 \in Wire
      BY <1>0, <2>2 DEF Wire
    <2>4. e = "ping" => ArgAt(1) \in pongs + 1 .. pings
      BY <2>2, <2>3 DEF PingInv
    <2>5. pongs' <= pings'
      BY <1>0, <2>1, <2>4 DEF PingInv
    <2>6. ASSUME NEW i \in 1..Len(wire'), wire'[i].ev = "ping"
          PROVE  /\ wire'[i].arg \in pongs' + 1 .. pings'
                 /\ \A j \in 1..Len(wire') :
                      i < j /\ wire'[j].ev = "ping" => wire'[i].arg < wire'[j].arg
      <3>1. /\ i + 1 \in Wire /\ EvAt(i + 1) = "ping" /\ ArgAt(i + 1) = wire'[i].arg
            /\ 1 < i + 1
        BY <2>2, <2>6 DEF EvAt, ArgAt
      <3>2. ArgAt(i + 1) \in pongs + 1 .. pings
        BY <3>1 DEF PingInv
      <3>3. e = "ping" => ArgAt(1) < ArgAt(i + 1)
        BY <2>2, <2>3, <3>1 DEF PingInv
      <3>4. wire'[i].arg \in pongs' + 1 .. pings'
        BY <1>0, <2>1, <2>4, <3>1, <3>2, <3>3
      <3>5. ASSUME NEW j \in 1..Len(wire'), i < j, wire'[j].ev = "ping"
            PROVE  wire'[i].arg < wire'[j].arg
        <4>1. /\ j + 1 \in Wire /\ EvAt(j + 1) = "ping" /\ ArgAt(j + 1) = wire'[j].arg
              /\ i + 1 < j + 1
          BY <2>2, <3>5 DEF EvAt, ArgAt
        <4>. QED  BY <3>1, <4>1 DEF PingInv
      <3>. QED  BY <3>4, <3>5
    <2>. QED  BY <2>5, <2>6 DEF PingInv, Wire, EvAt, ArgAt
  <1>2. CASE Configure
    <2>1. PICK s \in Sizes \cup {0} :
             /\ Len(wire') = Len(wire) + 2
             /\ \A i \in 1..Len(wire) : wire'[i] = wire[i]
             /\ wire'[Len(wire) + 1] = Event("top", s)
             /\ wire'[Len(wire) + 2] = Event("surf", Len(sent) + 1)
      BY <1>2, Configures
    <2>2. \A i \in 1..Len(wire') : wire'[i].ev = "ping" => i \in Wire /\ wire'[i] = wire[i]
      BY <1>0, <2>1 DEF Event, Wire
    <2>3. UNCHANGED <<pings, pongs>>
      BY <1>2 DEF Configure
    <2>. QED  BY <2>2, <2>3 DEF PingInv, Wire, EvAt, ArgAt
  <1>3. ASSUME NEW e \in Events, Sends(e)
        PROVE  PingInv'
    <2>1. /\ Len(wire') = Len(wire) + 1
          /\ \A i \in Wire : wire'[i] = wire[i]
          /\ wire'[Len(wire) + 1] = e /\ pongs' = pongs
      BY <1>3 DEF Sends, Longer, Wire
    <2>2. \A i \in 1..Len(wire') : i \in Wire \/ i = Len(wire) + 1
      BY <1>0, <2>1 DEF Wire
    <2>3. CASE e.ev # "ping"
      <3>1. pings' = pings
        BY <1>3, <2>3 DEF Sends
      <3>. QED  BY <2>1, <2>2, <2>3, <3>1 DEF PingInv, Wire, EvAt, ArgAt
    <2>4. CASE e.ev = "ping"
      <3>1. e.arg = pings + 1 /\ pings' = pings + 1
        BY <1>3, <2>4 DEF Sends
      <3>2. ASSUME NEW i \in 1..Len(wire'), wire'[i].ev = "ping"
            PROVE  /\ wire'[i].arg \in pongs' + 1 .. pings'
                   /\ \A j \in 1..Len(wire') :
                        i < j /\ wire'[j].ev = "ping" => wire'[i].arg < wire'[j].arg
        <4>1. CASE i \in Wire
          <5>1. wire'[i].arg \in pongs + 1 .. pings
            BY <2>1, <3>2, <4>1 DEF PingInv, EvAt, ArgAt
          <5>2. ASSUME NEW j \in 1..Len(wire'), i < j, wire'[j].ev = "ping"
                PROVE  wire'[i].arg < wire'[j].arg
            <6>1. CASE j \in Wire
              BY <2>1, <3>2, <4>1, <5>2, <6>1 DEF PingInv, EvAt, ArgAt
            <6>2. CASE j = Len(wire) + 1
              BY <1>0, <2>1, <3>1, <5>1, <6>2
            <6>. QED  BY <2>2, <6>1, <6>2
          <5>. QED  BY <1>0, <2>1, <3>1, <5>1, <5>2
        <4>2. CASE i = Len(wire) + 1
          <5>1. \A j \in 1..Len(wire') : ~(i < j)
            BY <1>0, <2>1, <4>2
          <5>. QED  BY <1>0, <2>1, <3>1, <4>2, <5>1 DEF PingInv
        <4>. QED  BY <2>2, <4>1, <4>2
      <3>3. pongs' <= pings'
        BY <1>0, <2>1, <3>1 DEF PingInv
      <3>. QED  BY <3>2, <3>3 DEF PingInv, Wire, EvAt, ArgAt
    <2>. QED  BY <2>3, <2>4
  <1>4. CASE HangUp \/ (FrameShown /\ client = "egl")
    <2>. UNCHANGED <<wire, pings, pongs>>
      BY <1>4 DEF HangUp, FrameShown
    <2>. QED  BY DEF PingInv, Wire, EvAt, ArgAt
  <1>5. CASE MainStep \/ UNCHANGED vars
    <2>1. UNCHANGED <<pings, pongs>> /\ (wire' = wire \/ wire' = <<>>)
      BY <1>5, MainWire DEF vars
    <2>2. CASE wire' = <<>>
      BY <2>1, <2>2 DEF PingInv, Wire
    <2>3. CASE wire' = wire
      BY <2>1, <2>3 DEF PingInv, Wire, EvAt, ArgAt
    <2>. QED  BY <2>1, <2>2, <2>3
  <1>. QED  BY <1>1, <1>2, <1>3, <1>4, <1>5, NextKinds, CompositorKinds

------------------------------------------------------------------------------
(* The invariant, and what follows from it *)

GreetInv ==
    /\ TypeInv /\ BuffersAccounted /\ PhaseInv /\ ConfigureInv /\ SettledInv
    /\ FrameInv /\ NewestInv /\ SyncInv /\ PingInv

LEMMA GreetInitial == Init => GreetInv
  <1>. SUFFICES ASSUME Init
                PROVE  GreetInv
    OBVIOUS
  <1>1. wire = <<>> /\ Len(wire) = 0 /\ Wire = {} /\ Returning = {}
    BY DEF Init, Wire, Returning, Released
  <1>2. GreetTypeOK
    <2>1. wire \in Seq(Events) /\ got \in 0..Len(wire)
      BY <1>1 DEF Init
    <2>2. sent \in Seq(Sizes \cup {0}) /\ acked \in 0..Len(sent)
      BY DEF Init
    <2>3. width \in Sizes /\ pending \in Sizes \cup {0} /\ content \in Sizes \cup {0}
      BY GreetAssumption DEF Init
    <2>4. /\ objects \subseteq Window /\ live \subseteq Buffers /\ lent \subseteq live
          /\ current \in Buffers \cup {0}
      BY DEF Init
    <2>. QED  BY <2>1, <2>2, <2>3, <2>4 DEF Init, GreetTypeOK, Phases
  <1>6. TypeInv /\ BuffersAccounted
    BY <1>1, <1>2 DEF Init, TypeInv, WireInv, BuffersAccounted, Released
  <1>3. PhaseInv /\ ConfigureInv /\ PingInv
    BY <1>1 DEF Init, PhaseInv, ConfigureInv, PairInv, SerialInv, PingInv
  <1>4. SettledInv
    BY <1>1 DEF Init, SettledInv, Lone
  <1>5. FrameInv /\ NewestInv /\ SyncInv
    BY <1>1 DEF Init, FrameInv, NewestInv, SyncInv
  <1>. QED  BY <1>3, <1>4, <1>5, <1>6 DEF GreetInv

\* The inductive invariant of the clients, the wire and the compositor.
THEOREM GreetInvariant == Spec => []GreetInv
  <1>1. GreetInv /\ [Next]_vars => GreetInv'
    <2>. SUFFICES ASSUME GreetInv, [Next]_vars
                  PROVE  GreetInv'
      OBVIOUS
    <2>. USE DEF GreetInv
    <2>1. TypeInv'
      BY TypeStep
    <2>2. BuffersAccounted' /\ PhaseInv' /\ ConfigureInv'
      BY AccountedStep, PhaseStep, ConfigureStep
    <2>3. SettledInv'
      BY <2>1, SettledStep
    <2>4. FrameInv' /\ NewestInv' /\ SyncInv' /\ PingInv'
      BY FrameStep, NewestStep, SyncStep, PingStep
    <2>. QED  BY <2>1, <2>2, <2>3, <2>4
  <1>. QED  BY <1>1, GreetInitial, PTL DEF Spec

\* The variables keep their types.
THEOREM GreetTypes == Spec => []GreetTypeOK
  <1>1. GreetInv => GreetTypeOK
    BY DEF GreetInv, TypeInv
  <1>. QED  BY <1>1, GreetInvariant, PTL

\* No buffer is lost and none is destroyed while the compositor uses it.
THEOREM BuffersAreAccounted == Spec => []BuffersAccounted
  <1>1. GreetInv => BuffersAccounted
    BY DEF GreetInv
  <1>. QED  BY <1>1, GreetInvariant, PTL

\* However many frames are drawn, two buffers are in existence at most.
THEOREM BuffersStayBounded == Spec => []BuffersBounded
  <1>1. GreetInv => BuffersBounded
    <2>. SUFFICES ASSUME GreetInv
                  PROVE  Cardinality(live) <= 2
      BY DEF BuffersBounded
    <2>1. PICK b \in Nat : live \subseteq {b, current}
      BY DEF GreetInv, NewestInv
    <2>2. IsFiniteSet({b}) /\ Cardinality({b}) = 1
      BY FS_Singleton
    <2>3. IsFiniteSet({b} \cup {current})
          /\ Cardinality({b} \cup {current}) =
                IF current \in {b} THEN Cardinality({b}) ELSE Cardinality({b}) + 1
      BY <2>2, FS_AddElement
    <2>4. Cardinality({b} \cup {current}) <= 2
      BY <2>2, <2>3
    <2>5. live \subseteq {b} \cup {current}
      BY <2>1
    <2>6. /\ IsFiniteSet(live)
          /\ Cardinality(live) <= Cardinality({b} \cup {current})
      BY <2>3, <2>5, FS_Subset
    <2>7. Cardinality(live) \in Nat /\ Cardinality({b} \cup {current}) \in Nat
      BY <2>3, <2>6, FS_CardinalityType
    <2>. QED  BY <2>4, <2>6, <2>7
  <1>. QED  BY <1>1, GreetInvariant, PTL

------------------------------------------------------------------------------
(* XdgShell *)

\* The compositor of an EGL client sends the first configure before it
\* answers the roundtrip.
OnTime == \A s \in Setups : s.client = "egl" => ~s.late

\* What is committed is what the acknowledged configure asks for.
LEMMA Presents ==
    ASSUME GreetInv, NEW own \in {{}} \cup {{b} : b \in Buffers},
           objects = Window, frames = 0, acked > 0, ~Lone, width = Resized,
           own \cap live = {}, Commit(width, own), UNCHANGED <<objects, sent, acked, pings, pongs>>
    PROVE  Shell!ShellNext
  <1>1. width \in Sizes /\ acked \in 1..Len(sent) /\ sent[acked] \in {0, width}
    BY DEF GreetInv, SettledInv, TypeInv, GreetTypeOK
  <1>2. frames' > 0 /\ ~(frames > 0)
    BY DEF Commit
  <1>3. (frames' > 0) = TRUE
    BY <1>2, Zenon
  <1>4. Shell!Present(width, own)
    BY <1>1, <1>2, <1>3 DEF Shell!Present, Shell!Window, Window, Commit, Shell!pingVars
  <1>. QED  BY <1>1, <1>4 DEF Shell!ShellNext

\* Drawing presents a buffer, or is no step of the shell's.
LEMMA RedrawPresents ==
    ASSUME GreetInv, Redraw, objects = Window, frames = 0, acked > 0, ~Lone,
           width = Resized, UNCHANGED <<objects, sent, acked, pings, pongs>>
    PROVE  Shell!ShellNext \/ UNCHANGED <<content, frames, live, lent>>
  <1>1. CASE ~(Buffers \subseteq live) /\ Commit(width, {NewBuffer})
    <2>1. NewBuffer \in Buffers /\ NewBuffer \notin live
      BY <1>1, NewIsNew
    <2>2. {NewBuffer} \in {{}} \cup {{b} : b \in Buffers} /\ {NewBuffer} \cap live = {}
      BY <2>1
    <2>. QED  BY <1>1, <2>2, Presents
  <1>. QED  BY <1>1 DEF Redraw

\* Nothing the shell knows of changes.
ShellIdle ==
    UNCHANGED <<objects, sent, acked, content, frames, live, lent, pings, pongs>>

LEMMA IdleStutters ==
    ASSUME ShellIdle
    PROVE  UNCHANGED Shell!shellVars
  BY DEF ShellIdle, Shell!shellVars

LEMMA CompositorObeys ==
    ASSUME GreetInv, Compositor
    PROVE  Shell!ShellNext \/ ShellIdle
  <1>. USE DEF clientVars, shellVars, linkVars
  <1>0. frames \in {0, 1} /\ lent \subseteq Buffers
    BY DEF GreetInv, FrameInv, TypeInv, GreetTypeOK
  <1>1. CASE Configure
    <2>1. PICK s \in Sizes \cup {0} : sent' = Append(sent, s)
      BY <1>1 DEF Configure
    <2>2. (frames' > 0) = (frames > 0)
      BY <1>1 DEF Configure
    <2>3. Shell!SendConfigure(s)
      BY <1>1, <2>1, <2>2 DEF Configure, Shell!SendConfigure, Shell!pingVars
    <2>. QED  BY <2>3 DEF Shell!ShellNext
  <1>2. CASE SyncReply \/ Close \/ HangUp
    BY <1>2 DEF SyncReply, Close, HangUp, ShellIdle
  <1>3. CASE Ping
    <2>1. (frames' > 0) = (frames > 0)
      BY <1>3 DEF Ping
    <2>2. Shell!Ping
      BY <1>3, <2>1 DEF Ping, Shell!Ping
    <2>. QED  BY <2>2 DEF Shell!ShellNext
  <1>4. ASSUME NEW b \in Buffers, Release(b)
        PROVE  Shell!ShellNext
    <2>1. (frames' > 0) = (frames > 0)
      BY <1>4 DEF Release
    <2>2. Shell!ReturnBuffer(b)
      BY <1>4, <2>1 DEF Release, Shell!ReturnBuffer, Shell!pingVars
    <2>. QED  BY <2>2 DEF Shell!ShellNext
  <1>5. CASE FrameShown
    <2>1. frames > 0 /\ frames' = 0
      BY <1>0, <1>5 DEF FrameShown
    <2>2. ~(frames' > 0)
      BY <2>1
    <2>3. (frames' > 0) = FALSE
      BY <2>2, SMT
    <2>4. Shell!FrameShown
      BY <1>5, <2>1, <2>3 DEF FrameShown, Shell!FrameShown, Shell!pingVars
    <2>. QED  BY <2>4 DEF Shell!ShellNext
  <1>6. CASE \E b \in Buffers : Release(b)
    BY <1>4, <1>6
  <1>. QED  BY <1>1, <1>2, <1>3, <1>5, <1>6 DEF Compositor

LEMMA HandlerObeys ==
    ASSUME GreetInv, Handle
    PROVE  Shell!ShellNext \/ ShellIdle
  <1>. USE DEF clientVars, shellVars, linkVars
  <1>0. TypeInv /\ PhaseInv /\ ConfigureInv /\ FrameInv /\ SettledInv /\ PingInv
    BY DEF GreetInv
  <1>1. ASSUME NEW e, Takes(e)
        PROVE  /\ 1 \in Wire /\ EvAt(1) = e /\ arg = ArgAt(1) /\ Handles
               /\ objects = Window /\ (Lone => e = "surf")
    <2>1. EvAt(1) = e /\ arg = ArgAt(1) /\ Handles /\ Len(wire) >= 1 /\ Len(wire) \in Nat
      BY <1>0, <1>1, Taken DEF TypeInv, GreetTypeOK
    <2>2. 1 \in Wire
      BY <2>1 DEF Wire
    <2>3. objects = Window
      BY <1>0, <2>1 DEF Handles, PhaseInv
    <2>. QED  BY <2>1, <2>2, <2>3 DEF Lone
  <1>2. CASE OnSurfConfigure
    <2>1. arg \in 1..Len(sent) /\ acked < arg /\ "xdg_surface" \in objects
      BY <1>0, <1>1, <1>2
      DEF OnSurfConfigure, TypeInv, WireInv, GreetTypeOK, ConfigureInv, SerialInv, Window
    <2>2. (frames' > 0) = (frames > 0)
      BY <1>2 DEF OnSurfConfigure, Configured
    <2>3. Shell!AckConfigure(arg)
      BY <1>2, <2>1, <2>2
      DEF OnSurfConfigure, Configured, Shell!AckConfigure, Shell!pingVars
    <2>. QED  BY <2>1, <2>3 DEF Shell!ShellNext
  <1>3. CASE OnPing
    <2>1. pongs < pings
      BY <1>0, <1>1, <1>3 DEF OnPing, PingInv, TypeInv, GreetTypeOK
    <2>2. (frames' > 0) = (frames > 0)
      BY <1>3 DEF OnPing
    <2>3. Shell!Pong
      BY <1>3, <2>1, <2>2 DEF OnPing, Shell!Pong
    <2>. QED  BY <2>3 DEF Shell!ShellNext
  <1>4. CASE OnRelease
    <2>1. arg \in Returning /\ arg \in Buffers
      BY <1>0, <1>1, <1>4, Returns DEF OnRelease, TypeInv, WireInv
    <2>2. arg \in live \ lent
      BY <2>1, Accounted DEF GreetInv
    <2>3. (frames' > 0) = (frames > 0)
      BY <1>4 DEF OnRelease
    <2>4. Shell!DestroyBuffer(arg)
      BY <1>4, <2>2, <2>3 DEF OnRelease, Discard, Shell!DestroyBuffer, Shell!pingVars
    <2>. QED  BY <2>1, <2>4 DEF Shell!ShellNext
  <1>5. CASE OnFrameDone
    <2>1. frames = 0 /\ acked > 0 /\ objects = Window /\ ~Lone /\ client # "egl"
      BY <1>0, <1>1, <1>5 DEF OnFrameDone, FrameInv
    <2>2. width = Resized
      BY <1>0, <2>1 DEF PhaseInv, Resized
    <2>3. Shell!ShellNext \/ UNCHANGED <<content, frames, live, lent>>
      BY <1>5, <2>1, <2>2, RedrawPresents DEF OnFrameDone
    <2>. QED  BY <1>5, <2>3 DEF OnFrameDone, ShellIdle
  <1>6. CASE OnTopConfigure \/ OnClose \/ OnSyncDone
    BY <1>6 DEF OnTopConfigure, OnClose, OnSyncDone, ShellIdle
  <1>. QED  BY <1>2, <1>3, <1>4, <1>5, <1>6 DEF Handle

LEMMA MainObeys ==
    ASSUME OnTime, GreetInv, MainStep
    PROVE  Shell!ShellNext \/ ShellIdle
  <1>. USE DEF clientVars, shellVars, linkVars
  <1>0. TypeInv /\ PhaseInv /\ FrameInv /\ SettledInv /\ SyncInv
    BY DEF GreetInv
  <1>1. CASE Exit
    <2>1. ~(frames' > 0)
      BY <1>1 DEF Exit
    <2>2. (frames' > 0) = FALSE
      BY <2>1, SMT
    <2>3. Shell!Disconnect
      BY <1>1, <2>2 DEF Exit, Shell!Disconnect, Shell!pingVars
    <2>. QED  BY <2>3 DEF Shell!ShellNext
  <1>2. CASE LookRedraws
    <2>1. /\ phase = "look" /\ client # "egl" /\ redraw /\ Redraw
          /\ UNCHANGED <<objects, sent, acked, pings, pongs>>
      BY <1>2 DEF LookRedraws
    <2>2. objects = Window /\ frames = 0 /\ acked > 0 /\ width = Resized
      BY <1>0, <2>1 DEF PhaseInv, FrameInv, Resized
    <2>3. ~Lone
      BY <1>0, <2>1 DEF SettledInv, Handles
    <2>. QED  BY <2>1, <2>2, <2>3, RedrawPresents DEF ShellIdle
  <1>3. CASE EglSwaps
    <2>1. /\ phase = "swap" /\ up /\ frames = 0 /\ Commit(width, {})
          /\ UNCHANGED <<objects, sent, acked, pings, pongs>>
      BY <1>3 DEF EglSwaps
    <2>2. client = "egl" /\ objects = Window
      BY <1>0, <2>1 DEF PhaseInv
    <2>3. ~Late
      BY <1>0, <2>2 DEF OnTime, client, Late, TypeInv, GreetTypeOK
    <2>4. acked > 0
      BY <1>0, <2>1, <2>2, <2>3 DEF SyncInv
    <2>5. width = Resized /\ ~Lone
      BY <1>0, <2>1 DEF SettledInv, Handles
    <2>. QED  BY <2>1, <2>2, <2>4, <2>5, Presents
  <1>4. CASE \E globals \in SUBSET Globals : CreateWindow(globals)
    <2>1. objects = {} /\ objects' = Window /\ frames' = frames
          /\ UNCHANGED <<sent, acked, content, live, lent, pings, pongs>>
      BY <1>0, <1>4 DEF CreateWindow, PhaseInv
    <2>2. Shell!CreateWindow
      BY <2>1 DEF Shell!CreateWindow, Shell!Window, Window, Shell!pingVars
    <2>. QED  BY <2>2 DEF Shell!ShellNext
  <1>5. CASE DestroyObject
    <2>1. PICK o \in objects : Topmost(o) /\ objects' = objects \ {o}
      BY <1>5 DEF DestroyObject
    <2>2. frames' = frames /\ UNCHANGED <<sent, acked, content, live, lent, pings, pongs>>
      BY <1>5 DEF DestroyObject
    <2>3. o \in Window
      BY <1>0, <2>1 DEF TypeInv, GreetTypeOK
    <2>4. Shell!OnTopOf(o) \cap objects = {}
      <3>1. CASE o = "wl_surface"
        BY <2>1, <3>1 DEF Topmost, Shell!OnTopOf
      <3>2. CASE o = "xdg_surface"
        BY <2>1, <3>2 DEF Topmost, Shell!OnTopOf
      <3>3. CASE o = "xdg_toplevel"
        BY <3>3 DEF Shell!OnTopOf
      <3>. QED  BY <2>3, <3>1, <3>2, <3>3 DEF Window
    <2>5. Shell!DestroyObject(o)
      BY <2>1, <2>2, <2>4 DEF Shell!DestroyObject, Shell!pingVars
    <2>. QED  BY <2>3, <2>5 DEF Shell!ShellNext, Shell!Window, Window
  <1>6. CASE EglAttach \/ EglRenders \/ EglSwapReads \/ Signal \/ UNCHANGED vars
             \/ Reads \/ Moves
    BY <1>6 DEF EglAttach, EglRenders, EglSwapReads, Signal, vars, Reads, Moves, Goto,
                ShellIdle
  <1>. QED  BY <1>1, <1>2, <1>3, <1>4, <1>5, <1>6, MainKinds

\* With compositors that configure in time, every behaviour of the three
\* clients is one that XdgShell allows.
THEOREM ShellIsObeyed ==
    ASSUME OnTime
    PROVE  Spec => KeepsToXdgShell
  <1>1. Init => Shell!ShellInit
    <2>. SUFFICES ASSUME Init
                  PROVE  Shell!ShellInit
      OBVIOUS
    <2>1. ~(frames > 0)
      BY DEF Init
    <2>2. (frames > 0) = FALSE
      BY <2>1, SMT
    <2>. QED  BY <2>2 DEF Init, Shell!ShellInit
  <1>2. GreetInv /\ [Next]_vars => [Shell!ShellNext]_(Shell!shellVars)
    <2>. SUFFICES ASSUME GreetInv, [Next]_vars
                  PROVE  Shell!ShellNext \/ UNCHANGED Shell!shellVars
      OBVIOUS
    <2>1. CASE UNCHANGED vars
      BY <2>1, IdleStutters DEF vars, shellVars, linkVars, ShellIdle
    <2>. QED
      BY <2>1, NextKinds, CompositorObeys, HandlerObeys, MainObeys, IdleStutters
  <1>. QED
    BY <1>1, <1>2, GreetInvariant, PTL DEF Spec, KeepsToXdgShell, Shell!ShellSpec
\* The compositor of an EGL client does not die.
Steady == \A s \in Setups : s.client = "egl" => ~s.faults

\* Only a compositor with faults hangs up.
UpInv == up \/ setup.faults

LEMMA UpNext == UpInv /\ [Next]_vars => UpInv'
  <1>. SUFFICES ASSUME UpInv, [Next]_vars
                PROVE  UpInv'
    OBVIOUS
  <1>. USE DEF UpInv, clientVars, shellVars, linkVars
  <1>1. CASE Compositor
    BY <1>1 DEF Compositor, Configure, SyncReply, Ping, Close, Release, FrameShown,
                HangUp
  <1>2. CASE Handle
    BY <1>2 DEF Handle, OnTopConfigure, OnSurfConfigure, OnClose, OnPing, OnRelease,
                OnFrameDone, OnSyncDone, Takes
  <1>3. CASE MainStep
    BY <1>3, MainKinds DEF Exit, LookRedraws, EglAttach, EglRenders, EglSwaps,
       EglSwapReads, Signal, DestroyObject, CreateWindow, Reads, Moves, Goto, vars
  <1>. QED  BY <1>1, <1>2, <1>3, NextKinds DEF vars

\* With a compositor that configures in time and stays, one roundtrip is enough:
\* the EGL surface is attached after the first configure, as the comment says.
THEOREM AttachedAfterConfigure ==
    ASSUME OnTime, Steady
    PROVE  Spec => []SurfaceAfterConfigure
  <1>1. Init => UpInv
    BY DEF Init, UpInv
  <1>2. GreetInv /\ UpInv => SurfaceAfterConfigure
    <2>. SUFFICES ASSUME GreetInv, UpInv, client = "egl",
                         phase \in {"first", "second", "swap"}
                  PROVE  acked > 0
      BY DEF SurfaceAfterConfigure
    <2>1. ~Late /\ up
      BY DEF OnTime, Steady, UpInv, GreetInv, TypeInv, GreetTypeOK, client, Late
    <2>. QED  BY <2>1 DEF GreetInv, SyncInv
  <1>. QED  BY <1>1, <1>2, UpNext, GreetInvariant, PTL DEF Spec
===============================================================================
