# Neo-Embedded-Linux: TLA+ models, checks and proofs

The repository is a learning log for embedded Linux: character drivers and
their clients, I/O multiplexing, Wayland and EGL clients, and notes. This
directory holds TLA+ models of its programs, the TLC configurations that check
them, and TLAPS proofs. Paths below are relative to the repository.

    tlc -config AdvIoTransfer.cfg MCAdvIo      # check one run
    tlapm AdvIoFifoProofs.tla                  # check a module of proofs

## Inventory

| part | state | operations | interacts by |
|---|---|---|---|
| `prj/03-Advanced-IO/src` driver `/dev/adv_io` | ring, head, tail, count; two wait queues; fasync list; open count; delayed work | open, release, fasync, read, write, read_iter, write_iter, poll; `adv_io_producer` every 500 ms; init, exit | `ring_lock`, wake-ups, SIGIO, timer |
| `prj/03-Advanced-IO/test` clients | descriptor; `g_count` | blocking, non-blocking, polling, signal-driven and AIO reads | system calls; SIGIO handler against `pause()` |
| `prj/04-muxIO` | two pipes; two message counters | child writes at two periods; parent selects, polls or epolls | pipes, end of file, SIGPIPE, `wait` |
| `prj/02_mmap_drv` | one reserved page, a process-shared mutex in it | mmap, ioctl DUMP; writer and reader loops | shared memory, mutex |
| `prj/01_hello_drv` | one 1 KiB buffer | read, write; init, exit | system calls |
| `prj/05-GraphStack/tspi-greet`, `tspi-greet-rs`, `tspi-greet-egl` (events) | Wayland objects, current size, `needs_redraw`, shared-memory buffers, pending size | registry, configure, close, ping, frame, release callbacks; redraw; roundtrips and loops | Wayland events and requests; signals |
| `prj/05-GraphStack/tspi-greet-egl` (GPU), `gtk4-rs-vibe` | EGL and GL objects | set-up, draw, teardown; realize, unrealize | EGL, GL, GTK callbacks |
| `sdk/issue/formatter.py` | stacks of font, margin, spacing | a copy of a module Python removed | calls |
| demonstrations in `note/` | - | pipes, signals, fork, exec | kernel |

What is hard: in the driver, wake-ups and signals sent outside the lock and only
on one edge, waits that are interrupted, chunked transfers that fail half-way,
files closed while subscribed; in the clients, a handler between any two steps;
in muxIO, end of file on one of two sources and a scheduler that delays either
process; in the graphics clients, the order of configure, frame and release
events, and set-up that fails half-way. `PROJECT.json` lists these hazards at
their lines.

What makes each part correct: the driver is a FIFO of bytes whose calls report
what they moved, nobody sleeps over an event that is not announced, and a
drained subscriber is signalled; the SIGIO client gets its events and ends;
muxIO ends, is not killed and prints what was sent; init undoes what it did and
exit stops the work item; the shared page is read in whole rounds; a Wayland
client draws only configured surfaces, keeps the buffers the compositor uses,
shows the last size and ends when told; GL objects are freed once.

## Modules

| module | models |
|---|---|
| `ByteFifo` | what the ring promises: one bounded FIFO of bytes, without slots, locks, queues or signals; only a faulting read loses bytes, and the producer skips a number only when it is full |
| `AdvIo` | the driver: `adv_io_dev.c`, `adv_io_fops.c`, and the state `adv_io_init` leaves |
| `AdvIoProofs` | types, wake-ups, results, subscribers and pollers of `AdvIo`, proved |
| `AdvIoFifoProofs` | `AdvIo` implements `ByteFifo`, proved |
| `MCAdvIo` | payloads and programs for TLC |
| `SigioClient` | `test/test_fasync.c` composed with `AdvIo` |
| `MCSigioClient` | its instance |
| `SigioClientProofs` | the client is one of the driver's processes; its invariant and its counting, proved |
| `MuxIo` | `prj/04-muxIO/src/main.c` |
| `MuxIoProofs` | types, the child's survival, the drained pipes and the bound on the steps of `MuxIo`, proved |
| `DriverLifecycle` | `insmod`, `rmmod` and open files of `hello_drv`, `mmap_drv`, `adv_io` |
| `DriverLifecycleProofs` | its inductive invariant and safety, proved |
| `MmapIpc` | `prj/02_mmap_drv/app` composed with `DriverLifecycle` |
| `MmapIpcProofs` | it refines `DriverLifecycle`; mutex, page and the bound on its steps, proved |
| `XdgShell` | what a client of xdg-shell may do: no client, no wire, only the rules |
| `Greet` | the three Wayland clients, each against a compositor |
| `GreetProofs` | `Greet` implements `XdgShell`, its buffers are accounted for and bounded, proved |
| `MCGreet` | clients and compositors for TLC |
| `GlResources` | EGL and GL objects of `tspi-greet-egl` and `gtk4-rs-vibe` |
| `GlResourcesProofs` | its inductive invariant and safety, proved |

### AdvIo

A step of the model is what the code does atomically: a section under
`ring_lock` (with the copying into or out of the call's `tmp`), one
`wake_up_interruptible`, one `kill_fasync`, one look at a wait condition. The
variable `pc[u]` says between which two of these process `u` is.

| code | actions |
|---|---|
| `adv_io_producer` | `Produce`, then, when the ring was empty, `ProducerWake`, `ProducerKill`; the last one re-arms the timer |
| `adv_io_open`, `adv_io_fasync`, `adv_io_release` | `Open`, `SetAsync`, `Release` and `ReleaseCount` |
| `adv_io_do_read`, `adv_io_read_iter` | `Read`, `Pop`, `ReadWait`, `ReadCheck`, `ReadWoken`, `CopyOut` or `CopyOutFaults`, `KillOut` |
| `adv_io_do_write`, `adv_io_write_iter` | `Write`, `CopyIn` or `CopyInFaults`, `Push`, `WriteWait`, `WriteCheck`, `WriteWoken`, `WakeIn`, `KillIn` |
| `adv_io_poll` under poll(2) | `Poll`, `PollMask`, `PollWoken`, `PollTimeout`, `PollLast` |
| the kernel | `Interrupt` (another signal), `Handle` (a pending signal is delivered in user mode) |

The plain and the `_iter` handlers share actions: a plain call is cut to
`RING_SIZE` on entry and returns after its first chunk, an `_iter` call loops.
`Produce` joins the increment of the static counter, which only the work item
touches, with its locked section, and re-arming with the step before it. A
copy that faults is taken to fault as a whole: what a partial copy leaves in the
user's buffer is not state of the driver. `u8 seq` counts modulo `SeqMod`. A
wait is modelled as `wait_event_interruptible` is: test, enqueue, test again,
look for a signal, sleep; the unlocked `READ_ONCE(d->count)` is a separate step.
In `ReadWait` and `WriteWait` the first test may also fail although it would
succeed: the process then enqueues and tests again, as it does when it looks a
moment earlier.

### SigioClient

The main program is `open`, `subscribe`, `test`, `sleep`, `pause`, `close`,
`done`; the handler runs between any two of its steps and blocks SIGIO while it
runs. The test of `g_count` and the call of `pause()` are two steps, as in the
code.

### MuxIo

Pipes are counted in messages of four bytes, a read takes up to `BufMsgs`
messages. The child reads the clock once per turn of its loop; the scheduler
may delay it by up to `MaxDelay`. The three modes differ in the order in which
ready pipes are handled. Failure of `pipe`, `fork` or `epoll_create1` is not
modelled.

### DriverLifecycle

The three `init` functions are tables of calls: the resource a call takes and
the label its failure jumps to. `InitCall`, `InitFails`, `InitFailsUnseen` and
`UndoCall` walk them, `Rmmod` and `ExitCall` walk the exit functions. A failing
`device_create` is not looked at by `hello_drv` and `mmap_drv` (`Unwatched`).
The other side of `cancel_delayed_work_sync` is the work item: `TimerFires`,
`ProducerEnds` (which re-arms unless it is being cancelled), and `CancelWork`
before the `ExitCall` that waits. The kernel's part is external: an open file or
a mapping pins the module (`Unreferenced`), a file of a driver still in init may
be opened once its node exists.

### MmapIpc

| code | actions |
|---|---|
| `main` up to `fork` | `Run`, `MapPage`, `InitShared`, `ForkChild`; `mmap` and `fork` may fail |
| the parent's loop, ioctl, `waitpid`, cleanup | `ParentLocks`, `ParentWritesSeq`, `ParentWritesMsg`, `ParentUnlocks`, `Dump`, `Reap`, `ParentUnmaps`, `ParentCloses` |
| the child | `ChildLocks`, `ChildReadsSeq`, `ChildReadsMsg`, `ChildUnlocks`, `ChildUnmaps`, `ChildCloses` |
| `sleep`, `usleep`, the scheduler | `Tick`: time passes while no process is later than `MaxLag` |

The sequence number and the text of a round are two variables, written and read
in two steps. `Dump` reads both in one step: the page has only one writer, the
parent, which is the one that calls the ioctl. The application's descriptors and mappings are those of
`DriverLifecycle`; when another driver is loaded its files are used at will.

### Greet and XdgShell

Events travel on `wire` in order; `got` tells how many of them the client has
read. Nothing else is looked at until all that was read is handled, as in
`wl_display_dispatch`. Requests reach the compositor at once: the client never
waits between two of them, and what the compositor has sent before it sees them
is on the wire already.

| code | actions |
|---|---|
| listeners | `OnTopConfigure`, `OnSurfConfigure`, `OnClose`, `OnPing`, `OnRelease`, `OnFrameDone`, `OnSyncDone` |
| `redraw` | `Redraw`: a buffer is made and committed with its frame callback, or cannot be made and the client is to stop |
| `main`: registry, window, second roundtrip | `CreateWindow` or `NoWindow`, `ReadForSync`, `SyncOver` or `SyncPanics` |
| `main` of C and Rust | `LookRedraws` or `LookSkips`, `Dispatch`, `DispatchFails`, `Stopped` |
| `main` of the EGL client | `EglAttach` or `EglAttachFails`, `EglIterates`, `EglReads`, `EglRenders`, `EglSwaps`, `EglSwapReads`, `EglSwapBroken`, `EglSwapFails`, `Signal` |
| teardown | `DestroyObject`, `Disconnect` |

The client in Rust differs from the one in C where the roundtrip fails (it
panics) and at the end (dropping the connection). The EGL client has no buffers
of its own: its library owns them and the frame callback, on a queue of its own.
The compositor (`Configure`, `SyncReply`, `Ping`, `Close`, `Release`,
`FrameShown`, `HangUp`) is external: it sends what the protocol allows. It gives
back the buffers before the one shown no later than it shows that one; the bound
of two buffers rests on that, and with a compositor that keeps them longer there
is one more for every frame.

`Greet` is shown to implement `XdgShell`, the rules for the window and its
buffers, with `framing` for `frames > 0`.

### GlResources

One step is one object made: compile, link, geometry, each of which may fail as
GL lets it. Both programs run the same places; they differ in what a failing step
leaves behind. `Realize` and `Unrealized` are GTK's: the area may be realized any
number of times, each time with a new context whose names may be those of the
old one. The EGL client, when `render_init` fails, leaves its objects to the end of
its process, and `NothingLeft` does not speak of them. `EglTeardown` takes the EGL things in the order `main` lists them.

## Runs

| run | shows | bounds |
|---|---|---|
| `adv_io_transfer` | types; results tell the bytes moved; a step that leaves a writer asleep over free slots is a faulting read; `AdvIo` implements `ByteFifo` | one reader, one writer, both may fault, the writer gets signals; ring of 2, requests up to 3 (more than the ring: several chunks, partial chunks), bytes modulo 2 |
| `adv_io_wait` | no reader, writer or poller sleeps over an event nobody announces; no closed file stays subscribed; a drained subscriber is told | three processes, one of which gets other signals; ring of 2, requests of 1 |
| `adv_io_live` | sleepers wake, the sole reader's calls return, POLLIN is true for it, a drained subscriber is signalled | one reader, one writer, under fairness |
| `adv_io_fault` | violation: a faulting read leaves a writer asleep over free slots | one reader that may fault, one writer |
| `sigio_client` | after its first event, or once it waits on an empty ring, the client's events keep coming up to the target; the count exceeds it by one at most | ring of 2, three events |
| `sigio_hang` | violation: the client may sleep for ever after its last event | same |
| `mux_io` | the program ends in every mode, writes do not kill the child; the pipe whose end was seen is drained; every step brings the end nearer | periods 2 and 3, limit 13, delays up to 4 |
| `mux_loss` | violation: messages of the second pipe are lost at the end | same |
| `mmap_ipc` | failed inits undo exactly what they did, exit waits for the work item, nothing is used after it is freed; rounds are whole, the child reads none before the first, the unlocked dump is the last round; every step of the application brings its end nearer; unloading and the application end | all three drivers, both processes; 5 rounds, periods 5 and 3 (500 and 300 ms), lateness up to 2 |
| `greet` | types; buffers are neither lost nor freed early, and never more than two; the clients keep to `XdgShell`; they show the last size, answer pings and end | three clients; two configures without faults; one configure and one ping with a compositor that may die; C with a late first configure; two sizes, three buffers |
| `greet_first_configure` | violation: the EGL client attaches its surface before the first configure | the EGL client, one configure that may be late |
| `gl_resources` | no name outlives its object, nothing stays behind, EGL goes from the top | four names |

The bounds are small but every case of the code happens within them: a ring of
two bytes is empty, partly full and full, wraps, and cannot hold a request of
three; one producer value more than the ring tells bytes apart; two readers
compete for one byte; delays of four units in `MuxIo` exceed both periods, so
that reads coalesce messages and fill the buffer. In `MmapIpc` a lateness of two
lets the child's first read come with the parent's first write delayed, and
five rounds are the code's. In `Greet` two configures are what it takes for one
to arrive while a frame is due and while the one before is still on the wire;
three buffers are one more than the clients ever hold, so that the bound never
hides one. In `GlResources` four names are enough for every object to have one
and for a deleted one to be given out again.

Mutants in the modules, next to the definition they change, are the plausible
mistakes that each property catches.

### Findings

* `adv_io_fault`: the `-EFAULT` return of `adv_io_do_read` skips the wake-up of
  writers for slots already freed (`adv_io_fops.c:74`).
* `sigio_hang`: test-then-`pause()` loses the last signal (`test_fasync.c:52`).
* `mux_loss`: leaving the loop at the first end of file loses what is unread in
  the other pipe (`main.c:59`, `86`, `119`).
* `greet_first_configure`: `tspi-greet-egl` takes one roundtrip for the first
  configure, which its comment (`main.c:184`) requires; a compositor that answers
  first sees a buffer on an unconfigured surface (`main.c:276`).

Three weaknesses are in the models, and the properties name them as the cases
they leave out:

* `test_fasync.c` sets `O_ASYNC` (line 49) on a ring that may hold
  data since `insmod`; only the edge from empty is signalled, so it waits for ever
  (`EventsKeepComing`).
* `hello_drv` and `mmap_drv` do not look at the result of `device_create` (`mmap_drv`
  even reports its node as created, `driver_main.c:46`); exit destroys it unmade
  (`UndoIsExact`, `LoadedIsComplete`).
* `tspi-greet`, and its form in Rust, look at `needs_redraw` once, after one roundtrip
  that is to wait for the first configure (`main.c:278`, `280`); a later one is
  acknowledged and never drawn (`LatestSizeShown`).

### Fairness

`AdvIo!FairSpec` assumes that the delayed work runs whenever it is due (the
kernel's timer and workqueue) and that a process inside a call, or with a
signal pending, is scheduled when it can go on. Nothing is assumed about
programs: they need not make any call, and a poll need not time out. No strong
fairness is used: a reader that competes with another may starve, which is why
`SoleReadReturns` is restricted. `SigioClient` adds that the client and its
handler run. `MuxIo` assumes that both processes are scheduled; the parent's
timeouts change no state.

`DriverLifecycle` assumes that init, unwinding and exit run on once begun and
that work that is due runs: nobody need load or unload. `MmapIpc` adds that
parent and child are scheduled and that time passes. `Greet` assumes that the
client, one thread, runs; and of the compositor that it sends a first configure,
answers the roundtrip, gives back the buffers it no longer shows and shows what
is committed. It need not ping, close or configure again. Nothing is assumed
about `EglSwapReads`, `EglSwapFails` and the signal. That `eglSwapBuffers` fails
once the connection is gone is assumed of the library; without it the EGL
client, which looks at no other result, would run on.

## Proofs

Every theorem holds for every value of its module's constants that satisfies the
named assumption: `ConstantsAssumption` of `AdvIo` (positive sizes, payloads
made of bytes; any set of processes and programs), `ClientAssumption` of
`SigioClient` (any target; the client's reads do not fault, since the handler's
buffer is on its own stack), `MuxAssumption` of `MuxIo`
(any periods, limit and delays), `DriversAssumption`, `MmapAssumption` (any
number of rounds, any periods and lateness), `NamesAssumption`.

| theorem | module | states |
|---|---|---|
| `TypeCorrect` | `AdvIoProofs` | `Spec => []TypeOK` |
| `ReaderWakeups` | `AdvIoProofs` | `Spec => []NoLostReaderWakeup` |
| `WriterWakeups` | `AdvIoProofs` | `Spec => []NoLostWriterWakeup`, assuming `Faulty = {}` |
| `CallsInvHolds` | `AdvIoProofs` | `Spec => []CallsInv` |
| `FaultsAloneLoseWakeups` | `AdvIoProofs` | `Spec => OnlyFaultsLoseWakeups` |
| `ResultsTellProgress` | `AdvIoProofs` | `Spec => ResultTellsProgress` |
| `Subscribers` | `AdvIoProofs` | `Spec => []NoStaleSubscriber` |
| `DrainedSubscribers` | `AdvIoProofs` | `Spec => []DrainedSubscriberIsTold` |
| `PollIsHonest` | `AdvIoProofs` | `Spec => []PollReadyIsReadable` |
| `RingStaysCoherent` | `AdvIoFifoProofs` | `Spec => []RingCoherent` |
| `DriverImplementsFifo` | `AdvIoFifoProofs` | `Spec => ImplementsFifo` |
| `ClientRefinesDriver` | `SigioClientProofs` | `ClientSpec => Spec` of `AdvIo` |
| `ClientInvHolds` | `SigioClientProofs` | `ClientSpec => []ClientInv` |
| `PausedClientHears`, `CountOvershootsByOne` | `SigioClientProofs` | `[]PausedClientIsTold`, `[]OvershootsByOne` |
| `MuxInvariant`, `MuxTypes` | `MuxIoProofs` | `Spec => []MuxInv`, `[]TypeOK` |
| `ChildSurvives` | `MuxIoProofs` | `Spec => []ChildNotKilled` |
| `PipesAreDrained` | `MuxIoProofs` | `Spec => []PipesDrained`: the first pipe (`FirstPipeDrained`) and some pipe (`OnePipeDrained`) |
| `NobodyIsStuck`, `StepsAreNumbered` | `MuxIoProofs` | `Spec => []NobodyStuck`, `Spec => StepsRunOut` |
| `LifecycleInvariant` | `DriverLifecycleProofs` | `LifeSpec => []LifeInv` |
| `UndoExact`, `ReleasedInReverse` | `DriverLifecycleProofs` | `[]UndoIsExact`, `[]HeldInOrder` |
| `MemorySafe`, `LoadedComplete` | `DriverLifecycleProofs` | `[]NoUseAfterFree`, `[]LoadedIsComplete` |
| `WorkStaysStopped` | `DriverLifecycleProofs` | `LifeSpec => WorkNotRestarted` |
| `AppRefinesLifecycle`, `AppMemorySafe` | `MmapIpcProofs` | `IpcSpec => LifeSpec`, `[]NoUseAfterFree` |
| `AppInvariant`, `AppTypes` | `MmapIpcProofs` | `IpcSpec => []AppInv`, `[]AppTypeOK` |
| `RoundsAreWhole`, `DumpIsLastRound` | `MmapIpcProofs` | `[]RoundNotTorn`, `[]DumpSeesLastRound` |
| `ParentWritesFirst` | `MmapIpcProofs` | `IpcSpec => []FirstReadSeesARound`, assuming `ReadEvery > MaxLag` |
| `PlacesInvariant`, `PageIsThere` | `MmapIpcProofs` | `IpcSpec => []PlacesInv`, `[]PageStays` |
| `NobodyWaits`, `AppStepsAreNumbered` | `MmapIpcProofs` | `[]NobodyWaitsInVain`, `IpcSpec => AppStepsRunOut` |
| `GlInvariant`, `GlTypes` | `GlResourcesProofs` | `Spec => []GlInv`, `[]GlTypeOK` |
| `NoDeadNames`, `NothingStays`, `EglTakenDownInOrder` | `GlResourcesProofs` | `[]NamesAreLive`, `[]NothingLeft`, `[]EglStands` |
| `GreetInvariant`, `GreetTypes` | `GreetProofs` | `Spec => []GreetInv`, `[]GreetTypeOK` |
| `BuffersAreAccounted`, `BuffersStayBounded` | `GreetProofs` | `[]BuffersAccounted`, `[]BuffersBounded` |
| `ShellIsObeyed` | `GreetProofs` | `Spec => KeepsToXdgShell`, assuming `OnTime` |
| `AttachedAfterConfigure` | `GreetProofs` | `Spec => []SurfaceAfterConfigure`, assuming `OnTime` and `Steady` |

The argument for `AdvIo`:

1. `TypeOK` is not inductive: `total + n` must stay within `MaxLen`. `TypeInv`
   adds `Bounded`: what a call has moved and what its `tmp` holds fit into its
   request, and nothing of a call outlives it.
2. The wake-up properties are inductive relative to `TypeInv`. The reader side
   needs no assumption about faults; the writer side is false with them (run
   `adv_io_fault`), so `WriterWakeups` assumes there are none. The step that
   matters is `Pop` (`Push`): the ring becomes non-full (non-empty) and the
   process is at `copyout` (`wakein`), that is, about to wake the sleepers.
   `WriterWakeupStep` does not assume that nobody faults but that the step is
   not a fault: hence `FaultsAloneLoseWakeups`, which says that the finding of
   `adv_io_fault` is the only way to lose a wake-up.
3. `CallsInv` says for each place of the handlers what the call knows there: it
   waits only with `total = 0`, it signals only with `total > 0`, it pops only
   while it wants more, and a write call's `tmp` is the payload from where the
   call stopped. Results follow from it, and so does
   `DrainedSubscribers`: a read that returned `-EAGAIN` saw `count = 0`, because
   it wanted at least one byte.
4. For the refinement, `PopTakes` and `PushAppends` turn the index arithmetic of
   `ring_pop` and `ring_push` into operations on the sequence of the `count`
   bytes from `tail` on; `PushAppends` needs `RingCoherent`. Each step of a
   process changes what is in flight for that process alone (`FlightOf`), and
   maps to `Take`, `Deliver`, `Lose`, `Put` or `Finish` of `ByteFifo` or to a
   stutter; the producer's work maps to `Produce`, or to `Drop` on a full ring.
   `Finish` wants the call to hold no bytes, and `Deliver` counts what it hands
   over; only `Lose`, which takes a faulting user buffer, does neither.

The argument for `SigioClient`: a step of the main program or of the handler is
a step the driver allows a process (`ClientStepIsDriverStep`), so every theorem
about `AdvIo` holds of the client. `ClientInv` then says what the handler leaves
behind. Its read returns bytes and makes SIGIO pending again (`KillOut`), or has
seen the ring empty; so a client that waits has drained the ring or
has a signal pending (`HandledOK`), and `DrainedSubscriberIsTold` of the
driver does the rest. The counted read that reaches the target may have made
SIGIO pending once more, and clearing `O_ASYNC` does not take it back: one
further event is counted, and after it none (`OvershootOK`).

For the others:

5. `MuxInv`: what `select`, `poll` or `epoll` reported ready is ready still when
   it is handled, since only the parent reads (`ReadyInv`); the child closes in
   order, after its last write (`CloseInv`); hence the parent, which leaves at an
   end of file, leaves nobody writing (`LeaveInv`), and with pipe 1 handled first
   it has drained it (`DrainInv`; false for `epoll`'s order, and once the buffer
   has been overrun). The pipe whose end was seen is empty then and later.
   `StepsLeft` counts what the program can still do: a turn of the child's loop
   advances the clock, and a message or an end of file is what a turn of the
   parent's loop uses up.
6. `LifeInv` names what is held at each place: before a call of init, the calls
   already made; at a label, what is still to undo. `HeldInv` is inductive over
   the tables, which `Tables` expands once for all drivers. The work item has its
   memory because `work` is released first, and only when it is not running
   (`WorkInv`); the wait for it is one run long, since none begins once
   it is being cancelled (`WorkNotRestarted`).
7. The application's steps are steps of `DriverLifecycle` or leave its state
   alone (`AppStepIsLifeStep`), so its theorems carry over. `AppInv` says which
   process owns the mutex where, and that the page is whole except between the
   two writes; the dump comes after the parent's last unlock, and the child only
   reads, which is why it needs no lock. `FirstInv` adds that in the first round
   both clocks run together: a child that naps longer than a process may be late
   finds the round written. The nap is all that orders the two. `PlacesInv` ties
   the places of both programs to their files and mappings, which no step of the
   module takes away while they are held, so the page stays; `ForkedInv` says
   that there is a child from the fork to `waitpid`. `ParentLeft + ChildLeft`
   goes down at each step of the two by arithmetic alone (`LessLeft`).
8. `GlInv`: up to the end of the process, the objects that exist are exactly
   those the variables name, at each place.
9. `GreetInv` describes the wire. Serials arrive in order, each behind the size
   it belongs to, and both are read together (`ConfigureInv`): between the two
   handlers the client does nothing else, so that whenever it draws it draws the
   size it acknowledged (`SettledInv`). One frame callback at most is due or on
   its way (`FrameInv`); ahead of it are the releases of all buffers but the one
   shown (`NewestInv`), so that a new frame meets one buffer at most. With these
   each step is a step of `XdgShell` or none. For the EGL client a commit after
   the first acknowledgement needs a compositor that configures before it answers
   the roundtrip (`SyncInv`); hence the assumption `OnTime`, without which the
   theorem is false (run `greet_first_configure`). `AttachedAfterConfigure` also
   needs `Steady`: when the compositor dies, the roundtrip fails, which the client
   does not look at, and it attaches its surface all the same.

Every invariant and every action property of the passing runs is proved. So are
some that no run lists because another of its checks, or a theorem, covers them:
the types of `MuxIo` and `GlResources`, `RingCoherent`, `NobodyStuck` (what
`ProgramEnds` needs), `PageStays`, `NobodyWaitsInVain` and `WorkNotRestarted`. Only
model-checked are the properties that something happens in the end
(`SleepersWake`, `SoleReadReturns`, `DrainedSubscriberIsSignalled`,
`EventsKeepComing`, `ProgramEnds`, `UnloadCompletes`, `AppEnds`,
`LatestSizeShown`, `EndsWhenTold`, `PingsAnswered`): they rest on fairness, which
is out of this prover's reach. For the
two programs that end by themselves the half that needs no fairness is proved:
`StepsRunOut` and `AppStepsRunOut` bound the steps they take, `NobodyStuck` and
`NobodyWaitsInVain` leave no state in which all of them wait.

## What is not modelled

* `hello_drv`'s read and write: two callers of one unlocked buffer; neither code
  nor documents say what they should see. Its init, exit and files are in
  `DriverLifecycle`.
* Clients of `adv_io` other than `test_fasync.c`: loops of calls that `AdvIo`'s
  processes make anyway. The C library's AIO thread is not in the repository.
* The pixels `draw` makes, shaders, matrices: floating-point arithmetic, and no
  state that outlives a frame.
* `greet_panel` and `surface_monitor` of `gtk4-rs-vibe`, `gtk4-rs-hello`,
  `tspi-hello-rs`: labels, and a read-only view of the display.
* Marshalling in the generated `xdg-shell` files, and the requests nobody here
  makes (popups, positioners, moving and resizing).
* `sdk/issue/formatter.py`: a copy of a module that Python removed from its
  library.
* The demonstrations in `note/`, one system call per line: what they show is the
  kernel's behaviour, which a model would have to put in by hand.
* Device trees, build and deployment scripts, notes.
