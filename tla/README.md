# VintagePomelo in TLA+

VintagePomelo runs Windows programs on HarmonyOS: Wine under Box64, a Wayland
compositor and audio and graphics brokers in C++ (`entry/src/main/cpp`), and an
ArkTS application (`entry/src/main/ets`) that starts, shows and stops them.
Most of what can go wrong in it is a matter of order: threads that are detached
and never cancelled, callbacks that take no lock, processes that end before they
are registered, and calls that read state before an `await` and act on it after.
These modules model that part of the program, TLC checks them on small
instances, and TLAPS proves what is proved below for every instance.

All paths are relative to `src/entry/src/main/`.

## The system

| Part | Source | State | Operations | What is hard |
|---|---|---|---|---|
| Shared audio ring | `cpp/include/audio_ipc_protocol.h`, `cpp/audio_stream.cpp` | free-running read and write indices, state word, frames, in memory shared by two processes | write, read, reset, start, close | no lock: atomics only; indices wrap; reset from a third thread |
| Audio broker | `cpp/audio_broker.cpp` | streams and their owners, the renderer, the capturer, two published snapshots | start, stop, open, start/stop/reset/close a stream, clean up after a client, the callbacks, interruptions | two audio callbacks without the mutex; one microphone for many streams; `Stop` in several sections |
| Audio control server | `cpp/audio_ipc_server.cpp` | bootstrap endpoints, client threads, descriptors | create an endpoint, accept, serve, reap, stop | who joins which thread, with which lock held |
| Process registry | `cpp/wine_process.cpp`, `cpp/phone_adapter/phone_process.cpp` | up to 128 processes with session and window, up to 32 windows without a process | register, mark ended, associate and forget windows, kill | registered twice, by two threads; three sources of exits |
| Process broker | `cpp/broker.cpp`, `cpp/spawner.cpp`, `cpp/ncp_dispatch.cpp` | a listening socket | start a child process, inherit the caller's session, register | a request per thread |
| Launch coordinator | `cpp/wine_launch.cpp` | phase, attempts, the prefix, the marker of an unfinished initialisation | graphics, wineserver, wineboot, explorer | retries, timeouts, a prefix that survives crashes, workers it does not start itself |
| Engine session | `ets/service/WineEngineService.ets` | engine state, mode, waiters, shared restart, safety timer | start, stop, restart, switch, reset, native events | calls interleave at each `await`; old launches still send events |
| Application sessions | `ets/service/AppSessionService.ets` | sessions, pending launches, pending windows | launch, defer, drain, resume, stop, associate | events before their session; launches deferred to the next READY |
| Graphics broker and virgl host | `cpp/graphics_broker.cpp`, `cpp/virgl_child.cpp` | host process or thread, sockets, zero-copy targets, generation | ensure started, stop, attach, detach | a host restarted while it is being shut down; a 30 s wait |
| Surface presenters | `cpp/*_surface_presenter.cpp`, `cpp/native_window_*`, `cpp/present_pacing.h` | leases of native windows, swapchains, pacing | acquire, present, retire | a window destroyed while a frame is on its way |
| Compositor | `cpp/compositor/` | toplevels, z-order, popups, desktop root, move grab | add, raise, minimise, remove, promote a root | long sequences of legal requests |
| Wayland server | `cpp/wayland_server.cpp`, `cpp/wl_core.cpp`, `cpp/xdg_shell.cpp`, `cpp/seat.cpp`, `cpp/text_input.cpp` | surfaces, roles, focus, serials | protocol requests | objects destroyed in any order |
| Controller hub | `cpp/controller/`, `cpp/game_controller_bridge.cpp` | merged state of several controllers | plug, unplug, report | buttons held on a controller that is unplugged |
| ArkTS windows and input | `ets/service/*Window*.ets`, `ets/service/Input*.ets` | one window per toplevel, pressed keys | show, hide, focus, key | focus changes with keys down |
| Environment, prefix set-up, settings, pages | `cpp/wine_env.cpp`, `cpp/env_*.cpp`, `cpp/plugin_manager.cpp`, `ets/pages/` | files and strings | | sequential |

How they interact: the ArkTS service calls `launchClient`, which detaches a
launch thread; the thread asks the process broker for Wine's processes, which
register themselves and what they start in turn; everything native tells ArkTS
comes through one queue of strings (`phase:`, `fail:`, `wine-ready`,
`<pid>:exited`), FIFO but without anything that says which launch sent it. Wine's
audio driver reaches the control server over a socket it inherited, commands
the broker, and then exchanges frames with the audio callbacks through the ring.
The Wayland thread looks a window's session up in the process registry.

## The modules

| Module | Models | State and actions |
|---|---|---|
| `AudioFifo` | what a ring promises: a bounded FIFO, each frame once and in order, which a reset empties, and leaves open what is read if the reset met a transfer | `queue`, `delivered`, `torn`; `Put`, `Get`, `Discard`, `GetTorn` |
| `AudioRing` | the ring of the protocol header; one step is one atomic load or store, or one copied frame | `readIndex`, `writeIndex`, `slots`, `state` are the shared words, `producer` and `consumer` the locals of the two functions, `torn` the history of resets that met a transfer; refines `AudioFifo` |
| `AudioBroker` | the broker; one step is a critical section, or the part of one between two things the lock-free callbacks can see | the variables carry the names of the class's members; `section` says who holds `mutex_`, `mixer` and `recorder` are the callbacks |
| `AudioIpcServer` | the server's threads, with `CreateBootstrapHandle` under the broker's mutex | one `pc` per endpoint and client thread, the slots of `endpoints_` and `clients_`, the open descriptors |
| `ProcessRegistry` | registry, broker requests, exits and their reporters, the Wayland thread | `registry` and `pendingToplevels` are the two tables; one call under `gProcMutex` is one step |
| `LaunchContract` | what a launch promises its observer: phases forward, one terminal event | `phase`, `outcome` |
| `EngineLaunch` | the launch thread over a prefix that survives it; refines `LaunchContract` | `launch.pc` is the place in `LaunchThreadFunc` and `LaunchPadMode`; `disk` and `mem` are how far the registry is installed on disk and in wineserver; `worker` are wineboot's workers |
| `EngineSession` | `WineEngineService`, over launch threads at the grain of their contract | `task[t].pc` is the `await` a call is at; `events` is the queue to ArkTS |
| `AppSessions` | taps on cards, the launch queue, deferred launches and waits for the desktop's root, over an engine seen from outside | `tap[t].pc` is where a tap's promise waits; `launchChain`, `sessions`, `listening` are the code's; `desktop` and `root` are the session service's and the window manager's idea of the desktop's root |
| `GraphicsHost` | the graphics broker and its virgl host, a child process or (phones) a thread: the launches' `EnsureStarted`, the child's callback and socket, its death, `Stop` | `broker` are the flags of `GraphicsBroker`, `proxy` its `virglRemoteProxy_`, `mutex` who keeps `mutex_` over its waits; `host[h]` is the life of a host, `socket` who bound the file, `lost` the history of children whose proxy was given up |
| `ZeroCopy` | the zero-copy path of one window renderer with the compositor, the guest and the host: binding, publishing, fallback to shared memory, release | `bound` and `image` are the fields of `EglRenderer`; `keys`, `marker` and `hosted` what the compositor, the guest and the host were told; `orphan` the history of a host that was lost |
| `Compositor` | the window tables of the desktop mode under `toplevelMutex_`: entries, z-order, full screen, desktop root, task bar, interactive move, stop and restart of the server | `known`, `win`, `zorder`, `numbered` are those of `ToplevelManager`; `pc[t]` is the rest of a request that takes the mutex again |
| `AudioRingProofs`, `AudioBrokerProofs`, `AudioIpcServerProofs`, `EngineLaunchProofs`, `EngineSessionProofs`, `AppSessionsProofs` | the proofs about the module of that name | |
| `GraphicsProofs` | the proofs about `GraphicsHost` and `ZeroCopy` | |
| `WindowProofs` | the proofs about `Compositor` and `ProcessRegistry` | |
| `MCAudioRing`, `MCProcessRegistry`, `MCAppSessions`, `MCCompositor` | definitions for TLC's instances: symmetry, process trees | |

Definitions called "Seeded fault" are not part of a specification. Each is a
plausible bug in the definition below it; with it in place TLC finds the property
of that name in `PROJECT.json` violated, which shows that the property depends on
the code it is about.

### Grain

- **Ring.** Sequentially consistent steps: the code uses acquire and release (or stronger) on both
  indices, and one writer per index, so the only reorderings allowed are those that interleaving the
  steps already gives. The capacity is a power of two in the code; the model needs only that it
  divides the range of the indices (2^64 there, `IndexModulus` here). Nothing keeps a reset from a
  transfer in progress, so the model lets them meet at every step. `torn` remembers that they did:
  when a transfer has loaded an index before the first store of a reset, or loads between its
  stores. A later reset that meets none makes the ring whole again.
- **Broker and server.** Work under a mutex is one step unless somebody who does
  not take it can see the middle. The audio system is external: it calls the two
  callbacks while its device runs and sends interruptions; the start that answers RESUME may
  fail, and nobody notices. `Stop` shuts the connections down one after the other while the others
  go on with their commands. Clients that were accepted, and not yet registered, when it lists
  the connections are left out; nothing in the repository calls `Stop`.
- **Registry.** The kernel's view (`os`) is separate from what has been reported
  (`notices`) and what is recorded (`registry`). A process identifier is used once. Who forked
  whom is a constant, `Ancestry`; which links of it `/proc` shows follows from who is alive.
  `remove_if` is `Kept`, the sequence of the places that stay; `MCProcessRegistry` has TLC compare
  it with `SelectSeq`.
- **Launch.** A timeout may strike at any moment of a wait, and any process may end
  at any moment, so the model has more behaviours than the clock allows. A worker of
  `wineboot.exe` may register at any time after the launcher asked for it, also after the two
  seconds the code grants it: `late` is the history of those that registered when no wait was left to
  see them. The desktop's root is read twice, and may be gone the second time. The marker may
  survive its `unlink`, whose result is not looked at; the next launch then installs again.
- **Session.** ArkTS is single-threaded: a step runs from one `await` to the next. An
  immediately resolved promise (no process to wait for) is no await. The
  comparison of mode, presentation, renderer and prefix is one comparison of
  configurations. Any caller may call anything: the service does not rely on its pages
  to keep calls apart, although the settings page allows one operation at a time. The event of a
  program that could not be started takes an engine that is not READY to ERROR.
- **Application sessions.** The desktop presentation with one graphics host: a launch differs
  from the running engine in its prefix mode only. The engine takes any state at any time,
  which covers `EngineSession`; a call that a launch itself makes acts on it at once,
  as `startSession` does before its first `await`. A tap ends where its promise is settled,
  except that `launchExecutable` comes one step after the root is known.
- **Graphics host.** `mutex_` is held for a whole call, its waits included, so a launch is inside
  from `CallBroker` to `Return`; the sections of `virglIpcMutex_` are short and single steps. A
  request to a living child may fail: a failed query makes the broker give its proxy up, and a
  shutdown that does not get through leaves the child running; `lost` has these. What `Stop` does
  after it has released `mutex_` is in steps of its own. A timeout may strike at any moment of a
  wait. `upset` records what disturbed the launches in progress (a stop, the death of a host, a
  socket file that was taken away or left by a dead host), since their verdict can be out of date
  then. Late callbacks, failed starts and hosts left over from an earlier launch are no excuse.
- **Zero copy.** One renderer; frames are compared, never numbered. `behind` and `stale` are
  history: the surfaces whose shared-memory content is older than the frame presented, or shown,
  last. The guest lives outside the repository; it is modelled from what the code expects of it:
  it looks at the marker file once a frame, sends no shared memory when it is there, and, as
  `wl_surface.frame` asks of it, waits for the callback of a commit before its next frame. Guests of
  `Vulkan` may present by Vulkan, wait there for a target, and end a frame without a commit
  (`desktop_compositor.cpp:415`). A commit is counted first and copied later; the renderer reads
  the count of a surface of `Direct` at once, that of the others with the pixels. The host may
  die, `Stop` may reset it and the broker's records, and any request may fail; the renderer is told of
  none. Subsurfaces that only a protocol without shared memory fills are left out.
- **Compositor.** A section under the mutex is one step; a request that takes the mutex several
  times has several, among them those that go in and out of full screen. Priorities are kept as an
  order, positions as "at the origin or not". A program that was killed may still have frames and
  requests on their way, and a window whose role was destroyed may still be given frames. A raise by
  the user interface may choose a window (a tap) or not (`ActivateWineSession`). `Screen` bounds
  which kinds of windows ask for the full screen.

## The runs

| Run | Question | Bounds |
|---|---|---|
| `ring` | Is the shared ring a FIFO, at every interleaving, and does a full ring drain? | 2 frames of capacity, transfers of up to 2, indices modulo 4 (they wrap every two capacities), resets at every step; two distinct frames are enough to see one lost, repeated or swapped |
| `broker` | Devices, ownership, snapshots and clean-up under all interleavings, with a `Stop` that shuts one connection down after the other | 2 connections, 2 streams: one to be kept while the other goes |
| `server` | Threads joined once, never while they run, no deadlock under the broker's mutex | 2 endpoints, 2 clients: a creator that reaps an endpoint and its client while another serves |
| `registry` | Do processes, sessions and windows stay consistent? | 2 spawned processes, 1 fork, 2 windows; tables of one entry, so that both overflow |
| `registry_polled` | Is every exit recorded with the `/proc` monitor? | 2 spawned processes, a fork and a fork of the fork |
| `launch` | Do launches keep their contract, and is a half-made prefix never announced? | the code's 2 and 3 attempts, one worker for each wineboot; a prefix at any of four stages |
| `session` | Are waiters released and restarts shared, and does the engine never stay busy? | 2 callers, 2 configurations, 2 launch threads with 2 phases, 1 event in the queue |
| `apps` | Is every deferred launch answered, and does a card start one process? | 2 taps, repeatable; a game with a prefix mode of its own, a tool past the queue, the desktop's card; 2 processes of one program |
| `graphics` | Is what a launch is told about the graphics host true, which children can it still reach, and is every launch told? | 2 hosts, 2 launches, phones and others: one host that is late, dead or being stopped while the next is started |
| `zerocopy` | Is a surface never dark or shown twice, and does a fallback bring no old frame back, and end? | 2 surfaces, one `Direct` and one `Vulkan`, recreated any number of times; 2 failures; a surface that lags behind its baseline by up to 2 commits |
| `compositor` | Are the tables in order, is the newest full-screen window in front, is one desktop in sight? | 2 windows: two shells, two programs, a program with the task bar or with a shell; programs ask for the full screen |
| `compositor_grab` | (violated) Does no thread wait for a mutex it holds? | the same |

A configuration that is not in this table is kept to reproduce by hand, with
`tlc -config X.cfg M`, what the runs' assumptions exclude. Each ends in a counterexample,
described below, except `RegistryForks.cfg`, which holds: it is `registry` with a deeper process
tree and one window.

| Configuration | Module | What it drops |
|---|---|---|
| `AudioRingResetRace.cfg` | `MCAudioRing` | asks that the reader is behind the writer whatever resets meet |
| `EngineLaunchLateWorker.cfg` | `EngineLaunch` | the exemption of workers that register when all waits are over |
| `RegistryCallback.cfg` | `MCProcessRegistry` | the monitor of the phones: exits come by callback |
| `RegistryLostWindow.cfg` | `MCProcessRegistry` | asks that an open window is in one of the tables |
| `RegistryForks.cfg` | `MCProcessRegistry` | nothing: asks the same of a fork of a fork |
| `EngineSessionHang.cfg`, `EngineSessionReset.cfg` | `EngineSession` | asks that every waiter is answered; that a reset rebuilds the prefix alone |
| `AppSessionsLostRoot.cfg` | `MCAppSessions` | asks that a root that is there lets its waiters pass |
| `GraphicsHostStop.cfg` | `GraphicsHost` | the exemption of launches that a `Stop` overlaps |
| `ZeroCopyBlind.cfg` | `ZeroCopy` | the exemption of fallbacks without a baseline |
| `ZeroCopyDirect.cfg` | `ZeroCopy` | the exemption of serials that are read from the surface |
| `ZeroCopyHostDeath.cfg` | `ZeroCopy` | the exemption of surfaces whose host was lost |
| `CompositorAnchor.cfg`, `CompositorStop.cfg` | `MCCompositor` | asks that full-screen windows stay at the origin; that a stopped session leaves no window |

The bounds are named constants. `MaxStream`, the set `Launch` and `MaxEvents` bound what the
code leaves open, `MaxCopies` cuts off how often a browsed program is started, and `MaxBaseline`
how far a recreated surface lags behind; the other bounds are the
code's own, made small (`MaxDepth`: how far up `/proc` it looks for a process). Two of
everything that interferes (streams, clients, processes, launches, callers) is the smallest
number at which one may disturb the other; a third adds no new kind of pair, and the instances
were also run with three streams, three clients and a queue of two events, for safety. An event
waits in the queue or, with `MaxEvents = 1`, in the thread that sends it, so a queue of one
delays an event no less than a longer one.

`CHECK_DEADLOCK FALSE` is set where the system may stop: all processes have ended and
windows are gone (`registry*`), nobody calls any more and, as `EngineSessionHang.cfg` shows,
all callers wait for ever (`session`), or the event loop waits for itself, which is what
`compositor_grab` shows (`compositor*`). In every other run TLC looks for deadlocks.

### What the violated run and the other configurations show

- `compositor_grab`: `OnToplevelDestroyed` ends the interactive move of the destroyed window
  with `toplevelMutex_` held, and `EndMoveGrab` locks it again
  (`wayland_server.cpp:280`, `move_grab.cpp:35`). The mutex is not recursive; `wl_core.cpp:754`
  warns of just this. A program that dies while its window is dragged stops the compositor.
- `AudioRingResetRace.cfg`: `RESET` stores zero into both indices from the control thread.
  A callback between its loads and its store then publishes a read index that lies
  ahead of the write index; "available" wraps. The documentation names one writer per
  index. The properties of `ring` speak of the ring up to such a reset and from the next that meets no
  transfer.
- `RegistryCallback.cfg`: on tablets and PCs the exit callback is the only source of exits,
  and an exit reported before the registration, or between the broker's registration and the
  application's, is lost: the process stays "running" for ever. The launch's wait for
  explorer, and the wait for the processes to end, rely on it.
- `RegistryLostWindow.cfg`: the broker registers a process, its window is associated, and then the
  application registers it again: `AddProcess` erases the old entry with the window in it
  (`wine_process.cpp:91`), and the window no longer waits either.
- `EngineLaunchLateWorker.cfg`: the grace for `wineboot.exe` is counted from the start of the wait; a
  worker that registers when the last wait is over is at work when explorer starts.
- `EngineSessionHang.cfg`: `setState` takes the safety timer down on STOPPED and ERROR without
  looking whether somebody began to wait after `stopSession` resolved the waiters.
- `EngineSessionReset.cfg`: `stopSession` stops processes, not the launch thread; a launch that has
  no process yet goes on and starts wineserver in the prefix that is being rebuilt.
- `AppSessionsLostRoot.cfg`: the `desktop_root` event makes the desktop's session, without a pid. The
  launcher's page refreshes every 1.5 s; if it does between that event and `wine-ready`, `reconcile`
  takes the session for a leftover and drops it. Launches drained at READY then wait for a root
  that is there, and hold the queue until the engine ends or another root is promoted.
  One tap suffices, and nothing has to fail.
- `GraphicsHostStop.cfg`: `Stop` takes the socket file away, and shuts the child down, after it has
  given up `mutex_`. A launch that begins meanwhile is told "Virgl" by `GetState` although the
  host, or its file, is going. The comment before that call (`wine_launch.cpp:504`) counts on
  `EnsureStarted` having waited for the socket, for 4 s at most; the wait takes up to 30 s
  (`graphics_broker.cpp:1323`), and `WineEngineService` may call the stop in that time.
- `ZeroCopyBlind.cfg`: when a fallback begins and the layer cannot be looked up
  (`egl_renderer.cpp:367`), the baseline is the one of the attachment. An old frame passes it.
- `ZeroCopyDirect.cfg`: `surface_commit` counts a commit (`wl_core.cpp:1093`) before its pixels are
  copied under the lock (`wl_core.cpp:586`), and the serial of a surface without a layer of its
  own is read from the surface (`desktop_compositor.cpp:468`). The renderer can end the fallback in
  between and show the old pixels for the moment until the copy, which the comment at
  `egl_renderer.cpp:466` wants to avoid.
- `ZeroCopyHostDeath.cfg`: `IsVirglServerProcessAliveLocked` (`graphics_broker.cpp:1010`) gives a dead
  child up without touching markers or attachments. The guest goes on without shared memory, for a
  host that does not know its surface, and the window keeps the last image until the binding is released.
- `CompositorAnchor.cfg`: `toplevel_manager.h:15` anchors full-screen windows at (0,0). The first frame
  (`wl_core.cpp:609`), a changed geometry (`wl_core.cpp:674`) or a move that is under way
  (`move_grab.cpp:55`) still sets a position afterwards.
- `CompositorStop.cfg`: `DestroyAllToplevels` takes down the windows that it has listed. One that
  the event loop maps meanwhile stays in the tables for the next session.

Two observations made while modelling `AppSessions`, which no run is about. A launch
in another prefix mode, deferred while the engine is READY, makes the engine switch; the switch
passes STOPPED, at which the deferred launches are refused, so the tap that asked for the
switch gets "no" and has to be repeated once the engine is up. And the desktop's session keeps the
identifier of a destroyed root while the engine is READY, so the branch of `launch` that starts the
shell again cannot be reached from there.

## Fairness

Threads of the program run, timers fire, and a call that holds a mutex releases
it: weak fairness on those steps. Nothing makes a client send or leave, a process end, a
user call, or the system interrupt. In `AudioRing` the host's callback is periodic and the
frames it asks for are bounded. In `EngineLaunch` every wait of the thread is bounded by a
timeout, and the broker registers what it has started before it answers. In
`EngineSession` a launch ends (that is `LaunchContract`, which `launch` shows), a killed
process ends, and `waitForNativeShutdown` gives up after 35 s, so each await resumes. In
`AppSessions` a launch that is due is run, and the engine does not stay busy for ever, which is
`BusyEnds` of `session`. In
`GraphicsHost` a launch thread runs and, since `mutex_` becomes free again and again, gets it in
the end (strong fairness, as of any `std::mutex` that is not starved); a `Stop` that has begun
is finished. Hosts owe nothing: no property relies on one that starts, answers or dies.
In `ZeroCopy` the render loop runs, and the event loop handles a commit it has received. Of guests nothing
is assumed: that one goes on to commit shared memory, and that its surface is not replaced for ever, are
premises of `FallbackEnds`. A Vulkan guest without such commits may leave a fallback pending.
`Compositor` is about safety alone. The
liveness properties are model-checked only: temporal reasoning with ENABLED is out of the
prover's reach.

## The proofs

TLAPS checks the theorems below for every value of the constants; each is proved from
an inductive invariant (`Init => IInv`, `IInv /\ [Next]_vars => IInv'`), which TLC checked on the
instance of the run before it was proved. The counters that TLC bounds are not bounded there.
Every invariant and every action property of the runs has its theorem.

**The ring** (`AudioRingProofs`), from `RingAssumption` (the capacity divides the
range of the indices, as a power of two does) alone. Each speaks of a ring that is not
`torn`; of a torn one the first is all that holds, as `AudioRingResetRace.cfg` shows:

- `RingTypeCorrect`: indices, offsets and transfers stay in range.
- `RingNeverOverfull`: the writer is never more than a capacity ahead of the reader.
- `RingCopiesDisjoint`: a write and a read that copy at the same time are in different slots.
- `RingImplementsFifo`: the ring implements `AudioFifo`, the property `ImplementsFifo` of the run.

`NeverOverfull` alone is not inductive: a transfer computes with copies of the indices and publishes
later. `ProducerInv` and `ConsumerInv` say why the copies are good enough. A transfer's own index
cannot move under it, and the other end's has only moved towards more room, or more frames, than was
computed; `ResetInv` says that a reset in progress that is to mend the ring meets no transfer. They
hold of a ring that is not torn (`~torn => WholeInv`): `ResetStartsWhole` and `MendedByReset` say
that a reset that meets no transfer makes them true again. The rest is arithmetic modulo
`IndexModulus`: how the distance of two indices changes when the leader or the trailer advances, and
that an index between two others splits it (`AdvanceLeader`, `AdvanceTrailer`, `MinusSplit`). For
the copies the same invariant bounds the distance of the two positions by 1 and the capacity less 1;
two indices so close lie in different slots, also across a wrap, because the capacity divides the
range (`WrapKeepsSlot`, `SlotFromBehind`, `SlotsDiffer`).

For the refinement, the queue is cut out of the slots between the two indices, and a transfer is
one step of the queue at the store that publishes it. `CopyInv` says what a copy in progress has
done so far: the slots behind the write index hold the first `k` frames of the batch
(`WrittenInv`), the reader's batch is what it has passed (`CollectedInv`). By
`RingCopiesDisjoint` neither side's copying disturbs the other's. The cut is a sequence
comprehension, so that publishing appends to it, or drops its front, index by index; no
induction is needed.

**The broker** (`AudioBrokerProofs`), from `BrokerAssumption`, with and without `Stop`:

- `StreamsStaySound`: the table's streams have owners that are still served.
- `DevicesKeepFollowing`: started recordings are fed, the microphone does not run for nobody,
  and a stopped broker holds nothing.
- `SnapshotsStayCurrent`: what callbacks read is what is open.
- `OnlyOwnersChangeStreams`: an action property, from the same invariant.

Two of them, `DevicesKeepFollowing` and `SnapshotsStayCurrent`, speak of moments when the
mutex is free. `IInv` has to speak of the others too:
`SectionInv`, `SnapshotInv` and `DeviceInv` say, for every place at which a holder of the mutex
can be overtaken by a callback, what it still owes - the snapshots, a look at the
capturer, the unlocking - and `TableInv` that an identifier not yet given out has no object.

**The control server** (`AudioIpcServerProofs`), from `IpcAssumption`, for any number of
endpoints and clients:

- `ThreadsStayJoined`: each client thread is joined from one place, and under the broker's mutex
  only when it is past its clean-up.
- `RegisteredFdsStayOpen`: a registered descriptor is the open socket of its connection.

That a thread has one joiner is a statement about four places (the endpoint that is about to
record it, the table, an endpoint's list, the creator's). `PlacesApart` makes it inductive by
saying how they exclude each other pairwise, and that a thread still alive is in one of
them; `HandsApart` that no two endpoints have accepted the same client.

**The launch** (`EngineLaunchProofs`), for all numbers of attempts, with and without a
desktop, and with any number of launches, deaths and restarts over one prefix:

- `LaunchTypeCorrect`: types, and no loop makes more attempts than it may.
- `ReadyMeansPrefix`: `wine-ready` is announced only over registrations that are on
  disk. The marker may still be there, and a desktop may have lost its root after the last attempt.
- `InterruptedMeansRepeated`: an initialisation that was cut short is done again first.
- `ExplorerStartsLast`: no worker of wineboot is at work when explorer starts but those that
  registered when no wait was left to see them (`EngineLaunchLateWorker.cfg`).
- `LaunchKeepsContract`: the safety part of `LaunchContract`, by step simulation.

Here the invariant ties the place of the thread to what it has looked at: `PhaseInv` to
what it has announced and that it still owes an outcome, `PrefixInv` to what it may assume of
the prefix (a thread past wineboot has seen the registrations and no marker, and the files never
get fewer: `disk <= mem`). `WorkerInv` adds who is at work: outside a wait, late workers only.

**The engine session** (`EngineSessionProofs`), for any number of callers, launch threads,
phases and events in the queue:

- `SessionStaysSound`: nobody waits for an engine that is ready.
- `RestartsStayShared`: one restart is in progress, and whoever shares it shares one that runs.

`IInv` adds that the performer of the shared restart is neither idle nor sharing itself, that
only it goes on to a start, and that the safety net hangs over a busy engine only.

**The application sessions** (`AppSessionsProofs`), for any number of taps, programs and prefix
modes and any moves of the engine:

- `LaunchesStaySound`: the queue is in order, and no launch waits for what cannot come.
- `CardsStartOneProcess`: however quickly a card is tapped, its program runs once.

The second needs a fact about every launch between its look for a session and its process
(`FoundNone`: there still is none) and that two of them cannot look for the same one
(`QueueHolds`: a launch under way that was not browsed is the head of the queue).
`CountsAgree` says that processes and sessions agree, except during a stop that has
forgotten the sessions and not yet killed the processes.

**The graphics host** (`GraphicsProofs`), for any number of hosts and launches, on phones
and elsewhere:

- `HostStaysSound`: one launch at a time in the start path, and a configured server has its proxy.
- `ChildStaysReachable`: a child that runs with its configuration is the one the broker has a proxy
  of, unless a request to it failed or another child reported in its place. In these cases the code does
  leave the child running (`lost`), and a thread on a phone outlives a `Stop`.
- `LaunchesSeeTruth`: an action property; when a launch reads that the host is active, a host is
  listening, unless a stop, a death or the removal of the socket came between its calls.

`KindsApart` keeps the flags of a thread and of a child from mixing, without which a
dead server of one kind could clear the other's. `TruthInv` is what the third adds: as long as
launches are under way and undisturbed, no stop is running, a broker that is running or being
started finds a host behind any socket there is, and a launch past its first call finds `active`
to be the truth whenever the mutex is free. The attempt taught that a late callback
need not be excused: the property was first stated with more exceptions than it needs.

**Zero copy** (`GraphicsProofs`), for any number of surfaces, failures and commits:

- `BindingStaysSound`: a guest that is told to send no shared memory is bound, left out by the compositor
  and has a target, unless its host was lost or its surface recreated.
- `FallbackNeverGoesBack`: a fallback with a baseline shows no frame older than the last one shown, but
  between the count and the copy of a commit whose serial is read from the surface.

`TargetIsKept` ties the host's view to the renderer's, or records that the host was lost;
`MarkerIsLast` orders the three things a binding gives and takes back; `BaselineIsNew` says that a
fallback that has met its baseline has seen the copy of a commit since, or its count where that is
read first, unless it began `blind`.

**The compositor's tables** (`WindowProofs`), from `CompositorAssumption` (no window or thread
is called `None`, what applications do is of a kind that exists), for any number of windows:

- `TablesStaySound`: types, the z-order lists a window once, and none without an entry whenever
  a thread may look.
- `NewestStaysInFront`: the full-screen window that is drawn and gets the input has the highest
  number, and is the newest in sight unless the user chose it.
- `OneDesktopStaysInSight`: a desktop that was replaced is hidden as long as it lives; the root,
  and the shell in waiting, are not.

The second relates two orders: the numbers, which requests, the user and removals change, and
`entered`, the history of who asked last. `Orders` says that they agree on every two windows of
which the user has not chosen the later; it is kept by each of the four things done to a list
(`OrdersTaken` and the like), which come down to what `Append` and `RemoveFirst` do to the places
in a sequence (`Appended`, `Removed`). That a non-empty set of numbers has a least element, which
the choice of the front window needs, is the one fact by induction, from the well-foundedness of
`<` (`SmallestNat`). `DesktopInv` says for each window what being mapped, in sight, root, waiting
or replaced have to do with each other, also in the middle of a request.

**The process registry** (`WindowProofs`), from `ConstantsDiffer`, `AncestryIsALine` (above a
process are the one that forked it and those above that) and `BoundsArePositive`, for any number
of processes in any tree, any windows, and tables of any size:

- `RegistryStaysSound`: types, the bound of the queue, and one entry for a process, however often
  and by whomever it is registered.
- `WindowsStayPlaced`: a window is in one table at most and only while it lives, and a window
  that waits has no registered process to wait for.
- `WindowsStayInTheirSession`: the window of an entry was opened in its session, or by its process
  or a descendant.
- `RunningEntriesAreKept`: an action property; a full registry drops ended entries only.

`Sound` states the tables' part as a function of the tables, the windows and the processes,
and each thing done to a table is a lemma about it (`SoundAdded`, `SoundChanged`, `SoundTaken`,
`SoundQueued`, `SoundWithout`); `SoundElsewhere` is for the steps that touch no table. Two facts make it
inductive. A window is in a table only when it is live and its two calls (look up the session,
associate) are over, so what `Associate` places was nowhere. And whoever has opened a window has
been born, as have its ancestors (`ClientInv`): a later birth puts nobody above a waiting
window's client, and deaths only cut lines. `KeptFacts` says what erasing from a sequence leaves: the k-th
place kept is the one with k kept places up to itself, and counting a finite set shows that this
numbers them without a gap.

**Only model-checked:** all liveness (`FullRingDrains`,
`DisconnectClosesStreams`, `CreateHandleReturns`, `ClientIsReleased`, `ExitIsRecorded`, `BusyEnds`,
`DeferredIsAnswered`, `LaunchIsChecked`, `FallbackEnds`, and the liveness part of
`ImplementsContract`), because it rests on fairness and ENABLED; that `Kept` is `SelectSeq`, whose
operator argument the provers cannot instantiate; and the counterexamples.

## What is not modelled

`PROJECT.json` lists each part with its reason. In short: sound and picture contents (mixing,
blitting, Vulkan, EGL), file copying and the building of environments are input and output; the
joins of `AudioIpcServer::Stop`, which has no caller but the broker's; signal handlers that
interrupt a thread inside a lock, and weaker-than-sequential memory, are below the grain.

Of the parts that are modelled, these pieces are left out:

- **Compositor and Wayland server**: the PC mode (every window its own ArkTS window) with its
  popups, among them the popup whose parent has gone (`wl_core.cpp:905`); the layers of
  subsurfaces; the configure gate (`wayland_server.cpp:412`); seat, focus, text input, hit
  testing.
- **Surface presenters**: the lease of a native window, swapchains, pacing.
- **Graphics broker**: the vtest protocol, queries of targets that change nothing.
- **Process broker**: packets, and the start and stop of its thread (`broker.cpp:387`).
- **Application sessions**: managed windows and windows that come before their program's
  session; the restart of the graphics host within a launch.
- **Controllers, ArkTS windows, pressed keys, ring geometry**: not begun.

## The plan

Done, in the order of importance: the ring, the broker, the control server, the process
registry, the launch, the engine session, the application sessions, the graphics host, the
zero-copy path, the compositor's tables; and the proofs of the safety properties of all of
them. Next:

1. **Presents** (`NativeWindowLease`, `PresentPacing`): a window that is destroyed while a frame
   is on its way; deadlines that never move backwards.
2. **Popups of the PC mode**: a popup never outlives its parent's window, and is placed again
   when it comes late.
3. **Controllers and keys** (`ControllerHub`, `PressedKeys`): a key or button held when its
   source vanishes is released.
4. **The rest of the application sessions**: managed windows and the windows that come before
   their program's session (a list of sixteen).
5. The pure conversions (ring geometry, present timing) against reference definitions.

Composition: `AppSessions` uses `EngineSession` through its states and `BusyEnds`, as that uses
`EngineLaunch` through `LaunchContract`. To state that as a refinement, of an abstract engine
that `EngineSession` implements and `AppSessions` instantiates, is planned too.

To prove next: safety facts that the liveness properties rest on (a waiter that cannot be lost, a
window that is never without a place while its entry has none), and that the launch threads of
`EngineSession` do what `LaunchContract` allows.
