# A TLA+ model of deepin-remote-desktop

deepin-remote-desktop (`drd`) is an RDP server for the deepin desktop. It captures the X11
screen, encodes it (AVC/H264 or RemoteFX Progressive), sends it over the RDPGFX channel of
FreeRDP and injects the client's input. It runs in one of three modes: *user* (a listener in
the session of a logged-in user), *system* (a root daemon that accepts every client and asks
LightDM for a remote greeter) and *handover* (a helper in the greeter's or the user's session
that takes the client over from the system daemon). This directory models the C program
from its options to its exit: start-up, admission of clients, sessions, handover, capture,
encoding, back-pressure and input. Line numbers in `PROJECT.json` refer to the sources at the commit modelled.

## 1. Inventory

| Component | State | Operations | Interacts with | What is hard | What makes it correct |
|---|---|---|---|---|---|
| Frame queue `utils/drd_frame_queue.c` | ring of 3 frames, head/tail/size, `running`, `dropped_frames`, mutex + condition | push, wait (with timeout), reset, stop, dispose | capture thread pushes, render thread waits | lost wakeups, wrap-around, frames of an old stream | newest frames, in order, no sleeper left behind |
| Graphics pipeline `session/drd_rdp_graphics_pipeline.c` | channel/caps/surface flags, `outstanding_frames`, `frame_acks_suspended`, `last_frame_h264`, lock + condition | maybe_init, wait_for_capacity, can_submit, out_frame_change, set_last_frame_mode, frame_ack | render thread, event thread, RDPGFX client | acknowledgements overtake the count; the wait has no deadline | never blocked without an answer to come; window respected |
| RDP session `session/drd_rdp_session.c` | `connection_alive`, `is_activated`, `render_running`, threads, closed callback, peer | start event thread, activate, render loop, disconnect, redirect, set closed callback | FreeRDP (callbacks on the event thread), listener, runtime, pipeline | three threads end in any order; joins | closed exactly once, forgotten when over, nothing used after release |
| RDP listener `transport/drd_rdp_listener.c` | `sessions`, `is_bound`, delegate | accept, adopt, session_closed, stop | socket service, session, runtime, system daemon | callbacks of event threads against the main loop | one session at a time |
| Server runtime `core/drd_server_runtime.c` | `stream_running`, transport, encoding options, the three parts | prepare, stop, pull frame, set transport | capture, encoder, input | start/stop on different threads; partial failure | the parts run exactly when the flag says so |
| Capture manager / X11 capture `capture/` | `running`, capture thread, wake-up pipe, XDamage | start, stop, wait_frame | frame queue, X server | thread life cycle; damage arrives asynchronously | resources outlive the thread and nothing else; no change of the screen lost unnoticed |
| Encoding manager `encoding/` | previous frame, key-frame and refresh state, adaptive choice | prepare, encode, encode cached, force_keyframe, reset | render thread, refresh timer, event thread, runtime | flags shared by three threads | differences are taken to what the client shows; coarse tiles are refreshed |
| System daemon `system/drd_system_daemon.c` | `remote_clients`, `pending_clients`, exported objects | delegate, register, queue, prune, remove, session_ready, RequestHandover, StartHandover, TakeClient | listener, LightDM, D-Bus | clients come back, go stale, leave between any two calls | bounded queue without dangling entries; sockets reach the right daemon |
| Handover daemon `system/drd_handover_daemon.c` | proxy and object path, `active_session`, own listener | start, TakeClientReady, RedirectClient, stop | system daemon (D-Bus), RDP client | late and own signals | one server per client |
| Configuration `core/drd_config.c` | the options | load the key file, merge the command line | application | the order of defaults, file and command line; options derived from others | the options in force are the ones given, and are enough for the start |
| Application `core/drd_application.c` | mode objects, main loop, signal sources, timers | parse, prepare, start a mode, signal handlers, dispose | configuration, TLS, listener, daemons | fourteen steps that may fail; signals meanwhile | the loop runs only with its mode in place; a signal ends the run unless the main thread waits for ever; clean exit |
| Input `input/` | X display, key-code cache, sizes and scale | start, stop, size updates, keyboard, unicode, pointer | listener callbacks, runtime, X server | presses and releases across stops and layout changes; rounding | what the client lets go is up again; the pointer follows the scale of the two sizes in force |
| Routing token, security `transport/drd_rdp_routing_token.c`, `security/` | peeked request; SAM file, NLA hash, PAM handle | peek, derive hash, write SAM file, log in, close | listener, session, PAM | blocking reads; a login under way when the session is closed | credentials last, refused logins and disconnected sessions leave nothing with PAM, nobody active without a login |
| Utilities, Qt port | see `PROJECT.json` | | | | not modelled, reasons in section 8 |

The interactions in one paragraph: the listener accepts a socket on the main loop, makes a
FreeRDP peer and a session, starts the session's event thread and only then registers the
session and its closed callback. FreeRDP calls back on the event thread; activation prepares
the stream (encoder, input, capture) and starts the render thread, which waits for capacity,
pulls a frame from the queue the capture thread fills, encodes and sends it. In system mode a
delegate first looks at the connection's routing token; handover daemons claim clients over
D-Bus, have the RDP client redirected to the token, and receive its socket when it returns.

`PROJECT.json` "hazards" lists what is hard to test in this code, line by line.

## 2. Plan

Most important behaviour first; each line is a module with its checks.

1. **FrameQueue**, **FrameQueueSpec** (done): ring and condition variable, refinement of a
   lossy FIFO, proofs.
2. **GraphicsPipeline** (done): back-pressure between render thread and client, proofs.
3. **RdpSession** (done): life of sessions over listener, session and runtime; proofs.
4. **Handover** (done): system daemon, handover daemons, D-Bus signals; proofs.
5. **Capture** (done): capture thread, wake-up pipe and XDamage, proofs.
6. **Encoding** (done): AVC and the other codecs, key frames, refresh timer, renegotiation, one
   stream from screen to client; proofs.
7. **Input** (done): key codes, held keys and buttons, scale; proofs.
8. **Config**, **Startup** (done): merge of file and command line, start and stop per mode with
   a failure at every step; proofs.
9. **Admission** (done): connection request, NLA credentials and PAM login; proofs.
10. *EncoderContexts* (open): the life of the codec contexts over stops, renegotiations and
    frames being encoded, composed with RdpSession.
11. Proofs (done): every invariant that a run checks is also a theorem; what remains with TLC is
    liveness, section 7.

## 3. Modules and how they correspond to the code

**FrameQueueSpec / FrameQueue.** Each call of the code is one critical section and one action:
`Push`, `WaitCall` (lock to sleep or return), `WaitResume`, `WaitTimeout`, `Stop`, `Reset`,
`Dispose`. A frame is its push number. Sleeping threads are a set; `g_cond_broadcast` empties
it, and `SpuriousWakeup` is the freedom GLib's condition variables have. `FrameQueueSpec` is
the promise: a bounded FIFO that drops its oldest element when full and may be cleared.

**GraphicsPipeline.** The render loop is a program counter (`poll`, `wait`, `asleep`, `woken`,
`checked`, `pull`, `count`, `mode`) because sending a frame, counting it and recording its
codec are three critical sections between which acknowledgements are handled. Frames on the
wire are a number, answers a sequence of `ack` and `suspend`. `maybe_init` is two actions
since it drops the lock around `Open`, and both threads call it. The client and the channel
are external. The timed form of the wait is left out: the only caller passes -1.

**RdpSession.** One listener, its main thread and per session an event (VCM) thread and a
render thread. Joins are actions that wait for the other thread's end. Preparing and stopping
the stream go part by part, since the two happen on different threads without a lock. The
back-pressure of the pipeline appears as the render state `blocked`. `ReleasePeer` includes
the second `session_closed` that `peer->Disconnect` causes.

**Handover.** A client is named by its routing token; the object path is a function of it and
back. `Unqueue` is the removal of one link per client from the queue, written without recursion:
`Left` are the positions that stay, the n-th of them becomes the n-th element.
The system daemon is single-threaded and D-Bus calls are synchronous, so a method call
is one action; signals wait in an inbox per daemon. Thirty silent seconds are the flag
`stale`. The counter `handover_count` is kept up to 2, the code compares it with 2 only.

**Capture.** Starting acquires seven things in order (`Steps`), any of which may fail
(`StartFails`); `CleanupLocked` is the code's clean-up with its conditions on the display. Stop
is three actions, `StopClear` under the lock, `StopWake` (the byte) and `StopJoin`, and the
thread goes on between them: `Top`, `PollReturns`, `DrainRead` (one `read` of the pipe),
`Pending`, `CheckDue`/`CheckEarly`, `Grab`/`GrabFails`. The X server keeps a damage region,
reports when it becomes non-empty and executes `XDamageSubtract` only when the output buffer is
flushed; at `XDamageCreate` the whole window is damaged, as X.Org does. The deadline is the
flag `due`.

**Encoding.** One stream. A screen is a function from tiles to colours and the hash of a tile
stands for its content. The render thread takes a captured or the cached frame (`RenderTop`,
`SendCachedFrame`, `PullFrame`), encodes it against `gfx_previous_frame` (`EncodeFrame`), sends
it (`SendFrame`, or `Fail`), records it (`StoreFrame` with `RegisterCodecResult`) and adjusts
the timer (`UpdateRefreshTimer`, and `AssignTimer` because the timer may fire before its id is
stored). The timer's callback and the handler of the client's capabilities run on other threads
without a lock and are split where they touch shared fields twice. The client's picture and
its set of `fine` tiles are external state: AVC repaints everything with loss, the others what
they send without. The time since the switch is "none", "recent" or "old". The threshold for a
large change and the refresh timeout are taken as positive, as their defaults are; with a
timeout of 0, which the configuration permits, nothing refreshes a screen at rest.

**Config.** Pure operators, used by Startup: `NewFromFile` takes the key file group by
group, `MergeCli` adds the command line and ends with the checks. A key file and a command line are
functions on the keys they give. The words for a Boolean are the code's; numbers that are
compared keep their bounds (a port is at most 65535, a geometry positive); keys that nothing
reads later, those of the encoding among them, are there because a malformed one rejects the
file; a path is a pair of
directory and name, so that resolving it against the file's directory is visible. `MeantMode`,
`MeantNla`, `MeantPamService` and `MeantPort` are the reference definitions: one `IF` per rule
of precedence, where the code overwrites fields in order.

**Startup.** One run of the process. Each step of `drd_application_run` and of the mode it
starts is an action that goes on (`Continue`) or fails with what the code has not released by
then; `held` is the set of objects, sources, the bound port and the bus name. Signals that come
while the program starts wait for the loop; `RaiseSignal`, `DispatchSignal` and the timer that
quits the loop are separate. A lost bus name and a redirected client end the loop as well. The
loop dispatches one thing at a time: `serving` says that it is in a handler that works for a
client (`ServeClient`, `ClientServed`), and `stream` is the runtime's `stream_running`, which the
event threads set and clear meanwhile, also during the exit. What these handlers and threads do
is in RdpSession, Handover and Admission; here they matter because the main thread can wait for
them without end. `drd_application_dispose` is three steps in the code's order: `RemoveSources`,
`StopServing` (listener and runtime, which joins the capture thread of a running stream) and
`Release`. The references to the mode's daemon are counted, because the bus name owns one.

**Input.** Every operation of the injector is one critical section and one action. The X
server is external: its layout changes, its screen is resized and the stream stops between any
two events. The code reads the width of the desktop once, when it opens the display; the history
variable `measured` keeps what it read. Modifiers are looked up by key symbol, other keys through
FreeRDP's table, characters by Unicode symbol. The scale is a fraction and `Target` the code's
rounding and clamping. One axis stands for both. Its specification is named `InputSpec` (and so
`InputInit`, `InputNext`, `inputVars`), because its proofs share a module with the pipeline's.

**Admission.** The main thread peeks at header and request (`PeekHeader`, `PeekRequest`, with
the code's early returns), derives the hash, writes the SAM file, starts the event thread and
publishes the listener in the peer's context; on the event thread `Capabilities`,
`PostConnect`, `Login` step by step through PAM, `Activate` and `Leave`. A PAM call that fails
takes away only what the code gives back at that call (`GivenBack`). Disconnecting joins
that thread and closes the login. Requests are records of what the code tests: version,
length, kind, cookie and negotiation.

The `MC*` modules only supply constants. "Mutant" definitions are plausible bugs used to see
that each property can fail; the specifications do not use them.

### Faults

`RdpSession`, `Handover` and `Admission` have a variable `faults`, a set of environment
behaviours chosen in `Init` from the constant `FaultSets` and never changed. A behaviour
outside the set is excluded by a guard. Excluding one is never a claim that it cannot happen:
it is how the project says *which* behaviours break a promise, and the condition on `faults`
stands in the property itself.

| Module | Fault | The code's behaviour | Promise that excludes it |
|---|---|---|---|
| RdpSession | `wait_failed` | `WAIT_FAILED` ends the event thread without clearing `connection_alive`; when the closed callback is not set yet, nobody calls it | `EndedSessionForgotten` |
| | `activate_fails` | a failed activation disconnects on the event thread, which joins itself | `EndedSessionForgotten` |
| | `late_activation` | an activation starts a render thread after the disconnecting thread found none | `NoUseAfterRelease` |
| | `vanishing_client` | the render thread waits for an acknowledgement that never comes and is joined | `DisconnectReturnsIfAnswered` |
| | `overlapping_stop` | the stream is prepared while the previous one is still being stopped | `StreamWhole` (the condition stands in the property; the run's sets leave the fault out, for its size) |
| Handover | `reconnect` with `idle` or `overload` | a client returns with the token of a record that was removed as stale or to make room, is registered again under the old path and can be queued twice | `RemovedNotQueued`, `ClaimedOrQueued`, `OneServer` (through `NoneReturnsRemoved`) |
| | `leave`, `failure` | clients drop their connection, D-Bus and redirection calls fail | `RedirectedClientServed` (run without faults) |
| Admission | `silent_client` | the peek at the request has no deadline | `MainThreadReturns` |
| | `login_refused` | a refused login disconnects the session on its own event thread, which joins itself; the next disconnection joins that thread | `MainThreadReturns` |
| | `early_callbacks` | the handshake is over before the main thread has put the listener into the context; the callbacks then skip the login | `LoggedInWhenActive` |
| | `client_departs` | a client leaves by itself once its login has begun; its event thread ends, but nobody disconnects the session and closes the login | `LoginReleased` (excepts the departed client) |

`session_vanishing` keeps one of them as a run; giving the others to `FaultSets` and dropping
the condition makes TLC print the behaviour.

## 4. Runs

| Run | Instance | States | Shows |
|---|---|---|---|
| `frame_queue` | 3 slots, 2 waiters, 6 pushes, fair | 8 020 | nothing stale after a reset, no lost wakeup, a stop releases all waiters, refinement of the FIFO |
| `pipeline` | window 3, at most 5 in flight, fair | 9 735 | a sleeping render thread always has an answer to come and comes back, the window is respected, the SurfaceBits fall back is unreachable; no deadlock |
| `session` | 2 sessions, three sets of faults, fair | 533 104 | one session, callback at most once, stream whole and stopped when idle, no use after release, ended sessions forgotten, disconnects return |
| `session_vanishing` | 2 sessions, `vanishing_client`, fair | violation | disconnecting from a vanished client blocks the main thread for good |
| `handover` | 2 clients, 2 tokens, 3 daemons, no faults, fair | 25 012 | a redirected client reaches a daemon |
| `handover_faults` | 2 clients, 3 tokens, 2 daemons, queue of 2, two sets of faults | 1 034 448 | queue and table stay in step and without dangling entries, sockets reach the daemon of their token, every client has one server |
| `capture` | 3 starts, 4 changes, fair | 6 569 | the thread never outlives what it uses, nothing is left over, a change is lost only where the thread throws it away, and a screen at rest is captured otherwise |
| `capture_stop` | 2 starts, 2 changes, fair | violation | stop joins a thread that reads an empty blocking pipe |
| `encoding` | 2 tiles, 2 colours, interval 3, 4 changes, 1 renegotiation, 1 failure, fair | 484 572 | the encoder compares with what the client shows, coarse tiles are tracked and refreshed, the screen reaches the client; no deadlock |
| `startup` | 13 572 combinations of key file, command line and user, 2 signals, fair | 372 211 | the options in force are the ones given, late checks cannot fail, the loop runs only when ready, the exit is clean, a signal ends the run or the main thread waits for ever for a client or a stream; no deadlock |
| `input` | 4 things to press, 2 key codes, 2 layouts, widths 0 and 5, 2 streams | 434 250 | what the client lets go is up again, leftovers and characters excepted, no key code of an earlier stream, the pointer follows the scale in force to the nearest pixel |
| `admission` | 2 connections, 7 requests, all 16 sets of faults, every mode, NLA on and off, fair | 203 544 | credentials outlast failures, refused logins and disconnected sessions leave nothing with PAM, nobody active without a login, the main thread returns |

**Bounds.** `MaxFrames` = 3 is the code's own constant; six pushes wrap the ring twice.
`MaxOutstanding` = 3 is the code's default, and 5 in flight leaves room above the window for
H264 frames. Two sessions suffice for every race between an ending and a starting session, as
the listener admits one at a time; every session is used once. Handover needs the greeter's
and the desktop's daemon; a third one runs in `handover` so that both clients meet a late one.
`MaxPending` is 2 (the code has 32): with three tokens the queue is full while a client comes.
`MaxSignals` = 2 lets two signals of different kinds wait in either order, in Handover and in
Startup. Symmetry is used in the safety run of Handover only. Four changes of the screen let one
fall between any two steps of a capture and, in Encoding, go from AVC to differences and back;
two tiles are what it takes for a frame to leave one out, and one failure and one renegotiation
meet every state. Two colours make every tile change back as well. The key files of Startup
combine every way to say mode, NLA and PAM service, which depend on each other, and vary the
other keys one at a time, since nothing else reads them; the command lines likewise. In Input the two
layouts swap the codes of two keys and take the character away, and widths 5 and 2 (the default)
scale both ways with a remainder. The requests of Admission are one for each early return of the
parser. Deadlock checking is off where the system may rest: when all clients are gone, when the
bounded pushes or starts are used up, when the capture's stop hangs.

**Fairness.** Threads that can run do run: weak fairness of each thread's steps, of the D-Bus
daemons, and of handling what has arrived. `BlockedRenderResumes` and
`DisconnectReturnsIfAnswered` also assume a connected client that keeps decoding and
acknowledging, which RDPGFX asks of it. The capture's `g_poll` is not interrupted by signals for
ever, hence strong fairness of `PollReturns`. `PictureSharpens` needs that time passes and the
main loop runs. In Startup every call of the start returns (D-Bus calls have a timeout), the
loop dispatches what is due whenever no handler keeps it, and the exit proceeds whenever no
stream runs: strong fairness of the main thread's own steps, since clients come and streams stop
and start in between and none of them keeps a source that is due from being dispatched for ever.
Nothing is assumed of a handler's return or of a running stream's stop, and `SignalEndsRun`
names these two waits as its alternative. In Admission PAM answers, and a client that is not silent sends its
request. Nothing is assumed of new connections, redirections, activations, signals and failures.

## 5. Findings

`PROJECT.json` keeps these, each with a run:

* `session_vanishing`: `drd_rdp_session_stop_render_thread` joins a thread that waits for
  capacity without a deadline and that nothing wakes.
* `capture_stop`: the wake-up pipe is blocking and is read until it is empty
  (`drd_x11_capture.c:644`, `:688`), so a thread that stop wakes from `g_poll` never returns,
  where `doc/architecture.md:98` and `doc/changelog.md:221` promise a quick exit. RdpSession
  takes the capture's stop as returning: its liveness results assume that this is repaired.
  Startup does not: at the exit a running stream may never stop.

Other disagreements met while modelling, without a run of their own:

* Sessions: the four remaining faults of RdpSession, `overlapping_stop` among them
  (`drd_server_runtime_stop` clears `stream_running` before it stops the parts, so an activation
  in between starts parts that are then stopped). The wait for capacity has no deadline where
  `doc/architecture.md:126` speaks of one second.
* Capture: damage that arrives before the deadline, or is followed by a failing `XShmGetImage`,
  is dropped and the last change of a screen at rest is not captured, where
  `drd_x11_capture.c:479` and `doc/architecture.md:649` speak of a capture in every interval.
* Encoding: capability sets of version 8.1 enable H264 whatever the server's own setting says
  (`drd_rdp_graphics_pipeline.c:712`); a key frame requested while a frame is being encoded is
  forgotten (`drd_encoding_manager.c:1529`).
* Handover: `drd_system_daemon_queue_client` (`drd_system_daemon.c:363`) does not look whether
  the client is queued already, and removal deletes one link, so a client that returned under a
  removed record's path stays queued after it was freed, against the comment at `:387`; a client
  taken twice is never removed (`:1325`, the call is commented out, against
  `doc/architecture.md:164`); a client that returns with a token another record holds gets a new
  token and the old `remote_id` (`:482`); with two clients a display's daemon claims whichever
  client is first in the queue; a daemon that has taken a returning client before it handles its
  own `RedirectClient` redirects the client away.
* Admission: the refused login, the silent client and the early callbacks of the table above; the
  SAM file of a handshake that failed stays on disk, since the peer's context is never freed, where
  `doc/architecture.md:576` speaks of a clean-up. The PAM session of a client that leaves by itself
  stays open: its event thread ends and the listener forgets the session, but
  `drd_local_session_close` is called by `drd_rdp_session_disconnect` alone and nobody calls that,
  neither then nor when the service ends, where `doc/architecture.md:596` says that both a dropped
  connection and the end of the service close it. `LoginReleased` names the departed client as
  its exception; without `Departed` TLC prints the behaviour.
* Start: a handover daemon's listener announces the configured geometry while the runtime encodes
  the display's (`drd_handover_daemon.c:639`, `drd_application.c:291`,
  `drd_rdp_listener.c:1109`), against `doc/architecture.md:602`; `ServiceReady` exempts it. A
  system daemon that was started keeps a reference through its bus name and is never disposed;
  `ReleasedAtExit` exempts it.
* Exit: with a running stream a signal leaves the loop and then hangs in
  `drd_server_runtime_stop` (`drd_application.c:129`), which joins the capture thread of the finding
  `capture_stop`; a handler that waits for a silent client or joins a render thread
  (`session_vanishing`) keeps the loop from seeing the signal at all. By the time of the hang the
  sources are removed, so a second signal has its default action.
* Configuration: `[service] rdp_sso=true` switches NLA off as well (`drd_config.c:634`,
  `data/config.d/full-example.ini:53`), where `doc/architecture.md:13` names only `--disable-nla`
  and `enable_nla=false`. `MeantNla` follows the code and the example.
* Input: with a stream of another width than the desktop the pointer is stretched over the whole
  desktop (`doc/architecture.md:122`, `doc/changelog.md:647`), but the capture does not scale: it
  takes the part of the screen at the origin that has the stream's size
  (`drd_x11_capture.c:238`, `:574`), so the pointer is on the pixel shown only for equal widths. The
  desktop's width is read once (`drd_x11_input.c:162`): a resize does not change the scale.
  `PointerFaithful` therefore promises the very pixel for equal widths and says of the others only
  that the pointer follows the scale. A key held when the stream stops stays down in the X server; `NoStuckInput` counts it
  as `leftover`. A character's key is released under the code it has then, not the one it was
  pressed with; `typed` counts it.

## 6. Proofs

Checked by TLAPS for every value of the constants, from the named assumptions of the modules.

* **FrameQueueProofs.** `RingInvariance`: head, tail and size stay consistent, the ring holds
  the frames `nextFrame - size .. nextFrame - 1` at consecutive slots, free slots are NULL and
  nobody sleeps while there is a frame or a stop. The last two are needed for induction: a
  push is right only if the slot at `tail` is known, and `NoLostWakeup` only if every change
  of `size` broadcasts. `TypeCorrect`, `RingHoldsNewestFrames`, `WakeupsNotLost`, `NoFrameOfOldStream` follow;
  `RingImplementsFifo` maps every step to a step of the FIFO or a stutter. Assumes
  `MaxFrames \in Nat \ {0}` and nothing of the number of waiters or pushes.
* **StreamProofs**, the frames. `PipelineInvariance`: the invariant relates the count, the frame
  sent but not yet counted and what is on the wire, and says when the surface can be reset.
  The interesting case is the acknowledgement that overtakes the count and is swallowed at
  zero: it leaves the count one too high, which is harmless as long as the window is at least
  two. `MaxOutstanding \in Nat \ {0, 1}` is therefore an assumption of the theorems (the code
  uses 3). `RenderNeverStranded`, `CountStaysClose`, `NoFallback`, `WindowHolds` follow.
* **RdpSessionProofs.** `OneSessionAtATime` rests on the invariant that a session is registered
  only by the main thread, which saw an empty array and has been busy since (other threads
  only remove); `ClosedOnce` ties the number of calls to the flag set by compare-and-exchange.
  `SessionInvariance`: where the event threads are with respect to the main thread and the array
  (`LifeInv`; an event thread in its loop is the only one, and its session is registered, being
  registered or outlives the listener), and where the main thread can be while it closes or stops
  (`StageInv`). On top of it, `IdleMeansStopped` needs that whoever empties the array still has the
  stop ahead of it (`RunningInv`); `StreamStaysWhole` needs the exact parts that run at every
  place of a start or stop (`WholeInv`), as the property speaks of quiet states only and nothing
  would be known when the next start ends; `NothingReleasedInUse` needs that a disconnect finds no
  activation under way and that from the join on there is no render thread (`ReleaseInv`).
  For any finite set of sessions; the
  first two and `IdleMeansStopped` under every set of faults, the others under the condition
  on `faults` their property states.
* **HandoverProofs.** For any clients, tokens and daemons, any bound on the queue and every set of
  faults. `PeerInvariance` holds whatever goes wrong: a connection is in one record and is parked or
  that of the record's session (`HeldInv`); signals wait, and a session runs, only at a daemon that
  has come that far (`ProcessInv`); who is served is connected to that daemon, with the token of its
  object, and to no other (`ServingInv`); a socket that a daemon is told of came with its token
  (`ParkedInv`), and a token belongs to one client (`TokenInv`). `ServedWithItsToken` follows:
  nothing in the handover passes a socket to another client's daemon. The properties of the queue
  are true only if no client returns under the path of a record that was removed, and so is
  their invariant, `OrderInv`: the queue holds those registered and not claimed, each once
  (`QueueInv`); a client not taken yet is claimed by one daemon, which serves nobody (`ClaimInv`);
  no daemon is told of a socket whose session still runs here (`ReadyInv`), and the listener's
  session is connected to it (`ListedInv`). It is not inductive by itself: that a client which calls
  with a token finds its record (`TokensKept`) depends on everything that happened before. There are
  two ways to know it, each an invariant of its own, and `HandoverInvariance` takes both:
  without reconnections a client calls only while its record is claimed, and a claimed record
  is not removed (`NoReturnInv`); without idle records and a full queue no record is removed at
  all (`RoomInv`). `QueueHasNoDangling`, `NobodyForgotten` and `ServedOnce` follow.
  The operators on the queue have lemmas of their own (`RanksAreAll`, `UnqueueRemoves`), which
  rest on the library's theorems on finite cardinalities.
* **CaptureProofs.** `CaptureInvariance`: types, which resources are held at each step of start,
  thread and stop, and where an announcement of the last change is (event, region or buffered
  subtraction). The last part is the strengthening `NoSilentLoss` needs, since a change drawn
  onto a non-empty region sends no event. `ThreadKeepsItsParts`, `RestIsClean`,
  `ChangesAnnounced` and `TypeCorrect` follow, for any number of starts and changes.
* **EncodingProofs.** `EncodingInvariance`: `PreviousIsShown` alone is not inductive; a frame
  under way must leave out only tiles that equal the previous frame, and a frame sent but not
  recorded must be the client's picture (`Shown`). `CoarseIsTracked` needs the same of the
  tracking, and that the first frame of a codec other than AVC is a key frame (`Tracked`). The
  bound on the counter needs that a frame which is no key frame was encoded below the interval
  and nothing else counts meanwhile (`Counted`). `TypeCorrect`, `DifferencesAreReal` and
  `CoarseTilesTracked` follow for all tiles, colours, intervals and queue sizes, and any
  number of changes, failures and renegotiations. Assumes a positive threshold and queue size.
* **StartupProofs.** `StartInvariance`: the exact contents of `held` at every step of the start
  in every mode, together with what the merge has established and the number of references to
  the daemon. `ReleasedAtExit` is not inductive without it, because what a failing step leaves
  behind depends on all steps before it. `TypeCorrect` adds that whoever holds the daemon holds a
  reference and that every signal is counted once, waiting, as a timer or over. The exit is
  part of it: a lemma each for the loop, for the sources and the services, and for the release.
  `AcceptedMeansStartable` (the late checks repeat what the merge accepted), `LoopMeansReady` and
  `ExitLeavesNothing` follow, for all key files and command lines. `OptionsAreThoseGiven` follows the configuration through the code's overwrites,
  group by group and then through the merge: the PAM service is the one named or else that of the
  mode *so far* (`Options`), which is why changing the mode has to refresh it, and each group
  touches only the options it speaks of. At the end this is what the reference definitions
  say. Nothing is assumed of the files and command lines. Assumes that the generated one-time
  credentials are not NULL.
* **StreamProofs**, the input. `CachedCodesFresh`, `ReleasesReachTheServer`: what is down is down
  under the code in the cache, so the release, which reads the cache, finds it; the invariant says
  that the cache is filled on the press and emptied only with the display. `PointerFollowsScale`:
  whenever events are injected, the scale is the quotient of the stream's width and the one
  measured when the display was opened (`ScaleInv`), which no resize touches, and
  rounding by adding one half and dividing is within half a screen pixel of the exact point
  (`RoundedIsNearest`), also after clamping (`ClampedIsFaithful`). The products are the solver's
  weak point, so the lemmas isolate one inequality each. `InputTypeCorrect` completes it. For all
  layouts, keys, widths and numbers of streams.
* **AdmissionProofs.** `CredentialsOutlastFailures`: the password is wiped only once the hash is
  there, and the event thread runs only behind a written SAM file. `LoginInvariance`: what PAM
  holds at each place of the event thread, exactly, so that a failing call's clean-up is seen to be
  enough (`LoginInv`), and who is to close it: a thread that is over has left a login behind only if
  its session is being disconnected or its client has departed (`OwnerInv`). `NothingOfPamLeft` and
  `ActiveIsLoggedIn` follow. For any number of connections, all requests and sets of faults.

## 7. Only model-checked

Liveness under fairness (`StopReleasesWaiters`, `BlockedRenderResumes`,
`EndedSessionForgotten`, `DisconnectReturnsIfAnswered`, `RedirectedClientServed`,
`QuietScreenCaptured`, `PictureSharpens`, `ScreenReachesClient`, `SignalEndsRun`,
`MainThreadReturns`) is out of the prover's reach, because it needs `ENABLED`. The two violations,
`DisconnectReturns` and `StopReturns`, are counterexamples and nothing to prove. Every invariant of
section 4, and the refinement of the FIFO, is a theorem of section 6.

## 8. Not modelled

* The life of the codec contexts: planned, section 2.
* The transport switch has nothing behind it: the SurfaceBits encoder is a placeholder that
  fails every frame.
* Passive mode of the session, and the input callbacks that are registered nowhere.
* The text of the routing cookie and the layout of PDUs: a token is a name.
* Pixel copying, codecs, XTest calls, TLS, hashing and PEM parsing: pure I/O or numeric code.
  One-time credentials are a constant.
* Utilities are reference counts and single assignments.
* The Qt port repeats the structure of the C program and is a scaffold.
