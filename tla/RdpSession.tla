----------------------------- MODULE RdpSession -----------------------------
(***************************************************************************)
(* The life of RDP sessions, from accept to close: the listener's main     *)
(* thread (src/transport/drd_rdp_listener.c), and for every session its    *)
(* event (VCM) thread and its render thread (src/session/drd_rdp_session.c)*)
(* sharing the stream of drd_server_runtime.c.                             *)
(*                                                                         *)
(* The event thread runs FreeRDP's callbacks, so a session is activated,   *)
(* fails and is closed there, while the main thread accepts, registers and *)
(* disconnects.  g_thread_join is a step that waits for the other thread's *)
(* end.  The stream is the three parts the runtime starts and stops one    *)
(* after the other: encoder, input, capture.                               *)
(***************************************************************************)
EXTENDS Naturals, FiniteSets

CONSTANTS
    Sessions,   \* the peers that connect
    FaultSets   \* the sets of faults considered, subsets of FaultKinds

(* wait_failed: WaitForMultipleObjects fails before the session's closed   *)
(*   callback is set.                                                      *)
(* activate_fails: a client fails the desktop size check, or the stream    *)
(*   cannot be prepared.                                                   *)
(* late_activation: a client activates while the main thread disconnects   *)
(*   its session.                                                          *)
(* vanishing_client: a client is gone while it owes acknowledgements.      *)
(* overlapping_stop: a client activates while the stream of the previous   *)
(*   session is being stopped.                                             *)
FaultKinds == {"wait_failed", "activate_fails", "late_activation", "vanishing_client",
               "overlapping_stop"}

ASSUME SessionsAssumption == IsFiniteSet(Sessions) /\ "main" \notin Sessions
ASSUME FaultsAssumption == FaultSets \subseteq SUBSET FaultKinds

VARIABLES
    faults,            \* external: the behaviours of the environment that may occur
    \* drd_rdp_listener.c
    bound,             \* is_bound
    listed,            \* the sessions array
    main,              \* what the main thread is doing: [pc, session]
    \* drd_rdp_session.c, per session
    clientUp,          \* external: the client's connection
    connection_alive,
    vcm,               \* event thread
    is_activated,
    render,            \* render thread
    render_running,
    closed_cb,         \* closed_cb # NULL
    closed_cb_invoked,
    invocations,       \* history: how often the callback was called
    peerGone,          \* peer = NULL and graphics_pipeline released
    \* drd_server_runtime.c
    stream_running,
    encoder, input, capture,   \* its parts are running
    stage              \* thread -> its place in session_closed and runtime_stop

listenerVars == <<bound, listed>>
callbackVars == <<closed_cb, closed_cb_invoked, invocations>>
streamVars == <<stream_running, encoder, input, capture>>
vars == <<faults, bound, listed, main, clientUp, connection_alive, vcm, is_activated, render,
          render_running, closed_cb, closed_cb_invoked, invocations, peerGone,
          stream_running, encoder, input, capture, stage>>

Threads == {"main"} \cup Sessions   \* s names the event thread of session s

Idle == [pc |-> "idle", session |-> "main"]
At(pc, s) == [pc |-> pc, session |-> s]
MainFree == main = Idle /\ stage["main"] = "none"

Preparing(s) == vcm[s] \in {"encoder", "input", "capture"}
Disconnecting(s) == main.session = s /\ main.pc \in {"joinRender", "stop", "joinVcm", "disconnect"}

Init ==
    /\ faults \in FaultSets
    /\ bound = TRUE
    /\ listed = {}
    /\ main = Idle
    /\ clientUp = [s \in Sessions |-> FALSE]
    /\ connection_alive = [s \in Sessions |-> FALSE]
    /\ vcm = [s \in Sessions |-> "none"]
    /\ is_activated = [s \in Sessions |-> FALSE]
    /\ render = [s \in Sessions |-> "none"]
    /\ render_running = [s \in Sessions |-> FALSE]
    /\ closed_cb = [s \in Sessions |-> FALSE]
    /\ closed_cb_invoked = [s \in Sessions |-> FALSE]
    /\ invocations = [s \in Sessions |-> 0]
    /\ peerGone = [s \in Sessions |-> FALSE]
    /\ stream_running = FALSE
    /\ encoder = FALSE
    /\ input = FALSE
    /\ capture = FALSE
    /\ stage = [t \in Threads |-> "none"]
-----------------------------------------------------------------------------
(* Closing a session and stopping the stream, on any thread.               *)

\* Mutant: the callback is called by every thread that gets here.
NotifyEveryTime(t, s) ==
    IF closed_cb[s]
    THEN /\ invocations' = [invocations EXCEPT ![s] = @ + 1]
         /\ stage' = [stage EXCEPT ![t] = "remove"]
         /\ UNCHANGED <<closed_cb, closed_cb_invoked>>
    ELSE UNCHANGED <<callbackVars, stage>>

(* drd_rdp_session_notify_closed, and with it the start of the listener's  *)
(* drd_rdp_listener_on_session_closed.                                     *)
NotifyClosed(t, s) ==
    IF closed_cb[s] /\ ~closed_cb_invoked[s]
    THEN /\ closed_cb_invoked' = [closed_cb_invoked EXCEPT ![s] = TRUE]
         /\ invocations' = [invocations EXCEPT ![s] = @ + 1]
         /\ stage' = [stage EXCEPT ![t] = "remove"]
         /\ UNCHANGED closed_cb
    ELSE UNCHANGED <<callbackVars, stage>>

ClosingTarget(t) == IF t = "main" THEN main.session ELSE t

\* Mutant: the stream is left running when the last session is removed.
SessionClosedKeepsStream(t) ==
    /\ stage[t] = "remove"
    /\ listed' = listed \ {ClosingTarget(t)}
    /\ stage' = [stage EXCEPT ![t] = "none"]
    /\ UNCHANGED <<faults, bound, main, clientUp, connection_alive, vcm, is_activated, render,
                   render_running, callbackVars, peerGone, streamVars>>

(* drd_rdp_listener_session_closed: remove the session; when it was there  *)
(* and was the last one, stop the runtime.                                 *)
SessionClosed(t) ==
    /\ stage[t] = "remove"
    /\ listed' = listed \ {ClosingTarget(t)}
    /\ stage' = [stage EXCEPT ![t] =
                    IF ClosingTarget(t) \in listed /\ listed' = {} THEN "stop" ELSE "none"]
    /\ UNCHANGED <<faults, bound, main, clientUp, connection_alive, vcm, is_activated, render,
                   render_running, callbackVars, peerGone, streamVars>>

(* drd_capture_manager_stop: the queue is stopped and the capture ended.   *)
CaptureStop == capture' = FALSE

(* drd_server_runtime_stop: the flag first, then capture, encoder, input.  *)
RuntimeStop(t) ==
    /\ \/ /\ stage[t] = "stop"
          /\ stage' = [stage EXCEPT ![t] = IF stream_running THEN "capture" ELSE "none"]
          /\ stream_running' = FALSE
          /\ UNCHANGED <<encoder, input, capture>>
       \/ /\ stage[t] = "capture"
          /\ stage' = [stage EXCEPT ![t] = "encoder"]
          /\ CaptureStop
          /\ UNCHANGED <<stream_running, encoder, input>>
       \/ /\ stage[t] = "encoder"
          /\ stage' = [stage EXCEPT ![t] = "input"]
          /\ encoder' = FALSE
          /\ UNCHANGED <<stream_running, input, capture>>
       \/ /\ stage[t] = "input"
          /\ stage' = [stage EXCEPT ![t] = "none"]
          /\ input' = FALSE
          /\ UNCHANGED <<stream_running, encoder, capture>>
    /\ UNCHANGED <<faults, listenerVars, main, clientUp, connection_alive, vcm, is_activated, render,
                   render_running, callbackVars, peerGone>>
-----------------------------------------------------------------------------
(* The main thread.                                                        *)

(* drd_rdp_session_start_event_thread *)
StartEventThread(s) ==
    /\ connection_alive' = [connection_alive EXCEPT ![s] = TRUE]
    /\ vcm' = [vcm EXCEPT ![s] = "loop"]

\* Mutant: a second peer is accepted while one is active.
AcceptAlways(s) ==
    /\ MainFree
    /\ bound
    /\ vcm[s] = "none"
    /\ clientUp' = [clientUp EXCEPT ![s] = TRUE]
    /\ StartEventThread(s)
    /\ main' = At("register", s)
    /\ UNCHANGED <<faults, listenerVars, is_activated, render, render_running, callbackVars,
                   peerGone, streamVars, stage>>

(* drd_rdp_listener_accept_peer up to drd_rdp_session_start_event_thread:  *)
(* refused while a session is active; the event thread runs from here on.  *)
AcceptPeer(s) ==
    /\ MainFree
    /\ bound
    /\ vcm[s] = "none"
    /\ listed = {}
    /\ clientUp' = [clientUp EXCEPT ![s] = TRUE]
    /\ StartEventThread(s)
    /\ main' = At("register", s)
    /\ UNCHANGED <<faults, listenerVars, is_activated, render, render_running, callbackVars,
                   peerGone, streamVars, stage>>

(* g_ptr_array_add(self->sessions, ...) *)
Register(s) ==
    /\ main = At("register", s)
    /\ listed' = listed \cup {s}
    /\ main' = At("callback", s)
    /\ UNCHANGED <<faults, bound, clientUp, connection_alive, vcm, is_activated, render,
                   render_running, callbackVars, peerGone, streamVars, stage>>

(* drd_rdp_session_set_closed_callback stores the callback ...             *)
SetClosedCallback(s) ==
    /\ main = At("callback", s)
    /\ closed_cb' = [closed_cb EXCEPT ![s] = TRUE]
    /\ main' = At("check", s)
    /\ UNCHANGED <<faults, listenerVars, clientUp, connection_alive, vcm, is_activated, render,
                   render_running, closed_cb_invoked, invocations, peerGone, streamVars, stage>>

\* Mutant: a session that closed before its callback was set is not noticed.
NoCheckAlive(s) ==
    /\ main = At("check", s)
    /\ main' = Idle
    /\ UNCHANGED <<faults, listenerVars, clientUp, connection_alive, vcm, is_activated, render,
                   render_running, callbackVars, peerGone, streamVars, stage>>

(* ... and calls it at once when the connection is no longer alive.        *)
CheckAlive(s) ==
    /\ main = At("check", s)
    /\ main' = At("registered", s)
    /\ IF connection_alive[s] THEN UNCHANGED <<callbackVars, stage>> ELSE NotifyClosed("main", s)
    /\ UNCHANGED <<faults, listenerVars, clientUp, connection_alive, vcm, is_activated, render,
                   render_running, peerGone, streamVars>>

(* The main thread is back in its main loop.                               *)
MainReturns ==
    /\ main.pc \in {"registered", "disconnected"}
    /\ stage["main"] = "none"
    /\ main' = Idle
    /\ UNCHANGED <<faults, listenerVars, clientUp, connection_alive, vcm, is_activated, render,
                   render_running, callbackVars, peerGone, streamVars, stage>>

(* drd_rdp_session_disconnect, called on the main thread to redirect the   *)
(* client: drd_rdp_session_stop_event_thread first stops and joins the     *)
(* render thread, if there is one.                                         *)
Disconnect(s) ==
    /\ MainFree
    /\ vcm[s] # "none"
    /\ ~peerGone[s]
    /\ "late_activation" \in faults \/ ~Preparing(s)
    /\ IF render[s] = "none"
       THEN main' = At("stop", s) /\ UNCHANGED render_running
       ELSE main' = At("joinRender", s) /\ render_running' = [render_running EXCEPT ![s] = FALSE]
    /\ UNCHANGED <<faults, listenerVars, clientUp, connection_alive, vcm, is_activated, render,
                   callbackVars, peerGone, streamVars, stage>>

\* Mutant: the render thread is told to stop and not waited for.
NoJoinRender(s) ==
    /\ main = At("joinRender", s)
    /\ main' = At("stop", s)
    /\ UNCHANGED <<faults, listenerVars, clientUp, connection_alive, vcm, is_activated, render,
                   render_running, callbackVars, peerGone, streamVars, stage>>

JoinRender(s) ==
    /\ main = At("joinRender", s)
    /\ render[s] = "done"
    /\ main' = At("stop", s)
    /\ UNCHANGED <<faults, listenerVars, clientUp, connection_alive, vcm, is_activated, render,
                   render_running, callbackVars, peerGone, streamVars, stage>>

(* connection_alive = 0 and SetEvent(stop_event).                          *)
StopEventThread(s) ==
    /\ main = At("stop", s)
    /\ connection_alive' = [connection_alive EXCEPT ![s] = FALSE]
    /\ main' = At("joinVcm", s)
    /\ UNCHANGED <<faults, listenerVars, clientUp, vcm, is_activated, render, render_running,
                   callbackVars, peerGone, streamVars, stage>>

JoinVcm(s) ==
    /\ main = At("joinVcm", s)
    /\ vcm[s] = "done"
    /\ main' = At("disconnect", s)
    /\ NotifyClosed("main", s)
    /\ UNCHANGED <<faults, listenerVars, clientUp, connection_alive, vcm, is_activated, render,
                   render_running, peerGone, streamVars>>

(* The rest of drd_rdp_session_disconnect: the pipeline is released, the   *)
(* flags are cleared, peer->Disconnect reports the session closed once     *)
(* more, and peer is NULL.                                                 *)
ReleasePeer(s) ==
    /\ main = At("disconnect", s)
    /\ stage["main"] = "none"
    /\ render_running' = [render_running EXCEPT ![s] = FALSE]
    /\ connection_alive' = [connection_alive EXCEPT ![s] = FALSE]
    /\ peerGone' = [peerGone EXCEPT ![s] = TRUE]
    /\ is_activated' = [is_activated EXCEPT ![s] = FALSE]
    /\ stage' = [stage EXCEPT !["main"] = "remove"]
    /\ main' = At("disconnected", s)
    /\ UNCHANGED <<faults, listenerVars, clientUp, vcm, render, callbackVars, streamVars>>

(* drd_rdp_listener_stop_internal: the array is emptied and the runtime    *)
(* stopped; the sessions' threads are left alone.                          *)
ListenerStop ==
    /\ MainFree
    /\ bound
    /\ "overlapping_stop" \in faults \/ \A s \in Sessions : ~Preparing(s) /\ stage[s] = "none"
    /\ bound' = FALSE
    /\ listed' = {}
    /\ stage' = [stage EXCEPT !["main"] = "stop"]
    /\ UNCHANGED <<faults, main, clientUp, connection_alive, vcm, is_activated, render,
                   render_running, callbackVars, peerGone, streamVars>>
-----------------------------------------------------------------------------
(* The event thread of a session: drd_rdp_session_vcm_thread and the       *)
(* FreeRDP callbacks it runs.                                              *)

StartRender(s) ==
    /\ is_activated' = [is_activated EXCEPT ![s] = TRUE]
    /\ render_running' = [render_running EXCEPT ![s] = TRUE]
    /\ render' = [render EXCEPT ![s] = "loop"]
    /\ vcm' = [vcm EXCEPT ![s] = "loop"]

(* A failed activation calls drd_rdp_session_disconnect on this thread:    *)
(* connection_alive is cleared and the thread joins itself.                *)
JoinSelf(s) ==
    /\ connection_alive' = [connection_alive EXCEPT ![s] = FALSE]
    /\ vcm' = [vcm EXCEPT ![s] = "joinsSelf"]
    /\ UNCHANGED <<is_activated, render, render_running>>

(* drd_rdp_session_enforce_peer_desktop_size: a client that cannot resize  *)
(* its desktop is refused.                                                 *)
DesktopSizeRefused == "activate_fails" \in faults

(* drd_rdp_session_activate: enforce the desktop size, then use a running  *)
(* stream or prepare one.                                                  *)
Activate(s) ==
    /\ vcm[s] = "loop"
    /\ clientUp[s]
    /\ connection_alive[s]
    /\ render[s] = "none"
    /\ "late_activation" \in faults \/ ~Disconnecting(s)
    /\ "overlapping_stop" \in faults \/ \A t \in Threads : stage[t] \in {"none", "remove"}
    /\ \/ /\ DesktopSizeRefused
          /\ JoinSelf(s)
       \/ /\ stream_running
          /\ StartRender(s)
          /\ UNCHANGED connection_alive
       \/ /\ ~stream_running
          /\ vcm' = [vcm EXCEPT ![s] = "encoder"]
          /\ UNCHANGED <<connection_alive, is_activated, render, render_running>>
    /\ UNCHANGED <<faults, listenerVars, main, clientUp, callbackVars, peerGone, streamVars, stage>>

(* drd_capture_manager_start leaves a capture that still runs as it is.    *)
CaptureStart == capture' = TRUE

\* Mutant: a failed capture start leaves the input and the encoder running.
PrepareStreamNoRollback(s) ==
    /\ \/ /\ vcm[s] = "encoder"
          /\ encoder' = TRUE
          /\ vcm' = [vcm EXCEPT ![s] = "input"]
          /\ UNCHANGED <<connection_alive, is_activated, render, render_running, stream_running,
                         input, capture>>
       \/ /\ vcm[s] = "input"
          /\ input' = TRUE
          /\ vcm' = [vcm EXCEPT ![s] = "capture"]
          /\ UNCHANGED <<connection_alive, is_activated, render, render_running, stream_running,
                         encoder, capture>>
       \/ /\ vcm[s] = "capture"
          /\ CaptureStart
          /\ stream_running' = TRUE
          /\ StartRender(s)
          /\ UNCHANGED <<connection_alive, encoder, input>>
       \/ /\ Preparing(s)
          /\ "activate_fails" \in faults
          /\ JoinSelf(s)
          /\ UNCHANGED streamVars
    /\ UNCHANGED <<faults, listenerVars, main, clientUp, callbackVars, peerGone, stage>>

(* drd_server_runtime_prepare_stream: encoder, input, capture; what was    *)
(* started is stopped again when a later part fails.                       *)
PrepareStream(s) ==
    /\ \/ /\ vcm[s] = "encoder"
          /\ encoder' = TRUE
          /\ vcm' = [vcm EXCEPT ![s] = "input"]
          /\ UNCHANGED <<connection_alive, is_activated, render, render_running, stream_running,
                         input, capture>>
       \/ /\ vcm[s] = "input"
          /\ input' = TRUE
          /\ vcm' = [vcm EXCEPT ![s] = "capture"]
          /\ UNCHANGED <<connection_alive, is_activated, render, render_running, stream_running,
                         encoder, capture>>
       \/ /\ vcm[s] = "capture"
          /\ CaptureStart
          /\ stream_running' = TRUE
          /\ StartRender(s)
          /\ UNCHANGED <<connection_alive, encoder, input>>
       \/ /\ Preparing(s)
          /\ "activate_fails" \in faults
          /\ JoinSelf(s)
          /\ encoder' = (encoder /\ vcm[s] = "encoder")
          /\ input' = (input /\ vcm[s] # "capture")
          /\ UNCHANGED <<stream_running, capture>>
    /\ UNCHANGED <<faults, listenerVars, main, clientUp, callbackVars, peerGone, stage>>

(* The loop ends: the connection is gone or stop_event was set.            *)
VcmLeaves(s) ==
    /\ vcm[s] = "loop"
    /\ ~clientUp[s] \/ ~connection_alive[s]
    /\ connection_alive' = [connection_alive EXCEPT ![s] = FALSE]
    /\ vcm' = [vcm EXCEPT ![s] = "leave"]
    /\ UNCHANGED <<faults, listenerVars, main, clientUp, is_activated, render, render_running,
                   callbackVars, peerGone, streamVars, stage>>

(* The loop ends on WAIT_FAILED, which leaves connection_alive set.        *)
VcmWaitFails(s) ==
    /\ vcm[s] = "loop"
    /\ "wait_failed" \in faults \/ closed_cb[s]
    /\ vcm' = [vcm EXCEPT ![s] = "leave"]
    /\ UNCHANGED <<faults, listenerVars, main, clientUp, connection_alive, is_activated, render,
                   render_running, callbackVars, peerGone, streamVars, stage>>

(* After the loop: stop the render thread without waiting for it and call  *)
(* the closed callback.                                                    *)
VcmNotifies(s) ==
    /\ vcm[s] = "leave"
    /\ render_running' = [render_running EXCEPT ![s] = FALSE]
    /\ NotifyClosed(s, s)
    /\ vcm' = [vcm EXCEPT ![s] = "closing"]
    /\ UNCHANGED <<faults, listenerVars, main, clientUp, connection_alive, is_activated, render,
                   peerGone, streamVars>>

VcmEnds(s) ==
    /\ vcm[s] = "closing"
    /\ stage[s] = "none"
    /\ vcm' = [vcm EXCEPT ![s] = "done"]
    /\ UNCHANGED <<faults, listenerVars, main, clientUp, connection_alive, is_activated, render,
                   render_running, callbackVars, peerGone, streamVars, stage>>
-----------------------------------------------------------------------------
\* Mutant: the render thread leaves only when the connection is gone.
RenderTopKeepsOn(s) ==
    /\ render[s] = "loop"
    /\ IF connection_alive[s]
       THEN \/ render' = [render EXCEPT ![s] = "use"]
            \/ /\ clientUp[s] \/ "vanishing_client" \in faults
               /\ render' = [render EXCEPT ![s] = "blocked"]
       ELSE render' = [render EXCEPT ![s] = "done"]
    /\ UNCHANGED <<faults, listenerVars, main, clientUp, connection_alive, vcm, is_activated,
                   render_running, callbackVars, peerGone, streamVars, stage>>

(* drd_rdp_session_render_thread: at the top of its loop it leaves when    *)
(* told to, otherwise it may wait for capacity, without a deadline, and    *)
(* then encodes with the peer's settings and channel.                      *)
RenderTop(s) ==
    /\ render[s] = "loop"
    /\ IF render_running[s] /\ connection_alive[s]
       THEN \/ render' = [render EXCEPT ![s] = "use"]
            \/ /\ clientUp[s] \/ "vanishing_client" \in faults
               /\ render' = [render EXCEPT ![s] = "blocked"]
       ELSE render' = [render EXCEPT ![s] = "done"]
    /\ UNCHANGED <<faults, listenerVars, main, clientUp, connection_alive, vcm, is_activated,
                   render_running, callbackVars, peerGone, streamVars, stage>>

(* An acknowledgement of a connected client wakes it.                      *)
RenderUnblocked(s) ==
    /\ render[s] = "blocked"
    /\ clientUp[s]
    /\ render' = [render EXCEPT ![s] = "use"]
    /\ UNCHANGED <<faults, listenerVars, main, clientUp, connection_alive, vcm, is_activated,
                   render_running, callbackVars, peerGone, streamVars, stage>>

RenderUsesPeer(s) ==
    /\ render[s] = "use"
    /\ render' = [render EXCEPT ![s] = "loop"]
    /\ UNCHANGED <<faults, listenerVars, main, clientUp, connection_alive, vcm, is_activated,
                   render_running, callbackVars, peerGone, streamVars, stage>>

(* External: the client closes its connection, or loses it.                *)
ClientLeaves(s) ==
    /\ clientUp[s]
    /\ render[s] # "blocked" \/ "vanishing_client" \in faults
    /\ clientUp' = [clientUp EXCEPT ![s] = FALSE]
    /\ UNCHANGED <<faults, listenerVars, main, connection_alive, vcm, is_activated, render,
                   render_running, callbackVars, peerGone, streamVars, stage>>
-----------------------------------------------------------------------------
MainStep ==
    \/ MainReturns
    \/ \E s \in Sessions :
          \/ Register(s) \/ SetClosedCallback(s) \/ CheckAlive(s)
          \/ JoinRender(s) \/ StopEventThread(s) \/ JoinVcm(s) \/ ReleasePeer(s)

VcmStep(s) == PrepareStream(s) \/ VcmLeaves(s) \/ VcmNotifies(s) \/ VcmEnds(s)

RenderStep(s) == RenderTop(s) \/ RenderUsesPeer(s) \/ RenderUnblocked(s)

Next ==
    \/ MainStep
    \/ ListenerStop
    \/ \E t \in Threads : SessionClosed(t) \/ RuntimeStop(t)
    \/ \E s \in Sessions :
          \/ AcceptPeer(s) \/ Disconnect(s)
          \/ Activate(s) \/ VcmWaitFails(s) \/ VcmStep(s)
          \/ RenderStep(s) \/ ClientLeaves(s)

(* Threads that can run do, and a connected client acknowledges; nothing   *)
(* is assumed of new connections, redirections, activations and failures.  *)
Fairness ==
    /\ WF_vars(MainStep)
    /\ \A t \in Threads : WF_vars(SessionClosed(t)) /\ WF_vars(RuntimeStop(t))
    /\ \A s \in Sessions : WF_vars(VcmStep(s)) /\ WF_vars(RenderStep(s))

Spec == Init /\ [][Next]_vars

FairSpec == Spec /\ Fairness
-----------------------------------------------------------------------------
TypeOK ==
    /\ faults \in FaultSets
    /\ bound \in BOOLEAN
    /\ listed \subseteq Sessions
    /\ \/ main = Idle
       \/ main \in [pc: {"register", "callback", "check", "registered", "joinRender", "stop",
                         "joinVcm", "disconnect", "disconnected"}, session: Sessions]
    /\ clientUp \in [Sessions -> BOOLEAN]
    /\ connection_alive \in [Sessions -> BOOLEAN]
    /\ vcm \in [Sessions -> {"none", "loop", "encoder", "input", "capture", "joinsSelf",
                             "leave", "closing", "done"}]
    /\ is_activated \in [Sessions -> BOOLEAN]
    /\ render \in [Sessions -> {"none", "loop", "blocked", "use", "done"}]
    /\ render_running \in [Sessions -> BOOLEAN]
    /\ closed_cb \in [Sessions -> BOOLEAN]
    /\ closed_cb_invoked \in [Sessions -> BOOLEAN]
    /\ invocations \in [Sessions -> Nat]
    /\ peerGone \in [Sessions -> BOOLEAN]
    /\ stream_running \in BOOLEAN
    /\ encoder \in BOOLEAN
    /\ input \in BOOLEAN
    /\ capture \in BOOLEAN
    /\ stage \in [Threads -> {"none", "remove", "stop", "capture", "encoder", "input"}]

(* One session at a time: a peer is refused while another is registered,   *)
(* although sessions are removed on other threads than the one that adds   *)
(* them.                                                                   *)
SingleSession == \A a, b \in listed : a = b

(* The closed callback is called at most once per session, whichever of    *)
(* the event thread, the registration and the disconnection gets there.    *)
ClosedAtMostOnce == \A s \in Sessions : invocations[s] <= 1

Quiet == /\ \A t \in Threads : stage[t] = "none"
         /\ \A s \in Sessions : ~Preparing(s)

(* Between starts and stops the stream is whole: its three parts run       *)
(* exactly when stream_running says so, also after a failed start; unless  *)
(* a client activates while the stream is being stopped.                   *)
StreamWhole ==
    "overlapping_stop" \notin faults /\ Quiet
       => encoder = stream_running /\ input = stream_running /\ capture = stream_running

(* The stream does not outlive the sessions: with no session registered,   *)
(* being registered or being closed, it is stopped.                        *)
IdleStreamStopped ==
    bound /\ listed = {} /\ MainFree /\ Quiet
          /\ (\A s \in Sessions : vcm[s] \in {"none", "done"})
       => ~stream_running

(* The render thread never uses a peer and a pipeline that the disconnect  *)
(* has released, unless the client activates during the disconnect: the    *)
(* render thread started then is not joined.                               *)
NoUseAfterRelease ==
    "late_activation" \notin faults =>
        \A s \in Sessions : peerGone[s] => render[s] \notin {"blocked", "use"}

VcmOver(s) == vcm[s] \in {"leave", "closing", "done", "joinsSelf"}

(* A session whose event thread is over does not stay registered: the      *)
(* listener accepts the next client.  Not so when the thread fails with    *)
(* connection_alive set before its callback is, or joins itself.           *)
EndedSessionForgotten ==
    {"wait_failed", "activate_fails"} \intersect faults = {} =>
        ((\E s \in listed : VcmOver(s)) ~> (\A s \in listed : ~VcmOver(s)))

(* Disconnecting a session returns to the main loop: the joins end.        *)
DisconnectReturns == (main.pc = "joinRender") ~> (main = Idle)

(* They do whenever a client that owes acknowledgements stays connected.   *)
DisconnectReturnsIfAnswered == "vanishing_client" \notin faults => DisconnectReturns
=============================================================================
