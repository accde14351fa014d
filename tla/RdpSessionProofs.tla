-------------------------- MODULE RdpSessionProofs --------------------------
(***************************************************************************)
(* Proofs about RdpSession, for any set of sessions and every combination  *)
(* of faults: at most one session is registered, the closed callback of a  *)
(* session is called at most once, the stream is whole between starts and  *)
(* stops and does not outlive the sessions, and the render thread uses     *)
(* nothing that was released.                                              *)
(***************************************************************************)
EXTENDS RdpSession, TLAPS

(* The first needs to know that the check of AcceptPeer still holds when   *)
(* Register acts on it: no other step adds to the array.                   *)
RegistersAlone == main.pc = "register" => listed = {}

ListenerInv == RegistersAlone /\ SingleSession

(* The second ties the number of calls to the flag that is exchanged       *)
(* before each of them.                                                    *)
CallbackInv ==
    /\ invocations \in [Sessions -> Nat]
    /\ closed_cb_invoked \in [Sessions -> BOOLEAN]
    /\ \A s \in Sessions : invocations[s] = IF closed_cb_invoked[s] THEN 1 ELSE 0
-----------------------------------------------------------------------------
(* The steps that leave the array alone, and start no registration.        *)
LEMMA ElsewhereKeepsListenerInv ==
    ASSUME ListenerInv, UNCHANGED listed, main' = main \/ main'.pc # "register"
    PROVE  ListenerInv'
BY DEF ListenerInv, RegistersAlone, SingleSession

(* Every step of RdpSession preserves ListenerInv.                         *)
LEMMA StepKeepsListenerInv ==
    ASSUME ListenerInv, [Next]_vars PROVE ListenerInv'
<1>1. CASE UNCHANGED vars
  BY <1>1 DEF vars, ListenerInv, RegistersAlone, SingleSession
<1>2. CASE MainReturns
  BY <1>2, ElsewhereKeepsListenerInv DEF MainReturns, Idle, listenerVars
<1>3. CASE ListenerStop
  BY <1>3 DEF ListenerStop, ListenerInv, RegistersAlone, SingleSession
<1>4. ASSUME NEW t \in Threads, SessionClosed(t) PROVE ListenerInv'
  BY <1>4 DEF SessionClosed, ListenerInv, RegistersAlone, SingleSession
<1>5. ASSUME NEW t \in Threads, RuntimeStop(t) PROVE ListenerInv'
  BY <1>5, ElsewhereKeepsListenerInv DEF RuntimeStop, listenerVars
<1>6. ASSUME NEW s \in Sessions, AcceptPeer(s) PROVE ListenerInv'
  BY <1>6 DEF AcceptPeer, At, listenerVars, ListenerInv, RegistersAlone, SingleSession
<1>7. ASSUME NEW s \in Sessions, Register(s) PROVE ListenerInv'
  <2>1. listed = {} /\ listed' = {s} /\ main'.pc # "register"
    BY <1>7 DEF Register, At, ListenerInv, RegistersAlone
  <2>2. QED
    BY <2>1 DEF ListenerInv, RegistersAlone, SingleSession
<1>8. ASSUME NEW s \in Sessions,
             SetClosedCallback(s) \/ CheckAlive(s) \/ JoinRender(s) \/ StopEventThread(s)
               \/ JoinVcm(s) \/ ReleasePeer(s) \/ Disconnect(s)
      PROVE  ListenerInv'
  <2>1. UNCHANGED listed /\ main'.pc # "register"
    BY <1>8 DEF SetClosedCallback, CheckAlive, JoinRender, StopEventThread, JoinVcm,
                ReleasePeer, Disconnect, At, listenerVars
  <2>2. QED
    BY <2>1, ElsewhereKeepsListenerInv
<1>9. ASSUME NEW s \in Sessions,
             Activate(s) \/ VcmWaitFails(s) \/ VcmStep(s) \/ RenderStep(s) \/ ClientLeaves(s)
      PROVE  ListenerInv'
  <2>1. UNCHANGED <<listed, main>>
    BY <1>9 DEF Activate, VcmWaitFails, VcmStep, PrepareStream, VcmLeaves, VcmNotifies, VcmEnds,
                RenderStep, RenderTop, RenderUsesPeer, RenderUnblocked, ClientLeaves, listenerVars
  <2>2. QED
    BY <2>1, ElsewhereKeepsListenerInv
<1>10. QED
  BY <1>1, <1>2, <1>3, <1>4, <1>5, <1>6, <1>7, <1>8, <1>9 DEF Next, MainStep

(* At most one session is in the listener's array, although sessions are   *)
(* removed by other threads than the main thread that checks and adds.     *)
THEOREM OneSessionAtATime == Spec => []SingleSession
<1>1. Init => ListenerInv
  BY DEF Init, Idle, ListenerInv, RegistersAlone, SingleSession
<1>2. ListenerInv /\ [Next]_vars => ListenerInv'
  BY StepKeepsListenerInv
<1>3. ListenerInv => SingleSession
  BY DEF ListenerInv
<1>4. QED
  BY <1>1, <1>2, <1>3, PTL DEF Spec
-----------------------------------------------------------------------------
(* notify_closed preserves CallbackInv, whichever thread calls it.         *)
LEMMA NotifyKeepsCallbackInv ==
    ASSUME CallbackInv, NEW t, NEW s \in Sessions, NotifyClosed(t, s) PROVE CallbackInv'
<1>1. CASE closed_cb[s] /\ ~closed_cb_invoked[s]
  <2>1. invocations' = [invocations EXCEPT ![s] = invocations[s] + 1]
    BY <1>1 DEF NotifyClosed
  <2>2. closed_cb_invoked' = [closed_cb_invoked EXCEPT ![s] = TRUE]
    BY <1>1 DEF NotifyClosed
  <2>3. invocations[s] = 0
    BY <1>1 DEF CallbackInv
  <2>4. invocations' \in [Sessions -> Nat]
    BY <2>1, <2>3 DEF CallbackInv
  <2>5. closed_cb_invoked' \in [Sessions -> BOOLEAN]
    BY <2>2 DEF CallbackInv
  <2>6. invocations'[s] = 1 /\ closed_cb_invoked'[s]
    BY <2>1, <2>2, <2>3 DEF CallbackInv
  <2>7. ASSUME NEW r \in Sessions, r # s
        PROVE  invocations'[r] = invocations[r] /\ closed_cb_invoked'[r] = closed_cb_invoked[r]
    BY <2>1, <2>2, <2>7 DEF CallbackInv
  <2>8. ASSUME NEW r \in Sessions
        PROVE  invocations'[r] = IF closed_cb_invoked'[r] THEN 1 ELSE 0
    BY <2>6, <2>7 DEF CallbackInv
  <2>9. QED
    BY <2>4, <2>5, <2>8 DEF CallbackInv
<1>2. CASE ~(closed_cb[s] /\ ~closed_cb_invoked[s])
  BY <1>2 DEF NotifyClosed, CallbackInv, callbackVars
<1>3. QED
  BY <1>1, <1>2

(* The steps that call nobody.                                             *)
LEMMA SilenceKeepsCallbackInv ==
    ASSUME CallbackInv, UNCHANGED <<invocations, closed_cb_invoked>> PROVE CallbackInv'
BY DEF CallbackInv

(* Every step of RdpSession preserves CallbackInv.                         *)
LEMMA StepKeepsCallbackInv ==
    ASSUME CallbackInv, [Next]_vars PROVE CallbackInv'
<1>1. CASE UNCHANGED vars
  BY <1>1, SilenceKeepsCallbackInv DEF vars
<1>2. CASE MainReturns \/ ListenerStop
  BY <1>2, SilenceKeepsCallbackInv DEF MainReturns, ListenerStop, callbackVars
<1>3. ASSUME NEW t \in Threads, SessionClosed(t) \/ RuntimeStop(t) PROVE CallbackInv'
  BY <1>3, SilenceKeepsCallbackInv DEF SessionClosed, RuntimeStop, callbackVars
<1>4. ASSUME NEW s \in Sessions, CheckAlive(s) PROVE CallbackInv'
  BY <1>4, NotifyKeepsCallbackInv, SilenceKeepsCallbackInv DEF CheckAlive, callbackVars
<1>5. ASSUME NEW s \in Sessions, JoinVcm(s) \/ VcmNotifies(s) PROVE CallbackInv'
  BY <1>5, NotifyKeepsCallbackInv DEF JoinVcm, VcmNotifies
<1>6. ASSUME NEW s \in Sessions,
             AcceptPeer(s) \/ Register(s) \/ SetClosedCallback(s) \/ JoinRender(s)
               \/ StopEventThread(s) \/ ReleasePeer(s) \/ Disconnect(s)
      PROVE  CallbackInv'
  BY <1>6, SilenceKeepsCallbackInv
     DEF AcceptPeer, Register, SetClosedCallback, JoinRender, StopEventThread, ReleasePeer,
         Disconnect, callbackVars
<1>7. ASSUME NEW s \in Sessions,
             Activate(s) \/ VcmWaitFails(s) \/ PrepareStream(s) \/ VcmLeaves(s) \/ VcmEnds(s)
               \/ RenderStep(s) \/ ClientLeaves(s)
      PROVE  CallbackInv'
  BY <1>7, SilenceKeepsCallbackInv
     DEF Activate, VcmWaitFails, PrepareStream, VcmLeaves, VcmEnds, RenderStep, RenderTop,
         RenderUsesPeer, RenderUnblocked, ClientLeaves, callbackVars
<1>8. QED
  BY <1>1, <1>2, <1>3, <1>4, <1>5, <1>6, <1>7 DEF Next, MainStep, VcmStep

(* The closed callback of a session is called at most once, although the   *)
(* event thread, the registration and the disconnection all call           *)
(* notify_closed.                                                          *)
THEOREM ClosedOnce == Spec => []ClosedAtMostOnce
<1>1. Init => CallbackInv
  BY DEF Init, CallbackInv
<1>2. CallbackInv /\ [Next]_vars => CallbackInv'
  BY StepKeepsCallbackInv
<1>3. CallbackInv => ClosedAtMostOnce
  <2>1. SUFFICES ASSUME CallbackInv, NEW s \in Sessions PROVE invocations[s] <= 1
    BY DEF ClosedAtMostOnce
  <2>2. invocations[s] = 0 \/ invocations[s] = 1
    BY <2>1 DEF CallbackInv
  <2>3. QED
    BY <2>2
<1>4. QED
  BY <1>1, <1>2, <1>3, PTL DEF Spec
-----------------------------------------------------------------------------
(* notify_closed keeps the types of what it writes.                        *)
LEMMA NotifyKeepsTypes ==
    ASSUME TypeOK, NEW t \in Threads, NEW s \in Sessions, NotifyClosed(t, s)
    PROVE  /\ closed_cb' \in [Sessions -> BOOLEAN] /\ closed_cb_invoked' \in [Sessions -> BOOLEAN]
           /\ invocations' \in [Sessions -> Nat]
           /\ stage' \in [Threads -> {"none", "remove", "stop", "capture", "encoder", "input"}]
<1>1. CASE closed_cb[s] /\ ~closed_cb_invoked[s]
  <2>1. invocations[s] + 1 \in Nat
    BY DEF TypeOK
  <2>2. QED
    BY <1>1, <2>1 DEF NotifyClosed, TypeOK
<1>2. CASE ~(closed_cb[s] /\ ~closed_cb_invoked[s])
  BY <1>2 DEF NotifyClosed, TypeOK, callbackVars
<1>3. QED
  BY <1>1, <1>2

(* The steps from accept to the return to the main loop keep the types.    *)
LEMMA MainKeepsTypeOK ==
    ASSUME TypeOK, NEW s \in Sessions,
           AcceptPeer(s) \/ Register(s) \/ SetClosedCallback(s) \/ CheckAlive(s) \/ MainReturns
    PROVE  TypeOK'
<1>1. CASE AcceptPeer(s)
  BY <1>1 DEF AcceptPeer, StartEventThread, At, TypeOK, listenerVars, callbackVars, streamVars
<1>2. CASE Register(s)
  BY <1>2 DEF Register, At, TypeOK, callbackVars, streamVars
<1>3. CASE SetClosedCallback(s)
  BY <1>3 DEF SetClosedCallback, At, TypeOK, listenerVars, streamVars
<1>4. CASE CheckAlive(s)
  BY <1>4, NotifyKeepsTypes
     DEF CheckAlive, At, TypeOK, listenerVars, callbackVars, streamVars, Threads
<1>5. CASE MainReturns
  BY <1>5 DEF MainReturns, TypeOK, listenerVars, callbackVars, streamVars
<1>6. QED
  BY <1>1, <1>2, <1>3, <1>4, <1>5

(* So do the steps of a disconnect, and the stop of the listener,          *)
LEMMA DisconnectKeepsTypeOK ==
    ASSUME TypeOK, NEW s \in Sessions,
           Disconnect(s) \/ JoinRender(s) \/ StopEventThread(s) \/ JoinVcm(s) \/ ReleasePeer(s)
             \/ ListenerStop
    PROVE  TypeOK'
<1>1. CASE Disconnect(s)
  <2>1. render_running' \in [Sessions -> BOOLEAN]
    BY <1>1 DEF Disconnect, TypeOK
  <2>2. main' \in {At("stop", s), At("joinRender", s)}
    BY <1>1 DEF Disconnect
  <2>3. QED
    BY <1>1, <2>1, <2>2 DEF Disconnect, At, TypeOK, listenerVars, callbackVars, streamVars
<1>2. CASE JoinRender(s)
  BY <1>2 DEF JoinRender, At, TypeOK, listenerVars, callbackVars, streamVars
<1>3. CASE StopEventThread(s)
  BY <1>3 DEF StopEventThread, At, TypeOK, listenerVars, callbackVars, streamVars
<1>4. CASE JoinVcm(s)
  BY <1>4, NotifyKeepsTypes DEF JoinVcm, At, TypeOK, listenerVars, streamVars, Threads
<1>5. CASE ReleasePeer(s)
  BY <1>5 DEF ReleasePeer, At, TypeOK, listenerVars, callbackVars, streamVars, Threads
<1>6. CASE ListenerStop
  BY <1>6 DEF ListenerStop, TypeOK, callbackVars, streamVars, Threads
<1>7. QED
  BY <1>1, <1>2, <1>3, <1>4, <1>5, <1>6

(* the removal of a session and the stop of the stream,                    *)
LEMMA ClosingKeepsTypeOK ==
    ASSUME TypeOK, NEW t \in Threads, SessionClosed(t) \/ RuntimeStop(t) PROVE TypeOK'
<1>1. CASE SessionClosed(t)
  BY <1>1 DEF SessionClosed, TypeOK, callbackVars, streamVars
<1>2. CASE RuntimeStop(t)
  BY <1>2 DEF RuntimeStop, CaptureStop, TypeOK, listenerVars, callbackVars
<1>3. QED
  BY <1>1, <1>2

(* and the steps of the event and the render thread.                       *)
LEMMA SessionKeepsTypeOK ==
    ASSUME TypeOK, NEW s \in Sessions,
           Activate(s) \/ VcmWaitFails(s) \/ VcmStep(s) \/ RenderStep(s) \/ ClientLeaves(s)
    PROVE  TypeOK'
<1>1. CASE Activate(s)
  BY <1>1 DEF Activate, JoinSelf, StartRender, TypeOK, listenerVars, callbackVars, streamVars
<1>2. CASE PrepareStream(s)
  BY <1>2 DEF PrepareStream, CaptureStart, JoinSelf, StartRender, TypeOK, listenerVars,
              callbackVars, streamVars
<1>3. CASE VcmWaitFails(s) \/ VcmLeaves(s) \/ VcmEnds(s)
  BY <1>3 DEF VcmWaitFails, VcmLeaves, VcmEnds, TypeOK, listenerVars, callbackVars, streamVars
<1>4. CASE VcmNotifies(s)
  BY <1>4, NotifyKeepsTypes DEF VcmNotifies, TypeOK, listenerVars, streamVars, Threads
<1>5. CASE RenderStep(s)
  BY <1>5 DEF RenderStep, RenderTop, RenderUsesPeer, RenderUnblocked, TypeOK, listenerVars,
              callbackVars, streamVars
<1>6. CASE ClientLeaves(s)
  BY <1>6 DEF ClientLeaves, TypeOK, listenerVars, callbackVars, streamVars
<1>7. QED
  BY <1>1, <1>2, <1>3, <1>4, <1>5, <1>6 DEF VcmStep

(* Every variable of the listener, the sessions and the runtime has its    *)
(* type.                                                                   *)
THEOREM TypeCorrect == Spec => []TypeOK
<1>1. Init => TypeOK
  <2>1. SUFFICES ASSUME Init PROVE TypeOK
    OBVIOUS
  <2>2. /\ vcm \in [Sessions -> {"none", "loop", "encoder", "input", "capture", "joinsSelf",
                                "leave", "closing", "done"}]
        /\ render \in [Sessions -> {"none", "loop", "blocked", "use", "done"}]
        /\ stage \in [Threads -> {"none", "remove", "stop", "capture", "encoder", "input"}]
    BY <2>1 DEF Init
  <2>3. QED
    BY <2>1, <2>2 DEF Init, TypeOK
<1>2. TypeOK /\ [Next]_vars => TypeOK'
  <2>1. SUFFICES ASSUME TypeOK, [Next]_vars PROVE TypeOK'
    OBVIOUS
  <2>2. CASE UNCHANGED vars
    BY <2>1, <2>2 DEF vars, TypeOK
  <2>3. CASE MainReturns \/ ListenerStop
    BY <2>1, <2>3 DEF MainReturns, ListenerStop, TypeOK, listenerVars, callbackVars, streamVars,
                      Threads
  <2>4. QED
    BY <2>1, <2>2, <2>3, MainKeepsTypeOK, DisconnectKeepsTypeOK, ClosingKeepsTypeOK,
       SessionKeepsTypeOK DEF Next, MainStep
<1>3. QED
  BY <1>1, <1>2, PTL DEF Spec
-----------------------------------------------------------------------------
(* The event thread still runs FreeRDP's callbacks.                        *)
Live(s) == vcm[s] \in {"loop", "encoder", "input", "capture"}

(* Where the threads of the sessions are with respect to the listener:     *)
(*  - while a session is being registered there is no other, and after the *)
(*    listener has stopped there is none;                                  *)
(*  - a disconnect past its join has an ended event thread, and the main   *)
(*    thread removes only a session whose event thread is over;            *)
(*  - an event thread stops the stream only once it is out of its loop;    *)
(*  - one that is in its loop belongs to the registered session, to the    *)
(*    one being registered, or outlives the listener; it is alive unless   *)
(*    the main thread waits for its end; and it is the only one.           *)
LifeInv ==
    /\ main.pc = "register" => bound /\ listed = {}
    /\ ~bound => listed = {}
    /\ main.pc \in {"disconnect", "disconnected"} => vcm[main.session] = "done"
    /\ stage["main"] = "remove" =>
          main.pc \in {"registered", "disconnect", "disconnected"} /\ ~Live(main.session)
    /\ \A s \in Sessions :
          /\ stage[s] # "none" => vcm[s] = "closing"
          /\ Live(s) => ~bound \/ s \in listed \/ main = At("register", s)
          /\ Live(s) /\ ~connection_alive[s] => main = At("joinVcm", s)
          /\ \A r \in Sessions : Live(r) /\ Live(s) => r = s

(* The main thread is no event thread.                                     *)
LEMMA MainIsNoSession == "main" \notin Sessions
BY SessionsAssumption

(* The steps of the main thread that touch neither the array nor a thread. *)
LEMMA MainKeepsLifeInv ==
    ASSUME TypeOK, LifeInv, NEW s \in Sessions,
           SetClosedCallback(s) \/ Disconnect(s) \/ JoinRender(s) \/ StopEventThread(s)
    PROVE  LifeInv'
<1>1. CASE SetClosedCallback(s)
  BY <1>1 DEF SetClosedCallback, At, LifeInv, Live, TypeOK, listenerVars
<1>2. CASE Disconnect(s)
  <2>1. main = Idle /\ stage["main"] = "none" /\ main'.pc \in {"stop", "joinRender"}
    BY <1>2 DEF Disconnect, MainFree, At
  <2>2. UNCHANGED <<bound, listed, vcm, connection_alive, stage>>
    BY <1>2 DEF Disconnect, listenerVars
  <2>3. QED
    BY <2>1, <2>2 DEF Idle, At, LifeInv, Live
<1>3. CASE JoinRender(s)
  BY <1>3 DEF JoinRender, At, LifeInv, Live, TypeOK, listenerVars
<1>4. CASE StopEventThread(s)
  BY <1>4 DEF StopEventThread, At, LifeInv, Live, TypeOK, listenerVars
<1>5. QED
  BY <1>1, <1>2, <1>3, <1>4

(* A peer is accepted when no event thread is in its loop.                 *)
LEMMA RegistrationKeepsLifeInv ==
    ASSUME TypeOK, LifeInv, NEW s \in Sessions, AcceptPeer(s) \/ Register(s)
    PROVE  LifeInv'
<1>1. CASE AcceptPeer(s)
  <2>1. \A r \in Sessions : ~Live(r)
    BY <1>1 DEF AcceptPeer, MainFree, Idle, At, LifeInv
  <2>2. QED
    BY <1>1, <2>1, MainIsNoSession
       DEF AcceptPeer, StartEventThread, MainFree, Idle, At, LifeInv, Live, TypeOK, listenerVars,
           Threads
<1>2. CASE Register(s)
  BY <1>2 DEF Register, At, LifeInv, Live, TypeOK
<1>3. QED
  BY <1>1, <1>2

(* notify_closed moves the calling thread at most.                         *)
LEMMA NotifyStages ==
    ASSUME NEW t \in Threads, NEW s \in Sessions, NotifyClosed(t, s)
    PROVE  stage' = stage \/ stage' = [stage EXCEPT ![t] = "remove"]
BY DEF NotifyClosed

(* The steps that call notify_closed, or report once more.                 *)
LEMMA NotifyingKeepsLifeInv ==
    ASSUME TypeOK, LifeInv, NEW s \in Sessions,
           CheckAlive(s) \/ JoinVcm(s) \/ ReleasePeer(s) \/ VcmNotifies(s)
    PROVE  LifeInv'
<1> USE MainIsNoSession DEF Threads
<1>1. CASE CheckAlive(s)
  <2>1. stage' = stage \/ (stage' = [stage EXCEPT !["main"] = "remove"] /\ ~connection_alive[s])
    BY <1>1, NotifyStages DEF CheckAlive
  <2>2. ~connection_alive[s] => ~Live(s)
    BY <1>1 DEF CheckAlive, At, LifeInv
  <2>3. QED
    BY <1>1, <2>1, <2>2 DEF CheckAlive, At, LifeInv, Live, TypeOK, listenerVars
<1>2. CASE JoinVcm(s)
  <2>1. stage' = stage \/ stage' = [stage EXCEPT !["main"] = "remove"]
    BY <1>2, NotifyStages DEF JoinVcm
  <2>2. QED
    BY <1>2, <2>1 DEF JoinVcm, At, LifeInv, Live, TypeOK, listenerVars
<1>3. CASE ReleasePeer(s)
  BY <1>3 DEF ReleasePeer, At, LifeInv, Live, TypeOK, listenerVars
<1>4. CASE VcmNotifies(s)
  <2>1. stage' = stage \/ stage' = [stage EXCEPT ![s] = "remove"]
    BY <1>4, NotifyStages DEF VcmNotifies
  <2>2. vcm' = [vcm EXCEPT ![s] = "closing"] /\ vcm[s] = "leave"
    BY <1>4 DEF VcmNotifies
  <2>3. UNCHANGED <<bound, listed, main, connection_alive>> /\ stage'["main"] = stage["main"]
    BY <1>4, <2>1 DEF VcmNotifies, listenerVars, TypeOK
  <2>4. ASSUME NEW r \in Sessions
        PROVE  /\ r # s => stage'[r] = stage[r] /\ vcm'[r] = vcm[r]
               /\ Live(r)' <=> Live(r)
               /\ vcm[r] = "done" => vcm'[r] = "done"
    BY <2>1, <2>2 DEF Live, TypeOK
  <2>5. vcm'[s] = "closing"
    BY <2>2 DEF TypeOK
  <2>6. QED
    BY <2>3, <2>4, <2>5 DEF At, LifeInv, TypeOK, Idle
<1>5. QED
  BY <1>1, <1>2, <1>3, <1>4

(* The removal of a session, the stop of the stream and of the listener.   *)
LEMMA StoppingKeepsLifeInv ==
    ASSUME TypeOK, LifeInv, NEW t \in Threads,
           SessionClosed(t) \/ RuntimeStop(t) \/ ListenerStop \/ MainReturns
    PROVE  LifeInv'
<1> USE MainIsNoSession DEF Threads
<1>1. CASE SessionClosed(t)
  <2>1. ~Live(ClosingTarget(t))
    BY <1>1 DEF SessionClosed, ClosingTarget, LifeInv, Live, TypeOK
  <2>2. stage'[t] # "remove" /\ \A u \in Threads \ {t} : stage'[u] = stage[u]
    BY <1>1 DEF SessionClosed, TypeOK
  <2>3. UNCHANGED <<bound, main, vcm, connection_alive>> /\ listed' = listed \ {ClosingTarget(t)}
        /\ stage[t] # "none"
    BY <1>1 DEF SessionClosed
  <2>4. QED
    BY <2>1, <2>2, <2>3 DEF At, LifeInv, Live
<1>2. CASE RuntimeStop(t)
  <2>1. UNCHANGED <<bound, listed, main, vcm, connection_alive>> /\ stage[t] # "none"
    BY <1>2 DEF RuntimeStop, listenerVars
  <2>2. stage'[t] # "remove" /\ \A u \in Threads \ {t} : stage'[u] = stage[u]
    BY <1>2 DEF RuntimeStop, TypeOK
  <2>3. QED
    BY <2>1, <2>2 DEF At, LifeInv, Live
<1>3. CASE ListenerStop
  BY <1>3 DEF ListenerStop, MainFree, Idle, At, LifeInv, Live, TypeOK
<1>4. CASE MainReturns
  BY <1>4 DEF MainReturns, Idle, At, LifeInv, Live, TypeOK, listenerVars
<1>5. QED
  BY <1>1, <1>2, <1>3, <1>4

(* A step of an event thread that runs callbacks, and goes on or ends.     *)
LEMMA ThreadKeepsLifeInv ==
    ASSUME TypeOK, LifeInv, NEW s \in Sessions, Live(s), UNCHANGED <<bound, listed, main, stage>>,
           \A r \in Sessions \ {s} :
              vcm'[r] = vcm[r] /\ connection_alive'[r] = connection_alive[r],
           vcm'[s] \in {"loop", "encoder", "input", "capture"}
              => connection_alive'[s] = connection_alive[s]
    PROVE  LifeInv'
<1>1. vcm[s] # "closing" /\ vcm[s] # "done"
  BY DEF Live
<1>2. ASSUME NEW r \in Sessions, Live(r)' PROVE Live(r)
  BY <1>2 DEF Live
<1>3. main.pc \in {"disconnect", "disconnected"} => vcm'[main.session] = "done"
  BY <1>1 DEF LifeInv, TypeOK, Idle
<1>4. stage["main"] = "remove" => ~Live(main.session)'
  BY <1>2 DEF LifeInv, TypeOK, Idle
<1>5. ASSUME NEW r \in Sessions
      PROVE  /\ stage[r] # "none" => vcm'[r] = "closing"
             /\ Live(r)' => ~bound \/ r \in listed \/ main = At("register", r)
             /\ Live(r)' /\ ~connection_alive'[r] => main = At("joinVcm", r)
             /\ \A q \in Sessions : Live(q)' /\ Live(r)' => q = r
  <2>1. CASE r = s
    BY <1>1, <1>2, <2>1 DEF LifeInv, Live
  <2>2. CASE r # s
    BY <1>2, <2>2 DEF LifeInv
  <2>3. QED
    BY <2>1, <2>2
<1>6. QED
  BY <1>3, <1>4, <1>5 DEF LifeInv, At, Live

(* The steps of the event and the render thread.                           *)
LEMMA SessionKeepsLifeInv ==
    ASSUME TypeOK, LifeInv, NEW s \in Sessions,
           Activate(s) \/ VcmWaitFails(s) \/ PrepareStream(s) \/ VcmLeaves(s) \/ VcmEnds(s)
             \/ RenderStep(s) \/ ClientLeaves(s)
    PROVE  LifeInv'
<1>1. CASE Activate(s)
  BY <1>1, ThreadKeepsLifeInv DEF Activate, JoinSelf, StartRender, Live, TypeOK, listenerVars
<1>2. CASE PrepareStream(s)
  BY <1>2, ThreadKeepsLifeInv
     DEF PrepareStream, Preparing, JoinSelf, StartRender, Live, TypeOK, listenerVars
<1>3. CASE VcmWaitFails(s) \/ VcmLeaves(s)
  BY <1>3, ThreadKeepsLifeInv DEF VcmWaitFails, VcmLeaves, Live, TypeOK, listenerVars
<1>4. CASE VcmEnds(s)
  BY <1>4 DEF VcmEnds, LifeInv, Live, At, TypeOK, listenerVars
<1>5. CASE RenderStep(s) \/ ClientLeaves(s)
  BY <1>5 DEF RenderStep, RenderTop, RenderUsesPeer, RenderUnblocked, ClientLeaves, LifeInv, Live,
              At, listenerVars
<1>6. QED
  BY <1>1, <1>2, <1>3, <1>4, <1>5

(* The main thread closes a session or stops the stream only where the     *)
(* code calls back into the listener.                                      *)
StageInv ==
    stage["main"] # "none" => main.pc \in {"idle", "registered", "disconnect", "disconnected"}

(* Every step of RdpSession preserves StageInv.                            *)
LEMMA StepKeepsStageInv ==
    ASSUME TypeOK, StageInv, [Next]_vars PROVE StageInv'
<1> USE MainIsNoSession DEF Threads
<1>1. CASE UNCHANGED vars
  BY <1>1 DEF vars, StageInv
<1>2. CASE MainReturns \/ ListenerStop
  BY <1>2 DEF MainReturns, ListenerStop, MainFree, Idle, StageInv, TypeOK
<1>3. ASSUME NEW t \in Threads, SessionClosed(t) \/ RuntimeStop(t) PROVE StageInv'
  <2>1. main' = main /\ stage[t] # "none" /\ \A u \in Threads \ {t} : stage'[u] = stage[u]
    BY <1>3 DEF SessionClosed, RuntimeStop, TypeOK
  <2>2. QED
    BY <2>1 DEF StageInv
<1>4. ASSUME NEW s \in Sessions, CheckAlive(s) \/ JoinVcm(s) \/ ReleasePeer(s) PROVE StageInv'
  BY <1>4 DEF CheckAlive, JoinVcm, ReleasePeer, At, StageInv
<1>5. ASSUME NEW s \in Sessions,
             AcceptPeer(s) \/ Register(s) \/ SetClosedCallback(s) \/ JoinRender(s)
               \/ StopEventThread(s) \/ Disconnect(s)
      PROVE  StageInv'
  BY <1>5 DEF AcceptPeer, Register, SetClosedCallback, JoinRender, StopEventThread, Disconnect,
              MainFree, At, Idle, StageInv
<1>6. ASSUME NEW s \in Sessions, VcmNotifies(s) PROVE StageInv'
  <2>1. stage' = stage \/ stage' = [stage EXCEPT ![s] = "remove"]
    BY <1>6, NotifyStages DEF VcmNotifies
  <2>2. stage'["main"] = stage["main"] /\ main' = main
    BY <1>6, <2>1 DEF VcmNotifies, TypeOK
  <2>3. QED
    BY <2>2 DEF StageInv
<1>7. ASSUME NEW s \in Sessions,
             Activate(s) \/ VcmWaitFails(s) \/ PrepareStream(s) \/ VcmLeaves(s) \/ VcmEnds(s)
               \/ RenderStep(s) \/ ClientLeaves(s)
      PROVE  StageInv'
  <2>1. UNCHANGED <<main, stage>>
    BY <1>7 DEF Activate, VcmWaitFails, PrepareStream, VcmLeaves, VcmEnds, RenderStep, RenderTop,
                RenderUsesPeer, RenderUnblocked, ClientLeaves
  <2>2. QED
    BY <2>1 DEF StageInv
<1>8. QED
  BY <1>1, <1>2, <1>3, <1>4, <1>5, <1>6, <1>7 DEF Next, MainStep, VcmStep

(* Every step of RdpSession preserves LifeInv.                             *)
LEMMA StepKeepsLifeInv ==
    ASSUME TypeOK, LifeInv, [Next]_vars PROVE LifeInv'
<1>1. CASE UNCHANGED vars
  BY <1>1 DEF vars, LifeInv, Live
<1>2. "main" \in Threads
  BY DEF Threads
<1>3. QED
  BY <1>1, <1>2, MainKeepsLifeInv, RegistrationKeepsLifeInv, NotifyingKeepsLifeInv,
     StoppingKeepsLifeInv, SessionKeepsLifeInv
     DEF Next, MainStep, VcmStep

(* The invariant the three theorems below rest on.                         *)
SessionInv == TypeOK /\ LifeInv /\ StageInv

(* At most one event thread runs FreeRDP's callbacks at a time, and it     *)
(* belongs to the session the listener knows: the listener's bookkeeping,  *)
(* on the main thread and on the event threads, agrees with the threads    *)
(* that exist.                                                             *)
THEOREM SessionInvariance == Spec => []SessionInv
<1>1. Init => LifeInv /\ StageInv
  BY MainIsNoSession DEF Init, Idle, At, LifeInv, StageInv, Live, Threads
<1>2. TypeOK /\ LifeInv /\ StageInv /\ [Next]_vars => LifeInv' /\ StageInv'
  BY StepKeepsLifeInv, StepKeepsStageInv
<1>3. QED
  BY <1>1, <1>2, TypeCorrect, PTL DEF Spec, SessionInv
-----------------------------------------------------------------------------
(* The closed callback starts only on a thread that is neither removing a  *)
(* session nor stopping the stream.                                        *)
LEMMA NotifyKeepsStops ==
    ASSUME TypeOK, LifeInv, StageInv, NEW s \in Sessions,
           CheckAlive(s) \/ JoinVcm(s) \/ ReleasePeer(s) \/ VcmNotifies(s)
    PROVE  \E t \in Threads :
              /\ stage[t] = "none"
              /\ stage'[t] \in {"none", "remove"}
              /\ \A u \in Threads \ {t} : stage'[u] = stage[u]
<1> USE MainIsNoSession DEF Threads
<1>1. CASE CheckAlive(s) \/ JoinVcm(s)
  <2>1. stage["main"] = "none"
    BY <1>1 DEF CheckAlive, JoinVcm, At, StageInv
  <2>2. stage' = stage \/ stage' = [stage EXCEPT !["main"] = "remove"]
    BY <1>1, NotifyStages DEF CheckAlive, JoinVcm
  <2>3. QED
    BY <2>1, <2>2 DEF TypeOK
<1>2. CASE ReleasePeer(s)
  BY <1>2 DEF ReleasePeer, TypeOK
<1>3. CASE VcmNotifies(s)
  <2>1. stage[s] = "none"
    BY <1>3 DEF VcmNotifies, LifeInv, TypeOK
  <2>2. stage' = stage \/ stage' = [stage EXCEPT ![s] = "remove"]
    BY <1>3, NotifyStages DEF VcmNotifies
  <2>3. stage'[s] \in {"none", "remove"} /\ \A u \in Threads \ {s} : stage'[u] = stage[u]
    BY <2>1, <2>2 DEF TypeOK
  <2>4. QED
    BY <2>1, <2>3
<1>4. QED
  BY <1>1, <1>2, <1>3

(* A running stream has a session, or somebody about to stop it.           *)
RunningInv ==
    stream_running =>
        ~bound \/ listed # {} \/ main.pc = "register" \/ \E t \in Threads : stage[t] = "stop"

(* Every step of RdpSession preserves RunningInv.                          *)
LEMMA StepKeepsRunningInv ==
    ASSUME TypeOK, LifeInv, StageInv, RunningInv, [Next]_vars PROVE RunningInv'
<1> USE MainIsNoSession DEF Threads
<1>1. CASE UNCHANGED vars
  BY <1>1 DEF vars, RunningInv
<1>2. CASE MainReturns
  BY <1>2 DEF MainReturns, listenerVars, streamVars, RunningInv
<1>3. CASE ListenerStop
  BY <1>3 DEF ListenerStop, RunningInv
<1>4. ASSUME NEW t \in Threads, SessionClosed(t) PROVE RunningInv'
  <2>1. /\ UNCHANGED <<bound, main, stream_running>>
        /\ listed' = listed \/ listed' # {} \/ stage'[t] = "stop"
        /\ stage[t] = "remove" /\ \A u \in Threads \ {t} : stage'[u] = stage[u]
    BY <1>4 DEF SessionClosed, streamVars, TypeOK
  <2>2. QED
    BY <2>1 DEF RunningInv
<1>5. ASSUME NEW t \in Threads, RuntimeStop(t) PROVE RunningInv'
  <2>1. /\ UNCHANGED <<bound, listed, main>>
        /\ ~stream_running' \/ (UNCHANGED stream_running /\ stage[t] # "stop")
        /\ \A u \in Threads \ {t} : stage'[u] = stage[u]
    BY <1>5 DEF RuntimeStop, listenerVars, TypeOK
  <2>2. QED
    BY <2>1 DEF RunningInv
<1>6. ASSUME NEW s \in Sessions, Register(s) PROVE RunningInv'
  BY <1>6 DEF Register, RunningInv
<1>7. ASSUME NEW s \in Sessions,
             AcceptPeer(s) \/ SetClosedCallback(s) \/ JoinRender(s) \/ StopEventThread(s)
               \/ Disconnect(s)
      PROVE  RunningInv'
  <2>1. UNCHANGED <<bound, listed, stream_running, stage>> /\ main.pc # "register"
    BY <1>7 DEF AcceptPeer, SetClosedCallback, JoinRender, StopEventThread, Disconnect, MainFree,
                At, Idle, listenerVars, streamVars
  <2>2. QED
    BY <2>1 DEF RunningInv
<1>8. ASSUME NEW s \in Sessions, CheckAlive(s) \/ JoinVcm(s) \/ ReleasePeer(s) \/ VcmNotifies(s)
      PROVE  RunningInv'
  <2>1. UNCHANGED <<bound, listed, stream_running>> /\ (main' = main \/ main.pc # "register")
    BY <1>8 DEF CheckAlive, JoinVcm, ReleasePeer, VcmNotifies, At, listenerVars, streamVars
  <2>2. PICK t \in Threads : stage[t] = "none" /\ \A u \in Threads \ {t} : stage'[u] = stage[u]
    BY <1>8, NotifyKeepsStops
  <2>3. QED
    BY <2>1, <2>2 DEF RunningInv
<1>9. ASSUME NEW s \in Sessions, PrepareStream(s) PROVE RunningInv'
  <2>1. UNCHANGED <<bound, listed, main, stage>> /\ Live(s)
    BY <1>9 DEF PrepareStream, Preparing, Live, listenerVars
  <2>2. QED
    BY <2>1 DEF LifeInv, At, RunningInv
<1>10. ASSUME NEW s \in Sessions,
              Activate(s) \/ VcmWaitFails(s) \/ VcmLeaves(s) \/ VcmEnds(s) \/ RenderStep(s)
                \/ ClientLeaves(s)
       PROVE  RunningInv'
  <2>1. UNCHANGED <<bound, listed, main, stage, stream_running>>
    BY <1>10 DEF Activate, VcmWaitFails, VcmLeaves, VcmEnds, RenderStep, RenderTop,
                 RenderUsesPeer, RenderUnblocked, ClientLeaves, listenerVars, streamVars
  <2>2. QED
    BY <2>1 DEF RunningInv
<1>11. QED
  BY <1>1, <1>2, <1>3, <1>4, <1>5, <1>6, <1>7, <1>8, <1>9, <1>10 DEF Next, MainStep, VcmStep

(* With no session registered, being registered or being closed, the       *)
(* stream is stopped, whichever thread removed the last one: no hypothesis *)
(* on the faults.                                                          *)
THEOREM IdleMeansStopped == Spec => []IdleStreamStopped
<1>1. Init => RunningInv
  BY DEF Init, RunningInv
<1>2. SessionInv /\ RunningInv /\ [Next]_vars => RunningInv'
  BY StepKeepsRunningInv DEF SessionInv
<1>3. RunningInv => IdleStreamStopped
  BY DEF RunningInv, IdleStreamStopped, MainFree, Idle, Quiet
<1>4. QED
  BY <1>1, <1>2, <1>3, SessionInvariance, PTL DEF Spec
-----------------------------------------------------------------------------
(* The stages of a stop in which the stream is neither whole nor stopped.  *)
Halves == {"capture", "encoder", "input"}

Parts(e, i, c) == (encoder <=> e) /\ (input <=> i) /\ (capture <=> c)

(* Which parts of the stream run, when no client activates while it is     *)
(* being stopped: while a session prepares it nobody stops it and the      *)
(* parts before its place run; while a thread stops it nobody prepares it, *)
(* no other thread stops it, and the parts after its place run; otherwise  *)
(* stream_running tells.                                                   *)
WholeInv ==
    "overlapping_stop" \notin faults =>
        /\ \A s \in Sessions : Preparing(s) =>
              /\ ~stream_running
              /\ \A t \in Threads : stage[t] \in {"none", "remove"}
              /\ Parts(vcm[s] # "encoder", vcm[s] = "capture", FALSE)
        /\ \A t \in Threads : stage[t] \in Halves =>
              /\ ~stream_running
              /\ \A u \in Threads : stage[u] \in Halves => u = t
              /\ Parts(stage[t] # "input", TRUE, stage[t] = "capture")
        /\ (\A s \in Sessions : ~Preparing(s)) /\ (\A t \in Threads : stage[t] \notin Halves)
              => Parts(stream_running, stream_running, stream_running)

(* The steps that neither prepare nor stop the stream.                     *)
LEMMA AsideKeepsWholeInv ==
    ASSUME WholeInv, UNCHANGED <<faults, stream_running, encoder, input, capture>>,
           \A s \in Sessions : vcm'[s] = vcm[s] \/ (~Preparing(s) /\ ~Preparing(s)'),
           \A t \in Threads : \/ stage'[t] = stage[t]
                              \/ stage[t] \notin Halves /\ stage'[t] \in {"none", "remove"}
    PROVE  WholeInv'
<1>1. SUFFICES ASSUME "overlapping_stop" \notin faults PROVE WholeInv'
  BY DEF WholeInv
<1>2. ASSUME NEW s \in Sessions
      PROVE  (Preparing(s)' <=> Preparing(s)) /\ (Preparing(s) => vcm'[s] = vcm[s])
  BY DEF Preparing
<1>3. ASSUME NEW t \in Threads
      PROVE  /\ stage'[t] \in Halves <=> stage[t] \in Halves
             /\ stage[t] \in Halves => stage'[t] = stage[t]
             /\ stage[t] \in {"none", "remove"} => stage'[t] \in {"none", "remove"}
  BY DEF Halves
<1>4. QED
  BY <1>1, <1>2, <1>3 DEF WholeInv, Parts

(* A session is removed as the last one only when nobody prepares.         *)
LEMMA LastRemovedPreparesNot ==
    ASSUME TypeOK, LifeInv, NEW t \in Threads, stage[t] = "remove",
           ClosingTarget(t) \in listed, listed \ {ClosingTarget(t)} = {},
           NEW s \in Sessions
    PROVE  ~Preparing(s)
<1>1. ~Live(ClosingTarget(t))
  BY DEF ClosingTarget, LifeInv, Live, TypeOK, Threads
<1>2. bound /\ main # At("register", s)
  BY DEF LifeInv, At
<1>3. s \in listed => s = ClosingTarget(t)
  OBVIOUS
<1>4. ~Live(s)
  BY <1>1, <1>2, <1>3 DEF LifeInv
<1>5. QED
  BY <1>4 DEF Live, Preparing

(* The removal of a session starts a stop only then.                       *)
LEMMA ClosingKeepsWholeInv ==
    ASSUME TypeOK, LifeInv, WholeInv, NEW t \in Threads, SessionClosed(t)
    PROVE  WholeInv'
<1>1. UNCHANGED <<faults, stream_running, encoder, input, capture, vcm>>
  BY DEF SessionClosed, streamVars
<1>2. stage[t] = "remove" /\ \A u \in Threads \ {t} : stage'[u] = stage[u]
  BY DEF SessionClosed, TypeOK
<1>3. CASE stage'[t] = "none"
  BY <1>1, <1>2, <1>3, AsideKeepsWholeInv DEF Halves
<1>4. CASE stage'[t] = "stop"
  <2>1. \A s \in Sessions : ~Preparing(s)
    BY <1>4, LastRemovedPreparesNot DEF SessionClosed, TypeOK
  <2>2. \A u \in Threads :
           stage'[u] = stage[u] \/ (stage[u] \notin Halves /\ stage'[u] \notin Halves)
    BY <1>2, <1>4 DEF Halves
  <2>3. QED
    BY <1>1, <2>1, <2>2 DEF WholeInv, Preparing, Parts
<1>5. QED
  BY <1>3, <1>4 DEF SessionClosed, TypeOK

(* The stop of the listener starts one when nobody prepares or stops.      *)
LEMMA ListenerStopKeepsWholeInv ==
    ASSUME TypeOK, WholeInv, ListenerStop PROVE WholeInv'
<1>1. SUFFICES ASSUME "overlapping_stop" \notin faults PROVE WholeInv'
  BY DEF WholeInv, ListenerStop
<1>2. UNCHANGED <<faults, stream_running, encoder, input, capture, vcm>>
  BY DEF ListenerStop, streamVars
<1>3. \A s \in Sessions : ~Preparing(s)
  BY <1>1 DEF ListenerStop
<1>4. \A u \in Threads :
         stage'[u] = stage[u] \/ (stage[u] \notin Halves /\ stage'[u] \notin Halves)
  BY DEF ListenerStop, MainFree, Halves, TypeOK
<1>5. QED
  BY <1>2, <1>3, <1>4 DEF WholeInv, Preparing, Parts

(* A stop takes the parts down one by one.                                 *)
LEMMA RuntimeStopKeepsWholeInv ==
    ASSUME TypeOK, WholeInv, NEW t \in Threads, RuntimeStop(t) PROVE WholeInv'
<1>1. SUFFICES ASSUME "overlapping_stop" \notin faults PROVE WholeInv'
  BY DEF WholeInv, RuntimeStop
<1>2. UNCHANGED <<faults, vcm>> /\ \A u \in Threads \ {t} : stage'[u] = stage[u]
  BY DEF RuntimeStop, TypeOK
<1>3. \A s \in Sessions : ~Preparing(s) /\ ~Preparing(s)'
  BY <1>1, <1>2 DEF RuntimeStop, WholeInv, Preparing
<1>4. CASE stage[t] = "stop" /\ stream_running
  <2>1. stage'[t] = "capture" /\ ~stream_running' /\ UNCHANGED <<encoder, input, capture>>
    BY <1>4 DEF RuntimeStop, TypeOK
  <2>2. \A u \in Threads : stage[u] \notin Halves
    BY <1>1, <1>4 DEF WholeInv
  <2>3. encoder /\ input /\ capture
    BY <1>1, <1>3, <1>4, <2>2 DEF WholeInv, Parts
  <2>4. QED
    BY <1>2, <1>3, <2>1, <2>2, <2>3 DEF WholeInv, Parts, Halves
<1>5. CASE stage[t] = "stop" /\ ~stream_running
  <2>1. stage'[t] = "none" /\ UNCHANGED <<stream_running, encoder, input, capture>>
    BY <1>5 DEF RuntimeStop, TypeOK
  <2>2. QED
    BY <1>2, <1>3, <1>5, <2>1, AsideKeepsWholeInv DEF Halves
<1>6. CASE stage[t] \in Halves
  <2>1. ~stream_running /\ ~stream_running' /\ \A u \in Threads \ {t} : stage'[u] \notin Halves
    <3>1. ~stream_running /\ \A u \in Threads \ {t} : stage[u] \notin Halves
      BY <1>1, <1>6 DEF WholeInv
    <3>2. stream_running' = stream_running
      BY <1>6 DEF RuntimeStop, Halves
    <3>3. QED
      BY <1>2, <3>1, <3>2
  <2>2. Parts(stage[t] # "input", TRUE, stage[t] = "capture")
    BY <1>1, <1>6 DEF WholeInv
  <2>3. CASE stage[t] = "capture"
    <3>1. stage'[t] = "encoder" /\ ~capture' /\ UNCHANGED <<encoder, input>>
      BY <2>3 DEF RuntimeStop, CaptureStop, TypeOK
    <3>2. QED
      BY <1>3, <2>1, <2>2, <2>3, <3>1 DEF WholeInv, Parts, Halves
  <2>4. CASE stage[t] = "encoder"
    <3>1. stage'[t] = "input" /\ ~encoder' /\ UNCHANGED <<input, capture>>
      BY <2>4 DEF RuntimeStop, TypeOK
    <3>2. QED
      BY <1>3, <2>1, <2>2, <2>4, <3>1 DEF WholeInv, Parts, Halves
  <2>5. CASE stage[t] = "input"
    <3>1. stage'[t] = "none" /\ ~input' /\ UNCHANGED <<encoder, capture>>
      BY <2>5 DEF RuntimeStop, TypeOK
    <3>2. QED
      BY <1>3, <2>1, <2>2, <2>5, <3>1 DEF WholeInv, Parts, Halves
  <2>6. QED
    BY <1>6, <2>3, <2>4, <2>5 DEF Halves
<1>7. QED
  BY <1>4, <1>5, <1>6 DEF RuntimeStop, Halves

(* An activation starts to prepare a stream that is stopped as a whole.    *)
LEMMA ActivateKeepsWholeInv ==
    ASSUME TypeOK, LifeInv, WholeInv, NEW s \in Sessions, Activate(s) PROVE WholeInv'
<1>1. SUFFICES ASSUME "overlapping_stop" \notin faults PROVE WholeInv'
  BY DEF WholeInv, Activate
<1>2. UNCHANGED <<faults, stage, stream_running, encoder, input, capture>>
      /\ vcm[s] = "loop" /\ \A r \in Sessions \ {s} : vcm'[r] = vcm[r]
  BY DEF Activate, JoinSelf, StartRender, streamVars, TypeOK
<1>3. CASE vcm'[s] # "encoder"
  <2>1. ~Preparing(s) /\ ~Preparing(s)'
    BY <1>2, <1>3 DEF Activate, JoinSelf, StartRender, Preparing, TypeOK
  <2>2. QED
    BY <1>2, <2>1, AsideKeepsWholeInv
<1>4. CASE vcm'[s] = "encoder"
  <2>1. ~stream_running /\ \A t \in Threads : stage[t] \in {"none", "remove"}
    BY <1>1, <1>4 DEF Activate, JoinSelf, StartRender, TypeOK
  <2>2. \A r \in Sessions : ~Preparing(r)
    BY <1>2 DEF LifeInv, Live, Preparing
  <2>3. ~encoder /\ ~input /\ ~capture
    BY <1>1, <2>1, <2>2 DEF WholeInv, Parts, Halves
  <2>4. \A r \in Sessions : Preparing(r)' => r = s
    BY <1>2, <2>2 DEF Preparing
  <2>5. QED
    BY <1>2, <1>4, <2>1, <2>3, <2>4 DEF WholeInv, Parts, Halves, Preparing
<1>5. QED
  BY <1>3, <1>4

(* Preparing starts the parts one by one, or takes back those it started.  *)
LEMMA PrepareKeepsWholeInv ==
    ASSUME TypeOK, LifeInv, WholeInv, NEW s \in Sessions, PrepareStream(s) PROVE WholeInv'
<1>1. SUFFICES ASSUME "overlapping_stop" \notin faults PROVE WholeInv'
  BY DEF WholeInv, PrepareStream
<1>2. UNCHANGED <<faults, stage>> /\ Preparing(s) /\ \A r \in Sessions \ {s} : vcm'[r] = vcm[r]
  BY DEF PrepareStream, JoinSelf, StartRender, Preparing, TypeOK
<1>3. \A r \in Sessions \ {s} : ~Preparing(r)'
  BY <1>2 DEF LifeInv, Live, Preparing
<1>4. /\ ~stream_running
      /\ \A t \in Threads : stage[t] \in {"none", "remove"}
      /\ Parts(vcm[s] # "encoder", vcm[s] = "capture", FALSE)
  BY <1>1, <1>2 DEF WholeInv
<1>5. \A t \in Threads : stage'[t] \in {"none", "remove"} /\ stage'[t] \notin Halves
  BY <1>2, <1>4 DEF Halves
<1>6. CASE vcm'[s] \in {"input", "capture"}
  <2>1. ~stream_running' /\ Parts(vcm[s] # "encoder", vcm[s] = "capture", FALSE)'
    BY <1>4, <1>6 DEF PrepareStream, JoinSelf, StartRender, Parts, TypeOK
  <2>2. QED
    BY <1>3, <1>5, <1>6, <2>1 DEF WholeInv, Preparing
<1>7. CASE vcm'[s] = "loop"
  <2>1. stream_running' /\ encoder' /\ input' /\ capture'
    BY <1>4, <1>7 DEF PrepareStream, JoinSelf, StartRender, CaptureStart, Parts, TypeOK
  <2>2. QED
    BY <1>3, <1>5, <1>7, <2>1 DEF WholeInv, Preparing, Parts
<1>8. CASE vcm'[s] = "joinsSelf"
  <2>1. ~stream_running' /\ ~encoder' /\ ~input' /\ ~capture'
    BY <1>4, <1>8 DEF PrepareStream, JoinSelf, StartRender, CaptureStart, Parts, TypeOK
  <2>2. QED
    BY <1>3, <1>5, <1>8, <2>1 DEF WholeInv, Preparing, Parts
<1>9. QED
  BY <1>6, <1>7, <1>8 DEF PrepareStream, JoinSelf, StartRender, TypeOK

(* Every step of RdpSession preserves WholeInv.                            *)
LEMMA StepKeepsWholeInv ==
    ASSUME TypeOK, LifeInv, StageInv, WholeInv, [Next]_vars PROVE WholeInv'
<1>1. CASE UNCHANGED vars
  BY <1>1 DEF vars, WholeInv, Parts, Preparing
<1>2. CASE MainReturns
  BY <1>2, AsideKeepsWholeInv DEF MainReturns, streamVars
<1>3. ASSUME NEW s \in Sessions, CheckAlive(s) \/ JoinVcm(s) \/ ReleasePeer(s) \/ VcmNotifies(s)
      PROVE  WholeInv'
  <2>1. PICK t \in Threads : /\ stage[t] = "none"
                             /\ stage'[t] \in {"none", "remove"}
                             /\ \A u \in Threads \ {t} : stage'[u] = stage[u]
    BY <1>3, NotifyKeepsStops
  <2>2. UNCHANGED <<faults, stream_running, encoder, input, capture>>
    BY <1>3 DEF CheckAlive, JoinVcm, ReleasePeer, VcmNotifies, streamVars
  <2>3. \A r \in Sessions : vcm'[r] = vcm[r] \/ (~Preparing(r) /\ ~Preparing(r)')
    BY <1>3 DEF CheckAlive, JoinVcm, ReleasePeer, VcmNotifies, Preparing, TypeOK
  <2>4. QED
    BY <2>1, <2>2, <2>3, AsideKeepsWholeInv DEF Halves
<1>4. ASSUME NEW s \in Sessions,
             AcceptPeer(s) \/ Register(s) \/ SetClosedCallback(s) \/ JoinRender(s)
               \/ StopEventThread(s) \/ Disconnect(s)
               \/ VcmWaitFails(s) \/ VcmLeaves(s) \/ VcmEnds(s) \/ RenderStep(s) \/ ClientLeaves(s)
      PROVE  WholeInv'
  <2>1. UNCHANGED <<faults, stage, stream_running, encoder, input, capture>>
    BY <1>4 DEF AcceptPeer, Register, SetClosedCallback, JoinRender, StopEventThread, Disconnect,
                VcmWaitFails, VcmLeaves, VcmEnds, RenderStep, RenderTop, RenderUsesPeer,
                RenderUnblocked, ClientLeaves, streamVars
  <2>2. \A r \in Sessions : vcm'[r] = vcm[r] \/ (~Preparing(r) /\ ~Preparing(r)')
    BY <1>4 DEF AcceptPeer, StartEventThread, Register, SetClosedCallback, JoinRender,
                StopEventThread, Disconnect, VcmWaitFails, VcmLeaves, VcmEnds, RenderStep,
                RenderTop, RenderUsesPeer, RenderUnblocked, ClientLeaves, Preparing, TypeOK
  <2>3. QED
    BY <2>1, <2>2, AsideKeepsWholeInv
<1>5. QED
  BY <1>1, <1>2, <1>3, <1>4, ClosingKeepsWholeInv, ListenerStopKeepsWholeInv,
     RuntimeStopKeepsWholeInv, ActivateKeepsWholeInv, PrepareKeepsWholeInv
     DEF Next, MainStep, VcmStep

(* Between starts and stops the three parts of the stream run exactly when *)
(* stream_running says so, also after a failed start, for every order in   *)
(* which the threads start and stop it one session after the other.        *)
THEOREM StreamStaysWhole == Spec => []StreamWhole
<1>1. Init => WholeInv
  BY DEF Init, WholeInv, Parts, Preparing, Halves, Threads
<1>2. SessionInv /\ WholeInv /\ [Next]_vars => WholeInv'
  BY StepKeepsWholeInv DEF SessionInv
<1>3. SessionInv /\ WholeInv => StreamWhole
  <2>1. SUFFICES ASSUME TypeOK, WholeInv, "overlapping_stop" \notin faults, Quiet
                 PROVE  Parts(stream_running, stream_running, stream_running)
    BY DEF SessionInv, StreamWhole, Parts, TypeOK
  <2>2. QED
    BY <2>1 DEF WholeInv, Quiet, Halves
<1>4. QED
  BY <1>1, <1>2, <1>3, SessionInvariance, PTL DEF Spec
-----------------------------------------------------------------------------
(* The render thread of s, if it had one, has been joined.                 *)
Joined(s) == main.session = s /\ main.pc \in {"stop", "joinVcm", "disconnect", "disconnected"}

(* When no client activates during its disconnect: a released peer has no  *)
(* event thread, a disconnect finds no activation under way and none       *)
(* starts, and from the join of the render thread on there is none.        *)
ReleaseInv ==
    "late_activation" \notin faults =>
        \A s \in Sessions :
            /\ peerGone[s] => vcm[s] = "done"
            /\ Disconnecting(s) => ~Preparing(s)
            /\ peerGone[s] \/ Joined(s) => render[s] \in {"none", "done"}

(* The steps that change nothing a disconnect relies on.                   *)
LEMMA AsideKeepsReleaseInv ==
    ASSUME ReleaseInv, UNCHANGED <<faults, peerGone>>,
           \A s \in Sessions :
              /\ vcm'[s] = vcm[s] \/ (vcm[s] # "done" /\ ~Preparing(s)')
              /\ render'[s] = render[s] \/ (render[s] # "none" /\ render[s] # "done")
              /\ Disconnecting(s)' => Disconnecting(s)
              /\ Joined(s)' => Joined(s)
    PROVE  ReleaseInv'
BY DEF ReleaseInv, Preparing

(* The steps of the main thread for one session.                           *)
LEMMA MainKeepsReleaseInv ==
    ASSUME TypeOK, LifeInv, ReleaseInv, NEW s \in Sessions,
           AcceptPeer(s) \/ Register(s) \/ SetClosedCallback(s) \/ CheckAlive(s)
             \/ Disconnect(s) \/ JoinRender(s) \/ StopEventThread(s) \/ JoinVcm(s) \/ ReleasePeer(s)
    PROVE  ReleaseInv'
<1>1. CASE AcceptPeer(s) \/ Register(s) \/ SetClosedCallback(s) \/ CheckAlive(s)
  <2>1. main'.pc \in {"register", "callback", "check", "registered"}
        /\ UNCHANGED <<faults, peerGone, render>>
    BY <1>1 DEF AcceptPeer, Register, SetClosedCallback, CheckAlive, At
  <2>2. \A r \in Sessions : vcm'[r] = vcm[r] \/ (vcm[r] # "done" /\ ~Preparing(r)')
    BY <1>1 DEF AcceptPeer, StartEventThread, Register, SetClosedCallback, CheckAlive, Preparing,
                TypeOK
  <2>3. QED
    BY <2>1, <2>2, AsideKeepsReleaseInv DEF Disconnecting, Joined
<1>2. CASE Disconnect(s)
  <2>1. SUFFICES ASSUME "late_activation" \notin faults PROVE ReleaseInv'
    BY <1>2 DEF ReleaseInv, Disconnect
  <2>2. ~Preparing(s) /\ UNCHANGED <<faults, vcm, render, peerGone>> /\ main'.session = s
        /\ (render[s] = "none" \/ main'.pc = "joinRender")
    BY <1>2, <2>1 DEF Disconnect, At
  <2>3. QED
    BY <2>1, <2>2 DEF ReleaseInv, Disconnecting, Joined, Preparing
<1>3. CASE JoinRender(s)
  <2>1. main.session = s /\ main.pc = "joinRender" /\ main'.session = s /\ main'.pc = "stop"
        /\ render[s] = "done" /\ UNCHANGED <<faults, vcm, render, peerGone>>
    BY <1>3 DEF JoinRender, At
  <2>2. QED
    BY <2>1 DEF ReleaseInv, Disconnecting, Joined, Preparing
<1>4. CASE StopEventThread(s) \/ JoinVcm(s)
  <2>1. main.session = s /\ main.pc \in {"stop", "joinVcm"} /\ main'.session = s
        /\ UNCHANGED <<faults, vcm, render, peerGone>>
    BY <1>4 DEF StopEventThread, JoinVcm, At
  <2>2. QED
    BY <2>1, AsideKeepsReleaseInv DEF Disconnecting, Joined
<1>5. CASE ReleasePeer(s)
  <2>1. main.session = s /\ main.pc = "disconnect" /\ main'.session = s /\ main'.pc = "disconnected"
        /\ UNCHANGED <<faults, vcm, render>> /\ \A r \in Sessions \ {s} : peerGone'[r] = peerGone[r]
    BY <1>5 DEF ReleasePeer, At, TypeOK
  <2>2. vcm[s] = "done"
    BY <2>1 DEF LifeInv
  <2>3. QED
    BY <2>1, <2>2 DEF ReleaseInv, Disconnecting, Joined, Preparing
<1>6. QED
  BY <1>1, <1>2, <1>3, <1>4, <1>5

(* A session that starts its render thread is not being disconnected.     *)
LEMMA ActivationKeepsReleaseInv ==
    ASSUME TypeOK, LifeInv, ReleaseInv, NEW s \in Sessions, Activate(s) \/ PrepareStream(s)
    PROVE  ReleaseInv'
<1>1. SUFFICES ASSUME "late_activation" \notin faults PROVE ReleaseInv'
  BY DEF ReleaseInv, Activate, PrepareStream
<1>2. UNCHANGED <<faults, main, peerGone>>
      /\ \A r \in Sessions \ {s} : vcm'[r] = vcm[r] /\ render'[r] = render[r]
  BY DEF Activate, PrepareStream, JoinSelf, StartRender, TypeOK
<1>3. ~Disconnecting(s) /\ vcm[s] # "done"
  <2>1. CASE Activate(s)
    BY <1>1, <2>1 DEF Activate
  <2>2. CASE PrepareStream(s)
    <3>1. Preparing(s)
      BY <2>2 DEF PrepareStream, Preparing
    <3>2. QED
      BY <1>1, <3>1 DEF ReleaseInv, Preparing
  <2>3. QED
    BY <2>1, <2>2
<1>4. ~peerGone[s]
  BY <1>1, <1>3 DEF ReleaseInv
<1>5. ~Joined(s)
  BY <1>3 DEF Joined, Disconnecting, LifeInv
<1>6. QED
  BY <1>1, <1>2, <1>3, <1>4, <1>5 DEF ReleaseInv, Disconnecting, Joined, Preparing

(* Every step of RdpSession preserves ReleaseInv.                          *)
LEMMA StepKeepsReleaseInv ==
    ASSUME TypeOK, LifeInv, ReleaseInv, [Next]_vars PROVE ReleaseInv'
<1>1. CASE UNCHANGED vars
  BY <1>1, AsideKeepsReleaseInv DEF vars, Disconnecting, Joined
<1>2. CASE MainReturns \/ ListenerStop
  BY <1>2, AsideKeepsReleaseInv DEF MainReturns, ListenerStop, Idle, Disconnecting, Joined
<1>3. ASSUME NEW t \in Threads, SessionClosed(t) \/ RuntimeStop(t) PROVE ReleaseInv'
  BY <1>3, AsideKeepsReleaseInv DEF SessionClosed, RuntimeStop, Disconnecting, Joined
<1>4. ASSUME NEW s \in Sessions,
             VcmWaitFails(s) \/ VcmLeaves(s) \/ VcmNotifies(s) \/ VcmEnds(s)
               \/ RenderStep(s) \/ ClientLeaves(s)
      PROVE  ReleaseInv'
  <2>1. UNCHANGED <<faults, main, peerGone>>
    BY <1>4 DEF VcmWaitFails, VcmLeaves, VcmNotifies, VcmEnds, RenderStep, RenderTop,
                RenderUsesPeer, RenderUnblocked, ClientLeaves
  <2>2. \A r \in Sessions : vcm'[r] = vcm[r] \/ (vcm[r] # "done" /\ ~Preparing(r)')
    BY <1>4 DEF VcmWaitFails, VcmLeaves, VcmNotifies, VcmEnds, RenderStep, RenderTop,
                RenderUsesPeer, RenderUnblocked, ClientLeaves, Preparing, TypeOK
  <2>3. \A r \in Sessions : render'[r] = render[r] \/ (render[r] # "none" /\ render[r] # "done")
    BY <1>4 DEF VcmWaitFails, VcmLeaves, VcmNotifies, VcmEnds, RenderStep, RenderTop,
                RenderUsesPeer, RenderUnblocked, ClientLeaves, TypeOK
  <2>4. QED
    BY <2>1, <2>2, <2>3, AsideKeepsReleaseInv DEF Disconnecting, Joined
<1>5. QED
  BY <1>1, <1>2, <1>3, <1>4, MainKeepsReleaseInv, ActivationKeepsReleaseInv
     DEF Next, MainStep, VcmStep

(* The render thread of a session does not use the peer and the pipeline   *)
(* that drd_rdp_session_disconnect has released, since the disconnect      *)
(* joins it first, unless the client activates meanwhile.                  *)
THEOREM NothingReleasedInUse == Spec => []NoUseAfterRelease
<1>1. Init => ReleaseInv
  BY MainIsNoSession DEF Init, Idle, ReleaseInv, Disconnecting, Joined
<1>2. SessionInv /\ ReleaseInv /\ [Next]_vars => ReleaseInv'
  BY StepKeepsReleaseInv DEF SessionInv
<1>3. ReleaseInv => NoUseAfterRelease
  BY DEF ReleaseInv, NoUseAfterRelease
<1>4. QED
  BY <1>1, <1>2, <1>3, SessionInvariance, PTL DEF Spec
=============================================================================
