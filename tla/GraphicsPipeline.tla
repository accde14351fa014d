-------------------------- MODULE GraphicsPipeline --------------------------
(***************************************************************************)
(* The back-pressure of src/session/drd_rdp_graphics_pipeline.c, driven by *)
(* the render thread of drd_rdp_session.c.  The render thread sends a      *)
(* frame, then counts it, then records its codec, in three critical        *)
(* sections of the pipeline's lock; the client's acknowledgements arrive   *)
(* on another thread in between.  The surface is set up by maybe_init,     *)
(* which both the event (VCM) thread and the render thread call and which  *)
(* drops the lock around Open.                                             *)
(*                                                                         *)
(* Frames are abstracted to their number: toClient frames are on their way *)
(* to the client, toServer is what the client has answered.  The client    *)
(* and the channel are external.                                           *)
(***************************************************************************)
EXTENDS Integers, Sequences

CONSTANTS MaxOutstanding,  \* max_outstanding_frames
          MaxInFlight      \* bound: frames and answers on the wire, frames counted

ASSUME MaxOutstandingAssumption == MaxOutstanding \in Nat \ {0, 1}
ASSUME MaxInFlightAssumption == MaxInFlight \in Nat

VARIABLES
    channel_opened, caps_confirmed, surface_ready,
    outstanding_frames,
    frame_acks_suspended,
    last_frame_h264,
    opened,           \* external: the channel's own Open has succeeded
    opening,          \* threads between Open and the second lock in maybe_init
    render,           \* where the render thread is
    frame_h264,       \* the codec of the frame the render thread is submitting
    toClient,         \* frames sent and not yet decoded
    toServer,         \* the client's answers, oldest first
    clientSuspended,  \* the client has announced that it acknowledges no more
    relaxed           \* history: an H264 frame or a suspension has occurred

setup == <<channel_opened, caps_confirmed, surface_ready, opened, opening>>
wire == <<toClient, toServer, clientSuspended>>
vars == <<channel_opened, caps_confirmed, surface_ready, outstanding_frames,
          frame_acks_suspended, last_frame_h264, opened, opening, render, frame_h264,
          toClient, toServer, clientSuspended, relaxed>>

Threads == {"vcm", "render"}

(* poll: no surface yet; wait: about to call wait_for_capacity; asleep and *)
(* woken: in its g_cond_wait; checked: it returned TRUE, can_submit is     *)
(* next; pull: waiting for a captured frame and sending it; count and mode *)
(* : out_frame_change and set_last_frame_mode are next.                    *)
RenderStates == {"poll", "wait", "asleep", "woken", "checked", "pull", "count", "mode"}

Init ==
    /\ channel_opened = FALSE
    /\ caps_confirmed = FALSE
    /\ surface_ready = FALSE
    /\ outstanding_frames = 0
    /\ frame_acks_suspended = FALSE
    /\ last_frame_h264 = FALSE
    /\ opened = FALSE
    /\ opening = {}
    /\ render = "poll"
    /\ frame_h264 = FALSE
    /\ toClient = 0
    /\ toServer = <<>>
    /\ clientSuspended = FALSE
    /\ relaxed = FALSE

\* Mutant: the sleeping render thread is not woken.
NoWake == UNCHANGED render

(* g_cond_broadcast(&capacity_cond); only the render thread waits on it.   *)
Wake == render' = IF render = "asleep" THEN "woken" ELSE render
-----------------------------------------------------------------------------
(* drd_rdp_graphics_pipeline_maybe_init up to the second lock: Open runs   *)
(* without the lock; when it fails the call returns and nothing changes.   *)
(* The render thread calls maybe_init only before its surface is ready.    *)
OpenChannel(t) ==
    /\ ~channel_opened
    /\ t \notin opening
    /\ t = "render" => render = "poll"
    /\ ~opened
    /\ opened' = TRUE
    /\ opening' = opening \cup {t}
    /\ UNCHANGED <<channel_opened, caps_confirmed, surface_ready, outstanding_frames,
                   frame_acks_suspended, last_frame_h264, render, frame_h264, wire, relaxed>>

\* Mutant: an initialised surface is set up again.
ResetAgain ==
    /\ outstanding_frames' = 0
    /\ surface_ready' = TRUE
    /\ last_frame_h264' = FALSE
    /\ frame_acks_suspended' = FALSE
    /\ Wake

(* drd_rdp_graphics_pipeline_reset_locked: a ready surface is left alone;  *)
(* otherwise the three PDUs are sent and the counters start over, or one   *)
(* of the PDUs fails and nothing is recorded.                              *)
ResetLocked ==
    \/ UNCHANGED <<surface_ready, outstanding_frames, frame_acks_suspended, last_frame_h264,
                   render>>
    \/ /\ ~surface_ready
       /\ outstanding_frames' = 0
       /\ surface_ready' = TRUE
       /\ last_frame_h264' = FALSE
       /\ frame_acks_suspended' = FALSE
       /\ Wake

(* The locked part of maybe_init: the channel is open, and the surface is  *)
(* set up once the client's capabilities are confirmed.                    *)
MaybeInit(t) ==
    /\ channel_opened \/ t \in opening
    /\ t = "render" => render = "poll"
    /\ channel_opened' = TRUE
    /\ opening' = opening \ {t}
    /\ \/ /\ ~caps_confirmed
          /\ UNCHANGED <<surface_ready, outstanding_frames, frame_acks_suspended,
                         last_frame_h264, render>>
       \/ /\ caps_confirmed
          /\ ResetLocked
    /\ UNCHANGED <<caps_confirmed, opened, frame_h264, wire, relaxed>>

(* shadow_client_send_caps_confirm, called on the channel's thread for the *)
(* client's CapsAdvertise, which may come before Open returns.             *)
CapsConfirm ==
    /\ opened
    /\ caps_confirmed' = TRUE
    /\ UNCHANGED <<channel_opened, surface_ready, opened, opening, outstanding_frames,
                   frame_acks_suspended, last_frame_h264, render, frame_h264, wire, relaxed>>
-----------------------------------------------------------------------------
(* The render loop sees drd_rdp_graphics_pipeline_is_ready.                *)
RenderSeesSurface ==
    /\ render = "poll"
    /\ "render" \notin opening
    /\ surface_ready
    /\ render' = "wait"
    /\ UNCHANGED <<setup, outstanding_frames, frame_acks_suspended, last_frame_h264,
                   frame_h264, wire, relaxed>>

\* Mutant: one frame more than the limit is let through.
BlockedLate ==
    surface_ready /\ ~frame_acks_suspended /\ outstanding_frames > MaxOutstanding

(* The loop condition of drd_rdp_graphics_pipeline_wait_for_capacity.      *)
Blocked ==
    surface_ready /\ ~frame_acks_suspended /\ outstanding_frames >= MaxOutstanding

(* drd_rdp_graphics_pipeline_can_submit *)
CanSubmit ==
    /\ surface_ready
    /\ \/ frame_acks_suspended
       \/ outstanding_frames < MaxOutstanding
       \/ last_frame_h264

(* wait_for_capacity(-1): after an H264 frame it returns at once; a full   *)
(* window puts the thread to sleep without a deadline.                     *)
WaitForCapacity ==
    /\ render = "wait"
    /\ render' = IF ~last_frame_h264 /\ Blocked THEN "asleep" ELSE "checked"
    /\ UNCHANGED <<setup, outstanding_frames, frame_acks_suspended, last_frame_h264,
                   frame_h264, wire, relaxed>>

(* The thread is back from g_cond_wait and tests the loop condition only.  *)
WaitResume ==
    /\ render = "woken"
    /\ render' = IF Blocked THEN "asleep" ELSE "checked"
    /\ UNCHANGED <<setup, outstanding_frames, frame_acks_suspended, last_frame_h264,
                   frame_h264, wire, relaxed>>

(* External: g_cond_wait may return without a broadcast.                   *)
SpuriousWakeup ==
    /\ render = "asleep"
    /\ render' = "woken"
    /\ UNCHANGED <<setup, outstanding_frames, frame_acks_suspended, last_frame_h264,
                   frame_h264, wire, relaxed>>

(* can_submit.  The branch for FALSE, which disables the pipeline and      *)
(* falls back to SurfaceBits, is not modelled: FallbackNeverTaken.         *)
RenderMaySubmit ==
    /\ render = "checked"
    /\ CanSubmit
    /\ render' = "pull"
    /\ UNCHANGED <<setup, outstanding_frames, frame_acks_suspended, last_frame_h264,
                   frame_h264, wire, relaxed>>

(* drd_server_runtime_pull_encoded_frame_surface_gfx, or the cached frame  *)
(* when a refresh is due: no frame within 16 ms, or an encoding error,     *)
(* starts the loop over.                                                   *)
PullNothing ==
    /\ render = "pull"
    /\ render' = "wait"
    /\ UNCHANGED <<setup, outstanding_frames, frame_acks_suspended, last_frame_h264,
                   frame_h264, wire, relaxed>>

SendFrame ==
    /\ render = "pull"
    /\ toClient + Len(toServer) < MaxInFlight
    /\ outstanding_frames < MaxInFlight
    /\ toClient' = toClient + 1
    /\ frame_h264' \in BOOLEAN
    /\ relaxed' = (relaxed \/ frame_h264')
    /\ render' = "count"
    /\ UNCHANGED <<setup, outstanding_frames, frame_acks_suspended, last_frame_h264,
                   toServer, clientSuspended>>

CountedFrames ==
    IF frame_acks_suspended THEN outstanding_frames ELSE outstanding_frames + 1

(* drd_rdp_graphics_pipeline_out_frame_change(TRUE), after the frame has   *)
(* left.                                                                   *)
CountFrame ==
    /\ render = "count"
    /\ outstanding_frames' = CountedFrames
    /\ render' = "mode"
    /\ UNCHANGED <<setup, frame_acks_suspended, last_frame_h264, frame_h264, wire, relaxed>>

(* drd_rdp_graphics_pipeline_set_last_frame_mode *)
SetLastFrameMode ==
    /\ render = "mode"
    /\ last_frame_h264' = frame_h264
    /\ render' = "wait"
    /\ UNCHANGED <<setup, outstanding_frames, frame_acks_suspended, frame_h264, wire, relaxed>>
-----------------------------------------------------------------------------
(* outstanding_frames after an ordinary acknowledgement.                   *)
AckedFrames ==
    IF outstanding_frames > 0 /\ ~last_frame_h264 THEN outstanding_frames - 1 ELSE 0

(* drd_rdpgfx_frame_ack for an ordinary acknowledgement.                   *)
FrameAck ==
    /\ toServer # <<>>
    /\ Head(toServer) = "ack"
    /\ frame_acks_suspended' = FALSE
    /\ outstanding_frames' = AckedFrames
    /\ Wake
    /\ toServer' = Tail(toServer)
    /\ UNCHANGED <<setup, last_frame_h264, frame_h264, toClient, clientSuspended, relaxed>>

\* Mutant: the frames counted so far are kept although no answer will come.
FrameAckSuspendKeepsCount ==
    /\ toServer # <<>>
    /\ Head(toServer) = "suspend"
    /\ frame_acks_suspended' = TRUE
    /\ Wake
    /\ toServer' = Tail(toServer)
    /\ UNCHANGED <<setup, outstanding_frames, last_frame_h264, frame_h264, toClient,
                   clientSuspended, relaxed>>

(* drd_rdpgfx_frame_ack for queueDepth = SUSPEND_FRAME_ACKNOWLEDGEMENT.    *)
FrameAckSuspend ==
    /\ toServer # <<>>
    /\ Head(toServer) = "suspend"
    /\ frame_acks_suspended' = TRUE
    /\ outstanding_frames' = 0
    /\ Wake
    /\ toServer' = Tail(toServer)
    /\ UNCHANGED <<setup, last_frame_h264, frame_h264, toClient, clientSuspended, relaxed>>

(* The client decodes the next frame and acknowledges it, acknowledges it  *)
(* and suspends further acknowledgements, or, when they are suspended,     *)
(* says nothing.                                                           *)
ClientAcks ==
    /\ toClient > 0
    /\ toClient' = toClient - 1
    /\ toServer' = Append(toServer, "ack")
    /\ clientSuspended' = FALSE
    /\ UNCHANGED relaxed

ClientSuspends ==
    /\ toClient > 0
    /\ toClient' = toClient - 1
    /\ toServer' = Append(toServer, "suspend")
    /\ clientSuspended' = TRUE
    /\ relaxed' = TRUE

ClientStaysSilent ==
    /\ clientSuspended
    /\ toClient > 0
    /\ toClient' = toClient - 1
    /\ UNCHANGED <<toServer, clientSuspended, relaxed>>

ClientDecodes ==
    /\ ClientAcks \/ ClientSuspends \/ ClientStaysSilent
    /\ UNCHANGED <<setup, outstanding_frames, frame_acks_suspended, last_frame_h264, render,
                   frame_h264>>
-----------------------------------------------------------------------------
RenderStep ==
    \/ RenderSeesSurface
    \/ WaitForCapacity
    \/ WaitResume
    \/ RenderMaySubmit
    \/ PullNothing
    \/ SendFrame
    \/ CountFrame
    \/ SetLastFrameMode

Next ==
    \/ \E t \in Threads : OpenChannel(t) \/ MaybeInit(t)
    \/ CapsConfirm
    \/ RenderStep
    \/ SpuriousWakeup
    \/ FrameAck
    \/ FrameAckSuspend
    \/ ClientDecodes

Spec == Init /\ [][Next]_vars

(* The server's threads are scheduled: the render loop keeps going and     *)
(* what the client has sent is handled.  A live client decodes what it is  *)
(* sent.                                                                   *)
Fairness ==
    /\ WF_vars(RenderStep)
    /\ WF_vars(FrameAck \/ FrameAckSuspend)
    /\ WF_vars(ClientDecodes)

FairSpec == Spec /\ Fairness
-----------------------------------------------------------------------------
TypeOK ==
    /\ channel_opened \in BOOLEAN
    /\ caps_confirmed \in BOOLEAN
    /\ surface_ready \in BOOLEAN
    /\ outstanding_frames \in Nat
    /\ frame_acks_suspended \in BOOLEAN
    /\ last_frame_h264 \in BOOLEAN
    /\ opened \in BOOLEAN
    /\ opening \in SUBSET Threads
    /\ render \in RenderStates
    /\ frame_h264 \in BOOLEAN
    /\ toClient \in Nat
    /\ toServer \in Seq({"ack", "suspend"})
    /\ clientSuspended \in BOOLEAN
    /\ relaxed \in BOOLEAN

(* Frames for which an answer may still come.                              *)
Owed == toClient + Len(toServer)

(* 1 while the render thread has sent a frame it has not yet counted.      *)
Uncounted == IF render = "count" THEN 1 ELSE 0

HasSuspend(s) == \E i \in 1..Len(s) : s[i] = "suspend"

SuspendInTransit == HasSuspend(toServer)

(* A render thread asleep on capacity_cond has reason to be: no            *)
(* acknowledgement, suspension or surface reset slips in without waking it.*)
NoLostWakeup == render = "asleep" => Blocked

(* The count runs ahead of the frames the client still owes an answer for  *)
(* by at most one, although an acknowledgement may overtake the count of   *)
(* its own frame, be swallowed at zero, or be replaced by a suspension.    *)
CountAtMostOneAhead ==
    ~SuspendInTransit => outstanding_frames + Uncounted <= Owed + 1

(* The render thread never waits for nothing: while it sleeps, without a   *)
(* deadline, an answer of the client is still to come.                     *)
AnswerStillToCome == render = "asleep" => Owed > 0

(* While the client suspends its acknowledgements nothing is counted, so   *)
(* that the window starts from zero when it resumes (part of the inductive *)
(* invariant).                                                             *)
SuspendedCountsNothing == frame_acks_suspended => outstanding_frames = 0

(* As long as only Progressive frames were sent and the client never       *)
(* suspended, at most MaxOutstanding frames are unanswered.                *)
WindowRespected == ~relaxed => Owed <= MaxOutstanding

(* When wait_for_capacity has returned, can_submit holds, whatever arrived *)
(* between the two critical sections: the render loop's fall back to       *)
(* SurfaceBits ("Rdpgfx congestion") is never taken.                       *)
FallbackNeverTaken == render = "checked" => CanSubmit

(* With a client that keeps decoding, a blocked render thread comes back.  *)
BlockedRenderResumes == (render = "asleep") ~> (render = "checked")
=============================================================================
