---------------------------- MODULE StreamProofs ----------------------------
(***************************************************************************)
(* Proofs about the two directions of a connection.                        *)
(*                                                                         *)
(* Frames, to the client: the back-pressure of drd_rdp_graphics_pipeline.c *)
(* never strands the render thread, for every window of at least two       *)
(* frames and every number of frames in flight.                            *)
(*                                                                         *)
(* Input, from the client: for any keys, layouts, buttons, widths and      *)
(* number of streams, a remembered key code is one of this stream's, what  *)
(* the client has let go does not stay down, and the pointer is put where  *)
(* the client pointed.                                                     *)
(***************************************************************************)
EXTENDS GraphicsPipeline, Input, TLAPS
-----------------------------------------------------------------------------
(* The render thread leaves its polling loop only once a surface exists,   *)
(* and nothing is on the wire before.                                      *)
SurfaceBeforeFrames ==
    IF render = "poll" THEN toClient = 0 /\ toServer = <<>> /\ ~clientSuspended
                       ELSE surface_ready

(* A client that has suspended its acknowledgements said so last; once the *)
(* server has read everything it knows.                                    *)
SuspensionKnown ==
    clientSuspended => IF toServer = <<>> THEN frame_acks_suspended
                       ELSE toServer[Len(toServer)] = "suspend"

(* Before any H264 frame and any suspension the count is no less than what *)
(* the client owes, and the render thread submits only below the window.   *)
StrictWindow ==
    ~relaxed => /\ ~SuspendInTransit
                /\ ~clientSuspended
                /\ ~frame_acks_suspended
                /\ ~last_frame_h264
                /\ ~frame_h264
                /\ Owed <= outstanding_frames + Uncounted
                /\ outstanding_frames + Uncounted <= MaxOutstanding
                /\ render \in {"checked", "pull"} => outstanding_frames < MaxOutstanding

(* The inductive invariant.                                                *)
IInv ==
    /\ TypeOK
    /\ SurfaceBeforeFrames
    /\ NoLostWakeup
    /\ SuspendedCountsNothing
    /\ SuspensionKnown
    /\ CountAtMostOneAhead
    /\ FallbackNeverTaken
    /\ StrictWindow

Answers == {"ack", "suspend"}

(* What appending an answer and consuming the oldest one do to the channel *)
(* from the client.                                                        *)
LEMMA AppendAnswer ==
    ASSUME NEW s \in Seq(Answers), NEW a \in Answers
    PROVE  /\ Append(s, a) \in Seq(Answers)
           /\ Append(s, a) # <<>>
           /\ Len(Append(s, a)) = Len(s) + 1
           /\ Append(s, a)[Len(Append(s, a))] = a
           /\ HasSuspend(Append(s, a)) <=> HasSuspend(s) \/ a = "suspend"
<1>1. /\ Append(s, a) \in Seq(Answers)
      /\ Len(Append(s, a)) = Len(s) + 1
      /\ Append(s, a)[Len(s) + 1] = a
      /\ \A i \in 1..Len(s) : Append(s, a)[i] = s[i]
      /\ Len(s) \in Nat
  OBVIOUS
<1>2. Append(s, a) # <<>>
  BY <1>1
<1>3. HasSuspend(Append(s, a)) <=> HasSuspend(s) \/ a = "suspend"
  <2>1. 1..(Len(s) + 1) = 1..Len(s) \cup {Len(s) + 1}
    BY <1>1
  <2> QED BY <1>1, <2>1 DEF HasSuspend
<1> QED BY <1>1, <1>2, <1>3

(* Consuming the oldest answer shortens what the client has sent by it.    *)
LEMMA ConsumeAnswer ==
    ASSUME NEW s \in Seq(Answers), s # <<>>
    PROVE  /\ Tail(s) \in Seq(Answers)
           /\ Len(Tail(s)) = Len(s) - 1
           /\ Len(s) \in Nat \ {0}
           /\ HasSuspend(s) <=> HasSuspend(Tail(s)) \/ Head(s) = "suspend"
           /\ Tail(s) # <<>> => Tail(s)[Len(Tail(s))] = s[Len(s)]
           /\ Tail(s) = <<>> => Head(s) = s[Len(s)]
<1>1. /\ Tail(s) \in Seq(Answers)
      /\ Len(Tail(s)) = Len(s) - 1
      /\ Len(s) \in Nat \ {0}
      /\ Head(s) = s[1]
      /\ \A i \in 1..(Len(s) - 1) : Tail(s)[i] = s[i + 1]
  OBVIOUS
<1>2. HasSuspend(s) <=> HasSuspend(Tail(s)) \/ Head(s) = "suspend"
  <2>1. ASSUME NEW i \in 1..Len(s), s[i] = "suspend"
        PROVE  HasSuspend(Tail(s)) \/ Head(s) = "suspend"
    <3>1. CASE i = 1 BY <3>1, <2>1, <1>1
    <3>2. CASE i # 1
      <4>1. i - 1 \in 1..(Len(s) - 1) /\ (i - 1) + 1 = i BY <3>2, <1>1
      <4>2. Tail(s)[i - 1] = s[i] BY <4>1, <1>1
      <4> QED BY <4>1, <4>2, <2>1, <1>1 DEF HasSuspend
    <3> QED BY <3>1, <3>2
  <2>2. ASSUME HasSuspend(Tail(s)) PROVE HasSuspend(s)
    <3>1. PICK i \in 1..(Len(s) - 1) : Tail(s)[i] = "suspend" BY <2>2, <1>1 DEF HasSuspend
    <3>2. i + 1 \in 1..Len(s) /\ s[i + 1] = "suspend" BY <3>1, <1>1
    <3> QED BY <3>2 DEF HasSuspend
  <2>3. ASSUME Head(s) = "suspend" PROVE HasSuspend(s)
    <3>1. 1 \in 1..Len(s) BY <1>1
    <3> QED BY <3>1, <2>3, <1>1 DEF HasSuspend
  <2> QED BY <2>1, <2>2, <2>3 DEF HasSuspend
<1>3. Tail(s) # <<>> => Tail(s)[Len(Tail(s))] = s[Len(s)]
  <2> SUFFICES ASSUME Tail(s) # <<>> PROVE Tail(s)[Len(s) - 1] = s[Len(s)]
    BY <1>1
  <2>1. Len(s) - 1 \in 1..(Len(s) - 1) /\ (Len(s) - 1) + 1 = Len(s) BY <1>1
  <2> QED BY <2>1, <1>1
<1>4. Tail(s) = <<>> => Head(s) = s[Len(s)]
  <2> SUFFICES ASSUME Tail(s) = <<>> PROVE Head(s) = s[Len(s)] OBVIOUS
  <2>0. Len(<<>>) = 0 OBVIOUS
  <2>1. Len(Tail(s)) = 0 BY <2>0, Zenon
  <2>2. Len(s) = 1 BY <2>1, <1>1
  <2> QED BY <2>2, <1>1
<1> QED BY <1>1, <1>2, <1>3, <1>4

(* A new pipeline has nothing outstanding and an empty wire.               *)
LEMMA InitEstablishesIInv == Init => IInv
<1> SUFFICES ASSUME Init PROVE IInv OBVIOUS
<1> USE MaxOutstandingAssumption DEF Init
<1>1. TypeOK
  <2>1. toServer \in Seq({"ack", "suspend"}) OBVIOUS
  <2>2. render \in RenderStates BY DEF RenderStates
  <2>3. opening \in SUBSET Threads OBVIOUS
  <2> QED BY <2>1, <2>2, <2>3 DEF TypeOK
<1>2. ~SuspendInTransit /\ Owed = 0 /\ Uncounted = 0
  BY DEF SuspendInTransit, HasSuspend, Owed, Uncounted
<1>3. SurfaceBeforeFrames /\ NoLostWakeup /\ SuspendedCountsNothing /\ SuspensionKnown
      /\ FallbackNeverTaken
  BY DEF SurfaceBeforeFrames, NoLostWakeup, SuspendedCountsNothing, SuspensionKnown,
         FallbackNeverTaken
<1>4. CountAtMostOneAhead /\ StrictWindow
  BY <1>2 DEF CountAtMostOneAhead, StrictWindow
<1> QED BY <1>1, <1>3, <1>4 DEF IInv

(* The count bound, as arithmetic: one uncounted frame is the slack.       *)
LEMMA OneAhead ==
    ASSUME NEW n \in Nat, NEW u \in 0..1, NEW o \in Nat, n = 0
    PROVE  n + u <= o + 1
OBVIOUS

(* The invariant speaks of the wire, the window and the render thread:     *)
(* Frame is what an action that touches none of the wire keeps.            *)
LEMMA WireUnchanged ==
    ASSUME UNCHANGED wire
    PROVE  UNCHANGED <<toClient, toServer, clientSuspended, Owed, SuspendInTransit>>
BY DEF wire, Owed, SuspendInTransit, HasSuspend

(* Opening the channel and confirming the capabilities change neither.     *)
LEMMA SetupPreservesIInv ==
    ASSUME IInv,
           opening' \in SUBSET Threads,
           channel_opened' \in BOOLEAN,
           caps_confirmed' \in BOOLEAN,
           opened' \in BOOLEAN,
           UNCHANGED <<surface_ready, outstanding_frames, frame_acks_suspended,
                       last_frame_h264, render, frame_h264, wire, relaxed>>
    PROVE  IInv'
<1>1. UNCHANGED <<toClient, toServer, clientSuspended, Owed, SuspendInTransit>>
  BY WireUnchanged
<1>2. TypeOK' BY <1>1 DEF IInv, TypeOK
<1>3. /\ SurfaceBeforeFrames'
      /\ NoLostWakeup'
      /\ SuspendedCountsNothing'
      /\ SuspensionKnown'
      /\ FallbackNeverTaken'
  BY <1>1 DEF IInv, SurfaceBeforeFrames, NoLostWakeup, Blocked, SuspendedCountsNothing,
              SuspensionKnown, FallbackNeverTaken, CanSubmit
<1>4. CountAtMostOneAhead' /\ StrictWindow'
  BY <1>1 DEF IInv, CountAtMostOneAhead, StrictWindow, Uncounted
<1> QED BY <1>2, <1>3, <1>4 DEF IInv

(* maybe_init resets the counters only for a surface that did not exist,   *)
(* when the render thread is still polling and the wire is empty.          *)
LEMMA MaybeInitPreservesIInv ==
    ASSUME IInv, NEW t \in Threads, MaybeInit(t)
    PROVE  IInv'
<1>0. TypeOK /\ opening' \in SUBSET Threads /\ channel_opened' \in BOOLEAN
  BY DEF IInv, TypeOK, MaybeInit
<1>1. CASE UNCHANGED <<surface_ready, outstanding_frames, frame_acks_suspended,
                       last_frame_h264, render>>
  BY <1>0, <1>1, SetupPreservesIInv DEF MaybeInit, TypeOK
<1>2. CASE /\ ~surface_ready
           /\ outstanding_frames' = 0
           /\ surface_ready' = TRUE
           /\ last_frame_h264' = FALSE
           /\ frame_acks_suspended' = FALSE
           /\ Wake
  <2>1. /\ render = "poll"
        /\ render' = "poll"
        /\ toClient = 0
        /\ toServer = <<>>
        /\ ~clientSuspended
    BY <1>2 DEF IInv, SurfaceBeforeFrames, Wake
  <2>2. UNCHANGED <<toClient, toServer, clientSuspended, Owed, SuspendInTransit>>
        /\ UNCHANGED <<frame_h264, relaxed, caps_confirmed, opened>>
    BY WireUnchanged DEF MaybeInit
  <2>3. TypeOK'
    BY <1>0, <1>2, <2>1, <2>2 DEF TypeOK, MaybeInit
  <2>4. Owed' = 0 /\ ~SuspendInTransit' /\ Uncounted' = 0
    BY <2>1, <2>2 DEF Owed, SuspendInTransit, HasSuspend, Uncounted
  <2>5. CountAtMostOneAhead' /\ StrictWindow'
    BY <1>2, <2>1, <2>2, <2>4, MaxOutstandingAssumption DEF IInv, CountAtMostOneAhead, StrictWindow
  <2>6. /\ SurfaceBeforeFrames'
        /\ NoLostWakeup'
        /\ SuspendedCountsNothing'
        /\ SuspensionKnown'
        /\ FallbackNeverTaken'
    BY <1>2, <2>1, <2>2 DEF SurfaceBeforeFrames, NoLostWakeup, SuspendedCountsNothing,
                            SuspensionKnown, FallbackNeverTaken
  <2> QED BY <2>3, <2>5, <2>6 DEF IInv
<1> QED BY <1>1, <1>2 DEF MaybeInit, ResetLocked

(* The steps of the render thread that only move it along.                 *)
LEMMA RenderMovePreservesIInv ==
    ASSUME IInv,
           UNCHANGED <<setup, outstanding_frames, frame_acks_suspended, frame_h264, wire,
                       relaxed, last_frame_h264>>,
           surface_ready,
           \/ render = "poll" /\ render' = "wait"
           \/ render = "wait" /\ render' = IF ~last_frame_h264 /\ Blocked THEN "asleep" ELSE "checked"
           \/ render = "woken" /\ render' = IF Blocked THEN "asleep" ELSE "checked"
           \/ render = "asleep" /\ render' = "woken"
           \/ render = "checked" /\ CanSubmit /\ render' = "pull"
           \/ render = "pull" /\ render' = "wait"
    PROVE  IInv'
<1>0. TypeOK BY DEF IInv
<1>1. UNCHANGED <<toClient, toServer, clientSuspended, Owed, SuspendInTransit>>
      /\ UNCHANGED surface_ready
  BY WireUnchanged DEF setup
<1>2. Uncounted = 0 /\ Uncounted' = 0 /\ render' # "poll" BY DEF Uncounted
<1>3. TypeOK'
  <2>1. render' \in RenderStates BY DEF RenderStates
  <2> QED BY <1>0, <1>1, <2>1 DEF TypeOK, setup
<1>4. SurfaceBeforeFrames' BY <1>1, <1>2 DEF SurfaceBeforeFrames
<1>5. NoLostWakeup' BY <1>1 DEF NoLostWakeup, Blocked
<1>6. SuspendedCountsNothing' /\ SuspensionKnown'
  BY <1>1 DEF IInv, SuspendedCountsNothing, SuspensionKnown
<1>7. CountAtMostOneAhead' BY <1>1, <1>2 DEF IInv, CountAtMostOneAhead
<1>8. FallbackNeverTaken'
  BY <1>0, <1>1, MaxOutstandingAssumption DEF FallbackNeverTaken, CanSubmit, Blocked, TypeOK
<1>9. StrictWindow'
  BY <1>0, <1>1, <1>2, MaxOutstandingAssumption
     DEF IInv, StrictWindow, Blocked, TypeOK
<1> QED BY <1>3, <1>4, <1>5, <1>6, <1>7, <1>8, <1>9 DEF IInv

(* A frame sent and not counted yet is owed an answer.                     *)
LEMMA SendFramePreservesIInv == ASSUME IInv, SendFrame PROVE IInv'
<1>0. TypeOK /\ Len(toServer) \in Nat BY DEF IInv, TypeOK
<1>1. /\ UNCHANGED <<toServer, clientSuspended, SuspendInTransit, surface_ready,
                     outstanding_frames, frame_acks_suspended, last_frame_h264>>
      /\ Owed' = Owed + 1
      /\ render = "pull"
      /\ render' = "count"
      /\ Uncounted = 0
      /\ Uncounted' = 1
      /\ frame_h264' \in BOOLEAN
      /\ relaxed' \in BOOLEAN
      /\ ~relaxed' => ~relaxed /\ ~frame_h264'
  BY <1>0 DEF SendFrame, setup, SuspendInTransit, HasSuspend, Owed, Uncounted, TypeOK
<1>2. TypeOK' BY <1>0, <1>1 DEF TypeOK, SendFrame, setup, RenderStates
<1>3. SurfaceBeforeFrames' /\ NoLostWakeup' /\ SuspendedCountsNothing' /\ SuspensionKnown'
      /\ FallbackNeverTaken'
  BY <1>1 DEF IInv, SurfaceBeforeFrames, NoLostWakeup, SuspendedCountsNothing,
              SuspensionKnown, FallbackNeverTaken
<1>4. CountAtMostOneAhead'
  BY <1>0, <1>1 DEF IInv, CountAtMostOneAhead, Owed, TypeOK
<1>5. StrictWindow'
  BY <1>0, <1>1, MaxOutstandingAssumption DEF IInv, StrictWindow, Owed, TypeOK
<1> QED BY <1>2, <1>3, <1>4, <1>5 DEF IInv

(* Counting turns the one uncounted frame into an outstanding one.         *)
LEMMA CountFramePreservesIInv == ASSUME IInv, CountFrame PROVE IInv'
<1>0. TypeOK /\ Owed \in Nat BY DEF IInv, TypeOK, Owed
<1>1. UNCHANGED <<toClient, toServer, clientSuspended, Owed, SuspendInTransit>>
  BY WireUnchanged DEF CountFrame
<1>2. /\ UNCHANGED <<surface_ready, frame_acks_suspended, last_frame_h264, frame_h264, relaxed>>
      /\ render = "count"
      /\ render' = "mode"
      /\ Uncounted = 1
      /\ Uncounted' = 0
      /\ outstanding_frames' = IF frame_acks_suspended THEN outstanding_frames
                               ELSE outstanding_frames + 1
  BY DEF CountFrame, CountedFrames, setup, Uncounted
<1>3. TypeOK' BY <1>0, <1>1, <1>2 DEF TypeOK, CountFrame, setup, RenderStates
<1>4. SurfaceBeforeFrames' /\ NoLostWakeup' /\ SuspendedCountsNothing' /\ SuspensionKnown'
      /\ FallbackNeverTaken'
  BY <1>1, <1>2 DEF IInv, SurfaceBeforeFrames, NoLostWakeup, SuspendedCountsNothing,
                    SuspensionKnown, FallbackNeverTaken
<1>5. CountAtMostOneAhead'
  BY <1>0, <1>1, <1>2 DEF IInv, CountAtMostOneAhead, TypeOK
<1>6. StrictWindow'
  BY <1>0, <1>1, <1>2, MaxOutstandingAssumption DEF IInv, StrictWindow, TypeOK
<1> QED BY <1>3, <1>4, <1>5, <1>6 DEF IInv

(* Recording the mode of the frame ends the submission.                    *)
LEMMA SetLastFrameModePreservesIInv == ASSUME IInv, SetLastFrameMode PROVE IInv'
<1>0. TypeOK BY DEF IInv
<1>1. UNCHANGED <<toClient, toServer, clientSuspended, Owed, SuspendInTransit>>
  BY WireUnchanged DEF SetLastFrameMode
<1>2. /\ UNCHANGED <<surface_ready, frame_acks_suspended, outstanding_frames, frame_h264, relaxed>>
      /\ last_frame_h264' = frame_h264
      /\ render = "mode"
      /\ render' = "wait"
      /\ Uncounted = 0
      /\ Uncounted' = 0
  BY DEF SetLastFrameMode, setup, Uncounted
<1>3. TypeOK' BY <1>0, <1>1, <1>2 DEF TypeOK, SetLastFrameMode, setup, RenderStates
<1>4. SurfaceBeforeFrames' /\ NoLostWakeup' /\ SuspendedCountsNothing' /\ SuspensionKnown'
      /\ FallbackNeverTaken'
  BY <1>1, <1>2 DEF IInv, SurfaceBeforeFrames, NoLostWakeup, SuspendedCountsNothing,
                    SuspensionKnown, FallbackNeverTaken
<1>5. CountAtMostOneAhead' /\ StrictWindow'
  BY <1>1, <1>2 DEF IInv, CountAtMostOneAhead, StrictWindow
<1> QED BY <1>3, <1>4, <1>5 DEF IInv

(* An acknowledgement: the count and what is owed fall together, or the    *)
(* count is zero already.                                                  *)
LEMMA FrameAckPreservesIInv == ASSUME IInv, FrameAck PROVE IInv'
<1>0. TypeOK /\ toServer \in Seq(Answers) /\ toServer # <<>> /\ Head(toServer) = "ack"
      /\ toClient \in Nat /\ outstanding_frames \in Nat
  BY DEF IInv, TypeOK, FrameAck, Answers
<1>1. /\ toServer' \in Seq(Answers)
      /\ Len(toServer) \in Nat \ {0}
      /\ Owed' = Owed - 1
      /\ Owed \in Nat \ {0}
      /\ SuspendInTransit' <=> SuspendInTransit
      /\ toServer' # <<>> => toServer'[Len(toServer')] = toServer[Len(toServer)]
      /\ toServer' = <<>> => toServer[Len(toServer)] = "ack"
  BY <1>0, ConsumeAnswer DEF FrameAck, Owed, SuspendInTransit
<1>2. /\ UNCHANGED <<surface_ready, last_frame_h264, frame_h264, clientSuspended, relaxed>>
      /\ ~frame_acks_suspended'
      /\ frame_acks_suspended' \in BOOLEAN
      /\ outstanding_frames' = IF outstanding_frames > 0 /\ ~last_frame_h264
                               THEN outstanding_frames - 1 ELSE 0
      /\ render' = IF render = "asleep" THEN "woken" ELSE render
      /\ Uncounted' = Uncounted
      /\ Uncounted \in {0, 1}
  BY DEF FrameAck, AckedFrames, Wake, setup, Uncounted
<1>3. TypeOK'
  BY <1>0, <1>1, <1>2 DEF TypeOK, FrameAck, setup, RenderStates, Answers
<1>4. SurfaceBeforeFrames' /\ NoLostWakeup' /\ SuspendedCountsNothing'
  BY <1>0, <1>2 DEF IInv, SurfaceBeforeFrames, NoLostWakeup, SuspendedCountsNothing
<1>5. SuspensionKnown' BY <1>0, <1>1, <1>2 DEF IInv, SuspensionKnown
<1>6. CountAtMostOneAhead' BY <1>0, <1>1, <1>2 DEF IInv, CountAtMostOneAhead
<1>7. FallbackNeverTaken'
  BY <1>0, <1>2, MaxOutstandingAssumption
     DEF IInv, FallbackNeverTaken, CanSubmit, SuspendedCountsNothing
<1>8. StrictWindow'
  BY <1>0, <1>1, <1>2, MaxOutstandingAssumption DEF IInv, StrictWindow
<1> QED BY <1>3, <1>4, <1>5, <1>6, <1>7, <1>8 DEF IInv

(* A suspension: nothing is counted any more.                              *)
LEMMA FrameAckSuspendPreservesIInv == ASSUME IInv, FrameAckSuspend PROVE IInv'
<1>0. TypeOK /\ toServer \in Seq(Answers) /\ toServer # <<>> /\ Head(toServer) = "suspend"
      /\ toClient \in Nat
  BY DEF IInv, TypeOK, FrameAckSuspend, Answers
<1>1. /\ toServer' \in Seq(Answers)
      /\ Owed' \in Nat
      /\ SuspendInTransit
      /\ toServer' # <<>> => toServer'[Len(toServer')] = toServer[Len(toServer)]
  BY <1>0, ConsumeAnswer DEF FrameAckSuspend, Owed, SuspendInTransit
<1>2. /\ UNCHANGED <<surface_ready, last_frame_h264, frame_h264, clientSuspended, relaxed>>
      /\ frame_acks_suspended'
      /\ frame_acks_suspended' \in BOOLEAN
      /\ outstanding_frames' = 0
      /\ render' = IF render = "asleep" THEN "woken" ELSE render
      /\ Uncounted' \in {0, 1}
  BY DEF FrameAckSuspend, Wake, setup, Uncounted
<1>3. TypeOK'
  BY <1>0, <1>1, <1>2 DEF TypeOK, FrameAckSuspend, setup, RenderStates, Answers
<1>4. SurfaceBeforeFrames' /\ NoLostWakeup' /\ SuspendedCountsNothing'
  BY <1>0, <1>2 DEF IInv, SurfaceBeforeFrames, NoLostWakeup, SuspendedCountsNothing
<1>5. SuspensionKnown' BY <1>0, <1>1, <1>2 DEF IInv, SuspensionKnown
<1>6. CountAtMostOneAhead'
  <2>0. outstanding_frames' = 0 /\ outstanding_frames' \in Nat /\ Uncounted' \in 0..1 /\ Owed' \in Nat BY <1>1, <1>2
  <2>1. outstanding_frames' + Uncounted' <= Owed' + 1 BY <2>0, OneAhead, Zenon
  <2> QED BY <2>1 DEF CountAtMostOneAhead
<1>7. FallbackNeverTaken' BY <1>2 DEF IInv, FallbackNeverTaken, CanSubmit
<1>8. StrictWindow' BY <1>1, <1>2 DEF IInv, StrictWindow
<1> QED BY <1>3, <1>4, <1>5, <1>6, <1>7, <1>8 DEF IInv

(* A decoded frame becomes an answer, or none while they are suspended.    *)
LEMMA ClientDecodesPreservesIInv == ASSUME IInv, ClientDecodes PROVE IInv'
<1>0. TypeOK /\ toServer \in Seq(Answers) /\ Len(toServer) \in Nat /\ toClient \in Nat
      /\ toClient > 0 /\ toClient' = toClient - 1
  BY DEF IInv, TypeOK, ClientDecodes, ClientAcks, ClientSuspends, ClientStaysSilent, Answers
<1>1. /\ UNCHANGED <<surface_ready, last_frame_h264, frame_h264, frame_acks_suspended,
                     outstanding_frames, render, Uncounted>>
      /\ Uncounted \in {0, 1}
      /\ render # "poll"
  BY <1>0 DEF ClientDecodes, setup, Uncounted, IInv, SurfaceBeforeFrames
<1>2. SurfaceBeforeFrames' /\ NoLostWakeup' /\ SuspendedCountsNothing' /\ FallbackNeverTaken'
  BY <1>1 DEF IInv, SurfaceBeforeFrames, NoLostWakeup, Blocked, SuspendedCountsNothing,
              FallbackNeverTaken, CanSubmit
<1>3. ASSUME ClientAcks
      PROVE  TypeOK' /\ SuspensionKnown' /\ CountAtMostOneAhead' /\ StrictWindow'
  <2>0. toServer' = Append(toServer, "ack") /\ toClient' = toClient - 1
    BY <1>3 DEF ClientAcks
  <2>a. SuspendInTransit' <=> SuspendInTransit
    BY <1>0, <2>0, AppendAnswer DEF SuspendInTransit, Answers
  <2>b. toServer' \in Seq(Answers) /\ Owed' = Owed
    BY <1>0, <2>0, AppendAnswer DEF Owed, Answers
  <2>1. /\ toServer' \in Seq(Answers)
        /\ Owed' = Owed
        /\ ~clientSuspended'
        /\ clientSuspended' \in BOOLEAN
        /\ relaxed' = relaxed
    BY <1>3, <2>b DEF ClientAcks
  <2>2. TypeOK' BY <1>0, <1>1, <2>1 DEF TypeOK, ClientDecodes, setup, Answers
  <2>3. SuspensionKnown' BY <2>1 DEF SuspensionKnown
  <2>4. CountAtMostOneAhead' /\ StrictWindow'
    BY <1>1, <2>a, <2>1 DEF IInv, CountAtMostOneAhead, StrictWindow
  <2> QED BY <2>2, <2>3, <2>4
<1>4. ASSUME ClientSuspends
      PROVE  TypeOK' /\ SuspensionKnown' /\ CountAtMostOneAhead' /\ StrictWindow'
  <2>1. /\ toServer' \in Seq(Answers)
        /\ toServer' # <<>>
        /\ toServer'[Len(toServer')] = "suspend"
        /\ SuspendInTransit'
        /\ clientSuspended' \in BOOLEAN
        /\ relaxed' /\ relaxed' \in BOOLEAN
    BY <1>0, <1>4, AppendAnswer DEF ClientSuspends, SuspendInTransit, Answers
  <2>2. TypeOK' BY <1>0, <1>1, <2>1 DEF TypeOK, ClientDecodes, setup, Answers
  <2> QED BY <2>1, <2>2 DEF SuspensionKnown, CountAtMostOneAhead, StrictWindow
<1>5. ASSUME ClientStaysSilent
      PROVE  TypeOK' /\ SuspensionKnown' /\ CountAtMostOneAhead' /\ StrictWindow'
  <2>1. UNCHANGED <<toServer, clientSuspended, relaxed, SuspendInTransit>> /\ clientSuspended
    BY <1>5 DEF ClientStaysSilent, SuspendInTransit, HasSuspend
  <2>2. TypeOK' BY <1>0, <1>1, <2>1 DEF TypeOK, ClientDecodes, setup
  <2>3. SuspensionKnown' BY <1>1, <2>1 DEF IInv, SuspensionKnown
  <2>4. CountAtMostOneAhead'
    <3>1. ~SuspendInTransit => outstanding_frames = 0
      <4> SUFFICES ASSUME ~SuspendInTransit PROVE outstanding_frames = 0 OBVIOUS
      <4>1. toServer = <<>>
        <5>1. toServer # <<>> => Len(toServer) \in 1..Len(toServer) BY <1>0
        <5> QED BY <5>1, <2>1 DEF IInv, SuspensionKnown, SuspendInTransit, HasSuspend
      <4> QED BY <4>1, <2>1 DEF IInv, SuspensionKnown, SuspendedCountsNothing
    <3>2. Owed' \in Nat BY <1>0, <2>1 DEF Owed
    <3>3. ASSUME ~SuspendInTransit' PROVE outstanding_frames' + Uncounted' <= Owed' + 1
      <4>1. outstanding_frames' = 0 /\ outstanding_frames' \in Nat /\ Uncounted' \in 0..1 BY <1>1, <2>1, <3>1, <3>3
      <4> QED BY <4>1, <3>2, OneAhead, Zenon
    <3> QED BY <3>3 DEF CountAtMostOneAhead
  <2>5. StrictWindow' BY <2>1 DEF IInv, StrictWindow
  <2> QED BY <2>2, <2>3, <2>4, <2>5
<1> QED BY <1>2, <1>3, <1>4, <1>5 DEF IInv, ClientDecodes

(* Every step of the pipeline preserves the inductive invariant.           *)
LEMMA NextPreservesIInv == IInv /\ [Next]_vars => IInv'
<1> SUFFICES ASSUME IInv, [Next]_vars PROVE IInv' OBVIOUS
<1>0. TypeOK /\ (render # "poll" => surface_ready) BY DEF IInv, SurfaceBeforeFrames
<1>1. ASSUME NEW t \in Threads, OpenChannel(t) PROVE IInv'
  BY <1>0, <1>1, SetupPreservesIInv DEF OpenChannel, TypeOK
<1>2. ASSUME NEW t \in Threads, MaybeInit(t) PROVE IInv'
  BY <1>2, MaybeInitPreservesIInv
<1>3. CASE CapsConfirm
  BY <1>0, <1>3, SetupPreservesIInv DEF CapsConfirm, TypeOK
<1>4. CASE RenderSeesSurface
  BY <1>4, RenderMovePreservesIInv DEF RenderSeesSurface
<1>5. CASE WaitForCapacity
  BY <1>0, <1>5, RenderMovePreservesIInv DEF WaitForCapacity
<1>6. CASE WaitResume
  BY <1>0, <1>6, RenderMovePreservesIInv DEF WaitResume
<1>7. CASE RenderMaySubmit
  BY <1>0, <1>7, RenderMovePreservesIInv DEF RenderMaySubmit
<1>8. CASE PullNothing
  BY <1>0, <1>8, RenderMovePreservesIInv DEF PullNothing
<1>9. CASE SendFrame BY <1>9, SendFramePreservesIInv
<1>10. CASE CountFrame BY <1>10, CountFramePreservesIInv
<1>11. CASE SetLastFrameMode BY <1>11, SetLastFrameModePreservesIInv
<1>12. CASE FrameAck BY <1>12, FrameAckPreservesIInv
<1>13. CASE FrameAckSuspend BY <1>13, FrameAckSuspendPreservesIInv
<1>14. CASE ClientDecodes BY <1>14, ClientDecodesPreservesIInv
<1>15. CASE SpuriousWakeup
  BY <1>0, <1>15, RenderMovePreservesIInv DEF SpuriousWakeup
<1>16. CASE UNCHANGED vars
  BY <1>0, <1>16, SetupPreservesIInv DEF vars, wire, TypeOK
<1> QED
  BY <1>1, <1>2, <1>3, <1>4, <1>5, <1>6, <1>7, <1>8, <1>9, <1>10, <1>11, <1>12, <1>13,
     <1>14, <1>15, <1>16 DEF Next, RenderStep

(* The inductive invariant holds in every behaviour of the pipeline.       *)
THEOREM PipelineInvariance == Spec => []IInv
BY InitEstablishesIInv, NextPreservesIInv, PTL DEF Spec

(* drd_rdp_graphics_pipeline.c keeps its fields within their types: an     *)
(* acknowledgement never makes outstanding_frames negative.                *)
THEOREM TypeCorrect == Spec => []TypeOK
<1>1. IInv => TypeOK BY DEF IInv
<1> QED BY <1>1, PipelineInvariance, PTL

(* The render thread, which sleeps without a deadline, is never left       *)
(* without an answer still to come.  This is where a window of at least    *)
(* two frames is needed: the count may be one ahead.                       *)
THEOREM RenderNeverStranded == Spec => []AnswerStillToCome
<1>1. IInv => AnswerStillToCome
  <2> SUFFICES ASSUME IInv, render = "asleep" PROVE Owed > 0 BY DEF AnswerStillToCome
  <2>1. outstanding_frames >= MaxOutstanding /\ outstanding_frames \in Nat
        /\ toClient \in Nat /\ Len(toServer) \in Nat
    BY DEF IInv, TypeOK, NoLostWakeup, Blocked
  <2>2. CASE SuspendInTransit
    BY <2>1, <2>2 DEF SuspendInTransit, HasSuspend, Owed
  <2>3. CASE ~SuspendInTransit
    BY <2>1, <2>3, MaxOutstandingAssumption DEF IInv, CountAtMostOneAhead, Uncounted, Owed
  <2> QED BY <2>2, <2>3
<1> QED BY <1>1, PipelineInvariance, PTL

(* outstanding_frames is at most one ahead of the answers still to come.   *)
THEOREM CountStaysClose == Spec => []CountAtMostOneAhead
<1>1. IInv => CountAtMostOneAhead BY DEF IInv
<1> QED BY <1>1, PipelineInvariance, PTL

(* Between wait_for_capacity and can_submit nothing can close the window:  *)
(* the render loop never falls back to SurfaceBits because of congestion.  *)
THEOREM NoFallback == Spec => []FallbackNeverTaken
<1>1. IInv => FallbackNeverTaken BY DEF IInv
<1> QED BY <1>1, PipelineInvariance, PTL

(* A client that always acknowledges Progressive frames never has more     *)
(* than the window to answer.                                              *)
THEOREM WindowHolds == Spec => []WindowRespected
<1>1. IInv => WindowRespected
  <2> SUFFICES ASSUME IInv, ~relaxed PROVE Owed <= MaxOutstanding BY DEF WindowRespected
  <2>1. Owed \in Nat /\ outstanding_frames + Uncounted \in Nat
    BY DEF IInv, TypeOK, Owed, Uncounted
  <2> QED BY <2>1, MaxOutstandingAssumption DEF IInv, StrictWindow
<1> QED BY <1>1, PipelineInvariance, PTL
-----------------------------------------------------------------------------
(* The cache, and what the codes in it are taken from.                     *)
CacheInv ==
    /\ running \in BOOLEAN
    /\ keycode_cache \in [Keys -> Codes \union {0, Invalid}]
    /\ table \in Layouts /\ layout \in Layouts
    /\ seen \in [Keys -> SUBSET (Codes \union {0})]
    /\ ~running => keycode_cache = NoCache
    /\ running => \A k \in Keys : layout[k] \in seen[k] /\ table[k] \in seen[k]
    /\ FreshKeycodes

(* What is down: between two streams, only what the last one left.         *)
DownInv ==
    /\ down \subseteq Downs
    /\ ~running => down \subseteq leftover
    /\ NoStuckInput
-----------------------------------------------------------------------------
(* Every key has a code or 0, in a layout and by resolve_keycode.          *)
LEMMA LayoutGivesCode ==
    ASSUME NEW l \in Layouts, NEW k \in Symbols PROVE l[k] \in Codes \union {0}
BY LayoutsAssumption

LEMMA ResolveGivesCode ==
    ASSUME CacheInv, running, NEW key \in Keys
    PROVE  ResolveKeycode(key) \in Codes \union {0} /\ ResolveKeycode(key) \in seen[key]
<1>1. key \in Symbols
  BY DEF Symbols
<1>2. layout[key] \in Codes \union {0} /\ table[key] \in Codes \union {0}
  BY <1>1, LayoutGivesCode DEF CacheInv
<1>3. layout[key] \in seen[key] /\ table[key] \in seen[key]
  BY DEF CacheInv
<1>4. ResolveAfresh(key) \in Codes \union {0} /\ ResolveAfresh(key) \in seen[key]
  BY <1>2, <1>3 DEF ResolveAfresh
<1>5. keycode_cache[key] \in Codes \union {0, Invalid}
  BY DEF CacheInv
<1>6. keycode_cache[key] # Invalid => keycode_cache[key] \in seen[key]
  BY DEF CacheInv, FreshKeycodes
<1>7. QED
  BY <1>4, <1>5, <1>6 DEF ResolveKeycode

(* The steps that touch neither the cache nor the layouts.                 *)
LEMMA ElsewhereKeepsCacheInv ==
    ASSUME CacheInv, UNCHANGED <<running, keycode_cache, table, layout, seen>> PROVE CacheInv'
BY DEF CacheInv, FreshKeycodes

(* Every step of Input preserves CacheInv.                                 *)
LEMMA StepKeepsCacheInv ==
    ASSUME CacheInv, [InputNext]_inputVars PROVE CacheInv'
<1>1. CASE UNCHANGED inputVars
  BY <1>1, ElsewhereKeepsCacheInv DEF inputVars
<1>2. CASE Start
  <2>1. /\ running' = TRUE /\ keycode_cache' = NoCache /\ table' = layout /\ layout' = layout
        /\ seen' = [k \in Keys |-> {layout[k]}]
    BY <1>2 DEF Start, CacheInv
  <2>2. ASSUME NEW k \in Keys PROVE layout[k] \in Codes \union {0}
    BY LayoutGivesCode DEF CacheInv, Symbols
  <2>3. QED
    BY <2>1, <2>2 DEF CacheInv, FreshKeycodes, NoCache
<1>3. CASE StartFails \/ Leave \/ ResizeScreen
  BY <1>3, ElsewhereKeepsCacheInv DEF StartFails, Leave, ResizeScreen, injector, history
<1>4. ASSUME NEW width \in Widths, UpdateDesktopSize(width) PROVE CacheInv'
  BY <1>4, ElsewhereKeepsCacheInv DEF UpdateDesktopSize, history
<1>5. CASE Stop
  <2>1. running' = FALSE /\ keycode_cache' = NoCache /\ UNCHANGED <<table, layout, seen>>
    BY <1>5 DEF Stop
  <2>2. QED
    BY <2>1 DEF CacheInv, FreshKeycodes, NoCache
<1>6. ASSUME NEW key \in Keys, NEW press \in BOOLEAN, Keyboard(key, press) PROVE CacheInv'
  <2>1. UNCHANGED <<running, table, layout, seen>>
    BY <1>6 DEF Keyboard, history
  <2>2. CASE ~running
    BY <2>1, <2>2, <1>6, ElsewhereKeepsCacheInv DEF Keyboard
  <2>3. CASE running
    <3>1. keycode_cache' = [keycode_cache EXCEPT ![key] = ResolveKeycode(key)]
      BY <1>6, <2>3 DEF Keyboard
    <3>2. ResolveKeycode(key) \in Codes \union {0} /\ ResolveKeycode(key) \in seen[key]
      BY <2>3, ResolveGivesCode
    <3>3. QED
      BY <2>1, <2>3, <3>1, <3>2 DEF CacheInv, FreshKeycodes
  <2>4. QED
    BY <2>2, <2>3
<1>7. ASSUME NEW char \in Chars, NEW press \in BOOLEAN, Unicode(char, press) PROVE CacheInv'
  BY <1>7, ElsewhereKeepsCacheInv DEF Unicode, injector
<1>8. ASSUME NEW x, NEW move, NEW flags, NEW press, Pointer(x, move, flags, press) PROVE CacheInv'
  BY <1>8, ElsewhereKeepsCacheInv DEF Pointer, injector, history
<1>9. CASE ChangeLayout
  <2>1. /\ layout' \in Layouts /\ UNCHANGED <<running, keycode_cache, table>>
        /\ seen' = [k \in Keys |-> seen[k] \union {layout'[k]}]
    BY <1>9 DEF ChangeLayout, injector
  <2>2. ASSUME NEW k \in Keys PROVE layout'[k] \in Codes \union {0}
    BY <2>1, LayoutGivesCode DEF Symbols
  <2>3. seen' \in [Keys -> SUBSET (Codes \union {0})]
    BY <2>1, <2>2 DEF CacheInv
  <2>4. ASSUME NEW k \in Keys PROVE seen[k] \subseteq seen'[k] /\ layout'[k] \in seen'[k]
    BY <2>1
  <2>5. QED
    BY <2>1, <2>3, <2>4 DEF CacheInv, FreshKeycodes
<1>10. QED
  BY <1>1, <1>2, <1>3, <1>4, <1>5, <1>6, <1>7, <1>8, <1>9 DEF InputNext

(* drd_x11_input remembers no code of an earlier stream's layout.          *)
THEOREM CachedCodesFresh == InputSpec => []FreshKeycodes
<1>1. InputInit => CacheInv
  BY DEF InputInit, CacheInv, FreshKeycodes, NoCache
<1>2. CacheInv /\ [InputNext]_inputVars => CacheInv'
  BY StepKeepsCacheInv
<1>3. CacheInv => FreshKeycodes
  BY DEF CacheInv
<1>4. QED
  BY <1>1, <1>2, <1>3, PTL DEF InputSpec
-----------------------------------------------------------------------------
(* The steps that inject nothing and let nothing go.                       *)
LEMMA ElsewhereKeepsDownInv ==
    ASSUME DownInv, UNCHANGED <<running, keycode_cache, holds, down, leftover, typed>>
    PROVE  DownInv'
BY DEF DownInv, NoStuckInput

(* Every button flag has an X button of its own.                           *)
LEMMA ButtonsDistinct ==
    ASSUME NEW f \in Buttons, NEW g \in Buttons
    PROVE  ButtonId(f) \in 1 .. 3 /\ (ButtonId(f) = ButtonId(g) => f = g)
BY ButtonsAssumption DEF ButtonId

(* A key event: the code pressed is the one in the cache, and the release  *)
(* of a key takes the code away that its press put down.                   *)
LEMMA KeyboardKeepsDownInv ==
    ASSUME CacheInv, DownInv, NEW key \in Keys, NEW press \in BOOLEAN, Keyboard(key, press)
    PROVE  DownInv'
<1>1. UNCHANGED <<running, leftover, typed>>
  BY DEF Keyboard, history
<1>2. CASE ~running
  <2>1. UNCHANGED down
    BY <1>2 DEF Keyboard
  <2>2. QED
    BY <1>1, <1>2, <2>1 DEF DownInv, NoStuckInput
<1>3. CASE running
  <2> DEFINE code == ResolveKeycode(key)
  <2>1. code \in Codes \union {0} /\ keycode_cache' = [keycode_cache EXCEPT ![key] = code]
    BY <1>3, ResolveGivesCode DEF Keyboard
  <2>2. keycode_cache'[key] = code /\ \A k \in Keys \ {key} : keycode_cache'[k] = keycode_cache[k]
    BY <2>1 DEF CacheInv
  <2>3. keycode_cache[key] \in {code, Invalid}
    BY DEF ResolveKeycode
  <2>4. ASSUME NEW thing \in Downs, thing = Key(keycode_cache[key]) PROVE thing = Key(code) /\ code # 0
    BY <2>3, <2>4, CodesAssumption DEF Downs, Key, Button
  <2>5. CASE press
    <3>1. holds' = holds \union {key}
      BY <2>5 DEF Keyboard, Sends
    <3>2. down' \subseteq down \union {Key(code)} /\ (code = 0 => down' = down)
      BY <1>3, <2>5 DEF Keyboard, Inject
    <3>3. code # 0 => Key(code) \in Downs
      BY <2>1 DEF Downs
    <3>4. ASSUME NEW thing \in down
          PROVE  \/ thing \in leftover \union typed
                 \/ \E k \in Keys \intersect holds' : thing = Key(keycode_cache'[k])
                 \/ \E b \in Buttons : Button(b) \in holds' /\ thing = Button(ButtonId(b))
      <4>1. \/ thing \in leftover \union typed
            \/ \E k \in Keys \intersect holds : thing = Key(keycode_cache[k])
            \/ \E b \in Buttons : Button(b) \in holds /\ thing = Button(ButtonId(b))
        BY <1>3 DEF DownInv, NoStuckInput
      <4>2. thing \in Downs
        BY DEF DownInv
      <4>3. ASSUME NEW k \in Keys \intersect holds, thing = Key(keycode_cache[k])
            PROVE  thing = Key(keycode_cache'[k])
        BY <2>2, <2>4, <4>2, <4>3
      <4>4. QED
        BY <3>1, <4>1, <4>3
    <3>5. key \in Keys \intersect holds' /\ Key(code) = Key(keycode_cache'[key])
      BY <2>2, <3>1
    <3>6. QED
      BY <1>1, <1>3, <3>2, <3>3, <3>4, <3>5 DEF DownInv, NoStuckInput
  <2>6. CASE ~press
    <3>1. holds' = holds \ {key}
      BY <2>6 DEF Keyboard, Sends
    <3>2. down' \subseteq down /\ (code # 0 => Key(code) \notin down')
      BY <1>3, <2>6 DEF Keyboard, Inject
    <3>3. ASSUME NEW thing \in down'
          PROVE  \/ thing \in leftover \union typed
                 \/ \E k \in Keys \intersect holds' : thing = Key(keycode_cache'[k])
                 \/ \E b \in Buttons : Button(b) \in holds' /\ thing = Button(ButtonId(b))
      <4>1. \/ thing \in leftover \union typed
            \/ \E k \in Keys \intersect holds : thing = Key(keycode_cache[k])
            \/ \E b \in Buttons : Button(b) \in holds /\ thing = Button(ButtonId(b))
        BY <1>3, <3>2 DEF DownInv, NoStuckInput
      <4>2. thing \in Downs
        BY <3>2 DEF DownInv
      <4>3. ASSUME NEW k \in Keys \intersect holds, thing = Key(keycode_cache[k])
            PROVE  k # key /\ thing = Key(keycode_cache'[k])
        BY <2>2, <2>4, <3>2, <4>2, <4>3
      <4>4. ASSUME NEW b \in Buttons, Button(b) \in holds PROVE Button(b) \in holds'
        BY <3>1, <4>4, KeysAssumption DEF Symbols, Button
      <4>5. QED
        BY <3>1, <4>1, <4>3, <4>4
    <3>4. QED
      BY <1>1, <1>3, <3>2, <3>3 DEF DownInv, NoStuckInput
  <2>7. QED
    BY <2>5, <2>6
<1>4. QED
  BY <1>2, <1>3

(* A character: its code is down as long as it is among the typed ones.    *)
LEMMA UnicodeKeepsDownInv ==
    ASSUME CacheInv, DownInv, NEW char \in Chars, NEW press \in BOOLEAN, Unicode(char, press)
    PROVE  DownInv'
<1>1. UNCHANGED <<running, keycode_cache, leftover>>
  BY DEF Unicode, injector
<1>2. holds' \in {holds \union {char}, holds \ {char}}
  BY DEF Unicode, Sends
<1>3. char \notin Keys /\ \A b \in Buttons : Button(b) # char
  BY KeysAssumption DEF Symbols, Button
<1>4. \A thing \in Keys \union {Button(b) : b \in Buttons} : thing \in holds => thing \in holds'
  BY <1>2, <1>3
<1>5. CASE ~running \/ layout[char] = 0
  <2>1. UNCHANGED <<down, typed>>
    BY <1>5 DEF Unicode
  <2>2. QED
    BY <1>1, <1>4, <2>1 DEF DownInv, NoStuckInput
<1>6. CASE running /\ layout[char] # 0
  <2>1. Key(layout[char]) \in Downs
    BY <1>6, LayoutGivesCode DEF CacheInv, Symbols, Downs
  <2>2. down' \subseteq down \union {Key(layout[char])} /\ typed' = typed \union {Key(layout[char])}
    BY <1>6 DEF Unicode, Inject
  <2>3. QED
    BY <1>1, <1>4, <1>6, <2>1, <2>2 DEF DownInv, NoStuckInput
<1>7. QED
  BY <1>5, <1>6

(* A pointer event: the buttons of a press are held, and every button that *)
(* is let go is up.                                                        *)
LEMMA PointerKeepsDownInv ==
    ASSUME CacheInv, DownInv, NEW x, NEW move, NEW flags \in SUBSET Buttons, NEW press \in BOOLEAN,
           Pointer(x, move, flags, press)
    PROVE  DownInv'
<1>1. UNCHANGED <<running, keycode_cache, leftover, typed>>
  BY DEF Pointer, injector, history
<1>2. CASE ~running
  <2>1. UNCHANGED down
    BY <1>2 DEF Pointer
  <2>2. QED
    BY <1>1, <1>2, <2>1 DEF DownInv, NoStuckInput
<1>3. CASE running
  <2> DEFINE released == {Button(f) : f \in flags}
             injected == {Button(ButtonId(f)) : f \in flags}
  <2>1. injected \subseteq Downs
    BY ButtonsDistinct DEF Downs
  <2>2. ASSUME NEW k \in Keys PROVE k \notin released
    BY KeysAssumption DEF Symbols, Button
  <2>3. CASE press
    <3>1. holds' = holds \union released /\ down' = down \union injected
      BY <1>3, <2>3 DEF Pointer, Sends, Inject
    <3>2. ASSUME NEW thing \in injected
          PROVE  \E b \in Buttons : Button(b) \in holds' /\ thing = Button(ButtonId(b))
      BY <3>1
    <3>3. QED
      BY <1>1, <1>3, <2>1, <3>1, <3>2 DEF DownInv, NoStuckInput
  <2>4. CASE ~press
    <3>1. holds' = holds \ released /\ down' = down \ injected
      BY <1>3, <2>4 DEF Pointer, Sends, Inject
    <3>2. ASSUME NEW b \in Buttons, Button(b) \in holds, Button(ButtonId(b)) \notin injected
          PROVE  Button(b) \in holds'
      BY <3>1, <3>2 DEF Button
    <3>3. ASSUME NEW k \in Keys \intersect holds PROVE k \in holds'
      BY <2>2, <3>1
    <3>4. QED
      BY <1>1, <1>3, <3>1, <3>2, <3>3 DEF DownInv, NoStuckInput
  <2>5. QED
    BY <2>3, <2>4
<1>4. QED
  BY <1>2, <1>3

(* Every step of Input preserves DownInv.                                  *)
LEMMA StepKeepsDownInv ==
    ASSUME CacheInv, DownInv, [InputNext]_inputVars PROVE DownInv'
<1>1. CASE UNCHANGED inputVars
  BY <1>1, ElsewhereKeepsDownInv DEF inputVars
<1>2. CASE Start
  BY <1>2 DEF Start, DownInv, NoStuckInput
<1>3. CASE StartFails \/ Leave \/ ResizeScreen \/ ChangeLayout
  BY <1>3, ElsewhereKeepsDownInv DEF StartFails, Leave, ResizeScreen, ChangeLayout, injector, history
<1>4. ASSUME NEW width \in Widths, UpdateDesktopSize(width) PROVE DownInv'
  BY <1>4, ElsewhereKeepsDownInv DEF UpdateDesktopSize, history
<1>5. CASE Stop
  BY <1>5 DEF Stop, DownInv, NoStuckInput
<1>6. ASSUME NEW key \in Keys, NEW press \in BOOLEAN, Keyboard(key, press) PROVE DownInv'
  BY <1>6, KeyboardKeepsDownInv
<1>7. ASSUME NEW char \in Chars, NEW press \in BOOLEAN, Unicode(char, press) PROVE DownInv'
  BY <1>7, UnicodeKeepsDownInv
<1>8. ASSUME NEW x, NEW move, NEW flags \in SUBSET Buttons, NEW press \in BOOLEAN,
             Pointer(x, move, flags, press)
      PROVE  DownInv'
  BY <1>8, PointerKeepsDownInv
<1>9. QED
  BY <1>1, <1>2, <1>3, <1>4, <1>5, <1>6, <1>7, <1>8 DEF InputNext

(* The injector starts with an empty cache and nothing down.               *)
LEMMA InitEstablishesKeys == InputInit => CacheInv /\ DownInv
BY DEF InputInit, CacheInv, FreshKeycodes, NoCache, DownInv, NoStuckInput

(* Nothing the client has let go stays down in the X server, whatever the  *)
(* layout does between the press and the release.                          *)
THEOREM ReleasesReachTheServer == InputSpec => []NoStuckInput
<1>1. InputInit => CacheInv /\ DownInv
  BY InitEstablishesKeys
<1>2. CacheInv /\ DownInv /\ [InputNext]_inputVars => CacheInv' /\ DownInv'
  BY StepKeepsCacheInv, StepKeepsDownInv
<1>3. DownInv => NoStuckInput
  BY DEF DownInv
<1>4. QED
  BY <1>1, <1>2, <1>3, PTL DEF InputSpec
-----------------------------------------------------------------------------
(* The scale in use is that of the stream's width and of the screen's when *)
(* it was opened, while the injector runs: a start and a size update both  *)
(* compute it anew.                                                        *)
ScaleInv ==
    /\ running \in BOOLEAN
    /\ stream_width \in Nat /\ desktop_width \in Nat /\ screen \in Widths /\ measured \in Nat \ {0}
    /\ running => desktop_width = measured /\ scale = Scale(stream_width, desktop_width)

(* Where the pointer was put, and for which event.                         *)
AimInv ==
    /\ pointer \in Nat
    /\ aim \in [x : Nat, stream : Nat \ {0}, desktop : Nat \ {0}]
    /\ PointerFaithful

(* A division rounds down.                                                 *)
LEMMA Quotient ==
    ASSUME NEW n \in Nat, NEW m \in Nat \ {0}
    PROVE  /\ n \div m \in Nat
           /\ (n \div m) * m <= n /\ n < (n \div m) * m + m
BY SMT

(* A larger factor gives a larger product.                                 *)
LEMMA ProductsOrdered ==
    ASSUME NEW a \in Nat, NEW b \in Nat, NEW k \in Nat, a <= b PROVE a * k <= b * k
BY SMT

(* The rounding of Target: a half is added before the division, so that    *)
(* the quotient is within half a pixel.                                    *)
LEMMA RoundedIsNearest ==
    ASSUME NEW c \in Nat, NEW stream \in Nat \ {0}, NEW desktop \in Nat \ {0}, NEW q,
           q = (2 * c * desktop + stream) \div (2 * stream)
    PROVE  /\ q \in Nat
           /\ 2 * (q * stream - c * desktop) <= stream
           /\ -2 * (q * stream - c * desktop) <= stream
<1> DEFINE n == 2 * c * desktop + stream
           m == 2 * stream
<1>1. n \in Nat /\ m \in Nat \ {0} /\ q = n \div m
  OBVIOUS
<1> HIDE DEF n, m
<1>2. q \in Nat /\ q * m <= n /\ n < q * m + m
  BY <1>1, Quotient
<1>3. /\ q * m = 2 * (q * stream) /\ n = 2 * (c * desktop) + stream
      /\ q * stream \in Nat /\ c * desktop \in Nat
  BY <1>2 DEF n, m
<1> DEFINE a == q * stream
           b == c * desktop
<1>4. a \in Nat /\ b \in Nat /\ 2 * a <= 2 * b + stream /\ 2 * b + stream < 2 * a + 2 * stream
  BY <1>2, <1>3 DEF m
<1> HIDE DEF a, b
<1>5. 2 * (a - b) <= stream /\ -2 * (a - b) <= stream
  BY <1>4
<1>6. QED
  BY <1>2, <1>5 DEF a, b

(* What PointerFaithful says of a position, for an event at c in a picture *)
(* of width stream.                                                        *)
Faithful(position, c, stream, width) ==
    /\ stream = width => position = c
    /\ position < width
    /\ 2 * (position * stream - c * width) <= stream
    /\ -2 * (position * stream - c * width) <= stream \/ position = width - 1

(* A quotient past the right edge is put on the last pixel.                *)
LEMMA ClampedIsFaithful ==
    ASSUME NEW c \in Nat, NEW stream \in Nat \ {0}, NEW desktop \in Nat \ {0}, NEW q \in Nat,
           stream # desktop,
           2 * (q * stream - c * desktop) <= stream,
           -2 * (q * stream - c * desktop) <= stream
    PROVE  Faithful(IF q >= desktop THEN desktop - 1 ELSE q, c, stream, desktop)
<1>1. CASE q < desktop
  BY <1>1 DEF Faithful
<1>2. CASE q >= desktop
  <2> DEFINE low == (desktop - 1) * stream
             high == q * stream
             b == c * desktop
  <2>1. low \in Nat /\ high \in Nat /\ b \in Nat
    OBVIOUS
  <2>2. low <= high
    BY <1>2, ProductsOrdered
  <2>3. 2 * (high - b) <= stream
    OBVIOUS
  <2> HIDE DEF low, high, b
  <2>4. 2 * (low - b) <= stream
    BY <2>1, <2>2, <2>3
  <2>5. QED
    BY <1>2, <2>4 DEF Faithful, low, b
<1>3. QED
  BY <1>1, <1>2

(* The widths are positive.                                                *)
LEMMA WidthsPositive ==
    ASSUME ScaleInv
    PROVE  /\ ScreenWidth \in Nat \ {0}
           /\ AtLeastOne(stream_width) \in Nat \ {0} /\ AtLeastOne(desktop_width) \in Nat \ {0}
           /\ running => AtLeastOne(desktop_width) = measured
<1>1. ScreenWidth \in Nat \ {0}
  BY WidthsAssumption DEF ScaleInv, ScreenWidth
<1>2. AtLeastOne(stream_width) \in Nat \ {0} /\ AtLeastOne(desktop_width) \in Nat \ {0}
  BY DEF ScaleInv, AtLeastOne
<1>3. running => AtLeastOne(desktop_width) = measured
  BY DEF ScaleInv, AtLeastOne
<1>4. QED
  BY <1>1, <1>2, <1>3

(* drd_x11_input_inject_pointer puts the pointer as the scale says.        *)
LEMMA TargetIsFaithful ==
    ASSUME ScaleInv, running, NEW x \in Nat, NEW stream, stream = AtLeastOne(stream_width)
    PROVE  /\ Target(x) \in Nat
           /\ Faithful(Target(x), IF x >= stream THEN stream - 1 ELSE x, stream, measured)
<1> DEFINE desktop == AtLeastOne(desktop_width)
           c == IF x > stream - 1 THEN stream - 1 ELSE x
           q == (2 * c * desktop + stream) \div (2 * stream)
<1>1. stream \in Nat \ {0} /\ desktop \in Nat \ {0} /\ desktop = measured
  BY WidthsPositive
<1>2. scale = IF stream = desktop THEN <<1, 1>> ELSE <<desktop, stream>>
  BY DEF ScaleInv, Scale
<1>3. Target(x) = IF stream = desktop THEN c
                  ELSE LET scaled == (2 * c * scale[1] + scale[2]) \div (2 * scale[2])
                       IN  IF scaled >= desktop THEN desktop - 1 ELSE scaled
  BY DEF Target
<1> HIDE DEF desktop
<1>4. c \in Nat /\ c <= stream - 1 /\ c = IF x >= stream THEN stream - 1 ELSE x
  BY <1>1
<1> HIDE DEF c
<1>5. CASE stream = desktop
  <2>1. Target(x) = c
    BY <1>3, <1>5
  <2>2. c * stream = c * measured /\ c * stream \in Nat
    BY <1>1, <1>4, <1>5
  <2>3. c * stream - c * measured = 0
    BY <2>2
  <2>4. Faithful(c, c, stream, measured)
    BY <1>1, <1>4, <1>5, <2>3 DEF Faithful
  <2>5. QED
    BY <1>4, <2>1, <2>4
<1>6. CASE stream # desktop
  <2>1. scale[1] = desktop /\ scale[2] = stream
    BY <1>2, <1>6
  <2>2. Target(x) = IF q >= desktop THEN desktop - 1 ELSE q
    BY <1>3, <1>6, <2>1
  <2>3. /\ q \in Nat
        /\ 2 * (q * stream - c * desktop) <= stream
        /\ -2 * (q * stream - c * desktop) <= stream
    BY <1>1, <1>4, RoundedIsNearest
  <2> HIDE DEF q
  <2>4. Faithful(Target(x), c, stream, desktop)
    BY <1>1, <1>4, <1>6, <2>2, <2>3, ClampedIsFaithful
  <2>5. Target(x) \in Nat
    BY <1>1, <2>2, <2>3
  <2>6. QED
    BY <1>1, <1>4, <2>4, <2>5
<1>7. QED
  BY <1>5, <1>6

(* Every step of Input preserves ScaleInv.                                 *)
LEMMA StepKeepsScaleInv ==
    ASSUME ScaleInv, [InputNext]_inputVars PROVE ScaleInv'
<1>1. ASSUME UNCHANGED <<running, stream_width, desktop_width, scale, screen, measured>>
      PROVE  ScaleInv'
  BY <1>1 DEF ScaleInv
<1>2. CASE UNCHANGED inputVars
  BY <1>1, <1>2 DEF inputVars
<1>3. CASE Start
  <2>1. /\ running' = TRUE /\ screen' = screen
        /\ desktop_width' = ScreenWidth /\ measured' = ScreenWidth
        /\ stream_width' = IF stream_width = 0 THEN desktop_width' ELSE stream_width
        /\ scale' = Scale(stream_width', desktop_width')
    BY <1>3 DEF Start
  <2>2. ScreenWidth \in Nat \ {0}
    BY WidthsPositive
  <2>3. QED
    BY <2>1, <2>2 DEF ScaleInv, Scale
<1>4. CASE StartFails \/ Leave \/ ChangeLayout
  BY <1>1, <1>4 DEF StartFails, Leave, ChangeLayout, injector, history
<1>5. ASSUME NEW width \in Widths, UpdateDesktopSize(width) PROVE ScaleInv'
  <2>1. /\ stream_width' = IF width > 0 THEN width ELSE stream_width
        /\ scale' = Scale(stream_width', desktop_width)
        /\ UNCHANGED <<running, desktop_width, screen, measured>>
    BY <1>5 DEF UpdateDesktopSize, history
  <2>2. QED
    BY <2>1, WidthsAssumption DEF ScaleInv, Scale
<1>6. CASE Stop
  BY <1>6 DEF Stop, ScaleInv
<1>7. ASSUME NEW key, NEW press, Keyboard(key, press) PROVE ScaleInv'
  BY <1>1, <1>7 DEF Keyboard, history
<1>8. ASSUME NEW char, NEW press, Unicode(char, press) PROVE ScaleInv'
  BY <1>1, <1>8 DEF Unicode, injector
<1>9. ASSUME NEW x, NEW move, NEW flags, NEW press, Pointer(x, move, flags, press) PROVE ScaleInv'
  BY <1>1, <1>9 DEF Pointer, injector, history
<1>10. CASE ResizeScreen
  BY <1>10 DEF ResizeScreen, injector, history, ScaleInv
<1>11. QED
  BY <1>2, <1>3, <1>4, <1>5, <1>6, <1>7, <1>8, <1>9, <1>10 DEF InputNext

(* Every step of Input preserves AimInv.                                   *)
LEMMA StepKeepsAimInv ==
    ASSUME ScaleInv, AimInv, [InputNext]_inputVars PROVE AimInv'
<1>1. ASSUME UNCHANGED <<pointer, aim>> PROVE AimInv'
  BY <1>1 DEF AimInv, PointerFaithful
<1>2. ASSUME NEW x \in Nat, NEW move, NEW flags, NEW press, Pointer(x, move, flags, press)
      PROVE  AimInv'
  <2>1. CASE ~(running /\ move)
    BY <1>1, <1>2, <2>1 DEF Pointer
  <2>2. CASE running /\ move
    <3> DEFINE stream == AtLeastOne(stream_width)
    <3>1. pointer' = Target(x) /\ aim' = [x |-> x, stream |-> stream, desktop |-> measured]
      BY <1>2, <2>2 DEF Pointer
    <3>2. stream \in Nat \ {0} /\ measured \in Nat \ {0}
      BY WidthsPositive DEF ScaleInv
    <3>3. /\ Target(x) \in Nat
          /\ Faithful(Target(x), IF x >= stream THEN stream - 1 ELSE x, stream, measured)
      BY <2>2, TargetIsFaithful
    <3> HIDE DEF stream
    <3>4. aim'.x = x /\ aim'.stream = stream /\ aim'.desktop = measured
      BY <3>1
    <3>5. PointerFaithful'
      BY <3>1, <3>3, <3>4 DEF PointerFaithful, Faithful
    <3>6. QED
      BY <3>1, <3>2, <3>3, <3>5 DEF AimInv
  <2>3. QED
    BY <2>1, <2>2
<1>3. CASE Start \/ StartFails \/ Stop \/ Leave \/ ChangeLayout \/ ResizeScreen \/ UNCHANGED inputVars
  BY <1>1, <1>3
     DEF Start, StartFails, Stop, Leave, ChangeLayout, ResizeScreen, inputVars
<1>4. ASSUME NEW width, UpdateDesktopSize(width) PROVE AimInv'
  BY <1>1, <1>4 DEF UpdateDesktopSize
<1>5. ASSUME NEW key, NEW press, Keyboard(key, press) PROVE AimInv'
  BY <1>1, <1>5 DEF Keyboard
<1>6. ASSUME NEW char, NEW press, Unicode(char, press) PROVE AimInv'
  BY <1>1, <1>6 DEF Unicode
<1>7. ASSUME NEW width \in Widths, NEW x \in 0 .. width PROVE x \in Nat
  BY WidthsAssumption
<1>8. QED
  BY <1>2, <1>3, <1>4, <1>5, <1>6, <1>7 DEF InputNext

(* The injector starts with the widths unknown and the pointer nowhere.    *)
LEMMA InitEstablishesAim == InputInit => ScaleInv /\ AimInv
<1>1. ASSUME InputInit PROVE ScaleInv
  <2>1. /\ running = FALSE /\ stream_width = 0 /\ desktop_width = 0 /\ screen \in Widths
        /\ measured = DefaultWidth
    BY <1>1 DEF InputInit
  <2>2. QED
    BY <2>1, WidthsAssumption DEF ScaleInv
<1>2. ASSUME InputInit PROVE AimInv
  <2>1. pointer = 0 /\ aim = [x |-> 0, stream |-> 1, desktop |-> 1]
    BY <1>2 DEF InputInit, NoAim
  <2>2. aim.x = 0 /\ aim.stream = 1 /\ aim.desktop = 1
    BY <2>1
  <2>3. QED
    BY <2>1, <2>2 DEF AimInv, PointerFaithful
<1>3. QED
  BY <1>1, <1>2

(* For any sizes of the stream and of the screen, and whatever order the   *)
(* starts, stops, resizes and size updates come in: when the two sizes     *)
(* agreed at the opening the pointer is put on the pixel pointed at, and   *)
(* otherwise on the nearest one of the stream stretched over the desktop.  *)
THEOREM PointerFollowsScale == InputSpec => []PointerFaithful
<1>1. InputInit => ScaleInv /\ AimInv
  BY InitEstablishesAim
<1>2. ScaleInv /\ AimInv /\ [InputNext]_inputVars => ScaleInv' /\ AimInv'
  BY StepKeepsScaleInv, StepKeepsAimInv
<1>3. AimInv => PointerFaithful
  BY DEF AimInv
<1>4. QED
  BY <1>1, <1>2, <1>3, PTL DEF InputSpec

(* The variables no other part of the invariant types.                     *)
PlainTypes ==
    /\ phase \in {"off", "starting", "on"}
    /\ scale \in (Nat \ {0}) \X (Nat \ {0})
    /\ holds \subseteq Symbols \union {Button(b) : b \in Buttons}
    /\ leftover \subseteq Downs /\ typed \subseteq Downs
    /\ streams \in Nat /\ changes \in Nat

(* Every step of Input preserves them.                                     *)
LEMMA StepKeepsPlainTypes ==
    ASSUME CacheInv, DownInv, ScaleInv, PlainTypes, [InputNext]_inputVars PROVE PlainTypes'
<1>1. ASSUME NEW m \in Nat, NEW n \in Nat PROVE Scale(m, n) \in (Nat \ {0}) \X (Nat \ {0})
  BY DEF Scale, AtLeastOne
<1>2. CASE UNCHANGED inputVars
  BY <1>2 DEF inputVars, PlainTypes
<1>3. CASE Start
  <2>1. stream_width' \in Nat /\ desktop_width' \in Nat
    BY <1>3, WidthsPositive DEF Start, ScaleInv
  <2>2. scale' \in (Nat \ {0}) \X (Nat \ {0})
    BY <1>1, <1>3, <2>1 DEF Start
  <2>3. QED
    BY <1>3, <2>2 DEF Start, PlainTypes
<1>4. CASE StartFails \/ Leave \/ ChangeLayout \/ ResizeScreen
  BY <1>4 DEF StartFails, Leave, ChangeLayout, ResizeScreen, injector, history, PlainTypes
<1>5. ASSUME NEW width \in Widths, UpdateDesktopSize(width) PROVE PlainTypes'
  <2>1. stream_width' \in Nat /\ desktop_width \in Nat
    BY <1>5, WidthsAssumption DEF UpdateDesktopSize, ScaleInv
  <2>2. scale' \in (Nat \ {0}) \X (Nat \ {0})
    BY <1>1, <1>5, <2>1 DEF UpdateDesktopSize
  <2>3. QED
    BY <1>5, <2>2 DEF UpdateDesktopSize, history, PlainTypes
<1>6. CASE Stop
  BY <1>6 DEF Stop, PlainTypes, DownInv
<1>7. ASSUME NEW key \in Keys, NEW press \in BOOLEAN, Keyboard(key, press) PROVE PlainTypes'
  BY <1>7 DEF Keyboard, Sends, history, Symbols, PlainTypes
<1>8. ASSUME NEW char \in Chars, NEW press \in BOOLEAN, Unicode(char, press) PROVE PlainTypes'
  <2>1. layout[char] # 0 => Key(layout[char]) \in Downs
    BY LayoutGivesCode DEF CacheInv, Symbols, Downs
  <2>2. typed' \subseteq Downs
    BY <1>8, <2>1 DEF Unicode, PlainTypes
  <2>3. holds' \subseteq Symbols \union {Button(b) : b \in Buttons}
    BY <1>8 DEF Unicode, Sends, Symbols, PlainTypes
  <2>4. QED
    BY <1>8, <2>2, <2>3 DEF Unicode, injector, PlainTypes
<1>9. ASSUME NEW x, NEW move, NEW flags \in SUBSET Buttons, NEW press \in BOOLEAN,
              Pointer(x, move, flags, press)
       PROVE  PlainTypes'
  BY <1>9 DEF Pointer, Sends, injector, history, PlainTypes
<1>10. QED
  BY <1>2, <1>3, <1>4, <1>5, <1>6, <1>7, <1>8, <1>9 DEF InputNext

(* Type correctness of the injector, whatever the order of starts, stops   *)
(* and events.                                                             *)
THEOREM InputTypeCorrect == InputSpec => []InputTypeOK
<1> DEFINE Inv == CacheInv /\ DownInv /\ ScaleInv /\ AimInv /\ PlainTypes
<1>1. InputInit => CacheInv /\ DownInv
  BY InitEstablishesKeys
<1>2. InputInit => ScaleInv /\ AimInv
  BY InitEstablishesAim
<1>3. InputInit => PlainTypes
  BY DEF InputInit, PlainTypes
<1>4. Inv /\ [InputNext]_inputVars => Inv'
  BY StepKeepsCacheInv, StepKeepsDownInv, StepKeepsScaleInv, StepKeepsAimInv, StepKeepsPlainTypes
<1>5. Inv => InputTypeOK
  BY DEF CacheInv, DownInv, ScaleInv, AimInv, PlainTypes, InputTypeOK
<1>6. QED
  BY <1>1, <1>2, <1>3, <1>4, <1>5, PTL DEF InputSpec
=============================================================================
