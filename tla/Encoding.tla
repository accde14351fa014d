------------------------------ MODULE Encoding ------------------------------
(***************************************************************************)
(* One stream from the captured screen to the client's picture: the        *)
(* encoding manager (src/encoding/drd_encoding_manager.c) driven by the    *)
(* render thread of drd_rdp_session.c, with the refresh timer on the main  *)
(* loop and the client's capabilities arriving on the event thread.  None  *)
(* of these share a lock.                                                  *)
(*                                                                         *)
(* A screen is a function from tiles to colours.  AVC frames repaint every *)
(* tile, with loss; the others (Progressive; RemoteFX is the same control) *)
(* repaint the tiles that differ from the previous frame, or all of them   *)
(* in a key frame, and leave them fine.  After a switch from AVC the       *)
(* tiles that have not changed stay coarse until a key frame refreshes     *)
(* them, after RefreshInterval frames or after a time.  A tile's hash      *)
(* stands for its content, so hashes are left out.  The capacity of the    *)
(* graphics pipeline is GraphicsPipeline's subject.                        *)
(***************************************************************************)
EXTENDS Integers, Sequences, FiniteSets

CONSTANTS
    Tiles, Colours, Black,
    LargeChange,      \* changed tiles that make a change large
    RefreshInterval,  \* gfx_progressive_refresh_interval
    QueueSize,        \* frames the capture queue keeps
    None,
    MaxChanges,       \* bound: changes of the screen
    MaxCaps,          \* bound: capability advertisements
    MaxFailures       \* bound: frames that fail

ASSUME TilesAssumption == IsFiniteSet(Tiles) /\ Tiles # {}
ASSUME ColoursAssumption == Black \in Colours
ASSUME NumbersAssumption ==
    /\ LargeChange \in Nat \ {0}
    /\ RefreshInterval \in Nat
    /\ QueueSize \in Nat \ {0}
    /\ MaxChanges \in Nat /\ MaxCaps \in Nat /\ MaxFailures \in Nat

Pictures == [Tiles -> Colours]
Blank == [t \in Tiles |-> Black]
ASSUME NoneAssumption == None \notin Pictures

VARIABLES
    options,                        \* auto_switch, h264_hw_accel, enable_diff
    gfx_h264,                       \* FreeRDP_GfxH264 of the peer's settings
    gfx_previous_frame,             \* None before the first frame
    gfx_force_keyframe,
    gfx_last_codec,                 \* "unknown", "avc" or "non_avc"
    gfx_avc_to_non_avc_transition,
    gfx_progressive_rfx_frames,
    gfx_non_avc_switch_timestamp,   \* "none", or whether the timeout has passed since
    render,                         \* where the render thread is
    job,                            \* the frame it is encoding
    refresh_timeout_source,         \* a timer's id is stored
    refresh_timeout_due,
    timers,                         \* timers in the main loop
    main,                           \* where the timer's callback is
    event,                          \* where the event thread is
    screen, queue, client, fine,    \* external: fine tiles of the client's picture
    lost,                           \* history: the newest frame taken has failed
    changes, advertised, failures

refresh == <<gfx_last_codec, gfx_avc_to_non_avc_transition, gfx_progressive_rfx_frames,
             gfx_non_avc_switch_timestamp>>
timer == <<refresh_timeout_source, refresh_timeout_due, timers, main>>
picture == <<client, fine>>
capture == <<screen, queue, changes>>
vars == <<options, gfx_h264, gfx_previous_frame, gfx_force_keyframe, gfx_last_codec,
          gfx_avc_to_non_avc_transition, gfx_progressive_rfx_frames,
          gfx_non_avc_switch_timestamp, render, job, refresh_timeout_source,
          refresh_timeout_due, timers, main, event, screen, queue, client, fine, lost, changes,
          advertised, failures>>
caps == <<gfx_h264, event, advertised>>

(* A frame on its way; `due' if the refresh flag asked for it, in which    *)
(* case the queue is looked at next when it fails; `fresh' if it was       *)
(* captured and not taken from the cache.                                  *)
Jobs == [data : Pictures, due : BOOLEAN, fresh : BOOLEAN, avc : BOOLEAN, key : BOOLEAN,
         region : SUBSET Tiles]
NewJob(data, due, fresh) ==
    [data |-> data, due |-> due, fresh |-> fresh, avc |-> FALSE, key |-> FALSE, region |-> {}]

Init ==
    /\ options \in [auto_switch : BOOLEAN, h264_hw_accel : BOOLEAN, enable_diff : BOOLEAN]
    /\ gfx_h264 \in BOOLEAN
    /\ gfx_previous_frame = None
    /\ gfx_force_keyframe = TRUE
    /\ gfx_last_codec = "unknown"
    /\ gfx_avc_to_non_avc_transition = FALSE
    /\ gfx_progressive_rfx_frames = 0
    /\ gfx_non_avc_switch_timestamp = "none"
    /\ render = "top"
    /\ job = NewJob(Blank, FALSE, FALSE)
    /\ refresh_timeout_source = FALSE
    /\ refresh_timeout_due = FALSE
    /\ timers = 0
    /\ main = "idle"
    /\ event = "idle"
    /\ screen = Blank
    /\ queue = <<>>
    /\ client = Blank
    /\ fine = {}
    /\ lost = FALSE
    /\ changes = 0
    /\ advertised = 0
    /\ failures = 0
-----------------------------------------------------------------------------
\* Mutant: only the number of frames counts.
ReachedByFrames ==
    /\ gfx_avc_to_non_avc_transition
    /\ gfx_non_avc_switch_timestamp # "none"
    /\ RefreshInterval > 0
    /\ gfx_progressive_rfx_frames + 1 >= RefreshInterval

(* drd_encoding_manager_refresh_interval_reached.                          *)
RefreshIntervalReached ==
    /\ gfx_avc_to_non_avc_transition
    /\ gfx_non_avc_switch_timestamp # "none"
    /\ \/ RefreshInterval > 0 /\ gfx_progressive_rfx_frames + 1 >= RefreshInterval
       \/ gfx_non_avc_switch_timestamp = "old"

(* The loop's head: a refresh the timer asked for is taken before the next *)
(* captured frame.                                                         *)
RenderTop ==
    /\ render = "top"
    /\ render' = IF refresh_timeout_due THEN "cached" ELSE "pull"
    /\ refresh_timeout_due' = FALSE
    /\ UNCHANGED <<options, caps, gfx_previous_frame, gfx_force_keyframe, refresh, job,
                   refresh_timeout_source, timers, main, capture, picture, lost, failures>>

(* drd_encoding_manager_encode_cached_frame_gfx: the previous frame again, *)
(* as a key frame.                                                         *)
EncodeCached(due) ==
    /\ gfx_previous_frame # None
    /\ gfx_force_keyframe' = TRUE
    /\ job' = NewJob(gfx_previous_frame, due, FALSE)
    /\ render' = "encode"

SendCachedFrame ==
    /\ render = "cached"
    /\ \/ EncodeCached(TRUE)
       \/ /\ gfx_previous_frame = None
          /\ render' = "pull"
          /\ UNCHANGED <<gfx_force_keyframe, job>>
    /\ UNCHANGED <<options, caps, gfx_previous_frame, refresh, timer, capture, picture,
                   lost, failures>>

(* drd_server_runtime_pull_encoded_frame_surface_gfx: the oldest captured  *)
(* frame; when the wait times out, the cached frame if a refresh is due.   *)
PullFrame ==
    /\ render = "pull"
    /\ \/ /\ queue # <<>>
          /\ job' = NewJob(Head(queue), FALSE, TRUE)
          /\ queue' = Tail(queue)
          /\ render' = "encode"
          /\ UNCHANGED gfx_force_keyframe
       \/ /\ queue = <<>>
          /\ RefreshIntervalReached
          /\ EncodeCached(FALSE)
          /\ UNCHANGED queue
       \/ /\ queue = <<>>
          /\ ~RefreshIntervalReached
          /\ render' = "top"
          /\ UNCHANGED <<gfx_force_keyframe, job, queue>>
    /\ UNCHANGED <<options, caps, gfx_previous_frame, refresh, timer, screen, changes,
                   picture, lost, failures>>
-----------------------------------------------------------------------------
(* The choice of the codec in encode_surface_gfx.  AVC444 is never offered *)
(* and Progressive always is.                                              *)
UseAvc(large, vaapi) ==
    /\ gfx_h264
    /\ \/ ~options.auto_switch
       \/ large
       \/ options.h264_hw_accel /\ vaapi

(* drd_encoding_manager_analyze_tiles and collect_dirty_tiles.             *)
DirtyTiles(data, previous) == {t \in Tiles : data[t] # previous[t]}

(* Where the render loop goes on after a frame that was not sent.          *)
NotSent == render' = IF job.due THEN "pull" ELSE "top"

(* encode_surface_gfx up to the compression.  prepare_gfx_diff_state makes *)
(* a black previous frame for the first one.  Without a dirty tile there   *)
(* is nothing to send (G_IO_ERROR_PENDING).                                *)
EncodeFrame(vaapi) ==
    /\ render = "encode"
    /\ LET first == gfx_previous_frame = None
           previous == IF first THEN Blank ELSE gfx_previous_frame
           force == first \/ gfx_force_keyframe
           dirty == DirtyTiles(job.data, previous)
           avc == UseAvc(Cardinality(dirty) >= LargeChange, vaapi)
           key == force \/ ~options.enable_diff \/ RefreshIntervalReached
       IN  /\ gfx_previous_frame' = previous
           /\ gfx_force_keyframe' = force
           /\ gfx_progressive_rfx_frames' = IF first THEN 0 ELSE gfx_progressive_rfx_frames
           /\ \/ /\ avc \/ key \/ dirty # {}
                 /\ job' = [job EXCEPT !.avc = avc, !.key = key,
                                       !.region = IF avc \/ key THEN Tiles ELSE dirty]
                 /\ render' = "send"
              \/ /\ ~avc /\ ~key /\ dirty = {}
                 /\ NotSent
                 /\ UNCHANGED job
    /\ UNCHANGED <<options, caps, gfx_last_codec, gfx_avc_to_non_avc_transition,
                   gfx_non_avc_switch_timestamp, timer, capture, picture, lost, failures>>

(* The frame is compressed and SurfaceFrameCommand sends it; the client    *)
(* paints it.                                                              *)
SendFrame ==
    /\ render = "send"
    /\ client' = [t \in Tiles |-> IF t \in job.region THEN job.data[t] ELSE client[t]]
    /\ fine' = IF job.avc THEN {} ELSE fine \cup job.region
    /\ render' = "store"
    /\ UNCHANGED <<options, caps, gfx_previous_frame, gfx_force_keyframe, refresh, job,
                   timer, capture, lost, failures>>

\* Mutant: a frame that was not sent is taken for the previous one.
PreviousIsFailed == job.data

(* A frame that fails is not remembered.                                   *)
PreviousAfterFailure == gfx_previous_frame

(* The compression fails or makes no frame, or SurfaceFrameCommand fails,  *)
(* after which the next frame of a codec other than AVC is a key frame.    *)
SendFails(sending) ==
    /\ render = "send"
    /\ failures < MaxFailures
    /\ failures' = failures + 1
    /\ gfx_force_keyframe' = (gfx_force_keyframe \/ (sending /\ ~job.avc))
    /\ gfx_previous_frame' = PreviousAfterFailure
    /\ lost' = (lost \/ job.fresh)
    /\ NotSent
    /\ UNCHANGED <<options, caps, refresh, job, timer, capture, picture>>

\* Mutant: the switch from AVC starts no tracking.
RegisterNoSwitch ==
    /\ gfx_last_codec' = IF job.avc THEN "avc" ELSE "non_avc"
    /\ gfx_avc_to_non_avc_transition' = FALSE
    /\ gfx_progressive_rfx_frames' = 0
    /\ gfx_non_avc_switch_timestamp' = "none"

(* drd_encoding_manager_register_codec_result.                             *)
RegisterCodecResult ==
    LET entering == gfx_last_codec = "avc"
        tracking == entering \/ gfx_avc_to_non_avc_transition
    IN  \/ /\ job.avc
           /\ gfx_last_codec' = "avc"
           /\ gfx_avc_to_non_avc_transition' = FALSE
           /\ gfx_progressive_rfx_frames' = 0
           /\ gfx_non_avc_switch_timestamp' = "none"
        \/ /\ ~job.avc
           /\ gfx_last_codec' = "non_avc"
           /\ gfx_avc_to_non_avc_transition' = (tracking /\ ~job.key)
           /\ gfx_progressive_rfx_frames' =
                  IF ~tracking \/ job.key \/ RefreshInterval = 0 THEN 0
                  ELSE IF entering THEN 1 ELSE gfx_progressive_rfx_frames + 1
           /\ gfx_non_avc_switch_timestamp' =
                  IF job.key THEN IF tracking THEN "recent" ELSE "none"
                  ELSE IF entering THEN "recent" ELSE gfx_non_avc_switch_timestamp

(* What encode_surface_gfx records of a frame that was sent; a request for *)
(* a key frame made since the frame was encoded is cleared with the rest.  *)
StoreFrame ==
    /\ render = "store"
    /\ gfx_previous_frame' = job.data
    /\ RegisterCodecResult
    /\ gfx_force_keyframe' = (gfx_force_keyframe /\ job.avc)
    /\ lost' = (lost /\ ~job.fresh)
    /\ render' = "timer"
    /\ UNCHANGED <<options, caps, job, timer, capture, picture, failures>>
-----------------------------------------------------------------------------
(* drd_rdp_session_update_refresh_timer_state: without a switch to track   *)
(* the timer is removed, otherwise one is added unless its id is stored.   *)
(* The stored id may be that of a timer that has fired: none is removed.   *)
UpdateRefreshTimer ==
    /\ render = "timer"
    /\ \/ /\ ~gfx_avc_to_non_avc_transition
          /\ \/ refresh_timeout_source /\ timers > 0 /\ timers' = timers - 1
             \/ UNCHANGED timers
          /\ refresh_timeout_source' = FALSE
          /\ refresh_timeout_due' = FALSE
          /\ render' = "top"
       \/ /\ gfx_avc_to_non_avc_transition
          /\ refresh_timeout_source
          /\ render' = "top"
          /\ UNCHANGED <<timers, refresh_timeout_source, refresh_timeout_due>>
       \/ /\ gfx_avc_to_non_avc_transition
          /\ ~refresh_timeout_source
          /\ timers' = timers + 1
          /\ render' = "assign"
          /\ UNCHANGED <<refresh_timeout_source, refresh_timeout_due>>
    /\ UNCHANGED <<options, caps, gfx_previous_frame, gfx_force_keyframe, refresh, job,
                   main, capture, picture, lost, failures>>

(* The id that g_timeout_add_full returned is stored; by then the timer    *)
(* may have fired.                                                         *)
AssignTimer ==
    /\ render = "assign"
    /\ refresh_timeout_source' = TRUE
    /\ render' = "top"
    /\ UNCHANGED <<options, caps, gfx_previous_frame, gfx_force_keyframe, refresh, job,
                   refresh_timeout_due, timers, main, capture, picture, lost, failures>>

(* The main loop calls drd_rdp_session_on_refresh_timeout.                 *)
TimerFires ==
    /\ main = "idle"
    /\ timers > 0
    /\ timers' = timers - 1
    /\ main' = "called"
    /\ UNCHANGED <<options, caps, gfx_previous_frame, gfx_force_keyframe, refresh, render,
                   job, refresh_timeout_source, refresh_timeout_due, capture, picture, lost,
                   failures>>

OnRefreshTimeout ==
    /\ main = "called"
    /\ refresh_timeout_source' = FALSE
    /\ main' = IF RefreshIntervalReached THEN "reached" ELSE "idle"
    /\ UNCHANGED <<options, caps, gfx_previous_frame, gfx_force_keyframe, refresh, render,
                   job, refresh_timeout_due, timers, capture, picture, lost, failures>>

SetTimeoutDue ==
    /\ main = "reached"
    /\ refresh_timeout_due' = TRUE
    /\ main' = "idle"
    /\ UNCHANGED <<options, caps, gfx_previous_frame, gfx_force_keyframe, refresh, render,
                   job, refresh_timeout_source, timers, capture, picture, lost, failures>>

(* gfx_progressive_refresh_timeout_ms pass.                                *)
TimePasses ==
    /\ gfx_non_avc_switch_timestamp = "recent"
    /\ gfx_non_avc_switch_timestamp' = "old"
    /\ UNCHANGED <<options, caps, gfx_previous_frame, gfx_force_keyframe, gfx_last_codec,
                   gfx_avc_to_non_avc_transition, gfx_progressive_rfx_frames, render, job,
                   timer, capture, picture, lost, failures>>
-----------------------------------------------------------------------------
(* What a set of the client's capabilities makes of FreeRDP_GfxH264, the   *)
(* server's own setting: version 10 may only take it back, 8.1 sets it,    *)
(* 8 clears it.  h264: the H264 encoder could be prepared.                 *)
Negotiated(version, avc, h264) ==
    CASE version = "10" -> gfx_h264 /\ avc /\ h264
      [] version = "81" -> avc /\ h264
      [] version = "8" -> FALSE

(* shadow_client_rdpgfx_caps_advertise: a key frame is requested, then the *)
(* newest version the client names decides; a version the server does not  *)
(* know changes nothing.  The render thread may run in between.            *)
CapsAdvertise ==
    /\ event = "idle"
    /\ advertised < MaxCaps
    /\ advertised' = advertised + 1
    /\ gfx_force_keyframe' = TRUE
    /\ event' = "caps"
    /\ UNCHANGED <<options, gfx_h264, gfx_previous_frame, refresh, render, job, timer,
                   capture, picture, lost, failures>>

CapsChosen ==
    /\ event = "caps"
    /\ \/ \E version \in {"10", "81", "8"}, avc \in BOOLEAN, h264 \in BOOLEAN :
              gfx_h264' = Negotiated(version, avc, h264)
       \/ UNCHANGED gfx_h264
    /\ event' = "idle"
    /\ UNCHANGED <<options, gfx_previous_frame, gfx_force_keyframe, refresh, render, job,
                   timer, capture, picture, lost, advertised, failures>>

\* Mutant: the newest frame is dropped when the queue is full.
PushIfRoom(frame) == IF Len(queue) = QueueSize THEN queue ELSE Append(queue, frame)

(* drd_frame_queue_push: a full queue drops its oldest frame.              *)
Pushed(frame) ==
    Append(IF Len(queue) = QueueSize THEN Tail(queue) ELSE queue, frame)

(* The screen changes and is captured.                                     *)
ScreenChanges ==
    /\ changes < MaxChanges
    /\ changes' = changes + 1
    /\ screen' \in Pictures \ {screen}
    /\ queue' = Pushed(screen')
    /\ UNCHANGED <<options, caps, gfx_previous_frame, gfx_force_keyframe, refresh, render,
                   job, timer, picture, lost, failures>>

Encode == \E vaapi \in BOOLEAN : (vaapi => options.h264_hw_accel) /\ EncodeFrame(vaapi)
Fail == \E sending \in BOOLEAN : SendFails(sending)

RenderStep ==
    \/ RenderTop \/ SendCachedFrame \/ PullFrame \/ Encode \/ SendFrame \/ StoreFrame
    \/ UpdateRefreshTimer \/ AssignTimer

MainStep == TimerFires \/ OnRefreshTimeout \/ SetTimeoutDue

Next == RenderStep \/ Fail \/ MainStep \/ TimePasses \/ CapsAdvertise \/ CapsChosen
        \/ ScreenChanges

Spec == Init /\ [][Next]_vars

(* Both threads run and time passes.                                       *)
Fairness == WF_vars(RenderStep) /\ WF_vars(MainStep) /\ WF_vars(TimePasses)

FairSpec == Spec /\ Fairness
-----------------------------------------------------------------------------
TypeOK ==
    /\ options \in [auto_switch : BOOLEAN, h264_hw_accel : BOOLEAN, enable_diff : BOOLEAN]
    /\ gfx_h264 \in BOOLEAN
    /\ gfx_previous_frame \in Pictures \cup {None}
    /\ gfx_force_keyframe \in BOOLEAN
    /\ gfx_last_codec \in {"unknown", "avc", "non_avc"}
    /\ gfx_avc_to_non_avc_transition \in BOOLEAN
    /\ gfx_progressive_rfx_frames \in 0..RefreshInterval
    /\ gfx_non_avc_switch_timestamp \in {"none", "recent", "old"}
    /\ render \in {"top", "cached", "pull", "encode", "send", "store", "timer", "assign"}
    /\ job \in Jobs
    /\ refresh_timeout_source \in BOOLEAN
    /\ refresh_timeout_due \in BOOLEAN
    /\ timers \in Nat
    /\ main \in {"idle", "called", "reached"}
    /\ event \in {"idle", "caps"}
    /\ screen \in Pictures
    /\ queue \in Seq(Pictures) /\ Len(queue) <= QueueSize
    /\ client \in Pictures
    /\ fine \in SUBSET Tiles
    /\ lost \in BOOLEAN
    /\ changes \in Nat /\ advertised \in Nat /\ failures \in Nat

(* What the encoder takes for the client's picture is the client's         *)
(* picture, after any mixture of codecs, refreshes and failures: otherwise *)
(* a tile that differs would never be sent again.                          *)
PreviousIsShown ==
    render # "store" /\ gfx_previous_frame # None => client = gfx_previous_frame

(* While the client's picture holds coarse tiles of AVC frames under newer *)
(* frames of another codec, a refresh is due: the switch is being tracked, *)
(* whatever key frames, failures and renegotiations happened since.        *)
CoarseIsTracked ==
    render # "store" /\ gfx_last_codec = "non_avc" /\ fine # Tiles
        => gfx_avc_to_non_avc_transition /\ gfx_non_avc_switch_timestamp # "none"

(* Coarse tiles become fine in the end, even when the screen rests, unless *)
(* AVC takes over again; no race of the timer with the render thread loses *)
(* the refresh.                                                            *)
PictureSharpens ==
    (gfx_last_codec = "non_avc" /\ fine # Tiles) ~> (fine = Tiles \/ gfx_last_codec = "avc")

(* The client shows the screen in the end, unless the last frame failed.   *)
ScreenReachesClient == <>[](client = screen \/ lost)
=============================================================================
