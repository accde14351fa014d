--------------------------- MODULE EncodingProofs ---------------------------
(***************************************************************************)
(* Proofs about Encoding, for every set of tiles and colours, every queue  *)
(* size, threshold and refresh interval, and any number of changes,        *)
(* renegotiations and failures.                                            *)
(***************************************************************************)
EXTENDS Encoding, TLAPS

(* The tiles a frame leaves out are the ones the client has already, and a *)
(* frame that was sent is the client's picture before it is recorded.      *)
Shown ==
    /\ gfx_previous_frame = None => client = Blank
    /\ render \in {"send", "store"} => gfx_previous_frame # None
    /\ render = "send" => \A t \in Tiles : t \in job.region \/ job.data[t] = gfx_previous_frame[t]
    /\ render = "store" => client = job.data
    /\ PreviousIsShown

(* A frame under way repaints everything if it has to, and the switch from *)
(* AVC is tracked by the frame that is sent as well as by the last one.    *)
Tracked ==
    /\ render \in {"send", "store"} /\ (job.avc \/ job.key) => job.region = Tiles
    /\ gfx_last_codec = "unknown" => gfx_force_keyframe
    /\ render \in {"send", "store"} /\ gfx_last_codec = "unknown" => job.avc \/ job.key
    /\ gfx_avc_to_non_avc_transition => gfx_non_avc_switch_timestamp # "none"
    /\ CoarseIsTracked
    /\ render = "store" /\ ~job.avc /\ job.key => fine = Tiles
    /\ render = "store" /\ ~job.avc /\ gfx_last_codec = "non_avc" /\ fine # Tiles
           => gfx_avc_to_non_avc_transition

(* A frame that is not a key frame leaves room for one more in the         *)
(* interval, so the counter does not pass it.                              *)
Counted ==
    (/\ render \in {"send", "store"}
     /\ ~job.avc /\ ~job.key
     /\ gfx_avc_to_non_avc_transition
     /\ RefreshInterval > 0)
        => gfx_progressive_rfx_frames + 1 < RefreshInterval

IInv == TypeOK /\ Shown /\ Tracked /\ Counted
-----------------------------------------------------------------------------
(* The black picture is a picture and is not None.                         *)
LEMMA BlankIsPicture == Blank \in Pictures /\ Blank # None
BY ColoursAssumption, NoneAssumption DEF Blank, Pictures

(* A frame that is taken up is a job.                                      *)
LEMMA NewJobIsJob ==
    ASSUME NEW data \in Pictures, NEW due \in BOOLEAN, NEW fresh \in BOOLEAN
    PROVE  NewJob(data, due, fresh) \in Jobs
BY DEF NewJob, Jobs

(* A frame that EncodeFrame hands to the compression differs from the      *)
(* frame taken up in its codec, kind and region only; the region covers    *)
(* the dirty tiles, and all of them in AVC and key frames.                 *)
LEMMA SentIsEncoded ==
    ASSUME NEW vaapi \in BOOLEAN, EncodeFrame(vaapi), render' = "send"
    PROVE  \E avc \in BOOLEAN, key \in BOOLEAN,
              region \in {Tiles, DirtyTiles(job.data, gfx_previous_frame')} :
              /\ job' = [job EXCEPT !.avc = avc, !.key = key, !.region = region]
              /\ avc \/ key => region = Tiles
              /\ gfx_force_keyframe' => key
              /\ RefreshIntervalReached => key
<1> DEFINE previous == IF gfx_previous_frame = None THEN Blank ELSE gfx_previous_frame
           dirty == DirtyTiles(job.data, previous)
           avc == UseAvc(Cardinality(dirty) >= LargeChange, vaapi)
           key == gfx_force_keyframe' \/ ~options.enable_diff \/ RefreshIntervalReached
<1>1. gfx_previous_frame' = previous
    BY DEF EncodeFrame
<1>2. gfx_force_keyframe' = (gfx_previous_frame = None \/ gfx_force_keyframe)
    BY Zenon DEF EncodeFrame
<1>3. job' = [job EXCEPT !.avc = avc, !.key = key, !.region = IF avc \/ key THEN Tiles ELSE dirty]
    BY <1>2 DEF EncodeFrame, NotSent
<1>4. avc \in BOOLEAN /\ key \in BOOLEAN
    BY Zenon DEF UseAvc
<1> HIDE DEF avc, key
<1> QED
    BY <1>1, <1>3, <1>4, Zenon DEF key

(* The inductive invariant holds initially.                                *)
LEMMA InitEstablishes == Init => IInv
<1> SUFFICES ASSUME Init PROVE IInv
    OBVIOUS
<1>1. TypeOK
  <2>1. job \in Jobs
      BY BlankIsPicture DEF Init, NewJob, Jobs
  <2>2. queue \in Seq(Pictures) /\ Len(queue) <= QueueSize
      BY NumbersAssumption DEF Init
  <2>3. gfx_progressive_rfx_frames \in 0..RefreshInterval
      BY NumbersAssumption DEF Init
  <2>4. timers \in Nat /\ changes \in Nat /\ advertised \in Nat /\ failures \in Nat
      BY DEF Init
  <2> QED
      BY <2>1, <2>2, <2>3, <2>4, BlankIsPicture DEF Init, TypeOK
<1>2. Shown
    BY DEF Init, Shown, PreviousIsShown
<1>3. Tracked
    BY DEF Init, Tracked, CoarseIsTracked
<1>4. Counted
    BY DEF Init, Counted
<1> QED
    BY <1>1, <1>2, <1>3, <1>4 DEF IInv

(* Every step keeps the types; the counter stays within the interval       *)
(* because of Counted and Tracked.                                         *)
LEMMA TypeStep == IInv /\ [Next]_vars => TypeOK'
<1> SUFFICES ASSUME IInv, [Next]_vars PROVE TypeOK'
    OBVIOUS
<1> USE NumbersAssumption, BlankIsPicture
<1>1. CASE RenderTop
  <2>1. render' \in {"pull", "cached"} /\ refresh_timeout_due' \in BOOLEAN
      BY <1>1 DEF RenderTop
  <2> QED
      BY <1>1, <2>1 DEF IInv, TypeOK, RenderTop, caps, refresh, capture, picture
<1>2. CASE SendCachedFrame
  <2>1. job' \in Jobs
      BY <1>2, NewJobIsJob DEF IInv, TypeOK, SendCachedFrame, EncodeCached
  <2>2. gfx_force_keyframe' \in BOOLEAN /\ render' \in {"encode", "pull"}
      BY <1>2 DEF IInv, TypeOK, SendCachedFrame, EncodeCached
  <2> QED
      BY <1>2, <2>1, <2>2
      DEF IInv, TypeOK, SendCachedFrame, caps, refresh, timer, capture, picture
<1>3. CASE PullFrame
  <2>1. queue' \in Seq(Pictures) /\ Len(queue') <= QueueSize
    <3>1. CASE queue = <<>>
        BY <1>3, <3>1 DEF IInv, TypeOK, PullFrame
    <3>2. CASE queue # <<>>
      <4>1. queue' = Tail(queue) /\ queue \in Seq(Pictures) /\ Len(queue) <= QueueSize
          BY <1>3, <3>2 DEF IInv, TypeOK, PullFrame
      <4> QED
          BY <3>2, <4>1
    <3> QED
        BY <3>1, <3>2
  <2>2. job' \in Jobs
    <3>1. CASE queue = <<>>
        BY <1>3, <3>1, NewJobIsJob DEF IInv, TypeOK, PullFrame, EncodeCached
    <3>2. CASE queue # <<>>
      <4>1. Head(queue) \in Pictures
          BY <3>2 DEF IInv, TypeOK
      <4> QED
          BY <1>3, <3>2, <4>1, NewJobIsJob DEF PullFrame
    <3> QED
        BY <3>1, <3>2
  <2>3. gfx_force_keyframe' \in BOOLEAN /\ render' \in {"encode", "top"}
      BY <1>3 DEF IInv, TypeOK, PullFrame, EncodeCached
  <2> QED
      BY <1>3, <2>1, <2>2, <2>3 DEF IInv, TypeOK, PullFrame, caps, refresh, timer, picture
<1>4. CASE Encode
  <2> PICK vaapi \in BOOLEAN : EncodeFrame(vaapi)
      BY <1>4 DEF Encode
  <2>1. gfx_previous_frame' \in Pictures \cup {None}
      BY DEF IInv, TypeOK, EncodeFrame
  <2>2. gfx_force_keyframe' \in BOOLEAN
      BY DEF IInv, TypeOK, EncodeFrame
  <2>3. gfx_progressive_rfx_frames' \in 0..RefreshInterval
      BY DEF IInv, TypeOK, EncodeFrame
  <2>4. job' \in Jobs
    <3>1. ASSUME NEW avc \in BOOLEAN, NEW key \in BOOLEAN, NEW region \in SUBSET Tiles
          PROVE  [job EXCEPT !.avc = avc, !.key = key, !.region = region] \in Jobs
        BY <3>1 DEF IInv, TypeOK, Jobs
    <3>2. \/ UNCHANGED job
          \/ \E avc \in BOOLEAN, key \in BOOLEAN, region \in SUBSET Tiles :
                job' = [job EXCEPT !.avc = avc, !.key = key, !.region = region]
        BY Zenon DEF EncodeFrame, DirtyTiles, UseAvc
    <3>3. job \in Jobs
        BY DEF IInv, TypeOK
    <3> QED
        BY <3>1, <3>2, <3>3, Zenon
  <2>5. render' \in {"send", "pull", "top"}
      BY DEF EncodeFrame, NotSent
  <2> QED
      BY <2>1, <2>2, <2>3, <2>4, <2>5
      DEF IInv, TypeOK, EncodeFrame, caps, timer, capture, picture
<1>5. CASE SendFrame
    BY <1>5 DEF IInv, TypeOK, SendFrame, caps, refresh, timer, capture, Jobs, Pictures
<1>6. CASE StoreFrame
  <2>1. gfx_previous_frame' \in Pictures \cup {None}
      BY <1>6 DEF IInv, TypeOK, StoreFrame, Jobs
  <2>2. gfx_force_keyframe' \in BOOLEAN /\ lost' \in BOOLEAN
      BY <1>6, Zenon DEF StoreFrame
  <2>3. /\ gfx_last_codec' \in {"unknown", "avc", "non_avc"}
        /\ gfx_avc_to_non_avc_transition' \in BOOLEAN
        /\ gfx_non_avc_switch_timestamp' \in {"none", "recent", "old"}
      BY <1>6 DEF IInv, TypeOK, StoreFrame, RegisterCodecResult
  <2>4. gfx_progressive_rfx_frames' \in 0..RefreshInterval
      BY <1>6 DEF IInv, TypeOK, Counted, StoreFrame, RegisterCodecResult
  <2> QED
      BY <1>6, <2>1, <2>2, <2>3, <2>4
      DEF IInv, TypeOK, StoreFrame, caps, timer, capture, picture
<1>7. CASE UpdateRefreshTimer
  <2>1. timers' \in Nat
      BY <1>7 DEF IInv, TypeOK, UpdateRefreshTimer
  <2>2. /\ refresh_timeout_source' \in BOOLEAN /\ refresh_timeout_due' \in BOOLEAN
        /\ render' \in {"top", "assign"}
      BY <1>7 DEF IInv, TypeOK, UpdateRefreshTimer
  <2> QED
      BY <1>7, <2>1, <2>2 DEF IInv, TypeOK, UpdateRefreshTimer, caps, refresh, capture, picture
<1>8. CASE AssignTimer
    BY <1>8 DEF IInv, TypeOK, AssignTimer, caps, refresh, capture, picture
<1>9. CASE Fail
    BY <1>9 DEF IInv, TypeOK, Fail, SendFails, PreviousAfterFailure, NotSent, caps, refresh,
                timer, capture, picture
<1>10. CASE TimerFires
    BY <1>10 DEF IInv, TypeOK, TimerFires, caps, refresh, capture, picture
<1>11. CASE OnRefreshTimeout
  <2>1. main' \in {"idle", "reached"} /\ refresh_timeout_source' \in BOOLEAN
      BY <1>11 DEF OnRefreshTimeout
  <2> QED
      BY <1>11, <2>1 DEF IInv, TypeOK, OnRefreshTimeout, caps, refresh, capture, picture
<1>12. CASE SetTimeoutDue
    BY <1>12 DEF IInv, TypeOK, SetTimeoutDue, caps, refresh, capture, picture
<1>13. CASE TimePasses
    BY <1>13 DEF IInv, TypeOK, TimePasses, caps, timer, capture, picture
<1>14. CASE CapsAdvertise
    BY <1>14 DEF IInv, TypeOK, CapsAdvertise, refresh, timer, capture, picture
<1>15. CASE CapsChosen
  <2>1. gfx_h264' \in BOOLEAN
      BY <1>15 DEF IInv, TypeOK, CapsChosen, Negotiated
  <2> QED
      BY <1>15, <2>1 DEF IInv, TypeOK, CapsChosen, refresh, timer, capture, picture
<1>16. CASE ScreenChanges
    BY <1>16 DEF IInv, TypeOK, ScreenChanges, caps, refresh, timer, picture, Pushed
<1>17. CASE UNCHANGED vars
    BY <1>17 DEF IInv, TypeOK, vars
<1> QED
    BY <1>1, <1>2, <1>3, <1>4, <1>5, <1>6, <1>7, <1>8, <1>9, <1>10, <1>11, <1>12, <1>13, <1>14,
       <1>15, <1>16, <1>17
    DEF Next, RenderStep, MainStep

(* Every step keeps what the encoder knows of the client's picture.        *)
LEMMA ShownStep == IInv /\ [Next]_vars => Shown'
<1> SUFFICES ASSUME IInv, [Next]_vars PROVE Shown'
    OBVIOUS
<1> USE DEF IInv, Shown, PreviousIsShown
<1>1. CASE RenderTop
  <2>1. render' \in {"pull", "cached"}
      BY <1>1 DEF RenderTop
  <2> QED
      BY <1>1, <2>1 DEF RenderTop, picture
<1>2. CASE SendCachedFrame
  <2>1. render' \in {"encode", "pull"}
      BY <1>2 DEF SendCachedFrame, EncodeCached
  <2> QED
      BY <1>2, <2>1 DEF SendCachedFrame, picture
<1>3. CASE PullFrame
  <2>1. render' \in {"encode", "top"}
      BY <1>3 DEF PullFrame, EncodeCached
  <2> QED
      BY <1>3, <2>1 DEF PullFrame, picture
<1>4. CASE Encode
  <2> PICK vaapi \in BOOLEAN : EncodeFrame(vaapi)
      BY <1>4 DEF Encode
  <2>1. /\ client' = client
        /\ gfx_previous_frame' = IF gfx_previous_frame = None THEN Blank ELSE gfx_previous_frame
      BY DEF EncodeFrame, picture
  <2>2. gfx_previous_frame' # None /\ client' = gfx_previous_frame'
      BY <2>1, BlankIsPicture DEF EncodeFrame
  <2>3. render' = "send" => \A t \in Tiles : t \in job'.region \/ job'.data[t] = gfx_previous_frame'[t]
    <3> SUFFICES ASSUME render' = "send", NEW t \in Tiles, t \notin job'.region
                 PROVE  job'.data[t] = gfx_previous_frame'[t]
        OBVIOUS
    <3>1. \E avc \in BOOLEAN, key \in BOOLEAN,
              region \in {Tiles, DirtyTiles(job.data, gfx_previous_frame')} :
              job' = [job EXCEPT !.avc = avc, !.key = key, !.region = region]
        BY SentIsEncoded
    <3>2. job'.data = job.data /\ job'.region \in {Tiles, DirtyTiles(job.data, gfx_previous_frame')}
        BY <3>1 DEF TypeOK, Jobs
    <3> QED
        BY <3>2 DEF DirtyTiles
  <2>4. render' # "store"
      BY DEF EncodeFrame, NotSent
  <2> QED
      BY <2>2, <2>3, <2>4
<1>5. CASE SendFrame
  <2>1. client = gfx_previous_frame /\ gfx_previous_frame # None
      BY <1>5 DEF SendFrame
  <2>2. client' = job.data
      BY <1>5, <2>1 DEF SendFrame, TypeOK, Jobs, Pictures
  <2> QED
      BY <1>5, <2>1, <2>2 DEF SendFrame
<1>6. CASE StoreFrame
  <2>1. job.data # None
      BY NoneAssumption DEF TypeOK, Jobs
  <2> QED
      BY <1>6, <2>1 DEF StoreFrame, picture
<1>7. CASE UpdateRefreshTimer
  <2>1. render' \in {"top", "assign"}
      BY <1>7 DEF UpdateRefreshTimer
  <2> QED
      BY <1>7, <2>1 DEF UpdateRefreshTimer, picture
<1>8. CASE AssignTimer
    BY <1>8 DEF AssignTimer, picture
<1>9. CASE Fail
  <2>1. render' \in {"pull", "top"}
      BY <1>9 DEF Fail, SendFails, NotSent
  <2> QED
      BY <1>9, <2>1 DEF Fail, SendFails, PreviousAfterFailure, picture
<1>10. CASE MainStep
    BY <1>10 DEF MainStep, TimerFires, OnRefreshTimeout, SetTimeoutDue, picture
<1>11. CASE TimePasses
    BY <1>11 DEF TimePasses, picture
<1>12. CASE CapsAdvertise \/ CapsChosen
    BY <1>12 DEF CapsAdvertise, CapsChosen, picture
<1>13. CASE ScreenChanges
    BY <1>13 DEF ScreenChanges, picture
<1>14. CASE UNCHANGED vars
    BY <1>14 DEF vars
<1> QED
    BY <1>1, <1>2, <1>3, <1>4, <1>5, <1>6, <1>7, <1>8, <1>9, <1>10, <1>11, <1>12, <1>13, <1>14
    DEF Next, RenderStep

(* Every step keeps the switch from AVC tracked.                           *)
LEMMA TrackedStep == IInv /\ [Next]_vars => Tracked'
<1> SUFFICES ASSUME IInv, [Next]_vars PROVE Tracked'
    OBVIOUS
<1> USE DEF IInv, Tracked, CoarseIsTracked
<1>1. CASE RenderTop
  <2>1. render' \in {"pull", "cached"}
      BY <1>1 DEF RenderTop
  <2> QED
      BY <1>1, <2>1 DEF RenderTop, picture, refresh
<1>2. CASE SendCachedFrame
  <2>1. render' \in {"encode", "pull"} /\ (gfx_force_keyframe => gfx_force_keyframe')
      BY <1>2 DEF SendCachedFrame, EncodeCached
  <2> QED
      BY <1>2, <2>1 DEF SendCachedFrame, picture, refresh
<1>3. CASE PullFrame
  <2>1. render' \in {"encode", "top"} /\ (gfx_force_keyframe => gfx_force_keyframe')
      BY <1>3 DEF PullFrame, EncodeCached
  <2> QED
      BY <1>3, <2>1 DEF PullFrame, picture, refresh
<1>4. CASE Encode
  <2> PICK vaapi \in BOOLEAN : EncodeFrame(vaapi)
      BY <1>4 DEF Encode
  <2>1. /\ render = "encode" /\ render' \in {"send", "pull", "top"}
        /\ fine' = fine
        /\ UNCHANGED <<gfx_last_codec, gfx_avc_to_non_avc_transition, gfx_non_avc_switch_timestamp>>
      BY DEF EncodeFrame, NotSent, picture
  <2>2. gfx_force_keyframe => gfx_force_keyframe'
      BY Zenon DEF EncodeFrame
  <2>3. CASE render' = "send"
    <3>1. PICK avc \in BOOLEAN, key \in BOOLEAN,
               region \in {Tiles, DirtyTiles(job.data, gfx_previous_frame')} :
              /\ job' = [job EXCEPT !.avc = avc, !.key = key, !.region = region]
              /\ avc \/ key => region = Tiles
              /\ gfx_force_keyframe' => key
        BY <2>3, SentIsEncoded
    <3>2. job'.avc = avc /\ job'.key = key /\ job'.region = region
        BY <3>1 DEF TypeOK, Jobs
    <3> QED
        BY <2>1, <2>2, <2>3, <3>1, <3>2
  <2>4. CASE render' # "send"
      BY <2>1, <2>2, <2>4
  <2> QED
      BY <2>3, <2>4
<1>5. CASE SendFrame
  <2>1. /\ render = "send" /\ render' = "store"
        /\ fine' = IF job.avc THEN {} ELSE fine \cup job.region
        /\ UNCHANGED <<job, gfx_last_codec, gfx_avc_to_non_avc_transition,
                       gfx_non_avc_switch_timestamp, gfx_force_keyframe>>
      BY <1>5 DEF SendFrame, refresh
  <2>2. fine \in SUBSET Tiles /\ job.region \in SUBSET Tiles
      BY DEF TypeOK, Jobs
  <2>3. ~job.avc /\ job.key => fine' = Tiles
      BY <2>1, <2>2
  <2>4. ~job.avc /\ fine' # Tiles => fine # Tiles
      BY <2>1, <2>2
  <2> QED
      BY <2>1, <2>3, <2>4
<1>6. CASE StoreFrame
  <2>1. render = "store" /\ render' = "timer" /\ UNCHANGED <<job, fine>>
      BY <1>6 DEF StoreFrame, picture
  <2>2. /\ gfx_last_codec' = IF job.avc THEN "avc" ELSE "non_avc"
        /\ gfx_avc_to_non_avc_transition' => gfx_non_avc_switch_timestamp' # "none"
      BY <1>6 DEF StoreFrame, RegisterCodecResult
  <2>3. ASSUME ~job.avc, fine # Tiles
        PROVE  gfx_avc_to_non_avc_transition'
    <3>1. ~job.key /\ gfx_last_codec # "unknown"
        BY <2>1, <2>3
    <3>2. gfx_last_codec = "avc" \/ gfx_avc_to_non_avc_transition
        BY <2>1, <2>3, <3>1 DEF TypeOK
    <3> QED
        BY <1>6, <2>3, <3>1, <3>2 DEF StoreFrame, RegisterCodecResult
  <2> QED
      BY <2>1, <2>2, <2>3
<1>7. CASE UpdateRefreshTimer
  <2>1. render' \in {"top", "assign"}
      BY <1>7 DEF UpdateRefreshTimer
  <2> QED
      BY <1>7, <2>1 DEF UpdateRefreshTimer, picture, refresh
<1>8. CASE AssignTimer
    BY <1>8 DEF AssignTimer, picture, refresh
<1>9. CASE Fail
  <2>1. render' \in {"pull", "top"} /\ (gfx_force_keyframe => gfx_force_keyframe')
      BY <1>9 DEF Fail, SendFails, NotSent
  <2> QED
      BY <1>9, <2>1 DEF Fail, SendFails, picture, refresh
<1>10. CASE MainStep
    BY <1>10 DEF MainStep, TimerFires, OnRefreshTimeout, SetTimeoutDue, picture, refresh
<1>11. CASE TimePasses
    BY <1>11 DEF TimePasses, picture
<1>12. CASE CapsAdvertise \/ CapsChosen
    BY <1>12 DEF CapsAdvertise, CapsChosen, picture, refresh
<1>13. CASE ScreenChanges
    BY <1>13 DEF ScreenChanges, picture, refresh
<1>14. CASE UNCHANGED vars
    BY <1>14 DEF vars
<1> QED
    BY <1>1, <1>2, <1>3, <1>4, <1>5, <1>6, <1>7, <1>8, <1>9, <1>10, <1>11, <1>12, <1>13, <1>14
    DEF Next, RenderStep

(* Every step keeps the counter of frames within the interval.             *)
LEMMA CountedStep == IInv /\ [Next]_vars => Counted'
<1> SUFFICES ASSUME IInv, [Next]_vars PROVE Counted'
    OBVIOUS
<1> USE DEF IInv, Counted
<1>1. CASE Encode
  <2> PICK vaapi \in BOOLEAN : EncodeFrame(vaapi)
      BY <1>1 DEF Encode
  <2>1. /\ render' \in {"send", "pull", "top"}
        /\ UNCHANGED <<gfx_avc_to_non_avc_transition, gfx_non_avc_switch_timestamp>>
      BY DEF EncodeFrame, NotSent
  <2> SUFFICES ASSUME render' = "send", ~job'.key, gfx_avc_to_non_avc_transition, RefreshInterval > 0
               PROVE  gfx_progressive_rfx_frames' + 1 < RefreshInterval
      BY <2>1
  <2>2. PICK avc \in BOOLEAN, key \in BOOLEAN,
             region \in {Tiles, DirtyTiles(job.data, gfx_previous_frame')} :
            /\ job' = [job EXCEPT !.avc = avc, !.key = key, !.region = region]
            /\ gfx_force_keyframe' => key
            /\ RefreshIntervalReached => key
      BY SentIsEncoded
  <2>3. job'.key = key
      BY <2>2 DEF TypeOK, Jobs
  <2>4. ~gfx_force_keyframe' /\ ~RefreshIntervalReached
      BY <2>2, <2>3
  <2>5. gfx_previous_frame # None
      BY <2>4 DEF EncodeFrame
  <2>6. gfx_progressive_rfx_frames' = gfx_progressive_rfx_frames
      BY <2>5 DEF EncodeFrame
  <2>7. ~(gfx_progressive_rfx_frames + 1 >= RefreshInterval)
      BY <2>4 DEF RefreshIntervalReached, Tracked
  <2> QED
      BY <2>6, <2>7, NumbersAssumption DEF TypeOK
<1>2. CASE SendFrame
    BY <1>2 DEF SendFrame, refresh
<1>3. CASE RenderTop \/ SendCachedFrame \/ PullFrame \/ StoreFrame \/ UpdateRefreshTimer
             \/ AssignTimer \/ Fail
  <2>1. render' \notin {"send", "store"}
      BY <1>3 DEF RenderTop, SendCachedFrame, PullFrame, EncodeCached, StoreFrame,
                  UpdateRefreshTimer, AssignTimer, Fail, SendFails, NotSent
  <2> QED
      BY <2>1
<1>4. CASE MainStep
    BY <1>4 DEF MainStep, TimerFires, OnRefreshTimeout, SetTimeoutDue, refresh
<1>5. CASE TimePasses
    BY <1>5 DEF TimePasses
<1>6. CASE CapsAdvertise \/ CapsChosen
    BY <1>6 DEF CapsAdvertise, CapsChosen, refresh
<1>7. CASE ScreenChanges
    BY <1>7 DEF ScreenChanges, refresh
<1>8. CASE UNCHANGED vars
    BY <1>8 DEF vars
<1> QED
    BY <1>1, <1>2, <1>3, <1>4, <1>5, <1>6, <1>7, <1>8 DEF Next, RenderStep
-----------------------------------------------------------------------------
(* The inductive invariant of the encoding manager and its callers.        *)
THEOREM EncodingInvariance == Spec => []IInv
<1>1. IInv /\ [Next]_vars => IInv'
    BY TypeStep, ShownStep, TrackedStep, CountedStep DEF IInv
<1> QED
    BY InitEstablishes, <1>1, PTL DEF Spec

(* The fields of the encoding manager keep their types; the counter of     *)
(* frames since the switch never passes the refresh interval.              *)
THEOREM TypeCorrect == Spec => []TypeOK
<1>1. IInv => TypeOK
    BY DEF IInv
<1> QED
    BY EncodingInvariance, <1>1, PTL

(* What encode_surface_gfx compares a new frame with is what the client    *)
(* shows, so no tile stays out of date for want of a difference.           *)
THEOREM DifferencesAreReal == Spec => []PreviousIsShown
<1>1. IInv => PreviousIsShown
    BY DEF IInv, Shown
<1> QED
    BY EncodingInvariance, <1>1, PTL

(* Coarse tiles left by AVC are never forgotten by the refresh.            *)
THEOREM CoarseTilesTracked == Spec => []CoarseIsTracked
<1>1. IInv => CoarseIsTracked
    BY DEF IInv, Tracked
<1> QED
    BY EncodingInvariance, <1>1, PTL

=============================================================================
