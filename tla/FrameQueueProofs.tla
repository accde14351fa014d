-------------------------- MODULE FrameQueueProofs --------------------------
(***************************************************************************)
(* The ring of drd_frame_queue.c is correct for every capacity, every set  *)
(* of waiting threads and every number of pushed frames, and implements    *)
(* the bounded FIFO of FrameQueueSpec.                                     *)
(***************************************************************************)
EXTENDS FrameQueue, TLAPS

(* No thread is inside a queue that has been disposed of, and it is empty. *)
DisposedIsQuiet == disposed => size = 0 /\ \A w \in Waiters : wait[w] = "none"

(* The inductive invariant: the checked invariants, and DisposedIsQuiet.   *)
IInv ==
    /\ TypeOK
    /\ NewestFramesInOrder
    /\ NoStaleFrame
    /\ NoLostWakeup
    /\ EveryFrameAccounted
    /\ DisposedIsQuiet

(* A slot of the ring is its own remainder.                                *)
LEMMA ModBelow ==
    ASSUME NEW N \in Nat \ {0}, NEW x \in 0..(N - 1) PROVE x % N = x
BY SMT

(* An index on the second lap wraps to the slot one lap earlier.           *)
LEMMA ModOneLap ==
    ASSUME NEW N \in Nat \ {0}, NEW x \in N..(N + N - 1) PROVE x % N = x - N
BY SMT

(* An index at most one lap ahead of a slot wraps by one subtraction.      *)
LEMMA WrapOnce ==
    ASSUME NEW h \in Slots, NEW i \in 0..MaxFrames
    PROVE  (h + i) % MaxFrames = IF h + i < MaxFrames THEN h + i ELSE (h + i) - MaxFrames
<1>1. CASE h + i < MaxFrames
  <2>1. h + i \in 0..(MaxFrames - 1)
    BY <1>1, MaxFramesAssumption DEF Slots
  <2>2. (h + i) % MaxFrames = h + i
    BY <2>1, ModBelow, MaxFramesAssumption
  <2> QED BY <2>2, <1>1
<1>2. CASE ~(h + i < MaxFrames)
  <2>1. h + i \in MaxFrames..(MaxFrames + MaxFrames - 1)
    BY <1>2, MaxFramesAssumption DEF Slots
  <2>2. (h + i) % MaxFrames = (h + i) - MaxFrames
    BY <2>1, ModOneLap, MaxFramesAssumption
  <2> QED BY <2>2, <1>2
<1> QED BY <1>1, <1>2

(* Slots counted from a head: in range, one lap is the identity, different *)
(* offsets are different slots, and the successor shifts every offset.     *)
LEMMA SlotArithmetic ==
    ASSUME NEW h \in Slots
    PROVE  /\ Succ(h) \in Slots
           /\ Succ(h) = (h + 1) % MaxFrames
           /\ (h + 0) % MaxFrames = h
           /\ (h + MaxFrames) % MaxFrames = h
           /\ \A i \in 0..MaxFrames : (h + i) % MaxFrames \in Slots
           /\ \A i, j \in 0..(MaxFrames - 1) :
                 i # j => (h + i) % MaxFrames # (h + j) % MaxFrames
           /\ \A i \in 0..(MaxFrames - 1) :
                 /\ (Succ(h) + i) % MaxFrames = (h + (i + 1)) % MaxFrames
                 /\ Succ((h + i) % MaxFrames) = (h + (i + 1)) % MaxFrames
<1> USE MaxFramesAssumption
<1>1. \A g \in Slots : \A i \in 0..MaxFrames :
         (g + i) % MaxFrames = IF g + i < MaxFrames THEN g + i ELSE (g + i) - MaxFrames
  BY WrapOnce
<1>2. \A g \in Slots : Succ(g) = IF g + 1 < MaxFrames THEN g + 1 ELSE (g + 1) - MaxFrames
  BY <1>1 DEF Succ
<1>3. Succ(h) \in Slots
  BY <1>2 DEF Slots
<1>4. \A i \in 0..MaxFrames : (h + i) % MaxFrames \in Slots
  BY <1>1 DEF Slots
<1>5. /\ Succ(h) = (h + 1) % MaxFrames
      /\ (h + 0) % MaxFrames = h
      /\ (h + MaxFrames) % MaxFrames = h
  <2>1. 0 \in 0..MaxFrames /\ MaxFrames \in 0..MaxFrames
    OBVIOUS
  <2>2. /\ (h + 0) % MaxFrames = IF h + 0 < MaxFrames THEN h + 0 ELSE (h + 0) - MaxFrames
        /\ (h + MaxFrames) % MaxFrames
              = IF h + MaxFrames < MaxFrames THEN h + MaxFrames ELSE (h + MaxFrames) - MaxFrames
    BY <1>1, <2>1
  <2>3. Succ(h) = (h + 1) % MaxFrames
    BY DEF Succ
  <2> QED BY <2>2, <2>3 DEF Slots
<1>6. ASSUME NEW i \in 0..(MaxFrames - 1), NEW j \in 0..(MaxFrames - 1), i # j
      PROVE  (h + i) % MaxFrames # (h + j) % MaxFrames
  <2>1. /\ (h + i) % MaxFrames = IF h + i < MaxFrames THEN h + i ELSE (h + i) - MaxFrames
        /\ (h + j) % MaxFrames = IF h + j < MaxFrames THEN h + j ELSE (h + j) - MaxFrames
    BY <1>1
  <2> QED BY <1>6, <2>1 DEF Slots
<1>7. ASSUME NEW i \in 0..(MaxFrames - 1)
      PROVE  /\ (Succ(h) + i) % MaxFrames = (h + (i + 1)) % MaxFrames
             /\ Succ((h + i) % MaxFrames) = (h + (i + 1)) % MaxFrames
  <2>1. i + 1 \in 0..MaxFrames /\ i \in 0..MaxFrames
    OBVIOUS
  <2>2. (h + (i + 1)) % MaxFrames
           = IF h + (i + 1) < MaxFrames THEN h + (i + 1) ELSE (h + (i + 1)) - MaxFrames
    BY <2>1, <1>1
  <2>3. (Succ(h) + i) % MaxFrames
           = IF Succ(h) + i < MaxFrames THEN Succ(h) + i ELSE (Succ(h) + i) - MaxFrames
    BY <2>1, <1>1, <1>3
  <2>4. (Succ(h) + i) % MaxFrames = (h + (i + 1)) % MaxFrames
    BY <2>2, <2>3, <1>2 DEF Slots
  <2>5. (h + i) % MaxFrames = IF h + i < MaxFrames THEN h + i ELSE (h + i) - MaxFrames
    BY <2>1, <1>1
  <2>6. Succ((h + i) % MaxFrames) = (h + (i + 1)) % MaxFrames
    BY <2>1, <2>2, <2>5, <1>2, <1>4 DEF Slots
  <2> QED BY <2>4, <2>6
<1> QED BY <1>3, <1>4, <1>5, <1>6, <1>7

(* drd_frame_queue_init starts with an empty ring and no waiter.           *)
LEMMA InitEstablishesIInv == Init => IInv
<1> SUFFICES ASSUME Init PROVE IInv OBVIOUS
<1> USE MaxFramesAssumption, MaxPushAssumption DEF Init
<1>1. TypeOK
  <2>1. frames \in [Slots -> (1..MaxPush) \cup {NULL}]
    OBVIOUS
  <2>2. /\ wait \in [Waiters -> {"none", "asleep", "woken"}]
        /\ deadline \in [Waiters -> BOOLEAN]
    BY Zenon
  <2>3. 0 \in Slots
    BY DEF Slots
  <2>4. /\ size \in 0..MaxFrames
        /\ dropped_frames \in Nat
        /\ pushed \in 0..MaxPush
        /\ resetAt \in 0..MaxPush
        /\ taken \in 0..MaxPush
        /\ delivered \in Nat
    OBVIOUS
  <2>5. running \in BOOLEAN /\ disposed \in BOOLEAN
    OBVIOUS
  <2>6. head \in Slots /\ tail \in Slots
    BY <2>3
  <2> QED BY ONLY <2>1, <2>2, <2>4, <2>5, <2>6 DEF TypeOK
<1>2. NewestFramesInOrder
  <2>1. 0 \in Slots BY DEF Slots
  <2>2. (0 + 0) % MaxFrames = 0 BY <2>1, SlotArithmetic
  <2> QED BY <2>2 DEF NewestFramesInOrder, SlotOf
<1>3. NoStaleFrame /\ NoLostWakeup /\ EveryFrameAccounted /\ DisposedIsQuiet
  BY DEF NoStaleFrame, NoLostWakeup, EveryFrameAccounted, DisposedIsQuiet
<1> QED BY <1>1, <1>2, <1>3 DEF IInv

(* Taking the head shifts every offset by one.                             *)
LEMMA TakeHeadPreservesIInv ==
    ASSUME IInv, NEW w \in Waiters, TakeHead(w)
    PROVE  IInv'
<1> USE MaxFramesAssumption, MaxPushAssumption, NullAssumption
<1>1. TypeOK /\ ~disposed
  BY DEF IInv, TakeHead, DisposedIsQuiet, TypeOK
<1>2. head \in Slots /\ size \in 1..MaxFrames /\ pushed \in 0..MaxPush
  BY <1>1 DEF TakeHead, TypeOK
<1>3. SlotOf(0) = head
  BY <1>2, SlotArithmetic DEF SlotOf
<1>4. frames[head] = pushed - size + 1
  BY <1>1, <1>2, <1>3 DEF IInv, NewestFramesInOrder
<1>5. taken + size <= pushed /\ resetAt + size <= pushed
  BY DEF IInv, NoStaleFrame
<1>6. TypeOK'
  <2>1. Succ(head) \in Slots BY <1>2, SlotArithmetic
  <2>2. taken' \in 0..MaxPush BY <1>1, <1>2, <1>4, <1>5 DEF TakeHead, TypeOK
  <2> QED BY <1>1, <1>2, <2>1, <2>2 DEF TypeOK, TakeHead
<1>7. NewestFramesInOrder'
  <2>1. tail' = SlotOf(size)' 
    <3>1. tail = (head + ((size - 1) + 1)) % MaxFrames
      BY <1>1, <1>2 DEF IInv, NewestFramesInOrder, SlotOf
    <3>2. size - 1 \in 0..(MaxFrames - 1) BY <1>2
    <3>3. (Succ(head) + (size - 1)) % MaxFrames = (head + ((size - 1) + 1)) % MaxFrames
      BY <3>2, <1>2, SlotArithmetic
    <3> QED BY <3>1, <3>3 DEF TakeHead, SlotOf
  <2>2. ASSUME NEW i \in 0..(size - 2)
        PROVE  frames'[(Succ(head) + i) % MaxFrames] = pushed - (size - 1) + 1 + i
    <3>1. i \in 0..(MaxFrames - 1) /\ i + 1 \in 0..(size - 1) /\ i + 1 \in 0..(MaxFrames - 1)
          /\ i + 1 \in 0..MaxFrames /\ i + 1 # 0 /\ 0 \in 0..(MaxFrames - 1)
      BY <1>2
    <3>2. (Succ(head) + i) % MaxFrames = SlotOf(i + 1)
      BY <3>1, <1>2, SlotArithmetic DEF SlotOf
    <3>3. SlotOf(i + 1) # head
      BY <3>1, <1>2, <1>3, SlotArithmetic DEF SlotOf
    <3>4. SlotOf(i + 1) \in Slots
      BY <3>1, <1>2, SlotArithmetic DEF SlotOf
    <3>5. frames[SlotOf(i + 1)] = pushed - size + 1 + (i + 1)
      BY <3>1, <1>1 DEF IInv, NewestFramesInOrder
    <3>6. frames'[SlotOf(i + 1)] = frames[SlotOf(i + 1)]
      BY <3>3, <3>4, <1>1 DEF TakeHead, TypeOK
    <3> QED BY <3>2, <3>5, <3>6, <1>2
  <2> QED BY <2>1, <2>2, <1>2 DEF NewestFramesInOrder, SlotOf, TakeHead
<1>8. NoStaleFrame'
  BY <1>1, <1>2, <1>4, <1>5 DEF NoStaleFrame, TakeHead, TypeOK
<1>9. NoLostWakeup'
  BY <1>1, <1>2 DEF IInv, NoLostWakeup, TakeHead, TypeOK
<1>10. EveryFrameAccounted' /\ DisposedIsQuiet'
  BY <1>1, <1>2 DEF IInv, EveryFrameAccounted, DisposedIsQuiet, TakeHead, TypeOK
<1> QED BY <1>6, <1>7, <1>8, <1>9, <1>10 DEF IInv

(* A push into a ring with room fills the slot at offset size; a push into *)
(* a full ring gives the slot of the oldest frame to the newest one and    *)
(* shifts every offset by one.                                             *)
LEMMA PushPreservesIInv ==
    ASSUME IInv, Push
    PROVE  IInv'
<1> USE MaxFramesAssumption, MaxPushAssumption, NullAssumption
<1>1. /\ TypeOK
      /\ ~disposed
      /\ head \in Slots
      /\ size \in 0..MaxFrames
      /\ pushed \in 0..MaxPush
      /\ pushed + 1 \in 1..MaxPush
  BY DEF IInv, Push, TypeOK
<1>2. tail = SlotOf(size) /\ \A i \in 0..(size - 1) : frames[SlotOf(i)] = pushed - size + 1 + i
  BY <1>1 DEF IInv, NewestFramesInOrder
<1>3. tail \in Slots /\ Succ(tail) \in Slots /\ Succ(head) \in Slots
  BY <1>1, SlotArithmetic DEF TypeOK
<1>4. TypeOK'
  <2>1. frames' \in [Slots -> (1..MaxPush) \cup {NULL}]
    BY <1>1, <1>3 DEF Push, TypeOK
  <2>2. wait' \in [Waiters -> {"none", "asleep", "woken"}]
    BY <1>1 DEF Push, Broadcast, TypeOK
  <2>3. head' \in Slots /\ tail' \in Slots /\ size' \in 0..MaxFrames /\ dropped_frames' \in Nat
    BY <1>1, <1>3 DEF Push, HeadAfterPush, DroppedAfterPush, TypeOK
  <2> QED BY <1>1, <2>1, <2>2, <2>3 DEF Push, TypeOK
<1>5. ASSUME size < MaxFrames
      PROVE  NewestFramesInOrder' /\ NoStaleFrame' /\ EveryFrameAccounted'
  <2>1. /\ head' = head
        /\ size' = size + 1
        /\ frames' = [frames EXCEPT ![tail] = pushed + 1]
        /\ pushed' = pushed + 1
        /\ tail' = Succ(tail)
        /\ UNCHANGED <<disposed, running, resetAt, taken, delivered>>
        /\ dropped_frames' = dropped_frames
    BY <1>1, <1>5 DEF Push, HeadAfterPush, DroppedAfterPush
  <2>2. size \in 0..(MaxFrames - 1)
    BY <1>1, <1>5
  <2>3. NewestFramesInOrder'
    <3>1. tail' = (head + (size + 1)) % MaxFrames
      BY <2>1, <2>2, <1>1, <1>2, SlotArithmetic DEF SlotOf
    <3>2. ASSUME NEW i \in 0..size
          PROVE  frames'[(head + i) % MaxFrames] = (pushed + 1) - (size + 1) + 1 + i
      <4>1. i \in 0..(MaxFrames - 1) /\ i \in 0..MaxFrames
        BY <2>2
      <4>2. SlotOf(i) \in Slots
        BY <4>1, <1>1, SlotArithmetic DEF SlotOf
      <4>3. CASE i = size
        BY <4>3, <4>2, <2>1, <1>1, <1>2 DEF SlotOf, TypeOK
      <4>4. CASE i # size
        <5>1. SlotOf(i) # tail
          BY <4>1, <4>4, <2>2, <1>1, <1>2, SlotArithmetic DEF SlotOf
        <5>2. frames'[SlotOf(i)] = frames[SlotOf(i)]
          BY <5>1, <4>2, <2>1, <1>1 DEF TypeOK
        <5>3. i \in 0..(size - 1)
          BY <4>4, <2>2
        <5>4. frames[SlotOf(i)] = pushed - size + 1 + i
          BY <5>3, <1>2
        <5> QED BY <5>2, <5>4, <1>1, <2>2 DEF SlotOf
      <4> QED BY <4>3, <4>4
    <3> QED BY <3>1, <3>2, <2>1, <1>1 DEF NewestFramesInOrder, SlotOf
  <2>4. NoStaleFrame' /\ EveryFrameAccounted'
    BY <2>1, <1>1 DEF IInv, NoStaleFrame, EveryFrameAccounted, TypeOK
  <2> QED BY <2>3, <2>4
<1>6. ASSUME size = MaxFrames
      PROVE  NewestFramesInOrder' /\ NoStaleFrame' /\ EveryFrameAccounted'
  <2>1. /\ head' = Succ(head)
        /\ size' = MaxFrames
        /\ frames' = [frames EXCEPT ![head] = NULL, ![tail] = pushed + 1]
        /\ pushed' = pushed + 1
        /\ tail' = Succ(tail)
        /\ UNCHANGED <<disposed, running, resetAt, taken, delivered>>
        /\ dropped_frames' = dropped_frames + 1
    BY <1>1, <1>6 DEF Push, HeadAfterPush, DroppedAfterPush
  <2>2. tail = head
    BY <1>1, <1>2, <1>6, SlotArithmetic DEF SlotOf
  <2>3. NewestFramesInOrder'
    <3>1. tail' = (head' + MaxFrames) % MaxFrames
      BY <2>1, <2>2, <1>3, SlotArithmetic
    <3>2. ASSUME NEW i \in 0..(MaxFrames - 1)
          PROVE  frames'[(Succ(head) + i) % MaxFrames] = (pushed + 1) - MaxFrames + 1 + i
      <4>1. (Succ(head) + i) % MaxFrames = (head + (i + 1)) % MaxFrames
        BY <1>1, SlotArithmetic
      <4>2. CASE i = MaxFrames - 1
        <5>1. (Succ(head) + i) % MaxFrames = head
          BY <4>1, <4>2, <1>1, SlotArithmetic
        <5> QED BY <5>1, <4>2, <2>1, <2>2, <1>1 DEF TypeOK
      <4>3. CASE i # MaxFrames - 1
        <5>1. i + 1 \in 0..(MaxFrames - 1) /\ 0 \in 0..(MaxFrames - 1) /\ i + 1 # 0
              /\ i + 1 \in 0..MaxFrames
          BY <4>3
        <5>2. SlotOf(i + 1) # head /\ SlotOf(i + 1) \in Slots
          BY <5>1, <1>1, SlotArithmetic DEF SlotOf
        <5>3. frames'[SlotOf(i + 1)] = frames[SlotOf(i + 1)]
          BY <5>2, <2>1, <2>2, <1>1 DEF TypeOK
        <5>4. frames[SlotOf(i + 1)] = pushed - MaxFrames + 1 + (i + 1)
          BY <5>1, <1>2, <1>6
        <5> QED BY <5>3, <5>4, <4>1, <1>1 DEF SlotOf
      <4> QED BY <4>2, <4>3
    <3> QED BY <3>1, <3>2, <2>1, <1>1 DEF NewestFramesInOrder, SlotOf
  <2>4. NoStaleFrame' /\ EveryFrameAccounted'
    BY <2>1, <1>1, <1>6 DEF IInv, NoStaleFrame, EveryFrameAccounted, TypeOK
  <2> QED BY <2>3, <2>4
<1>7. NewestFramesInOrder' /\ NoStaleFrame' /\ EveryFrameAccounted'
  BY <1>1, <1>5, <1>6
<1>8. NoLostWakeup' /\ DisposedIsQuiet'
  <2>1. \A w \in Waiters : wait'[w] # "asleep"
    BY <1>1 DEF Push, Broadcast, TypeOK
  <2> QED BY <2>1, <1>1 DEF NoLostWakeup, DisposedIsQuiet, Push
<1> QED BY <1>4, <1>7, <1>8 DEF IInv

(* The steps that leave the ring, the counters and the histories alone.    *)
LEMMA QuietStepPreservesIInv ==
    ASSUME IInv,
           UNCHANGED <<ring, dropped_frames, disposed, history>>,
           running' \in BOOLEAN,
           wait' \in [Waiters -> {"none", "asleep", "woken"}],
           deadline' \in [Waiters -> BOOLEAN],
           NoLostWakeup',
           DisposedIsQuiet'
    PROVE  IInv'
<1>1. TypeOK'
  BY DEF IInv, TypeOK, ring, history
<1>2. NewestFramesInOrder'
  BY DEF IInv, NewestFramesInOrder, SlotOf, ring, history
<1>3. NoStaleFrame' /\ EveryFrameAccounted'
  BY DEF IInv, NoStaleFrame, EveryFrameAccounted, ring, history
<1> QED BY <1>1, <1>2, <1>3 DEF IInv

(* Leaving drd_frame_queue_wait without a frame moves only the waiter.     *)
LEMMA GiveUpPreservesIInv ==
    ASSUME IInv, NEW w \in Waiters, GiveUp(w)
    PROVE  IInv'
<1>1. TypeOK /\ NoLostWakeup /\ DisposedIsQuiet BY DEF IInv
<1>2. NoLostWakeup' BY <1>1 DEF NoLostWakeup, GiveUp, TypeOK, ring
<1>3. DisposedIsQuiet' BY <1>1 DEF DisposedIsQuiet, GiveUp, TypeOK, ring
<1>4. wait' \in [Waiters -> {"none", "asleep", "woken"}] BY <1>1 DEF GiveUp, TypeOK
<1>5. running' \in BOOLEAN /\ deadline' \in [Waiters -> BOOLEAN] BY <1>1 DEF GiveUp, TypeOK
<1>6. UNCHANGED <<ring, dropped_frames, disposed, history>> BY DEF GiveUp
<1> QED BY <1>2, <1>3, <1>4, <1>5, <1>6, QuietStepPreservesIInv

(* A waiter falls asleep only on an empty, running queue.                  *)
LEMMA FallAsleepPreservesIInv ==
    ASSUME IInv, NEW w \in Waiters, FallAsleep(w), ~disposed,
           deadline' \in [Waiters -> BOOLEAN]
    PROVE  IInv'
<1>1. TypeOK /\ NoLostWakeup /\ DisposedIsQuiet BY DEF IInv
<1>2. NoLostWakeup' BY <1>1 DEF NoLostWakeup, FallAsleep, TypeOK, ring
<1>3. DisposedIsQuiet' BY DEF DisposedIsQuiet, FallAsleep
<1>4. wait' \in [Waiters -> {"none", "asleep", "woken"}] BY <1>1 DEF FallAsleep, TypeOK
<1>5. running' \in BOOLEAN BY <1>1 DEF FallAsleep, TypeOK
<1>6. UNCHANGED <<ring, dropped_frames, disposed, history>> BY DEF FallAsleep
<1> QED BY <1>2, <1>3, <1>4, <1>5, <1>6, QuietStepPreservesIInv

(* Reset and dispose empty the ring.                                       *)
LEMMA ResetPreservesIInv == ASSUME IInv, Reset PROVE IInv'
<1> USE MaxFramesAssumption, MaxPushAssumption
<1>1. TypeOK /\ ~disposed /\ ~disposed' BY DEF IInv, Reset
<1>2. TypeOK'
  <2>1. 0 \in Slots BY DEF Slots
  <2>2. wait' \in [Waiters -> {"none", "asleep", "woken"}]
    BY <1>1 DEF Reset, Broadcast, TypeOK
  <2>3. frames' \in [Slots -> (1..MaxPush) \cup {NULL}]
    BY DEF Reset
  <2> QED BY <1>1, <2>1, <2>2, <2>3 DEF Reset, TypeOK
<1>3. NewestFramesInOrder'
  <2>1. 0 \in Slots BY DEF Slots
  <2>2. (0 + 0) % MaxFrames = 0 BY <2>1, SlotArithmetic
  <2> QED BY <2>2 DEF NewestFramesInOrder, SlotOf, Reset
<1>4. NoStaleFrame' /\ EveryFrameAccounted'
  BY <1>1 DEF IInv, NoStaleFrame, EveryFrameAccounted, Reset, TypeOK
<1>5. NoLostWakeup'
  <2>1. \A w \in Waiters : wait'[w] # "asleep"
    BY <1>1 DEF Reset, Broadcast, TypeOK
  <2> QED BY <2>1 DEF NoLostWakeup
<1>6. DisposedIsQuiet' BY <1>1 DEF DisposedIsQuiet
<1> QED BY <1>2, <1>3, <1>4, <1>5, <1>6 DEF IInv

(* Dispose drops every frame and leaves nobody to wake.                    *)
LEMMA DisposePreservesIInv == ASSUME IInv, Dispose PROVE IInv'
<1> USE MaxFramesAssumption, MaxPushAssumption
<1>1. TypeOK BY DEF IInv
<1>2. TypeOK'
  <2>1. frames' \in [Slots -> (1..MaxPush) \cup {NULL}]
    BY DEF Dispose
  <2>2. size' \in 0..MaxFrames /\ disposed' \in BOOLEAN
    BY DEF Dispose
  <2> QED BY <1>1, <2>1, <2>2 DEF Dispose, TypeOK, history
<1>3. NewestFramesInOrder' /\ EveryFrameAccounted'
  BY DEF NewestFramesInOrder, EveryFrameAccounted, Dispose
<1>4. NoStaleFrame'
  BY <1>1 DEF IInv, NoStaleFrame, Dispose, history, TypeOK
<1>5. NoLostWakeup' /\ DisposedIsQuiet'
  BY DEF NoLostWakeup, DisposedIsQuiet, Dispose
<1> QED BY <1>2, <1>3, <1>4, <1>5 DEF IInv

(* Every step of the queue preserves the inductive invariant.              *)
LEMMA NextPreservesIInv == IInv /\ [Next]_vars => IInv'
<1> SUFFICES ASSUME IInv, [Next]_vars PROVE IInv' OBVIOUS
<1>0. TypeOK /\ NoLostWakeup /\ DisposedIsQuiet BY DEF IInv
<1>1. CASE Reset BY <1>1, ResetPreservesIInv
<1>2. CASE Push BY <1>2, PushPreservesIInv
<1>3. CASE Stop
  <2>1. /\ wait' \in [Waiters -> {"none", "asleep", "woken"}]
        /\ \A w \in Waiters : wait'[w] # "asleep"
    BY <1>0, <1>3 DEF Stop, Broadcast, TypeOK
  <2>2. NoLostWakeup' BY <2>1 DEF NoLostWakeup
  <2>3. DisposedIsQuiet' BY <1>3 DEF Stop, DisposedIsQuiet
  <2>4. running' \in BOOLEAN /\ deadline' \in [Waiters -> BOOLEAN] BY <1>0, <1>3 DEF Stop, TypeOK
  <2>5. UNCHANGED <<ring, dropped_frames, disposed, history>> BY <1>3 DEF Stop
  <2> QED BY <2>1, <2>2, <2>3, <2>4, <2>5, QuietStepPreservesIInv
<1>4. CASE Dispose BY <1>4, DisposePreservesIInv
<1>5. ASSUME NEW w \in Waiters, WaitCall(w) PROVE IInv'
  <2>1. CASE TakeHead(w) BY <2>1, TakeHeadPreservesIInv
  <2>2. CASE FallAsleep(w) /\ \E timed \in BOOLEAN : deadline' = [deadline EXCEPT ![w] = timed]
    <3>1. deadline' \in [Waiters -> BOOLEAN] BY <1>0, <2>2 DEF TypeOK
    <3> QED BY <1>5, <2>2, <3>1, FallAsleepPreservesIInv DEF WaitCall
  <2> QED BY <1>5, <2>1, <2>2 DEF WaitCall
<1>6. ASSUME NEW w \in Waiters, WaitResume(w) PROVE IInv'
  <2>1. CASE TakeHead(w) BY <2>1, TakeHeadPreservesIInv
  <2>2. CASE GiveUp(w) BY <2>2, GiveUpPreservesIInv
  <2>3. CASE FallAsleep(w) /\ UNCHANGED deadline
    <3>1. deadline' \in [Waiters -> BOOLEAN] BY <1>0, <2>3 DEF TypeOK
    <3>2. ~disposed BY <1>0, <1>6 DEF DisposedIsQuiet, WaitResume
    <3> QED BY <2>3, <3>1, <3>2, FallAsleepPreservesIInv
  <2> QED BY <1>6, <2>1, <2>2, <2>3 DEF WaitResume
<1>7. ASSUME NEW w \in Waiters, WaitTimeout(w) PROVE IInv'
  <2>1. CASE TakeHead(w) BY <2>1, TakeHeadPreservesIInv
  <2>2. CASE GiveUp(w) BY <2>2, GiveUpPreservesIInv
  <2> QED BY <1>7, <2>1, <2>2 DEF WaitTimeout
<1>8. ASSUME NEW w \in Waiters, SpuriousWakeup(w) PROVE IInv'
  <2>1. wait' \in [Waiters -> {"none", "asleep", "woken"}]
    BY <1>0, <1>8 DEF SpuriousWakeup, TypeOK
  <2>2. NoLostWakeup' BY <1>0, <1>8 DEF NoLostWakeup, SpuriousWakeup, TypeOK, ring
  <2>3. DisposedIsQuiet' BY <1>0, <1>8 DEF DisposedIsQuiet, SpuriousWakeup, TypeOK
  <2>4. running' \in BOOLEAN /\ deadline' \in [Waiters -> BOOLEAN]
    BY <1>0, <1>8 DEF SpuriousWakeup, TypeOK
  <2>5. UNCHANGED <<ring, dropped_frames, disposed, history>> BY <1>8 DEF SpuriousWakeup
  <2> QED BY <2>1, <2>2, <2>3, <2>4, <2>5, QuietStepPreservesIInv
<1>9. CASE UNCHANGED vars
  BY <1>9 DEF vars, IInv, TypeOK, NewestFramesInOrder, SlotOf, NoStaleFrame, NoLostWakeup,
              EveryFrameAccounted, DisposedIsQuiet
<1> QED BY <1>1, <1>2, <1>3, <1>4, <1>5, <1>6, <1>7, <1>8, <1>9 DEF Next

(* The checked invariants of the ring hold in every behaviour, for every   *)
(* capacity and every set of threads: well-typed state, the newest frames  *)
(* in push order, no stale frame, no lost wakeup, and an exact count of    *)
(* dropped frames.                                                         *)
THEOREM RingInvariance == Spec => []IInv
BY InitEstablishesIInv, NextPreservesIInv, PTL DEF Spec

(* drd_frame_queue.c keeps its fields within their types.                  *)
THEOREM TypeCorrect == Spec => []TypeOK
<1>1. IInv => TypeOK BY DEF IInv
<1> QED BY <1>1, RingInvariance, PTL

(* A thread asleep in drd_frame_queue_wait never misses a frame or a stop. *)
THEOREM WakeupsNotLost == Spec => []NoLostWakeup
<1>1. IInv => NoLostWakeup BY DEF IInv
<1> QED BY <1>1, RingInvariance, PTL

(* A frame pushed before a reset is not handed out after it: a session     *)
(* never starts with a picture of the previous one.                        *)
THEOREM NoFrameOfOldStream == Spec => []NoStaleFrame
<1>1. IInv => NoStaleFrame BY DEF IInv
<1> QED BY <1>1, RingInvariance, PTL

(* The ring holds exactly the newest frames, in push order.                *)
THEOREM RingHoldsNewestFrames == Spec => []NewestFramesInOrder
<1>1. IInv => NewestFramesInOrder BY DEF IInv
<1> QED BY <1>1, RingInvariance, PTL

-----------------------------------------------------------------------------
(* The n frames pushed up to the p-th, oldest first.                       *)
Window(p, n) == [i \in 1..n |-> p - n + i]

(* Pushing and taking move the window of push numbers at its two ends.     *)
LEMMA WindowSteps ==
    ASSUME NEW p \in Nat, NEW n \in Nat, n <= p
    PROVE  /\ Window(p, n) \in Seq(1..p)
           /\ Len(Window(p, n)) = n
           /\ Window(p + 1, n + 1) = Append(Window(p, n), p + 1)
           /\ n > 0 => /\ Window(p, n) # <<>>
                       /\ Window(p, n - 1) = Tail(Window(p, n))
                       /\ Window(p + 1, n) = Append(Tail(Window(p, n)), p + 1)
<1>1. Window(p, n) \in Seq(1..p) /\ Len(Window(p, n)) = n
  <2>1. \A i \in 1..n : p - n + i \in 1..p
    OBVIOUS
  <2> QED BY <2>1 DEF Window
<1>2. Window(p + 1, n + 1) = Append(Window(p, n), p + 1)
  BY <1>1 DEF Window
<1>3. ASSUME n > 0
      PROVE  /\ Window(p, n) # <<>>
             /\ Window(p, n - 1) = Tail(Window(p, n))
             /\ Window(p + 1, n) = Append(Tail(Window(p, n)), p + 1)
  <2>1. Window(p, n) # <<>>
    BY <1>1, <1>3
  <2>2. Window(p, n - 1) = Tail(Window(p, n))
    BY <1>1, <1>3, <2>1 DEF Window
  <2>3. Window(p, n - 1) \in Seq(1..p) /\ Len(Window(p, n - 1)) = n - 1
    <3>1. \A i \in 1..(n - 1) : p - (n - 1) + i \in 1..p
      BY <1>3
    <3> QED BY <3>1, <1>3 DEF Window
  <2>4. Window(p + 1, n) = Append(Window(p, n - 1), p + 1)
    BY <2>3, <1>3 DEF Window
  <2> QED BY <2>1, <2>2, <2>4
<1> QED BY <1>1, <1>2, <1>3

(* Under the invariant the ring's contents are a window of the pushes.     *)
LEMMA ContentsIsWindow ==
    IInv => Contents = Window(pushed, size) /\ pushed \in Nat /\ size \in Nat /\ size <= pushed
<1> SUFFICES ASSUME IInv
             PROVE  Contents = Window(pushed, size) /\ pushed \in Nat /\ size \in Nat /\ size <= pushed
  OBVIOUS
<1>1. /\ pushed \in Nat
      /\ size \in Nat
      /\ size <= pushed
  BY MaxFramesAssumption, MaxPushAssumption DEF IInv, TypeOK, NoStaleFrame
<1>2. ASSUME NEW i \in 1..size
      PROVE  frames[SlotOf(i - 1)] = pushed - size + i
  <2>1. ~disposed /\ i - 1 \in 0..(size - 1)
    BY <1>1 DEF IInv, DisposedIsQuiet
  <2>2. frames[SlotOf(i - 1)] = pushed - size + 1 + (i - 1)
    BY <2>1 DEF IInv, NewestFramesInOrder
  <2> QED BY <2>2, <1>1
<1> QED BY <1>1, <1>2 DEF Contents, Window

(* drd_frame_queue.c implements the bounded drop-oldest FIFO: a push maps  *)
(* to a push, a successful wait to a take, and sleeping, waking and        *)
(* timing out to stuttering.                                               *)
THEOREM RingImplementsFifo == Spec => ImplementsFifo
<1>1. Init => Abstract!SpecInit
  <2> SUFFICES ASSUME Init PROVE Abstract!SpecInit OBVIOUS
  <2>1. IInv BY InitEstablishesIInv
  <2>2. Contents = Window(pushed, 0) BY <2>1, ContentsIsWindow DEF Init
  <2>3. Window(pushed, 0) = <<>> BY DEF Window
  <2> QED BY <2>2, <2>3 DEF Init, Abstract!SpecInit
<1>2. IInv /\ [Next]_vars => [Abstract!SpecNext]_(Abstract!specVars)
  <2> SUFFICES ASSUME IInv, [Next]_vars
               PROVE  Abstract!SpecNext \/ UNCHANGED <<Contents, running, dropped_frames>>
    BY DEF Abstract!specVars
  <2> USE MaxFramesAssumption, MaxPushAssumption
  <2>0. IInv' BY NextPreservesIInv
  <2>1. /\ Contents = Window(pushed, size)
        /\ pushed \in Nat
        /\ size \in Nat
        /\ size <= pushed
        /\ TypeOK
    BY ContentsIsWindow DEF IInv
  <2>2. Contents' = Window(pushed', size')
    <3>1. IInv' => (Contents = Window(pushed, size))'
      BY ContentsIsWindow, PTL
    <3> QED BY <3>1, <2>0
  <2>3. ASSUME NEW w \in Waiters, TakeHead(w) PROVE Abstract!SpecTake
    <3>1. size > 0 /\ size' = size - 1 /\ pushed' = pushed BY <2>3 DEF TakeHead
    <3>2. Contents # <<>> /\ Contents' = Tail(Contents) BY <2>1, <2>2, <3>1, WindowSteps
    <3> QED BY <3>2, <2>3 DEF TakeHead, Abstract!SpecTake
  <2>4. ASSUME UNCHANGED <<ring, history, dropped_frames>>
        PROVE  UNCHANGED <<Contents, dropped_frames>>
    BY <2>4, <2>1, <2>2 DEF ring, history
  <2>5. CASE Reset
    <3>1. Contents' = <<>> BY <2>2, <2>5 DEF Reset, Window
    <3> QED BY <3>1, <2>5 DEF Reset, Abstract!SpecReset, Abstract!SpecNext
  <2>6. CASE Push
    <3>1. pushed' = pushed + 1 /\ pushed + 1 \in 1..MaxPush /\ size <= MaxFrames
      BY <2>1, <2>6 DEF Push, TypeOK
    <3>2. Len(Contents) = size BY <2>1, WindowSteps
    <3>3. CASE size = MaxFrames
      <4>1. size' = size /\ dropped_frames' = dropped_frames + 1
        BY <2>6, <3>3 DEF Push, DroppedAfterPush
      <4>2. Contents' = Append(Tail(Contents), pushed + 1)
        <5>1. size > 0 BY <3>3
        <5>2. Window(pushed + 1, size) = Append(Tail(Window(pushed, size)), pushed + 1)
          BY <5>1, <2>1, WindowSteps
        <5> QED BY <5>2, <2>1, <2>2, <3>1, <4>1
      <4>3. Abstract!SpecPush(pushed + 1)
        BY <4>1, <4>2, <3>2, <3>3, <2>6 DEF Push, Abstract!SpecPush
      <4> QED BY <4>3, <3>1 DEF Abstract!SpecNext
    <3>4. CASE size # MaxFrames
      <4>1. size' = size + 1 /\ dropped_frames' = dropped_frames
        BY <2>6, <3>4 DEF Push, DroppedAfterPush
      <4>2. Contents' = Append(Contents, pushed + 1)
        BY <2>1, <2>2, <3>1, <4>1, WindowSteps
      <4>3. Abstract!SpecPush(pushed + 1)
        BY <4>1, <4>2, <3>2, <3>4, <2>6 DEF Push, Abstract!SpecPush
      <4> QED BY <4>3, <3>1 DEF Abstract!SpecNext
    <3> QED BY <3>3, <3>4
  <2>7. CASE Stop
    BY <2>4, <2>7 DEF Stop, Abstract!SpecStop, Abstract!SpecNext
  <2>8. CASE Dispose
    <3>1. Contents' = <<>> BY <2>2, <2>8 DEF Dispose, Window
    <3> QED BY <3>1, <2>8 DEF Dispose, Abstract!SpecDispose, Abstract!SpecNext
  <2>9. ASSUME NEW w \in Waiters,
               WaitCall(w) \/ WaitResume(w) \/ WaitTimeout(w) \/ SpuriousWakeup(w)
        PROVE  Abstract!SpecNext \/ UNCHANGED <<Contents, running, dropped_frames>>
    <3>1. \/ TakeHead(w)
          \/ UNCHANGED <<ring, history, dropped_frames>> /\ UNCHANGED running
      BY <2>9 DEF WaitCall, WaitResume, WaitTimeout, SpuriousWakeup, GiveUp, FallAsleep
    <3> QED BY <3>1, <2>3, <2>4 DEF Abstract!SpecNext
  <2>10. CASE UNCHANGED vars
    BY <2>10, <2>4 DEF vars, ring, history
  <2> QED BY <2>5, <2>6, <2>7, <2>8, <2>9, <2>10 DEF Next
<1> QED BY <1>1, <1>2, RingInvariance, PTL DEF Spec, ImplementsFifo, Abstract!QueueSpec

=============================================================================
