----------------------------- MODULE FrameQueue -----------------------------
(***************************************************************************)
(* The frame ring of src/utils/drd_frame_queue.c: a GMutex, a GCond and    *)
(* DRD_FRAME_QUEUE_MAX_FRAMES slots shared by the capture thread (push),   *)
(* the render thread (wait) and the thread that starts and stops the       *)
(* stream (reset, stop, dispose).  Every critical section of the mutex is  *)
(* one action; g_cond_wait splits drd_frame_queue_wait in two.             *)
(*                                                                         *)
(* A frame is abstracted to the position it was pushed at (1, 2, ...).     *)
(***************************************************************************)
EXTENDS Naturals, Sequences

CONSTANTS MaxFrames,   \* DRD_FRAME_QUEUE_MAX_FRAMES
          Waiters,     \* threads that call drd_frame_queue_wait
          MaxPush,     \* bound: frames pushed in a behaviour
          NULL

ASSUME MaxFramesAssumption == MaxFrames \in Nat \ {0}
ASSUME MaxPushAssumption == MaxPush \in Nat
ASSUME NullAssumption == NULL \notin Nat

VARIABLES
    frames,          \* slot -> frame or NULL
    head, tail,      \* next slot to read, next slot to write
    size,
    running,
    dropped_frames,
    disposed,        \* the GObject has been disposed of
    wait,            \* waiter -> "none", "asleep" in the GCond, or "woken"
    deadline,        \* waiter -> TRUE when it waits with timeout_us > 0
    pushed,          \* history: frames accepted so far
    resetAt,         \* history: value of pushed at the last reset
    taken,           \* history: the last frame handed to a waiter, 0 if none
    delivered        \* history: frames handed out since the last reset

ring == <<frames, head, tail, size>>
history == <<pushed, resetAt, taken, delivered>>
vars == <<frames, head, tail, size, running, dropped_frames, disposed, wait,
          deadline, pushed, resetAt, taken, delivered>>

Slots == 0..(MaxFrames - 1)

Succ(i) == (i + 1) % MaxFrames

\* Mutant: g_cond_signal in place of g_cond_broadcast.
SignalOne ==
    IF \E w \in Waiters : wait[w] = "asleep"
    THEN \E w \in Waiters : wait[w] = "asleep" /\ wait' = [wait EXCEPT ![w] = "woken"]
    ELSE UNCHANGED wait

(* g_cond_broadcast: every sleeper will reacquire the mutex.               *)
Broadcast == wait' = [w \in Waiters |-> IF wait[w] = "asleep" THEN "woken" ELSE wait[w]]

Init ==
    /\ frames = [i \in Slots |-> NULL]
    /\ head = 0
    /\ tail = 0
    /\ size = 0
    /\ running = TRUE
    /\ dropped_frames = 0
    /\ disposed = FALSE
    /\ wait = [w \in Waiters |-> "none"]
    /\ deadline = [w \in Waiters |-> FALSE]
    /\ pushed = 0
    /\ resetAt = 0
    /\ taken = 0
    /\ delivered = 0

\* Mutant: reset reopens the queue and keeps the frames of the old stream.
ResetKeepsFrames ==
    /\ ~disposed
    /\ running' = TRUE
    /\ dropped_frames' = 0
    /\ Broadcast
    /\ resetAt' = pushed
    /\ delivered' = 0
    /\ UNCHANGED <<ring, disposed, deadline, pushed, taken>>

(* drd_frame_queue_reset *)
Reset ==
    /\ ~disposed
    /\ running' = TRUE
    /\ frames' = [i \in Slots |-> NULL]
    /\ head' = 0
    /\ tail' = 0
    /\ size' = 0
    /\ dropped_frames' = 0
    /\ Broadcast
    /\ resetAt' = pushed
    /\ delivered' = 0
    /\ UNCHANGED <<disposed, deadline, pushed, taken>>

\* Mutant: the oldest slot is cleared but head stays on it.
HeadNotAdvanced == head

HeadAfterPush == IF size = MaxFrames THEN Succ(head) ELSE head

DroppedAfterPush == IF size = MaxFrames THEN dropped_frames + 1 ELSE dropped_frames

(* drd_frame_queue_push: a full ring gives up its oldest frame; a push on  *)
(* a stopped queue returns at once.                                        *)
Push ==
    /\ ~disposed
    /\ running
    /\ pushed < MaxPush
    /\ head' = HeadAfterPush
    /\ dropped_frames' = DroppedAfterPush
    /\ frames' = IF size = MaxFrames
                 THEN [frames EXCEPT ![head] = NULL, ![tail] = pushed + 1]
                 ELSE [frames EXCEPT ![tail] = pushed + 1]
    /\ tail' = Succ(tail)
    /\ size' = IF size = MaxFrames THEN size ELSE size + 1
    /\ Broadcast
    /\ pushed' = pushed + 1
    /\ UNCHANGED <<running, disposed, deadline, resetAt, taken, delivered>>

(* The tail of drd_frame_queue_wait: the frame at the head is moved to the *)
(* caller.                                                                 *)
TakeHead(w) ==
    /\ running
    /\ size > 0
    /\ taken' = frames[head]
    /\ delivered' = delivered + 1
    /\ frames' = [frames EXCEPT ![head] = NULL]
    /\ head' = Succ(head)
    /\ size' = size - 1
    /\ wait' = [wait EXCEPT ![w] = "none"]
    /\ UNCHANGED <<tail, running, dropped_frames, disposed, deadline, pushed, resetAt>>

(* It returns FALSE instead.                                               *)
GiveUp(w) ==
    /\ wait' = [wait EXCEPT ![w] = "none"]
    /\ UNCHANGED <<ring, running, dropped_frames, disposed, deadline, history>>

FallAsleep(w) ==
    /\ running
    /\ size = 0
    /\ wait' = [wait EXCEPT ![w] = "asleep"]
    /\ UNCHANGED <<ring, running, dropped_frames, disposed, history>>

(* drd_frame_queue_wait up to its first g_cond_wait: a call with           *)
(* timeout_us = 0, or on a stopped queue, returns FALSE and changes        *)
(* nothing; otherwise the caller takes the head or goes to sleep.          *)
WaitCall(w) ==
    /\ ~disposed
    /\ wait[w] = "none"
    /\ \/ TakeHead(w)
       \/ /\ FallAsleep(w)
          /\ \E timed \in BOOLEAN : deadline' = [deadline EXCEPT ![w] = timed]

(* A sleeper comes back from the GCond holding the mutex, tests            *)
(* `running && size == 0` again and takes, gives up or sleeps on.          *)
WaitResume(w) ==
    /\ wait[w] = "woken"
    /\ \/ TakeHead(w)
       \/ ~running /\ GiveUp(w)
       \/ FallAsleep(w) /\ UNCHANGED deadline

(* g_cond_wait_until reaches the deadline: the loop is left, and a frame   *)
(* that is there by now is still taken.                                    *)
WaitTimeout(w) ==
    /\ wait[w] # "none"
    /\ deadline[w]
    /\ \/ TakeHead(w)
       \/ ~(running /\ size > 0) /\ GiveUp(w)

(* GCond may return without a signal.                                      *)
SpuriousWakeup(w) ==
    /\ wait[w] = "asleep"
    /\ wait' = [wait EXCEPT ![w] = "woken"]
    /\ UNCHANGED <<ring, running, dropped_frames, disposed, deadline, history>>

(* drd_frame_queue_stop *)
Stop ==
    /\ ~disposed
    /\ running' = FALSE
    /\ Broadcast
    /\ UNCHANGED <<ring, dropped_frames, disposed, deadline, history>>

(* drd_frame_queue_dispose runs when the last reference is dropped, so no  *)
(* thread is inside the queue; head and tail are left as they are.         *)
Dispose ==
    /\ ~disposed
    /\ \A w \in Waiters : wait[w] = "none"
    /\ disposed' = TRUE
    /\ frames' = [i \in Slots |-> NULL]
    /\ size' = 0
    /\ UNCHANGED <<head, tail, running, dropped_frames, wait, deadline, history>>

Next ==
    \/ Reset
    \/ Push
    \/ Stop
    \/ Dispose
    \/ \E w \in Waiters :
          WaitCall(w) \/ WaitResume(w) \/ WaitTimeout(w) \/ SpuriousWakeup(w)

(* A woken thread and an expired timer are scheduled eventually; nothing   *)
(* is assumed of the producer, of the callers or of spurious wakeups.      *)
Fairness == \A w \in Waiters : WF_vars(WaitResume(w)) /\ WF_vars(WaitTimeout(w))

Spec == Init /\ [][Next]_vars

FairSpec == Spec /\ Fairness
-----------------------------------------------------------------------------
TypeOK ==
    /\ frames \in [Slots -> (1..MaxPush) \cup {NULL}]
    /\ head \in Slots
    /\ tail \in Slots
    /\ size \in 0..MaxFrames
    /\ running \in BOOLEAN
    /\ dropped_frames \in Nat
    /\ disposed \in BOOLEAN
    /\ wait \in [Waiters -> {"none", "asleep", "woken"}]
    /\ deadline \in [Waiters -> BOOLEAN]
    /\ pushed \in 0..MaxPush
    /\ resetAt \in 0..MaxPush
    /\ taken \in 0..MaxPush
    /\ delivered \in Nat

(* The slot that holds the i-th oldest frame, i counted from 0.            *)
SlotOf(i) == (head + i) % MaxFrames

(* The contents of the ring, oldest frame first.                           *)
Contents == [i \in 1..size |-> frames[SlotOf(i - 1)]]

(* The occupied slots from head to tail hold exactly the most recently     *)
(* pushed frames in push order: overwriting the oldest frame of a full     *)
(* ring (push) and taking the head (wait) never lose or repeat any other.  *)
NewestFramesInOrder ==
    ~disposed => /\ tail = SlotOf(size)
                 /\ \A i \in 0..(size - 1) : frames[SlotOf(i)] = pushed - size + 1 + i

(* Frames come out in the order they were pushed: everything in the ring   *)
(* is newer than the last frame handed to the render thread, and newer     *)
(* than the last reset, so a restarted stream never shows a frame of the   *)
(* stream before it.                                                       *)
NoStaleFrame == taken + size <= pushed /\ resetAt + size <= pushed

(* No wakeup is lost: a thread sleeping in the GCond has nothing to wake   *)
(* up for, whatever push, stop and reset did while it went to sleep.       *)
NoLostWakeup ==
    \A w \in Waiters : wait[w] = "asleep" => ~disposed /\ running /\ size = 0

(* dropped_frames is exact: every frame accepted since the last reset is   *)
(* in the ring, was handed to a waiter, or is counted as dropped.          *)
EveryFrameAccounted ==
    ~disposed => pushed = resetAt + dropped_frames + delivered + size

(* A thread blocked in drd_frame_queue_wait comes back after a stop unless *)
(* the queue is reset first: stop wakes every sleeper.                     *)
StopReleasesWaiters ==
    \A w \in Waiters : (wait[w] # "none" /\ ~running) ~> (wait[w] = "none" \/ running)

(* The ring implements the bounded FIFO.                                   *)
Abstract == INSTANCE FrameQueueSpec
    WITH Capacity <- MaxFrames, Frame <- 1..MaxPush,
         queue <- Contents, open <- running, lost <- dropped_frames

ImplementsFifo == Abstract!QueueSpec
=============================================================================
