--------------------------- MODULE FrameQueueSpec ---------------------------
(***************************************************************************)
(* What DrdFrameQueue promises to the capture and the render thread: a     *)
(* FIFO of at most Capacity frames, open or stopped, from which a frame    *)
(* leaves only by being taken from the front, by being the oldest frame of *)
(* a full queue when a new one is pushed, or by a reset.                   *)
(* drd_frame_queue.c implements it with a ring of slots (FrameQueue).      *)
(***************************************************************************)
EXTENDS Naturals, Sequences

CONSTANTS Capacity,  \* frames the queue can hold
          Frame      \* the frames that can be pushed

VARIABLES queue,     \* the frames held, oldest first
          open,      \* pushes and takes are accepted
          lost       \* frames overwritten since the last reset

specVars == <<queue, open, lost>>

SpecInit == queue = <<>> /\ open = TRUE /\ lost = 0

SpecPush(f) ==
    /\ open
    /\ IF Len(queue) = Capacity
       THEN queue' = Append(Tail(queue), f) /\ lost' = lost + 1
       ELSE queue' = Append(queue, f) /\ lost' = lost
    /\ UNCHANGED open

SpecTake ==
    /\ open
    /\ queue # <<>>
    /\ queue' = Tail(queue)
    /\ UNCHANGED <<open, lost>>

SpecStop == open' = FALSE /\ UNCHANGED <<queue, lost>>

SpecReset == queue' = <<>> /\ open' = TRUE /\ lost' = 0

SpecDispose == queue' = <<>> /\ UNCHANGED <<open, lost>>

SpecNext == (\E f \in Frame : SpecPush(f)) \/ SpecTake \/ SpecStop \/ SpecReset \/ SpecDispose

QueueSpec == SpecInit /\ [][SpecNext]_specVars
=============================================================================
