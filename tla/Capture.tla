------------------------------ MODULE Capture ------------------------------
(***************************************************************************)
(* The capture manager and its X11 capture (src/capture): start and stop   *)
(* on a control thread, the capture thread, its wake-up pipe, and the      *)
(* XDamage protocol that tells it that the screen has changed.             *)
(*                                                                         *)
(* The screen is the number of its changes so far; `captured' is the       *)
(* newest screen handed to the frame queue since the start (the queue      *)
(* itself is FrameQueue).  Time is abstracted to `due': whether            *)
(* next_capture_deadline has passed.  The X server is external: a change   *)
(* of a clean screen makes the damage region non-empty and sends one       *)
(* event; XDamageSubtract waits in Xlib's output buffer until the next     *)
(* call that flushes it, and empties the region.                           *)
(***************************************************************************)
EXTENDS Integers, Sequences

CONSTANTS MaxChanges,  \* bound: changes of the screen
          MaxStarts    \* bound: starts of the capture

ASSUME MaxChangesAssumption == MaxChanges \in Nat
ASSUME MaxStartsAssumption == MaxStarts \in Nat

VARIABLES
    manager_running,  \* DrdCaptureManager's flag
    running,          \* DrdX11Capture's flag
    held,             \* the pipe and the X resources the capture owns
    control,          \* where the control thread is in stop
    pipe,             \* bytes in the wake-up pipe
    thread,           \* where the capture thread is
    damage,           \* the thread's local flag
    due,              \* next_capture_deadline has passed
    queue_running,    \* the frame queue accepts and hands out frames
    captured,         \* the screen in the newest frame pushed
    screen, region, event, subtract,  \* external: the X server and Xlib's buffer
    discarded,        \* history: damage was dropped after the newest frame
    starts

x_server == <<screen, region, event, subtract>>
manager == <<manager_running, queue_running, starts>>
vars == <<manager_running, running, held, control, pipe, thread, damage, due, queue_running,
          captured, screen, region, event, subtract, discarded, starts>>

NoFrame == -1

(* drain: in read() of the wake-up pipe; pending: in the XPending loop;    *)
(* check: damage was seen; grab: the deadline has passed, XShmGetImage is  *)
(* next.                                                                   *)
ThreadStates == {"none", "top", "poll", "drain", "pending", "check", "grab", "ended"}
Alive == thread \notin {"none", "ended"}

Init ==
    /\ manager_running = FALSE
    /\ running = FALSE
    /\ held = {}
    /\ control = "idle"
    /\ pipe = 0
    /\ thread = "none"
    /\ damage = FALSE
    /\ due = TRUE
    /\ queue_running = FALSE
    /\ captured = NoFrame
    /\ screen = 0
    /\ region = FALSE
    /\ event = FALSE
    /\ subtract = FALSE
    /\ discarded = FALSE
    /\ starts = 0
-----------------------------------------------------------------------------
(* What start acquires, in this order: setup_wakeup_pipe, then the steps   *)
(* of prepare_display.                                                     *)
Steps == <<"pipe", "display", "image", "shmid", "shmaddr", "attached", "damage">>
Parts == {"pipe", "display", "image", "shmid", "shmaddr", "attached", "damage"}
Acquired(k) == {Steps[i] : i \in 1..k}

\* Mutant: the display is closed first.
CleanupDisplayFirst(S) == S \ {"image", "shmaddr", "shmid", "display"}

(* drd_x11_capture_cleanup_locked: the damage handle and the attachment    *)
(* are given back to the server only while the display is open.            *)
CleanupLocked(S) ==
    S \ ({"image", "shmaddr", "shmid", "display"}
         \cup IF "display" \in S THEN {"damage", "attached"} ELSE {})

ClosePipe(S) == S \ {"pipe"}

(* drd_capture_manager_start, success: the queue is reset, everything is   *)
(* acquired and the thread created.  XDamageCreate reports the whole       *)
(* window as damaged.                                                      *)
Start ==
    /\ control = "idle"
    /\ ~manager_running
    /\ starts < MaxStarts
    /\ starts' = starts + 1
    /\ queue_running' = TRUE
    /\ captured' = NoFrame
    /\ discarded' = FALSE
    /\ held' = Acquired(7)
    /\ region' = TRUE
    /\ event' = TRUE
    /\ subtract' = FALSE
    /\ running' = TRUE
    /\ thread' = "top"
    /\ damage' = FALSE
    /\ due' = TRUE
    /\ manager_running' = TRUE
    /\ UNCHANGED <<control, pipe, screen>>

(* A start that fails after k acquisitions: what was acquired is released  *)
(* and the queue, reset a moment ago, is stopped.                          *)
StartFails(k) ==
    /\ control = "idle"
    /\ ~manager_running
    /\ starts < MaxStarts
    /\ starts' = starts + 1
    /\ held' = IF k = 0 THEN held ELSE ClosePipe(CleanupLocked(held \cup Acquired(k)))
    /\ queue_running' = FALSE
    /\ UNCHANGED <<manager_running, running, control, pipe, thread, damage, due, captured,
                   x_server, discarded>>
-----------------------------------------------------------------------------
(* drd_capture_manager_stop down to the lock dropped by                    *)
(* drd_x11_capture_stop: only the flag is cleared.                         *)
StopClear ==
    /\ control = "idle"
    /\ manager_running
    /\ running' = FALSE
    /\ control' = "wake"
    /\ UNCHANGED <<manager, held, pipe, thread, damage, due, captured, x_server, discarded>>

(* XSync, which flushes the output buffer the two threads share, and the   *)
(* byte for the wake-up pipe.                                              *)
StopWake ==
    /\ control = "wake"
    /\ region' = (region /\ ~subtract)
    /\ subtract' = FALSE
    /\ pipe' = pipe + 1
    /\ control' = "join"
    /\ UNCHANGED <<manager, running, held, thread, damage, due, captured, screen, event,
                   discarded>>

\* Mutant: the thread is not joined.
NoJoin == UNCHANGED thread

(* g_thread_join returns when the thread has ended.                        *)
Join == thread = "ended" /\ thread' = "none"

(* drd_x11_capture_close_wakeup_pipe: unread bytes go with the pipe.       *)
BytesAfterClose == 0

(* The rest of stop: join, clean up, close the pipe, stop the queue.       *)
StopJoin ==
    /\ control = "join"
    /\ Join
    /\ held' = ClosePipe(CleanupLocked(held))
    /\ pipe' = BytesAfterClose
    /\ region' = FALSE
    /\ event' = FALSE
    /\ subtract' = FALSE
    /\ queue_running' = FALSE
    /\ manager_running' = FALSE
    /\ control' = "idle"
    /\ UNCHANGED <<running, damage, due, captured, screen, discarded, starts>>
-----------------------------------------------------------------------------
(* The head of the thread's loop: the state is read under the lock.        *)
Top ==
    /\ thread = "top"
    /\ thread' = IF running /\ {"display", "image"} \subseteq held THEN "poll" ELSE "ended"
    /\ UNCHANGED <<manager, running, held, control, pipe, damage, due, captured, x_server,
                   discarded>>

(* g_poll returns: a readable wake-up pipe is drained; otherwise the X     *)
(* connection is readable or the interval is over.                         *)
PollReturns ==
    /\ thread = "poll"
    /\ thread' = IF pipe > 0 THEN "drain" ELSE "pending"
    /\ UNCHANGED <<manager, running, held, control, pipe, damage, due, captured, x_server,
                   discarded>>

(* g_poll fails, by a signal for instance.                                 *)
PollFails ==
    /\ thread = "poll"
    /\ thread' = "top"
    /\ UNCHANGED <<manager, running, held, control, pipe, damage, due, captured, x_server,
                   discarded>>

(* One read() of drd_x11_capture_drain_wakeup_pipe.  The pipe is blocking: *)
(* the loop goes on while read() returns bytes, and a read() of the empty  *)
(* pipe, whose write end is open, waits.                                   *)
DrainRead ==
    /\ thread = "drain"
    /\ pipe > 0
    /\ pipe' = 0
    /\ UNCHANGED <<manager, running, held, control, thread, damage, due, captured, x_server,
                   discarded>>

\* Mutant: the damage is subtracted after the capture, in the next iteration.
PendingSubtractLate ==
    /\ thread = "pending"
    /\ \/ /\ event
          /\ event' = FALSE
          /\ subtract' = TRUE
          /\ damage' = TRUE
          /\ UNCHANGED <<thread, region>>
       \/ /\ ~event
          /\ thread' = IF damage THEN "check" ELSE "top"
          /\ region' = (region /\ (subtract => damage))
          /\ subtract' = (subtract /\ damage)
          /\ UNCHANGED <<event, damage>>
    /\ UNCHANGED <<manager, running, held, control, pipe, due, captured, screen, discarded>>

(* XPending, which flushes the output buffer, and XNextEvent with          *)
(* XDamageSubtract when there is an event.  When there is none the loop is *)
(* over; without damage the iteration is, too.                             *)
Pending ==
    /\ thread = "pending"
    /\ region' = (region /\ ~subtract)
    /\ \/ /\ event
          /\ event' = FALSE
          /\ subtract' = TRUE
          /\ damage' = TRUE
          /\ UNCHANGED thread
       \/ /\ ~event
          /\ thread' = IF damage THEN "check" ELSE "top"
          /\ subtract' = FALSE
          /\ UNCHANGED <<event, damage>>
    /\ UNCHANGED <<manager, running, held, control, pipe, due, captured, screen, discarded>>

(* The deadline has passed: the screen is captured.                        *)
CheckDue ==
    /\ thread = "check"
    /\ due
    /\ thread' = "grab"
    /\ UNCHANGED <<manager, running, held, control, pipe, damage, due, captured, x_server,
                   discarded>>

(* The deadline has not passed: the damage, already subtracted, is dropped.*)
CheckEarly ==
    /\ thread = "check"
    /\ ~due
    /\ thread' = "top"
    /\ damage' = FALSE
    /\ discarded' = TRUE
    /\ UNCHANGED <<manager, running, held, control, pipe, due, captured, x_server>>

(* XShmGetImage succeeds; the frame is pushed and the deadline moved on.   *)
Grab ==
    /\ thread = "grab"
    /\ captured' = screen
    /\ discarded' = FALSE
    /\ damage' = FALSE
    /\ due' = FALSE
    /\ thread' = "top"
    /\ UNCHANGED <<manager, running, held, control, pipe, x_server>>

(* XShmGetImage fails: the deadline moves on and the damage is dropped.    *)
GrabFails ==
    /\ thread = "grab"
    /\ discarded' = TRUE
    /\ damage' = FALSE
    /\ due' = FALSE
    /\ thread' = "top"
    /\ UNCHANGED <<manager, running, held, control, pipe, captured, x_server>>
-----------------------------------------------------------------------------
(* external: something is drawn.                                           *)
ScreenChanges ==
    /\ screen < MaxChanges
    /\ screen' = screen + 1
    /\ region' = (region \/ "damage" \in held)
    /\ event' = (event \/ ("damage" \in held /\ ~region))
    /\ UNCHANGED <<manager, running, held, control, pipe, thread, damage, due, captured,
                   subtract, discarded>>

(* next_capture_deadline passes.                                           *)
DeadlinePasses ==
    /\ ~due
    /\ due' = TRUE
    /\ UNCHANGED <<manager, running, held, control, pipe, thread, damage, captured, x_server,
                   discarded>>

StartFailsAnywhere == \E k \in 0..6 : StartFails(k)

ThreadStep ==
    Top \/ PollReturns \/ DrainRead \/ Pending \/ CheckDue \/ CheckEarly \/ Grab \/ GrabFails

Next ==
    \/ Start \/ StartFailsAnywhere
    \/ StopClear \/ StopWake \/ StopJoin
    \/ ThreadStep \/ PollFails
    \/ ScreenChanges \/ DeadlinePasses

Spec == Init /\ [][Next]_vars

(* Both threads run, time passes, and g_poll is not interrupted for ever.  *)
Fairness ==
    /\ WF_vars(StopWake)
    /\ WF_vars(StopJoin)
    /\ WF_vars(ThreadStep)
    /\ SF_vars(PollReturns)
    /\ WF_vars(DeadlinePasses)

FairSpec == Spec /\ Fairness
-----------------------------------------------------------------------------
TypeOK ==
    /\ manager_running \in BOOLEAN
    /\ running \in BOOLEAN
    /\ held \in SUBSET Parts
    /\ control \in {"idle", "wake", "join"}
    /\ pipe \in {0, 1}
    /\ thread \in ThreadStates
    /\ damage \in BOOLEAN
    /\ due \in BOOLEAN
    /\ queue_running \in BOOLEAN
    /\ captured \in Nat \cup {NoFrame}
    /\ screen \in Nat
    /\ region \in BOOLEAN
    /\ event \in BOOLEAN
    /\ subtract \in BOOLEAN
    /\ discarded \in BOOLEAN
    /\ starts \in Nat

(* While the capture thread is alive everything it uses is: the display,   *)
(* the shared image, the pipe it polls and the queue it pushes to.         *)
ThreadOwnsParts == Alive => held = Parts /\ queue_running

(* When the manager rests, after a stop as after a start that failed       *)
(* half-way, nothing of the capture is left.                               *)
NothingHeldAtRest ==
    control = "idle" /\ ~manager_running => held = {} /\ thread = "none" /\ pipe = 0

(* A change of the screen that is not in the newest frame is still         *)
(* announced to the thread, unless the thread has thrown its announcement  *)
(* away, before the deadline or after a failed XShmGetImage.  No order of  *)
(* drawing, events, subtraction and capture loses one otherwise.           *)
NoSilentLoss == Alive /\ captured # screen => event \/ damage \/ discarded

(* A screen that changes no more is captured in the end, with the same     *)
(* exception.                                                              *)
QuietScreenCaptured == <>[]running => []<>(captured = screen \/ discarded)

(* doc/architecture.md:98: the byte in the wake-up pipe keeps stop from    *)
(* hanging.                                                                *)
StopReturns == (control = "join") ~> (control = "idle")
=============================================================================
