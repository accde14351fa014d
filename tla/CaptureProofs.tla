--------------------------- MODULE CaptureProofs ---------------------------
(***************************************************************************)
(* Capture's safety invariants hold for any number of starts and of screen *)
(* changes.  The inductive invariant adds to them who owns the resources   *)
(* in each phase (Ownership) and where an announced change of the screen   *)
(* is kept (Announced): in the event, in the thread's flag, or in the      *)
(* subtraction that still waits in the output buffer.                      *)
(***************************************************************************)
EXTENDS Capture, TLAPS

Ownership ==
    /\ manager_running => held = Parts /\ queue_running
    /\ ~manager_running => control = "idle" /\ held = {}
    /\ manager_running <=> thread # "none"
    /\ control # "join" => pipe = 0

Announced ==
    /\ region /\ Alive => event \/ subtract
    /\ subtract => thread = "pending" /\ damage
    /\ damage => thread \in {"pending", "check", "grab"}
    /\ NoSilentLoss

IInv == TypeOK /\ Ownership /\ Announced
-----------------------------------------------------------------------------
(* A complete start acquires every part (drd_x11_capture_start).           *)
LEMMA AcquiredAll == Acquired(7) = Parts
  BY DEF Acquired, Steps, Parts

(* What a failed start releases is everything it acquired: the parts that  *)
(* need the display are acquired after it.                                 *)
LEMMA FailedStartReleasesAll ==
    ASSUME NEW k \in 0..6, k # 0
    PROVE  ClosePipe(CleanupLocked({} \cup Acquired(k))) = {}
  <1>1. Acquired(k) \subseteq Parts
    BY DEF Acquired, Steps, Parts
  <1>2. CASE k = 1
    <2>1. Acquired(k) = {"pipe"}
      BY <1>2 DEF Acquired, Steps
    <2> QED
      BY <2>1 DEF ClosePipe, CleanupLocked
  <1>3. CASE k >= 2
    <2>1. 2 \in 1..k
      BY <1>3
    <2>2. Steps[2] \in Acquired(k)
      BY <2>1 DEF Acquired
    <2>3. "display" \in Acquired(k)
      BY <2>2 DEF Steps
    <2> QED
      BY <1>1, <2>3 DEF ClosePipe, CleanupLocked, Parts
  <1> QED
    BY <1>2, <1>3

(* After a stop everything is released.                                    *)
LEMMA StopReleasesAll == ClosePipe(CleanupLocked(Parts)) = {}
  BY DEF ClosePipe, CleanupLocked, Parts
-----------------------------------------------------------------------------
LEMMA InitIInv == Init => IInv
  <1> SUFFICES ASSUME Init
               PROVE  IInv
    OBVIOUS
  <1>1. TypeOK
    BY DEF Init, TypeOK, ThreadStates
  <1>2. Ownership
    BY DEF Init, Ownership
  <1>3. Announced
    BY DEF Init, Announced, NoSilentLoss, Alive
  <1> QED
    BY <1>1, <1>2, <1>3 DEF IInv

(* A start, whether it succeeds or fails, establishes ownership.           *)
LEMMA StartIInv == IInv /\ (Start \/ StartFailsAnywhere) => IInv'
  <1> SUFFICES ASSUME IInv, Start \/ StartFailsAnywhere
               PROVE  IInv'
    OBVIOUS
  <1> USE DEF IInv
  <1>1. CASE Start
    <2>1. held' = Parts
      BY <1>1, AcquiredAll DEF Start
    <2>2. TypeOK'
      <3>1. starts' \in Nat
        BY <1>1 DEF Start, TypeOK
      <3>2. captured' \in Nat \cup {NoFrame}
        BY <1>1 DEF Start
      <3>3. UNCHANGED <<control, pipe, screen>>
        BY <1>1 DEF Start
      <3> QED
        BY <1>1, <2>1, <3>1, <3>2, <3>3, Zenon DEF Start, TypeOK, ThreadStates
    <2>3. Ownership'
      BY <1>1, <2>1 DEF Start, Ownership
    <2>4. Announced'
      BY <1>1 DEF Start, Announced, NoSilentLoss
    <2> QED
      BY <2>2, <2>3, <2>4
  <1>2. CASE StartFailsAnywhere
    <2>1. PICK k \in 0..6 : StartFails(k)
      BY <1>2 DEF StartFailsAnywhere
    <2>2. held = {} /\ ~manager_running
      BY <2>1 DEF StartFails, Ownership
    <2>3. held' = {}
      BY <2>1, <2>2, FailedStartReleasesAll DEF StartFails
    <2>4. TypeOK'
      <3>1. starts' \in Nat
        BY <2>1 DEF StartFails, TypeOK
      <3> QED
        BY <2>1, <2>3, <3>1, Zenon DEF StartFails, TypeOK, x_server
    <2>5. Ownership'
      BY <2>1, <2>2, <2>3 DEF StartFails, Ownership
    <2>6. Announced'
      BY <2>1 DEF StartFails, Announced, NoSilentLoss, Alive, x_server
    <2> QED
      BY <2>4, <2>5, <2>6
  <1> QED
    BY <1>1, <1>2

(* The three steps of a stop.                                              *)
LEMMA StopIInv == IInv /\ (StopClear \/ StopWake \/ StopJoin) => IInv'
  <1> SUFFICES ASSUME IInv, StopClear \/ StopWake \/ StopJoin
               PROVE  IInv'
    OBVIOUS
  <1> USE DEF IInv
  <1>1. CASE StopClear
    BY <1>1 DEF StopClear, TypeOK, Ownership, Announced, NoSilentLoss, Alive, manager, x_server
  <1>2. CASE StopWake
    <2>1. pipe' = 1
      BY <1>2 DEF StopWake, Ownership, TypeOK
    <2>2. TypeOK'
      BY <1>2, <2>1 DEF StopWake, TypeOK, manager
    <2>3. Ownership'
      BY <1>2 DEF StopWake, Ownership, manager
    <2>4. Announced'
      BY <1>2 DEF StopWake, Announced, NoSilentLoss, Alive
    <2> QED
      BY <2>2, <2>3, <2>4
  <1>3. CASE StopJoin
    <2>1. held' = {}
      BY <1>3, StopReleasesAll DEF StopJoin, Join, Ownership
    <2>2. TypeOK'
      BY <1>3, <2>1 DEF StopJoin, Join, BytesAfterClose, TypeOK, ThreadStates
    <2>3. Ownership'
      BY <1>3, <2>1 DEF StopJoin, Join, BytesAfterClose, Ownership
    <2>4. Announced'
      BY <1>3 DEF StopJoin, Join, Announced, NoSilentLoss, Alive
    <2> QED
      BY <2>2, <2>3, <2>4
  <1> QED
    BY <1>1, <1>2, <1>3

(* The steps of the capture thread.                                        *)
LEMMA ThreadIInv == IInv /\ (ThreadStep \/ PollFails) => IInv'
  <1> SUFFICES ASSUME IInv, ThreadStep \/ PollFails
               PROVE  IInv'
    OBVIOUS
  <1> USE DEF IInv, Ownership, Announced, NoSilentLoss, Alive, ThreadStates, TypeOK, manager,
          x_server
  <1>1. CASE Top
    BY <1>1 DEF Top
  <1>2. CASE PollReturns
    BY <1>2 DEF PollReturns
  <1>3. CASE PollFails
    BY <1>3 DEF PollFails
  <1>4. CASE DrainRead
    BY <1>4 DEF DrainRead
  <1>5. CASE Pending
    <2>1. CASE event
      BY <1>5, <2>1 DEF Pending
    <2>2. CASE ~event
      <3>1. ~region'
        BY <1>5, <2>2 DEF Pending
      <3>2. UNCHANGED <<event, damage>> /\ ~subtract'
        BY <1>5, <2>2 DEF Pending
      <3>3. thread' = IF damage THEN "check" ELSE "top"
        BY <1>5, <2>2 DEF Pending
      <3> QED
        BY <1>5, <3>1, <3>2, <3>3 DEF Pending
    <2> QED
      BY <2>1, <2>2
  <1>6. CASE CheckDue
    BY <1>6 DEF CheckDue
  <1>7. CASE CheckEarly
    BY <1>7 DEF CheckEarly
  <1>8. CASE Grab
    BY <1>8 DEF Grab
  <1>9. CASE GrabFails
    BY <1>9 DEF GrabFails
  <1> QED
    BY <1>1, <1>2, <1>3, <1>4, <1>5, <1>6, <1>7, <1>8, <1>9 DEF ThreadStep

(* Drawing and time.                                                       *)
LEMMA OutsideIInv == IInv /\ (ScreenChanges \/ DeadlinePasses) => IInv'
  <1> SUFFICES ASSUME IInv, ScreenChanges \/ DeadlinePasses
               PROVE  IInv'
    OBVIOUS
  <1> USE DEF IInv
  <1>1. CASE ScreenChanges
    <2>1. TypeOK'
      BY <1>1 DEF ScreenChanges, TypeOK, manager
    <2>2. Ownership'
      BY <1>1 DEF ScreenChanges, Ownership, manager
    <2>3. Alive => "damage" \in held
      BY DEF Ownership, Alive, Parts
    <2>4. Announced'
      BY <1>1, <2>3 DEF ScreenChanges, Announced, NoSilentLoss, Alive
    <2> QED
      BY <2>1, <2>2, <2>4
  <1>2. CASE DeadlinePasses
    BY <1>2 DEF DeadlinePasses, TypeOK, Ownership, Announced, NoSilentLoss, Alive, manager,
       x_server
  <1> QED
    BY <1>1, <1>2
-----------------------------------------------------------------------------
(* The inductive invariant of the capture holds throughout.                *)
THEOREM CaptureInvariance == Spec => []IInv
  <1>1. IInv /\ UNCHANGED vars => IInv'
    BY DEF vars, IInv, TypeOK, Ownership, Announced, NoSilentLoss, Alive
  <1>2. IInv /\ [Next]_vars => IInv'
    BY <1>1, StartIInv, StopIInv, ThreadIInv, OutsideIInv DEF Next
  <1> QED
    BY InitIInv, <1>2, PTL DEF Spec

(* The variables of drd_capture_manager.c and drd_x11_capture.c keep their *)
(* types; in particular the wake-up pipe never holds more than one byte.   *)
THEOREM TypeCorrect == Spec => []TypeOK
  <1>1. IInv => TypeOK
    BY DEF IInv
  <1> QED
    BY CaptureInvariance, <1>1, PTL

(* The capture thread never outlives what it uses: drd_x11_capture_stop    *)
(* joins it before it releases anything.                                   *)
THEOREM ThreadKeepsItsParts == Spec => []ThreadOwnsParts
  <1>1. IInv => ThreadOwnsParts
    BY DEF IInv, Ownership, ThreadOwnsParts, Alive
  <1> QED
    BY CaptureInvariance, <1>1, PTL

(* Neither a stop nor a start that fails half-way leaves a resource, a     *)
(* thread or a byte in the pipe behind.                                    *)
THEOREM RestIsClean == Spec => []NothingHeldAtRest
  <1>1. IInv => NothingHeldAtRest
    BY DEF IInv, Ownership, NothingHeldAtRest
  <1> QED
    BY CaptureInvariance, <1>1, PTL

(* No interleaving of drawing, damage events, subtraction and capture      *)
(* loses a change that the thread has not thrown away itself.              *)
THEOREM ChangesAnnounced == Spec => []NoSilentLoss
  <1>1. IInv => NoSilentLoss
    BY DEF IInv, Announced
  <1> QED
    BY CaptureInvariance, <1>1, PTL
=============================================================================
