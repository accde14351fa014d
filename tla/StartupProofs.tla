--------------------------- MODULE StartupProofs ---------------------------
(***************************************************************************)
(* Proofs about Startup, for all key files, command lines and failures:    *)
(* what the merge accepts suffices for the whole start, the loop runs only *)
(* when the mode is in place, the exit leaves nothing behind, and the      *)
(* options in force are the ones given.                                    *)
(*                                                                         *)
(* The invariant says, step by step, what the process holds and in which   *)
(* mode it can be there; that is far more than the properties ask, but the *)
(* failure of any step releases relative to it.                            *)
(***************************************************************************)
EXTENDS Startup, TLAPS

-----------------------------------------------------------------------------
(* Whatever is read and merged, the configuration has one of three modes.  *)
HasMode(c) == "runtime_mode" \in DOMAIN c /\ c.runtime_mode \in Modes

LEMMA RefreshKeepsMode == ASSUME NEW c, HasMode(c) PROVE HasMode(RefreshPamService(c))
BY DEF HasMode, RefreshPamService

LEMMA SetRuntimeModeHasMode ==
    ASSUME NEW c, HasMode(c), NEW mode \in Modes PROVE HasMode(SetRuntimeMode(c, mode))
<1>1. HasMode([c EXCEPT !.runtime_mode = mode])
  BY DEF HasMode
<1>2. QED
  BY <1>1, RefreshKeepsMode DEF SetRuntimeMode

LEMMA NewConfigHasMode == ASSUME NEW base PROVE HasMode(NewConfig(base))
<1> DEFINE raw ==
        [bind_address |-> "0.0.0.0", port |-> 3390, encoding |-> DefaultEncoding,
         certificate_path |-> Null, private_key_path |-> Null,
         nla_username |-> Null, nla_password |-> Null, nla_enabled |-> TRUE,
         runtime_mode |-> "user", pam_service |-> Null, pam_service_overridden |-> FALSE,
         capture_target_fps |-> 60, capture_stats_interval_sec |-> 5, base_dir |-> base]
<1>1. HasMode(raw)
  BY DEF HasMode, Modes
<1>2. NewConfig(base) = RefreshPamService(raw)
  BY DEF NewConfig
<1> HIDE DEF raw
<1>3. QED
  BY <1>1, <1>2, RefreshKeepsMode

LEMMA LoadServerKeepsMode == ASSUME NEW c, NEW f, HasMode(c) PROVE HasMode(LoadServer(c, f))
BY DEF HasMode, LoadServer

LEMMA LoadEncodingKeepsMode == ASSUME NEW c, NEW f, HasMode(c) PROVE HasMode(LoadEncoding(c, f))
BY DEF HasMode, LoadEncoding

LEMMA LoadAuthKeepsMode == ASSUME NEW c, NEW f, HasMode(c) PROVE HasMode(LoadAuth(c, f))
BY DEF HasMode, LoadAuth, OverridePamService

LEMMA LoadServiceHasMode ==
    ASSUME NEW c, NEW f, HasMode(c), ServiceAccepted(f) PROVE HasMode(LoadService(c, f))
<1> DEFINE bySystem == IF ParseBool(f, "system", FALSE) THEN "system" ELSE "user"
           moded == IF {"runtime_mode", "system"} \intersect DOMAIN f = {} THEN c
                    ELSE SetRuntimeMode(c, Given(f, "runtime_mode", bySystem))
<1>1. bySystem \in Modes
  BY DEF Modes
<1>2. Given(f, "runtime_mode", bySystem) \in Modes
  BY <1>1 DEF Given, ServiceAccepted
<1>3. HasMode(moded)
  BY <1>2, SetRuntimeModeHasMode
<1>4. LoadService(c, f) = moded \/
      LoadService(c, f) = [moded EXCEPT !.nla_enabled = ~ParseBool(f, "rdp_sso", FALSE)]
  BY DEF LoadService
<1> HIDE DEF moded
<1>5. QED
  BY <1>3, <1>4 DEF HasMode

LEMMA CliOptionsKeepMode == ASSUME NEW c, NEW o, HasMode(c) PROVE HasMode(CliOptions(c, o))
BY DEF HasMode, CliOptions

LEMMA AcceptedHasMode == ASSUME OptionsAccepted PROVE HasMode(MergeCli(Base, cli))
<1>1. HasMode(Base)
  <2>1. CASE file = NoFile
    BY <2>1, NewConfigHasMode DEF Base
  <2>2. CASE file # NoFile
    <3>1. ServiceAccepted(file)
      BY <2>2 DEF OptionsAccepted, FileAccepted
    <3>2. HasMode(LoadServer(NewConfig("config_dir"), file))
      BY NewConfigHasMode, LoadServerKeepsMode
    <3>3. HasMode(LoadEncoding(LoadServer(NewConfig("config_dir"), file), file))
      BY <3>2, LoadEncodingKeepsMode
    <3>4. HasMode(LoadAuth(LoadEncoding(LoadServer(NewConfig("config_dir"), file), file), file))
      BY <3>3, LoadAuthKeepsMode
    <3>5. HasMode(NewFromFile(file, "config_dir"))
      BY <3>1, <3>4, LoadServiceHasMode DEF NewFromFile
    <3>6. QED
      BY <2>2, <3>5 DEF Base
  <2>3. QED
    BY <2>1, <2>2
<1>2. HasMode(CliOptions(Base, cli))
  BY <1>1, CliOptionsKeepMode
<1>3. "mode" \in DOMAIN cli => cli.mode \in Modes
  BY DEF OptionsAccepted, MergeAccepted, CliAccepted, IsWord
<1>4. QED
  BY <1>2, <1>3, SetRuntimeModeHasMode DEF MergeCli
-----------------------------------------------------------------------------
(* Where the process can be, in which mode and with what in hand.          *)
OnTheWay == Steps \ (ExitSteps \union {"parse"})
Accepted == Complete(config) /\ config.runtime_mode \in Modes
Ground == AppParts \union {"daemon"}
Attached == Ground \union {"dispatcher_proxy", "credentials", "listener", "session_callback"}

Early ==
    /\ pc \in {"parse", "setup"} => held = {"runtime"} /\ daemon_refs = 0
    /\ pc = "prepare" => held = {"runtime", "loop", "signals"} /\ daemon_refs = 0
    /\ pc = "display" => Mode # "system" /\ held = AppParts /\ daemon_refs = 0
    /\ pc = "daemon" => Mode # "user" /\ held = AppParts
ForUser ==
    /\ pc = "listener" => held = AppParts /\ daemon_refs = 0 /\ runtime_size = "display"
    /\ pc = "bind" => /\ held = AppParts \union {"listener"} /\ daemon_refs = 0
                      /\ runtime_size = "display" /\ listener_size = runtime_size
    /\ pc = "loop" => /\ held = AppParts \union {"listener", "bound"}
                      /\ runtime_size = "display" /\ listener_size = runtime_size
ForSystem ==
    /\ pc = "listener" => held = Ground /\ daemon_refs = 1
    /\ pc = "bind" => held = Ground \union {"listener"} /\ daemon_refs = 1
    /\ pc = "connection" => held = Ground \union ListenerParts
    /\ pc = "name" => held = Ground \union ListenerParts \union {"connection"}
    /\ pc = "export" => held = Ground \union ListenerParts \union {"connection", "name"}
    /\ pc = "loop" => held = Ground \union ListenerParts \union BusParts
    /\ pc \in {"daemon", "listener", "bind", "connection", "name", "export", "loop"} =>
           runtime_size = "config"
    /\ pc \in {"bind", "connection", "name", "export", "loop"} => listener_size = runtime_size
HandoverSteps == {"dispatcher_proxy", "request_handover", "handover_proxy", "start_handover"}
ForHandover ==
    /\ pc = "dispatcher_proxy" => held = Ground
    /\ pc = "request_handover" => held = Attached
    /\ pc = "handover_proxy" => held = Attached \union {"object_path"}
    /\ pc \in {"start_handover", "loop"} => held = Attached \union ProxyParts
    /\ pc \in HandoverSteps \union {"loop"} => daemon_refs = 1
    /\ pc \in HandoverSteps \union {"daemon", "loop"} => runtime_size = "display"
Routes ==
    /\ pc \in {"listener", "bind"} => Mode # "handover"
    /\ pc \in {"connection", "name", "export"} => Mode = "system"
    /\ pc \in HandoverSteps => Mode = "handover"
    /\ Mode = "user" => ForUser
    /\ Mode = "system" => ForSystem
    /\ Mode = "handover" => ForHandover
KeyInHand == pc = "loop" \/ (Mode # "handover" /\ pc \notin {"setup", "prepare"}) => tls = "pem"
Leaving ==
    /\ result = "failure" => held \subseteq Ground
    /\ result = "success" =>
          \/ /\ Mode = "user" /\ held \subseteq AppParts \union ListenerParts
             /\ pc = "release" => held \subseteq AppParts
          \/ Mode = "system"
          \/ /\ Mode = "handover" /\ "daemon" \in held /\ daemon_refs = 1
             /\ held \subseteq AppParts \union DaemonParts
    /\ result \in {"failure", "success"}
StartInv ==
    /\ pc \in Steps
    /\ Early
    /\ pc \in OnTheWay => Accepted /\ Routes /\ KeyInHand
    /\ pc \in ExitSteps \ {"ended"} => Leaving
    /\ pc = "ended" => ReleasedAtExit
(* A step that fails leaves what the failure has not released.             *)
LEMMA FailureLeaves ==
    ASSUME NEW rest, rest \subseteq Ground, Fail(rest) PROVE StartInv'
BY DEF Fail, StartInv, Steps, ExitSteps, Early, OnTheWay, Leaving

(* Parsing: the invariant begins with what the merge has accepted.         *)
LEMMA ParseKeepsStartInv == ASSUME StartInv, ParseOptions PROVE StartInv'
<1>1. held = {"runtime"} /\ daemon_refs = 0 /\ UNCHANGED daemon_refs
  BY DEF StartInv, Early, ParseOptions
<1>2. CASE OptionsAccepted /\ config' = MergeCli(Base, cli) /\ Continue({}, "setup")
  <2>1. Accepted'
    BY <1>2, AcceptedHasMode DEF Accepted, HasMode, OptionsAccepted, MergeAccepted, Complete, Empty
  <2>2. held' = held /\ pc' = "setup"
    BY <1>2 DEF Continue
  <2>3. QED
    BY <1>1, <2>1, <2>2 DEF StartInv, Steps, Early, Routes, ForUser, ForSystem, ForHandover, HandoverSteps,
       KeyInHand, ExitSteps
<1>3. CASE Fail(held)
  BY <1>1, <1>3, FailureLeaves DEF Ground, AppParts
<1>4. QED
  BY <1>2, <1>3 DEF ParseOptions

(* The accepted configuration does not change after that.                  *)
LEMMA AcceptedKept == ASSUME Accepted, UNCHANGED config PROVE Accepted'
BY DEF Accepted, Complete, Empty

LEMMA PreparationKeepsStartInv ==
    ASSUME StartInv, SetUp \/ PrepareCredentials \/ QueryDisplay \/ NewDaemon PROVE StartInv'
<1> USE DEF inputs, geometry, events, ExitSteps
<1>1. pc \in OnTheWay
  BY DEF SetUp, PrepareCredentials, QueryDisplay, NewDaemon, OnTheWay, Steps
<1>2. Accepted /\ UNCHANGED config
  BY <1>1 DEF StartInv, SetUp, PrepareCredentials, QueryDisplay, NewDaemon
<1>3. Accepted' /\ Mode' = Mode /\ Mode \in Modes
  BY <1>2, AcceptedKept DEF Accepted, Mode
<1>4. CASE SetUp
  <2>1. held' = {"runtime", "loop", "signals"} /\ pc' = "prepare" /\ daemon_refs' = 0
    BY <1>4 DEF SetUp, Continue, StartInv, Early
  <2>2. QED
    BY <1>3, <2>1 DEF StartInv, Steps, Early, Routes, ForUser, ForSystem, ForHandover, HandoverSteps,
       KeyInHand
<1>5. CASE PrepareCredentials
  <2>1. held = {"runtime", "loop", "signals"} /\ daemon_refs' = 0
    BY <1>5 DEF PrepareCredentials, StartInv, Early
  <2>2. CASE Fail(held)
    BY <2>1, <2>2, FailureLeaves DEF Ground, AppParts
  <2>3. CASE /\ tls' = IF Mode = "handover" THEN "empty" ELSE "pem"
             /\ runtime_size' = IF Mode = "system" THEN "config" ELSE runtime_size
             /\ Continue({"tls"}, IF Mode = "system" THEN "daemon" ELSE "display")
    <3>1. held' = AppParts
      BY <2>1, <2>3 DEF Continue, AppParts
    <3>2. pc' = IF Mode = "system" THEN "daemon" ELSE "display"
      BY <2>3 DEF Continue
    <3>3. QED
      BY <1>3, <2>1, <2>3, <3>1, <3>2 DEF StartInv, Steps, Early, Routes, ForUser, ForSystem, ForHandover,
         HandoverSteps, KeyInHand
  <2>4. QED
    BY <1>5, <2>2, <2>3 DEF PrepareCredentials
<1>6. CASE QueryDisplay
  <2>1. held = AppParts /\ daemon_refs' = 0 /\ Mode # "system" /\ tls' = tls /\ (Mode # "handover" => tls = "pem")
    BY <1>6 DEF QueryDisplay, StartInv, Early, KeyInHand, OnTheWay, Steps
  <2>2. CASE Fail(held)
    BY <2>1, <2>2, FailureLeaves DEF Ground
  <2>3. CASE runtime_size' = "display" /\ Continue({}, IF Mode = "user" THEN "listener" ELSE "daemon")
    <3>1. held' = AppParts /\ pc' = IF Mode = "user" THEN "listener" ELSE "daemon"
      BY <2>1, <2>3 DEF Continue
    <3>2. QED
      BY <1>3, <2>1, <2>3, <3>1 DEF StartInv, Steps, Early, Routes, ForUser, ForSystem, ForHandover,
         HandoverSteps, KeyInHand
  <2>4. QED
    BY <1>6, <2>2, <2>3 DEF QueryDisplay
<1>7. CASE NewDaemon
  <2>1. /\ held' = Ground /\ daemon_refs' = 1 /\ Mode # "user"
        /\ pc' = IF Mode = "system" THEN "listener" ELSE "dispatcher_proxy"
    BY <1>7 DEF NewDaemon, Continue, StartInv, Early, Ground
  <2>2. /\ Mode = "system" => runtime_size' = "config" /\ tls' = "pem"
        /\ Mode = "handover" => runtime_size' = "display"
    BY <1>3, <1>7 DEF NewDaemon, StartInv, OnTheWay, Steps, Routes, ForSystem, ForHandover, KeyInHand
  <2>3. QED
    BY <1>3, <2>1, <2>2 DEF StartInv, Steps, Early, Routes, ForUser, ForSystem, ForHandover, HandoverSteps,
       KeyInHand, Modes
<1>8. QED
  BY <1>4, <1>5, <1>6, <1>7
(* The listener of a user's or a system's mode.                            *)
LEMMA ListenerKeepsStartInv ==
    ASSUME StartInv, NewListener \/ BindListener PROVE StartInv'
<1> USE DEF inputs, geometry, events, ExitSteps
<1>1. pc \in OnTheWay
  BY DEF NewListener, BindListener, OnTheWay, Steps
<1>2. Accepted /\ Routes /\ KeyInHand /\ UNCHANGED <<config, tls, runtime_size>>
  BY <1>1 DEF StartInv, NewListener, BindListener
<1>3. Accepted' /\ Mode' = Mode /\ Mode \in {"user", "system"} /\ tls' = "pem"
  BY <1>2, AcceptedKept DEF Accepted, Mode, Routes, KeyInHand, Modes, NewListener, BindListener
<1>4. CASE NewListener
  <2>1. /\ Mode = "user" => held = AppParts /\ daemon_refs = 0 /\ runtime_size = "display"
        /\ Mode = "system" => held = Ground /\ daemon_refs = 1 /\ runtime_size = "config"
    BY <1>2, <1>4 DEF NewListener, Routes, ForUser, ForSystem
  <2>2. CASE Fail(AfterUnref(daemon_refs))
    <3>1. AfterUnref(daemon_refs) \subseteq Ground
      BY <1>3, <2>1 DEF AfterUnref, Ground
    <3>2. QED
      BY <2>2, <3>1, FailureLeaves
  <2>3. CASE /\ listener_size' = IF Mode = "user" THEN runtime_size ELSE "config"
             /\ Continue({"listener"}, "bind") /\ UNCHANGED daemon_refs
    <3>1. held' = held \union {"listener"} /\ pc' = "bind"
      BY <2>3 DEF Continue
    <3>2. QED
      BY <1>2, <1>3, <2>1, <2>3, <3>1 DEF StartInv, Steps, Early, Routes, ForUser, ForSystem, ForHandover, HandoverSteps, KeyInHand
  <2>4. QED
    BY <1>4, <2>2, <2>3 DEF NewListener
<1>5. CASE BindListener
  <2>1. /\ Mode = "user" => held = AppParts \union {"listener"} /\ daemon_refs = 0 /\ runtime_size = "display"
        /\ Mode = "system" => held = Ground \union {"listener"} /\ daemon_refs = 1 /\ runtime_size = "config"
        /\ listener_size = runtime_size
    BY <1>2, <1>3, <1>5 DEF BindListener, Routes, ForUser, ForSystem
  <2>2. CASE Fail(AfterUnref(daemon_refs) \ {"listener"})
    <3>1. AfterUnref(daemon_refs) \ {"listener"} \subseteq Ground
      BY <1>3, <2>1 DEF AfterUnref, Ground
    <3>2. QED
      BY <2>2, <3>1, FailureLeaves
  <2>3. CASE Mode = "user" /\ Continue({"bound"}, "loop") /\ UNCHANGED <<listener_size, daemon_refs>>
    <3>1. held' = AppParts \union {"listener", "bound"} /\ pc' = "loop"
      BY <2>1, <2>3 DEF Continue
    <3>2. QED
      BY <1>2, <1>3, <2>1, <2>3, <3>1 DEF StartInv, Steps, Early, Routes, ForUser, ForSystem, ForHandover, HandoverSteps, KeyInHand
  <2>4. CASE /\ Mode = "system"
             /\ Continue({"bound", "cancellable", "delegate", "session_callback"}, "connection")
             /\ UNCHANGED <<listener_size, daemon_refs>>
    <3>1. held' = Ground \union ListenerParts /\ pc' = "connection"
      BY <2>1, <2>4 DEF Continue, ListenerParts
    <3>2. QED
      BY <1>2, <1>3, <2>1, <2>4, <3>1 DEF StartInv, Steps, Early, Routes, ForUser, ForSystem, ForHandover, HandoverSteps, KeyInHand
  <2>5. QED
    BY <1>5, <2>2, <2>3, <2>4 DEF BindListener
<1>6. QED
  BY <1>4, <1>5

(* A failure of the bus gives everything back but the daemon and what the  *)
(* application holds.                                                      *)
LEMMA BusFailureLeaves ==
    ASSUME NEW refs, held \subseteq Ground \union ListenerParts \union BusParts, BusFailure(refs)
    PROVE  StartInv'
<1>1. ResetAll(refs) \subseteq Ground
  BY DEF ResetAll, AfterUnref
<1>2. QED
  BY <1>1, FailureLeaves DEF BusFailure

LEMMA BusKeepsStartInv ==
    ASSUME StartInv, ConnectBus \/ OwnName \/ ExportDispatcher PROVE StartInv'
<1> USE DEF inputs, geometry, events, ExitSteps
<1>1. pc \in {"connection", "name", "export"}
  BY DEF ConnectBus, OwnName, ExportDispatcher
<1>2. Accepted /\ Routes /\ KeyInHand
  BY <1>1 DEF StartInv, OnTheWay, Steps
<1>3. Mode = "system" /\ runtime_size = "config" /\ listener_size = runtime_size /\ tls = "pem"
  BY <1>1, <1>2 DEF Routes, ForSystem, KeyInHand
<1>4. /\ pc = "connection" => held = Ground \union ListenerParts
      /\ pc = "name" => held = Ground \union ListenerParts \union {"connection"}
      /\ pc = "export" => held = Ground \union ListenerParts \union {"connection", "name"}
  BY <1>2, <1>3 DEF Routes, ForSystem
<1>5. held \subseteq Ground \union ListenerParts \union BusParts
  BY <1>1, <1>4 DEF BusParts
<1>6. CASE \E refs \in 1 .. 2 : BusFailure(refs)
  BY <1>5, <1>6, BusFailureLeaves
<1>7. CASE /\ UNCHANGED <<config, tls, geometry>>
           /\ \/ pc = "connection" /\ Continue({"connection"}, "name")
              \/ pc = "name" /\ Continue({"name"}, "export")
              \/ pc = "export" /\ Continue({"dispatcher", "handover_manager"}, "loop")
  <2>1. Accepted' /\ Mode' = Mode
    BY <1>2, <1>7, AcceptedKept DEF Mode
  <2>2. \/ pc' = "name" /\ held' = Ground \union ListenerParts \union {"connection"}
        \/ pc' = "export" /\ held' = Ground \union ListenerParts \union {"connection", "name"}
        \/ pc' = "loop" /\ held' = Ground \union ListenerParts \union BusParts
    BY <1>4, <1>7 DEF Continue, BusParts
  <2>3. QED
    BY <1>3, <1>7, <2>1, <2>2 DEF StartInv, Steps, Early, Routes, ForUser, ForSystem, ForHandover, HandoverSteps, KeyInHand
<1>8. QED
  BY <1>6, <1>7 DEF ConnectBus, OwnName, ExportDispatcher

(* The handover daemon; a daemon that cannot start is dropped and takes    *)
(* its parts with it.                                                      *)
LEMMA HandoverKeepsStartInv ==
    ASSUME StartInv, ConnectDispatcher \/ RequestHandover \/ ConnectHandover \/ StartHandover
    PROVE  StartInv'
<1> USE DEF inputs, geometry, events, ExitSteps
<1>1. pc \in HandoverSteps /\ UNCHANGED <<config, runtime_size>>
  BY DEF ConnectDispatcher, RequestHandover, ConnectHandover, StartHandover, HandoverSteps
<1>2. Accepted /\ Routes
  BY <1>1 DEF StartInv, OnTheWay, Steps, HandoverSteps
<1>3. Accepted' /\ Mode' = Mode /\ Mode = "handover" /\ daemon_refs = 1 /\ runtime_size' = "display"
  BY <1>1, <1>2, AcceptedKept DEF Mode, Routes, ForHandover
<1>4. /\ pc = "dispatcher_proxy" => held = Ground
      /\ pc = "request_handover" => held = Attached
      /\ pc = "handover_proxy" => held = Attached \union {"object_path"}
      /\ pc = "start_handover" => held = Attached \union ProxyParts
  BY <1>2, <1>3 DEF Routes, ForHandover
<1>5. CASE DropDaemon
  <2>1. held \subseteq AppParts \union DaemonParts
    BY <1>1, <1>4 DEF HandoverSteps, Attached, Ground, DaemonParts, ProxyParts, ListenerParts
  <2>2. AfterUnref(daemon_refs) \subseteq Ground
    BY <1>3, <2>1 DEF AfterUnref, Ground
  <2>3. QED
    BY <1>5, <2>2, FailureLeaves DEF DropDaemon
<1>6. CASE /\ UNCHANGED daemon_refs
           /\ \/ /\ pc = "dispatcher_proxy"
                 /\ Continue({"dispatcher_proxy", "credentials", "listener", "session_callback"},
                             "request_handover")
              \/ pc = "request_handover" /\ Continue({"object_path"}, "handover_proxy")
              \/ pc = "handover_proxy" /\ Continue({"handover_proxy"}, "start_handover")
              \/ pc = "start_handover" /\ Continue({}, "loop") /\ tls' = "pem"
  <2>1. \/ pc' = "request_handover" /\ held' = Attached
        \/ pc' = "handover_proxy" /\ held' = Attached \union {"object_path"}
        \/ pc' = "start_handover" /\ held' = Attached \union ProxyParts
        \/ pc' = "loop" /\ held' = Attached \union ProxyParts /\ tls' = "pem"
    BY <1>4, <1>6 DEF Continue, Attached, ProxyParts
  <2>2. QED
    BY <1>3, <1>6, <2>1 DEF StartInv, Steps, Early, Routes, ForUser, ForSystem, ForHandover, HandoverSteps, KeyInHand
<1>7. QED
  BY <1>5, <1>6 DEF ConnectDispatcher, RequestHandover, ConnectHandover, StartHandover

(* The loop and its end.                                                   *)
LEMMA LoopKeepsStartInv == ASSUME StartInv, pc = "loop", Loop PROVE StartInv'
<1> USE DEF inputs, geometry, events, ExitSteps
<1> USE DEF QuitTimer, NameLost, ServeClient, ClientServed, ClientRedirected, DispatchSignal, Loop
<1>1. Accepted /\ Routes /\ KeyInHand /\ UNCHANGED <<config, tls, runtime_size, daemon_refs>>
  BY DEF StartInv, OnTheWay, Steps
<1>2. Accepted' /\ Mode' = Mode /\ Mode \in Modes
  BY <1>1, AcceptedKept DEF Mode, Accepted
<1>3. CASE Quit
  <2>1. pc' = "dispose" /\ result' = "success"
    BY <1>3 DEF Quit
  <2>2. /\ Mode = "user" => held = AppParts \union {"listener", "bound"}
        /\ Mode = "handover" => held = Attached \union ProxyParts /\ daemon_refs = 1
    BY <1>1 DEF Routes, ForUser, ForHandover
  <2>3. held' = held \/ (Mode = "handover" /\ held' = held \ (ProxyParts \union ListenerParts))
    OBVIOUS
  <2>4. Mode = "handover" => "daemon" \in held' /\ held' \subseteq AppParts \union DaemonParts
    BY <2>2, <2>3 DEF Attached, Ground, DaemonParts, ProxyParts, ListenerParts
  <2>5. Leaving'
    BY <1>1, <1>2, <2>1, <2>2, <2>3, <2>4 DEF Leaving, Modes, ListenerParts
  <2>6. QED
    BY <2>1, <2>5 DEF StartInv, Steps, Early, OnTheWay
<1>4. CASE UNCHANGED <<pc, result, held, listener_size>>
  BY <1>1, <1>2, <1>4 DEF StartInv, Steps, Early, Routes, ForUser, ForSystem, ForHandover, HandoverSteps, KeyInHand
<1>5. QED
  BY <1>3, <1>4

(* The exit, up to the daemon.                                             *)
LEMMA ExitKeepsStartInv == ASSUME StartInv, RemoveSources \/ StopServing PROVE StartInv'
<1> USE DEF ExitSteps, RemoveSources, StopServing
<1>1. /\ Leaving /\ UNCHANGED <<config, daemon_refs, result>> /\ Mode' = Mode
      /\ pc' \in {"stop", "release"}
  BY DEF StartInv, Mode
<1>2. held' \subseteq held /\ ("daemon" \in held => "daemon" \in held')
  BY DEF ListenerParts
<1>3. ASSUME held \subseteq AppParts \union ListenerParts, pc' = "release"
      PROVE  held' \subseteq AppParts
  <2>1. "daemon" \notin held
    BY <1>3 DEF AppParts, ListenerParts
  <2>2. QED
    BY <1>3, <2>1
<1>4. Leaving'
  BY <1>1, <1>2, <1>3 DEF Leaving
<1>5. QED
  BY <1>1, <1>4 DEF StartInv, Steps, Early, OnTheWay

(* The end of the exit.                                                    *)
LEMMA ReleaseKeepsStartInv == ASSUME StartInv, Release PROVE StartInv'
<1> USE DEF ExitSteps
<1>1. Leaving /\ pc = "release" /\ pc' = "ended" /\ UNCHANGED <<config, result>> /\ Mode' = Mode
  BY DEF StartInv, Release, Mode
<1>2. CASE result = "failure"
  <2>1. held \subseteq Ground
    BY <1>1, <1>2 DEF Leaving
  <2>2. held' \subseteq held \ AppParts
    BY <1>2 DEF Release
  <2>3. held' \subseteq {"daemon"}
    BY <2>1, <2>2 DEF Ground
  <2>4. QED
    BY <1>1, <2>3 DEF StartInv, Steps, Early, OnTheWay, ReleasedAtExit
<1>3. CASE result = "success"
  <2>1. CASE Mode = "user" /\ held \subseteq AppParts
    <3>1. held' \subseteq {"daemon"}
      BY <1>3, <2>1 DEF Release, AppParts
    <3>2. QED
      BY <1>1, <3>1 DEF StartInv, Steps, Early, OnTheWay, ReleasedAtExit
  <2>2. CASE Mode = "system"
    BY <1>1, <1>3, <2>2 DEF StartInv, Steps, Early, OnTheWay, ReleasedAtExit
  <2>3. CASE "daemon" \in held /\ daemon_refs = 1 /\ held \subseteq AppParts \union DaemonParts
    <3>1. held' \subseteq {"daemon"}
      BY <1>3, <2>3 DEF Release, AfterUnref
    <3>2. QED
      BY <1>1, <3>1 DEF StartInv, Steps, Early, OnTheWay, ReleasedAtExit
  <2>4. QED
    BY <1>1, <1>3, <2>1, <2>2, <2>3 DEF Leaving
<1>4. QED
  BY <1>1, <1>2, <1>3 DEF Leaving

(* Steps that touch nothing of the invariant's.                            *)
LEMMA StutterKeepsStartInv ==
    ASSUME StartInv, UNCHANGED <<config, pc, held, tls, geometry, daemon_refs, result>> PROVE StartInv'
<1> USE DEF geometry, ExitSteps
<1>1. Mode' = Mode
  BY DEF Mode
<1>2. Accepted => Accepted'
  BY AcceptedKept
<1>3. Routes => Routes'
  BY <1>1 DEF Routes, ForUser, ForSystem, ForHandover
<1>4. Leaving => Leaving'
  BY <1>1 DEF Leaving
<1>5. ReleasedAtExit => ReleasedAtExit'
  BY <1>1 DEF ReleasedAtExit
<1>6. QED
  BY <1>1, <1>2, <1>3, <1>4, <1>5 DEF StartInv, Early, KeyInHand

(* The inductive invariant of the start, the loop and the exit.            *)
THEOREM StartInvariance == Spec => []StartInv
<1>1. Init => StartInv
  BY DEF Init, StartInv, Steps, ExitSteps, Early, OnTheWay
<1>2. StartInv /\ [Next]_vars => StartInv'
  <2> SUFFICES ASSUME StartInv, [Next]_vars PROVE StartInv'
    OBVIOUS
  <2>1. CASE Start
    BY <2>1, ParseKeepsStartInv, PreparationKeepsStartInv, ListenerKeepsStartInv, BusKeepsStartInv,
       HandoverKeepsStartInv DEF Start
  <2>2. CASE Loop
    <3>1. pc = "loop"
      BY <2>2 DEF Loop, Idle, QuitTimer, NameLost, ServeClient, ClientServed, ClientRedirected,
         DispatchSignal
    <3>2. QED
      BY <2>2, <3>1, LoopKeepsStartInv
  <2>3. CASE RemoveSources \/ StopServing \/ Release
    BY <2>3, ExitKeepsStartInv, ReleaseKeepsStartInv
  <2>4. CASE RaiseSignal \/ StreamStarts \/ StreamStops \/ Ended \/ UNCHANGED vars
    <3>1. UNCHANGED <<config, pc, held, tls, geometry, daemon_refs, result>>
      BY <2>4 DEF RaiseSignal, StreamStarts, StreamStops, Ended, vars, geometry
    <3>2. QED
      BY <3>1, StutterKeepsStartInv
  <2>5. QED
    BY <2>1, <2>2, <2>3, <2>4 DEF Next
<1>3. QED
  BY <1>1, <1>2, PTL DEF Spec

(* What merge_cli accepts, the checks of prepare_runtime and of            *)
(* drd_rdp_listener_new accept.                                            *)
THEOREM AcceptedMeansStartable == Spec => []LateChecksHold
<1>1. StartInv => LateChecksHold
  <2> SUFFICES ASSUME StartInv PROVE LateChecksHold
    OBVIOUS
  <2>1. pc \in {"prepare", "listener", "dispatcher_proxy"} => Complete(config) /\ Routes
    BY DEF StartInv, OnTheWay, Steps, ExitSteps, Accepted
  <2>2. pc = "prepare" => LateChecks
    BY <2>1 DEF LateChecks, Complete, Empty, Mode
  <2>3. pc = "listener" => Mode # "handover"
    BY <2>1 DEF Routes
  <2>4. pc = "listener" => ConfiguredLogin
    BY <2>1, <2>3 DEF ConfiguredLogin, ListenerAccepts, Complete, Mode
  <2>5. ~Empty(Generated)
    BY GeneratedAssumption DEF Empty, Generated
  <2>6. pc = "dispatcher_proxy" => ListenerAccepts(Generated, Generated)
    BY <2>1, <2>5 DEF ListenerAccepts, Complete
  <2>7. QED
    BY <2>2, <2>4, <2>6 DEF LateChecksHold
<1>2. QED
  BY <1>1, StartInvariance, PTL

(* The main loop never runs with a mode half in place.                     *)
THEOREM LoopMeansReady == Spec => []ServiceReady
<1>1. StartInv => ServiceReady
  <2> SUFFICES ASSUME StartInv, pc = "loop" PROVE ServiceReady
    BY DEF ServiceReady
  <2>1. Accepted /\ Routes /\ KeyInHand
    BY DEF StartInv, OnTheWay, Steps, ExitSteps
  <2>2. CASE Mode = "user"
    <3>1. held = AppParts \union {"listener", "bound"} /\ runtime_size = "display" /\ listener_size = "display"
      BY <2>1, <2>2 DEF Routes, ForUser
    <3>2. QED
      BY <2>1, <2>2, <3>1 DEF ServiceReady, KeyInHand, AppParts
  <2>3. CASE Mode = "system"
    <3>1. /\ held = Ground \union ListenerParts \union BusParts
          /\ runtime_size = "config" /\ listener_size = "config"
      BY <2>1, <2>3 DEF Routes, ForSystem
    <3>2. QED
      BY <2>1, <2>3, <3>1 DEF ServiceReady, KeyInHand, Ground, AppParts, ListenerParts, BusParts
  <2>4. CASE Mode = "handover"
    <3>1. held = Attached \union ProxyParts /\ runtime_size = "display"
      BY <2>1, <2>4 DEF Routes, ForHandover
    <3>2. QED
      BY <2>1, <2>4, <3>1 DEF ServiceReady, KeyInHand, Attached, Ground, AppParts, ProxyParts
  <2>5. QED
    BY <2>1, <2>2, <2>3, <2>4 DEF Accepted, Mode, Modes
<1>2. QED
  BY <1>1, StartInvariance, PTL

(* However the run ends, it leaves nothing but what the process's end      *)
(* itself gives back.                                                      *)
THEOREM ExitLeavesNothing == Spec => []ReleasedAtExit
<1>1. StartInv => ReleasedAtExit
  BY DEF StartInv, ReleasedAtExit
<1>2. QED
  BY <1>1, StartInvariance, PTL

-----------------------------------------------------------------------------
(* OptionsAsGiven: the code overwrites the defaults group by group, the    *)
(* property says in one expression what the outcome means.                 *)

(* The options the property speaks of are fields of a configuration; the   *)
(* PAM service is `pam' when one was named, and that of the mode if not.   *)
Decided == {"port", "nla_enabled", "runtime_mode", "pam_service", "pam_service_overridden"}
DefaultPam(mode) ==
    IF mode = "system" THEN "deepin-remote-desktop-system" ELSE "deepin-remote-desktop"
Options(c, pam) ==
    /\ Decided \subseteq DOMAIN c
    /\ c.nla_enabled \in BOOLEAN /\ c.pam_service_overridden \in BOOLEAN
    /\ c.pam_service = IF c.pam_service_overridden THEN pam ELSE DefaultPam(c.runtime_mode)

(* What stands before a group of the file speaks of the mode, of NLA or of *)
(* the PAM service.                                                        *)
Untouched(c) ==
    c.runtime_mode = "user" /\ c.nla_enabled = TRUE /\ c.pam_service_overridden = FALSE

(* What drd_config_init sets.                                              *)
LEMMA NewConfigOptions ==
    ASSUME NEW base, NEW pam, NEW c, c = NewConfig(base)
    PROVE  Options(c, pam) /\ Untouched(c) /\ c.port = 3390
<1> DEFINE raw ==
        [bind_address |-> "0.0.0.0", port |-> 3390, encoding |-> DefaultEncoding,
         certificate_path |-> Null, private_key_path |-> Null,
         nla_username |-> Null, nla_password |-> Null, nla_enabled |-> TRUE,
         runtime_mode |-> "user", pam_service |-> Null, pam_service_overridden |-> FALSE,
         capture_target_fps |-> 60, capture_stats_interval_sec |-> 5, base_dir |-> base]
<1>1. Decided \subseteq DOMAIN raw
  BY DEF Decided
<1>2. /\ raw.runtime_mode = "user" /\ raw.nla_enabled = TRUE /\ raw.port = 3390
      /\ raw.pam_service_overridden = FALSE
  OBVIOUS
<1>3. c = RefreshPamService(raw)
  BY DEF NewConfig
<1> HIDE DEF raw
<1>4. c = [raw EXCEPT !.pam_service = "deepin-remote-desktop"]
  BY <1>2, <1>3 DEF RefreshPamService
<1>5. /\ DOMAIN c = DOMAIN raw /\ c.runtime_mode = "user" /\ c.nla_enabled = TRUE
      /\ c.port = 3390 /\ c.pam_service_overridden = FALSE
      /\ c.pam_service = "deepin-remote-desktop"
  BY <1>1, <1>2, <1>4 DEF Decided
<1>6. Decided \subseteq DOMAIN c
  BY <1>1, <1>5
<1>7. c.nla_enabled \in BOOLEAN /\ c.pam_service_overridden \in BOOLEAN
  BY <1>5
<1>8. c.pam_service = DefaultPam(c.runtime_mode)
  BY <1>5 DEF DefaultPam
<1>9. c.pam_service = IF c.pam_service_overridden THEN pam ELSE DefaultPam(c.runtime_mode)
  BY <1>5, <1>8
<1>10. Options(c, pam)
  BY <1>6, <1>7, <1>9 DEF Options
<1>11. QED
  BY <1>5, <1>10 DEF Untouched

(* The [server] group decides the port.                                    *)
LEMMA LoadServerOptions ==
    ASSUME NEW c, NEW f, NEW pam, Options(c, pam), NEW d, d = LoadServer(c, f)
    PROVE  /\ Options(d, pam)
           /\ d.port = Given(f, "port", c.port) /\ d.runtime_mode = c.runtime_mode
           /\ d.nla_enabled = c.nla_enabled
           /\ d.pam_service_overridden = c.pam_service_overridden
BY DEF Options, Decided, LoadServer

(* The [encoding] group decides none of them.                              *)
LEMMA LoadEncodingOptions ==
    ASSUME NEW c, NEW f, NEW pam, Options(c, pam), NEW d, d = LoadEncoding(c, f)
    PROVE  /\ Options(d, pam)
           /\ d.port = c.port /\ d.runtime_mode = c.runtime_mode
           /\ d.nla_enabled = c.nla_enabled
           /\ d.pam_service_overridden = c.pam_service_overridden
BY DEF Options, Decided, LoadEncoding

(* What the file alone means.                                              *)
FileMode(f) == Given(f, "runtime_mode", IF ParseBool(f, "system", FALSE) THEN "system" ELSE "user")
AuthNla(f) == ParseBool(f, "enable_nla", ParseBool(f, "nla", TRUE))
FileNla(f) == IF NlaGiven(f) THEN AuthNla(f) ELSE ~ParseBool(f, "rdp_sso", FALSE)
FilePam(f) == Given(f, "pam_service", "")
PamNamed(f) == IF FilePam(f) = "" THEN FALSE ELSE TRUE

(* They say yes or no.                                                     *)
LEMMA ParseBoolIsBoolean ==
    ASSUME NEW f, NEW key, NEW default \in BOOLEAN PROVE ParseBool(f, key, default) \in BOOLEAN
<1>1. CASE key \in DOMAIN f
  BY <1>1 DEF ParseBool
<1>2. CASE key \notin DOMAIN f
  BY <1>2 DEF ParseBool
<1>3. QED
  BY <1>1, <1>2

(* So does what the file says of NLA.                                      *)
LEMMA FileNlaIsBoolean == ASSUME NEW f PROVE AuthNla(f) \in BOOLEAN /\ FileNla(f) \in BOOLEAN
<1>1. ParseBool(f, "nla", TRUE) \in BOOLEAN
  BY ParseBoolIsBoolean
<1>2. AuthNla(f) \in BOOLEAN
  BY <1>1, ParseBoolIsBoolean DEF AuthNla
<1>3. FileNla(f) \in BOOLEAN
  BY <1>2 DEF FileNla
<1>4. QED
  BY <1>2, <1>3

(* The [auth] group decides NLA, and names a PAM service or not.           *)
LEMMA LoadAuthOptions ==
    ASSUME NEW c, NEW f, Options(c, FilePam(f)), Untouched(c), NEW d, d = LoadAuth(c, f)
    PROVE  /\ Options(d, FilePam(f))
           /\ d.port = c.port /\ d.runtime_mode = c.runtime_mode
           /\ d.nla_enabled = AuthNla(f)
           /\ d.pam_service_overridden = PamNamed(f)
<1> DEFINE auth == IF "auth_mode" \in DOMAIN f THEN TRUE ELSE c.nla_enabled
           nla == ParseBool(f, "enable_nla", ParseBool(f, "nla", auth))
           raw == [c EXCEPT !.nla_username = Given(f, "username", @),
                            !.nla_password = Given(f, "password", @), !.nla_enabled = nla]
<1>1. nla \in BOOLEAN /\ nla = AuthNla(f)
  <2>1. auth = TRUE
    BY DEF Untouched
  <2>2. nla = AuthNla(f)
    BY <2>1 DEF AuthNla
  <2>3. AuthNla(f) \in BOOLEAN
    BY FileNlaIsBoolean
  <2> HIDE DEF nla
  <2>4. QED
    BY <2>2, <2>3
<1>2. d = OverridePamService(raw, FilePam(f))
  BY DEF LoadAuth, FilePam
<1> HIDE DEF nla
<1>3. /\ Options(raw, FilePam(f)) /\ raw.port = c.port /\ raw.runtime_mode = c.runtime_mode
      /\ raw.nla_enabled = nla /\ raw.pam_service_overridden = c.pam_service_overridden
  BY <1>1 DEF Options, Decided
<1> HIDE DEF raw
<1>4. CASE FilePam(f) = ""
  <2>1. d = raw
    BY <1>2, <1>4 DEF OverridePamService
  <2>2. QED
    BY <1>1, <1>3, <1>4, <2>1 DEF PamNamed, Untouched
<1>5. CASE FilePam(f) # ""
  <2>1. d = [raw EXCEPT !.pam_service = FilePam(f), !.pam_service_overridden = TRUE]
    BY <1>2, <1>5 DEF OverridePamService
  <2>2. /\ d.port = raw.port /\ d.runtime_mode = raw.runtime_mode
        /\ d.nla_enabled = raw.nla_enabled /\ d.pam_service = FilePam(f)
        /\ d.pam_service_overridden = TRUE /\ DOMAIN d = DOMAIN raw
    BY <1>3, <2>1 DEF Options, Decided
  <2>3. QED
    BY <1>1, <1>3, <1>5, <2>2 DEF Options, PamNamed
<1>6. QED
  BY <1>4, <1>5

(* A change of the mode takes the PAM service along, unless it is named.   *)
LEMMA SetRuntimeModeOptions ==
    ASSUME NEW c, NEW mode, NEW pam, Options(c, pam), NEW d, d = SetRuntimeMode(c, mode)
    PROVE  /\ Options(d, pam)
           /\ d.port = c.port /\ d.runtime_mode = mode /\ d.nla_enabled = c.nla_enabled
           /\ d.pam_service_overridden = c.pam_service_overridden
<1>1. CASE c.runtime_mode = mode
  BY <1>1 DEF SetRuntimeMode
<1>2. CASE c.runtime_mode # mode
  <2> DEFINE raw == [c EXCEPT !.runtime_mode = mode]
  <2>1. /\ DOMAIN raw = DOMAIN c /\ raw.runtime_mode = mode /\ raw.nla_enabled = c.nla_enabled
        /\ raw.port = c.port /\ raw.pam_service_overridden = c.pam_service_overridden
        /\ raw.pam_service = c.pam_service
    BY DEF Options, Decided
  <2>2. d = RefreshPamService(raw)
    BY <1>2 DEF SetRuntimeMode
  <2> HIDE DEF raw
  <2>3. CASE c.pam_service_overridden
    <3>1. d = raw
      BY <2>1, <2>2, <2>3 DEF RefreshPamService
    <3>2. QED
      BY <2>1, <2>3, <3>1 DEF Options
  <2>4. CASE ~c.pam_service_overridden
    <3>1. d = [raw EXCEPT !.pam_service = DefaultPam(mode)]
      BY <2>1, <2>2, <2>4 DEF RefreshPamService, DefaultPam
    <3>2. QED
      BY <2>1, <2>4, <3>1 DEF Options, Decided
  <2>5. QED
    BY <2>3, <2>4
<1>3. QED
  BY <1>1, <1>2

(* The [service] group decides the mode, and NLA when [auth] did not.      *)
LEMMA LoadServiceOptions ==
    ASSUME NEW c, NEW f, NEW pam, Options(c, pam), c.runtime_mode = "user",
           c.nla_enabled = AuthNla(f), NEW d, d = LoadService(c, f)
    PROVE  /\ Options(d, pam)
           /\ d.port = c.port /\ d.runtime_mode = FileMode(f)
           /\ d.nla_enabled = FileNla(f)
           /\ d.pam_service_overridden = c.pam_service_overridden
<1> DEFINE bySystem == IF ParseBool(f, "system", FALSE) THEN "system" ELSE "user"
           moded == IF {"runtime_mode", "system"} \intersect DOMAIN f = {} THEN c
                    ELSE SetRuntimeMode(c, Given(f, "runtime_mode", bySystem))
           sso == ~ParseBool(f, "rdp_sso", FALSE)
<1>1. /\ Options(moded, pam)
      /\ moded.port = c.port /\ moded.runtime_mode = FileMode(f)
      /\ moded.nla_enabled = c.nla_enabled
      /\ moded.pam_service_overridden = c.pam_service_overridden
  <2>1. CASE {"runtime_mode", "system"} \intersect DOMAIN f = {}
    <3>1. FileMode(f) = "user"
      BY <2>1 DEF FileMode, Given, ParseBool
    <3>2. QED
      BY <2>1, <3>1
  <2>2. CASE {"runtime_mode", "system"} \intersect DOMAIN f # {}
    <3>1. moded = SetRuntimeMode(c, FileMode(f))
      BY <2>2 DEF FileMode
    <3> HIDE DEF moded
    <3>2. QED
      BY <3>1, SetRuntimeModeOptions
  <2>3. QED
    BY <2>1, <2>2
<1>2. d = IF NlaGiven(f) \/ "rdp_sso" \notin DOMAIN f THEN moded
          ELSE [moded EXCEPT !.nla_enabled = sso]
  BY DEF LoadService
<1>3. /\ ~NlaGiven(f) => AuthNla(f) = TRUE
      /\ "rdp_sso" \notin DOMAIN f => sso = TRUE
  BY DEF NlaGiven, AuthNla, ParseBool
<1>4. /\ NlaGiven(f) => FileNla(f) = AuthNla(f)
      /\ ~NlaGiven(f) => FileNla(f) = sso
  BY DEF FileNla
<1>5. sso \in BOOLEAN
  OBVIOUS
<1> HIDE DEF moded, sso
<1>6. CASE NlaGiven(f) \/ "rdp_sso" \notin DOMAIN f
  BY <1>1, <1>2, <1>3, <1>4, <1>6
<1>7. CASE ~(NlaGiven(f) \/ "rdp_sso" \notin DOMAIN f)
  <2>1. d = [moded EXCEPT !.nla_enabled = sso]
    BY <1>2, <1>7
  <2>2. /\ DOMAIN d = DOMAIN moded /\ d.nla_enabled = sso /\ d.port = moded.port
        /\ d.runtime_mode = moded.runtime_mode /\ d.pam_service = moded.pam_service
        /\ d.pam_service_overridden = moded.pam_service_overridden
    BY <1>1, <2>1 DEF Options, Decided
  <2>3. QED
    BY <1>1, <1>4, <1>5, <1>7, <2>2 DEF Options
<1>8. QED
  BY <1>6, <1>7

(* What a configuration says after file f was read.                        *)
FileRead(c, f) ==
    /\ Options(c, FilePam(f))
    /\ c.port = Given(f, "port", 3390) /\ c.runtime_mode = FileMode(f)
    /\ c.nla_enabled = FileNla(f)
    /\ c.pam_service_overridden = PamNamed(f)

(* drd_config_new_from_file: group by group.                               *)
LEMMA NewFromFileReads == ASSUME NEW f, NEW dir PROVE FileRead(NewFromFile(f, dir), f)
<1>1. PICK new : new = NewConfig(dir)
  OBVIOUS
<1>2. PICK server : server = LoadServer(new, f)
  OBVIOUS
<1>3. PICK encoding : encoding = LoadEncoding(server, f)
  OBVIOUS
<1>4. PICK auth : auth = LoadAuth(encoding, f)
  OBVIOUS
<1>5. PICK service : service = LoadService(auth, f)
  OBVIOUS
<1>6. PICK pam : pam = FilePam(f)
  OBVIOUS
<1>7. Options(new, pam) /\ Untouched(new) /\ new.port = 3390
  BY <1>1, NewConfigOptions
<1>8. /\ Options(server, pam) /\ Untouched(server)
      /\ server.port = Given(f, "port", 3390)
  BY <1>2, <1>7, LoadServerOptions DEF Untouched
<1>9. /\ Options(encoding, pam) /\ Untouched(encoding)
      /\ encoding.port = Given(f, "port", 3390)
  BY <1>3, <1>8, LoadEncodingOptions DEF Untouched
<1>10. /\ Options(auth, pam) /\ auth.runtime_mode = "user"
       /\ auth.port = Given(f, "port", 3390)
       /\ auth.nla_enabled = AuthNla(f) /\ auth.pam_service_overridden = PamNamed(f)
  <2>1. encoding.runtime_mode = "user"
    BY <1>9 DEF Untouched
  <2>2. QED
    BY <1>4, <1>6, <1>9, <2>1, LoadAuthOptions
<1>11. /\ Options(service, pam) /\ service.port = auth.port
       /\ service.runtime_mode = FileMode(f) /\ service.nla_enabled = FileNla(f)
       /\ service.pam_service_overridden = auth.pam_service_overridden
  BY <1>5, <1>10, LoadServiceOptions
<1>12. FileRead(service, f)
  BY <1>6, <1>10, <1>11 DEF FileRead
<1>13. NewFromFile(f, dir) = service
  BY <1>1, <1>2, <1>3, <1>4, <1>5 DEF NewFromFile
<1>14. QED
  BY <1>12, <1>13

(* The key file, if there is one.                                          *)
GivenFile == IF file = NoFile THEN <<>> ELSE file

(* The defaults are what an empty file means.                              *)
LEMMA DefaultsRead ==
    ASSUME NEW f, DOMAIN f = {}, NEW dir, NEW c, c = NewConfig(dir) PROVE FileRead(c, f)
<1>1. FileMode(f) = "user" /\ FilePam(f) = ""
  BY DEF FileMode, FilePam, Given, ParseBool
<1>2. FileNla(f) = TRUE
  BY DEF FileNla, NlaGiven, ParseBool
<1>3. PamNamed(f) = FALSE
  BY <1>1 DEF PamNamed
<1>4. PICK pam : pam = FilePam(f)
  OBVIOUS
<1>5. Options(c, pam) /\ Untouched(c)
  BY NewConfigOptions
<1>6. c.port = Given(f, "port", 3390)
  <2>1. c.port = 3390
    BY NewConfigOptions
  <2>2. QED
    BY <2>1 DEF Given
<1>7. c.nla_enabled = FileNla(f)
  BY <1>2, <1>5 DEF Untouched
<1>8. c.pam_service_overridden = PamNamed(f)
  BY <1>3, <1>5 DEF Untouched
<1>9. c.runtime_mode = FileMode(f)
  BY <1>1, <1>5 DEF Untouched
<1>10. QED
  BY <1>4, <1>5, <1>6, <1>7, <1>8, <1>9 DEF FileRead

(* What stands before the command line is read.                            *)
LEMMA BaseReads == ASSUME NEW f, f = GivenFile PROVE FileRead(Base, f)
<1>1. CASE file # NoFile
  <2>1. f = file /\ Base = NewFromFile(f, "config_dir")
    BY <1>1 DEF Base, GivenFile
  <2>2. QED
    BY <2>1, NewFromFileReads
<1>2. CASE file = NoFile
  <2>1. Base = NewConfig("cwd") /\ f = <<>>
    BY <1>2 DEF Base, GivenFile
  <2>2. DOMAIN f = {}
    BY <2>1
  <2>3. QED
    BY <2>1, <2>2, DefaultsRead
<1>3. QED
  BY <1>1, <1>2

(* The command line decides the port and NLA where it speaks of them.      *)
LEMMA CliOptionsKeep ==
    ASSUME NEW c, NEW o, NEW pam, Options(c, pam), NEW d, d = CliOptions(c, o),
           ~({"enable_nla", "disable_nla"} \subseteq DOMAIN o)
    PROVE  /\ Options(d, pam)
           /\ d.port = Positive(o, "port", c.port) /\ d.runtime_mode = c.runtime_mode
           /\ d.nla_enabled = ("enable_nla" \in DOMAIN o
                                  \/ (c.nla_enabled /\ "disable_nla" \notin DOMAIN o))
           /\ d.pam_service_overridden = c.pam_service_overridden
<1> DEFINE meant == "enable_nla" \in DOMAIN o \/ (c.nla_enabled /\ "disable_nla" \notin DOMAIN o)
<1>0. Decided \subseteq DOMAIN c
  BY DEF Options
<1>1. /\ DOMAIN d = DOMAIN c
      /\ d.nla_enabled = CASE "enable_nla" \in DOMAIN o -> TRUE
                           [] "disable_nla" \in DOMAIN o -> FALSE
                           [] OTHER -> c.nla_enabled
      /\ d.port = Positive(o, "port", c.port)
      /\ d.runtime_mode = c.runtime_mode /\ d.pam_service = c.pam_service
      /\ d.pam_service_overridden = c.pam_service_overridden
  <2>1. DOMAIN d = DOMAIN c
    BY DEF CliOptions
  <2>2. d.port = Positive(o, "port", c.port)
    BY <1>0 DEF CliOptions, Decided
  <2>3. d.runtime_mode = c.runtime_mode /\ d.pam_service = c.pam_service
    BY <1>0 DEF CliOptions, Decided
  <2>4. d.pam_service_overridden = c.pam_service_overridden
    BY <1>0 DEF CliOptions, Decided
  <2>5. d.nla_enabled = CASE "enable_nla" \in DOMAIN o -> TRUE
                           [] "disable_nla" \in DOMAIN o -> FALSE
                           [] OTHER -> c.nla_enabled
    BY <1>0 DEF CliOptions, Decided
  <2>6. QED
    BY <2>1, <2>2, <2>3, <2>4, <2>5
<1>2. c.nla_enabled \in BOOLEAN
  BY DEF Options
<1>3. d.nla_enabled = meant
  <2>1. CASE "enable_nla" \in DOMAIN o
    <3>1. "disable_nla" \notin DOMAIN o
      BY <2>1
    <3>2. d.nla_enabled = TRUE
      BY <1>1, <2>1, <3>1
    <3>3. meant = TRUE
      BY <2>1
    <3>4. QED
      BY <3>2, <3>3
  <2>2. CASE "enable_nla" \notin DOMAIN o /\ "disable_nla" \in DOMAIN o
    <3>1. d.nla_enabled = FALSE
      BY <1>1, <2>2
    <3>2. meant = FALSE
      BY <2>2
    <3>3. QED
      BY <3>1, <3>2
  <2>3. CASE "enable_nla" \notin DOMAIN o /\ "disable_nla" \notin DOMAIN o
    <3>1. d.nla_enabled = c.nla_enabled
      BY <1>1, <2>3
    <3>2. meant = c.nla_enabled
      BY <1>2, <2>3
    <3>3. QED
      BY <3>1, <3>2
  <2>4. QED
    BY <2>1, <2>2, <2>3
<1>4. meant \in BOOLEAN
  OBVIOUS
<1> HIDE DEF meant
<1>5. Options(d, pam)
  BY <1>1, <1>3, <1>4 DEF Options
<1>6. QED
  BY <1>1, <1>3, <1>5 DEF meant

(* drd_config_merge_cli leaves what is meant.                              *)
LEMMA MergeGivesMeant ==
    ASSUME OptionsAccepted, NEW f, f = GivenFile, NEW c, c = MergeCli(Base, cli)
    PROVE  /\ c.runtime_mode = MeantMode(f, cli) /\ c.nla_enabled = MeantNla(f, cli)
           /\ c.pam_service = MeantPamService(f, cli) /\ c.port = MeantPort(f, cli)
<1> DEFINE options == CliOptions(Base, cli)
<1>1. /\ Options(Base, FilePam(f))
      /\ Base.port = Given(f, "port", 3390) /\ Base.runtime_mode = FileMode(f)
      /\ Base.nla_enabled = FileNla(f)
      /\ Base.pam_service_overridden = PamNamed(f)
  BY BaseReads DEF FileRead
<1>2. ~({"enable_nla", "disable_nla"} \subseteq DOMAIN cli)
  BY DEF OptionsAccepted, Conflicts
<1>3. /\ Options(options, FilePam(f))
      /\ options.port = Positive(cli, "port", Base.port)
      /\ options.runtime_mode = Base.runtime_mode
      /\ options.nla_enabled = ("enable_nla" \in DOMAIN cli
                                   \/ (Base.nla_enabled /\ "disable_nla" \notin DOMAIN cli))
      /\ options.pam_service_overridden = Base.pam_service_overridden
  BY <1>1, <1>2, CliOptionsKeep
<1> HIDE DEF options
<1>4. options.nla_enabled = MeantNla(f, cli)
  <2>1. MeantNla(f, cli)
          = ("enable_nla" \in DOMAIN cli \/ (FileNla(f) /\ "disable_nla" \notin DOMAIN cli))
    BY DEF MeantNla, FileNla, AuthNla
  <2>2. QED
    BY <1>1, <1>3, <2>1
<1>5. options.port = MeantPort(f, cli)
  BY <1>1, <1>3 DEF MeantPort
<1>6. /\ Options(c, FilePam(f))
      /\ c.port = options.port /\ c.runtime_mode = MeantMode(f, cli)
      /\ c.nla_enabled = options.nla_enabled
      /\ c.pam_service_overridden = options.pam_service_overridden
  <2>1. CASE "mode" \in DOMAIN cli
    <3>1. c = SetRuntimeMode(options, cli.mode) /\ MeantMode(f, cli) = cli.mode
      BY <2>1 DEF MergeCli, options, MeantMode, Given
    <3>2. QED
      BY <1>3, <3>1, SetRuntimeModeOptions
  <2>2. CASE "mode" \notin DOMAIN cli
    <3>1. c = options /\ MeantMode(f, cli) = FileMode(f)
      BY <2>2 DEF MergeCli, options, MeantMode, FileMode, Given
    <3>2. QED
      BY <1>1, <1>3, <3>1
  <2>3. QED
    BY <2>1, <2>2
<1>7. c.pam_service = MeantPamService(f, cli)
  <2>1. c.pam_service_overridden = PamNamed(f)
    BY <1>1, <1>3, <1>6
  <2>2. CASE FilePam(f) # ""
    <3>0. c.pam_service_overridden = TRUE
      BY <2>1, <2>2 DEF PamNamed
    <3>1. c.pam_service = FilePam(f)
      BY <1>6, <3>0 DEF Options
    <3>2. MeantPamService(f, cli) = FilePam(f)
      BY <2>2 DEF MeantPamService, FilePam, Given
    <3>3. QED
      BY <3>1, <3>2
  <2>3. CASE FilePam(f) = ""
    <3>0. c.pam_service_overridden = FALSE
      BY <2>1, <2>3 DEF PamNamed
    <3>1. c.pam_service = DefaultPam(MeantMode(f, cli))
      BY <1>6, <3>0 DEF Options
    <3>2. MeantPamService(f, cli) = DefaultPam(MeantMode(f, cli))
      BY <2>3 DEF MeantPamService, FilePam, DefaultPam
    <3>3. QED
      BY <3>1, <3>2
  <2>4. QED
    BY <2>2, <2>3
<1>8. QED
  BY <1>4, <1>5, <1>6, <1>7

(* Parsing establishes the property: the configuration is the merge's.     *)
LEMMA ParseGivesOptions == ASSUME pc = "parse", ParseOptions PROVE OptionsAsGiven'
<1>1. UNCHANGED <<file, cli>>
  BY DEF ParseOptions, inputs
<1>2. CASE OptionsAccepted /\ config' = MergeCli(Base, cli)
  <2> DEFINE f == GivenFile
  <2>1. /\ config'.runtime_mode = MeantMode(f, cli) /\ config'.nla_enabled = MeantNla(f, cli)
        /\ config'.pam_service = MeantPamService(f, cli) /\ config'.port = MeantPort(f, cli)
    BY <1>2, MergeGivesMeant
  <2>2. f = IF file' = NoFile THEN <<>> ELSE file'
    BY <1>1 DEF GivenFile
  <2> HIDE DEF f
  <2>3. QED
    BY <1>1, <2>1, <2>2 DEF OptionsAsGiven
<1>3. CASE Fail(held)
  BY <1>3 DEF Fail, ExitSteps, OptionsAsGiven
<1>4. QED
  BY <1>2, <1>3 DEF ParseOptions

(* Every later step leaves the options and the configuration alone.        *)
LEMMA StepKeepsOptions ==
    ASSUME OptionsAsGiven, [Next]_vars, pc # "parse" PROVE OptionsAsGiven'
<1> USE DEF inputs, ExitSteps
<1>1. /\ UNCHANGED <<file, cli, config>>
      /\ pc \in ExitSteps => pc' \in ExitSteps
  <2>1. CASE SetUp \/ PrepareCredentials \/ QueryDisplay \/ NewDaemon \/ NewListener \/ BindListener
    BY <2>1 DEF SetUp, PrepareCredentials, QueryDisplay, NewDaemon, NewListener, BindListener
  <2>2. CASE ConnectBus \/ OwnName \/ ExportDispatcher
    BY <2>2 DEF ConnectBus, OwnName, ExportDispatcher, BusFailure
  <2>3. CASE ConnectDispatcher \/ RequestHandover \/ ConnectHandover \/ StartHandover
    BY <2>3 DEF ConnectDispatcher, RequestHandover, ConnectHandover, StartHandover
  <2>4. CASE RaiseSignal \/ QuitTimer \/ NameLost \/ ServeClient \/ ClientServed
             \/ ClientRedirected \/ StreamStarts \/ StreamStops
    BY <2>4 DEF RaiseSignal, QuitTimer, NameLost, ServeClient, ClientServed, ClientRedirected,
       StreamStarts, StreamStops, Idle
  <2>5. ASSUME NEW signal, DispatchSignal(signal)
        PROVE  UNCHANGED <<file, cli, config>> /\ pc = "loop"
    BY <2>5 DEF DispatchSignal, Idle
  <2>6. CASE RemoveSources \/ StopServing \/ Release \/ Ended \/ UNCHANGED vars
    BY <2>6 DEF RemoveSources, StopServing, Release, Ended, vars
  <2>7. ~ParseOptions
    BY DEF ParseOptions
  <2>8. QED
    BY <2>1, <2>2, <2>3, <2>4, <2>5, <2>6, <2>7 DEF Next, Start, Loop
<1>2. QED
  BY <1>1 DEF OptionsAsGiven

(* From any key file and command line that are accepted, the runtime mode, *)
(* NLA, the PAM service and the port are the ones the option list means,   *)
(* for the rest of the run.                                                *)
THEOREM OptionsAreThoseGiven == Spec => []OptionsAsGiven
<1>1. Init => OptionsAsGiven
  BY DEF Init, OptionsAsGiven
<1>2. OptionsAsGiven /\ [Next]_vars => OptionsAsGiven'
  <2> SUFFICES ASSUME OptionsAsGiven, [Next]_vars PROVE OptionsAsGiven'
    OBVIOUS
  <2>1. CASE pc # "parse"
    BY <2>1, StepKeepsOptions
  <2>2. CASE pc = "parse"
    <3>1. CASE ParseOptions
      BY <2>2, <3>1, ParseGivesOptions
    <3>2. CASE pc' = "parse"
      BY <3>2 DEF OptionsAsGiven
    <3>3. ParseOptions \/ pc' = "parse"
      <4>1. ~Start \/ ParseOptions
        BY <2>2 DEF Start, SetUp, PrepareCredentials, QueryDisplay, NewDaemon, NewListener,
           BindListener, ConnectBus, OwnName, ExportDispatcher, ConnectDispatcher,
           RequestHandover, ConnectHandover, StartHandover
      <4>2. ~(QuitTimer \/ NameLost \/ ServeClient \/ ClientServed \/ ClientRedirected)
        BY <2>2 DEF QuitTimer, NameLost, ServeClient, ClientServed, ClientRedirected, Idle
      <4>3. ASSUME NEW signal PROVE ~DispatchSignal(signal)
        BY <2>2 DEF DispatchSignal, Idle
      <4>4. ~(RemoveSources \/ StopServing \/ Release \/ Ended)
        BY <2>2 DEF RemoveSources, StopServing, Release, Ended
      <4>5. RaiseSignal \/ StreamStarts \/ StreamStops \/ UNCHANGED vars => pc' = "parse"
        BY <2>2 DEF RaiseSignal, StreamStarts, StreamStops, vars
      <4>6. QED
        BY <4>1, <4>2, <4>3, <4>4, <4>5 DEF Next, Loop
    <3>4. QED
      BY <3>1, <3>2, <3>3
  <2>3. QED
    BY <2>1, <2>2
<1>3. QED
  BY <1>1, <1>2, PTL DEF Spec

-----------------------------------------------------------------------------
(* Signals that wait, one of a kind at most.                               *)
Waiting == (IF "INT" \in signals THEN 1 ELSE 0) + (IF "TERM" \in signals THEN 1 ELSE 0)

(* The types need two facts: every signal raised waits, has become a       *)
(* timer or is over.                                                       *)
SignalsInv ==
    /\ signals \subseteq {"INT", "TERM"} /\ timers \in Nat /\ raised \in 0 .. MaxSignals
    /\ timers + Waiting <= raised

(* And until the exit, who holds the daemon holds a reference to it.       *)
RefsInv == pc # "ended" /\ "daemon" \in held => daemon_refs # 0

(* The types that do not speak of signals.                                 *)
PlainTypes ==
    /\ file \in Files \union {NoFile} /\ cli \in Clis /\ uid \in Uids
    /\ pc \in Steps /\ held \subseteq AppParts \union DaemonParts
    /\ tls \in {"none", "empty", "pem"}
    /\ runtime_size \in {"none", "config", "display"}
    /\ listener_size \in {"none", "config", "display"}
    /\ daemon_refs \in 0 .. 2
    /\ stream \in BOOLEAN /\ serving \in BOOLEAN /\ result \in {"none", "failure", "success"}

(* One more on either side.                                                *)
LEMMA OneMore ==
    ASSUME NEW a \in Nat, NEW b \in Nat, NEW c \in Nat, NEW d \in Nat, a + b <= d, c <= b + 1
    PROVE  a + c <= d + 1
OBVIOUS

(* Each signal is counted once.                                            *)
LEMMA StepKeepsSignalsInv == ASSUME SignalsInv, [Next]_vars PROVE SignalsInv'
<1> USE SignalsAssumption
<1>1. CASE UNCHANGED events
  BY <1>1 DEF events, SignalsInv, Waiting
<1>2. CASE RaiseSignal
  <2>1. PICK signal \in {"INT", "TERM"} : signals' = signals \union {signal}
    BY <1>2 DEF RaiseSignal
  <2>2. raised < MaxSignals /\ raised' = raised + 1 /\ timers' = timers
    BY <1>2 DEF RaiseSignal
  <2>3. Waiting' <= Waiting + 1 /\ Waiting \in Nat /\ Waiting' \in Nat
    BY <2>1 DEF Waiting
  <2>4. signals' \subseteq {"INT", "TERM"}
    BY <2>1 DEF SignalsInv
  <2>5. MaxSignals \in Nat /\ raised \in 0 .. MaxSignals /\ timers \in Nat
    BY SignalsAssumption DEF SignalsInv
  <2>6. timers' \in Nat /\ raised' \in 0 .. MaxSignals
    BY <2>2, <2>5
  <2>7. timers + Waiting <= raised
    BY DEF SignalsInv
  <2>8. timers' + Waiting' <= raised'
    <3>1. raised \in Nat
      BY <2>5
    <3>2. timers + Waiting' <= raised + 1
      BY <2>3, <2>5, <2>7, <3>1, OneMore
    <3>3. QED
      BY <2>2, <3>2
  <2>9. QED
    BY <2>4, <2>6, <2>8 DEF SignalsInv
<1>3. ASSUME NEW signal \in {"INT", "TERM"}, DispatchSignal(signal) PROVE SignalsInv'
  <2>1. signal \in signals /\ signals' = signals \ {signal}
    BY <1>3 DEF DispatchSignal
  <2>2. raised' = raised /\ (timers' = timers \/ timers' = timers + 1)
    BY <1>3 DEF DispatchSignal
  <2>3. Waiting' = Waiting - 1 /\ Waiting \in Nat /\ Waiting' \in Nat
    BY <2>1 DEF Waiting
  <2>4. signals' \subseteq {"INT", "TERM"}
    BY <2>1 DEF SignalsInv
  <2>5. QED
    BY <2>2, <2>3, <2>4 DEF SignalsInv
<1>4. CASE QuitTimer
  <2>1. timers > 0 /\ timers' = timers - 1 /\ UNCHANGED <<signals, raised>>
    BY <1>4 DEF QuitTimer
  <2>2. QED
    BY <2>1 DEF SignalsInv, Waiting
<1>5. CASE RemoveSources
  <2>1. signals' = {} /\ UNCHANGED <<timers, raised>>
    BY <1>5 DEF RemoveSources
  <2>2. Waiting' = 0 /\ Waiting \in Nat
    BY <2>1 DEF Waiting
  <2>3. QED
    BY <2>1, <2>2 DEF SignalsInv
<1>6. CASE Start
  <2>1. UNCHANGED events
    BY <1>6 DEF Start, ParseOptions, SetUp, PrepareCredentials, QueryDisplay, NewDaemon,
       NewListener, BindListener, ConnectBus, OwnName, ExportDispatcher, BusFailure, ConnectDispatcher,
       RequestHandover, ConnectHandover, StartHandover, events
  <2>2. QED
    BY <1>1, <2>1
<1>7. CASE \/ NameLost \/ ServeClient \/ ClientServed \/ ClientRedirected \/ StreamStarts
           \/ StreamStops \/ StopServing \/ Release \/ Ended \/ UNCHANGED vars
  <2>1. UNCHANGED events
    BY <1>7 DEF NameLost, ServeClient, ClientServed, ClientRedirected, StreamStarts, StreamStops,
       StopServing, Release, Ended, vars, events
  <2>2. QED
    BY <1>1, <2>1
<1>8. QED
  BY <1>2, <1>3, <1>4, <1>5, <1>6, <1>7 DEF Next, Loop

(* The options and the preparation keep the other types.                   *)
LEMMA PreparationKeepsTypes ==
    ASSUME StartInv, PlainTypes, RefsInv,
           ParseOptions \/ SetUp \/ PrepareCredentials \/ QueryDisplay \/ NewDaemon
    PROVE  PlainTypes' /\ RefsInv'
<1> USE DEF inputs, geometry, events, services, Continue, Fail, PlainTypes, RefsInv, Steps, AppParts,
           DaemonParts
<1>1. CASE ParseOptions
  <2>1. UNCHANGED <<file, cli, uid, tls, runtime_size, listener_size, daemon_refs, stream, serving, held>>
    BY <1>1 DEF ParseOptions
  <2>2. pc # "ended" /\ pc' \in {"setup", "dispose"} /\ result' \in {"none", "failure", "success"}
    BY <1>1 DEF ParseOptions
  <2>3. QED
    BY <2>1, <2>2
<1>2. CASE SetUp
  BY <1>2 DEF SetUp
<1>3. CASE PrepareCredentials
  BY <1>3 DEF PrepareCredentials
<1>4. CASE QueryDisplay
  BY <1>4 DEF QueryDisplay
<1>5. CASE NewDaemon
  BY <1>5 DEF NewDaemon
<1>6. QED
  BY <1>1, <1>2, <1>3, <1>4, <1>5

(* A failure that drops the only reference drops the daemon.               *)
LEMMA DroppedDaemon ==
    ASSUME PlainTypes, NEW refs, refs = 1 \/ "daemon" \notin held
    PROVE  "daemon" \notin AfterUnref(refs) /\ AfterUnref(refs) \subseteq held
BY DEF AfterUnref, DaemonParts

(* So does the start of the listener.                                    *)
LEMMA ListenerKeepsTypes ==
    ASSUME StartInv, PlainTypes, RefsInv, NewListener \/ BindListener
    PROVE  PlainTypes' /\ RefsInv'
<1>1. pc \in OnTheWay /\ pc \in {"listener", "bind"}
  BY DEF NewListener, BindListener, OnTheWay, Steps, ExitSteps
<1>2. Routes /\ Accepted
  BY <1>1 DEF StartInv
<1>3. Mode \in {"user", "system"}
  BY <1>1, <1>2 DEF Routes, Accepted, Mode, Modes
<1>4. daemon_refs = 1 \/ "daemon" \notin held
  BY <1>1, <1>2, <1>3 DEF Routes, ForUser, ForSystem, AppParts
<1>5. "daemon" \notin AfterUnref(daemon_refs) /\ AfterUnref(daemon_refs) \subseteq held
  BY <1>4, DroppedDaemon
<1>6. {"bound", "cancellable", "delegate", "session_callback", "listener"}
        \subseteq DaemonParts \ {"daemon"}
  BY DEF DaemonParts, ListenerParts
<1> USE DEF inputs, services, Continue, Fail, PlainTypes, RefsInv, Steps
<1>7. CASE NewListener
  BY <1>5, <1>6, <1>7 DEF NewListener
<1>8. CASE BindListener
  BY <1>5, <1>6, <1>8 DEF BindListener
<1>9. QED
  BY <1>7, <1>8

(* A failing bus takes the daemon along with its last reference.         *)
LEMMA BusFailureKeepsTypes ==
    ASSUME PlainTypes, NEW refs \in 1 .. 2, BusFailure(refs) PROVE PlainTypes' /\ RefsInv'
<1>1. AfterUnref(refs) \subseteq held /\ (refs = 1 => "daemon" \notin AfterUnref(refs))
  BY DEF AfterUnref, DaemonParts
<1>2. QED
  BY <1>1 DEF BusFailure, ResetAll, Fail, inputs, services, PlainTypes, RefsInv, Steps

(* The steps of start_bus keep them.                                     *)
LEMMA BusKeepsTypes ==
    ASSUME PlainTypes, RefsInv, ConnectBus \/ OwnName \/ ExportDispatcher
    PROVE  PlainTypes' /\ RefsInv'
<1>1. ASSUME NEW refs \in 1 .. 2, BusFailure(refs) PROVE PlainTypes' /\ RefsInv'
  BY <1>1, BusFailureKeepsTypes
<1>2. {"connection", "name", "dispatcher", "handover_manager"} \subseteq DaemonParts \ {"daemon"}
  BY DEF DaemonParts, BusParts
<1>3. ASSUME NEW parts, NEW next \in Steps, parts \subseteq DaemonParts \ {"daemon"},
             next # "ended", pc # "ended", Continue(parts, next),
             daemon_refs' = daemon_refs \/ daemon_refs' = 2,
             UNCHANGED <<inputs, config, tls, geometry, events, services>>
      PROVE  PlainTypes' /\ RefsInv'
  BY <1>3 DEF Continue, inputs, geometry, services, PlainTypes, RefsInv
<1>4. CASE ConnectBus
  BY <1>1, <1>2, <1>3, <1>4 DEF ConnectBus, Steps
<1>5. CASE OwnName
  BY <1>1, <1>2, <1>3, <1>5 DEF OwnName, Steps
<1>6. CASE ExportDispatcher
  BY <1>1, <1>2, <1>3, <1>6 DEF ExportDispatcher, Steps
<1>7. QED
  BY <1>4, <1>5, <1>6

(* The steps of the handover daemon's start keep them.                   *)
LEMMA HandoverKeepsTypes ==
    ASSUME StartInv, PlainTypes, RefsInv,
           ConnectDispatcher \/ RequestHandover \/ ConnectHandover \/ StartHandover
    PROVE  PlainTypes' /\ RefsInv'
<1>1. pc \in OnTheWay /\ pc \in HandoverSteps
  BY DEF ConnectDispatcher, RequestHandover, ConnectHandover, StartHandover, OnTheWay, Steps, ExitSteps,
         HandoverSteps
<1>2. daemon_refs = 1
  BY <1>1 DEF StartInv, Routes, ForHandover
<1>3. "daemon" \notin AfterUnref(daemon_refs) /\ AfterUnref(daemon_refs) \subseteq held
  BY <1>2, DroppedDaemon
<1>4. {"dispatcher_proxy", "credentials", "listener", "session_callback", "object_path",
       "handover_proxy"} \subseteq DaemonParts \ {"daemon"}
  BY DEF DaemonParts, ListenerParts, ProxyParts
<1> USE DEF inputs, services, Continue, Fail, DropDaemon, PlainTypes, RefsInv, Steps
<1>5. CASE ConnectDispatcher
  BY <1>3, <1>4, <1>5 DEF ConnectDispatcher
<1>6. CASE RequestHandover
  BY <1>3, <1>4, <1>6 DEF RequestHandover
<1>7. CASE ConnectHandover
  BY <1>3, <1>4, <1>7 DEF ConnectHandover
<1>8. CASE StartHandover
  BY <1>3, <1>4, <1>8 DEF StartHandover
<1>9. QED
  BY <1>5, <1>6, <1>7, <1>8

(* What the main loop dispatches and what the sessions do keep them.       *)
LEMMA LoopKeepsTypes ==
    ASSUME PlainTypes, RefsInv,
           Loop \/ RaiseSignal \/ StreamStarts \/ StreamStops \/ Ended \/ UNCHANGED vars
    PROVE  PlainTypes' /\ RefsInv'
<1> USE DEF inputs, geometry, services, PlainTypes, RefsInv, Idle, Quit, Steps
<1>1. CASE RaiseSignal \/ StreamStarts \/ StreamStops \/ Ended \/ UNCHANGED vars
  BY <1>1 DEF RaiseSignal, StreamStarts, StreamStops, Ended, vars
<1>2. CASE QuitTimer \/ NameLost
  BY <1>2 DEF QuitTimer, NameLost
<1>3. CASE ServeClient \/ ClientServed \/ ClientRedirected
  BY <1>3 DEF ServeClient, ClientServed, ClientRedirected
<1>4. ASSUME NEW signal, DispatchSignal(signal) PROVE PlainTypes' /\ RefsInv'
  BY <1>4 DEF DispatchSignal
<1>5. QED
  BY <1>1, <1>2, <1>3, <1>4 DEF Loop

(* The exit gives back a reference only if there is one.                   *)
LEMMA ExitKeepsTypes ==
    ASSUME PlainTypes, RefsInv, RemoveSources \/ StopServing \/ Release
    PROVE  PlainTypes' /\ RefsInv'
<1> USE DEF inputs, geometry, services, PlainTypes, RefsInv, Steps
<1>1. CASE RemoveSources
  BY <1>1 DEF RemoveSources
<1>2. CASE StopServing
  BY <1>2 DEF StopServing
<1>3. CASE Release
  <2>1. AfterUnref(daemon_refs) \subseteq held
    BY DEF AfterUnref
  <2>2. held' \subseteq held /\ pc = "release" /\ pc' = "ended"
    BY <1>3, <2>1 DEF Release
  <2>3. daemon_refs' \in 0 .. 2
    BY <1>3 DEF Release
  <2>4. QED
    BY <1>3, <2>2, <2>3 DEF Release
<1>4. QED
  BY <1>1, <1>2, <1>3

(* Every variable keeps its type, in every mode and on every path: also    *)
(* the references to the daemon and the timers of the signals stay within  *)
(* their bounds.                                                           *)
THEOREM TypeCorrect == Spec => []TypeOK
<1>1. Init => PlainTypes /\ RefsInv /\ SignalsInv
  <2> SUFFICES ASSUME Init PROVE PlainTypes /\ RefsInv /\ SignalsInv
    OBVIOUS
  <2>1. PlainTypes /\ RefsInv
    <3>1. stream \in BOOLEAN /\ serving \in BOOLEAN
      BY Zenon DEF Init
    <3>2. /\ file \in Files \union {NoFile} /\ cli \in Clis /\ uid \in Uids
          /\ held = {"runtime"} /\ pc = "parse" /\ tls = "none" /\ runtime_size = "none"
          /\ listener_size = "none" /\ daemon_refs = 0 /\ result = "none"
      BY DEF Init
    <3>3. QED
      BY <3>1, <3>2 DEF PlainTypes, RefsInv, Steps, AppParts
  <2>2. signals = {} /\ timers = 0 /\ raised = 0
    BY DEF Init
  <2>3. SignalsInv
    BY <2>2, SignalsAssumption DEF SignalsInv, Waiting
  <2>4. QED
    BY <2>1, <2>3
<1>2. StartInv /\ PlainTypes /\ RefsInv /\ SignalsInv /\ [Next]_vars
        => PlainTypes' /\ RefsInv' /\ SignalsInv'
  <2> SUFFICES ASSUME StartInv, PlainTypes, RefsInv, SignalsInv, [Next]_vars
               PROVE  PlainTypes' /\ RefsInv' /\ SignalsInv'
    OBVIOUS
  <2>1. PlainTypes' /\ RefsInv'
    BY PreparationKeepsTypes, ListenerKeepsTypes, BusKeepsTypes, HandoverKeepsTypes,
       LoopKeepsTypes, ExitKeepsTypes DEF Next, Start
  <2>2. SignalsInv'
    BY StepKeepsSignalsInv
  <2>3. QED
    BY <2>1, <2>2
<1>3. PlainTypes /\ SignalsInv => TypeOK
  <2> SUFFICES ASSUME PlainTypes, SignalsInv PROVE TypeOK
    OBVIOUS
  <2>1. Waiting \in Nat
    BY DEF Waiting
  <2>2. timers \in 0 .. MaxSignals
    BY <2>1, SignalsAssumption DEF SignalsInv
  <2>3. QED
    BY <2>2 DEF PlainTypes, SignalsInv, TypeOK
<1>4. QED
  BY <1>1, <1>2, <1>3, StartInvariance, PTL DEF Spec
=============================================================================
