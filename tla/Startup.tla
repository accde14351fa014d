------------------------------- MODULE Startup -------------------------------
(***************************************************************************)
(* One run of the program from its options to its exit: the application    *)
(* object (src/core/drd_application.c) and the parts of the listener, the  *)
(* system daemon and the handover daemon that it starts and releases.      *)
(*                                                                         *)
(* Starting is sequential and runs before the main loop; each step may     *)
(* fail.  What arrives meanwhile (signals, the loss of the bus name, the   *)
(* daemon's RedirectClient) waits until the loop runs.  `held' is what the *)
(* process holds at that moment: objects, the bound port, the bus name.    *)
(***************************************************************************)
EXTENDS Config, FiniteSets

CONSTANTS
    Files,         \* key files
    NoFile,        \* --config is not given
    Clis,          \* command lines
    MaxSignals     \* bound: SIGINT and SIGTERM received

ASSUME SignalsAssumption == MaxSignals \in Nat \ {0}

Uids == {"root", "greeter", "user"}   \* 0; another below 1000; 1000 and above

VARIABLES
    file, cli, uid,   \* how the program is run
    config,           \* Null before the options are parsed
    pc,               \* the step that comes next
    held,             \* what the process holds
    tls,              \* the credentials' content: "none", "empty" or "pem"
    runtime_size,     \* the runtime's encoding geometry: "none", "config" or "display"
    listener_size,    \* the listener's copy of it
    daemon_refs,      \* references to the mode's daemon
    signals,          \* signals not yet dispatched
    timers,           \* quit_loop timers
    raised,
    stream,           \* the runtime's stream_running
    serving,          \* the main thread is in a handler that works for a client
    result            \* "none", "failure" or "success"

inputs == <<file, cli, uid>>
geometry == <<runtime_size, listener_size>>
events == <<signals, timers, raised>>
services == <<stream, serving>>
vars == <<file, cli, uid, config, pc, held, tls, runtime_size, listener_size, daemon_refs, signals,
          timers, raised, stream, serving, result>>

AppParts == {"signals", "loop", "runtime", "tls"}
BusParts == {"connection", "name", "dispatcher", "handover_manager"}
ListenerParts == {"listener", "bound", "cancellable", "delegate", "session_callback"}
ProxyParts == {"dispatcher_proxy", "object_path", "handover_proxy"}
DaemonParts == BusParts \union ListenerParts \union ProxyParts \union {"credentials", "daemon"}
Steps == {"parse", "setup", "prepare", "display", "daemon", "listener", "bind", "connection",
          "name", "export", "dispatcher_proxy", "request_handover", "handover_proxy",
          "start_handover", "loop", "dispose", "stop", "release", "ended"}
ExitSteps == {"dispose", "stop", "release", "ended"}

(* Every variable has its type, in every mode and on every path.           *)
TypeOK ==
    /\ file \in Files \union {NoFile} /\ cli \in Clis /\ uid \in Uids
    /\ pc \in Steps /\ held \subseteq AppParts \union DaemonParts
    /\ tls \in {"none", "empty", "pem"}
    /\ runtime_size \in {"none", "config", "display"}
    /\ listener_size \in {"none", "config", "display"}
    /\ daemon_refs \in 0 .. 2
    /\ signals \subseteq {"INT", "TERM"} /\ timers \in 0 .. MaxSignals /\ raised \in 0 .. MaxSignals
    /\ stream \in BOOLEAN /\ serving \in BOOLEAN /\ result \in {"none", "failure", "success"}

(* drd_application_init *)
Init ==
    /\ file \in Files \union {NoFile} /\ cli \in Clis /\ uid \in Uids
    /\ config = Null /\ pc = "parse" /\ held = {"runtime"} /\ tls = "none"
    /\ runtime_size = "none" /\ listener_size = "none" /\ daemon_refs = 0
    /\ signals = {} /\ timers = 0 /\ raised = 0 /\ result = "none"
    /\ stream = FALSE /\ serving = FALSE

Mode == config.runtime_mode

(* A step that succeeds with more in hand, and a step that fails; `rest' is *)
(* what the code has not released by then.                                 *)
Continue(parts, next) == held' = held \union parts /\ pc' = next /\ UNCHANGED result
Fail(rest) == held' = rest /\ pc' = "dispose" /\ result' = "failure"

(* Dropping one reference to the daemon; the last one disposes it.         *)
AfterUnref(refs) == IF refs = 1 THEN held \ DaemonParts ELSE held

-----------------------------------------------------------------------------
(* drd_application_parse_options.  Conflicting switches and a file that    *)
(* cannot be read or is rejected end the run before the options are        *)
(* merged; system mode needs root.                                         *)
Conflicts ==
    \/ {"enable_diff", "disable_diff"} \subseteq DOMAIN cli
    \/ {"enable_nla", "disable_nla"} \subseteq DOMAIN cli
Base == IF file = NoFile THEN NewConfig("cwd") ELSE NewFromFile(file, "config_dir")
OptionsAccepted ==
    /\ ~Conflicts
    /\ file # NoFile => FileAccepted(file)
    /\ MergeAccepted(Base, cli)
    /\ MergeCli(Base, cli).runtime_mode = "system" => uid = "root"

ParseOptions ==
    /\ pc = "parse"
    /\ \/ OptionsAccepted /\ config' = MergeCli(Base, cli) /\ Continue({}, "setup")
       \/ (~OptionsAccepted \/ file # NoFile) /\ Fail(held) /\ UNCHANGED config
    /\ UNCHANGED <<inputs, tls, geometry, daemon_refs, events, services>>

(* drd_application_run: the loop and the two signal sources.               *)
SetUp ==
    /\ pc = "setup" /\ Continue({"loop", "signals"}, "prepare")
    /\ UNCHANGED <<inputs, config, tls, geometry, daemon_refs, events, services>>

(* drd_application_prepare_runtime: checks that repeat those of the merge, *)
(* the credentials, the geometry.  A handover daemon gets its credentials' *)
(* content later, from the system daemon.                                  *)
LateChecks ==
    /\ Mode # "handover" => config.certificate_path # Null /\ config.private_key_path # Null
    /\ config.nla_enabled /\ Mode # "handover" =>
           config.nla_username # Null /\ config.nla_password # Null
    /\ ~config.nla_enabled => config.pam_service # Null

PrepareCredentials ==
    /\ pc = "prepare"
    /\ \/ /\ LateChecks
          /\ tls' = IF Mode = "handover" THEN "empty" ELSE "pem"
          /\ runtime_size' = IF Mode = "system" THEN "config" ELSE runtime_size
          /\ Continue({"tls"}, IF Mode = "system" THEN "daemon" ELSE "display")
       \/ /\ LateChecks => Mode # "handover"      \* a PEM file is missing or malformed
          /\ Fail(held) /\ UNCHANGED <<tls, runtime_size>>
    /\ UNCHANGED <<inputs, config, listener_size, daemon_refs, events, services>>

QueryDisplay ==
    /\ pc = "display"
    /\ \/ runtime_size' = "display" /\ Continue({}, IF Mode = "user" THEN "listener" ELSE "daemon")
       \/ Fail(held) /\ UNCHANGED runtime_size
    /\ UNCHANGED <<inputs, config, tls, listener_size, daemon_refs, events, services>>

(* drd_system_daemon_new, drd_handover_daemon_new and set_main_loop.       *)
NewDaemon ==
    /\ pc = "daemon"
    /\ daemon_refs' = 1
    /\ Continue({"daemon"}, IF Mode = "system" THEN "listener" ELSE "dispatcher_proxy")
    /\ UNCHANGED <<inputs, config, tls, geometry, events, services>>

-----------------------------------------------------------------------------
(* drd_rdp_listener_new refuses an incomplete login.                       *)
ListenerAccepts(username, password) ==
    /\ ~Empty(config.pam_service)
    /\ config.nla_enabled => ~Empty(username) /\ ~Empty(password)
ConfiguredLogin == ListenerAccepts(config.nla_username, config.nla_password)

(* drd_application_start_listener and drd_system_daemon_start_listener up  *)
(* to the bind.  The user's listener takes the geometry just determined,   *)
(* the system daemon's that of the configuration.                          *)
NewListener ==
    /\ pc = "listener"
    /\ \/ /\ ConfiguredLogin
          /\ listener_size' = IF Mode = "user" THEN runtime_size ELSE "config"
          /\ Continue({"listener"}, "bind") /\ UNCHANGED daemon_refs
       \/ /\ ~ConfiguredLogin
          /\ Fail(AfterUnref(daemon_refs)) /\ daemon_refs' = 0 /\ UNCHANGED listener_size
    /\ UNCHANGED <<inputs, config, tls, runtime_size, events, services>>

(* drd_rdp_listener_start.  A listener that cannot be bound is dropped,    *)
(* and the system daemon with it.                                          *)
BindListener ==
    /\ pc = "bind"
    /\ \/ Mode = "user" /\ Continue({"bound"}, "loop") /\ UNCHANGED <<listener_size, daemon_refs>>
       \/ /\ Mode = "system"
          /\ Continue({"bound", "cancellable", "delegate", "session_callback"}, "connection")
          /\ UNCHANGED <<listener_size, daemon_refs>>
       \/ /\ Fail(AfterUnref(daemon_refs) \ {"listener"})
          /\ listener_size' = "none" /\ daemon_refs' = 0
    /\ UNCHANGED <<inputs, config, tls, runtime_size, events, services>>

-----------------------------------------------------------------------------
(* drd_system_daemon_start_bus.  Owning the name takes a reference to the  *)
(* daemon.  A failure stops the listener and resets the bus; giving up the *)
(* name drops the reference at once or, with the request still under way,  *)
(* never before the exit (external).                                       *)
ResetBusOnly(refs) == AfterUnref(refs) \ BusParts
ResetAll(refs) == AfterUnref(refs) \ (BusParts \union ListenerParts)
BusFailure(refs) ==
    /\ Fail(ResetAll(refs)) /\ daemon_refs' = refs - 1 /\ listener_size' = "none"
    /\ UNCHANGED <<inputs, config, tls, runtime_size, events, services>>

ConnectBus ==
    /\ pc = "connection"
    /\ \/ /\ Continue({"connection"}, "name")
          /\ UNCHANGED <<inputs, config, tls, geometry, daemon_refs, events, services>>
       \/ BusFailure(1)
OwnName ==
    /\ pc = "name"
    /\ \/ /\ Continue({"name"}, "export") /\ daemon_refs' = 2
          /\ UNCHANGED <<inputs, config, tls, geometry, events, services>>
       \/ BusFailure(1)
ExportDispatcherUnchecked ==
    /\ pc = "export"
    /\ \/ Continue({"handover_manager"}, "loop")
       \/ Continue({"dispatcher", "handover_manager"}, "loop")
    /\ UNCHANGED <<inputs, config, tls, geometry, daemon_refs, events, services>>
ExportDispatcher ==
    /\ pc = "export"
    /\ \/ /\ Continue({"dispatcher", "handover_manager"}, "loop")
          /\ UNCHANGED <<inputs, config, tls, geometry, daemon_refs, events, services>>
       \/ \E refs \in 1 .. 2 : BusFailure(refs)

-----------------------------------------------------------------------------
(* drd_handover_daemon_start: the dispatcher's proxy, generated NLA        *)
(* credentials and a listener that is never bound; the client's object;    *)
(* StartHandover, which answers with the TLS material.  The application    *)
(* drops a daemon that cannot start.                                       *)
Generated == "handover-token"
ASSUME GeneratedAssumption == Generated # Null     \* it is a text
DropDaemon == Fail(AfterUnref(daemon_refs)) /\ daemon_refs' = 0
ConnectDispatcher ==
    /\ pc = "dispatcher_proxy"
    /\ \/ /\ ListenerAccepts(Generated, Generated)
          /\ Continue({"dispatcher_proxy", "credentials", "listener", "session_callback"},
                      "request_handover")
          /\ listener_size' = "config" /\ UNCHANGED daemon_refs
       \/ DropDaemon /\ UNCHANGED listener_size
    /\ UNCHANGED <<inputs, config, tls, runtime_size, events, services>>
RequestHandover ==
    /\ pc = "request_handover"
    /\ \/ Continue({"object_path"}, "handover_proxy") /\ UNCHANGED <<listener_size, daemon_refs>>
       \/ DropDaemon /\ listener_size' = "none"
    /\ UNCHANGED <<inputs, config, tls, runtime_size, events, services>>
ConnectHandover ==
    /\ pc = "handover_proxy"
    /\ \/ Continue({"handover_proxy"}, "start_handover") /\ UNCHANGED <<listener_size, daemon_refs>>
       \/ DropDaemon /\ listener_size' = "none"
    /\ UNCHANGED <<inputs, config, tls, runtime_size, events, services>>
StartHandover ==
    /\ pc = "start_handover"
    /\ \/ tls' = "pem" /\ Continue({}, "loop") /\ UNCHANGED <<listener_size, daemon_refs>>
       \/ DropDaemon /\ listener_size' = "none" /\ UNCHANGED tls
    /\ UNCHANGED <<inputs, config, runtime_size, events, services>>

-----------------------------------------------------------------------------
(* The main loop.  It dispatches one thing at a time: while a handler      *)
(* works for a client, and waits for its bytes or for a thread of its, all *)
(* else has to wait.                                                       *)
Quit == pc' = "dispose" /\ result' = "success"
Idle == pc = "loop" /\ ~serving

(* External: the operator or systemd.  Before the sources are installed,   *)
(* and again once they are removed, a signal ends the process.             *)
RaiseSignal ==
    /\ "signals" \in held /\ raised < MaxSignals
    /\ \E signal \in {"INT", "TERM"} : signals' = signals \union {signal}
    /\ raised' = raised + 1
    /\ UNCHANGED <<inputs, config, pc, held, tls, geometry, daemon_refs, timers, services, result>>

SignalIgnoredAtGreeter(signal) ==
    /\ Idle /\ signal \in signals /\ signals' = signals \ {signal}
    /\ \/ (Mode # "handover" \/ uid = "user") /\ Quit
       \/ Mode = "handover" /\ uid # "user" /\ UNCHANGED <<pc, result>>
    /\ UNCHANGED <<inputs, config, held, tls, geometry, daemon_refs, timers, raised, services>>
(* drd_application_on_signal: a greeter's handover daemon stays for five   *)
(* seconds, so that its client can still be redirected.                    *)
DispatchSignal(signal) ==
    /\ Idle /\ signal \in signals /\ signals' = signals \ {signal}
    /\ \/ (Mode # "handover" \/ uid = "user") /\ Quit /\ UNCHANGED timers
       \/ Mode = "handover" /\ uid # "user" /\ timers' = timers + 1 /\ UNCHANGED <<pc, result>>
    /\ UNCHANGED <<inputs, config, held, tls, geometry, daemon_refs, raised, services>>
QuitTimer ==
    /\ Idle /\ timers > 0 /\ timers' = timers - 1 /\ Quit
    /\ UNCHANGED <<inputs, config, held, tls, geometry, daemon_refs, signals, raised, services>>

(* drd_system_daemon_on_bus_name_lost *)
NameLost ==
    /\ Idle /\ "name" \in held /\ Quit
    /\ UNCHANGED <<inputs, config, held, tls, geometry, daemon_refs, events, services>>

(* drd_rdp_listener_incoming, and the handlers of D-Bus signals that read  *)
(* a client's routing token or disconnect it.  RdpSession, Handover and    *)
(* Admission model what they do; here only that they may not return.       *)
ServeClient ==
    /\ Idle /\ serving' = TRUE
    /\ UNCHANGED <<inputs, config, pc, held, tls, geometry, daemon_refs, events, stream, result>>
ClientServed ==
    /\ pc = "loop" /\ serving /\ serving' = FALSE
    /\ UNCHANGED <<inputs, config, pc, held, tls, geometry, daemon_refs, events, stream, result>>

(* drd_handover_daemon_on_redirect_client, when the client could be        *)
(* redirected: the session's threads joined, drd_handover_daemon_stop,     *)
(* whose listener stops the runtime, and the end of the loop.              *)
ClientRedirected ==
    /\ pc = "loop" /\ serving /\ Mode = "handover" /\ Quit
    /\ held' = held \ (ProxyParts \union ListenerParts) /\ listener_size' = "none"
    /\ stream' = FALSE /\ serving' = FALSE
    /\ UNCHANGED <<inputs, config, tls, runtime_size, daemon_refs, events>>

(* A session's event thread starts the stream when its client activates,   *)
(* and stops it when the last session is gone; also during the exit.  A    *)
(* system daemon's sessions are passive.                                   *)
StreamStarts ==
    /\ pc \in ExitSteps \union {"loop"} /\ "listener" \in held /\ Mode # "system"
    /\ ~stream /\ stream' = TRUE
    /\ UNCHANGED <<inputs, config, pc, held, tls, geometry, daemon_refs, events, serving, result>>
StreamStops ==
    /\ stream /\ stream' = FALSE
    /\ UNCHANGED <<inputs, config, pc, held, tls, geometry, daemon_refs, events, serving, result>>

-----------------------------------------------------------------------------
(* drd_application_dispose: the signal sources first.                      *)
RemoveSources ==
    /\ pc = "dispose" /\ pc' = "stop"
    /\ held' = held \ {"signals"} /\ signals' = {}
    /\ UNCHANGED <<inputs, config, tls, geometry, daemon_refs, timers, raised, services, result>>

(* drd_rdp_listener_stop for user mode's listener, the only one that the   *)
(* application refers to, and drd_server_runtime_stop, which joins the     *)
(* capture thread of a running stream: with `stream' set the step may      *)
(* never be taken.  The sessions' own threads are not waited for.          *)
StopServing ==
    /\ pc = "stop" /\ pc' = "release" /\ stream' = FALSE
    /\ \/ /\ "daemon" \in held
          /\ held' = held \ {"runtime"} /\ UNCHANGED listener_size
       \/ /\ "daemon" \notin held
          /\ held' = held \ (ListenerParts \union {"runtime"}) /\ listener_size' = "none"
    /\ UNCHANGED <<inputs, config, tls, runtime_size, daemon_refs, events, serving, result>>

(* The mode's daemon, which the application refers to only when it has     *)
(* started, the credentials and the loop.  A handover daemon's listener    *)
(* stops a stream that was started since.  The system daemon is still      *)
(* referenced by the bus name it owns and is not disposed.                 *)
Release ==
    /\ pc = "release" /\ pc' = "ended" /\ stream' = FALSE
    /\ \/ /\ "daemon" \in held /\ result = "success"
          /\ held' = AfterUnref(daemon_refs) \ AppParts /\ daemon_refs' = daemon_refs - 1
       \/ /\ "daemon" \in held => result = "failure"
          /\ held' = held \ AppParts /\ UNCHANGED daemon_refs
    /\ tls' = "none" /\ listener_size' = "none"
    /\ UNCHANGED <<inputs, config, runtime_size, events, serving, result>>

Ended == pc = "ended" /\ UNCHANGED vars

Start ==
    \/ ParseOptions \/ SetUp \/ PrepareCredentials \/ QueryDisplay \/ NewDaemon
    \/ NewListener \/ BindListener \/ ConnectBus \/ OwnName \/ ExportDispatcher
    \/ ConnectDispatcher \/ RequestHandover \/ ConnectHandover \/ StartHandover
Loop ==
    \/ \E signal \in {"INT", "TERM"} : DispatchSignal(signal)
    \/ QuitTimer \/ NameLost \/ ServeClient \/ ClientServed \/ ClientRedirected
Next ==
    \/ Start \/ Loop \/ RaiseSignal \/ StreamStarts \/ StreamStops
    \/ RemoveSources \/ StopServing \/ Release \/ Ended

Spec == Init /\ [][Next]_vars

(* The main thread goes on whenever it can.  Every call of the start       *)
(* returns (the D-Bus ones time out); the loop dispatches what is due when *)
(* no handler keeps it; the exit proceeds when no stream runs.  Nothing    *)
(* promises that a handler returns or that a running stream stops.         *)
MainThread ==
    \/ Start \/ (\E signal \in {"INT", "TERM"} : DispatchSignal(signal)) \/ QuitTimer
    \/ RemoveSources \/ (~stream /\ (StopServing \/ Release))
FairSpec == Spec /\ SF_vars(MainThread)

-----------------------------------------------------------------------------
(* The options in force are the ones meant: the command line before the    *)
(* file before the default, for the port and for the runtime mode; NLA by  *)
(* the nearest switch that speaks of it; and the PAM service follows the   *)
(* mode finally chosen, not the one the file had, unless it is named.      *)
OptionsAsGiven ==
    pc \notin ExitSteps \union {"parse"} =>
        LET f == IF file = NoFile THEN <<>> ELSE file
        IN /\ config.runtime_mode = MeantMode(f, cli)
           /\ config.nla_enabled = MeantNla(f, cli)
           /\ config.pam_service = MeantPamService(f, cli)
           /\ config.port = MeantPort(f, cli)

(* What the merge has accepted is enough for the rest of the start: the    *)
(* checks that prepare_runtime repeats ("missing after config merge") and  *)
(* those of drd_rdp_listener_new cannot fail, in any mode.                 *)
LateChecksHold ==
    /\ pc = "prepare" => LateChecks
    /\ pc = "listener" => ConfiguredLogin
    /\ pc = "dispatcher_proxy" => ListenerAccepts(Generated, Generated)

(* No event is dispatched before the mode is wholly in place: whenever the *)
(* loop runs, its sources are installed, the credentials hold a key, and   *)
(* the listener has all that its mode needs and announces the desktop size *)
(* that the runtime encodes; only a handover daemon, which adopts its      *)
(* clients, has no port, and its listener the configured size instead.     *)
ServiceReady ==
    pc = "loop" =>
        /\ {"loop", "signals", "runtime", "listener"} \subseteq held /\ tls = "pem"
        /\ runtime_size # "none" /\ (Mode # "handover" => listener_size = runtime_size)
        /\ ("bound" \in held) <=> (Mode # "handover")
        /\ Mode = "system" => BusParts \union {"delegate", "session_callback"} \subseteq held
        /\ Mode = "handover" => ProxyParts \union {"credentials", "session_callback"} \subseteq held

(* However far the start came and whatever ended the loop, the exit finds  *)
(* the port closed and the bus left, except that a system daemon that was  *)
(* started keeps them until the process is gone.                           *)
ReleasedAtExit ==
    pc = "ended" =>
        \/ held \subseteq {"daemon"}
        \/ Mode = "system" /\ result = "success"

(* A signal ends the program, also one that comes while it starts, unless  *)
(* the main thread waits for ever: in a handler for one of the clients, or *)
(* at the exit for a stream to stop.                                       *)
Waits == (pc = "loop" /\ serving) \/ (pc \in ExitSteps /\ stream)
SignalEndsRun == ((signals # {}) ~> (pc = "ended")) \/ <>[]Waits
=============================================================================
