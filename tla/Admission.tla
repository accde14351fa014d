------------------------------ MODULE Admission ------------------------------
(***************************************************************************)
(* How a connection is admitted: the routing token read from its first     *)
(* request (src/transport/drd_rdp_routing_token.c), the peer's credentials *)
(* and security settings (drd_rdp_listener.c, security/drd_nla_sam.c) and, *)
(* without NLA, the login through PAM (security/drd_local_session.c).      *)
(*                                                                         *)
(* The main thread reads the request, configures the peer and starts its   *)
(* event thread, on which FreeRDP runs the handshake and the callbacks;    *)
(* later it may disconnect the session again.  What becomes of the stream  *)
(* is RdpSession's, what becomes of a redirected client Handover's.        *)
(***************************************************************************)
EXTENDS Naturals, FiniteSets

CONSTANTS
    Peers,        \* connections
    Requests,     \* connection requests a client may send
    FaultSets     \* the sets of faults to consider, subsets of FaultKinds

(* silent_client: a client stops before its connection request is whole.   *)
(* login_refused: a login of Client Info is missing, or PAM refuses it.    *)
(* early_callbacks: FreeRDP has gone through the whole handshake before    *)
(*   the main thread, which started it, executes its next statement.       *)
(* client_departs: a client leaves by itself once its login has begun.     *)
FaultKinds == {"silent_client", "login_refused", "early_callbacks", "client_departs"}

ASSUME FaultsAssumption == FaultSets \subseteq SUBSET FaultKinds
ASSUME RequestsAssumption ==
    Requests \subseteq [version : Nat, length : Nat, x224 : BOOLEAN,
                        cookie : {"none", "unterminated", "complete"},
                        negotiation : {"none", "malformed", "rdstls", "other"}]

VARIABLES
    mode, nla_enabled,       \* of the listener
    faults,                  \* external: the faults that may occur
    nla_password, nla_hash,  \* the listener has them
    sessions,                \* the array of sessions
    main,                    \* what the main thread is doing, and for which peer
    received,                \* external: of its request: "nothing", "header" or "all"
    up,                      \* external: the client: "new", "up" or "gone"
    thread,                  \* the event thread's place
    alive,                   \* connection_alive
    listener_set,            \* ctx->listener # NULL
    nla_sam,                 \* the peer's SAM file is on disk
    pam,                     \* external: what PAM holds for the peer
    local_session,           \* session->local_session # NULL
    is_activated,
    released,                \* session->peer = NULL: the session was disconnected
    geometry                 \* whose desktop size the runtime has been given

credentials == <<nla_password, nla_hash>>
client == <<received, up>>
login == <<pam, local_session>>
vars == <<mode, nla_enabled, faults, nla_password, nla_hash, sessions, main, received, up,
          thread, alive, listener_set, nla_sam, pam, local_session, is_activated, released,
          geometry>>
setting == <<mode, nla_enabled, faults>>
status == <<is_activated, released, geometry>>

Nobody == "nobody"
MainLoop == [pc |-> "loop", peer |-> Nobody]
At(pc, c) == [pc |-> pc, peer |-> c]
MainSteps == {"header", "request", "accept", "hash", "sam", "start", "publish", "join"}
LoginSteps == {"start", "authenticate", "account", "credentials", "open"}
Admitted == LoginSteps \union {"connected", "active"}
Threads == {"none", "handshake", "capable", "connected", "active", "joins_self", "over"}
           \union LoginSteps

(* Every variable has its type, whichever step of an admission fails.      *)
TypeOK ==
    /\ mode \in {"user", "system", "handover"} /\ nla_enabled \in BOOLEAN /\ faults \in FaultSets
    /\ nla_password \in BOOLEAN /\ nla_hash \in BOOLEAN
    /\ sessions \subseteq Peers
    /\ main = MainLoop \/ main \in [pc : MainSteps, peer : Peers]
    /\ up \in [Peers -> {"new", "up", "gone"}]
    /\ received \in [Peers -> {"nothing", "header", "all"}]
    /\ thread \in [Peers -> Threads] /\ alive \in [Peers -> BOOLEAN]
    /\ listener_set \in [Peers -> BOOLEAN] /\ nla_sam \in [Peers -> BOOLEAN]
    /\ pam \in [Peers -> SUBSET {"handle", "credentials", "session"}]
    /\ local_session \in [Peers -> BOOLEAN] /\ is_activated \in [Peers -> BOOLEAN]
    /\ released \in [Peers -> BOOLEAN] /\ geometry \in Peers \union {Nobody}

(* drd_rdp_listener_new: only a system daemon may do without NLA, the      *)
(* configuration sees to that.                                             *)
Init ==
    /\ mode \in {"user", "system", "handover"} /\ nla_enabled \in BOOLEAN
    /\ nla_enabled \/ mode = "system"
    /\ faults \in FaultSets
    /\ nla_password = nla_enabled /\ nla_hash = FALSE
    /\ sessions = {} /\ main = MainLoop /\ geometry = Nobody
    /\ received = [c \in Peers |-> "nothing"]
    /\ up = [c \in Peers |-> "new"]
    /\ thread = [c \in Peers |-> "none"]
    /\ alive = [c \in Peers |-> FALSE]
    /\ listener_set = [c \in Peers |-> FALSE]
    /\ nla_sam = [c \in Peers |-> FALSE]
    /\ pam = [c \in Peers |-> {}]
    /\ local_session = [c \in Peers |-> FALSE]
    /\ is_activated = [c \in Peers |-> FALSE]
    /\ released = [c \in Peers |-> FALSE]

-----------------------------------------------------------------------------
(* The connection request.  drd_routing_token_peek waits for its four      *)
(* bytes of header and then for all of it, each time until it is there: a  *)
(* timeout of g_poll and the end of the stream only start another round.   *)
HeaderAccepted(r) == r.version = 3 /\ r.length >= 11

(* The negotiation request is looked at only behind a routing token.       *)
RequestAccepted(r) == r.x224 /\ (r.cookie = "complete" => r.negotiation # "malformed")

(* drd_rdp_listener_incoming: a system daemon's delegate first.            *)
Incoming(c) ==
    /\ main = MainLoop /\ up[c] = "up" /\ thread[c] = "none"
    /\ main' = At(IF mode = "system" THEN "header" ELSE "accept", c)
    /\ UNCHANGED <<setting, credentials, sessions, client, thread, alive, listener_set, nla_sam,
                   login, status>>

(* The connection is dropped, or kept for a handover daemon: either way    *)
(* this listener is done with it.                                          *)
Done(c) == main' = MainLoop /\ up' = [up EXCEPT ![c] = "gone"]

PeekHeader(c, r) ==
    /\ main = At("header", c) /\ received[c] # "nothing"
    /\ IF HeaderAccepted(r) THEN main' = At("request", c) /\ UNCHANGED up ELSE Done(c)
    /\ UNCHANGED <<setting, credentials, sessions, received, thread, alive, listener_set,
                   nla_sam, login, status>>

(* The rest of the peek and drd_system_daemon_delegate: done with the      *)
(* connection when the request is malformed, when its token is that of a   *)
(* client to be handed over, or when the queue is full (Handover).         *)
PeekRequest(c, r) ==
    /\ main = At("request", c) /\ received[c] = "all" /\ HeaderAccepted(r)
    /\ \/ RequestAccepted(r) /\ main' = At("accept", c) /\ UNCHANGED up
       \/ Done(c)
    /\ UNCHANGED <<setting, credentials, sessions, received, thread, alive, listener_set,
                   nla_sam, login, status>>

-----------------------------------------------------------------------------
(* drd_rdp_listener_accept_peer.  A peer is refused while there is a       *)
(* session; its creation and any of the steps that follow may fail.        *)
AcceptPeer(c) ==
    /\ main = At("accept", c)
    /\ \/ sessions = {} /\ main' = At(IF nla_enabled THEN "hash" ELSE "start", c) /\ UNCHANGED up
       \/ Done(c)
    /\ UNCHANGED <<setting, credentials, sessions, received, thread, alive, listener_set,
                   nla_sam, login, status>>

WipeFirst(c) ==
    /\ main = At("hash", c)
    /\ \/ /\ nla_hash \/ nla_password
          /\ nla_hash' = TRUE /\ nla_password' = FALSE /\ main' = At("sam", c) /\ UNCHANGED up
       \/ /\ ~nla_hash /\ nla_password' = FALSE /\ Done(c) /\ UNCHANGED nla_hash
    /\ UNCHANGED <<setting, sessions, received, thread, alive, listener_set, nla_sam,
                   login, status>>
(* drd_rdp_listener_ensure_nla_hash: the hash is made once and replaces    *)
(* the password, which is wiped; a failure keeps the password.             *)
EnsureNlaHash(c) ==
    /\ main = At("hash", c)
    /\ \/ nla_hash /\ main' = At("sam", c) /\ UNCHANGED <<credentials, up>>
       \/ /\ ~nla_hash /\ nla_password /\ nla_hash' = TRUE /\ nla_password' = FALSE
          /\ main' = At("sam", c) /\ UNCHANGED up
       \/ ~nla_hash /\ Done(c) /\ UNCHANGED credentials
    /\ UNCHANGED <<setting, sessions, received, thread, alive, listener_set, nla_sam,
                   login, status>>

(* drd_nla_sam_file_new: a file that cannot be written is unlinked.        *)
NewSamFile(c) ==
    /\ main = At("sam", c)
    /\ \/ nla_sam' = [nla_sam EXCEPT ![c] = TRUE] /\ main' = At("start", c) /\ UNCHANGED up
       \/ Done(c) /\ UNCHANGED nla_sam
    /\ UNCHANGED <<setting, credentials, sessions, received, thread, alive, listener_set,
                   login, status>>

(* The security a peer is offered: never plain RDP security.               *)
Security == {IF nla_enabled THEN "nla" ELSE "tls"}
            \union {s \in {"rdstls"} : mode = "handover"}

(* The remaining settings, the peer's initialisation, the channel manager  *)
(* and drd_rdp_session_start_event_thread.                                 *)
StartEventThread(c) ==
    /\ main = At("start", c)
    /\ \/ /\ thread' = [thread EXCEPT ![c] = "handshake"] /\ alive' = [alive EXCEPT ![c] = TRUE]
          /\ main' = At("publish", c) /\ UNCHANGED up
       \/ Done(c) /\ UNCHANGED <<thread, alive>>
    /\ UNCHANGED <<setting, credentials, sessions, received, listener_set, nla_sam, login,
                   status>>

(* ctx->listener, the array and the closed callback, which is called at    *)
(* once when the thread is already over (RdpSession has these in detail).  *)
Publish(c) ==
    /\ main = At("publish", c) /\ main' = MainLoop
    /\ listener_set' = [listener_set EXCEPT ![c] = TRUE]
    /\ sessions' = IF alive[c] THEN sessions \union {c} ELSE sessions
    /\ UNCHANGED <<setting, credentials, client, thread, alive, nla_sam, login, status>>
-----------------------------------------------------------------------------
(* The event thread: FreeRDP and the callbacks of the listener.            *)
Ends(c) ==
    /\ thread' = [thread EXCEPT ![c] = "over"] /\ alive' = [alive EXCEPT ![c] = FALSE]
    /\ sessions' = sessions \ {c}

(* drd_peer_capabilities, when the handshake has come that far (NLA has    *)
(* read the SAM file by then): the client must know dynamic channels and   *)
(* resize its desktop; a system daemon's runtime takes its desktop size.   *)
Capabilities(c) ==
    /\ thread[c] = "handshake" /\ alive[c] /\ up[c] = "up"
    /\ "nla" \in Security => nla_sam[c]
    /\ "early_callbacks" \in faults \/ listener_set[c]
    /\ \/ /\ thread' = [thread EXCEPT ![c] = "capable"]
          /\ geometry' = IF mode = "system" /\ listener_set[c] THEN c ELSE geometry
          /\ UNCHANGED <<alive, sessions>>
       \/ Ends(c) /\ UNCHANGED geometry
    /\ UNCHANGED <<setting, credentials, main, client, listener_set, nla_sam, login, is_activated,
                   released>>

(* drd_peer_post_connect: the SAM file is deleted; without NLA the client  *)
(* is logged in.                                                           *)
PostConnect(c) ==
    /\ thread[c] = "capable" /\ alive[c] /\ up[c] = "up"
    /\ nla_sam' = [nla_sam EXCEPT ![c] = FALSE]
    /\ thread' = [thread EXCEPT ![c] =
                     IF listener_set[c] /\ ~nla_enabled THEN "start" ELSE "connected"]
    /\ UNCHANGED <<setting, credentials, sessions, main, client, alive, listener_set, login,
                   status>>

(* drd_local_session_new, call by call, and its success.                   *)
Pam(c, from, to, holds) ==
    /\ thread[c] = from /\ thread' = [thread EXCEPT ![c] = to]
    /\ pam' = [pam EXCEPT ![c] = @ \union holds]
LoginStep(c) ==
    \/ Pam(c, "start", "authenticate", {"handle"}) /\ UNCHANGED local_session
    \/ Pam(c, "authenticate", "account", {}) /\ UNCHANGED local_session
    \/ Pam(c, "account", "credentials", {}) /\ UNCHANGED local_session
    \/ Pam(c, "credentials", "open", {"credentials"}) /\ UNCHANGED local_session
    \/ /\ Pam(c, "open", "connected", {"session"})
       /\ local_session' = [local_session EXCEPT ![c] = TRUE]
Login(c) ==
    /\ LoginStep(c)
    /\ UNCHANGED <<setting, credentials, sessions, main, client, alive, listener_set, nla_sam,
                   status>>

FailureEndsOnly(c) == [pam EXCEPT ![c] = @ \ {"handle"}]
(* drd_local_session_new, when a call fails: pam_end, and after a session  *)
(* that could not be opened the credentials before it.                     *)
GivenBack(step) == IF step = "open" THEN {"credentials", "handle"} ELSE {"handle"}
AfterFailure(c) == [pam EXCEPT ![c] = @ \ GivenBack(thread[c])]
LoginFailsUnnoticed(c) ==
    /\ "login_refused" \in faults /\ thread[c] \in LoginSteps
    /\ pam' = AfterFailure(c) /\ thread' = [thread EXCEPT ![c] = "connected"]
    /\ UNCHANGED <<setting, credentials, sessions, main, client, alive, listener_set, nla_sam,
                   local_session, status>>
(* Missing credentials or a failed call: what PAM holds is given back, and *)
(* post_connect disconnects the session on this thread, which joins itself *)
(* (GLib aborts the program, or the thread waits for good).                *)
LoginFails(c) ==
    /\ "login_refused" \in faults /\ thread[c] \in LoginSteps
    /\ pam' = AfterFailure(c) /\ thread' = [thread EXCEPT ![c] = "joins_self"]
    /\ alive' = [alive EXCEPT ![c] = FALSE]
    /\ UNCHANGED <<setting, credentials, sessions, main, client, listener_set, nla_sam,
                   local_session, status>>

(* drd_peer_activate, right after post_connect.                            *)
Activate(c) ==
    /\ thread[c] = "connected" /\ thread' = [thread EXCEPT ![c] = "active"]
    /\ is_activated' = [is_activated EXCEPT ![c] = TRUE]
    /\ UNCHANGED <<setting, credentials, sessions, main, client, alive, listener_set, nla_sam, login,
                   released, geometry>>

LeaveIgnoresStop(c) ==
    /\ thread[c] = "handshake" \/ (thread[c] \in {"capable", "active"} /\ up[c] # "up")
    /\ Ends(c)
    /\ UNCHANGED <<setting, credentials, main, client, listener_set, nla_sam, login, status>>
(* The thread's loop ends when the handshake fails, the client is gone or  *)
(* the session is stopped.  The peer and its context are not freed.        *)
Leave(c) ==
    /\ \/ thread[c] = "handshake"
       \/ thread[c] \in {"capable", "active"} /\ (~alive[c] \/ up[c] # "up")
    /\ Ends(c)
    /\ UNCHANGED <<setting, credentials, main, client, listener_set, nla_sam, login, status>>
-----------------------------------------------------------------------------
(* drd_rdp_session_disconnect on the main thread, for a redirection: the   *)
(* event thread is told to stop and joined ...                             *)
Disconnect(c) ==
    /\ main = MainLoop /\ mode # "user" /\ c \in sessions /\ ~released[c]
    /\ alive' = [alive EXCEPT ![c] = FALSE] /\ main' = At("join", c)
    /\ UNCHANGED <<setting, credentials, sessions, client, thread, listener_set, nla_sam, login,
                   status>>

(* ... and then the login is closed (drd_local_session_cleanup_handle).    *)
CloseLocalSession(c) ==
    /\ pam' = IF local_session[c]
              THEN [pam EXCEPT ![c] = @ \ {"session", "credentials", "handle"}] ELSE pam
    /\ local_session' = [local_session EXCEPT ![c] = FALSE]
JoinedTooEarly(c) ==
    /\ main = At("join", c) /\ main' = MainLoop
    /\ CloseLocalSession(c)
    /\ is_activated' = [is_activated EXCEPT ![c] = FALSE]
    /\ released' = [released EXCEPT ![c] = TRUE]
    /\ sessions' = sessions \ {c}
    /\ UNCHANGED <<setting, credentials, client, thread, alive, listener_set, nla_sam, geometry>>
Joined(c) ==
    /\ main = At("join", c) /\ thread[c] = "over" /\ main' = MainLoop
    /\ CloseLocalSession(c)
    /\ is_activated' = [is_activated EXCEPT ![c] = FALSE]
    /\ released' = [released EXCEPT ![c] = TRUE]
    /\ sessions' = sessions \ {c}
    /\ UNCHANGED <<setting, credentials, client, thread, alive, listener_set, nla_sam, geometry>>

-----------------------------------------------------------------------------
(* External: the client, which connects once, sends its request piece by   *)
(* piece and may leave; before the request is whole, and once its login    *)
(* has begun, only under the faults of that name.                          *)
Connect(c) ==
    /\ up[c] = "new" /\ up' = [up EXCEPT ![c] = "up"]
    /\ UNCHANGED <<setting, credentials, sessions, main, received, thread, alive,
                   listener_set, nla_sam, login, status>>
Send(c) ==
    /\ up[c] = "up" /\ received[c] # "all"
    /\ received' = [received EXCEPT ![c] = IF @ = "nothing" THEN "header" ELSE "all"]
    /\ UNCHANGED <<setting, credentials, sessions, main, up, thread, alive, listener_set,
                   nla_sam, login, status>>
ClientLeaves(c) ==
    /\ up[c] = "up"
    /\ received[c] = "all" \/ "silent_client" \in faults
    /\ thread[c] \notin Admitted \/ "client_departs" \in faults
    /\ up' = [up EXCEPT ![c] = "gone"]
    /\ UNCHANGED <<setting, credentials, sessions, main, received, thread, alive,
                   listener_set, nla_sam, login, status>>

MainStep ==
    \E c \in Peers :
        \/ \E r \in Requests : PeekHeader(c, r) \/ PeekRequest(c, r)
        \/ AcceptPeer(c) \/ EnsureNlaHash(c) \/ NewSamFile(c)
        \/ StartEventThread(c) \/ Publish(c) \/ Joined(c)
ThreadStep(c) ==
    Capabilities(c) \/ PostConnect(c) \/ Login(c) \/ LoginFails(c) \/ Activate(c) \/ Leave(c)
Next ==
    \/ MainStep
    \/ \E c \in Peers :
          \/ Incoming(c) \/ Disconnect(c) \/ ThreadStep(c)
          \/ Connect(c) \/ Send(c) \/ ClientLeaves(c)

Spec == Init /\ [][Next]_vars

(* The threads run, PAM answers, and a client that is not silent sends its *)
(* whole request.  Nothing is assumed of connections and redirections.     *)
FairSpec ==
    /\ Spec /\ WF_vars(MainStep)
    /\ \A c \in Peers :
          WF_vars(ThreadStep(c)) /\ WF_vars("silent_client" \notin faults /\ Send(c))

-----------------------------------------------------------------------------
(* The NLA credentials are there for every peer, although the password is  *)
(* wiped: a derivation that failed, a file that could not be written or a  *)
(* session that ended does not use them up, and during its handshake a     *)
(* peer has its SAM file.                                                  *)
CredentialsLast ==
    nla_enabled =>
        /\ nla_password \/ nla_hash
        /\ \A c \in Peers : thread[c] \in {"handshake", "capable"} => nla_sam[c]

(* PAM holds something for a peer only while its event thread logs it in   *)
(* or serves it, or while the main thread, which has joined that thread,   *)
(* is about to close the login: a refused login leaves nothing, at         *)
(* whichever call it failed, nor does a session that was disconnected, be  *)
(* it in the middle of its login.  A client that departs by itself is the  *)
(* exception: nobody disconnects its session, and the login stays open.    *)
Departed(c) == "client_departs" \in faults /\ up[c] = "gone"
LoginReleased ==
    \A c \in Peers : pam[c] # {} =>
        /\ ~released[c]
        /\ thread[c] \in Admitted \/ (local_session[c] /\ (main = At("join", c) \/ Departed(c)))

(* Without NLA a session that is active is one whose login PAM has         *)
(* accepted and opened, if the callbacks find the listener in the context. *)
LoggedInWhenActive ==
    ~nla_enabled /\ "early_callbacks" \notin faults =>
        \A c \in Peers : is_activated[c] => pam[c] = {"handle", "credentials", "session"}

(* The main thread comes back to its loop from every connection and every  *)
(* disconnection, if clients send their requests and logins succeed: the   *)
(* peek has no deadline, and a refused login never ends its thread.        *)
MainThreadReturns ==
    ({"silent_client", "login_refused"} \intersect faults = {} /\ main # MainLoop)
        ~> (main = MainLoop)
=============================================================================
