------------------------------ MODULE Handover ------------------------------
(***************************************************************************)
(* Remote login: the system daemon (src/system/drd_system_daemon.c) keeps  *)
(* a DrdRemoteClient for every client that connects, and the handover      *)
(* daemons of the greeter and of the user's desktop (drd_handover_daemon.c)*)
(* claim them over D-Bus, redirect the RDP client and take its socket.     *)
(*                                                                         *)
(* A client is named by its routing token, from which its object path is   *)
(* made and back.  Method calls are synchronous and the system daemon is   *)
(* single-threaded, so a call is one step; signals wait in the inbox of    *)
(* every daemon subscribed to the object.  RDP clients, LightDM and time   *)
(* are the environment: thirty silent seconds are the flag "stale".        *)
(***************************************************************************)
EXTENDS Naturals, FiniteSets, SequencesExt

CONSTANTS
    Clients,      \* RDP client programs
    Tokens,       \* routing tokens the daemon may draw
    Daemons,      \* handover processes
    MaxPending,   \* DRD_SYSTEM_MAX_PENDING_CLIENTS
    MaxSignals,   \* bound: signals waiting for a daemon
    FaultSets,    \* the sets of faults considered, subsets of FaultKinds
    None,         \* NULL
    Dead          \* a session or socket whose client is gone

(* leave: clients drop their connections.                                  *)
(* reconnect: a client that lost its connection returns with its token.    *)
(* idle: thirty seconds pass without an event for a client.                *)
(* overload: there are more clients than the queue has room for.           *)
(* failure: a peer cannot be set up, a redirection cannot be sent.         *)
FaultKinds == {"leave", "reconnect", "idle", "overload", "failure"}

ASSUME ConstantsAssumption ==
    /\ MaxPending \in Nat \ {0}
    /\ MaxSignals \in Nat \ {0}
    /\ FaultSets \subseteq SUBSET FaultKinds
    /\ None \notin Clients \cup Tokens /\ Dead \notin Clients \cup {None}

VARIABLES
    faults,          \* external: the behaviours of the environment that may occur
    known,           \* the keys of remote_clients, exported on the bus
    remote_clients,  \* token -> DrdRemoteClient
    pending_clients, \* the queue
    listed,          \* the client whose session the system's listener runs
    daemon,          \* handover process -> its state
    inbox,           \* handover process -> signals not yet handled
    conn,            \* external: RDP client -> where its connection is
    token,           \* external: RDP client -> the token it was redirected with
    displays         \* external: the remote ids LightDM has made displays for

sysVars == <<known, remote_clients, pending_clients, listed>>
vars == <<faults, known, remote_clients, pending_clients, listed, daemon, inbox, conn, token,
          displays>>

Pointer == Clients \cup {None, Dead}
RemoteClient ==
    [remote_id: Tokens \cup {None}, session: Pointer, connection: Pointer,
     assigned: BOOLEAN, handover_count: 0 .. 2, stale: BOOLEAN]
Blank == [remote_id |-> None, session |-> None, connection |-> None,
          assigned |-> FALSE, handover_count |-> 0, stale |-> FALSE]

Signal == [kind: {"take-client-ready", "redirect-client"}, by: Daemons \cup {None}]

Stopped == [pc |-> "none", display |-> None, object |-> None, active_session |-> None]

Init ==
    /\ faults \in FaultSets
    /\ known = {}
    /\ remote_clients = [k \in Tokens |-> Blank]
    /\ pending_clients = <<>>
    /\ listed = None
    /\ daemon = [d \in Daemons |-> Stopped]
    /\ inbox = [d \in Daemons |-> <<>>]
    /\ conn = [c \in Clients |-> "away"]
    /\ token = [c \in Clients |-> None]
    /\ displays = {}
-----------------------------------------------------------------------------
(* The table and the queue of the system daemon.                           *)

(* Connection objects of the daemon's go: a client waiting on one is cut   *)
(* off; one that a session serves is not, FreeRDP holds its own descriptor.*)
CutOff(where, lost) ==
    [c \in Clients |-> IF c \in lost /\ where[c] = "parked" THEN "away" ELSE where[c]]

\* Mutant: removed clients stay in the queue.
UnqueueForgotten(queue, gone) == queue

(* drd_system_daemon_unqueue_client deletes one link per client: the first *)
(* of each, so that these positions are left, in their order.              *)
Left(queue, gone) ==
    {i \in DOMAIN queue : queue[i] \in gone => \E j \in 1 .. i - 1 : queue[j] = queue[i]}

Unqueue(queue, gone) ==
    LET left == Left(queue, gone)
        nth(n) == CHOOSE i \in left : Cardinality({j \in left : j <= i}) = n
    IN  [n \in 1 .. Cardinality(left) |-> queue[nth(n)]]

(* The clients drd_system_daemon_prune_stale_pending_clients removes.      *)
Stale(table) == {k \in ToSet(pending_clients) : table[k].stale /\ ~table[k].assigned}

(* drd_system_daemon_remove_client, of every client of gone.               *)
Unregister(table, gone) == [k \in Tokens |-> IF k \in gone THEN Blank ELSE table[k]]

Full(queue) == Len(queue) >= MaxPending

(* drd_system_daemon_queue_client, for client k of table: prune, and then  *)
(* enqueue k, or remove it when the queue is full.                         *)
QueueClient(k, keys, table, where) ==
    LET stale == Stale(table)
        queue == Unqueue(pending_clients, stale)
        gone == stale \cup (IF Full(queue) THEN {k} ELSE {})
    IN  /\ known' = keys \ gone
        /\ remote_clients' = Unregister([table EXCEPT ![k].stale = FALSE], gone)
        /\ pending_clients' = IF Full(queue) THEN Unqueue(queue, {k}) ELSE Append(queue, k)
        /\ conn' = CutOff(where, {table[j].connection : j \in gone})

\* Mutant: signals reach the daemons of every object.
SubscribedToAll(d, k) == daemon[d].pc \in {"subscribed", "running"}

(* The daemons whose proxy of object k receives its signals.               *)
Subscribed(d, k) == daemon[d].object = k /\ daemon[d].pc \in {"subscribed", "running"}

(* A D-Bus signal of object k; the bus keeps the order.                    *)
Emit(k, signal) ==
    inbox' = [d \in Daemons |-> IF Subscribed(d, k) THEN Append(inbox[d], signal) ELSE inbox[d]]

Moved(c, place) == [conn EXCEPT ![c] = place]
-----------------------------------------------------------------------------
(* A connection arrives: drd_system_daemon_delegate, and what the listener *)
(* does when the delegate leaves it the connection.                        *)

(* A known token, of a client without a session here: the connection       *)
(* replaces the old one and is announced to the handover daemons.          *)
IncomingKnown(c) ==
    LET k == token[c] IN
    /\ conn[c] = "connecting"
    /\ k \in known
    /\ remote_clients[k].session = None
    /\ \A d \in Daemons : Len(inbox[d]) < MaxSignals
    /\ remote_clients' = [remote_clients EXCEPT ![k].connection = c, ![k].stale = FALSE]
    /\ conn' = CutOff(Moved(c, "parked"), {remote_clients[k].connection} \ {c})
    /\ Emit(k, [kind |-> "take-client-ready", by |-> None])
    /\ UNCHANGED <<faults, known, pending_clients, listed, daemon, token, displays>>

(* drd_system_daemon_generate_remote_identity draws tokens until one is    *)
(* not in the table; one that somebody still holds is not drawn by chance. *)
FreshTokens == Tokens \ (known \cup displays \cup {token[c] : c \in Clients}
                              \cup {daemon[d].object : d \in Daemons})

(* The client keeps the token it came with, unless another client has it.  *)
Identities(c) == IF token[c] # None /\ token[c] \notin known THEN {token[c]} ELSE FreshTokens

(* remote_id is the token the client came with, if any: also when another  *)
(* client owns it and this one was given a new identity.                   *)
NewClient(c, k, accepted) ==
    [Blank EXCEPT !.remote_id = IF token[c] # None THEN token[c] ELSE k,
                  !.connection = c,
                  !.session = IF accepted THEN c ELSE None]

(* drd_rdp_listener_handle_connection: a peer is refused while a session   *)
(* is registered, or when it cannot be set up; the connection stays open.  *)
AcceptsPeer(accepted) ==
    IF accepted THEN listed = None ELSE listed # None \/ "failure" \in faults

(* drd_system_daemon_on_session_ready: LightDM is asked for a greeter.     *)
SessionReady(c, remote_id) ==
    /\ listed' = c
    /\ \/ displays' = displays \cup {remote_id}
       \/ "failure" \in faults /\ UNCHANGED displays

(* drd_system_daemon_register_client, of a client without a token or with  *)
(* one that cannot be taken up: refused when the queue is full; otherwise  *)
(* registered, whether or not the listener then makes a session of it.     *)
IncomingNew(c) ==
    /\ conn[c] = "connecting"
    /\ token[c] \in known => remote_clients[token[c]].session # None
    /\ \E k \in Identities(c), accepted \in BOOLEAN :
          /\ "overload" \in faults \/ Cardinality(known \cup {k}) <= MaxPending
          /\ IF Full(Unqueue(pending_clients, Stale(remote_clients)))
             THEN ~accepted ELSE AcceptsPeer(accepted)
          /\ QueueClient(k, known \cup {k},
                         [remote_clients EXCEPT ![k] = NewClient(c, k, accepted)],
                         Moved(c, IF accepted THEN "session" ELSE "parked"))
          /\ IF accepted THEN SessionReady(c, NewClient(c, k, TRUE).remote_id)
                         ELSE UNCHANGED <<listed, displays>>
    /\ UNCHANGED <<faults, daemon, inbox, token>>
-----------------------------------------------------------------------------
(* Handover daemons.                                                       *)

(* External: a display's session starts a handover daemon.                 *)
Launch(d) ==
    /\ daemon[d] = Stopped
    /\ \E k \in displays :
          daemon' = [daemon EXCEPT ![d] = [Stopped EXCEPT !.pc = "launched", !.display = k]]
    /\ UNCHANGED <<faults, sysVars, inbox, conn, token, displays>>

Ends(d) == daemon' = [daemon EXCEPT ![d] = Stopped] /\ inbox' = [inbox EXCEPT ![d] = <<>>]

\* Mutant: the client handed out stays in the queue.
PoppedStays(queue) == queue

Popped(queue) == Tail(queue)

(* drd_system_daemon_handle_request_handover prunes and hands out the head *)
(* of the queue; the daemon that gets none ends.                           *)
RequestHandover(d) ==
    LET stale == Stale(remote_clients)
        queue == Unqueue(pending_clients, stale)
        pruned == Unregister(remote_clients, stale)
    IN
    /\ daemon[d].pc = "launched"
    /\ known' = known \ stale
    /\ conn' = CutOff(conn, {remote_clients[j].connection : j \in stale})
    /\ IF queue = <<>>
       THEN /\ Ends(d)
            /\ remote_clients' = pruned
            /\ pending_clients' = queue
       ELSE /\ daemon' = [daemon EXCEPT ![d].pc = "requested", ![d].object = Head(queue)]
            /\ remote_clients' = [pruned EXCEPT ![Head(queue)].assigned = TRUE,
                                                ![Head(queue)].stale = FALSE]
            /\ pending_clients' = Popped(queue)
            /\ UNCHANGED inbox
    /\ UNCHANGED <<faults, listed, token, displays>>

(* drd_handover_daemon_bind_handover: the proxy receives signals from now. *)
Subscribe(d) ==
    /\ daemon[d].pc = "requested"
    /\ daemon' = [daemon EXCEPT ![d].pc = "subscribed"]
    /\ UNCHANGED <<faults, sysVars, inbox, conn, token, displays>>

(* What the client of a live session does on a redirection: it is to       *)
(* connect again, with the token.                                          *)
Redirected(c, k) ==
    IF c \in Clients
    THEN conn' = Moved(c, "connecting") /\ token' = [token EXCEPT ![c] = k]
    ELSE UNCHANGED <<conn, token>>

\* Mutant: the session of a redirected client is kept in its record.
SessionKept(k) ==
    [remote_clients EXCEPT ![k].connection = None, ![k].assigned = TRUE, ![k].stale = FALSE]

SessionForgotten(k) ==
    [remote_clients EXCEPT ![k].session = None, ![k].connection = None,
                           ![k].assigned = TRUE, ![k].stale = FALSE]

(* drd_system_daemon_on_start_handover: a client that has its session here *)
(* is redirected and disconnected; for another one the daemons are asked   *)
(* to redirect it.                                                         *)
StartHandover(d) ==
    LET k == daemon[d].object IN
    /\ daemon[d].pc = "subscribed"
    /\ k \in known
    /\ IF remote_clients[k].session # None
       THEN /\ Redirected(remote_clients[k].session, k)
            /\ listed' = IF remote_clients[k].session = listed THEN None ELSE listed
            /\ remote_clients' = SessionForgotten(k)
            /\ UNCHANGED inbox
       ELSE /\ remote_clients' = [remote_clients EXCEPT ![k].stale = FALSE]
            /\ \A e \in Daemons : Len(inbox[e]) < MaxSignals
            /\ Emit(k, [kind |-> "redirect-client", by |-> d])
            /\ UNCHANGED <<listed, conn, token>>
    /\ daemon' = [daemon EXCEPT ![d].pc = "running"]
    /\ UNCHANGED <<faults, known, pending_clients, displays>>

(* StartHandover fails: the object is gone, the TLS material cannot be     *)
(* read, the redirection cannot be sent.  The daemon ends.                 *)
StartHandoverFails(d) ==
    LET k == daemon[d].object IN
    /\ daemon[d].pc = "subscribed"
    /\ \/ k \notin known
       \/ remote_clients[k].session = Dead
       \/ "failure" \in faults
    /\ remote_clients' =
          IF k \in known THEN [remote_clients EXCEPT ![k].stale = FALSE] ELSE remote_clients
    /\ Ends(d)
    /\ UNCHANGED <<faults, known, pending_clients, listed, conn, token, displays>>

Handles(d, kind) ==
    /\ daemon[d].pc = "running"
    /\ inbox[d] # <<>>
    /\ Head(inbox[d]).kind = kind

(* Queued again for the user's desktop after the first TakeClient only.    *)
Requeue(count) == count < 2

\* Mutant: the record keeps the connection that was passed on.
TakenKeepsConnection(k) ==
    [remote_clients EXCEPT ![k].session = None, ![k].stale = FALSE,
                           ![k].handover_count = IF @ < 2 THEN @ + 1 ELSE 2]

(* The record after its socket was passed on; only counts below 2 matter.  *)
Taken(k) ==
    [remote_clients EXCEPT ![k].connection = None, ![k].session = None, ![k].stale = FALSE,
                           ![k].handover_count = IF @ < 2 THEN @ + 1 ELSE 2]

(* drd_rdp_listener_adopt_connection of the daemon's own listener.         *)
Adopts(d, adopted) ==
    IF adopted THEN daemon[d].active_session \notin Clients
               ELSE daemon[d].active_session \in Clients \/ "failure" \in faults

(* drd_handover_daemon_on_take_client_ready calls TakeClient, which passes *)
(* the socket; the daemon's listener adopts it, or closes it when it is    *)
(* busy or cannot make a peer of it.                                       *)
TakeClient(d) ==
    \E adopted \in BOOLEAN :
        LET k == daemon[d].object
            c == remote_clients[k].connection
            taken == Taken(k)
            where == IF c = Dead THEN conn ELSE Moved(c, IF adopted THEN "daemon" ELSE "away")
        IN
        /\ Handles(d, "take-client-ready")
        /\ k \in known
        /\ c # None
        /\ Adopts(d, adopted)
        /\ IF Requeue(taken[k].handover_count)
           THEN QueueClient(k, known, [taken EXCEPT ![k].assigned = FALSE], where)
           ELSE remote_clients' = taken /\ conn' = where /\ UNCHANGED <<known, pending_clients>>
        /\ daemon' = IF adopted THEN [daemon EXCEPT ![d].active_session = c] ELSE daemon
        /\ inbox' = [inbox EXCEPT ![d] = Tail(@)]
        /\ UNCHANGED <<faults, listed, token, displays>>

(* TakeClient on an object that is gone or has no socket.                  *)
TakeClientFails(d) ==
    LET k == daemon[d].object IN
    /\ Handles(d, "take-client-ready")
    /\ k \in known => remote_clients[k].connection = None
    /\ remote_clients' =
          IF k \in known THEN [remote_clients EXCEPT ![k].stale = FALSE] ELSE remote_clients
    /\ inbox' = [inbox EXCEPT ![d] = Tail(@)]
    /\ UNCHANGED <<faults, known, pending_clients, listed, daemon, conn, token, displays>>

(* drd_handover_daemon_on_redirect_client: the daemon that has a session   *)
(* redirects the client, stops and ends; one that has none, or cannot send *)
(* the redirection, ignores the signal.                                    *)
RedirectClient(d) ==
    /\ Handles(d, "redirect-client")
    /\ \/ /\ daemon[d].active_session # None
          /\ Redirected(daemon[d].active_session, daemon[d].object)
          /\ Ends(d)
       \/ /\ daemon[d].active_session \notin Clients \/ "failure" \in faults
          /\ inbox' = [inbox EXCEPT ![d] = Tail(@)]
          /\ UNCHANGED <<daemon, conn, token>>
    /\ UNCHANGED <<faults, sysVars, displays>>
-----------------------------------------------------------------------------
(* The environment.                                                        *)

(* A client connects: for the first time, afresh, or with its token.       *)
ClientConnects(c) ==
    /\ conn[c] = "away"
    /\ conn' = Moved(c, "connecting")
    /\ \/ token' = [token EXCEPT ![c] = None]
       \/ "reconnect" \in faults /\ UNCHANGED token
    /\ UNCHANGED <<faults, sysVars, daemon, inbox, displays>>

Severed(p, c) == IF p = c THEN Dead ELSE p

(* A client drops its connection.  Nobody tells the system daemon: what it *)
(* and the handover daemons hold of the client is dead.                    *)
ClientLeaves(c) ==
    /\ "leave" \in faults
    /\ conn[c] # "away"
    /\ conn' = Moved(c, "away")
    /\ listed' = IF listed = c THEN None ELSE listed
    /\ remote_clients' =
          [k \in Tokens |->
              [remote_clients[k] EXCEPT !.session = Severed(@, c), !.connection = Severed(@, c)]]
    /\ daemon' = [d \in Daemons |-> [daemon[d] EXCEPT !.active_session = Severed(@, c)]]
    /\ UNCHANGED <<faults, known, pending_clients, inbox, token, displays>>

(* Thirty seconds pass since the last event for client k.                  *)
GoesStale(k) ==
    /\ "idle" \in faults
    /\ k \in known
    /\ remote_clients' = [remote_clients EXCEPT ![k].stale = TRUE]
    /\ UNCHANGED <<faults, known, pending_clients, listed, daemon, inbox, conn, token, displays>>

Incoming(c) == IncomingKnown(c) \/ IncomingNew(c)

DaemonStep(d) ==
    \/ RequestHandover(d) \/ Subscribe(d) \/ StartHandover(d) \/ StartHandoverFails(d)
    \/ TakeClient(d) \/ TakeClientFails(d) \/ RedirectClient(d)

Next ==
    \/ \E c \in Clients : ClientConnects(c) \/ Incoming(c) \/ ClientLeaves(c)
    \/ \E d \in Daemons : Launch(d) \/ DaemonStep(d)
    \/ \E k \in Tokens : GoesStale(k)

Spec == Init /\ [][Next]_vars

(* The system daemon serves connections and the handover daemons run.      *)
Fairness ==
    /\ \A c \in Clients : WF_vars(Incoming(c))
    /\ \A d \in Daemons : WF_vars(DaemonStep(d))

FairSpec == Spec /\ Fairness
-----------------------------------------------------------------------------
TypeOK ==
    /\ faults \in FaultSets
    /\ known \subseteq Tokens
    /\ remote_clients \in [Tokens -> RemoteClient]
    /\ pending_clients \in Seq(Tokens)
    /\ listed \in Clients \cup {None}
    /\ daemon \in [Daemons -> [pc: {"none", "launched", "requested", "subscribed", "running"},
                               display: Tokens \cup {None}, object: Tokens \cup {None},
                               active_session: Pointer]]
    /\ inbox \in [Daemons -> Seq(Signal)]
    /\ conn \in [Clients -> {"away", "connecting", "session", "parked", "daemon"}]
    /\ token \in [Clients -> Tokens \cup {None}]
    /\ displays \subseteq Tokens

(* No client returns with the token of a record that was removed because   *)
(* it was idle or the queue was full: registered again under the old path, *)
(* it is also the client of the daemons still subscribed to that path.     *)
NoneReturnsRemoved == "reconnect" \notin faults \/ {"idle", "overload"} \cap faults = {}

(* The queue has no dangling entry: a client that was removed from the     *)
(* table is not in the queue any more.  (One that returned removed can be  *)
(* queued twice, and only one link is deleted.)                            *)
RemovedNotQueued == NoneReturnsRemoved => ToSet(pending_clients) \subseteq known

(* Nobody is forgotten: a registered client is either claimed by a daemon  *)
(* or waits in the queue, and exactly once.                                *)
ClaimedOrQueued ==
    NoneReturnsRemoved =>
        \A k \in known :
            Cardinality({i \in DOMAIN pending_clients : pending_clients[i] = k})
                = IF remote_clients[k].assigned THEN 0 ELSE 1

(* A socket reaches the daemon that asked for it: a client that a handover *)
(* daemon serves was redirected with the token of that daemon's object.    *)
ServedByToken ==
    \A d \in Daemons :
        daemon[d].active_session \in Clients => token[daemon[d].active_session] = daemon[d].object

(* One client, one server: a client is served by the system's listener or  *)
(* by one handover daemon.                                                 *)
OneServer ==
    NoneReturnsRemoved =>
        \A d \in Daemons :
            LET c == daemon[d].active_session IN
            c \in Clients => /\ c # listed
                             /\ \A e \in Daemons : daemon[e].active_session = c => e = d

(* A client that was redirected ends up with a handover daemon.            *)
RedirectedClientServed ==
    \A c \in Clients : (conn[c] = "connecting" /\ token[c] # None) ~> (conn[c] = "daemon")
=============================================================================
