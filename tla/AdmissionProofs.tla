-------------------------- MODULE AdmissionProofs --------------------------
(***************************************************************************)
(* Proofs about Admission, for any set of connections, requests and        *)
(* faults: the NLA credentials outlast every failure, PAM keeps nothing of *)
(* a refused login or a disconnected session, and nobody is active without *)
(* a login.                                                                *)
(***************************************************************************)
EXTENDS Admission, TLAPS

(* A step of Admission, with its peer named.                               *)
Step(c) ==
    \/ \E r \in Requests : PeekHeader(c, r) \/ PeekRequest(c, r)
    \/ AcceptPeer(c) \/ EnsureNlaHash(c) \/ NewSamFile(c) \/ StartEventThread(c) \/ Publish(c)
    \/ Joined(c) \/ Incoming(c) \/ Disconnect(c) \/ ThreadStep(c) \/ Connect(c) \/ Send(c)
    \/ ClientLeaves(c)

LEMMA NextHasPeer == ASSUME [Next]_vars PROVE UNCHANGED vars \/ \E c \in Peers : Step(c)
BY DEF Next, MainStep, Step

(* What the main thread and its request are.                               *)
LEMMA MainStepsTyped ==
    ASSUME NEW c \in Peers, NEW pc \in MainSteps PROVE At(pc, c) \in [pc : MainSteps, peer : Peers]
BY DEF At

(* A call of PAM takes the login one step on.                              *)
LEMMA LoginStepMoves ==
    ASSUME NEW c, LoginStep(c)
    PROVE  \E to \in Threads, holds \in SUBSET {"handle", "credentials", "session"} :
              /\ thread' = [thread EXCEPT ![c] = to]
              /\ pam' = [pam EXCEPT ![c] = pam[c] \union holds]
<1>1. ASSUME NEW from, NEW to \in Threads, NEW holds \in SUBSET {"handle", "credentials", "session"},
             Pam(c, from, to, holds)
      PROVE  \E t \in Threads, h \in SUBSET {"handle", "credentials", "session"} :
                thread' = [thread EXCEPT ![c] = t] /\ pam' = [pam EXCEPT ![c] = pam[c] \union h]
  BY <1>1 DEF Pam
<1>2. {"authenticate", "account", "credentials", "open", "connected"} \subseteq Threads
  BY DEF Threads, LoginSteps
<1>3. QED
  BY <1>1, <1>2 DEF LoginStep

(* Every step keeps the types.                                             *)
LEMMA StepKeepsTypeOK ==
    ASSUME TypeOK, [Next]_vars PROVE TypeOK'
<1> USE DEF setting, credentials, client, login, status
<1>1. CASE UNCHANGED vars
  BY <1>1 DEF vars, TypeOK
<1>2. ASSUME NEW c \in Peers, Step(c) PROVE TypeOK'
  <2>1. CASE Incoming(c)
    BY <2>1 DEF Incoming, TypeOK, At, MainSteps
  <2>2. ASSUME NEW r \in Requests, PeekHeader(c, r) \/ PeekRequest(c, r) PROVE TypeOK'
    BY <2>2 DEF PeekHeader, PeekRequest, Done, TypeOK, At, MainSteps
  <2>3. CASE AcceptPeer(c)
    BY <2>3 DEF AcceptPeer, Done, TypeOK, At, MainSteps
  <2>4. CASE EnsureNlaHash(c)
    <3>1. main' \in {MainLoop, At("sam", c)} /\ up' \in {up, [up EXCEPT ![c] = "gone"]}
      BY <2>4 DEF EnsureNlaHash, Done
    <3>2. nla_password' \in BOOLEAN /\ nla_hash' \in BOOLEAN
      BY <2>4, Zenon DEF EnsureNlaHash, TypeOK
    <3>3. UNCHANGED <<setting, sessions, received, thread, alive, listener_set, nla_sam, login, status>>
      BY <2>4 DEF EnsureNlaHash
    <3>4. QED
      BY <3>1, <3>2, <3>3 DEF TypeOK, At, MainSteps
  <2>5. CASE NewSamFile(c)
    <3>1. main' \in {MainLoop, At("start", c)} /\ up' \in {up, [up EXCEPT ![c] = "gone"]}
      BY <2>5 DEF NewSamFile, Done
    <3>2. nla_sam' \in {nla_sam, [nla_sam EXCEPT ![c] = TRUE]}
      BY <2>5 DEF NewSamFile
    <3>3. UNCHANGED <<setting, credentials, sessions, received, thread, alive, listener_set, login,
                      status>>
      BY <2>5 DEF NewSamFile
    <3>4. nla_sam' \in [Peers -> BOOLEAN] /\ up' \in [Peers -> {"new", "up", "gone"}]
      BY <3>1, <3>2 DEF TypeOK
    <3>5. main' = MainLoop \/ main' \in [pc : MainSteps, peer : Peers]
      BY <3>1 DEF At, MainSteps
    <3>6. QED
      BY <3>3, <3>4, <3>5 DEF TypeOK
  <2>6. CASE StartEventThread(c)
    <3>1. main' \in {MainLoop, At("publish", c)} /\ up' \in {up, [up EXCEPT ![c] = "gone"]}
      BY <2>6 DEF StartEventThread, Done
    <3>2. /\ thread' \in {thread, [thread EXCEPT ![c] = "handshake"]}
          /\ alive' \in {alive, [alive EXCEPT ![c] = TRUE]}
      BY <2>6 DEF StartEventThread
    <3>3. UNCHANGED <<setting, credentials, sessions, received, listener_set, nla_sam, login, status>>
      BY <2>6 DEF StartEventThread
    <3>4. thread' \in [Peers -> Threads] /\ alive' \in [Peers -> BOOLEAN]
      BY <3>2 DEF TypeOK, Threads
    <3>5. up' \in [Peers -> {"new", "up", "gone"}]
      BY <3>1 DEF TypeOK
    <3>6. main' = MainLoop \/ main' \in [pc : MainSteps, peer : Peers]
      BY <3>1 DEF At, MainSteps
    <3>7. QED
      BY <3>3, <3>4, <3>5, <3>6 DEF TypeOK
  <2>7. CASE Publish(c)
    BY <2>7 DEF Publish, TypeOK
  <2>8. CASE Capabilities(c)
    BY <2>8 DEF Capabilities, Ends, TypeOK, Threads
  <2>9. CASE PostConnect(c)
    BY <2>9 DEF PostConnect, TypeOK, Threads, LoginSteps
  <2>10. CASE Login(c)
    <3>1. PICK to \in Threads, holds \in SUBSET {"handle", "credentials", "session"} :
              /\ thread' = [thread EXCEPT ![c] = to]
              /\ pam' = [pam EXCEPT ![c] = pam[c] \union holds]
      BY <2>10, LoginStepMoves DEF Login
    <3>2. local_session' \in {local_session, [local_session EXCEPT ![c] = TRUE]}
      BY <2>10 DEF Login, LoginStep
    <3>3. UNCHANGED <<setting, credentials, sessions, main, client, alive, listener_set, nla_sam, status>>
      BY <2>10 DEF Login
    <3>4. QED
      BY <3>1, <3>2, <3>3 DEF TypeOK
  <2>11. CASE LoginFails(c)
    <3>1. pam' = [pam EXCEPT ![c] = pam[c] \ GivenBack(thread[c])]
      BY <2>11 DEF LoginFails, AfterFailure
    <3>2. pam' \in [Peers -> SUBSET {"handle", "credentials", "session"}]
      BY <3>1 DEF TypeOK
    <3>3. QED
      BY <2>11, <3>2 DEF LoginFails, TypeOK, Threads, LoginSteps
  <2>12. CASE Activate(c)
    BY <2>12 DEF Activate, TypeOK, Threads
  <2>13. CASE Leave(c)
    BY <2>13 DEF Leave, Ends, TypeOK, Threads
  <2>14. CASE Disconnect(c)
    BY <2>14 DEF Disconnect, TypeOK, At, MainSteps
  <2>15. CASE Joined(c)
    BY <2>15 DEF Joined, CloseLocalSession, TypeOK
  <2>16. CASE Connect(c) \/ Send(c) \/ ClientLeaves(c)
    BY <2>16 DEF Connect, Send, ClientLeaves, TypeOK
  <2>17. QED
    BY <1>2, <2>1, <2>2, <2>3, <2>4, <2>5, <2>6, <2>7, <2>8, <2>9, <2>10, <2>11, <2>12, <2>13,
       <2>14, <2>15, <2>16 DEF Step, ThreadStep
<1>3. QED
  BY <1>1, <1>2, NextHasPeer

(* The variables of an admission keep their types, whichever step fails.   *)
THEOREM TypeCorrect == Spec => []TypeOK
<1>1. Init => TypeOK
  <2> SUFFICES ASSUME Init PROVE TypeOK
    OBVIOUS
  <2>1. nla_password \in BOOLEAN /\ nla_hash \in BOOLEAN
    BY Zenon DEF Init
  <2>2. QED
    BY <2>1 DEF Init, TypeOK, Threads
<1>2. TypeOK /\ [Next]_vars => TypeOK'
  BY StepKeepsTypeOK
<1>3. QED
  BY <1>1, <1>2, PTL DEF Spec
-----------------------------------------------------------------------------
(* The credentials: while the main thread prepares a peer, the peer has no *)
(* thread that could delete its SAM file, and the file is there before the *)
(* thread is started.                                                      *)
Preparing == {"header", "request", "accept", "hash", "sam", "start"}
CredentialInv ==
    /\ main.pc \in Preparing => thread[main.peer] = "none"
    /\ nla_enabled /\ main.pc = "start" => nla_sam[main.peer]
    /\ CredentialsLast

(* The steps of the main thread before it starts the event thread.         *)
LEMMA PreparationKeepsCredentialInv ==
    ASSUME TypeOK, CredentialInv, NEW c \in Peers, main = At(main.pc, c), main.pc \in Preparing,
           main' = MainLoop \/ (main' = At(main'.pc, c) /\ main'.pc \in Preparing),
           nla_enabled /\ main'.pc = "start" => nla_sam'[c],
           nla_enabled => nla_password' \/ nla_hash',
           \A d \in Peers : nla_sam[d] => nla_sam'[d],
           UNCHANGED <<nla_enabled, thread>>
    PROVE  CredentialInv'
<1>1. thread[c] = "none" /\ main.peer = c
  BY DEF CredentialInv, At
<1>2. main'.pc \in Preparing => thread'[main'.peer] = "none"
  BY <1>1 DEF At, MainLoop, Preparing
<1>3. nla_enabled' /\ main'.pc = "start" => nla_sam'[main'.peer]
  BY <1>1 DEF At, MainLoop
<1>4. CredentialsLast'
  BY DEF CredentialInv, CredentialsLast
<1>5. QED
  BY <1>2, <1>3, <1>4 DEF CredentialInv

(* The steps of the event threads and of other places of the main thread:  *)
(* only a thread past the handshake may find its file deleted.             *)
LEMMA RunningKeepsCredentialInv ==
    ASSUME TypeOK, CredentialInv, NEW c \in Peers,
           main' = main \/ main'.pc \notin Preparing,
           thread[c] # "none" \/ UNCHANGED <<thread, nla_sam>>,
           \A d \in Peers \ {c} : thread'[d] = thread[d] /\ nla_sam'[d] = nla_sam[d],
           thread'[c] \in {"handshake", "capable"} =>
               thread[c] \in {"handshake", "capable"} /\ nla_sam'[c] = nla_sam[c],
           UNCHANGED <<nla_enabled, nla_password, nla_hash>>
    PROVE  CredentialInv'
<1>1. main'.pc \in Preparing => main' = main /\ main.pc \in Preparing /\ main.peer \in Peers
  BY DEF TypeOK, MainLoop, Preparing
<1>2. main'.pc \in Preparing => \/ main.peer # c
                               \/ UNCHANGED <<thread, nla_sam>>
  BY <1>1 DEF CredentialInv
<1>3. main'.pc \in Preparing =>
        thread'[main.peer] = thread[main.peer] /\ nla_sam'[main.peer] = nla_sam[main.peer]
  BY <1>1, <1>2
<1>4. "start" \in Preparing
  BY DEF Preparing
<1>5. CredentialsLast'
  BY DEF CredentialInv, CredentialsLast
<1>6. QED
  BY <1>1, <1>3, <1>4, <1>5 DEF CredentialInv

(* Every step keeps the credentials.                                       *)
LEMMA StepKeepsCredentialInv ==
    ASSUME TypeOK, CredentialInv, [Next]_vars PROVE CredentialInv'
<1> USE DEF setting, credentials, client, login, status
<1>1. CASE UNCHANGED vars
  BY <1>1 DEF vars, CredentialInv, CredentialsLast
<1>2. ASSUME NEW c \in Peers, Step(c) PROVE CredentialInv'
  <2>1. CASE Incoming(c)
    <3>1. main' = At(main'.pc, c) /\ main'.pc \in {"header", "accept"} /\ thread[c] = "none"
      BY <2>1 DEF Incoming, At
    <3>2. UNCHANGED <<thread, nla_sam, nla_enabled, nla_password, nla_hash>>
      BY <2>1 DEF Incoming
    <3>3. QED
      BY <3>1, <3>2 DEF CredentialInv, CredentialsLast, At
  <2>2. ASSUME NEW r \in Requests, PeekHeader(c, r) \/ PeekRequest(c, r) PROVE CredentialInv'
    <3>1. main = At(main.pc, c) /\ main.pc \in Preparing
      BY <2>2 DEF PeekHeader, PeekRequest, At, Preparing
    <3>2. main' \in {MainLoop, At("request", c), At("accept", c)}
      BY <2>2 DEF PeekHeader, PeekRequest, Done
    <3>3. UNCHANGED <<thread, nla_sam, nla_enabled, nla_password, nla_hash>>
      BY <2>2 DEF PeekHeader, PeekRequest
    <3>4. main'.pc # "start" /\ (main' = MainLoop \/ (main' = At(main'.pc, c) /\ main'.pc \in Preparing))
      BY <3>2 DEF At, MainLoop, Preparing
    <3>5. nla_enabled => nla_password' \/ nla_hash'
      BY <3>3, Zenon DEF CredentialInv, CredentialsLast
    <3>6. QED
      BY <3>1, <3>3, <3>4, <3>5, PreparationKeepsCredentialInv
  <2>3. CASE AcceptPeer(c)
    <3>1. main = At(main.pc, c) /\ main.pc \in Preparing
      BY <2>3 DEF AcceptPeer, At, Preparing
    <3>2. main' = MainLoop \/ main' = At("hash", c) \/ (main' = At("start", c) /\ ~nla_enabled)
      BY <2>3 DEF AcceptPeer, Done
    <3>3. UNCHANGED <<thread, nla_sam, nla_enabled, nla_password, nla_hash>>
      BY <2>3 DEF AcceptPeer
    <3>4. /\ nla_enabled => main'.pc # "start"
          /\ main' = MainLoop \/ (main' = At(main'.pc, c) /\ main'.pc \in Preparing)
      BY <3>2 DEF At, MainLoop, Preparing
    <3>5. nla_enabled => nla_password' \/ nla_hash'
      BY <3>3, Zenon DEF CredentialInv, CredentialsLast
    <3>6. QED
      BY <3>1, <3>3, <3>4, <3>5, PreparationKeepsCredentialInv
  <2>4. CASE EnsureNlaHash(c)
    <3>1. main = At(main.pc, c) /\ main.pc \in Preparing
      BY <2>4 DEF EnsureNlaHash, At, Preparing
    <3>2. main' \in {MainLoop, At("sam", c)}
      BY <2>4 DEF EnsureNlaHash, Done
    <3>3. UNCHANGED <<thread, nla_sam, nla_enabled>>
      BY <2>4 DEF EnsureNlaHash
    <3>4. main'.pc # "start" /\ (main' = MainLoop \/ (main' = At(main'.pc, c) /\ main'.pc \in Preparing))
      BY <3>2 DEF At, MainLoop, Preparing
    <3>5. nla_enabled => nla_password' \/ nla_hash'
      BY <2>4, Zenon DEF EnsureNlaHash, CredentialInv, CredentialsLast
    <3>6. QED
      BY <3>1, <3>3, <3>4, <3>5, PreparationKeepsCredentialInv
  <2>5. CASE NewSamFile(c)
    <3>1. main = At(main.pc, c) /\ main.pc \in Preparing
      BY <2>5 DEF NewSamFile, At, Preparing
    <3>2. \/ main' = MainLoop /\ nla_sam' = nla_sam
          \/ main' = At("start", c) /\ nla_sam' = [nla_sam EXCEPT ![c] = TRUE]
      BY <2>5 DEF NewSamFile, Done
    <3>3. UNCHANGED <<thread, nla_enabled, nla_password, nla_hash>>
      BY <2>5 DEF NewSamFile
    <3>4. main' = MainLoop \/ (main' = At(main'.pc, c) /\ main'.pc \in Preparing)
      BY <3>2 DEF At, Preparing
    <3>5. (main'.pc = "start" => nla_sam'[c]) /\ \A d \in Peers : nla_sam[d] => nla_sam'[d]
      BY <3>2 DEF TypeOK, MainLoop
    <3>6. nla_enabled => nla_password' \/ nla_hash'
      BY <3>3, Zenon DEF CredentialInv, CredentialsLast
    <3>7. QED
      BY <3>1, <3>3, <3>4, <3>5, <3>6, PreparationKeepsCredentialInv
  <2>6. CASE StartEventThread(c)
    <3>1. main.pc = "start" /\ main.peer = c
      BY <2>6 DEF StartEventThread, At
    <3>2. nla_enabled => nla_sam[c]
      BY <3>1 DEF CredentialInv
    <3>3. main'.pc \notin Preparing
      BY <2>6 DEF StartEventThread, Done, At, MainLoop, Preparing
    <3>4. thread' \in {thread, [thread EXCEPT ![c] = "handshake"]}
      BY <2>6 DEF StartEventThread
    <3>5. UNCHANGED <<nla_enabled, nla_password, nla_hash, nla_sam>>
      BY <2>6 DEF StartEventThread
    <3>6. "start" \in Preparing
      BY DEF Preparing
    <3>7. CredentialsLast'
      BY <3>2, <3>4, <3>5 DEF CredentialInv, CredentialsLast, TypeOK
    <3>8. QED
      BY <3>3, <3>6, <3>7 DEF CredentialInv
  <2>7. CASE Publish(c) \/ Joined(c) \/ Disconnect(c) \/ Connect(c) \/ Send(c) \/ ClientLeaves(c)
    <3>1. main' = main \/ main' = MainLoop \/ main' = At("join", c)
      BY <2>7 DEF Publish, Joined, Disconnect, Connect, Send, ClientLeaves
    <3>2. main' = main \/ main'.pc \notin Preparing
      BY <3>1 DEF MainLoop, At, Preparing
    <3>3. UNCHANGED <<thread, nla_sam, nla_enabled, nla_password, nla_hash>>
      BY <2>7 DEF Publish, Joined, Disconnect, Connect, Send, ClientLeaves
    <3>4. QED
      BY <3>2, <3>3, RunningKeepsCredentialInv
  <2>8. CASE ThreadStep(c)
    <3>1. UNCHANGED <<main, nla_enabled, nla_password, nla_hash>>
      BY <2>8 DEF ThreadStep, Capabilities, PostConnect, Login, LoginFails, Activate, Leave
    <3>2. thread[c] # "none"
      BY <2>8 DEF ThreadStep, Capabilities, PostConnect, Login, LoginStep, Pam, LoginFails, Activate,
                  Leave, LoginSteps
    <3>3. \A d \in Peers \ {c} : thread'[d] = thread[d] /\ nla_sam'[d] = nla_sam[d]
      BY <2>8 DEF ThreadStep, Capabilities, PostConnect, Login, LoginStep, Pam, LoginFails, Activate,
                  Leave, Ends, TypeOK
    <3>4. thread'[c] \in {"handshake", "capable"} =>
              thread[c] \in {"handshake", "capable"} /\ nla_sam'[c] = nla_sam[c]
      BY <2>8 DEF ThreadStep, Capabilities, PostConnect, Login, LoginStep, Pam, LoginFails, Activate,
                  Leave, Ends, TypeOK
    <3>5. QED
      BY <3>1, <3>2, <3>3, <3>4, RunningKeepsCredentialInv
  <2>9. QED
    BY <1>2, <2>1, <2>2, <2>3, <2>4, <2>5, <2>6, <2>7, <2>8 DEF Step
<1>3. QED
  BY <1>1, <1>2, NextHasPeer

(* A new listener has its password and no peer yet.                        *)
LEMMA InitHasCredentials == ASSUME Init PROVE CredentialInv
<1>1. nla_enabled => nla_password \/ nla_hash
  BY Zenon DEF Init
<1>2. main.pc \notin Preparing /\ main.pc # "start"
  BY DEF Init, MainLoop, Preparing
<1>3. QED
  BY <1>1, <1>2 DEF Init, CredentialInv, CredentialsLast

(* No failure and no session uses up the NLA credentials, and every peer   *)
(* has its SAM file during its handshake.                                  *)
THEOREM CredentialsOutlastFailures == Spec => []CredentialsLast
<1>1. Init => CredentialInv
  BY InitHasCredentials
<1>2. TypeOK /\ CredentialInv /\ [Next]_vars => CredentialInv'
  BY StepKeepsCredentialInv
<1>3. CredentialInv => CredentialsLast
  BY DEF CredentialInv
<1>4. QED
  BY <1>1, <1>2, <1>3, TypeCorrect, PTL DEF Spec
-----------------------------------------------------------------------------
(* The login: what PAM holds for a peer is a matter of the event thread's  *)
(* place until the login has been opened, and of local_session afterwards. *)
Whole == {"handle", "credentials", "session"}
Beyond == {"connected", "active", "over"}
LoginState(c) ==
    /\ thread[c] \in {"none", "handshake", "capable", "start", "joins_self"} => pam[c] = {}
    /\ thread[c] \in {"authenticate", "account", "credentials"} => pam[c] = {"handle"}
    /\ thread[c] = "open" => pam[c] = {"handle", "credentials"}
    /\ thread[c] \in Beyond /\ local_session[c] => pam[c] = Whole
    /\ thread[c] \in Beyond /\ ~local_session[c] => pam[c] = {}
    /\ local_session[c] => thread[c] \in Beyond
    /\ released[c] => thread[c] = "over" /\ ~local_session[c]
    /\ is_activated[c] => thread[c] \in {"active", "over"}

(* Who will close it: a thread that logs its client in or serves it is     *)
(* stopped by the main thread, which then waits for it, or by its client's *)
(* departure; so a login that outlasts its thread has one of the two.      *)
Closing(c) == main = At("join", c)
OwnerState(c) ==
    /\ thread[c] \in Admitted => alive[c] \/ Closing(c)
    /\ thread[c] \in Admitted => up[c] = "up" \/ Departed(c)
    /\ thread[c] = "over" /\ local_session[c] => Closing(c) \/ Departed(c)

(* Without NLA, and with callbacks that find the listener, the way to an   *)
(* active session leads through the login.                                 *)
LoginRequired == ~nla_enabled /\ "early_callbacks" \notin faults
LoggedIn(c) ==
    /\ thread[c] = "capable" => listener_set[c]
    /\ thread[c] \in {"connected", "active"} => local_session[c]
    /\ is_activated[c] => local_session[c]
LoginInv == \A c \in Peers : LoginState(c) /\ (LoginRequired => LoggedIn(c))
OwnerInv == \A c \in Peers : OwnerState(c)

(* Every step leaves the login of all other peers alone.                   *)
LEMMA OthersUntouched ==
    ASSUME TypeOK, NEW c \in Peers, Step(c), NEW d \in Peers, d # c
    PROVE  /\ thread'[d] = thread[d] /\ pam'[d] = pam[d] /\ local_session'[d] = local_session[d]
           /\ released'[d] = released[d] /\ is_activated'[d] = is_activated[d]
           /\ listener_set'[d] = listener_set[d]
<1> USE DEF setting, credentials, client, login, status
<1>1. CASE \E r \in Requests : PeekHeader(c, r) \/ PeekRequest(c, r)
  BY <1>1 DEF PeekHeader, PeekRequest
<1>2. CASE AcceptPeer(c) \/ EnsureNlaHash(c) \/ NewSamFile(c) \/ Incoming(c) \/ Disconnect(c)
           \/ Connect(c) \/ Send(c) \/ ClientLeaves(c)
  BY <1>2 DEF AcceptPeer, EnsureNlaHash, NewSamFile, Incoming, Disconnect, Connect, Send, ClientLeaves
<1>3. CASE StartEventThread(c) \/ Publish(c)
  BY <1>3 DEF StartEventThread, Publish, TypeOK
<1>4. CASE Joined(c)
  BY <1>4 DEF Joined, CloseLocalSession, TypeOK
<1>5. CASE Capabilities(c) \/ PostConnect(c) \/ Activate(c) \/ Leave(c)
  BY <1>5 DEF Capabilities, PostConnect, Activate, Leave, Ends, TypeOK
<1>6. CASE Login(c) \/ LoginFails(c)
  BY <1>6 DEF Login, LoginStep, Pam, LoginFails, AfterFailure, TypeOK
<1>7. QED
  BY <1>1, <1>2, <1>3, <1>4, <1>5, <1>6 DEF Step, ThreadStep

(* The step keeps the login of its own peer.                               *)
LEMMA OwnLoginKept ==
    ASSUME TypeOK, CredentialInv, NEW c \in Peers, Step(c), LoginState(c), LoginRequired => LoggedIn(c)
    PROVE  LoginState(c)' /\ (LoginRequired => LoggedIn(c)')
<1> USE DEF setting, credentials, client, login, status
<1>1. CASE \E r \in Requests : PeekHeader(c, r) \/ PeekRequest(c, r)
  BY <1>1 DEF PeekHeader, PeekRequest, LoginState, LoggedIn
<1>2. CASE AcceptPeer(c) \/ EnsureNlaHash(c) \/ NewSamFile(c) \/ Incoming(c) \/ Disconnect(c)
           \/ Connect(c) \/ Send(c) \/ ClientLeaves(c)
  <2>1. UNCHANGED <<thread, listener_set, pam, local_session, released, is_activated>>
    BY <1>2 DEF AcceptPeer, EnsureNlaHash, NewSamFile, Incoming, Disconnect, Connect, Send, ClientLeaves
  <2>2. QED
    BY <2>1 DEF LoginState, LoggedIn
<1>3. CASE StartEventThread(c)
  <2>1. thread[c] = "none"
    BY <1>3 DEF StartEventThread, At, CredentialInv, Preparing
  <2>2. thread'[c] \in {"none", "handshake"}
    BY <1>3, <2>1 DEF StartEventThread, TypeOK
  <2>3. UNCHANGED <<listener_set, pam, local_session, released, is_activated>>
    BY <1>3 DEF StartEventThread
  <2>4. pam[c] = {} /\ ~local_session[c] /\ ~released[c] /\ ~is_activated[c]
    BY <2>1 DEF LoginState, Beyond
  <2>5. QED
    BY <2>2, <2>3, <2>4 DEF LoginState, LoggedIn, Beyond
<1>4. CASE Publish(c)
  <2>1. UNCHANGED <<thread, pam, local_session, released, is_activated>> /\ listener_set'[c]
    BY <1>4 DEF Publish, TypeOK
  <2>2. QED
    BY <2>1 DEF LoginState, LoggedIn
<1>5. CASE Joined(c)
  <2>1. thread[c] = "over" /\ thread' = thread /\ listener_set' = listener_set
    BY <1>5 DEF Joined
  <2>2. ~is_activated'[c] /\ ~local_session'[c]
    BY <1>5 DEF Joined, CloseLocalSession, TypeOK
  <2>3. pam'[c] = {}
    <3>1. pam[c] = IF local_session[c] THEN Whole ELSE {}
      BY <2>1 DEF LoginState, Beyond
    <3>2. pam'[c] = IF local_session[c] THEN pam[c] \ Whole ELSE pam[c]
      BY <1>5 DEF Joined, CloseLocalSession, TypeOK, Whole
    <3>3. QED
      BY <3>1, <3>2
  <2>4. QED
    BY <2>1, <2>2, <2>3 DEF LoginState, LoggedIn, Beyond
<1>6. CASE Capabilities(c) \/ Leave(c)
  <2>1. UNCHANGED <<listener_set, pam, local_session, released, is_activated>>
    BY <1>6 DEF Capabilities, Leave
  <2>2. \/ /\ thread[c] = "handshake" /\ thread'[c] = "capable"
           /\ "early_callbacks" \in faults \/ listener_set[c]
        \/ thread[c] \in {"handshake", "capable", "active"} /\ thread'[c] = "over"
    BY <1>6 DEF Capabilities, Leave, Ends, TypeOK
  <2>3. QED
    BY <2>1, <2>2 DEF LoginState, LoggedIn, LoginRequired, Beyond
<1>7. CASE PostConnect(c)
  <2>1. UNCHANGED <<listener_set, pam, local_session, released, is_activated>>
    BY <1>7 DEF PostConnect
  <2>2. /\ thread[c] = "capable"
        /\ thread'[c] = IF listener_set[c] /\ ~nla_enabled THEN "start" ELSE "connected"
    BY <1>7 DEF PostConnect, TypeOK
  <2>3. QED
    BY <2>1, <2>2 DEF LoginState, LoggedIn, LoginRequired, Beyond
<1>8. CASE Login(c)
  <2>1. UNCHANGED <<listener_set, released, is_activated>>
    BY <1>8 DEF Login
  <2>2. LoginStep(c)
    BY <1>8 DEF Login
  <2>3. CASE Pam(c, "start", "authenticate", {"handle"}) /\ UNCHANGED local_session
    BY <2>1, <2>3 DEF Pam, LoginState, LoggedIn, Beyond, TypeOK
  <2>4. CASE Pam(c, "authenticate", "account", {}) /\ UNCHANGED local_session
    BY <2>1, <2>4 DEF Pam, LoginState, LoggedIn, Beyond, TypeOK
  <2>5. CASE Pam(c, "account", "credentials", {}) /\ UNCHANGED local_session
    BY <2>1, <2>5 DEF Pam, LoginState, LoggedIn, Beyond, TypeOK
  <2>6. CASE Pam(c, "credentials", "open", {"credentials"}) /\ UNCHANGED local_session
    BY <2>1, <2>6 DEF Pam, LoginState, LoggedIn, Beyond, TypeOK
  <2>7. CASE Pam(c, "open", "connected", {"session"})
             /\ local_session' = [local_session EXCEPT ![c] = TRUE]
    BY <2>1, <2>7 DEF Pam, LoginState, LoggedIn, Beyond, TypeOK, Whole
  <2>8. QED
    BY <2>2, <2>3, <2>4, <2>5, <2>6, <2>7 DEF LoginStep
<1>9. CASE LoginFails(c)
  <2>1. UNCHANGED <<listener_set, local_session, released, is_activated>>
    BY <1>9 DEF LoginFails
  <2>2. thread[c] \in LoginSteps /\ thread'[c] = "joins_self" /\ pam'[c] = {}
    <3>1. thread[c] \in LoginSteps /\ thread'[c] = "joins_self"
      BY <1>9 DEF LoginFails, TypeOK
    <3>2. pam'[c] = pam[c] \ GivenBack(thread[c])
      BY <1>9 DEF LoginFails, AfterFailure, TypeOK
    <3>3. QED
      BY <3>1, <3>2 DEF LoginState, LoginSteps, GivenBack
  <2>3. QED
    BY <2>1, <2>2 DEF LoginState, LoggedIn, LoginSteps, Beyond
<1>10. CASE Activate(c)
  <2>1. UNCHANGED <<listener_set, pam, local_session, released>>
    BY <1>10 DEF Activate
  <2>2. thread[c] = "connected" /\ thread'[c] = "active" /\ is_activated'[c]
    BY <1>10 DEF Activate, TypeOK
  <2>3. QED
    BY <2>1, <2>2 DEF LoginState, LoggedIn, Beyond
<1>11. QED
  BY <1>1, <1>2, <1>3, <1>4, <1>5, <1>6, <1>7, <1>8, <1>9, <1>10 DEF Step, ThreadStep

(* So the invariant of the logins is kept by every step.                   *)
LEMMA StepKeepsLoginInv ==
    ASSUME TypeOK, CredentialInv, LoginInv, [Next]_vars PROVE LoginInv'
<1>1. CASE UNCHANGED vars
  BY <1>1 DEF vars, LoginInv, LoginState, LoggedIn, LoginRequired
<1>2. ASSUME NEW c \in Peers, Step(c) PROVE LoginInv'
  <2>1. LoginRequired' = LoginRequired
    <3>1. UNCHANGED setting
      BY <1>2 DEF Step, ThreadStep, PeekHeader, PeekRequest, AcceptPeer, EnsureNlaHash, NewSamFile,
         StartEventThread, Publish, Joined, Incoming, Disconnect, Connect, Send, ClientLeaves,
         Capabilities, PostConnect, Login, LoginFails, Activate, Leave
    <3>2. QED
      BY <3>1 DEF setting, LoginRequired
  <2>2. ASSUME NEW d \in Peers PROVE LoginState(d)' /\ (LoginRequired => LoggedIn(d)')
    <3>1. LoginState(d) /\ (LoginRequired => LoggedIn(d))
      BY DEF LoginInv
    <3>2. CASE d = c
      BY <1>2, <3>1, <3>2, OwnLoginKept
    <3>3. CASE d # c
      <4>1. /\ thread'[d] = thread[d] /\ pam'[d] = pam[d] /\ local_session'[d] = local_session[d]
            /\ released'[d] = released[d] /\ is_activated'[d] = is_activated[d]
            /\ listener_set'[d] = listener_set[d]
        BY <1>2, <3>3, OthersUntouched
      <4>2. QED
        BY <3>1, <4>1 DEF LoginState, LoggedIn
    <3>4. QED
      BY <3>2, <3>3
  <2>3. QED
    BY <2>1, <2>2 DEF LoginInv
<1>3. QED
  BY <1>1, <1>2, NextHasPeer

(* A step of one peer leaves the owners of the others' logins alone.       *)
LEMMA OtherOwnersKept ==
    ASSUME TypeOK, NEW c \in Peers, Step(c), NEW d \in Peers, d # c, OwnerState(d)
    PROVE  OwnerState(d)'
<1> USE DEF setting, credentials, client, login, status
<1>1. thread'[d] = thread[d] /\ local_session'[d] = local_session[d]
  BY OthersUntouched
<1>2. faults' = faults /\ alive'[d] = alive[d] /\ up'[d] = up[d]
  <2>1. CASE \E r \in Requests : PeekHeader(c, r) \/ PeekRequest(c, r)
    BY <2>1 DEF PeekHeader, PeekRequest, Done, TypeOK
  <2>2. CASE AcceptPeer(c) \/ EnsureNlaHash(c) \/ NewSamFile(c) \/ StartEventThread(c)
    BY <2>2 DEF AcceptPeer, EnsureNlaHash, NewSamFile, StartEventThread, Done, TypeOK
  <2>3. CASE Publish(c) \/ Joined(c) \/ Incoming(c) \/ Disconnect(c) \/ Connect(c) \/ Send(c)
             \/ ClientLeaves(c)
    BY <2>3 DEF Publish, Joined, Incoming, Disconnect, Connect, Send, ClientLeaves, TypeOK
  <2>4. CASE ThreadStep(c)
    BY <2>4 DEF ThreadStep, Capabilities, PostConnect, Login, LoginFails, Activate, Leave, Ends,
       TypeOK
  <2>5. QED
    BY <2>1, <2>2, <2>3, <2>4 DEF Step
<1>3. main = At("join", d) => main' = main
  <2>1. main' = main \/ main = MainLoop \/ \E pc \in MainSteps : main = At(pc, c)
    BY DEF Step, ThreadStep, PeekHeader, PeekRequest, AcceptPeer, EnsureNlaHash, NewSamFile,
       StartEventThread, Publish, Joined, Incoming, Disconnect, Connect, Send, ClientLeaves,
       Capabilities, PostConnect, Login, LoginFails, Activate, Leave, MainSteps
  <2>2. At("join", d) # MainLoop /\ \A pc \in MainSteps : At("join", d) # At(pc, c)
    BY DEF At, MainLoop
  <2>3. QED
    BY <2>1, <2>2
<1>4. QED
  BY <1>1, <1>2, <1>3 DEF OwnerState, Closing, Departed

(* And it keeps the owner of its own.                                      *)
LEMMA OwnOwnerKept ==
    ASSUME TypeOK, CredentialInv, NEW c \in Peers, Step(c), LoginState(c), OwnerState(c)
    PROVE  OwnerState(c)'
<1> USE DEF setting, credentials, client, login, status
<1> USE DEF OwnerState, Closing, Departed
<1>1. CASE \/ \E r \in Requests : PeekHeader(c, r) \/ PeekRequest(c, r)
           \/ AcceptPeer(c) \/ EnsureNlaHash(c) \/ NewSamFile(c) \/ StartEventThread(c) \/ Incoming(c)
  <2>1. thread[c] = "none"
    <3>1. CASE Incoming(c)
      BY <3>1 DEF Incoming
    <3>2. CASE ~Incoming(c)
      <4>1. main.peer = c /\ main.pc \in Preparing
        BY <1>1, <3>2 DEF PeekHeader, PeekRequest, AcceptPeer, EnsureNlaHash, NewSamFile,
           StartEventThread, At, Preparing
      <4>2. QED
        BY <4>1 DEF CredentialInv
    <3>3. QED
      BY <3>1, <3>2
  <2>2. thread'[c] \in {"none", "handshake"}
    BY <1>1, <2>1 DEF PeekHeader, PeekRequest, AcceptPeer, EnsureNlaHash, NewSamFile,
       StartEventThread, Incoming, TypeOK
  <2>3. QED
    BY <2>2 DEF Admitted, LoginSteps
<1>2. CASE Publish(c)
  <2>1. UNCHANGED <<faults, thread, alive, up, local_session>> /\ ~Closing(c)
    BY <1>2 DEF Publish, At
  <2>2. QED
    BY <2>1
<1>3. CASE Disconnect(c)
  <2>1. UNCHANGED <<faults, thread, up, local_session>> /\ Closing(c)'
    BY <1>3 DEF Disconnect
  <2>2. QED
    BY <2>1
<1>4. CASE Joined(c)
  <2>1. thread'[c] = "over" /\ ~local_session'[c]
    BY <1>4 DEF Joined, CloseLocalSession, TypeOK
  <2>2. QED
    BY <2>1 DEF Admitted, LoginSteps
<1>5. CASE Connect(c)
  <2>1. /\ UNCHANGED <<faults, thread, alive, main, local_session>>
        /\ up[c] = "new" /\ up'[c] = "up"
    BY <1>5 DEF Connect, TypeOK
  <2>2. QED
    BY <2>1
<1>6. CASE Send(c)
  <2>1. UNCHANGED <<faults, thread, alive, main, up, local_session>>
    BY <1>6 DEF Send
  <2>2. QED
    BY <2>1
<1>7. CASE ClientLeaves(c)
  <2>1. /\ UNCHANGED <<faults, thread, alive, main, local_session>> /\ up'[c] = "gone"
        /\ thread[c] \notin Admitted \/ "client_departs" \in faults
    BY <1>7 DEF ClientLeaves, TypeOK
  <2>2. QED
    BY <2>1
<1>8. CASE Capabilities(c) \/ Leave(c)
  <2>1. UNCHANGED <<faults, main, up, local_session>>
    BY <1>8 DEF Capabilities, Leave
  <2>2. \/ thread'[c] = "capable"
        \/ thread[c] \in {"handshake", "capable"} /\ thread'[c] = "over"
        \/ thread[c] = "active" /\ (~alive[c] \/ up[c] # "up") /\ thread'[c] = "over"
    BY <1>8 DEF Capabilities, Leave, Ends, TypeOK
  <2>3. thread[c] \in {"handshake", "capable"} => ~local_session[c]
    BY DEF LoginState, Beyond
  <2>4. QED
    BY <2>1, <2>2, <2>3 DEF Admitted, LoginSteps
<1>9. CASE PostConnect(c)
  <2>1. UNCHANGED <<faults, main, alive, up, local_session>> /\ alive[c] /\ up[c] = "up"
    BY <1>9 DEF PostConnect
  <2>2. thread'[c] \in {"start", "connected"}
    BY <1>9 DEF PostConnect, TypeOK
  <2>3. QED
    BY <2>1, <2>2
<1>10. CASE Login(c) \/ Activate(c)
  <2>1. UNCHANGED <<faults, main, alive, up>>
    BY <1>10 DEF Login, Activate
  <2>2. thread[c] \in Admitted /\ thread'[c] # "over"
    BY <1>10 DEF Login, LoginStep, Pam, Activate, TypeOK, Admitted, LoginSteps
  <2>3. QED
    BY <2>1, <2>2
<1>11. CASE LoginFails(c)
  <2>1. thread'[c] = "joins_self"
    BY <1>11 DEF LoginFails, TypeOK
  <2>2. QED
    BY <2>1 DEF Admitted, LoginSteps
<1>12. QED
  BY <1>1, <1>2, <1>3, <1>4, <1>5, <1>6, <1>7, <1>8, <1>9, <1>10, <1>11 DEF Step, ThreadStep

(* So every step keeps an owner for every login.                           *)
LEMMA StepKeepsOwnerInv ==
    ASSUME TypeOK, CredentialInv, LoginInv, OwnerInv, [Next]_vars PROVE OwnerInv'
<1>1. CASE UNCHANGED vars
  BY <1>1 DEF vars, OwnerInv, OwnerState, Closing, Departed
<1>2. ASSUME NEW c \in Peers, Step(c), NEW d \in Peers PROVE OwnerState(d)'
  <2>1. OwnerState(d) /\ LoginState(d)
    BY DEF OwnerInv, LoginInv
  <2>2. QED
    BY <1>2, <2>1, OtherOwnersKept, OwnOwnerKept
<1>3. QED
  BY <1>1, <1>2, NextHasPeer DEF OwnerInv

(* The invariant of the logins holds in every state, with that of the      *)
(* credentials, from which it takes that a new thread is a peer's first.   *)
THEOREM LoginInvariance == Spec => [](TypeOK /\ CredentialInv /\ LoginInv /\ OwnerInv)
<1>1. Init => CredentialInv
  BY InitHasCredentials
<1>2. Init => LoginInv /\ OwnerInv
  BY DEF Init, LoginInv, LoginState, LoggedIn, Beyond, OwnerInv, OwnerState, Admitted, LoginSteps
<1>3. TypeOK /\ CredentialInv /\ [Next]_vars => CredentialInv'
  BY StepKeepsCredentialInv
<1>4. TypeOK /\ CredentialInv /\ LoginInv /\ [Next]_vars => LoginInv'
  BY StepKeepsLoginInv
<1>5. TypeOK /\ CredentialInv /\ LoginInv /\ OwnerInv /\ [Next]_vars => OwnerInv'
  BY StepKeepsOwnerInv
<1>6. QED
  BY <1>1, <1>2, <1>3, <1>4, <1>5, TypeCorrect, PTL DEF Spec

(* What PAM holds belongs to a thread that logs its client in or serves    *)
(* it, or is about to be closed by the main thread: a refused login and a  *)
(* disconnected session leave nothing.  Only a client that departs by      *)
(* itself leaves its login open.                                           *)
THEOREM NothingOfPamLeft == Spec => []LoginReleased
<1>1. TypeOK /\ LoginInv /\ OwnerInv => LoginReleased
  <2> SUFFICES ASSUME TypeOK, LoginInv, OwnerInv, NEW c \in Peers, pam[c] # {}
               PROVE  /\ ~released[c]
                      /\ thread[c] \in Admitted
                           \/ (local_session[c] /\ (main = At("join", c) \/ Departed(c)))
    BY DEF LoginReleased
  <2>1. LoginState(c) /\ OwnerState(c) /\ thread[c] \in Threads
    BY DEF LoginInv, OwnerInv, TypeOK
  <2>2. ~released[c]
    BY <2>1 DEF LoginState, Beyond
  <2>3. thread[c] \in Admitted \/ (thread[c] = "over" /\ local_session[c])
    BY <2>1 DEF LoginState, Beyond, Threads, Admitted, LoginSteps
  <2>4. QED
    BY <2>1, <2>2, <2>3 DEF OwnerState, Closing
<1>2. QED
  BY <1>1, LoginInvariance, PTL

(* Nobody is active without NLA or an opened login.                        *)
THEOREM ActiveIsLoggedIn == Spec => []LoggedInWhenActive
<1>1. LoginInv => LoggedInWhenActive
  BY DEF LoginInv, LoginRequired, LoggedIn, LoginState, LoggedInWhenActive, Whole, Beyond
<1>2. QED
  BY <1>1, LoginInvariance, PTL
=============================================================================
