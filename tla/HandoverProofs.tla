--------------------------- MODULE HandoverProofs ---------------------------
(***************************************************************************)
(* The queue of the system daemon loses no client and keeps none that was  *)
(* removed, every socket reaches the daemon it belongs to, and no client   *)
(* is served twice, for any number of clients, tokens and daemons.         *)
(*                                                                         *)
(* PeerInv, about sockets, sessions and tokens, is inductive whatever goes *)
(* wrong.  OrderInv, about the queue and the claims, breaks when a client  *)
(* returns with the token of a record that was removed; it is inductive    *)
(* together with an invariant that excludes it: NoReturnInv when clients   *)
(* do not reconnect, RoomInv when no record is removed.                    *)
(***************************************************************************)
EXTENDS Handover, FiniteSetTheorems, SequenceTheorems, TLAPS
-----------------------------------------------------------------------------
(* The queue after clients were taken out of it.                           *)

(* The number of elements of left up to i.                                 *)
Rank(left, i) == Cardinality({j \in left : j <= i})

(* Every number up to their count is the rank of exactly one of them.      *)
LEMMA RanksAreAll ==
    ASSUME NEW m \in Nat, NEW left \in SUBSET (1 .. m)
    PROVE  /\ IsFiniteSet(left) /\ Cardinality(left) \in Nat
           /\ \A i \in left : Rank(left, i) \in 1 .. Cardinality(left)
           /\ \A i, j \in left : Rank(left, i) = Rank(left, j) => i = j
           /\ \A n \in 1 .. Cardinality(left) : \E i \in left : Rank(left, i) = n
<1>1. IsFiniteSet(left) /\ Cardinality(left) \in Nat
  <2>1. IsFiniteSet(1 .. m)
    BY FS_Interval
  <2>2. IsFiniteSet(left)
    BY <2>1, FS_Subset
  <2>3. QED
    BY <2>2, FS_CardinalityType
<1>2. ASSUME NEW i \in left PROVE Rank(left, i) \in 1 .. Cardinality(left)
  <2> DEFINE below == {j \in left : j <= i}
  <2>1. below \in SUBSET left /\ i \in below
    BY <1>2
  <2>2. IsFiniteSet(below) /\ Cardinality(below) <= Cardinality(left)
    BY <1>1, <2>1, FS_Subset
  <2>3. Cardinality(below) \in Nat /\ Cardinality(below) # 0
    BY <2>1, <2>2, FS_CardinalityType, FS_EmptySet
  <2>4. QED
    BY <1>1, <2>2, <2>3 DEF Rank
<1>3. ASSUME NEW i \in left, NEW j \in left, i < j PROVE Rank(left, i) # Rank(left, j)
  <2> DEFINE low == {k \in left : k <= i}
             high == {k \in left : k <= j}
  <2>1. low \in SUBSET high /\ high \in SUBSET left /\ j \in high /\ j \notin low
    <3>1. \A k \in left : k <= i => k <= j
      BY <1>3
    <3>2. ~(j <= i) /\ j <= j
      BY <1>3
    <3>3. QED
      BY <3>1, <3>2
  <2>2. IsFiniteSet(high)
    BY <1>1, <2>1, FS_Subset
  <2>3. Cardinality(high) # Cardinality(low)
    BY <2>1, <2>2, FS_Subset
  <2>4. QED
    BY <2>3 DEF Rank
<1>4. ASSUME NEW i \in left, NEW j \in left, Rank(left, i) = Rank(left, j) PROVE i = j
  <2>1. ~(i < j) /\ ~(j < i)
    BY <1>3, <1>4
  <2>2. QED
    BY <2>1
<1>5. \A n \in 1 .. Cardinality(left) : \E i \in left : Rank(left, i) = n
  <2> DEFINE all == 1 .. Cardinality(left)
             f == [i \in left |-> Rank(left, i)]
  <2>1. f \in Injection(left, all)
    <3>1. f \in [left -> all]
      BY <1>2
    <3>2. \A a, b \in left : f[a] = f[b] => a = b
      BY <1>4
    <3>3. QED
      BY <3>1, <3>2 DEF Injection, IsInjective
  <2>2. IsFiniteSet(all) /\ Cardinality(all) = Cardinality(left)
    BY <1>1, FS_Interval
  <2>3. f \in Surjection(left, all)
    BY <2>1, <2>2, FS_Injection
  <2>4. \A n \in all : \E i \in left : f[i] = n
    BY <2>3 DEF Surjection
  <2>5. QED
    BY <2>4
<1>6. QED
  BY <1>1, <1>2, <1>4, <1>5

(* No client is queued twice.                                              *)
NoDuplicates(queue) == \A i, j \in DOMAIN queue : queue[i] = queue[j] => i = j

(* drd_system_daemon_unqueue_client leaves a queue of tokens.              *)
LEMMA UnqueueType ==
    ASSUME NEW queue \in Seq(Tokens), NEW gone
    PROVE  Unqueue(queue, gone) \in Seq(Tokens)
<1> DEFINE left == Left(queue, gone)
           nth(n) == CHOOSE i \in left : Cardinality({j \in left : j <= i}) = n
<1>1. left \in SUBSET (1 .. Len(queue)) /\ Len(queue) \in Nat
  BY DEF Left
<1> HIDE DEF left
<1>2. \A n \in 1 .. Cardinality(left) : \E i \in left : Cardinality({j \in left : j <= i}) = n
  BY <1>1, RanksAreAll DEF Rank
<1>3. \A n \in 1 .. Cardinality(left) : nth(n) \in left
  BY <1>2
<1>4. \A n \in 1 .. Cardinality(left) : queue[nth(n)] \in Tokens
  BY <1>1, <1>3, ElementOfSeq
<1>5. Cardinality(left) \in Nat
  BY <1>1, RanksAreAll
<1> HIDE DEF nth
<1>6. [n \in 1 .. Cardinality(left) |-> queue[nth(n)]] \in Seq(Tokens)
  BY <1>4, <1>5
<1>7. QED
  BY <1>6 DEF Unqueue, left, nth

(* Of a queue without duplicates it leaves exactly the others, again       *)
(* without duplicates.                                                     *)
LEMMA UnqueueRemoves ==
    ASSUME NEW queue \in Seq(Tokens), NoDuplicates(queue), NEW gone
    PROVE  /\ NoDuplicates(Unqueue(queue, gone))
           /\ ToSet(Unqueue(queue, gone)) = ToSet(queue) \ gone
<1> DEFINE left == Left(queue, gone)
           nth(n) == CHOOSE i \in left : Cardinality({j \in left : j <= i}) = n
           result == [n \in 1 .. Cardinality(left) |-> queue[nth(n)]]
<1>1. left = {i \in DOMAIN queue : queue[i] \notin gone}
  BY DEF Left, NoDuplicates
<1>2. left \in SUBSET (1 .. Len(queue)) /\ Len(queue) \in Nat /\ DOMAIN queue = 1 .. Len(queue)
  BY <1>1
<1> HIDE DEF left
<1>3. Cardinality(left) \in Nat
      /\ \A i \in left : Cardinality({j \in left : j <= i}) \in 1 .. Cardinality(left)
  BY <1>2, RanksAreAll DEF Rank
<1>4. \A i, k \in left :
         Cardinality({j \in left : j <= i}) = Cardinality({j \in left : j <= k}) => i = k
  BY <1>2, RanksAreAll DEF Rank
<1>5. \A n \in 1 .. Cardinality(left) : \E i \in left : Cardinality({j \in left : j <= i}) = n
  BY <1>2, RanksAreAll DEF Rank
<1>6. ASSUME NEW n \in 1 .. Cardinality(left)
      PROVE  nth(n) \in left /\ Cardinality({j \in left : j <= nth(n)}) = n
  BY <1>5
<1>7. ASSUME NEW i \in left PROVE nth(Cardinality({j \in left : j <= i})) = i
  BY <1>3, <1>4, <1>6
<1>8. DOMAIN result = 1 .. Cardinality(left)
  OBVIOUS
<1> HIDE DEF nth
<1>9. NoDuplicates(result)
  <2>1. SUFFICES ASSUME NEW a \in 1 .. Cardinality(left), NEW b \in 1 .. Cardinality(left),
                        queue[nth(a)] = queue[nth(b)]
                 PROVE  a = b
    BY <1>8 DEF NoDuplicates
  <2>2. nth(a) = nth(b)
    BY <1>2, <1>6, <2>1 DEF NoDuplicates
  <2>3. QED
    BY <1>6, <2>2
<1>10. \A k \in ToSet(result) : k \in ToSet(queue) \ gone
  BY <1>1, <1>2, <1>6 DEF ToSet
<1>11. ASSUME NEW k \in ToSet(queue) \ gone PROVE k \in ToSet(result)
  <2>1. PICK i \in left : queue[i] = k
    BY <1>1 DEF ToSet
  <2>2. result[Cardinality({j \in left : j <= i})] = k
    BY <1>3, <1>7, <2>1
  <2>3. QED
    BY <1>3, <1>8, <2>2 DEF ToSet
<1>12. Unqueue(queue, gone) = result
  BY DEF Unqueue, left, nth
<1>13. QED
  BY <1>9, <1>10, <1>11, <1>12
-----------------------------------------------------------------------------
(* What the helpers of the system daemon return.                           *)

(* Where a client's connection can be; tables of the system daemon.        *)
Places == {"away", "connecting", "session", "parked", "daemon"}
Table == [Tokens -> RemoteClient]

(* The record of a token that is not in the table is a record.             *)
LEMMA BlankIsRecord == Blank \in RemoteClient
BY DEF Blank, RemoteClient, Pointer

(* Removing records leaves a table.                                        *)
LEMMA UnregisterType ==
    ASSUME NEW table \in Table, NEW gone PROVE Unregister(table, gone) \in Table
BY BlankIsRecord DEF Unregister, Table

(* Cutting clients off leaves every client a place.                        *)
LEMMA CutOffType ==
    ASSUME NEW where \in [Clients -> Places], NEW lost
    PROVE CutOff(where, lost) \in [Clients -> Places]
BY DEF CutOff, Places

(* So does moving one.                                                     *)
LEMMA MovedType ==
    ASSUME conn \in [Clients -> Places], NEW c \in Clients, NEW place \in Places
    PROVE  Moved(c, place) \in [Clients -> Places]
BY DEF Moved, Places

(* One record of the table is replaced.                                    *)
LEMMA UpdateType ==
    ASSUME NEW table \in Table, NEW k \in Tokens, NEW r \in RemoteClient
    PROVE  [table EXCEPT ![k] = r] \in Table
BY DEF Table

(* A record's time stamp is renewed.                                       *)
LEMMA FreshenedType ==
    ASSUME NEW table \in Table, NEW k \in Tokens PROVE [table EXCEPT ![k].stale = FALSE] \in Table
<1>1. [table[k] EXCEPT !.stale = FALSE] \in RemoteClient
  BY DEF Table, RemoteClient
<1>2. QED
  BY <1>1, UpdateType DEF Table

(* What drd_system_daemon_queue_client does to the table, the queue and    *)
(* the connections: the clients of gone are removed.                       *)
QueueOutcome(gone, k, keys, table, where) ==
    /\ gone \subseteq Stale(table) \cup {k}
    /\ known' = keys \ gone
    /\ remote_clients' \in Table
    /\ \A j \in Tokens :
          remote_clients'[j] = IF j \in gone THEN Blank
                               ELSE IF j = k THEN [table[k] EXCEPT !.stale = FALSE] ELSE table[j]
    /\ conn' \in [Clients -> Places]
    /\ \A c \in Clients :
          \/ conn'[c] = where[c] /\ (where[c] = "parked" => \A j \in gone : table[j].connection # c)
          \/ conn'[c] = "away" /\ where[c] = "parked" /\ \E j \in gone : table[j].connection = c
    /\ pending_clients' \in Seq(Tokens)
    /\ NoDuplicates(pending_clients) /\ k \notin ToSet(pending_clients) =>
          /\ NoDuplicates(pending_clients')
          /\ ToSet(pending_clients') = (ToSet(pending_clients) \cup {k}) \ gone
    /\ ~Full(Unqueue(pending_clients, Stale(table))) => gone \subseteq Stale(table)

(* QueueClient does what QueueOutcome says.                                *)
LEMMA QueueEffect ==
    ASSUME TypeOK, NEW k \in Tokens, NEW keys \in SUBSET Tokens, NEW table \in Table,
           NEW where \in [Clients -> Places], QueueClient(k, keys, table, where)
    PROVE  \E gone \in SUBSET Tokens : QueueOutcome(gone, k, keys, table, where)
<1> DEFINE stale == Stale(table)
           queue == Unqueue(pending_clients, stale)
           gone == stale \cup (IF Full(queue) THEN {k} ELSE {})
<1>1. /\ known' = keys \ gone
      /\ remote_clients' = Unregister([table EXCEPT ![k].stale = FALSE], gone)
      /\ pending_clients' = IF Full(queue) THEN Unqueue(queue, {k}) ELSE Append(queue, k)
      /\ conn' = CutOff(where, {table[j].connection : j \in gone})
  BY DEF QueueClient
<1>2. pending_clients \in Seq(Tokens)
  BY DEF TypeOK
<1>3. stale \in SUBSET Tokens
  BY <1>2 DEF Stale, ToSet
<1>4. queue \in Seq(Tokens)
  BY <1>2, UnqueueType
<1>5. pending_clients' \in Seq(Tokens)
  <2>1. Unqueue(queue, {k}) \in Seq(Tokens)
    BY <1>4, UnqueueType
  <2>2. Append(queue, k) \in Seq(Tokens)
    BY <1>4
  <2>3. QED
    BY <1>1, <2>1, <2>2
<1>6. ASSUME NoDuplicates(pending_clients), k \notin ToSet(pending_clients)
      PROVE  /\ NoDuplicates(pending_clients')
             /\ ToSet(pending_clients') = (ToSet(pending_clients) \cup {k}) \ gone
  <2>1. NoDuplicates(queue) /\ ToSet(queue) = ToSet(pending_clients) \ stale
    BY <1>2, <1>6, UnqueueRemoves
  <2>2. k \notin stale /\ k \notin ToSet(queue)
    BY <1>6, <2>1 DEF Stale
  <2>3. CASE Full(queue)
    <3>1. NoDuplicates(Unqueue(queue, {k})) /\ ToSet(Unqueue(queue, {k})) = ToSet(queue) \ {k}
      BY <1>4, <2>1, UnqueueRemoves
    <3>2. QED
      BY <1>1, <2>1, <2>2, <2>3, <3>1
  <2>4. CASE ~Full(queue)
    <3>1. pending_clients' = Append(queue, k)
      BY <1>1, <2>4
    <3>2. ToSet(pending_clients') = ToSet(queue) \cup {k}
      BY <1>4, <3>1 DEF ToSet
    <3>3. NoDuplicates(pending_clients')
      BY <1>4, <2>1, <2>2, <3>1 DEF ToSet, NoDuplicates
    <3>4. QED
      BY <2>1, <2>2, <2>4, <3>2, <3>3
  <2>5. QED
    BY <2>3, <2>4
<1>7. gone \in SUBSET Tokens
  BY <1>3
<1>8. ~Full(queue) => gone \subseteq stale
  OBVIOUS
<1> DEFINE fresh == [table EXCEPT ![k].stale = FALSE]
<1>9. fresh \in Table
  BY FreshenedType
<1>10. fresh[k] = [table[k] EXCEPT !.stale = FALSE] /\ \A j \in Tokens \ {k} : fresh[j] = table[j]
  BY DEF Table
<1> HIDE DEF stale, queue, gone, fresh
<1>11. remote_clients' = Unregister(fresh, gone)
  BY <1>1 DEF gone, fresh, stale, queue
<1>12. \A j \in Tokens : remote_clients'[j] = IF j \in gone THEN Blank ELSE fresh[j]
  BY <1>11 DEF Unregister
<1>13. remote_clients' \in Table
  BY <1>9, <1>11, UnregisterType
<1>14. conn' \in [Clients -> Places]
  BY <1>1, CutOffType
<1>15. ASSUME NEW c \in Clients
       PROVE \/ conn'[c] = where[c] /\ (where[c] = "parked"
                  => \A j \in gone : table[j].connection # c)
             \/ conn'[c] = "away" /\ where[c] = "parked" /\ \E j \in gone : table[j].connection = c
  <2>1. conn'[c] = IF c \in {table[j].connection : j \in gone} /\ where[c] = "parked"
                   THEN "away" ELSE where[c]
    BY <1>1 DEF CutOff
  <2>2. QED
    BY <2>1
<1>16. known' = keys \ gone /\ gone \subseteq Stale(table) \cup {k}
  BY <1>1 DEF gone, stale
<1>17. QED
  BY <1>5, <1>6, <1>7, <1>8, <1>10, <1>12, <1>13, <1>14, <1>15, <1>16 DEF QueueOutcome, stale, queue

(* drd_remote_client_new: the fields of a new record.                      *)
LEMMA NewClientType ==
    ASSUME TypeOK, NEW c \in Clients, NEW k \in Tokens, NEW accepted \in BOOLEAN
    PROVE  /\ NewClient(c, k, accepted) \in RemoteClient
           /\ NewClient(c, k, accepted).connection = c
           /\ NewClient(c, k, accepted).session = IF accepted THEN c ELSE None
           /\ NewClient(c, k, accepted).handover_count = 0
           /\ ~NewClient(c, k, accepted).assigned /\ ~NewClient(c, k, accepted).stale
<1> DEFINE id == IF token[c] # None THEN token[c] ELSE k
           session == IF accepted THEN c ELSE None
           new == [Blank EXCEPT !.remote_id = id, !.connection = c, !.session = session]
<1>1. id \in Tokens \cup {None} /\ session \in Pointer /\ c \in Pointer
  BY DEF TypeOK, Pointer
<1>2. NewClient(c, k, accepted) = new
  BY DEF NewClient
<1>3. Blank.handover_count = 0 /\ ~Blank.assigned /\ ~Blank.stale
  BY DEF Blank
<1> HIDE DEF id, session
<1>4. new \in RemoteClient
  BY <1>1, BlankIsRecord DEF RemoteClient
<1>5. /\ new.connection = c /\ new.session = session
      /\ new.handover_count = 0 /\ ~new.assigned /\ ~new.stale
  BY <1>3, BlankIsRecord DEF RemoteClient
<1>6. QED
  BY <1>2, <1>4, <1>5 DEF session

(* The identity a new client gets is not in the table.                     *)
LEMMA IdentitiesType ==
    ASSUME TypeOK, NEW c \in Clients PROVE Identities(c) \subseteq Tokens \ known
BY DEF TypeOK, Identities, FreshTokens

(* A signal leaves every daemon an inbox of signals.                       *)
LEMMA EmitType ==
    ASSUME TypeOK, NEW k, NEW signal \in Signal, Emit(k, signal)
    PROVE inbox' \in [Daemons -> Seq(Signal)]
<1>1. \A d \in Daemons : inbox[d] \in Seq(Signal) /\ Append(inbox[d], signal) \in Seq(Signal)
  BY DEF TypeOK
<1>2. QED
  BY <1>1 DEF Emit
-----------------------------------------------------------------------------
(* What each action does, with the records it builds taken apart: an       *)
(* incoming connection.                                                    *)

(* The states of a handover process.                                       *)
DaemonStates ==
    [pc: {"none", "launched", "requested", "subscribed", "running"},
     display: Tokens \cup {None}, object: Tokens \cup {None}, active_session: Pointer]

(* A connection with a known token: what IncomingKnown does.               *)
KnownOutcome(c, k) ==
    /\ conn[c] = "connecting" /\ k \in Tokens /\ k \in known
    /\ remote_clients[k].session = None
    /\ remote_clients' \in Table
    /\ \A j \in Tokens \ {k} : remote_clients'[j] = remote_clients[j]
    /\ remote_clients'[k] = [remote_clients[k] EXCEPT !.connection = c, !.stale = FALSE]
    /\ conn' \in [Clients -> Places] /\ conn'[c] = "parked"
    /\ \A b \in Clients \ {c} :
          \/ conn'[b] = conn[b] /\ (conn[b] = "parked" => remote_clients[k].connection # b)
          \/ conn'[b] = "away" /\ conn[b] = "parked" /\ remote_clients[k].connection = b
    /\ inbox' \in [Daemons -> Seq(Signal)]
    /\ Emit(k, [kind |-> "take-client-ready", by |-> None])
    /\ UNCHANGED <<faults, known, pending_clients, listed, daemon, token, displays>>

(* IncomingKnown does what KnownOutcome says.                              *)
LEMMA KnownEffect ==
    ASSUME TypeOK, NEW c \in Clients, NEW k, k = token[c], IncomingKnown(c)
    PROVE  KnownOutcome(c, k)
<1>1. /\ conn[c] = "connecting" /\ k \in Tokens /\ k \in known
      /\ remote_clients[k].session = None
      /\ Emit(k, [kind |-> "take-client-ready", by |-> None])
      /\ UNCHANGED <<faults, known, pending_clients, listed, daemon, token, displays>>
  BY DEF IncomingKnown, TypeOK
<1>2. inbox' \in [Daemons -> Seq(Signal)]
  BY <1>1, EmitType DEF Signal
<1>3. remote_clients \in Table /\ remote_clients[k] \in RemoteClient
  BY <1>1 DEF TypeOK, Table
<1>4. [remote_clients[k] EXCEPT !.connection = c, !.stale = FALSE] \in RemoteClient
  BY <1>3 DEF RemoteClient, Pointer
<1>5. remote_clients' =
         [remote_clients EXCEPT ![k] = [remote_clients[k] EXCEPT !.connection = c, !.stale = FALSE]]
  BY <1>1, <1>3 DEF IncomingKnown, Table
<1>6. /\ remote_clients' \in Table
      /\ \A j \in Tokens \ {k} : remote_clients'[j] = remote_clients[j]
      /\ remote_clients'[k] = [remote_clients[k] EXCEPT !.connection = c, !.stale = FALSE]
  BY <1>1, <1>3, <1>4, <1>5, UpdateType DEF Table
<1>7. Moved(c, "parked") \in [Clients -> Places]
  BY MovedType DEF TypeOK, Places
<1>8. conn' = CutOff(Moved(c, "parked"), {remote_clients[k].connection} \ {c})
  BY DEF IncomingKnown
<1>9. conn' \in [Clients -> Places]
  BY <1>7, <1>8, CutOffType
<1>10. conn'[c] = "parked"
  BY <1>8 DEF CutOff, Moved, TypeOK
<1>11. ASSUME NEW b \in Clients \ {c}
       PROVE \/ conn'[b] = conn[b] /\ (conn[b] = "parked" => remote_clients[k].connection # b)
             \/ conn'[b] = "away" /\ conn[b] = "parked" /\ remote_clients[k].connection = b
  BY <1>8 DEF CutOff, Moved, TypeOK
<1>12. QED
  BY <1>1, <1>2, <1>6, <1>9, <1>10, <1>11 DEF KnownOutcome

(* A connection is registered under k, accepted by the listener or not,    *)
(* and the clients of gone are removed: what IncomingNew does.             *)
NewOutcome(c, k, accepted, gone) ==
    /\ conn[c] = "connecting"
    /\ k \in Identities(c) /\ k \in Tokens /\ k \notin known
    /\ gone \subseteq Stale(remote_clients) \cup {k}
    /\ known' = (known \cup {k}) \ gone
    /\ "overload" \in faults \/ Cardinality(known \cup {k}) <= MaxPending
    /\ remote_clients' \in Table
    /\ \A j \in Tokens \ {k} :
          remote_clients'[j] = IF j \in gone THEN Blank ELSE remote_clients[j]
    /\ k \in gone => remote_clients'[k] = Blank
    /\ k \notin gone =>
          /\ remote_clients'[k].connection = c
          /\ remote_clients'[k].session = IF accepted THEN c ELSE None
          /\ remote_clients'[k].handover_count = 0
          /\ ~remote_clients'[k].assigned /\ ~remote_clients'[k].stale
    /\ conn' \in [Clients -> Places]
    /\ conn'[c] # "connecting" /\ conn'[c] # "daemon"
    /\ accepted => conn'[c] = "session"
    /\ ~accepted /\ conn'[c] # "parked"
         => conn'[c] = "away" /\ \E j \in gone : j = k \/ remote_clients[j].connection = c
    /\ \A b \in Clients \ {c} :
          \/ conn'[b] = conn[b] /\ (conn[b] = "parked"
               => \A j \in gone \ {k} : remote_clients[j].connection # b)
          \/ conn'[b] = "away" /\ conn[b] = "parked"
               /\ \E j \in gone \ {k} : remote_clients[j].connection = b
    /\ pending_clients' \in Seq(Tokens)
    /\ NoDuplicates(pending_clients) /\ k \notin ToSet(pending_clients) =>
          /\ NoDuplicates(pending_clients')
          /\ ToSet(pending_clients') = (ToSet(pending_clients) \cup {k}) \ gone
          /\ ~Full(Unqueue(pending_clients, Stale(remote_clients)))
               => gone \subseteq Stale(remote_clients)
    /\ listed' \in Clients \cup {None} /\ (accepted => listed' = c) /\ (~accepted
         => listed' = listed)
    /\ displays' \subseteq Tokens
    /\ UNCHANGED <<faults, daemon, inbox, token>>

(* IncomingNew does what NewOutcome says, for some identity.               *)
LEMMA NewEffect ==
    ASSUME TypeOK, NEW c \in Clients, IncomingNew(c)
    PROVE  \E k \in Tokens, accepted \in BOOLEAN, gone \in SUBSET Tokens :
              NewOutcome(c, k, accepted, gone)
<1>1. PICK k \in Identities(c), accepted \in BOOLEAN :
         /\ "overload" \in faults \/ Cardinality(known \cup {k}) <= MaxPending
         /\ QueueClient(k, known \cup {k},
                        [remote_clients EXCEPT ![k] = NewClient(c, k, accepted)],
                        Moved(c, IF accepted THEN "session" ELSE "parked"))
         /\ IF accepted THEN SessionReady(c, NewClient(c, k, TRUE).remote_id)
                        ELSE UNCHANGED <<listed, displays>>
  BY DEF IncomingNew
<1> DEFINE new == NewClient(c, k, accepted)
           table == [remote_clients EXCEPT ![k] = new]
           place == IF accepted THEN "session" ELSE "parked"
           where == Moved(c, place)
<1>2. k \in Tokens /\ k \notin known
  BY IdentitiesType
<1>3. /\ new \in RemoteClient
      /\ new.connection = c
      /\ new.session = IF accepted THEN c ELSE None
      /\ new.handover_count = 0
      /\ ~new.assigned /\ ~new.stale
  BY <1>2, NewClientType
<1>4. conn \in [Clients -> Places] /\ place \in Places
  BY DEF TypeOK, Places
<1>5. where \in [Clients -> Places] /\ where[c] = place
        /\ \A b \in Clients \ {c} : where[b] = conn[b]
  BY <1>4, MovedType DEF Moved
<1>6. remote_clients \in Table
  BY DEF TypeOK, Table
<1> HIDE DEF new
<1>7. table \in Table /\ table[k] = new /\ \A j \in Tokens \ {k} : table[j] = remote_clients[j]
  BY <1>2, <1>3, <1>6, UpdateType DEF Table
<1>8. known \cup {k} \in SUBSET Tokens
  BY <1>2 DEF TypeOK
<1>9. QueueClient(k, known \cup {k}, table, where)
  BY <1>1 DEF new
<1> HIDE DEF table, where, place
<1>10. PICK gone \in SUBSET Tokens : QueueOutcome(gone, k, known \cup {k}, table, where)
  BY <1>2, <1>5, <1>7, <1>8, <1>9, QueueEffect
<1>11. pending_clients \in Seq(Tokens)
  BY DEF TypeOK
<1>12. Stale(table) \subseteq Stale(remote_clients) /\ k \notin Stale(table)
       /\ (k \notin ToSet(pending_clients) => Stale(table) = Stale(remote_clients))
  BY <1>2, <1>3, <1>7, <1>11 DEF Stale, ToSet
<1>13. /\ gone \subseteq Stale(remote_clients) \cup {k}
       /\ known' = (known \cup {k}) \ gone
       /\ remote_clients' \in Table
       /\ \A j \in Tokens \ {k} :
             remote_clients'[j] = IF j \in gone THEN Blank ELSE remote_clients[j]
       /\ k \in gone => remote_clients'[k] = Blank
  BY <1>2, <1>7, <1>10, <1>12 DEF QueueOutcome
<1>14. k \notin gone =>
          /\ remote_clients'[k].connection = c
          /\ remote_clients'[k].session = IF accepted THEN c ELSE None
          /\ remote_clients'[k].handover_count = 0
          /\ ~remote_clients'[k].assigned /\ ~remote_clients'[k].stale
  <2>1. k \notin gone => remote_clients'[k] = [new EXCEPT !.stale = FALSE]
    BY <1>2, <1>7, <1>10 DEF QueueOutcome
  <2>2. QED
    BY <1>3, <2>1 DEF RemoteClient
<1>15. /\ conn' \in [Clients -> Places]
       /\ \A b \in Clients :
             \/ conn'[b] = where[b] /\ (where[b] = "parked"
                  => \A j \in gone : table[j].connection # b)
             \/ conn'[b] = "away" /\ where[b] = "parked" /\ \E j \in gone : table[j].connection = b
  BY <1>10 DEF QueueOutcome
<1>16. /\ conn'[c] # "connecting" /\ conn'[c] # "daemon"
       /\ accepted => conn'[c] = "session"
       /\ ~accepted /\ conn'[c] # "parked"
            => conn'[c] = "away" /\ \E j \in gone : j = k \/ remote_clients[j].connection = c
  BY <1>5, <1>7, <1>15 DEF place
<1>17. ASSUME NEW b \in Clients \ {c}
       PROVE  \/ conn'[b] = conn[b] /\ (conn[b] = "parked"
                   => \A j \in gone \ {k} : remote_clients[j].connection # b)
              \/ conn'[b] = "away" /\ conn[b] = "parked"
                   /\ \E j \in gone \ {k} : remote_clients[j].connection = b
  <2>1. where[b] = conn[b]
    BY <1>5
  <2>2. ASSUME NEW j \in gone, table[j].connection = b
        PROVE  j # k /\ remote_clients[j].connection = b
    BY <1>3, <1>7, <2>2
  <2>3. \A j \in gone \ {k} : table[j].connection = remote_clients[j].connection
    BY <1>7
  <2>4. QED
    BY <1>15, <2>1, <2>2, <2>3
<1>18. /\ pending_clients' \in Seq(Tokens)
       /\ NoDuplicates(pending_clients) /\ k \notin ToSet(pending_clients) =>
             /\ NoDuplicates(pending_clients')
             /\ ToSet(pending_clients') = (ToSet(pending_clients) \cup {k}) \ gone
             /\ ~Full(Unqueue(pending_clients, Stale(remote_clients)))
                  => gone \subseteq Stale(remote_clients)
  BY <1>10, <1>12 DEF QueueOutcome
<1>19. /\ listed' \in Clients \cup {None} /\ (accepted => listed' = c) /\ (~accepted
            => listed' = listed)
       /\ displays' \subseteq Tokens
  <2>1. NewClient(c, k, TRUE).remote_id \in Tokens
    BY <1>2 DEF NewClient, Blank, TypeOK
  <2>2. QED
    BY <1>1, <2>1 DEF SessionReady, TypeOK
<1>20. UNCHANGED <<faults, daemon, inbox, token>> /\ conn[c] = "connecting"
  BY DEF IncomingNew
<1>21. QED
  BY <1>1, <1>2, <1>13, <1>14, <1>15, <1>16, <1>17, <1>18, <1>19, <1>20 DEF NewOutcome
-----------------------------------------------------------------------------
(* What the handover daemons' calls do: RequestHandover.                   *)

(* No process is a state of a handover process.                            *)
LEMMA StoppedIsState == Stopped \in DaemonStates
BY DEF Stopped, DaemonStates, Pointer

(* One handover process changes its state.                                 *)
LEMMA DaemonUpdate ==
    ASSUME TypeOK, NEW d \in Daemons, NEW state \in DaemonStates,
           daemon' = [daemon EXCEPT ![d] = state]
    PROVE  /\ daemon' \in [Daemons -> DaemonStates]
           /\ daemon'[d] = state /\ \A e \in Daemons \ {d} : daemon'[e] = daemon[e]
BY DEF TypeOK, DaemonStates

(* A handover process ends: what Ends does.                                *)
LEMMA EndsEffect ==
    ASSUME TypeOK, NEW d \in Daemons, Ends(d)
    PROVE  /\ daemon' \in [Daemons -> DaemonStates] /\ inbox' \in [Daemons -> Seq(Signal)]
           /\ daemon'[d] = Stopped /\ inbox'[d] = <<>>
           /\ \A e \in Daemons \ {d} : daemon'[e] = daemon[e] /\ inbox'[e] = inbox[e]
<1>1. daemon' = [daemon EXCEPT ![d] = Stopped] /\ inbox' = [inbox EXCEPT ![d] = <<>>]
  BY DEF Ends
<1>2. <<>> \in Seq(Signal) /\ inbox \in [Daemons -> Seq(Signal)]
  BY DEF TypeOK
<1>3. QED
  BY <1>1, <1>2, StoppedIsState, DaemonUpdate

(* A handover process has taken a signal from its inbox.                   *)
LEMMA TailEffect ==
    ASSUME TypeOK, NEW d \in Daemons, inbox[d] # <<>>, inbox' = [inbox EXCEPT ![d] = Tail(@)]
    PROVE  /\ inbox' \in [Daemons -> Seq(Signal)]
           /\ inbox'[d] = Tail(inbox[d]) /\ \A e \in Daemons \ {d} : inbox'[e] = inbox[e]
<1>1. Tail(inbox[d]) \in Seq(Signal)
  BY DEF TypeOK
<1>2. QED
  BY <1>1 DEF TypeOK

(* The daemon d gets client k, or none and ends: what RequestHandover      *)
(* does.                                                                   *)
RequestOutcome(d, k) ==
    /\ daemon[d].pc = "launched"
    /\ known' = known \ Stale(remote_clients)
    /\ remote_clients' \in Table
    /\ \A j \in Tokens \ {k} :
          remote_clients'[j] = IF j \in Stale(remote_clients) THEN Blank ELSE remote_clients[j]
    /\ conn' \in [Clients -> Places]
    /\ \A b \in Clients :
          \/ conn'[b] = conn[b] /\ (conn[b] = "parked"
               => \A j \in Stale(remote_clients) : remote_clients[j].connection # b)
          \/ conn'[b] = "away" /\ conn[b] = "parked"
               /\ \E j \in Stale(remote_clients) : remote_clients[j].connection = b
    /\ pending_clients' \in Seq(Tokens)
    /\ NoDuplicates(pending_clients) =>
          /\ NoDuplicates(pending_clients')
          /\ ToSet(pending_clients') = (ToSet(pending_clients) \ Stale(remote_clients)) \ {k}
          /\ k # None => k \in ToSet(pending_clients) \ Stale(remote_clients)
    /\ k = None => Ends(d)
    /\ k # None =>
          /\ k \in Tokens
          /\ remote_clients'[k] =
                [(IF k \in Stale(remote_clients) THEN Blank ELSE remote_clients[k])
                   EXCEPT !.assigned = TRUE, !.stale = FALSE]
          /\ daemon' \in [Daemons -> DaemonStates]
          /\ daemon'[d] = [daemon[d] EXCEPT !.pc = "requested", !.object = k]
          /\ \A e \in Daemons \ {d} : daemon'[e] = daemon[e]
          /\ UNCHANGED inbox
    /\ UNCHANGED <<faults, listed, token, displays>>

(* RequestHandover does what RequestOutcome says.                          *)
LEMMA RequestEffect ==
    ASSUME TypeOK, NEW d \in Daemons, RequestHandover(d)
    PROVE  \E k \in Tokens \cup {None} : RequestOutcome(d, k)
<1> DEFINE stale == Stale(remote_clients)
           queue == Unqueue(pending_clients, stale)
           pruned == Unregister(remote_clients, stale)
<1>1. pending_clients \in Seq(Tokens) /\ queue \in Seq(Tokens)
  BY UnqueueType DEF TypeOK
<1>2. pruned \in Table
        /\ \A j \in Tokens : pruned[j] = IF j \in stale THEN Blank ELSE remote_clients[j]
  BY UnregisterType DEF TypeOK, Table, Unregister
<1>3. NoDuplicates(pending_clients) =>
         NoDuplicates(queue) /\ ToSet(queue) = ToSet(pending_clients) \ stale
  BY <1>1, UnqueueRemoves
<1>4. daemon[d].pc = "launched" /\ known' = known \ stale
        /\ UNCHANGED <<faults, listed, token, displays>>
  BY DEF RequestHandover
<1>5. conn' = CutOff(conn, {remote_clients[j].connection : j \in stale})
        /\ conn \in [Clients -> Places]
  BY DEF RequestHandover, TypeOK, Places
<1>6. conn' \in [Clients -> Places]
  BY <1>5, CutOffType
<1>7. ASSUME NEW b \in Clients
      PROVE \/ conn'[b] = conn[b] /\ (conn[b] = "parked"
                 => \A j \in stale : remote_clients[j].connection # b)
            \/ conn'[b] = "away" /\ conn[b] = "parked"
                 /\ \E j \in stale : remote_clients[j].connection = b
  BY <1>5 DEF CutOff
<1>8. CASE queue = <<>>
  <2>1. Ends(d) /\ remote_clients' = pruned /\ pending_clients' = queue
    BY <1>8 DEF RequestHandover
  <2>2. None \notin Tokens /\ None \notin ToSet(pending_clients)
    BY <1>1, ConstantsAssumption DEF ToSet
  <2> HIDE DEF queue, pruned, stale
  <2>3. RequestOutcome(d, None)
    BY <1>1, <1>2, <1>3, <1>4, <1>6, <1>7, <2>1, <2>2 DEF RequestOutcome, stale
  <2>4. QED
    BY <2>3
<1>9. CASE queue # <<>>
  <2> DEFINE k == Head(queue)
  <2>1. /\ daemon' = [daemon EXCEPT ![d].pc = "requested", ![d].object = k]
        /\ remote_clients' = [pruned EXCEPT ![k].assigned = TRUE, ![k].stale = FALSE]
        /\ pending_clients' = Tail(queue)
        /\ UNCHANGED inbox
    BY <1>9 DEF RequestHandover, Popped
  <2> HIDE DEF queue, pruned, stale
  <2>2. k \in Tokens /\ Tail(queue) \in Seq(Tokens)
    BY <1>1, <1>9
  <2>3. NoDuplicates(queue) =>
           NoDuplicates(Tail(queue)) /\ ToSet(Tail(queue)) = ToSet(queue) \ {k}
             /\ k \in ToSet(queue)
    <3>1. SUFFICES ASSUME NoDuplicates(queue)
                   PROVE  NoDuplicates(Tail(queue)) /\ ToSet(Tail(queue)) = ToSet(queue) \ {k}
                          /\ k \in ToSet(queue)
      OBVIOUS
    <3>2. /\ Len(queue) \in Nat \ {0} /\ DOMAIN queue = 1 .. Len(queue) /\ k = queue[1]
          /\ DOMAIN Tail(queue) = 1 .. Len(queue) - 1
          /\ \A i \in 1 .. Len(queue) - 1 : Tail(queue)[i] = queue[i + 1]
      BY <1>1, <1>9
    <3>3. NoDuplicates(Tail(queue))
      BY <3>1, <3>2 DEF NoDuplicates
    <3>4. ASSUME NEW x \in ToSet(queue) \ {k} PROVE x \in ToSet(Tail(queue))
      <4>1. PICK i \in 2 .. Len(queue) : queue[i] = x
        BY <3>2 DEF ToSet
      <4>2. i - 1 \in 1 .. Len(queue) - 1 /\ Tail(queue)[i - 1] = x
        BY <3>2, <4>1
      <4>3. QED
        BY <3>2, <4>2 DEF ToSet
    <3>5. ASSUME NEW x \in ToSet(Tail(queue)) PROVE x \in ToSet(queue) \ {k}
      <4>1. PICK i \in 1 .. Len(queue) - 1 : queue[i + 1] = x
        BY <3>2 DEF ToSet
      <4>2. i + 1 \in 1 .. Len(queue) /\ i + 1 # 1
        BY <3>2, <4>1
      <4>3. QED
        BY <3>1, <3>2, <4>1, <4>2 DEF ToSet, NoDuplicates
    <3>6. k \in ToSet(queue)
      BY <3>2 DEF ToSet
    <3>7. QED
      BY <3>3, <3>4, <3>5, <3>6
  <2> HIDE DEF k
  <2>4. [pruned[k] EXCEPT !.assigned = TRUE, !.stale = FALSE] \in RemoteClient
    BY <1>2, <2>2 DEF Table, RemoteClient
  <2>5. remote_clients' = [pruned EXCEPT ![k] = [pruned[k]
          EXCEPT !.assigned = TRUE, !.stale = FALSE]]
    BY <1>2, <2>1, <2>2 DEF Table
  <2>6. remote_clients' \in Table
        /\ remote_clients'[k] = [pruned[k] EXCEPT !.assigned = TRUE, !.stale = FALSE]
        /\ \A j \in Tokens \ {k} : remote_clients'[j] = pruned[j]
    BY <1>2, <2>2, <2>4, <2>5, UpdateType DEF Table
  <2>7. [daemon[d] EXCEPT !.pc = "requested", !.object = k] \in DaemonStates
    BY <2>2 DEF TypeOK, DaemonStates
  <2>8. daemon' = [daemon EXCEPT ![d] = [daemon[d] EXCEPT !.pc = "requested", !.object = k]]
    BY <2>1 DEF TypeOK
  <2>9. /\ daemon' \in [Daemons -> DaemonStates]
        /\ daemon'[d] = [daemon[d] EXCEPT !.pc = "requested", !.object = k]
        /\ \A e \in Daemons \ {d} : daemon'[e] = daemon[e]
    BY <2>7, <2>8, DaemonUpdate
  <2>10. k # None
    BY <2>2, ConstantsAssumption
  <2>11. RequestOutcome(d, k)
    BY <1>2, <1>3, <1>4, <1>6, <1>7, <2>1, <2>2, <2>3, <2>6, <2>9, <2>10 DEF RequestOutcome, stale
  <2>12. QED
    BY <2>2, <2>11
<1>10. QED
  BY <1>8, <1>9
-----------------------------------------------------------------------------
(* What StartHandover and TakeClient do.                                   *)

(* Client c is to connect again with token k; a client that is gone is     *)
(* not.                                                                    *)
RedirectOutcome(c, k) ==
    /\ conn' \in [Clients -> Places] /\ token' \in [Clients -> Tokens \cup {None}]
    /\ \A b \in Clients \ {c} : conn'[b] = conn[b] /\ token'[b] = token[b]
    /\ c \in Clients => conn'[c] = "connecting" /\ token'[c] = k

(* Redirected does what RedirectOutcome says.                              *)
LEMMA RedirectedEffect ==
    ASSUME TypeOK, NEW c, NEW k \in Tokens \cup {None}, Redirected(c, k)
    PROVE  RedirectOutcome(c, k)
BY DEF RedirectOutcome, Redirected, Moved, TypeOK, Places

(* The client is redirected here, or its daemons are asked to: what        *)
(* StartHandover does.                                                     *)
StartOutcome(d, k) ==
    /\ k = daemon[d].object /\ daemon[d].pc = "subscribed" /\ k \in known /\ k \in Tokens
    /\ daemon' \in [Daemons -> DaemonStates]
    /\ daemon'[d] = [daemon[d] EXCEPT !.pc = "running"]
    /\ \A e \in Daemons \ {d} : daemon'[e] = daemon[e]
    /\ remote_clients' \in Table
    /\ \A j \in Tokens \ {k} : remote_clients'[j] = remote_clients[j]
    /\ remote_clients[k].session # None =>
          /\ RedirectOutcome(remote_clients[k].session, k)
          /\ listed' = IF remote_clients[k].session = listed THEN None ELSE listed
          /\ remote_clients'[k] =
                [remote_clients[k] EXCEPT !.session = None, !.connection = None,
                                          !.assigned = TRUE, !.stale = FALSE]
          /\ UNCHANGED inbox
    /\ remote_clients[k].session = None =>
          /\ remote_clients'[k] = [remote_clients[k] EXCEPT !.stale = FALSE]
          /\ inbox' \in [Daemons -> Seq(Signal)]
          /\ Emit(k, [kind |-> "redirect-client", by |-> d])
          /\ UNCHANGED <<listed, conn, token>>
    /\ UNCHANGED <<faults, known, pending_clients, displays>>

(* StartHandover does what StartOutcome says.                              *)
LEMMA StartEffect ==
    ASSUME TypeOK, NEW d \in Daemons, NEW k, k = daemon[d].object, StartHandover(d)
    PROVE  StartOutcome(d, k)
<1>1. k \in Tokens /\ k \in known /\ daemon[d].pc = "subscribed"
  BY DEF StartHandover, TypeOK
<1>2. daemon' = [daemon EXCEPT ![d] = [daemon[d] EXCEPT !.pc = "running"]]
      /\ UNCHANGED <<faults, known, pending_clients, displays>>
  BY DEF StartHandover, TypeOK
<1>3. [daemon[d] EXCEPT !.pc = "running"] \in DaemonStates
  BY DEF TypeOK, DaemonStates
<1>4. /\ daemon' \in [Daemons -> DaemonStates]
      /\ daemon'[d] = [daemon[d] EXCEPT !.pc = "running"]
      /\ \A e \in Daemons \ {d} : daemon'[e] = daemon[e]
  BY <1>2, <1>3, DaemonUpdate
<1>5. remote_clients \in Table /\ remote_clients[k] \in RemoteClient
  BY <1>1 DEF TypeOK, Table
<1>6. CASE remote_clients[k].session # None
  <2> DEFINE r == [remote_clients[k] EXCEPT !.session = None, !.connection = None,
                                            !.assigned = TRUE, !.stale = FALSE]
  <2>1. /\ Redirected(remote_clients[k].session, k)
        /\ listed' = IF remote_clients[k].session = listed THEN None ELSE listed
        /\ remote_clients' = SessionForgotten(k)
        /\ UNCHANGED inbox
    BY <1>6 DEF StartHandover
  <2>2. RedirectOutcome(remote_clients[k].session, k)
    BY <1>1, <2>1, RedirectedEffect
  <2>3. r \in RemoteClient
    BY <1>5 DEF RemoteClient, Pointer
  <2>4. remote_clients' = [remote_clients EXCEPT ![k] = r]
    BY <1>1, <1>5, <2>1 DEF SessionForgotten, Table
  <2>5. remote_clients' \in Table /\ remote_clients'[k] = r
        /\ \A j \in Tokens \ {k} : remote_clients'[j] = remote_clients[j]
    BY <1>1, <1>5, <2>3, <2>4, UpdateType DEF Table
  <2>6. QED
    BY <1>1, <1>2, <1>4, <1>6, <2>1, <2>2, <2>5 DEF StartOutcome
<1>7. CASE remote_clients[k].session = None
  <2> DEFINE r == [remote_clients[k] EXCEPT !.stale = FALSE]
  <2>1. /\ remote_clients' = [remote_clients EXCEPT ![k] = r]
        /\ Emit(k, [kind |-> "redirect-client", by |-> d])
        /\ UNCHANGED <<listed, conn, token>>
    BY <1>1, <1>5, <1>7 DEF StartHandover, Table
  <2>2. r \in RemoteClient
    BY <1>5 DEF RemoteClient
  <2>3. remote_clients' \in Table /\ remote_clients'[k] = r
        /\ \A j \in Tokens \ {k} : remote_clients'[j] = remote_clients[j]
    BY <1>1, <1>5, <2>1, <2>2, UpdateType DEF Table
  <2>4. inbox' \in [Daemons -> Seq(Signal)]
    BY <2>1, EmitType DEF Signal
  <2>5. QED
    BY <1>1, <1>2, <1>4, <1>7, <2>1, <2>3, <2>4 DEF StartOutcome
<1>8. QED
  BY <1>6, <1>7

(* The time stamp of a record is renewed, if there is a record.            *)
LEMMA RenewedEffect ==
    ASSUME TypeOK, NEW k,
           remote_clients' =
              IF k \in known THEN [remote_clients EXCEPT ![k].stale = FALSE] ELSE remote_clients
    PROVE  /\ remote_clients' \in Table
           /\ \A j \in Tokens : remote_clients'[j] = remote_clients[j]
                                \/ remote_clients'[j] = [remote_clients[j] EXCEPT !.stale = FALSE]
<1>1. remote_clients \in Table /\ known \subseteq Tokens
  BY DEF TypeOK, Table
<1>2. k \in known => [remote_clients EXCEPT ![k].stale = FALSE] \in Table
  BY <1>1, FreshenedType
<1>3. QED
  BY <1>1, <1>2 DEF Table

(* The daemon d is passed the socket of c, adopts it or not, and the       *)
(* clients of gone are removed: what TakeClient does.                      *)
TakeOutcome(d, k, c, adopted, gone) ==
    /\ k = daemon[d].object /\ daemon[d].pc = "running" /\ k \in known /\ k \in Tokens
    /\ inbox[d] # <<>> /\ inbox[d][1].kind = "take-client-ready"
    /\ c = remote_clients[k].connection /\ c \in Clients \cup {Dead}
    /\ gone \subseteq Stale(remote_clients) \cup {k}
    /\ known' = known \ gone
    /\ remote_clients' \in Table
    /\ \A j \in Tokens \ {k} :
          remote_clients'[j] = IF j \in gone THEN Blank ELSE remote_clients[j]
    /\ remote_clients[k].handover_count # 0 => gone = {} /\ UNCHANGED pending_clients
    /\ k \in gone => remote_clients'[k] = Blank
    /\ k \notin gone =>
          /\ remote_clients'[k].connection = None /\ remote_clients'[k].session = None
          /\ remote_clients'[k].handover_count # 0 /\ ~remote_clients'[k].stale
          /\ remote_clients'[k].assigned
                = (remote_clients[k].assigned /\ remote_clients[k].handover_count # 0)
    /\ conn' \in [Clients -> Places]
    /\ c \in Clients => conn'[c] = IF adopted THEN "daemon" ELSE "away"
    /\ \A b \in Clients \ {c} :
          \/ conn'[b] = conn[b] /\ (conn[b] = "parked"
               => \A j \in gone \ {k} : remote_clients[j].connection # b)
          \/ conn'[b] = "away" /\ conn[b] = "parked"
               /\ \E j \in gone \ {k} : remote_clients[j].connection = b
    /\ pending_clients' \in Seq(Tokens)
    /\ remote_clients[k].handover_count = 0
         /\ NoDuplicates(pending_clients) /\ k \notin ToSet(pending_clients) =>
          /\ NoDuplicates(pending_clients')
          /\ ToSet(pending_clients') = (ToSet(pending_clients) \cup {k}) \ gone
          /\ ~Full(Unqueue(pending_clients, Stale(remote_clients)))
               => gone \subseteq Stale(remote_clients)
    /\ daemon' \in [Daemons -> DaemonStates]
    /\ daemon'[d] = IF adopted THEN [daemon[d] EXCEPT !.active_session = c] ELSE daemon[d]
    /\ \A e \in Daemons \ {d} : daemon'[e] = daemon[e]
    /\ inbox' \in [Daemons -> Seq(Signal)]
    /\ inbox'[d] = Tail(inbox[d]) /\ \A e \in Daemons \ {d} : inbox'[e] = inbox[e]
    /\ UNCHANGED <<faults, listed, token, displays>>

(* The record of a client whose socket was passed on.                      *)
LEMMA TakenFacts ==
    ASSUME TypeOK, NEW k \in Tokens
    PROVE  /\ Taken(k) \in Table
           /\ \A j \in Tokens \ {k} : Taken(k)[j] = remote_clients[j]
           /\ Taken(k)[k].connection = None /\ Taken(k)[k].session = None
           /\ Taken(k)[k].assigned = remote_clients[k].assigned /\ ~Taken(k)[k].stale
           /\ Taken(k)[k].handover_count # 0
           /\ Requeue(Taken(k)[k].handover_count) <=> remote_clients[k].handover_count = 0
<1> DEFINE n == remote_clients[k].handover_count
           m == IF n < 2 THEN n + 1 ELSE 2
           r == [remote_clients[k] EXCEPT !.connection = None, !.session = None, !.stale = FALSE,
                                          !.handover_count = m]
<1>1. remote_clients \in Table /\ remote_clients[k] \in RemoteClient
  BY DEF TypeOK, Table
<1>2. n \in 0 .. 2 /\ m \in 0 .. 2 /\ m # 0 /\ (m < 2 <=> n = 0)
  BY <1>1 DEF RemoteClient
<1>3. Taken(k) = [remote_clients EXCEPT ![k] = r]
  BY <1>1 DEF Taken, Table
<1> HIDE DEF n, m
<1>4. r \in RemoteClient /\ r.connection = None /\ r.session = None /\ ~r.stale
      /\ r.assigned = remote_clients[k].assigned /\ r.handover_count = m
  BY <1>1, <1>2 DEF RemoteClient, Pointer
<1>5. Taken(k) \in Table /\ Taken(k)[k] = r
        /\ \A j \in Tokens \ {k} : Taken(k)[j] = remote_clients[j]
  BY <1>1, <1>3, <1>4, UpdateType DEF Table
<1>6. QED
  BY <1>2, <1>4, <1>5 DEF Requeue, n

(* TakeClient does what TakeOutcome says.                                  *)
LEMMA TakeEffect ==
    ASSUME TypeOK, NEW d \in Daemons, NEW k, k = daemon[d].object, NEW c,
           c = remote_clients[k].connection, TakeClient(d)
    PROVE  \E adopted \in BOOLEAN, gone \in SUBSET Tokens : TakeOutcome(d, k, c, adopted, gone)
<1> DEFINE taken == Taken(k)
           where(adopted) == IF c = Dead THEN conn ELSE Moved(c, IF adopted THEN "daemon"
             ELSE "away")
           queued == [taken EXCEPT ![k].assigned = FALSE]
<1>1. PICK adopted \in BOOLEAN :
        /\ c # None
        /\ IF Requeue(taken[k].handover_count)
           THEN QueueClient(k, known, queued, where(adopted))
           ELSE remote_clients' = taken /\ conn' = where(adopted)
             /\ UNCHANGED <<known, pending_clients>>
        /\ daemon' = IF adopted THEN [daemon EXCEPT ![d].active_session = c] ELSE daemon
        /\ inbox' = [inbox EXCEPT ![d] = Tail(@)]
        /\ UNCHANGED <<faults, listed, token, displays>>
  BY DEF TakeClient
<1>2. /\ daemon[d].pc = "running" /\ k \in known /\ k \in Tokens
      /\ inbox[d] # <<>> /\ inbox[d][1].kind = "take-client-ready"
  BY DEF TakeClient, Handles, TypeOK
<1>3. remote_clients \in Table /\ remote_clients[k] \in RemoteClient /\ known \in SUBSET Tokens
  BY <1>2 DEF TypeOK, Table
<1>4. c \in Clients \cup {Dead}
  BY <1>1, <1>3 DEF RemoteClient, Pointer
<1> DEFINE w == where(adopted)
<1>5. /\ w \in [Clients -> Places]
      /\ c \in Clients => w[c] = IF adopted THEN "daemon" ELSE "away"
      /\ \A b \in Clients \ {c} : w[b] = conn[b]
  <2>1. Dead \notin Clients /\ conn \in [Clients -> Places]
    BY ConstantsAssumption DEF TypeOK, Places
  <2>2. CASE c = Dead
    BY <2>1, <2>2
  <2>3. CASE c \in Clients
    BY <2>1, <2>3, MovedType DEF Moved, Places
  <2>4. QED
    BY <1>4, <2>2, <2>3
<1>6. /\ inbox' \in [Daemons -> Seq(Signal)]
      /\ inbox'[d] = Tail(inbox[d]) /\ \A e \in Daemons \ {d} : inbox'[e] = inbox[e]
  BY <1>1, <1>2, TailEffect
<1>7. /\ daemon' \in [Daemons -> DaemonStates]
      /\ daemon'[d] = IF adopted THEN [daemon[d] EXCEPT !.active_session = c] ELSE daemon[d]
      /\ \A e \in Daemons \ {d} : daemon'[e] = daemon[e]
  <2>1. [daemon[d] EXCEPT !.active_session = c] \in DaemonStates /\ daemon[d] \in DaemonStates
    BY <1>4 DEF TypeOK, DaemonStates, Pointer
  <2>2. CASE adopted
    <3>1. daemon' = [daemon EXCEPT ![d] = [daemon[d] EXCEPT !.active_session = c]]
      BY <1>1, <2>2 DEF TypeOK
    <3>2. QED
      BY <2>1, <2>2, <3>1, DaemonUpdate
  <2>3. CASE ~adopted
    BY <1>1, <2>3 DEF TypeOK, DaemonStates
  <2>4. QED
    BY <2>2, <2>3
<1>8. /\ taken \in Table
      /\ \A j \in Tokens \ {k} : taken[j] = remote_clients[j]
      /\ taken[k].connection = None /\ taken[k].session = None
      /\ taken[k].assigned = remote_clients[k].assigned /\ ~taken[k].stale
      /\ taken[k].handover_count # 0
      /\ Requeue(taken[k].handover_count) <=> remote_clients[k].handover_count = 0
  BY <1>2, TakenFacts
<1> HIDE DEF taken, w
<1>9. CASE remote_clients[k].handover_count # 0
  <2>1. remote_clients' = taken /\ conn' = w /\ UNCHANGED <<known, pending_clients>>
    BY <1>1, <1>8, <1>9 DEF w
  <2>2. pending_clients \in Seq(Tokens) /\ remote_clients[k].assigned \in BOOLEAN
    BY <1>3 DEF TypeOK, RemoteClient
  <2>3. TakeOutcome(d, k, c, adopted, {})
    BY <1>1, <1>2, <1>3, <1>4, <1>5, <1>6, <1>7, <1>8, <1>9, <2>1, <2>2 DEF TakeOutcome
  <2>4. QED
    BY <2>3
<1>10. CASE remote_clients[k].handover_count = 0
  <2>1. QueueClient(k, known, queued, w)
    BY <1>1, <1>8, <1>10 DEF w
  <2>2. [taken[k] EXCEPT !.assigned = FALSE] \in RemoteClient
    BY <1>2, <1>8 DEF Table, RemoteClient
  <2>3. queued = [taken EXCEPT ![k] = [taken[k] EXCEPT !.assigned = FALSE]]
    BY <1>2, <1>8 DEF Table
  <2>4. queued \in Table /\ queued[k] = [taken[k] EXCEPT !.assigned = FALSE]
        /\ \A j \in Tokens \ {k} : queued[j] = remote_clients[j]
    BY <1>2, <1>8, <2>2, <2>3, UpdateType DEF Table
  <2> HIDE DEF queued
  <2>5. queued[k].connection = None /\ queued[k].session = None /\ ~queued[k].stale
        /\ queued[k].handover_count # 0 /\ ~queued[k].assigned
    BY <1>2, <1>8, <2>4 DEF Table, RemoteClient
  <2>6. PICK gone \in SUBSET Tokens : QueueOutcome(gone, k, known, queued, w)
    BY <1>2, <1>3, <1>5, <2>1, <2>4, QueueEffect
  <2>7. pending_clients \in Seq(Tokens)
    BY DEF TypeOK
  <2>9. Stale(queued) \subseteq Stale(remote_clients)
        /\ (k \notin ToSet(pending_clients) => Stale(queued) = Stale(remote_clients))
    <3>1. ToSet(pending_clients) \subseteq Tokens
      BY <2>7 DEF ToSet
    <3>2. \A j \in ToSet(pending_clients) : j # k => queued[j] = remote_clients[j]
      BY <2>4, <3>1
    <3>3. QED
      BY <2>5, <3>2 DEF Stale
  <2>10. /\ gone \subseteq Stale(remote_clients) \cup {k}
         /\ known' = known \ gone
         /\ remote_clients' \in Table
         /\ \A j \in Tokens \ {k} :
               remote_clients'[j] = IF j \in gone THEN Blank ELSE remote_clients[j]
         /\ k \in gone => remote_clients'[k] = Blank
    BY <1>2, <2>4, <2>6, <2>9 DEF QueueOutcome
  <2>11. k \notin gone =>
          /\ remote_clients'[k].connection = None /\ remote_clients'[k].session = None
          /\ remote_clients'[k].handover_count # 0 /\ ~remote_clients'[k].stale
          /\ remote_clients'[k].assigned = FALSE
    <3>1. k \notin gone => remote_clients'[k] = [queued[k] EXCEPT !.stale = FALSE]
      BY <1>2, <2>6 DEF QueueOutcome
    <3>2. queued[k] \in RemoteClient
      BY <1>2, <2>4 DEF Table
    <3>3. queued[k].assigned = FALSE
      BY <2>5, <3>2 DEF RemoteClient
    <3>4. QED
      BY <2>5, <3>1, <3>2, <3>3 DEF RemoteClient
  <2>12. /\ conn' \in [Clients -> Places]
         /\ \A b \in Clients :
             \/ conn'[b] = w[b] /\ (w[b] = "parked" => \A j \in gone : queued[j].connection # b)
             \/ conn'[b] = "away" /\ w[b] = "parked" /\ \E j \in gone : queued[j].connection = b
    BY <2>6 DEF QueueOutcome
  <2>13. c \in Clients => conn'[c] = IF adopted THEN "daemon" ELSE "away"
    BY <1>5, <2>12
  <2>14. ASSUME NEW b \in Clients \ {c}
         PROVE \/ conn'[b] = conn[b] /\ (conn[b] = "parked"
                    => \A j \in gone \ {k} : remote_clients[j].connection # b)
               \/ conn'[b] = "away" /\ conn[b] = "parked"
                    /\ \E j \in gone \ {k} : remote_clients[j].connection = b
    <3>1. w[b] = conn[b]
      BY <1>5
    <3>2. ASSUME NEW j \in gone, queued[j].connection = b
          PROVE  j # k /\ remote_clients[j].connection = b
      <4>1. b # None
        BY ConstantsAssumption
      <4>2. QED
        BY <2>4, <2>5, <3>2, <4>1
    <3>3. \A j \in gone \ {k} : queued[j].connection = remote_clients[j].connection
      BY <2>4
    <3>4. QED
      BY <2>12, <3>1, <3>2, <3>3
  <2>15. /\ pending_clients' \in Seq(Tokens)
         /\ NoDuplicates(pending_clients) /\ k \notin ToSet(pending_clients) =>
             /\ NoDuplicates(pending_clients')
             /\ ToSet(pending_clients') = (ToSet(pending_clients) \cup {k}) \ gone
             /\ ~Full(Unqueue(pending_clients, Stale(remote_clients)))
                  => gone \subseteq Stale(remote_clients)
    BY <2>6, <2>9 DEF QueueOutcome
  <2>16. TakeOutcome(d, k, c, adopted, gone)
    BY <1>1, <1>2, <1>4, <1>6, <1>7, <1>10, <2>10, <2>11, <2>12, <2>13, <2>14, <2>15 DEF TakeOutcome
  <2>17. QED
    BY <2>16
<1>11. QED
  BY <1>3, <1>9, <1>10 DEF RemoteClient
-----------------------------------------------------------------------------
(* What the other actions do, and type correctness.                        *)

(* What Launch does.                                                       *)
LEMMA LaunchEffect ==
    ASSUME TypeOK, NEW d \in Daemons, Launch(d)
    PROVE  /\ daemon[d] = Stopped
           /\ daemon' \in [Daemons -> DaemonStates]
           /\ daemon'[d].pc = "launched" /\ daemon'[d].object = None
           /\ daemon'[d].active_session = None
           /\ \A e \in Daemons \ {d} : daemon'[e] = daemon[e]
           /\ UNCHANGED <<faults, known, remote_clients, pending_clients, listed, inbox, conn,
                token,
                          displays>>
<1>1. PICK k \in displays :
         daemon' = [daemon EXCEPT ![d] = [Stopped EXCEPT !.pc = "launched", !.display = k]]
  BY DEF Launch
<1>2. [Stopped EXCEPT !.pc = "launched", !.display = k] \in DaemonStates
  BY StoppedIsState DEF DaemonStates, TypeOK
<1>3. /\ [Stopped EXCEPT !.pc = "launched", !.display = k].pc = "launched"
      /\ [Stopped EXCEPT !.pc = "launched", !.display = k].object = None
      /\ [Stopped EXCEPT !.pc = "launched", !.display = k].active_session = None
  BY DEF Stopped
<1>4. /\ daemon' \in [Daemons -> DaemonStates]
      /\ daemon'[d] = [Stopped EXCEPT !.pc = "launched", !.display = k]
      /\ \A e \in Daemons \ {d} : daemon'[e] = daemon[e]
  BY <1>1, <1>2, DaemonUpdate
<1>5. QED
  BY <1>3, <1>4 DEF Launch, sysVars

(* What Subscribe does.                                                    *)
LEMMA SubscribeEffect ==
    ASSUME TypeOK, NEW d \in Daemons, Subscribe(d)
    PROVE  /\ daemon[d].pc = "requested"
           /\ daemon' \in [Daemons -> DaemonStates]
           /\ daemon'[d] = [daemon[d] EXCEPT !.pc = "subscribed"]
           /\ \A e \in Daemons \ {d} : daemon'[e] = daemon[e]
           /\ UNCHANGED <<faults, known, remote_clients, pending_clients, listed, inbox, conn,
                token,
                          displays>>
<1>1. daemon' = [daemon EXCEPT ![d] = [daemon[d] EXCEPT !.pc = "subscribed"]]
  BY DEF Subscribe, TypeOK
<1>2. [daemon[d] EXCEPT !.pc = "subscribed"] \in DaemonStates
  BY DEF TypeOK, DaemonStates
<1>3. QED
  BY <1>1, <1>2, DaemonUpdate DEF Subscribe, sysVars

(* What ClientLeaves does: no record and no daemon keeps a pointer to the  *)
(* client.                                                                 *)
LEMMA LeavesEffect ==
    ASSUME TypeOK, NEW c \in Clients, ClientLeaves(c)
    PROVE  /\ remote_clients' \in Table
           /\ \A k \in Tokens :
                 /\ remote_clients'[k].session = Severed(remote_clients[k].session, c)
                 /\ remote_clients'[k].connection = Severed(remote_clients[k].connection, c)
                 /\ remote_clients'[k].handover_count = remote_clients[k].handover_count
                 /\ remote_clients'[k].assigned = remote_clients[k].assigned
                 /\ remote_clients'[k].stale = remote_clients[k].stale
           /\ daemon' \in [Daemons -> DaemonStates]
           /\ \A d \in Daemons :
                 /\ daemon'[d].pc = daemon[d].pc /\ daemon'[d].object = daemon[d].object
                 /\ daemon'[d].active_session = Severed(daemon[d].active_session, c)
           /\ conn' \in [Clients -> Places] /\ conn'[c] = "away"
           /\ \A b \in Clients \ {c} : conn'[b] = conn[b]
           /\ listed' = IF listed = c THEN None ELSE listed
           /\ UNCHANGED <<faults, known, pending_clients, inbox, token, displays>>
<1>1. ASSUME NEW p \in Pointer PROVE Severed(p, c) \in Pointer
  BY DEF Severed, Pointer
<1>2. ASSUME NEW k \in Tokens
      PROVE  /\ remote_clients'[k] \in RemoteClient
             /\ remote_clients'[k].session = Severed(remote_clients[k].session, c)
             /\ remote_clients'[k].connection = Severed(remote_clients[k].connection, c)
             /\ remote_clients'[k].handover_count = remote_clients[k].handover_count
             /\ remote_clients'[k].assigned = remote_clients[k].assigned
             /\ remote_clients'[k].stale = remote_clients[k].stale
  <2>1. remote_clients[k] \in RemoteClient
    BY DEF TypeOK
  <2>2. remote_clients[k].session \in Pointer /\ remote_clients[k].connection \in Pointer
    BY <2>1 DEF RemoteClient
  <2>3. remote_clients'[k] =
           [remote_clients[k] EXCEPT !.session = Severed(remote_clients[k].session, c),
                                     !.connection = Severed(remote_clients[k].connection, c)]
    BY DEF ClientLeaves
  <2>4. Severed(remote_clients[k].session, c) \in Pointer
        /\ Severed(remote_clients[k].connection, c) \in Pointer
    BY <1>1, <2>2
  <2>5. QED
    BY <2>1, <2>3, <2>4 DEF RemoteClient
<1>3. remote_clients' \in Table
  BY <1>2 DEF ClientLeaves, Table
<1>4. ASSUME NEW d \in Daemons
      PROVE  /\ daemon'[d] \in DaemonStates
             /\ daemon'[d].pc = daemon[d].pc /\ daemon'[d].object = daemon[d].object
             /\ daemon'[d].active_session = Severed(daemon[d].active_session, c)
  <2>1. daemon[d] \in DaemonStates
    BY DEF TypeOK, DaemonStates
  <2>2. Severed(daemon[d].active_session, c) \in Pointer
    BY <1>1, <2>1 DEF DaemonStates
  <2>3. daemon'[d] = [daemon[d] EXCEPT !.active_session = Severed(daemon[d].active_session, c)]
    BY DEF ClientLeaves
  <2>4. QED
    BY <2>1, <2>2, <2>3 DEF DaemonStates
<1>5. daemon' \in [Daemons -> DaemonStates]
  BY <1>4 DEF ClientLeaves
<1>6. /\ conn' \in [Clients -> Places] /\ conn'[c] = "away"
      /\ \A b \in Clients \ {c} : conn'[b] = conn[b]
  BY DEF ClientLeaves, Moved, TypeOK, Places
<1>7. QED
  BY <1>2, <1>3, <1>4, <1>5, <1>6 DEF ClientLeaves

(* What ClientConnects does: only a client that reconnects keeps its       *)
(* token.                                                                  *)
LEMMA ConnectsEffect ==
    ASSUME TypeOK, NEW c \in Clients, ClientConnects(c)
    PROVE  /\ conn[c] = "away" /\ conn'[c] = "connecting"
           /\ conn' \in [Clients -> Places] /\ token' \in [Clients -> Tokens \cup {None}]
           /\ \A b \in Clients \ {c} : conn'[b] = conn[b] /\ token'[b] = token[b]
           /\ token'[c] = None \/ ("reconnect" \in faults /\ token'[c] = token[c])
           /\ UNCHANGED <<faults, known, remote_clients, pending_clients, listed, daemon, inbox,
                          displays>>
BY DEF ClientConnects, Moved, TypeOK, Places, sysVars

(* What GoesStale does.                                                    *)
LEMMA StaleEffect ==
    ASSUME TypeOK, NEW k \in Tokens, GoesStale(k)
    PROVE  /\ "idle" \in faults
           /\ remote_clients' \in Table
           /\ \A j \in Tokens : remote_clients'[j] = remote_clients[j]
                                \/ remote_clients'[j] = [remote_clients[j] EXCEPT !.stale = TRUE]
           /\ UNCHANGED <<faults, known, pending_clients, listed, daemon, inbox, conn, token,
                displays>>
<1>1. remote_clients \in Table /\ [remote_clients[k] EXCEPT !.stale = TRUE] \in RemoteClient
  BY DEF TypeOK, Table, RemoteClient
<1>2. remote_clients' = [remote_clients EXCEPT ![k] = [remote_clients[k] EXCEPT !.stale = TRUE]]
  BY <1>1 DEF GoesStale, Table
<1>3. QED
  BY <1>1, <1>2, UpdateType DEF GoesStale, Table

(* A signal of the kind waits for d.                                       *)
Has(d, kind) == \E i \in DOMAIN inbox[d] : inbox[d][i].kind = kind

(* A signal reaches the daemons subscribed to the object and no other.     *)
LEMMA EmitHas ==
    ASSUME TypeOK, NEW k, NEW signal \in Signal, Emit(k, signal), NEW d \in Daemons
    PROVE  /\ ~Subscribed(d, k) => inbox'[d] = inbox[d]
           /\ \A kind : Has(d, kind)' <=> Has(d, kind) \/ (Subscribed(d, k) /\ kind = signal.kind)
<1>1. inbox'[d] = IF Subscribed(d, k) THEN Append(inbox[d], signal) ELSE inbox[d]
  BY DEF Emit
<1>2. CASE ~Subscribed(d, k)
  BY <1>1, <1>2 DEF Has
<1>3. CASE Subscribed(d, k)
  <2>1. inbox[d] \in Seq(Signal) /\ inbox'[d] = Append(inbox[d], signal)
    BY <1>1, <1>3 DEF TypeOK
  <2>2. /\ Len(inbox[d]) \in Nat /\ DOMAIN inbox[d] = 1 .. Len(inbox[d])
        /\ DOMAIN inbox'[d] = 1 .. Len(inbox[d]) + 1
        /\ \A i \in 1 .. Len(inbox[d]) : inbox'[d][i] = inbox[d][i]
        /\ inbox'[d][Len(inbox[d]) + 1] = signal
    BY <2>1
  <2>3. ASSUME NEW kind, Has(d, kind)' PROVE Has(d, kind) \/ kind = signal.kind
    <3>1. PICK i \in 1 .. Len(inbox[d]) + 1 : inbox'[d][i].kind = kind
      BY <2>2, <2>3 DEF Has
    <3>2. CASE i \in 1 .. Len(inbox[d])
      BY <2>2, <3>1, <3>2 DEF Has
    <3>3. CASE i = Len(inbox[d]) + 1
      BY <2>2, <3>1, <3>3
    <3>4. QED
      BY <2>2, <3>2, <3>3
  <2>4. ASSUME NEW kind, Has(d, kind) \/ kind = signal.kind PROVE Has(d, kind)'
    <3>1. CASE Has(d, kind)
      BY <2>2, <3>1 DEF Has
    <3>2. CASE kind = signal.kind
      <4>1. Len(inbox[d]) + 1 \in DOMAIN inbox'[d]
        BY <2>2
      <4>2. QED
        BY <2>2, <3>2, <4>1 DEF Has
    <3>3. QED
      BY <2>4, <3>1, <3>2
  <2>5. QED
    BY <1>3, <2>3, <2>4
<1>4. QED
  BY <1>2, <1>3

(* Taking a signal from the inbox adds none.                               *)
LEMMA TailHas ==
    ASSUME TypeOK, NEW d \in Daemons, inbox[d] # <<>>, inbox'[d] = Tail(inbox[d]), NEW kind,
           Has(d, kind)'
    PROVE  Has(d, kind)
<1>1. inbox[d] \in Seq(Signal)
  BY DEF TypeOK
<1>2. /\ Len(inbox[d]) \in Nat \ {0} /\ DOMAIN inbox[d] = 1 .. Len(inbox[d])
      /\ DOMAIN inbox'[d] = 1 .. Len(inbox[d]) - 1
      /\ \A i \in 1 .. Len(inbox[d]) - 1 : inbox'[d][i] = inbox[d][i + 1]
  BY <1>1
<1>3. PICK i \in 1 .. Len(inbox[d]) - 1 : inbox[d][i + 1].kind = kind
  BY <1>2 DEF Has
<1>4. i + 1 \in 1 .. Len(inbox[d])
  BY <1>2, <1>3
<1>5. QED
  BY <1>2, <1>3, <1>4 DEF Has

(* The head of the inbox is in the inbox.                                  *)
LEMMA HeadHas ==
    ASSUME TypeOK, NEW d \in Daemons, inbox[d] # <<>> PROVE Has(d, inbox[d][1].kind)
<1>1. inbox[d] \in Seq(Signal)
  BY DEF TypeOK
<1>2. 1 \in DOMAIN inbox[d]
  BY <1>1
<1>3. QED
  BY <1>2 DEF Has

(* The daemon redirects its client and ends.                               *)
RedirectsOutcome(d) ==
    /\ daemon[d].active_session # None
    /\ RedirectOutcome(daemon[d].active_session, daemon[d].object)
    /\ daemon' \in [Daemons -> DaemonStates] /\ inbox' \in [Daemons -> Seq(Signal)]
    /\ daemon'[d] = Stopped /\ inbox'[d] = <<>>
    /\ \A e \in Daemons \ {d} : daemon'[e] = daemon[e] /\ inbox'[e] = inbox[e]

(* The daemon drops the signal.                                            *)
IgnoresOutcome(d) ==
    /\ inbox' \in [Daemons -> Seq(Signal)]
    /\ inbox'[d] = Tail(inbox[d]) /\ \A e \in Daemons \ {d} : inbox'[e] = inbox[e]
    /\ UNCHANGED <<daemon, conn, token>>

(* What RedirectClient does.                                               *)
LEMMA RedirectEffect ==
    ASSUME TypeOK, NEW d \in Daemons, RedirectClient(d)
    PROVE  /\ daemon[d].pc = "running" /\ inbox[d] # <<>> /\ inbox[d][1].kind = "redirect-client"
           /\ RedirectsOutcome(d) \/ IgnoresOutcome(d)
           /\ UNCHANGED <<faults, known, remote_clients, pending_clients, listed, displays>>
<1>1. /\ daemon[d].pc = "running" /\ inbox[d] # <<>> /\ inbox[d][1].kind = "redirect-client"
      /\ UNCHANGED <<faults, known, remote_clients, pending_clients, listed, displays>>
  BY DEF RedirectClient, Handles, sysVars
<1>2. daemon[d].object \in Tokens \cup {None}
  BY DEF TypeOK
<1>3. CASE /\ daemon[d].active_session # None
           /\ Redirected(daemon[d].active_session, daemon[d].object)
           /\ Ends(d)
  BY <1>1, <1>2, <1>3, RedirectedEffect, EndsEffect DEF RedirectsOutcome
<1>4. CASE /\ inbox' = [inbox EXCEPT ![d] = Tail(@)]
           /\ UNCHANGED <<daemon, conn, token>>
  BY <1>1, <1>4, TailEffect DEF IgnoresOutcome
<1>5. QED
  BY <1>1, <1>3, <1>4 DEF RedirectClient

(* Every step keeps the types.                                             *)
LEMMA StepKeepsTypeOK ==
    ASSUME TypeOK, [Next]_vars PROVE TypeOK'
<1> USE DEF Table, Places, DaemonStates
<1>1. CASE UNCHANGED vars
  BY <1>1 DEF vars, TypeOK
<1>2. ASSUME NEW c \in Clients, ClientConnects(c) PROVE TypeOK'
  BY <1>2, ConnectsEffect DEF TypeOK
<1>3. ASSUME NEW c \in Clients, IncomingKnown(c) PROVE TypeOK'
  <2> DEFINE k == token[c]
  <2> HIDE DEF k
  <2>1. k = token[c]
    BY DEF k
  <2>2. /\ remote_clients' \in Table /\ conn' \in [Clients -> Places]
        /\ inbox' \in [Daemons -> Seq(Signal)]
        /\ UNCHANGED <<faults, known, pending_clients, listed, daemon, token, displays>>
    BY <1>3, <2>1, KnownEffect DEF KnownOutcome
  <2>3. QED
    BY <2>2 DEF TypeOK
<1>4. ASSUME NEW c \in Clients, IncomingNew(c) PROVE TypeOK'
  <2>1. PICK k \in Tokens, accepted \in BOOLEAN, gone \in SUBSET Tokens :
           NewOutcome(c, k, accepted, gone)
    BY <1>4, NewEffect
  <2>2. QED
    BY <2>1 DEF NewOutcome, TypeOK
<1>5. ASSUME NEW c \in Clients, ClientLeaves(c) PROVE TypeOK'
  BY <1>5, LeavesEffect DEF TypeOK
<1>6. ASSUME NEW d \in Daemons, Launch(d) PROVE TypeOK'
  BY <1>6, LaunchEffect DEF TypeOK
<1>7. ASSUME NEW d \in Daemons, RequestHandover(d) PROVE TypeOK'
  <2>1. PICK k \in Tokens \cup {None} : RequestOutcome(d, k)
    BY <1>7, RequestEffect
  <2>2. daemon' \in [Daemons -> DaemonStates] /\ inbox' \in [Daemons -> Seq(Signal)]
    BY <2>1, EndsEffect DEF RequestOutcome, TypeOK
  <2>3. QED
    BY <2>1, <2>2 DEF RequestOutcome, TypeOK
<1>8. ASSUME NEW d \in Daemons, Subscribe(d) PROVE TypeOK'
  BY <1>8, SubscribeEffect DEF TypeOK
<1>9. ASSUME NEW d \in Daemons, StartHandover(d) PROVE TypeOK'
  <2>1. StartOutcome(d, daemon[d].object)
    BY <1>9, StartEffect
  <2>2. /\ inbox' \in [Daemons -> Seq(Signal)] /\ listed' \in Clients \cup {None}
        /\ conn' \in [Clients -> Places] /\ token' \in [Clients -> Tokens \cup {None}]
    BY <2>1 DEF StartOutcome, RedirectOutcome, TypeOK
  <2>3. QED
    BY <2>1, <2>2 DEF StartOutcome, TypeOK
<1>10. ASSUME NEW d \in Daemons, StartHandoverFails(d) PROVE TypeOK'
  <2>1. remote_clients' \in Table
    BY <1>10, RenewedEffect DEF StartHandoverFails
  <2>2. QED
    BY <1>10, <2>1, EndsEffect DEF StartHandoverFails, TypeOK
<1>11. ASSUME NEW d \in Daemons, TakeClient(d) PROVE TypeOK'
  <2>1. PICK adopted \in BOOLEAN, gone \in SUBSET Tokens :
           TakeOutcome(d, daemon[d].object, remote_clients[daemon[d].object].connection, adopted,
             gone)
    BY <1>11, TakeEffect
  <2>2. QED
    BY <2>1 DEF TakeOutcome, TypeOK
<1>12. ASSUME NEW d \in Daemons, TakeClientFails(d) PROVE TypeOK'
  <2>1. remote_clients' \in Table
    BY <1>12, RenewedEffect DEF TakeClientFails
  <2>2. inbox' \in [Daemons -> Seq(Signal)]
    BY <1>12, TailEffect DEF TakeClientFails, Handles
  <2>3. QED
    BY <1>12, <2>1, <2>2 DEF TakeClientFails, TypeOK
<1>13. ASSUME NEW d \in Daemons, RedirectClient(d) PROVE TypeOK'
  BY <1>13, RedirectEffect DEF RedirectsOutcome, IgnoresOutcome, RedirectOutcome, TypeOK
<1>14. ASSUME NEW k \in Tokens, GoesStale(k) PROVE TypeOK'
  BY <1>14, StaleEffect DEF TypeOK
<1>15. QED
  BY <1>1, <1>2, <1>3, <1>4, <1>5, <1>6, <1>7, <1>8, <1>9, <1>10, <1>11, <1>12, <1>13, <1>14
    DEF Next, Incoming, DaemonStep
-----------------------------------------------------------------------------
(* Sockets, sessions and tokens: PeerInv, which holds whatever goes wrong. *)

(* A live connection in a record is parked or is that of the record's      *)
(* session; a live session is that of the record's connection; only a      *)
(* client that no daemon took yet has a session here; no connection is in  *)
(* two records.                                                            *)
HeldInv ==
    /\ \A k \in Tokens : remote_clients[k].connection \in Clients =>
          \/ conn[remote_clients[k].connection] = "parked"
          \/ /\ conn[remote_clients[k].connection] = "session"
             /\ remote_clients[k].session = remote_clients[k].connection
    /\ \A k \in Tokens : remote_clients[k].session \in Clients =>
          /\ remote_clients[k].connection = remote_clients[k].session
          /\ conn[remote_clients[k].session] = "session"
    /\ \A k \in Tokens : remote_clients[k].session # None => remote_clients[k].handover_count = 0
    /\ \A j, k \in Tokens :
          remote_clients[k].connection \in Clients
             /\ remote_clients[j].connection = remote_clients[k].connection => j = k

(* Signals wait, and a session runs, only at a process that has come that  *)
(* far; from RequestHandover on it has an object.                          *)
ProcessInv ==
    /\ \A d \in Daemons : daemon[d].pc \notin {"subscribed", "running"} => inbox[d] = <<>>
    /\ \A d \in Daemons : daemon[d].pc # "running" => daemon[d].active_session = None
    /\ \A d \in Daemons :
          daemon[d].pc \in {"requested", "subscribed", "running"} <=> daemon[d].object \in Tokens

(* A client that a daemon serves is connected to it, was redirected with   *)
(* the token of its object, and is served by no other daemon.              *)
ServingInv ==
    /\ \A d \in Daemons :
          daemon[d].active_session \in Clients =>
             /\ conn[daemon[d].active_session] = "daemon"
             /\ token[daemon[d].active_session] = daemon[d].object
    /\ \A d, e \in Daemons :
          daemon[d].active_session \in Clients
             /\ daemon[e].active_session = daemon[d].active_session => e = d

(* TakeClientReady, or RedirectClient, waits for the daemon.               *)
Ready(d) == Has(d, "take-client-ready")
Redirecting(d) == Has(d, "redirect-client")

(* The socket that a daemon is told of is of a client that came with the   *)
(* token of the daemon's object.                                           *)
ParkedInv ==
    \A d \in Daemons :
        Ready(d) /\ remote_clients[daemon[d].object].connection \in Clients =>
            token[remote_clients[daemon[d].object].connection] = daemon[d].object

(* A token was given to one client, and while a record has a session here  *)
(* its token was given to nobody else.                                     *)
TokenInv ==
    /\ \A b, c \in Clients : token[b] # None /\ token[b] = token[c] => b = c
    /\ \A k \in Tokens, c \in Clients :
          remote_clients[k].session \in Clients /\ token[c] = k => c = remote_clients[k].session

(* What holds of sockets, sessions and tokens whatever goes wrong.         *)
PeerInv == HeldInv /\ ProcessInv /\ ServingInv /\ ParkedInv /\ TokenInv

(* A step clears the record of k; a step keeps who is connected under k.   *)
Cleared(k) == remote_clients'[k].connection = None /\ remote_clients'[k].session = None
Kept(k) ==
    /\ remote_clients'[k].connection = remote_clients[k].connection
    /\ remote_clients'[k].session = remote_clients[k].session
    /\ remote_clients'[k].handover_count = remote_clients[k].handover_count

(* NULL and a dead pointer are not clients.                                *)
LEMMA NoneIsNoClient == None \notin Clients /\ Dead \notin Clients /\ None \notin Tokens
  /\ None # Dead
BY ConstantsAssumption

(* The fields of an empty record.                                          *)
LEMMA BlankFields ==
    /\ Blank.connection = None /\ Blank.session = None /\ Blank.handover_count = 0
    /\ ~Blank.assigned /\ ~Blank.stale
BY DEF Blank

(* The fields of a process that does not run.                              *)
LEMMA StoppedFields ==
    Stopped.pc = "none" /\ Stopped.object = None /\ Stopped.active_session = None
BY DEF Stopped

(* The same inbox holds the same signals.                                  *)
LEMMA SameHas ==
    ASSUME NEW d, inbox'[d] = inbox[d] PROVE \A kind : Has(d, kind)' <=> Has(d, kind)
BY DEF Has

(* Records are kept or cleared, and nobody waiting at a kept one moves.    *)
LEMMA HeldKept ==
    ASSUME HeldInv,
           \A k \in Tokens :
              \/ Cleared(k)
              \/ Kept(k) /\ \A c \in Clients : remote_clients[k].connection = c
                   => conn'[c] = conn[c]
    PROVE  HeldInv'
<1>1. ASSUME NEW k \in Tokens, remote_clients'[k].connection \in Clients
      PROVE  Kept(k) /\ conn'[remote_clients[k].connection] = conn[remote_clients[k].connection]
  BY <1>1, NoneIsNoClient DEF Cleared, Kept
<1>2. ASSUME NEW k \in Tokens, remote_clients'[k].session \in Clients
      PROVE  Kept(k) /\ conn'[remote_clients[k].session] = conn[remote_clients[k].session]
  <2>1. Kept(k)
    BY <1>2, NoneIsNoClient DEF Cleared, Kept
  <2>2. remote_clients[k].session \in Clients
          /\ remote_clients[k].connection = remote_clients[k].session
    BY <1>2, <2>1 DEF Kept, HeldInv
  <2>3. QED
    BY <1>1, <2>1, <2>2 DEF Kept
<1>3. \A k \in Tokens : remote_clients'[k].session # None => Kept(k)
  BY DEF Cleared
<1>4. QED
  BY <1>1, <1>2, <1>3 DEF HeldInv, Kept

(* ClientConnects keeps PeerInv: a client that is away has no socket in    *)
(* any record.                                                             *)
LEMMA ConnectsKeepsPeers ==
    ASSUME TypeOK, PeerInv, NEW c \in Clients, ClientConnects(c) PROVE PeerInv'
<1>1. /\ conn[c] = "away" /\ conn'[c] = "connecting"
      /\ \A b \in Clients \ {c} : conn'[b] = conn[b] /\ token'[b] = token[b]
      /\ token'[c] = None \/ token'[c] = token[c]
      /\ UNCHANGED <<remote_clients, daemon, inbox>>
  BY ConnectsEffect
<1>2. HeldInv'
  BY <1>1, HeldKept DEF PeerInv, HeldInv, Kept
<1>3. ProcessInv'
  BY <1>1 DEF PeerInv, ProcessInv
<1>4. ServingInv'
  BY <1>1 DEF PeerInv, ServingInv
<1>5. ParkedInv'
  <2>1. SUFFICES ASSUME NEW d \in Daemons, Ready(d),
                        remote_clients[daemon[d].object].connection \in Clients
                 PROVE  token'[remote_clients[daemon[d].object].connection] = daemon[d].object
    BY <1>1 DEF ParkedInv, Ready, Has
  <2>2. daemon[d].object \in Tokens
    BY <2>1 DEF PeerInv, ProcessInv, Ready, Has
  <2>3. remote_clients[daemon[d].object].connection # c
    BY <1>1, <2>1, <2>2 DEF PeerInv, HeldInv
  <2>4. QED
    BY <1>1, <2>1, <2>3 DEF PeerInv, ParkedInv
<1>6. TokenInv'
  BY <1>1, NoneIsNoClient DEF PeerInv, TokenInv
<1>7. QED
  BY <1>2, <1>3, <1>4, <1>5, <1>6 DEF PeerInv

(* IncomingKnown keeps PeerInv: the socket it parks is of the client that  *)
(* holds the token.                                                        *)
LEMMA KnownKeepsPeers ==
    ASSUME TypeOK, PeerInv, NEW c \in Clients, NEW k, k = token[c], KnownOutcome(c, k)
    PROVE  PeerInv'
<1>1. k = token[c]
  OBVIOUS
<1>2. /\ conn[c] = "connecting" /\ k \in Tokens /\ remote_clients[k].session = None
      /\ \A j \in Tokens \ {k} : remote_clients'[j] = remote_clients[j]
      /\ conn'[c] = "parked"
      /\ \A b \in Clients \ {c} :
            \/ conn'[b] = conn[b] /\ (conn[b] = "parked" => remote_clients[k].connection # b)
            \/ conn'[b] = "away" /\ conn[b] = "parked" /\ remote_clients[k].connection = b
      /\ Emit(k, [kind |-> "take-client-ready", by |-> None])
      /\ UNCHANGED <<daemon, token>>
  BY DEF KnownOutcome
<1>3. remote_clients'[k].connection = c /\ remote_clients'[k].session = None
  <2>1. remote_clients'[k] = [remote_clients[k] EXCEPT !.connection = c, !.stale = FALSE]
    BY DEF KnownOutcome
  <2>2. QED
    BY <1>2, <2>1 DEF TypeOK, RemoteClient
<1>4. \A j \in Tokens \ {k}, b \in Clients :
         remote_clients[j].connection = b => b # c /\ conn'[b] = conn[b]
  BY <1>2 DEF PeerInv, HeldInv
<1>5. HeldInv'
  <2>1. \A j \in Tokens : remote_clients'[j].connection \in Clients =>
          \/ conn'[remote_clients'[j].connection] = "parked"
          \/ /\ conn'[remote_clients'[j].connection] = "session"
             /\ remote_clients'[j].session = remote_clients'[j].connection
    BY <1>2, <1>3, <1>4 DEF PeerInv, HeldInv
  <2>2. \A j \in Tokens : remote_clients'[j].session \in Clients =>
          /\ remote_clients'[j].connection = remote_clients'[j].session
          /\ conn'[remote_clients'[j].session] = "session"
    BY <1>2, <1>3, <1>4, NoneIsNoClient DEF PeerInv, HeldInv
  <2>3. \A j \in Tokens : remote_clients'[j].session # None => remote_clients'[j].handover_count = 0
    BY <1>2, <1>3 DEF PeerInv, HeldInv
  <2>4. \A i, j \in Tokens :
          remote_clients'[j].connection \in Clients
             /\ remote_clients'[i].connection = remote_clients'[j].connection => i = j
    BY <1>2, <1>3, <1>4 DEF PeerInv, HeldInv
  <2>5. QED
    BY <2>1, <2>2, <2>3, <2>4 DEF HeldInv
<1>6. \A d \in Daemons : ~Subscribed(d, k) => inbox'[d] = inbox[d]
  BY <1>2, EmitHas DEF Signal
<1>7. ProcessInv'
  BY <1>2, <1>6 DEF PeerInv, ProcessInv, Subscribed
<1>8. ServingInv'
  BY <1>2 DEF PeerInv, ServingInv
<1>9. ParkedInv'
  <2>1. SUFFICES ASSUME NEW d \in Daemons, Ready(d)',
                        remote_clients'[daemon[d].object].connection \in Clients
                 PROVE  token[remote_clients'[daemon[d].object].connection] = daemon[d].object
    BY <1>2 DEF ParkedInv
  <2>2. CASE daemon[d].object = k
    BY <1>1, <1>3, <2>2
  <2>3. CASE daemon[d].object # k
    <3>1. Ready(d)
      BY <1>6, <2>1, <2>3 DEF Subscribed, Ready, Has
    <3>2. daemon[d].object \in Tokens
      BY <3>1 DEF PeerInv, ProcessInv, Ready, Has
    <3>3. QED
      BY <1>2, <2>1, <2>3, <3>1, <3>2 DEF PeerInv, ParkedInv
  <2>4. QED
    BY <2>2, <2>3
<1>10. TokenInv'
  BY <1>2, <1>3, NoneIsNoClient DEF PeerInv, TokenInv
<1>11. QED
  BY <1>5, <1>7, <1>8, <1>9, <1>10 DEF PeerInv

(* IncomingNew keeps PeerInv: the identity is the client's own token or    *)
(* nobody's.                                                               *)
LEMMA NewKeepsPeers ==
    ASSUME TypeOK, PeerInv, NEW c \in Clients, NEW k \in Tokens, NEW accepted \in BOOLEAN,
           NEW gone \in SUBSET Tokens, NewOutcome(c, k, accepted, gone)
    PROVE PeerInv'
<1>1. /\ conn[c] = "connecting" /\ k \in Identities(c) /\ k \notin known
      /\ \A j \in Tokens \ {k} :
            remote_clients'[j] = IF j \in gone THEN Blank ELSE remote_clients[j]
      /\ k \in gone => remote_clients'[k] = Blank
      /\ k \notin gone =>
            /\ remote_clients'[k].connection = c
            /\ remote_clients'[k].session = IF accepted THEN c ELSE None
            /\ remote_clients'[k].handover_count = 0
      /\ conn'[c] # "connecting" /\ conn'[c] # "daemon"
      /\ accepted => conn'[c] = "session"
      /\ ~accepted /\ conn'[c] # "parked" =>
            conn'[c] = "away" /\ \E j \in gone : j = k \/ remote_clients[j].connection = c
      /\ \A b \in Clients \ {c} :
            \/ conn'[b] = conn[b]
            \/ conn'[b] = "away" /\ conn[b] = "parked"
                 /\ \E j \in gone \ {k} : remote_clients[j].connection = b
      /\ UNCHANGED <<daemon, inbox, token>>
  BY DEF NewOutcome
<1>2. \A j \in Tokens \ {k} : \A b \in Clients :
         remote_clients[j].connection = b => b # c /\ (j \notin gone => conn'[b] = conn[b])
  BY <1>1 DEF PeerInv, HeldInv
<1>3. \A j \in Tokens : remote_clients[j].connection # c
  BY <1>1 DEF PeerInv, HeldInv
<1>4. ~accepted /\ k \notin gone => conn'[c] = "parked"
  BY <1>1, <1>3
<1>5. HeldInv'
  <2>1. ASSUME NEW j \in Tokens
        PROVE  \/ remote_clients'[j].connection = None /\ remote_clients'[j].session = None
               \/ /\ j # k /\ j \notin gone /\ remote_clients'[j] = remote_clients[j]
               \/ /\ j = k /\ k \notin gone
    BY <1>1, BlankFields
  <2>2. \A j \in Tokens : remote_clients'[j].connection \in Clients =>
          \/ conn'[remote_clients'[j].connection] = "parked"
          \/ /\ conn'[remote_clients'[j].connection] = "session"
             /\ remote_clients'[j].session = remote_clients'[j].connection
    BY <1>1, <1>2, <1>4, <2>1, NoneIsNoClient DEF PeerInv, HeldInv
  <2>3. \A j \in Tokens : remote_clients'[j].session \in Clients =>
          /\ remote_clients'[j].connection = remote_clients'[j].session
          /\ conn'[remote_clients'[j].session] = "session"
    BY <1>1, <1>2, <2>1, NoneIsNoClient DEF PeerInv, HeldInv
  <2>4. \A j \in Tokens : remote_clients'[j].session # None => remote_clients'[j].handover_count = 0
    BY <1>1, <2>1 DEF PeerInv, HeldInv
  <2>5. \A i, j \in Tokens :
          remote_clients'[j].connection \in Clients
             /\ remote_clients'[i].connection = remote_clients'[j].connection => i = j
    BY <1>1, <1>2, <2>1, NoneIsNoClient DEF PeerInv, HeldInv
  <2>6. QED
    BY <2>2, <2>3, <2>4, <2>5 DEF HeldInv
<1>6. ProcessInv'
  BY <1>1 DEF PeerInv, ProcessInv
<1>7. ServingInv'
  BY <1>1 DEF PeerInv, ServingInv
<1>8. \/ k = token[c]
      \/ (\A d \in Daemons : k # daemon[d].object) /\ (\A b \in Clients : k # token[b])
  <2>1. CASE token[c] # None /\ token[c] \notin known
    BY <1>1, <2>1 DEF Identities
  <2>2. CASE ~(token[c] # None /\ token[c] \notin known)
    <3>1. k \in FreshTokens
      BY <1>1, <2>2 DEF Identities
    <3>2. k \notin {token[b] : b \in Clients} /\ k \notin {daemon[d].object : d \in Daemons}
      BY <3>1 DEF FreshTokens
    <3>3. QED
      BY <3>2
  <2>3. QED
    BY <2>1, <2>2
<1>9. ParkedInv'
  <2>1. SUFFICES ASSUME NEW d \in Daemons, Ready(d),
                        remote_clients'[daemon[d].object].connection \in Clients
                 PROVE  token[remote_clients'[daemon[d].object].connection] = daemon[d].object
    BY <1>1 DEF ParkedInv, Ready, Has
  <2>2. daemon[d].object \in Tokens
    BY <2>1 DEF PeerInv, ProcessInv, Ready, Has
  <2>3. CASE daemon[d].object = k
    BY <1>1, <1>8, <2>1, <2>3, BlankFields, NoneIsNoClient
  <2>4. CASE daemon[d].object # k
    BY <1>1, <2>1, <2>2, <2>4, BlankFields, NoneIsNoClient DEF PeerInv, ParkedInv
  <2>5. QED
    BY <2>3, <2>4
<1>10. TokenInv'
  <2>1. \A b, a \in Clients : token'[b] # None /\ token'[b] = token'[a] => b = a
    BY <1>1 DEF PeerInv, TokenInv
  <2>2. ASSUME NEW j \in Tokens, NEW b \in Clients, remote_clients'[j].session \in Clients,
                 token[b] = j
        PROVE  b = remote_clients'[j].session
    <3>1. CASE j = k
      BY <1>1, <1>8, <2>1, <2>2, <3>1, BlankFields, NoneIsNoClient
    <3>2. CASE j # k
      BY <1>1, <2>2, <3>2, BlankFields, NoneIsNoClient DEF PeerInv, TokenInv
    <3>3. QED
      BY <3>1, <3>2
  <2>3. QED
    BY <1>1, <2>1, <2>2 DEF TokenInv
<1>11. QED
  BY <1>5, <1>6, <1>7, <1>9, <1>10 DEF PeerInv

(* ClientLeaves keeps PeerInv: every pointer to the client is dead.        *)
LEMMA LeavesKeepsPeers ==
    ASSUME TypeOK, PeerInv, NEW c \in Clients, ClientLeaves(c) PROVE PeerInv'
<1>1. /\ \A k \in Tokens :
            /\ remote_clients'[k].session = Severed(remote_clients[k].session, c)
            /\ remote_clients'[k].connection = Severed(remote_clients[k].connection, c)
            /\ remote_clients'[k].handover_count = remote_clients[k].handover_count
      /\ \A d \in Daemons :
            /\ daemon'[d].pc = daemon[d].pc /\ daemon'[d].object = daemon[d].object
            /\ daemon'[d].active_session = Severed(daemon[d].active_session, c)
      /\ \A b \in Clients \ {c} : conn'[b] = conn[b]
      /\ UNCHANGED <<inbox, token>>
  BY LeavesEffect
<1>2. \A p : /\ Severed(p, c) \in Clients => Severed(p, c) = p /\ p \in Clients /\ p # c
             /\ (Severed(p, c) = None <=> p = None)
  BY NoneIsNoClient DEF Severed
<1>3. HeldInv'
  <2>1. \A j \in Tokens : remote_clients'[j].connection \in Clients =>
          \/ conn'[remote_clients'[j].connection] = "parked"
          \/ /\ conn'[remote_clients'[j].connection] = "session"
             /\ remote_clients'[j].session = remote_clients'[j].connection
    BY <1>1, <1>2 DEF PeerInv, HeldInv
  <2>2. \A j \in Tokens : remote_clients'[j].session \in Clients =>
          /\ remote_clients'[j].connection = remote_clients'[j].session
          /\ conn'[remote_clients'[j].session] = "session"
    BY <1>1, <1>2 DEF PeerInv, HeldInv
  <2>3. \A j \in Tokens : remote_clients'[j].session # None => remote_clients'[j].handover_count = 0
    BY <1>1, <1>2 DEF PeerInv, HeldInv
  <2>4. \A i, j \in Tokens :
          remote_clients'[j].connection \in Clients
             /\ remote_clients'[i].connection = remote_clients'[j].connection => i = j
    BY <1>1, <1>2 DEF PeerInv, HeldInv
  <2>5. QED
    BY <2>1, <2>2, <2>3, <2>4 DEF HeldInv
<1>4. ProcessInv'
  BY <1>1, <1>2 DEF PeerInv, ProcessInv
<1>5. ServingInv'
  BY <1>1, <1>2 DEF PeerInv, ServingInv
<1>6. ParkedInv'
  <2>1. SUFFICES ASSUME NEW d \in Daemons, Ready(d),
                        remote_clients'[daemon[d].object].connection \in Clients
                 PROVE  token[remote_clients'[daemon[d].object].connection] = daemon[d].object
    BY <1>1 DEF ParkedInv, Ready, Has
  <2>2. daemon[d].object \in Tokens
    BY <2>1 DEF PeerInv, ProcessInv, Ready, Has
  <2>3. QED
    BY <1>1, <1>2, <2>1, <2>2 DEF PeerInv, ParkedInv
<1>7. TokenInv'
  BY <1>1, <1>2 DEF PeerInv, TokenInv
<1>8. QED
  BY <1>3, <1>4, <1>5, <1>6, <1>7 DEF PeerInv
-----------------------------------------------------------------------------
(* PeerInv is kept by the handover daemons; the theorems that rest on it.  *)

(* Nobody gets a new socket or token, nothing is announced.                *)
LEMMA ParkedKept ==
    ASSUME PeerInv,
           \A d \in Daemons : Ready(d)' => Ready(d) /\ daemon'[d].object = daemon[d].object,
           \A k \in Tokens : Cleared(k) \/ Kept(k),
           \A k \in Tokens, c \in Clients :
              remote_clients[k].connection = c /\ ~Cleared(k) => token'[c] = token[c]
    PROVE  ParkedInv'
<1>1. SUFFICES ASSUME NEW d \in Daemons, Ready(d)', Ready(d), daemon'[d].object = daemon[d].object,
                      remote_clients'[daemon[d].object].connection \in Clients
               PROVE  token'[remote_clients'[daemon[d].object].connection] = daemon[d].object
  BY DEF ParkedInv
<1>2. daemon[d].object \in Tokens
  BY <1>1 DEF PeerInv, ProcessInv, Ready, Has
<1>3. ~Cleared(daemon[d].object) /\ Kept(daemon[d].object)
  BY <1>1, <1>2, NoneIsNoClient DEF Cleared
<1>4. QED
  BY <1>1, <1>2, <1>3 DEF PeerInv, ParkedInv, Kept

(* TokenInv only depends on the tokens and the sessions.                   *)
LEMMA TokensKeptInv ==
    ASSUME TokenInv, UNCHANGED token, \A k \in Tokens : Cleared(k) \/ Kept(k) PROVE TokenInv'
BY NoneIsNoClient DEF TokenInv, Cleared, Kept

(* Launch keeps PeerInv.                                                   *)
LEMMA LaunchKeepsPeers ==
    ASSUME TypeOK, PeerInv, NEW d \in Daemons, Launch(d) PROVE PeerInv'
<1>1. /\ daemon[d] = Stopped
      /\ daemon'[d].pc = "launched" /\ daemon'[d].object = None
      /\ daemon'[d].active_session = None
      /\ \A e \in Daemons \ {d} : daemon'[e] = daemon[e]
      /\ UNCHANGED <<remote_clients, inbox, conn, token>>
  BY LaunchEffect
<1>2. inbox[d] = <<>>
  BY <1>1, StoppedFields DEF PeerInv, ProcessInv
<1>3. HeldInv' /\ TokenInv'
  BY <1>1 DEF PeerInv, HeldInv, TokenInv
<1>4. ProcessInv'
  BY <1>1, <1>2, NoneIsNoClient DEF PeerInv, ProcessInv
<1>5. ServingInv'
  BY <1>1, NoneIsNoClient DEF PeerInv, ServingInv
<1>6. \A e \in Daemons : Ready(e)' => Ready(e) /\ daemon'[e].object = daemon[e].object
  BY <1>1, <1>2 DEF Ready, Has
<1>7. ParkedInv'
  BY <1>1, <1>6, ParkedKept DEF Kept
<1>8. QED
  BY <1>3, <1>4, <1>5, <1>7 DEF PeerInv

(* Subscribe keeps PeerInv.                                                *)
LEMMA SubscribeKeepsPeers ==
    ASSUME TypeOK, PeerInv, NEW d \in Daemons, Subscribe(d) PROVE PeerInv'
<1>1. /\ daemon[d].pc = "requested"
      /\ \A e \in Daemons \ {d} : daemon'[e] = daemon[e]
      /\ UNCHANGED <<remote_clients, inbox, conn, token>>
  BY SubscribeEffect
<1>2. /\ daemon'[d].pc = "subscribed" /\ daemon'[d].object = daemon[d].object
      /\ daemon'[d].active_session = daemon[d].active_session
  BY SubscribeEffect DEF TypeOK
<1>3. HeldInv' /\ TokenInv'
  BY <1>1 DEF PeerInv, HeldInv, TokenInv
<1>4. ProcessInv'
  BY <1>1, <1>2 DEF PeerInv, ProcessInv
<1>5. ServingInv'
  BY <1>1, <1>2 DEF PeerInv, ServingInv
<1>6. \A e \in Daemons : Ready(e)' => Ready(e) /\ daemon'[e].object = daemon[e].object
  BY <1>1, <1>2 DEF Ready, Has
<1>7. ParkedInv'
  BY <1>1, <1>6, ParkedKept DEF Kept
<1>8. QED
  BY <1>3, <1>4, <1>5, <1>7 DEF PeerInv

(* A handover process is gone.                                             *)
LEMMA EndsKeepsPeers ==
    ASSUME TypeOK, PeerInv, NEW d \in Daemons,
           daemon'[d] = Stopped, inbox'[d] = <<>>,
           \A e \in Daemons \ {d} : daemon'[e] = daemon[e] /\ inbox'[e] = inbox[e],
           \A b \in Clients : conn[b] = "daemon" /\ b # daemon[d].active_session
             => conn'[b] = "daemon",
           UNCHANGED token
    PROVE  /\ ProcessInv' /\ ServingInv'
           /\ \A e \in Daemons : Ready(e)' => Ready(e) /\ daemon'[e].object = daemon[e].object
<1>1. ProcessInv'
  BY StoppedFields, NoneIsNoClient DEF PeerInv, ProcessInv
<1>2. ServingInv'
  BY StoppedFields, NoneIsNoClient DEF PeerInv, ServingInv
<1>3. ASSUME NEW e \in Daemons, Ready(e)' PROVE Ready(e) /\ daemon'[e].object = daemon[e].object
  <2>1. e # d
    BY <1>3 DEF Ready, Has
  <2>2. QED
    BY <1>3, <2>1 DEF Ready, Has
<1>4. QED
  BY <1>1, <1>2, <1>3

(* RequestHandover keeps PeerInv.                                          *)
LEMMA RequestKeepsPeers ==
    ASSUME TypeOK, PeerInv, NEW d \in Daemons, NEW k \in Tokens \cup {None}, RequestOutcome(d, k)
    PROVE PeerInv'
<1>1. /\ daemon[d].pc = "launched"
      /\ \A j \in Tokens \ {k} :
            remote_clients'[j] = IF j \in Stale(remote_clients) THEN Blank ELSE remote_clients[j]
      /\ \A b \in Clients :
            \/ conn'[b] = conn[b]
            \/ /\ conn'[b] = "away" /\ conn[b] = "parked"
               /\ \E j \in Stale(remote_clients) : remote_clients[j].connection = b
      /\ UNCHANGED token
  BY DEF RequestOutcome
<1>2. k # None => (IF k \in Stale(remote_clients) THEN Cleared(k) ELSE Kept(k))
  <2>1. SUFFICES ASSUME k # None PROVE IF k \in Stale(remote_clients) THEN Cleared(k) ELSE Kept(k)
    OBVIOUS
  <2>2. k \in Tokens /\ remote_clients'[k] =
           [(IF k \in Stale(remote_clients) THEN Blank ELSE remote_clients[k])
              EXCEPT !.assigned = TRUE, !.stale = FALSE]
    BY <2>1 DEF RequestOutcome
  <2>3. CASE k \in Stale(remote_clients)
    BY <2>2, <2>3 DEF Blank, Cleared
  <2>4. CASE k \notin Stale(remote_clients)
    BY <2>2, <2>4 DEF TypeOK, RemoteClient, Kept
  <2>5. QED
    BY <2>3, <2>4
<1>3. Stale(remote_clients) \subseteq Tokens
  BY DEF Stale, ToSet, TypeOK
<1>4. \A j \in Tokens : IF j \in Stale(remote_clients) THEN Cleared(j) ELSE Kept(j)
  BY <1>1, <1>2, BlankFields, NoneIsNoClient DEF Cleared, Kept
<1>5. \A j \in Tokens, b \in Clients :
         j \notin Stale(remote_clients) /\ remote_clients[j].connection = b => conn'[b] = conn[b]
  BY <1>1, <1>3 DEF PeerInv, HeldInv
<1>6. HeldInv'
  BY <1>4, <1>5, HeldKept DEF PeerInv
<1>7. TokenInv'
  BY <1>1, <1>4, TokensKeptInv DEF PeerInv
<1>8. inbox[d] = <<>> /\ daemon[d].active_session = None
  BY <1>1 DEF PeerInv, ProcessInv
<1>9. /\ ProcessInv' /\ ServingInv'
      /\ \A e \in Daemons : Ready(e)' => Ready(e) /\ daemon'[e].object = daemon[e].object
  <2>1. CASE k = None
    <3>1. /\ daemon'[d] = Stopped /\ inbox'[d] = <<>>
          /\ \A e \in Daemons \ {d} : daemon'[e] = daemon[e] /\ inbox'[e] = inbox[e]
      BY <2>1, EndsEffect DEF RequestOutcome
    <3>2. QED
      BY <1>1, <3>1, EndsKeepsPeers
  <2>2. CASE k # None
    <3>1. /\ k \in Tokens /\ \A e \in Daemons \ {d} : daemon'[e] = daemon[e]
          /\ UNCHANGED inbox
      BY <2>2 DEF RequestOutcome
    <3>2. /\ daemon'[d].pc = "requested" /\ daemon'[d].object = k
          /\ daemon'[d].active_session = None
      <4>1. daemon'[d] = [daemon[d] EXCEPT !.pc = "requested", !.object = k]
        BY <2>2 DEF RequestOutcome
      <4>2. QED
        BY <1>8, <4>1 DEF TypeOK
    <3>3. ProcessInv'
      BY <1>1, <1>8, <3>1, <3>2 DEF PeerInv, ProcessInv
    <3>4. ServingInv'
      BY <1>1, <3>1, <3>2, NoneIsNoClient DEF PeerInv, ServingInv
    <3>5. \A e \in Daemons : Ready(e)' => Ready(e) /\ daemon'[e].object = daemon[e].object
      BY <1>8, <3>1 DEF Ready, Has
    <3>6. QED
      BY <3>3, <3>4, <3>5
  <2>3. QED
    BY <2>1, <2>2
<1>10. ParkedInv'
  BY <1>1, <1>4, <1>9, ParkedKept
<1>11. QED
  BY <1>6, <1>7, <1>9, <1>10 DEF PeerInv

(* StartHandover keeps PeerInv: the client redirected is the only one that *)
(* holds the token, and its record forgets the session.                    *)
LEMMA StartKeepsPeers ==
    ASSUME TypeOK, PeerInv, NEW d \in Daemons, NEW k, StartOutcome(d, k) PROVE PeerInv'
<1>1. /\ k = daemon[d].object /\ daemon[d].pc = "subscribed" /\ k \in Tokens
      /\ \A e \in Daemons \ {d} : daemon'[e] = daemon[e]
      /\ \A j \in Tokens \ {k} : remote_clients'[j] = remote_clients[j]
  BY DEF StartOutcome
<1>2. /\ daemon'[d].pc = "running" /\ daemon'[d].object = daemon[d].object
      /\ daemon'[d].active_session = daemon[d].active_session
  <2>1. daemon'[d] = [daemon[d] EXCEPT !.pc = "running"]
    BY DEF StartOutcome
  <2>2. QED
    BY <2>1 DEF TypeOK
<1>3. remote_clients[k] \in RemoteClient
  BY <1>1 DEF TypeOK
<1>4. CASE remote_clients[k].session # None
  <2> DEFINE c == remote_clients[k].session
  <2>1. RedirectOutcome(c, k) /\ UNCHANGED inbox
    BY <1>4 DEF StartOutcome
  <2>2. Cleared(k)
    <3>1. remote_clients'[k] =
             [remote_clients[k] EXCEPT !.session = None, !.connection = None,
                                       !.assigned = TRUE, !.stale = FALSE]
      BY <1>4 DEF StartOutcome
    <3>2. QED
      BY <1>3, <3>1 DEF RemoteClient, Cleared
  <2>3. c \in Clients => remote_clients[k].connection = c /\ conn[c] = "session"
    BY <1>1 DEF PeerInv, HeldInv
  <2> HIDE DEF c
  <2>4. /\ \A b \in Clients \ {c} : conn'[b] = conn[b] /\ token'[b] = token[b]
        /\ c \in Clients => conn'[c] = "connecting" /\ token'[c] = k
    BY <2>1 DEF RedirectOutcome
  <2>5. \A j \in Tokens \ {k}, b \in Clients : remote_clients[j].connection = b => b # c
    BY <1>1, <2>3 DEF PeerInv, HeldInv
  <2>6. \A j \in Tokens : Cleared(j) \/ Kept(j)
    BY <1>1, <2>2 DEF Kept
  <2>7. HeldInv'
    BY <1>1, <2>2, <2>4, <2>5, <2>6, HeldKept DEF PeerInv, Kept
  <2>8. ProcessInv'
    BY <1>1, <1>2, <2>1 DEF PeerInv, ProcessInv
  <2>9. ServingInv'
    BY <1>1, <1>2, <2>3, <2>4 DEF PeerInv, ServingInv
  <2>10. ParkedInv'
    BY <1>1, <1>2, <2>1, <2>2, <2>4, <2>5, <2>6, ParkedKept DEF Ready, Has
  <2>11. TokenInv'
    <3>1. \A b \in Clients : c \in Clients /\ token[b] = k => b = c
      BY <1>1 DEF PeerInv, TokenInv, c
    <3>2. \A a, b \in Clients : token'[a] # None /\ token'[a] = token'[b] => a = b
      BY <2>4, <3>1 DEF PeerInv, TokenInv
    <3>3. \A j \in Tokens, b \in Clients :
             remote_clients'[j].session \in Clients /\ token'[b] = j
               => b = remote_clients'[j].session
      BY <1>1, <2>2, <2>4, NoneIsNoClient DEF PeerInv, TokenInv, Cleared
    <3>4. QED
      BY <3>2, <3>3 DEF TokenInv
  <2>12. QED
    BY <2>7, <2>8, <2>9, <2>10, <2>11 DEF PeerInv
<1>5. CASE remote_clients[k].session = None
  <2>1. /\ Emit(k, [kind |-> "redirect-client", by |-> d])
        /\ UNCHANGED <<conn, token>>
    BY <1>5 DEF StartOutcome
  <2>2. \A j \in Tokens : Kept(j)
    <3>1. remote_clients'[k] = [remote_clients[k] EXCEPT !.stale = FALSE]
      BY <1>5 DEF StartOutcome
    <3>2. QED
      BY <1>1, <1>3, <3>1 DEF Kept, RemoteClient
  <2>3. /\ \A e \in Daemons : ~Subscribed(e, k) => inbox'[e] = inbox[e]
        /\ \A e \in Daemons : Ready(e)' => Ready(e)
    BY <2>1, EmitHas DEF Signal, Ready
  <2>4. HeldInv'
    BY <2>1, <2>2, HeldKept DEF PeerInv
  <2>5. ProcessInv'
    BY <1>1, <1>2, <2>3 DEF PeerInv, ProcessInv, Subscribed
  <2>6. ServingInv'
    BY <1>1, <1>2, <2>1 DEF PeerInv, ServingInv
  <2>7. ParkedInv'
    BY <1>1, <1>2, <2>1, <2>2, <2>3, ParkedKept
  <2>8. TokenInv'
    BY <2>1, <2>2, TokensKeptInv DEF PeerInv
  <2>9. QED
    BY <2>4, <2>5, <2>6, <2>7, <2>8 DEF PeerInv
<1>6. QED
  BY <1>4, <1>5

(* Renewing a time stamp, or letting it lapse, keeps who is connected.     *)
LEMMA RenewedKept ==
    ASSUME TypeOK, NEW stale \in BOOLEAN, NEW k \in Tokens,
           \/ remote_clients'[k] = remote_clients[k]
           \/ remote_clients'[k] = [remote_clients[k] EXCEPT !.stale = stale]
    PROVE  Kept(k) /\ remote_clients'[k].assigned = remote_clients[k].assigned
BY DEF TypeOK, RemoteClient, Kept

(* StartHandoverFails keeps PeerInv.                                       *)
LEMMA StartFailsKeepsPeers ==
    ASSUME TypeOK, PeerInv, NEW d \in Daemons, StartHandoverFails(d) PROVE PeerInv'
<1>1. UNCHANGED <<conn, token>> /\ daemon[d].pc = "subscribed" /\ Ends(d)
  BY DEF StartHandoverFails
<1>2. \A j \in Tokens : Kept(j)
  BY RenewedEffect, RenewedKept DEF StartHandoverFails
<1>3. /\ ProcessInv' /\ ServingInv'
      /\ \A e \in Daemons : Ready(e)' => Ready(e) /\ daemon'[e].object = daemon[e].object
  BY <1>1, EndsEffect, EndsKeepsPeers
<1>4. HeldInv' /\ ParkedInv' /\ TokenInv'
  BY <1>1, <1>2, <1>3, HeldKept, ParkedKept, TokensKeptInv DEF PeerInv
<1>5. QED
  BY <1>3, <1>4 DEF PeerInv

(* A daemon has handled a signal, and nothing else happened to it.         *)
LEMMA TailKeepsProcess ==
    ASSUME TypeOK, PeerInv, NEW d \in Daemons, daemon[d].pc = "running", inbox[d] # <<>>,
           inbox'[d] = Tail(inbox[d]), \A e \in Daemons \ {d} : inbox'[e] = inbox[e],
           \A e \in Daemons : daemon'[e].pc = daemon[e].pc /\ daemon'[e].object = daemon[e].object,
           \A e \in Daemons \ {d} : daemon'[e] = daemon[e]
    PROVE  /\ ProcessInv'
           /\ \A e \in Daemons : Ready(e)' => Ready(e) /\ daemon'[e].object = daemon[e].object
<1>1. ProcessInv'
  BY DEF PeerInv, ProcessInv
<1>2. \A e \in Daemons : Ready(e)' => Ready(e)
  BY TailHas, SameHas DEF Ready
<1>3. QED
  BY <1>1, <1>2

(* TakeClient keeps PeerInv: the socket leaves its record before another   *)
(* daemon can ask for it.                                                  *)
LEMMA TakeKeepsPeers ==
    ASSUME TypeOK, PeerInv, NEW d \in Daemons, NEW k, NEW c, NEW adopted \in BOOLEAN,
           NEW gone \in SUBSET Tokens, TakeOutcome(d, k, c, adopted, gone)
    PROVE PeerInv'
<1>1. /\ k = daemon[d].object /\ daemon[d].pc = "running" /\ k \in Tokens
      /\ inbox[d] # <<>> /\ inbox[d][1].kind = "take-client-ready"
      /\ c = remote_clients[k].connection /\ c \in Clients \cup {Dead}
      /\ \A j \in Tokens \ {k} :
            remote_clients'[j] = IF j \in gone THEN Blank ELSE remote_clients[j]
      /\ k \in gone => remote_clients'[k] = Blank
      /\ k \notin gone => remote_clients'[k].connection = None /\ remote_clients'[k].session = None
      /\ c \in Clients => conn'[c] = IF adopted THEN "daemon" ELSE "away"
      /\ \A b \in Clients \ {c} :
            \/ conn'[b] = conn[b]
            \/ /\ conn'[b] = "away" /\ conn[b] = "parked"
               /\ \E j \in gone \ {k} : remote_clients[j].connection = b
      /\ \A e \in Daemons \ {d} : daemon'[e] = daemon[e]
      /\ inbox'[d] = Tail(inbox[d]) /\ \A e \in Daemons \ {d} : inbox'[e] = inbox[e]
      /\ UNCHANGED token
  BY DEF TakeOutcome
<1>2. Cleared(k) /\ \A j \in Tokens \ {k} : IF j \in gone THEN Cleared(j) ELSE Kept(j)
  BY <1>1, BlankFields DEF Cleared, Kept
<1>3. \A j \in Tokens \ {k}, b \in Clients :
         remote_clients[j].connection = b => b # c /\ (j \notin gone => conn'[b] = conn[b])
  BY <1>1 DEF PeerInv, HeldInv
<1>4. HeldInv'
  BY <1>2, <1>3, HeldKept DEF PeerInv
<1>5. /\ daemon'[d].pc = daemon[d].pc /\ daemon'[d].object = daemon[d].object
      /\ daemon'[d].active_session = IF adopted THEN c ELSE daemon[d].active_session
  <2>1. daemon'[d] = IF adopted THEN [daemon[d] EXCEPT !.active_session = c] ELSE daemon[d]
    BY DEF TakeOutcome
  <2>2. QED
    BY <2>1 DEF TypeOK
<1>6. /\ ProcessInv'
      /\ \A e \in Daemons : Ready(e)' => Ready(e) /\ daemon'[e].object = daemon[e].object
  BY <1>1, <1>5, TailKeepsProcess
<1>7. Ready(d)
  BY <1>1, HeadHas DEF Ready
<1>8. c \in Clients => token[c] = k /\ conn[c] # "daemon"
  BY <1>1, <1>7 DEF PeerInv, ParkedInv, HeldInv
<1>9. ServingInv'
  <2>1. \A e \in Daemons \ {d} : daemon[e].active_session \in Clients
          => daemon[e].active_session # c
    BY <1>8 DEF PeerInv, ServingInv
  <2>2. \A b \in Clients \ {c} : conn[b] = "daemon" => conn'[b] = "daemon"
    BY <1>1
  <2>3. daemon[d].active_session \in Clients => daemon[d].active_session # c
    BY <1>8 DEF PeerInv, ServingInv
  <2>4. \A e \in Daemons :
          daemon'[e].active_session \in Clients =>
             /\ conn'[daemon'[e].active_session] = "daemon"
             /\ token'[daemon'[e].active_session] = daemon'[e].object
    BY <1>1, <1>5, <1>8, <2>1, <2>2, <2>3 DEF PeerInv, ServingInv
  <2>5. \A a, e \in Daemons :
          daemon'[a].active_session \in Clients
             /\ daemon'[e].active_session = daemon'[a].active_session => e = a
    BY <1>1, <1>5, <2>1, <2>3 DEF PeerInv, ServingInv
  <2>6. QED
    BY <2>4, <2>5 DEF ServingInv
<1>10. ParkedInv'
  BY <1>1, <1>2, <1>6, ParkedKept
<1>11. TokenInv'
  BY <1>1, <1>2, TokensKeptInv DEF PeerInv
<1>12. QED
  BY <1>4, <1>6, <1>9, <1>10, <1>11 DEF PeerInv

(* TakeClientFails keeps PeerInv.                                          *)
LEMMA TakeFailsKeepsPeers ==
    ASSUME TypeOK, PeerInv, NEW d \in Daemons, TakeClientFails(d) PROVE PeerInv'
<1>1. /\ UNCHANGED <<daemon, conn, token>> /\ daemon[d].pc = "running" /\ inbox[d] # <<>>
      /\ inbox' = [inbox EXCEPT ![d] = Tail(@)]
  BY DEF TakeClientFails, Handles
<1>2. \A j \in Tokens : Kept(j)
  BY RenewedEffect, RenewedKept DEF TakeClientFails
<1>3. inbox'[d] = Tail(inbox[d]) /\ \A e \in Daemons \ {d} : inbox'[e] = inbox[e]
  BY <1>1, TailEffect
<1>4. /\ ProcessInv'
      /\ \A e \in Daemons : Ready(e)' => Ready(e) /\ daemon'[e].object = daemon[e].object
  BY <1>1, <1>3, TailKeepsProcess
<1>5. ServingInv'
  BY <1>1 DEF PeerInv, ServingInv
<1>6. HeldInv' /\ ParkedInv' /\ TokenInv'
  BY <1>1, <1>2, <1>4, HeldKept, ParkedKept, TokensKeptInv DEF PeerInv
<1>7. QED
  BY <1>4, <1>5, <1>6 DEF PeerInv

(* RedirectClient keeps PeerInv: the daemon that redirects its client      *)
(* ends.                                                                   *)
LEMMA RedirectKeepsPeers ==
    ASSUME TypeOK, PeerInv, NEW d \in Daemons, RedirectClient(d) PROVE PeerInv'
<1>1. /\ daemon[d].pc = "running" /\ inbox[d] # <<>>
      /\ RedirectsOutcome(d) \/ IgnoresOutcome(d)
      /\ UNCHANGED remote_clients
  BY RedirectEffect
<1>2. \A j \in Tokens : Kept(j)
  BY <1>1 DEF Kept
<1>3. CASE RedirectsOutcome(d)
  <2> DEFINE c == daemon[d].active_session
  <2>1. /\ RedirectOutcome(c, daemon[d].object)
        /\ daemon'[d] = Stopped /\ inbox'[d] = <<>>
        /\ \A e \in Daemons \ {d} : daemon'[e] = daemon[e] /\ inbox'[e] = inbox[e]
    BY <1>3 DEF RedirectsOutcome
  <2>2. /\ token' \in [Clients -> Tokens \cup {None}]
        /\ \A b \in Clients \ {c} : conn'[b] = conn[b] /\ token'[b] = token[b]
        /\ c \in Clients => conn'[c] = "connecting" /\ token'[c] = daemon[d].object
    BY <2>1 DEF RedirectOutcome
  <2>3. c \in Clients => conn[c] = "daemon" /\ token[c] = daemon[d].object
    BY DEF PeerInv, ServingInv
  <2>4. UNCHANGED token
    <3>1. \A b \in Clients : token'[b] = token[b]
      BY <2>2, <2>3
    <3>2. token \in [Clients -> Tokens \cup {None}]
      BY DEF TypeOK
    <3>3. QED
      BY <2>2, <3>1, <3>2
  <2>5. \A k \in Tokens, b \in Clients : remote_clients[k].connection = b => conn'[b] = conn[b]
    BY <2>2, <2>3 DEF PeerInv, HeldInv
  <2>6. /\ ProcessInv' /\ ServingInv'
        /\ \A e \in Daemons : Ready(e)' => Ready(e) /\ daemon'[e].object = daemon[e].object
    BY <2>1, <2>2, <2>4, EndsKeepsPeers
  <2>7. HeldInv' /\ ParkedInv' /\ TokenInv'
    BY <1>2, <2>4, <2>5, <2>6, HeldKept, ParkedKept, TokensKeptInv DEF PeerInv
  <2>8. QED
    BY <2>6, <2>7 DEF PeerInv
<1>4. CASE IgnoresOutcome(d)
  <2>1. /\ inbox'[d] = Tail(inbox[d]) /\ \A e \in Daemons \ {d} : inbox'[e] = inbox[e]
        /\ UNCHANGED <<daemon, conn, token>>
    BY <1>4 DEF IgnoresOutcome
  <2>2. /\ ProcessInv'
        /\ \A e \in Daemons : Ready(e)' => Ready(e) /\ daemon'[e].object = daemon[e].object
    BY <1>1, <2>1, TailKeepsProcess
  <2>3. ServingInv'
    BY <2>1 DEF PeerInv, ServingInv
  <2>4. HeldInv' /\ ParkedInv' /\ TokenInv'
    BY <1>2, <2>1, <2>2, HeldKept, ParkedKept, TokensKeptInv DEF PeerInv
  <2>5. QED
    BY <2>2, <2>3, <2>4 DEF PeerInv
<1>5. QED
  BY <1>1, <1>3, <1>4

(* GoesStale keeps PeerInv.                                                *)
LEMMA StaleKeepsPeers ==
    ASSUME TypeOK, PeerInv, NEW k \in Tokens, GoesStale(k) PROVE PeerInv'
<1>1. UNCHANGED <<daemon, inbox, conn, token>> /\ \A j \in Tokens : Kept(j)
  BY StaleEffect, RenewedKept
<1>2. HeldInv' /\ TokenInv'
  BY <1>1, HeldKept, TokensKeptInv DEF PeerInv
<1>3. ProcessInv' /\ ServingInv'
  BY <1>1 DEF PeerInv, ProcessInv, ServingInv
<1>4. \A e \in Daemons : Ready(e)' => Ready(e) /\ daemon'[e].object = daemon[e].object
  BY <1>1 DEF Ready, Has
<1>5. ParkedInv'
  BY <1>1, <1>4, ParkedKept
<1>6. QED
  BY <1>2, <1>3, <1>5 DEF PeerInv

(* Every step keeps PeerInv.                                               *)
LEMMA StepKeepsPeers ==
    ASSUME TypeOK, PeerInv, [Next]_vars PROVE PeerInv'
<1>1. CASE UNCHANGED vars
  BY <1>1 DEF vars, PeerInv, HeldInv, ProcessInv, ServingInv, ParkedInv, TokenInv, Ready, Has
<1>2. ASSUME NEW c \in Clients, IncomingKnown(c) PROVE PeerInv'
  <2> DEFINE k == token[c]
  <2> HIDE DEF k
  <2>1. KnownOutcome(c, k) /\ k = token[c]
    BY <1>2, KnownEffect DEF k
  <2>2. QED
    BY <2>1, KnownKeepsPeers
<1>3. ASSUME NEW c \in Clients, IncomingNew(c) PROVE PeerInv'
  BY <1>3, NewEffect, NewKeepsPeers
<1>4. ASSUME NEW d \in Daemons, RequestHandover(d) PROVE PeerInv'
  BY <1>4, RequestEffect, RequestKeepsPeers
<1>5. ASSUME NEW d \in Daemons, StartHandover(d) PROVE PeerInv'
  BY <1>5, StartEffect, StartKeepsPeers
<1>6. ASSUME NEW d \in Daemons, TakeClient(d) PROVE PeerInv'
  BY <1>6, TakeEffect, TakeKeepsPeers
<1>7. QED
  BY <1>1, <1>2, <1>3, <1>4, <1>5, <1>6, ConnectsKeepsPeers, LeavesKeepsPeers, LaunchKeepsPeers,
     SubscribeKeepsPeers, StartFailsKeepsPeers, TakeFailsKeepsPeers, RedirectKeepsPeers,
     StaleKeepsPeers DEF Next, Incoming, DaemonStep

(* PeerInv holds when the system daemon starts.                            *)
LEMMA InitPeers == Init => TypeOK /\ PeerInv
<1> SUFFICES ASSUME Init PROVE TypeOK /\ PeerInv
  OBVIOUS
<1>1. TypeOK
  BY BlankIsRecord, StoppedIsState DEF Init, TypeOK, DaemonStates
<1>2. \A d \in Daemons : daemon[d] = Stopped /\ inbox[d] = <<>>
  BY DEF Init
<1>3. \A k \in Tokens : remote_clients[k] = Blank
  BY DEF Init
<1>4. \A c \in Clients : token[c] = None
  BY DEF Init
<1>5. HeldInv
  BY <1>3, BlankFields, NoneIsNoClient DEF HeldInv
<1>6. ProcessInv /\ ServingInv
  BY <1>2, StoppedFields, NoneIsNoClient DEF ProcessInv, ServingInv
<1>7. ParkedInv
  BY <1>2 DEF ParkedInv, Ready, Has
<1>8. TokenInv
  BY <1>3, <1>4, BlankFields, NoneIsNoClient DEF TokenInv
<1>9. QED
  BY <1>1, <1>5, <1>6, <1>7, <1>8 DEF PeerInv

(* The state has its types: the table, the queue, the inboxes of the       *)
(* handover daemons and where the clients are.                             *)
THEOREM TypeCorrect == Spec => []TypeOK
BY InitPeers, StepKeepsTypeOK, PTL DEF Spec

(* PeerInv holds in every behaviour, for any clients, tokens, daemons and  *)
(* faults.                                                                 *)
THEOREM PeerInvariance == Spec => [](TypeOK /\ PeerInv)
<1>1. (TypeOK /\ PeerInv) /\ [Next]_vars => (TypeOK /\ PeerInv)'
  BY StepKeepsTypeOK, StepKeepsPeers
<1>2. QED
  BY InitPeers, <1>1, PTL DEF Spec

(* A client that a handover daemon serves was redirected with the token of *)
(* that daemon's object: TakeClient passes no daemon somebody else's       *)
(* socket, whatever clients leave, return, idle or overload the queue.     *)
THEOREM ServedWithItsToken == Spec => []ServedByToken
<1>1. PeerInv => ServedByToken
  BY DEF PeerInv, ServingInv, ServedByToken
<1>2. QED
  BY <1>1, PeerInvariance, PTL
-----------------------------------------------------------------------------
(* The queue and the claims: OrderInv, which needs that a token held by a  *)
(* client that calls is still the name of a record (TokensKept).           *)

(* The object of d is in the table; and its client was not taken by a      *)
(* daemon yet.                                                             *)
Claimed(d) == daemon[d].object \in known
First(d) == Claimed(d) /\ remote_clients[daemon[d].object].handover_count = 0

(* The queue holds the clients nobody has claimed, each once.              *)
QueueInv ==
    /\ NoDuplicates(pending_clients)
    /\ ToSet(pending_clients) = {k \in known : ~remote_clients[k].assigned}

(* A client that was not taken yet is claimed by the one daemon that has   *)
(* its object, and that daemon serves nobody; a client is claimed while a  *)
(* daemon is on its way to StartHandover.                                  *)
ClaimInv ==
    /\ \A d \in Daemons : First(d) => remote_clients[daemon[d].object].assigned
    /\ \A d, e \in Daemons : First(d) /\ daemon[e].object = daemon[d].object => e = d
    /\ \A d \in Daemons : Claimed(d) /\ daemon[d].pc \in {"requested", "subscribed"} =>
          remote_clients[daemon[d].object].assigned
    /\ \A d \in Daemons : First(d) => daemon[d].active_session = None

(* TakeClientReady waits for no daemon whose client has its session here.  *)
ReadyInv == \A d \in Daemons : Ready(d) => remote_clients[daemon[d].object].session = None

(* The session the listener runs is of a client connected to it.           *)
ListedInv == listed # None => conn[listed] = "session"

(* The queue and the claims.                                               *)
OrderInv == QueueInv /\ ClaimInv /\ ReadyInv /\ ListedInv

(* A client that connects with a token; those tokens are in the table.     *)
Calls(c) == conn[c] = "connecting" /\ token[c] # None
TokensKept == \A c \in Clients : Calls(c) => token[c] \in known

(* QueueInv depends on the table, the queue and the claims.                *)
LEMMA QueueKept ==
    ASSUME QueueInv, UNCHANGED <<known, pending_clients>>,
           \A k \in known : remote_clients'[k].assigned = remote_clients[k].assigned
    PROVE  QueueInv'
BY DEF QueueInv, NoDuplicates, ToSet

(* No daemon gets an object and no claim is given up: ClaimInv is kept.    *)
LEMMA ClaimKept ==
    ASSUME ClaimInv,
           \A d \in Daemons : Claimed(d)' =>
              /\ Claimed(d) /\ daemon'[d].object = daemon[d].object
              /\ daemon'[d].pc \in {"requested", "subscribed"} =>
                    daemon[d].pc \in {"requested", "subscribed"}
              /\ daemon[d].active_session = None => daemon'[d].active_session = None
              /\ remote_clients'[daemon[d].object].handover_count
                    = remote_clients[daemon[d].object].handover_count
              /\ remote_clients[daemon[d].object].assigned =>
                    remote_clients'[daemon[d].object].assigned
    PROVE  ClaimInv'
<1>1. \A d \in Daemons : First(d)' => First(d) /\ Claimed(d)'
  BY DEF First
<1>2. \A d \in Daemons : First(d)' => remote_clients'[daemon'[d].object].assigned
  BY <1>1 DEF ClaimInv
<1>3. \A d, e \in Daemons : First(d)' /\ daemon'[e].object = daemon'[d].object => e = d
  <2>1. SUFFICES ASSUME NEW d \in Daemons, NEW e \in Daemons, First(d)',
                        daemon'[e].object = daemon'[d].object
                 PROVE  e = d
    OBVIOUS
  <2>2. Claimed(d)' /\ Claimed(e)' /\ First(d)
    BY <1>1, <2>1 DEF Claimed
  <2>3. QED
    BY <2>1, <2>2 DEF ClaimInv
<1>4. \A d \in Daemons : Claimed(d)' /\ daemon'[d].pc \in {"requested", "subscribed"} =>
         remote_clients'[daemon'[d].object].assigned
  BY DEF ClaimInv
<1>5. \A d \in Daemons : First(d)' => daemon'[d].active_session = None
  BY <1>1 DEF ClaimInv
<1>6. QED
  BY <1>2, <1>3, <1>4, <1>5 DEF ClaimInv

(* No TakeClientReady is sent and no session begins: ReadyInv is kept.     *)
LEMMA ReadyKept ==
    ASSUME PeerInv, ReadyInv,
           \A d \in Daemons : Ready(d)' => Ready(d) /\ daemon'[d].object = daemon[d].object,
           \A k \in Tokens : remote_clients[k].session = None => remote_clients'[k].session = None
    PROVE  ReadyInv'
<1>1. \A d \in Daemons : Ready(d) => daemon[d].object \in Tokens
  BY DEF PeerInv, ProcessInv, Ready, Has
<1>2. QED
  BY <1>1 DEF ReadyInv

(* ClientConnects keeps OrderInv.                                          *)
LEMMA ConnectsKeepsOrder ==
    ASSUME TypeOK, PeerInv, OrderInv, NEW c \in Clients, ClientConnects(c) PROVE OrderInv'
<1>1. /\ conn[c] = "away" /\ \A b \in Clients \ {c} : conn'[b] = conn[b]
      /\ UNCHANGED <<known, remote_clients, pending_clients, listed, daemon, inbox>>
  BY ConnectsEffect
<1>2. QueueInv' /\ ClaimInv' /\ ReadyInv'
  BY <1>1 DEF OrderInv, QueueInv, ClaimInv, ReadyInv, First, Claimed, Ready, Has, NoDuplicates,
    ToSet
<1>3. ListedInv'
  BY <1>1 DEF OrderInv, ListedInv, TypeOK
<1>4. QED
  BY <1>2, <1>3 DEF OrderInv

(* IncomingKnown keeps OrderInv: it announces a client without a session.  *)
LEMMA KnownKeepsOrder ==
    ASSUME TypeOK, PeerInv, OrderInv, NEW c \in Clients, NEW k, k = token[c], KnownOutcome(c, k)
    PROVE  OrderInv'
<1>1. /\ conn[c] = "connecting" /\ k \in Tokens /\ remote_clients[k].session = None
      /\ \A j \in Tokens \ {k} : remote_clients'[j] = remote_clients[j]
      /\ \A b \in Clients \ {c} :
            conn'[b] = conn[b] \/ (conn'[b] = "away" /\ conn[b] = "parked")
      /\ Emit(k, [kind |-> "take-client-ready", by |-> None])
      /\ UNCHANGED <<known, pending_clients, listed, daemon>>
  BY DEF KnownOutcome
<1>2. /\ remote_clients'[k].session = None
      /\ remote_clients'[k].handover_count = remote_clients[k].handover_count
      /\ remote_clients'[k].assigned = remote_clients[k].assigned
  <2>1. remote_clients'[k] = [remote_clients[k] EXCEPT !.connection = c, !.stale = FALSE]
    BY DEF KnownOutcome
  <2>2. QED
    BY <1>1, <2>1 DEF TypeOK, RemoteClient
<1>3. \A j \in Tokens : /\ remote_clients'[j].handover_count = remote_clients[j].handover_count
                        /\ remote_clients'[j].assigned = remote_clients[j].assigned
                        /\ remote_clients'[j].session = remote_clients[j].session
  BY <1>1, <1>2
<1>4. known \subseteq Tokens
  BY DEF TypeOK
<1>5. QueueInv'
  BY <1>1, <1>3, <1>4, QueueKept DEF OrderInv
<1>6. ClaimInv'
  BY <1>1, <1>3, <1>4, ClaimKept DEF OrderInv, Claimed
<1>7. ReadyInv'
  <2>1. SUFFICES ASSUME NEW d \in Daemons, Ready(d)'
                 PROVE remote_clients'[daemon[d].object].session = None
    BY <1>1 DEF ReadyInv
  <2>2. CASE daemon[d].object = k
    BY <1>2, <2>2
  <2>3. CASE daemon[d].object # k
    <3>1. Ready(d)
      BY <1>1, <2>1, <2>3, EmitHas DEF Subscribed, Ready, Signal
    <3>2. daemon[d].object \in Tokens
      BY <3>1 DEF PeerInv, ProcessInv, Ready, Has
    <3>3. QED
      BY <1>3, <3>1, <3>2 DEF OrderInv, ReadyInv
  <2>4. QED
    BY <2>2, <2>3
<1>8. ListedInv'
  BY <1>1 DEF OrderInv, ListedInv, TypeOK
<1>9. QED
  BY <1>5, <1>6, <1>7, <1>8 DEF OrderInv

(* While tokens are kept, only a token nobody holds is registered.         *)
LEMMA NewIsFresh ==
    ASSUME TypeOK, TokensKept, NEW c \in Clients, conn[c] = "connecting", NEW k \in Identities(c)
    PROVE  (\A d \in Daemons : k # daemon[d].object) /\ (\A b \in Clients : k # token[b])
<1>1. k \in FreshTokens
  BY DEF Identities, TokensKept, Calls
<1>2. k \notin {token[b] : b \in Clients} /\ k \notin {daemon[d].object : d \in Daemons}
  BY <1>1 DEF FreshTokens
<1>3. QED
  BY <1>2

(* IncomingNew keeps OrderInv: the new client is queued, and its token is  *)
(* no daemon's object.                                                     *)
LEMMA NewKeepsOrder ==
    ASSUME TypeOK, PeerInv, OrderInv, TokensKept, NEW c \in Clients, NEW k \in Tokens,
           NEW accepted \in BOOLEAN, NEW gone \in SUBSET Tokens, NewOutcome(c, k, accepted, gone)
    PROVE  OrderInv'
<1>1. /\ conn[c] = "connecting" /\ k \in Identities(c) /\ k \notin known
      /\ known' = (known \cup {k}) \ gone
      /\ \A j \in Tokens \ {k} :
            remote_clients'[j] = IF j \in gone THEN Blank ELSE remote_clients[j]
      /\ k \notin gone => ~remote_clients'[k].assigned
      /\ accepted => conn'[c] = "session"
      /\ \A b \in Clients \ {c} :
            conn'[b] = conn[b] \/ (conn'[b] = "away" /\ conn[b] = "parked")
      /\ (accepted => listed' = c) /\ (~accepted => listed' = listed)
      /\ UNCHANGED <<daemon, inbox>>
  BY DEF NewOutcome
<1>2. \A d \in Daemons : k # daemon[d].object
  BY <1>1, NewIsFresh
<1>3. known \subseteq Tokens
  BY DEF TypeOK
<1>4. QueueInv'
  <2>1. k \notin ToSet(pending_clients) /\ NoDuplicates(pending_clients)
    BY <1>1 DEF OrderInv, QueueInv
  <2>2. /\ NoDuplicates(pending_clients')
        /\ ToSet(pending_clients') = (ToSet(pending_clients) \cup {k}) \ gone
    BY <2>1 DEF NewOutcome
  <2>3. ASSUME NEW j \in Tokens
        PROVE  j \in ToSet(pending_clients') <=> j \in known' /\ ~remote_clients'[j].assigned
    BY <1>1, <2>2 DEF OrderInv, QueueInv
  <2>4. ToSet(pending_clients') \subseteq Tokens /\ known' \subseteq Tokens
    BY <1>1, <1>3, <2>2 DEF OrderInv, QueueInv
  <2>5. QED
    BY <2>2, <2>3, <2>4 DEF QueueInv
<1>5. ClaimInv'
  <2>1. ASSUME NEW d \in Daemons, Claimed(d)'
        PROVE  Claimed(d) /\ remote_clients'[daemon[d].object] = remote_clients[daemon[d].object]
    BY <1>1, <1>2, <1>3, <2>1 DEF Claimed
  <2>2. QED
    BY <1>1, <2>1, ClaimKept DEF OrderInv
<1>6. ReadyInv'
  <2>1. ASSUME NEW d \in Daemons, Ready(d)' PROVE remote_clients'[daemon[d].object].session = None
    <3>1. Ready(d) /\ daemon[d].object \in Tokens
      BY <1>1, <2>1 DEF PeerInv, ProcessInv, Ready, Has
    <3>2. QED
      BY <1>1, <1>2, <3>1, BlankFields DEF OrderInv, ReadyInv
  <2>2. QED
    BY <1>1, <2>1 DEF ReadyInv
<1>7. ListedInv'
  <2>1. CASE accepted
    BY <1>1, <2>1 DEF ListedInv
  <2>2. CASE ~accepted
    BY <1>1, <2>2 DEF OrderInv, ListedInv, TypeOK
  <2>3. QED
    BY <2>1, <2>2
<1>8. QED
  BY <1>4, <1>5, <1>6, <1>7 DEF OrderInv

(* ClientLeaves keeps OrderInv.                                            *)
LEMMA LeavesKeepsOrder ==
    ASSUME TypeOK, PeerInv, OrderInv, NEW c \in Clients, ClientLeaves(c) PROVE OrderInv'
<1>1. /\ \A k \in Tokens :
            /\ remote_clients'[k].session = Severed(remote_clients[k].session, c)
            /\ remote_clients'[k].handover_count = remote_clients[k].handover_count
            /\ remote_clients'[k].assigned = remote_clients[k].assigned
      /\ \A d \in Daemons :
            /\ daemon'[d].pc = daemon[d].pc /\ daemon'[d].object = daemon[d].object
            /\ daemon'[d].active_session = Severed(daemon[d].active_session, c)
      /\ \A b \in Clients \ {c} : conn'[b] = conn[b]
      /\ listed' = IF listed = c THEN None ELSE listed
      /\ UNCHANGED <<known, pending_clients, inbox>>
  BY LeavesEffect
<1>2. Severed(None, c) = None
  BY NoneIsNoClient DEF Severed
<1>3. known \subseteq Tokens
  BY DEF TypeOK
<1>4. QueueInv'
  BY <1>1, <1>3, QueueKept DEF OrderInv
<1>5. ClaimInv'
  BY <1>1, <1>2, <1>3, ClaimKept DEF OrderInv, Claimed
<1>6. \A d \in Daemons : Ready(d)' => Ready(d)
  BY <1>1 DEF Ready, Has
<1>7. ReadyInv'
  BY <1>1, <1>2, <1>6, ReadyKept DEF OrderInv
<1>8. ListedInv'
  BY <1>1 DEF OrderInv, ListedInv, TypeOK
<1>9. QED
  BY <1>4, <1>5, <1>7, <1>8 DEF OrderInv

(* The table keeps its claims and its queue, and nobody is announced.      *)
LEMMA OrderKept ==
    ASSUME TypeOK, PeerInv, OrderInv, UNCHANGED <<known, pending_clients, listed>>,
           \A k \in Tokens : Kept(k) /\ remote_clients'[k].assigned = remote_clients[k].assigned,
           \A d \in Daemons : Claimed(d)' =>
              /\ daemon'[d].object = daemon[d].object
              /\ daemon'[d].pc \in {"requested", "subscribed"} =>
                    daemon[d].pc \in {"requested", "subscribed"}
              /\ daemon[d].active_session = None => daemon'[d].active_session = None,
           \A d \in Daemons : Ready(d)' => Ready(d) /\ daemon'[d].object = daemon[d].object,
           \A c \in Clients : conn[c] = "session" => conn'[c] = "session"
    PROVE  OrderInv'
<1>1. known \subseteq Tokens
  BY DEF TypeOK
<1>2. QueueInv'
  BY <1>1, QueueKept DEF OrderInv
<1>3. ClaimInv'
  BY <1>1, ClaimKept DEF OrderInv, Claimed, Kept
<1>4. ReadyInv'
  BY ReadyKept DEF OrderInv, Kept
<1>5. ListedInv'
  BY DEF OrderInv, ListedInv, TypeOK
<1>6. QED
  BY <1>2, <1>3, <1>4, <1>5 DEF OrderInv
-----------------------------------------------------------------------------
(* OrderInv is kept by the handover daemons.                               *)

(* Launch keeps OrderInv.                                                  *)
LEMMA LaunchKeepsOrder ==
    ASSUME TypeOK, PeerInv, OrderInv, NEW d \in Daemons, Launch(d) PROVE OrderInv'
<1>1. /\ daemon[d] = Stopped /\ daemon'[d].object = None
      /\ \A e \in Daemons \ {d} : daemon'[e] = daemon[e]
      /\ UNCHANGED <<known, remote_clients, pending_clients, listed, inbox, conn>>
  BY LaunchEffect
<1>2. inbox[d] = <<>>
  BY <1>1, StoppedFields DEF PeerInv, ProcessInv
<1>3. ~Claimed(d)'
  BY <1>1, NoneIsNoClient DEF Claimed, TypeOK
<1>4. \A e \in Daemons : Ready(e)' => Ready(e) /\ daemon'[e].object = daemon[e].object
  BY <1>1, <1>2 DEF Ready, Has
<1>5. QED
  BY <1>1, <1>3, <1>4, OrderKept DEF Kept

(* Subscribe keeps OrderInv.                                               *)
LEMMA SubscribeKeepsOrder ==
    ASSUME TypeOK, PeerInv, OrderInv, NEW d \in Daemons, Subscribe(d) PROVE OrderInv'
<1>1. /\ daemon[d].pc = "requested"
      /\ \A e \in Daemons \ {d} : daemon'[e] = daemon[e]
      /\ UNCHANGED <<known, remote_clients, pending_clients, listed, inbox, conn>>
  BY SubscribeEffect
<1>2. /\ daemon'[d].object = daemon[d].object
      /\ daemon'[d].active_session = daemon[d].active_session
  BY SubscribeEffect DEF TypeOK
<1>3. \A e \in Daemons : Ready(e)' => Ready(e) /\ daemon'[e].object = daemon[e].object
  BY <1>1, <1>2 DEF Ready, Has
<1>4. QED
  BY <1>1, <1>2, <1>3, OrderKept DEF Kept

(* RequestHandover keeps OrderInv: the client handed out leaves the queue  *)
(* and no daemon that has its object awaits its first TakeClient.          *)
LEMMA RequestKeepsOrder ==
    ASSUME TypeOK, PeerInv, OrderInv, NEW d \in Daemons, NEW k \in Tokens \cup {None},
           RequestOutcome(d, k)
    PROVE  OrderInv'
<1> DEFINE stale == Stale(remote_clients)
<1>1. /\ daemon[d].pc = "launched" /\ known' = known \ stale
      /\ \A j \in Tokens \ {k} : remote_clients'[j] = IF j \in stale THEN Blank
           ELSE remote_clients[j]
      /\ \A b \in Clients : conn'[b] = conn[b] \/ (conn'[b] = "away" /\ conn[b] = "parked")
      /\ UNCHANGED listed
  BY DEF RequestOutcome
<1>2. NoDuplicates(pending_clients)
  BY DEF OrderInv, QueueInv
<1>3. /\ NoDuplicates(pending_clients')
      /\ ToSet(pending_clients') = (ToSet(pending_clients) \ stale) \ {k}
      /\ k # None => k \in ToSet(pending_clients) \ stale
  BY <1>2 DEF RequestOutcome
<1>4. k # None =>
         /\ k \in known /\ k \in Tokens /\ k \notin stale /\ ~remote_clients[k].assigned
         /\ remote_clients'[k].assigned
         /\ remote_clients'[k].handover_count = remote_clients[k].handover_count
         /\ remote_clients'[k].session = remote_clients[k].session
  <2>1. SUFFICES ASSUME k # None
                 PROVE  /\ k \in known /\ k \in Tokens /\ k \notin stale
                             /\ ~remote_clients[k].assigned
                        /\ remote_clients'[k].assigned
                        /\ remote_clients'[k].handover_count = remote_clients[k].handover_count
                        /\ remote_clients'[k].session = remote_clients[k].session
    OBVIOUS
  <2>2. k \in known /\ k \in Tokens /\ k \notin stale /\ ~remote_clients[k].assigned
    BY <1>3, <2>1 DEF OrderInv, QueueInv
  <2>3. remote_clients'[k] =
           [(IF k \in stale THEN Blank
             ELSE remote_clients[k]) EXCEPT !.assigned = TRUE, !.stale = FALSE]
    BY <2>1 DEF RequestOutcome
  <2>4. remote_clients'[k] = [remote_clients[k] EXCEPT !.assigned = TRUE, !.stale = FALSE]
    BY <2>2, <2>3
  <2>5. QED
    BY <2>2, <2>4 DEF TypeOK, RemoteClient
<1>5. known \subseteq Tokens
  BY DEF TypeOK
<1> HIDE DEF stale
<1>6. QueueInv'
  <2>1. ASSUME NEW j \in Tokens
        PROVE  j \in ToSet(pending_clients') <=> j \in known' /\ ~remote_clients'[j].assigned
    <3>1. CASE j = k
      BY <1>3, <1>4, <3>1, NoneIsNoClient
    <3>2. CASE j # k
      BY <1>1, <1>3, <3>2 DEF OrderInv, QueueInv
    <3>3. QED
      BY <3>1, <3>2
  <2>2. ToSet(pending_clients') \subseteq Tokens /\ known' \subseteq Tokens
    BY <1>1, <1>3, <1>5 DEF OrderInv, QueueInv
  <2>3. QED
    BY <1>3, <2>1, <2>2 DEF QueueInv
<1>7. \A j \in known' : /\ j \in known /\ j \in Tokens
                        /\ remote_clients'[j].handover_count = remote_clients[j].handover_count
                        /\ remote_clients[j].assigned => remote_clients'[j].assigned
  BY <1>1, <1>4, <1>5, NoneIsNoClient
<1>8. \A j \in Tokens : remote_clients[j].session = None => remote_clients'[j].session = None
  BY <1>1, <1>4, BlankFields, NoneIsNoClient
<1>9. ListedInv'
  BY <1>1 DEF OrderInv, ListedInv, TypeOK
<1>10. inbox[d] = <<>> /\ daemon[d].active_session = None
  BY <1>1 DEF PeerInv, ProcessInv
<1>11. CASE k = None
  <2>1. /\ daemon'[d] = Stopped /\ inbox'[d] = <<>>
        /\ \A e \in Daemons \ {d} : daemon'[e] = daemon[e] /\ inbox'[e] = inbox[e]
    BY <1>11, EndsEffect DEF RequestOutcome
  <2>2. ~Claimed(d)'
    BY <1>7, <2>1, StoppedFields, NoneIsNoClient DEF Claimed
  <2>3. ClaimInv'
    BY <1>7, <2>1, <2>2, ClaimKept DEF OrderInv, Claimed
  <2>4. \A e \in Daemons : Ready(e)' => Ready(e) /\ daemon'[e].object = daemon[e].object
    BY <2>1 DEF Ready, Has
  <2>5. ReadyInv'
    BY <1>8, <2>4, ReadyKept DEF OrderInv
  <2>6. QED
    BY <1>6, <1>9, <2>3, <2>5 DEF OrderInv
<1>12. CASE k # None
  <2>1. (\A e \in Daemons \ {d} : daemon'[e] = daemon[e]) /\ UNCHANGED inbox
    BY <1>12 DEF RequestOutcome
  <2>2. /\ daemon'[d].pc = "requested" /\ daemon'[d].object = k
        /\ daemon'[d].active_session = None
    <3>1. daemon'[d] = [daemon[d] EXCEPT !.pc = "requested", !.object = k]
      BY <1>12 DEF RequestOutcome
    <3>2. QED
      BY <1>10, <3>1 DEF TypeOK
  <2>3. ASSUME NEW e \in Daemons, First(e)', e # d PROVE First(e) /\ daemon[e].object # k
    <3>1. First(e)
      BY <1>7, <2>1, <2>3 DEF First, Claimed
    <3>2. QED
      BY <1>4, <1>12, <3>1 DEF OrderInv, ClaimInv
  <2>4. ClaimInv'
    <3>1. \A e \in Daemons : First(e)' => remote_clients'[daemon'[e].object].assigned
      <4>1. \A e \in Daemons : First(e)' /\ e # d => remote_clients[daemon[e].object].assigned
        BY <2>3 DEF OrderInv, ClaimInv
      <4>2. \A e \in Daemons : First(e)' => daemon'[e].object \in known'
        BY DEF First, Claimed
      <4>3. QED
        BY <1>4, <1>7, <1>12, <2>1, <2>2, <4>1, <4>2
    <3>2. \A a, e \in Daemons : First(a)' /\ daemon'[e].object = daemon'[a].object => e = a
      <4>1. SUFFICES ASSUME NEW a \in Daemons, NEW e \in Daemons, First(a)', e # a,
                            daemon'[e].object = daemon'[a].object
                     PROVE  FALSE
        OBVIOUS
      <4>2. First(e)'
        BY <4>1 DEF First, Claimed
      <4>3. a # d /\ e # d
        BY <2>1, <2>2, <2>3, <4>1, <4>2
      <4>4. QED
        BY <2>1, <2>3, <4>1, <4>3 DEF OrderInv, ClaimInv
    <3>3. \A e \in Daemons : Claimed(e)' /\ daemon'[e].pc \in {"requested", "subscribed"} =>
             remote_clients'[daemon'[e].object].assigned
      <4>1. \A e \in Daemons : Claimed(e)' => daemon'[e].object \in known'
        BY DEF Claimed
      <4>2. \A e \in Daemons \ {d} : Claimed(e)' => Claimed(e)
        BY <1>7, <2>1 DEF Claimed
      <4>3. QED
        BY <1>4, <1>7, <1>12, <2>1, <2>2, <4>1, <4>2 DEF OrderInv, ClaimInv
    <3>4. \A e \in Daemons : First(e)' => daemon'[e].active_session = None
      BY <2>1, <2>2, <2>3 DEF OrderInv, ClaimInv
    <3>5. QED
      BY <3>1, <3>2, <3>3, <3>4 DEF ClaimInv
  <2>5. \A e \in Daemons : Ready(e)' => Ready(e) /\ daemon'[e].object = daemon[e].object
    BY <1>10, <2>1 DEF Ready, Has
  <2>6. ReadyInv'
    BY <1>8, <2>5, ReadyKept DEF OrderInv
  <2>7. QED
    BY <1>6, <1>9, <2>4, <2>6 DEF OrderInv
<1>13. QED
  BY <1>11, <1>12

(* StartHandover keeps OrderInv: the session it ends is forgotten by the   *)
(* listener.                                                               *)
LEMMA StartKeepsOrder ==
    ASSUME TypeOK, PeerInv, OrderInv, NEW d \in Daemons, NEW k, StartOutcome(d, k) PROVE OrderInv'
<1>1. /\ k = daemon[d].object /\ daemon[d].pc = "subscribed" /\ k \in known /\ k \in Tokens
      /\ \A e \in Daemons \ {d} : daemon'[e] = daemon[e]
      /\ \A j \in Tokens \ {k} : remote_clients'[j] = remote_clients[j]
      /\ UNCHANGED <<known, pending_clients>>
  BY DEF StartOutcome
<1>2. /\ daemon'[d].pc = "running" /\ daemon'[d].object = daemon[d].object
      /\ daemon'[d].active_session = daemon[d].active_session
  <2>1. daemon'[d] = [daemon[d] EXCEPT !.pc = "running"]
    BY DEF StartOutcome
  <2>2. QED
    BY <2>1 DEF TypeOK
<1>3. remote_clients[k].assigned
  BY <1>1 DEF OrderInv, ClaimInv, Claimed
<1>4. /\ remote_clients'[k].assigned = remote_clients[k].assigned
      /\ remote_clients'[k].handover_count = remote_clients[k].handover_count
      /\ remote_clients'[k].session = None
  <2>1. remote_clients[k] \in RemoteClient
    BY <1>1 DEF TypeOK
  <2>2. CASE remote_clients[k].session # None
    <3>1. remote_clients'[k] =
             [remote_clients[k] EXCEPT !.session = None, !.connection = None,
                                       !.assigned = TRUE, !.stale = FALSE]
      BY <2>2 DEF StartOutcome
    <3>2. remote_clients[k].assigned = TRUE
      BY <1>3, <2>1 DEF RemoteClient
    <3>3. QED
      BY <2>1, <3>1, <3>2 DEF RemoteClient
  <2>3. CASE remote_clients[k].session = None
    <3>1. remote_clients'[k] = [remote_clients[k] EXCEPT !.stale = FALSE]
      BY <2>3 DEF StartOutcome
    <3>2. QED
      BY <2>1, <2>3, <3>1 DEF RemoteClient
  <2>4. QED
    BY <2>2, <2>3
<1>5. \A j \in Tokens : /\ remote_clients'[j].assigned = remote_clients[j].assigned
                        /\ remote_clients'[j].handover_count = remote_clients[j].handover_count
                        /\ remote_clients[j].session = None => remote_clients'[j].session = None
  BY <1>1, <1>4
<1>6. known \subseteq Tokens
  BY DEF TypeOK
<1>7. QueueInv'
  BY <1>1, <1>5, <1>6, QueueKept DEF OrderInv
<1>8. ClaimInv'
  BY <1>1, <1>2, <1>5, <1>6, ClaimKept DEF OrderInv, Claimed
<1>9. \A e \in Daemons : Ready(e)' => Ready(e)
  <2>1. CASE remote_clients[k].session # None
    BY <2>1 DEF StartOutcome, Ready, Has
  <2>2. CASE remote_clients[k].session = None
    <3>1. Emit(k, [kind |-> "redirect-client", by |-> d])
      BY <2>2 DEF StartOutcome
    <3>2. QED
      BY <3>1, EmitHas DEF Ready, Signal
  <2>3. QED
    BY <2>1, <2>2
<1>10. ReadyInv'
  BY <1>1, <1>2, <1>5, <1>9, ReadyKept DEF OrderInv
<1>11. ListedInv'
  <2>1. CASE remote_clients[k].session # None
    <3>1. /\ RedirectOutcome(remote_clients[k].session, k)
          /\ listed' = IF remote_clients[k].session = listed THEN None ELSE listed
      BY <2>1 DEF StartOutcome
    <3>2. \A b \in Clients \ {remote_clients[k].session} : conn'[b] = conn[b]
      BY <3>1 DEF RedirectOutcome
    <3>3. QED
      BY <3>1, <3>2 DEF OrderInv, ListedInv, TypeOK
  <2>2. CASE remote_clients[k].session = None
    <3>1. UNCHANGED <<listed, conn>>
      BY <2>2 DEF StartOutcome
    <3>2. QED
      BY <3>1 DEF OrderInv, ListedInv
  <2>3. QED
    BY <2>1, <2>2
<1>12. QED
  BY <1>7, <1>8, <1>10, <1>11 DEF OrderInv

(* A process is gone; nothing it claimed is claimed anew.                  *)
LEMMA EndsKeepsOrder ==
    ASSUME TypeOK, PeerInv, OrderInv, UNCHANGED <<known, pending_clients, listed>>,
           \A k \in Tokens : Kept(k) /\ remote_clients'[k].assigned = remote_clients[k].assigned,
           NEW d \in Daemons, daemon'[d] = Stopped, inbox'[d] = <<>>,
           \A e \in Daemons \ {d} : daemon'[e] = daemon[e] /\ inbox'[e] = inbox[e],
           \A c \in Clients : conn[c] = "session" => conn'[c] = "session"
    PROVE  OrderInv'
<1>1. ~Claimed(d)'
  BY StoppedFields, NoneIsNoClient DEF Claimed, TypeOK
<1>2. \A e \in Daemons : Ready(e)' => Ready(e) /\ daemon'[e].object = daemon[e].object
  BY DEF Ready, Has
<1>3. QED
  BY <1>1, <1>2, OrderKept

(* StartHandoverFails keeps OrderInv.                                      *)
LEMMA StartFailsKeepsOrder ==
    ASSUME TypeOK, PeerInv, OrderInv, NEW d \in Daemons, StartHandoverFails(d) PROVE OrderInv'
<1>1. UNCHANGED <<known, pending_clients, listed, conn>> /\ Ends(d)
  BY DEF StartHandoverFails
<1>2. \A j \in Tokens : Kept(j) /\ remote_clients'[j].assigned = remote_clients[j].assigned
  BY RenewedEffect, RenewedKept DEF StartHandoverFails
<1>3. QED
  BY <1>1, <1>2, EndsEffect, EndsKeepsOrder

(* TakeClient keeps OrderInv: after the first one the client is queued     *)
(* again and its claim given up, after a later one neither.                *)
LEMMA TakeKeepsOrder ==
    ASSUME TypeOK, PeerInv, OrderInv, NEW d \in Daemons, NEW k, NEW c, NEW adopted \in BOOLEAN,
           NEW gone \in SUBSET Tokens, TakeOutcome(d, k, c, adopted, gone)
    PROVE  OrderInv'
<1>1. /\ k = daemon[d].object /\ daemon[d].pc = "running" /\ k \in Tokens /\ k \in known
      /\ inbox[d] # <<>> /\ inbox[d][1].kind = "take-client-ready"
      /\ c = remote_clients[k].connection /\ c \in Clients \cup {Dead}
      /\ known' = known \ gone
      /\ \A j \in Tokens \ {k} :
            remote_clients'[j] = IF j \in gone THEN Blank ELSE remote_clients[j]
      /\ remote_clients[k].handover_count # 0 => gone = {} /\ UNCHANGED pending_clients
      /\ k \in gone => remote_clients'[k] = Blank
      /\ k \notin gone =>
            /\ remote_clients'[k].session = None /\ remote_clients'[k].handover_count # 0
            /\ remote_clients'[k].assigned
                  = (remote_clients[k].assigned /\ remote_clients[k].handover_count # 0)
      /\ \A b \in Clients \ {c} : conn'[b] = conn[b] \/ (conn'[b] = "away" /\ conn[b] = "parked")
      /\ \A e \in Daemons \ {d} : daemon'[e] = daemon[e]
      /\ inbox'[d] = Tail(inbox[d]) /\ \A e \in Daemons \ {d} : inbox'[e] = inbox[e]
      /\ UNCHANGED listed
  BY DEF TakeOutcome
<1>2. /\ daemon'[d].pc = daemon[d].pc /\ daemon'[d].object = daemon[d].object
  <2>1. daemon'[d] = IF adopted THEN [daemon[d] EXCEPT !.active_session = c] ELSE daemon[d]
    BY DEF TakeOutcome
  <2>2. QED
    BY <2>1 DEF TypeOK
<1>3. known \subseteq Tokens
  BY DEF TypeOK
<1>4. remote_clients[k].handover_count = 0 => First(d) /\ remote_clients[k].assigned
  BY <1>1 DEF OrderInv, ClaimInv, First, Claimed
<1>5. QueueInv'
  <2>1. CASE remote_clients[k].handover_count = 0
    <3>1. k \notin ToSet(pending_clients) /\ NoDuplicates(pending_clients)
      BY <1>4, <2>1 DEF OrderInv, QueueInv
    <3>2. /\ NoDuplicates(pending_clients')
          /\ ToSet(pending_clients') = (ToSet(pending_clients) \cup {k}) \ gone
      BY <2>1, <3>1 DEF TakeOutcome
    <3>3. ASSUME NEW j \in Tokens
          PROVE  j \in ToSet(pending_clients') <=> j \in known' /\ ~remote_clients'[j].assigned
      BY <1>1, <2>1, <3>2 DEF OrderInv, QueueInv
    <3>4. ToSet(pending_clients') \subseteq Tokens /\ known' \subseteq Tokens
      BY <1>1, <1>3, <3>2 DEF OrderInv, QueueInv
    <3>5. QED
      BY <3>2, <3>3, <3>4 DEF QueueInv
  <2>2. CASE remote_clients[k].handover_count # 0
    <3>1. remote_clients[k].assigned \in BOOLEAN
      BY <1>1 DEF TypeOK, RemoteClient
    <3>2. \A j \in known : remote_clients'[j].assigned = remote_clients[j].assigned
      BY <1>1, <1>3, <2>2, <3>1
    <3>3. QED
      BY <1>1, <2>2, <3>2, QueueKept DEF OrderInv
  <2>3. QED
    BY <2>1, <2>2
<1>6. ASSUME NEW e \in Daemons, First(e)'
      PROVE  /\ First(e) /\ e # d /\ daemon[e].object # k
             /\ remote_clients'[daemon[e].object] = remote_clients[daemon[e].object]
  <2>1. daemon'[e].object = daemon[e].object
    BY <1>1, <1>2
  <2>2. daemon[e].object \in known' /\ remote_clients'[daemon[e].object].handover_count = 0
    BY <1>6, <2>1 DEF First, Claimed
  <2>3. daemon[e].object # k
    BY <1>1, <2>2
  <2>4. QED
    BY <1>1, <1>3, <2>2, <2>3 DEF First, Claimed
<1>7. ClaimInv'
  <2>1. \A e \in Daemons : First(e)' => remote_clients'[daemon'[e].object].assigned
    BY <1>1, <1>6 DEF OrderInv, ClaimInv
  <2>2. \A a, e \in Daemons : First(a)' /\ daemon'[e].object = daemon'[a].object => e = a
    BY <1>1, <1>2, <1>6 DEF OrderInv, ClaimInv
  <2>3. ASSUME NEW e \in Daemons, Claimed(e)', daemon'[e].pc \in {"requested", "subscribed"}
        PROVE  remote_clients'[daemon'[e].object].assigned
    <3>1. e # d
      BY <1>1, <1>2, <2>3
    <3>2. daemon[e].object \in known /\ daemon[e].object \notin gone
      BY <1>1, <2>3, <3>1 DEF Claimed
    <3>3. remote_clients[daemon[e].object].assigned
      BY <1>1, <2>3, <3>1, <3>2 DEF OrderInv, ClaimInv, Claimed
    <3>4. CASE daemon[e].object = k
      <4>1. remote_clients[k].handover_count # 0
        <5>1. First(d) => e = d
          BY <1>1, <3>4 DEF OrderInv, ClaimInv
        <5>2. QED
          BY <1>4, <3>1, <5>1
      <4>2. QED
        <5>1. remote_clients[k].assigned /\ k \notin gone
          BY <3>2, <3>3, <3>4
        <5>2. remote_clients'[k].assigned
                 = (remote_clients[k].assigned /\ remote_clients[k].handover_count # 0)
          BY <1>1, <5>1
        <5>3. daemon'[e] = daemon[e]
          BY <1>1, <3>1
        <5>4. QED
          BY <3>4, <4>1, <5>1, <5>2, <5>3
    <3>5. CASE daemon[e].object # k
      BY <1>1, <1>3, <3>1, <3>2, <3>3, <3>5
    <3>6. QED
      BY <3>4, <3>5
  <2>4. \A e \in Daemons : First(e)' => daemon'[e].active_session = None
    BY <1>1, <1>6 DEF OrderInv, ClaimInv
  <2>5. QED
    BY <2>1, <2>2, <2>3, <2>4 DEF ClaimInv
<1>8. \A e \in Daemons : Ready(e)' => Ready(e)
  BY <1>1, TailHas, SameHas DEF Ready
<1>9. \A j \in Tokens : remote_clients[j].session = None => remote_clients'[j].session = None
  BY <1>1, BlankFields
<1>10. ReadyInv'
  BY <1>1, <1>2, <1>8, <1>9, ReadyKept DEF OrderInv
<1>11. ListedInv'
  <2>1. remote_clients[k].session = None
    BY <1>1, HeadHas DEF OrderInv, ReadyInv, Ready
  <2>2. c \in Clients => conn[c] = "parked"
    BY <1>1, <2>1, NoneIsNoClient DEF PeerInv, HeldInv
  <2>3. QED
    BY <1>1, <2>2 DEF OrderInv, ListedInv, TypeOK
<1>12. QED
  BY <1>5, <1>7, <1>10, <1>11 DEF OrderInv

(* A daemon has dropped a signal.                                          *)
LEMMA TailKeepsOrder ==
    ASSUME TypeOK, PeerInv, OrderInv, UNCHANGED <<known, pending_clients, listed, daemon, conn>>,
           \A k \in Tokens : Kept(k) /\ remote_clients'[k].assigned = remote_clients[k].assigned,
           NEW d \in Daemons, inbox[d] # <<>>, inbox'[d] = Tail(inbox[d]),
           \A e \in Daemons \ {d} : inbox'[e] = inbox[e]
    PROVE  OrderInv'
<1>1. \A e \in Daemons : Ready(e)' => Ready(e)
  BY TailHas, SameHas DEF Ready
<1>2. QED
  BY <1>1, OrderKept

(* TakeClientFails keeps OrderInv.                                         *)
LEMMA TakeFailsKeepsOrder ==
    ASSUME TypeOK, PeerInv, OrderInv, NEW d \in Daemons, TakeClientFails(d) PROVE OrderInv'
<1>1. /\ UNCHANGED <<known, pending_clients, listed, daemon, conn>> /\ inbox[d] # <<>>
      /\ inbox' = [inbox EXCEPT ![d] = Tail(@)]
  BY DEF TakeClientFails, Handles
<1>2. \A j \in Tokens : Kept(j) /\ remote_clients'[j].assigned = remote_clients[j].assigned
  BY RenewedEffect, RenewedKept DEF TakeClientFails
<1>3. inbox'[d] = Tail(inbox[d]) /\ \A e \in Daemons \ {d} : inbox'[e] = inbox[e]
  BY <1>1, TailEffect
<1>4. QED
  BY <1>1, <1>2, <1>3, TailKeepsOrder

(* RedirectClient keeps OrderInv.                                          *)
LEMMA RedirectKeepsOrder ==
    ASSUME TypeOK, PeerInv, OrderInv, NEW d \in Daemons, RedirectClient(d) PROVE OrderInv'
<1>1. /\ inbox[d] # <<>> /\ (RedirectsOutcome(d) \/ IgnoresOutcome(d))
      /\ UNCHANGED <<known, remote_clients, pending_clients, listed>>
  BY RedirectEffect
<1>2. CASE RedirectsOutcome(d)
  <2>1. \A c \in Clients : conn[c] = "session" => conn'[c] = "session"
    BY <1>2 DEF RedirectsOutcome, RedirectOutcome, PeerInv, ServingInv
  <2>2. QED
    BY <1>1, <1>2, <2>1, EndsKeepsOrder DEF RedirectsOutcome, Kept
<1>3. CASE IgnoresOutcome(d)
  BY <1>1, <1>3, TailKeepsOrder DEF IgnoresOutcome, Kept
<1>4. QED
  BY <1>1, <1>2, <1>3

(* GoesStale keeps OrderInv.                                               *)
LEMMA StaleKeepsOrder ==
    ASSUME TypeOK, PeerInv, OrderInv, NEW k \in Tokens, GoesStale(k) PROVE OrderInv'
<1>1. UNCHANGED <<known, pending_clients, listed, daemon, inbox, conn>>
      /\ \A j \in Tokens : Kept(j) /\ remote_clients'[j].assigned = remote_clients[j].assigned
  BY StaleEffect, RenewedKept
<1>2. \A e \in Daemons : Ready(e)' => Ready(e)
  BY <1>1 DEF Ready, Has
<1>3. QED
  BY <1>1, <1>2, OrderKept

(* Every step keeps OrderInv while tokens are kept.                        *)
LEMMA StepKeepsOrder ==
    ASSUME TypeOK, PeerInv, OrderInv, TokensKept, [Next]_vars PROVE OrderInv'
<1>1. CASE UNCHANGED vars
  BY <1>1 DEF vars, OrderInv, QueueInv, ClaimInv, ReadyInv, ListedInv, First, Claimed, Ready, Has,
              NoDuplicates, ToSet
<1>2. ASSUME NEW c \in Clients, IncomingKnown(c) PROVE OrderInv'
  <2> DEFINE k == token[c]
  <2> HIDE DEF k
  <2>1. KnownOutcome(c, k) /\ k = token[c]
    BY <1>2, KnownEffect DEF k
  <2>2. QED
    BY <2>1, KnownKeepsOrder
<1>3. ASSUME NEW c \in Clients, IncomingNew(c) PROVE OrderInv'
  BY <1>3, NewEffect, NewKeepsOrder
<1>4. ASSUME NEW d \in Daemons, RequestHandover(d) PROVE OrderInv'
  BY <1>4, RequestEffect, RequestKeepsOrder
<1>5. ASSUME NEW d \in Daemons, StartHandover(d) PROVE OrderInv'
  BY <1>5, StartEffect, StartKeepsOrder
<1>6. ASSUME NEW d \in Daemons, TakeClient(d) PROVE OrderInv'
  BY <1>6, TakeEffect, TakeKeepsOrder
<1>7. QED
  BY <1>1, <1>2, <1>3, <1>4, <1>5, <1>6, ConnectsKeepsOrder, LeavesKeepsOrder, LaunchKeepsOrder,
     SubscribeKeepsOrder, StartFailsKeepsOrder, TakeFailsKeepsOrder, RedirectKeepsOrder,
     StaleKeepsOrder DEF Next, Incoming, DaemonStep
-----------------------------------------------------------------------------
(* Without reconnecting clients TokensKept follows from NoReturnInv: the   *)
(* record of a client that calls is claimed, and a claimed record is not   *)
(* removed.                                                                *)

(* A client that calls with a token calls for a claimed record.            *)
CallInv ==
    \A c \in Clients : Calls(c) => token[c] \in known /\ remote_clients[token[c]].assigned

(* A daemon is asked to redirect its client only while the record is       *)
(* claimed.                                                                *)
AskedInv ==
    \A d \in Daemons : Redirecting(d) => Claimed(d) /\ remote_clients[daemon[d].object].assigned

(* When the announced socket is dead, the client with that token is away.  *)
LostInv ==
    \A d \in Daemons :
        Ready(d) /\ remote_clients[daemon[d].object].connection = Dead =>
            \A c \in Clients : token[c] = daemon[d].object => conn[c] = "away"

(* Until the first TakeClient of a client, its daemon is not both asked to *)
(* redirect it and told of its socket; while the client calls, the daemon  *)
(* runs and is not asked to redirect it; before it runs, no signal waits   *)
(* for it.                                                                 *)
FirstInv ==
    \A d \in Daemons : First(d) =>
        /\ ~(Ready(d) /\ Redirecting(d))
        /\ \A c \in Clients : Calls(c) /\ token[c] = daemon[d].object =>
              daemon[d].pc = "running" /\ ~Redirecting(d)
        /\ daemon[d].pc # "running" => inbox[d] = <<>>

(* What holds while no client returns with a token it had.                 *)
NoReturnInv == CallInv /\ AskedInv /\ LostInv /\ FirstInv

(* Nobody begins to call and no claim is given up: CallInv is kept.        *)
LEMMA CallKept ==
    ASSUME CallInv,
           \A c \in Clients : Calls(c)' => Calls(c) /\ token'[c] = token[c],
           \A k \in known : remote_clients[k].assigned
             => k \in known' /\ remote_clients'[k].assigned
    PROVE  CallInv'
BY DEF CallInv

(* No RedirectClient is sent and no claim is given up: AskedInv is kept.   *)
LEMMA AskedKept ==
    ASSUME AskedInv,
           \A d \in Daemons :
              Redirecting(d)' => Redirecting(d) /\ daemon'[d].object = daemon[d].object,
           \A k \in known : remote_clients[k].assigned
             => k \in known' /\ remote_clients'[k].assigned
    PROVE  AskedInv'
BY DEF AskedInv, Claimed

(* No TakeClientReady is sent, no client returns: LostInv is kept.         *)
LEMMA LostKept ==
    ASSUME TypeOK, PeerInv, LostInv,
           \A d \in Daemons : Ready(d)' => Ready(d) /\ daemon'[d].object = daemon[d].object,
           \A k \in Tokens : remote_clients'[k].connection = Dead
             => remote_clients[k].connection = Dead,
           \A c \in Clients : conn'[c] # "away" /\ token'[c] # None =>
              conn[c] # "away" /\ token'[c] = token[c]
    PROVE  LostInv'
<1>1. SUFFICES ASSUME NEW d \in Daemons, Ready(d)', NEW c \in Clients,
                      remote_clients'[daemon[d].object].connection = Dead,
                      token'[c] = daemon[d].object
               PROVE  conn'[c] = "away"
  BY DEF LostInv
<1>2. Ready(d) /\ daemon[d].object \in Tokens
  BY <1>1 DEF PeerInv, ProcessInv, Ready, Has
<1>3. token'[c] # None /\ remote_clients[daemon[d].object].connection = Dead
  BY <1>1, <1>2, NoneIsNoClient
<1>4. QED
  BY <1>1, <1>2, <1>3 DEF LostInv

(* Nobody calls, no signal is sent and no process runs on: FirstInv is     *)
(* kept.                                                                   *)
LEMMA FirstKept ==
    ASSUME FirstInv,
           \A c \in Clients : Calls(c)' => Calls(c) /\ token'[c] = token[c],
           \A d \in Daemons : First(d)' =>
              /\ First(d) /\ daemon'[d].object = daemon[d].object
              /\ daemon'[d].pc = "running" <=> daemon[d].pc = "running"
              /\ (Ready(d)' => Ready(d)) /\ (Redirecting(d)' => Redirecting(d))
              /\ daemon[d].pc # "running" => inbox'[d] = inbox[d]
    PROVE  FirstInv'
BY DEF FirstInv

(* A client that connects afresh has no token: NoReturnInv is kept.        *)
LEMMA ConnectsKeepsCalls ==
    ASSUME TypeOK, PeerInv, NoReturnInv, "reconnect" \notin faults,
           NEW c \in Clients, ClientConnects(c)
    PROVE  NoReturnInv'
<1>1. /\ token'[c] = None
      /\ \A b \in Clients \ {c} : conn'[b] = conn[b] /\ token'[b] = token[b]
      /\ UNCHANGED <<known, remote_clients, daemon, inbox>>
  BY ConnectsEffect
<1>2. \A b \in Clients : Calls(b)' => Calls(b) /\ token'[b] = token[b]
  BY <1>1 DEF Calls
<1>3. \A d \in Daemons : /\ (Ready(d)' <=> Ready(d)) /\ (Redirecting(d)' <=> Redirecting(d))
                         /\ (First(d)' <=> First(d))
  BY <1>1 DEF Ready, Redirecting, Has, First, Claimed
<1>4. CallInv' /\ AskedInv'
  BY <1>1, <1>2, <1>3, CallKept, AskedKept DEF NoReturnInv
<1>5. LostInv'
  BY <1>1, <1>3, LostKept DEF NoReturnInv
<1>6. FirstInv'
  BY <1>1, <1>2, <1>3, FirstKept DEF NoReturnInv
<1>7. QED
  BY <1>4, <1>5, <1>6 DEF NoReturnInv

(* IncomingKnown keeps NoReturnInv: the client that is announced called,   *)
(* so that its daemon was not asked to redirect it.                        *)
LEMMA KnownKeepsCalls ==
    ASSUME TypeOK, PeerInv, NoReturnInv, NEW c \in Clients, NEW k, k = token[c], KnownOutcome(c, k)
    PROVE  NoReturnInv'
<1>1. /\ conn[c] = "connecting" /\ k \in Tokens /\ k \in known
      /\ \A j \in Tokens \ {k} : remote_clients'[j] = remote_clients[j]
      /\ conn'[c] = "parked"
      /\ \A b \in Clients \ {c} :
            conn'[b] = conn[b] \/ (conn'[b] = "away" /\ conn[b] = "parked")
      /\ Emit(k, [kind |-> "take-client-ready", by |-> None])
      /\ UNCHANGED <<known, daemon, token>>
  BY DEF KnownOutcome
<1>2. /\ remote_clients'[k].connection = c
      /\ remote_clients'[k].handover_count = remote_clients[k].handover_count
      /\ remote_clients'[k].assigned = remote_clients[k].assigned
  <2>1. remote_clients'[k] = [remote_clients[k] EXCEPT !.connection = c, !.stale = FALSE]
    BY DEF KnownOutcome
  <2>2. QED
    BY <1>1, <2>1 DEF TypeOK, RemoteClient
<1>3. \A j \in Tokens : /\ remote_clients'[j].handover_count = remote_clients[j].handover_count
                        /\ remote_clients'[j].assigned = remote_clients[j].assigned
  BY <1>1, <1>2
<1>4. known \subseteq Tokens
  BY DEF TypeOK
<1>5. /\ \A d \in Daemons : Redirecting(d)' <=> Redirecting(d)
      /\ \A d \in Daemons : daemon[d].object # k => (Ready(d)' <=> Ready(d))
      /\ \A d \in Daemons : ~Subscribed(d, k) => inbox'[d] = inbox[d]
  <2>1. [kind |-> "take-client-ready", by |-> None] \in Signal
    BY DEF Signal
  <2>2. QED
    BY <1>1, <2>1, EmitHas DEF Redirecting, Ready, Subscribed
<1>6. \A b \in Clients : Calls(b)' => Calls(b) /\ token'[b] = token[b]
  BY <1>1 DEF Calls
<1>7. CallInv' /\ AskedInv'
  BY <1>1, <1>3, <1>4, <1>5, <1>6, CallKept, AskedKept DEF NoReturnInv
<1>8. LostInv'
  <2>1. SUFFICES ASSUME NEW d \in Daemons, Ready(d)', NEW b \in Clients,
                        remote_clients'[daemon[d].object].connection = Dead,
                        token[b] = daemon[d].object
                 PROVE  conn'[b] = "away"
    BY <1>1 DEF LostInv
  <2>2. daemon[d].object # k
    BY <1>2, <2>1, NoneIsNoClient
  <2>3. Ready(d) /\ daemon[d].object \in Tokens
    BY <1>5, <2>1, <2>2 DEF PeerInv, ProcessInv, Ready, Has
  <2>4. conn[b] = "away"
    BY <1>1, <2>1, <2>2, <2>3 DEF NoReturnInv, LostInv
  <2>5. QED
    BY <1>1, <2>4
<1>9. Calls(c)
  BY <1>1, NoneIsNoClient DEF Calls
<1>10. FirstInv'
  <2>1. SUFFICES ASSUME NEW d \in Daemons, First(d)'
                 PROVE  /\ ~(Ready(d)' /\ Redirecting(d)')
                        /\ \A b \in Clients : Calls(b)' /\ token'[b] = daemon'[d].object =>
                              daemon'[d].pc = "running" /\ ~Redirecting(d)'
                        /\ daemon'[d].pc # "running" => inbox'[d] = <<>>
    BY DEF FirstInv
  <2>2. First(d)
    BY <1>1, <1>3, <1>4, <2>1 DEF First, Claimed
  <2>3. \A b \in Clients : Calls(b)' /\ token'[b] = daemon'[d].object =>
           daemon'[d].pc = "running" /\ ~Redirecting(d)'
    BY <1>1, <1>5, <1>6, <2>2 DEF NoReturnInv, FirstInv
  <2>4. CASE daemon[d].object = k
    <3>1. daemon[d].pc = "running" /\ ~Redirecting(d)
      BY <1>9, <2>2, <2>4 DEF NoReturnInv, FirstInv
    <3>2. QED
      BY <1>1, <1>5, <2>3, <3>1
  <2>5. CASE daemon[d].object # k
    <3>1. ~Subscribed(d, k)
      BY <2>5 DEF Subscribed
    <3>2. QED
      BY <1>1, <1>5, <2>2, <2>3, <2>5, <3>1 DEF NoReturnInv, FirstInv
  <2>6. QED
    BY <2>4, <2>5
<1>11. QED
  BY <1>7, <1>8, <1>10 DEF NoReturnInv

(* A claimed record is not pruned.                                         *)
LEMMA AssignedNotStale ==
    ASSUME NEW k, remote_clients[k].assigned PROVE k \notin Stale(remote_clients)
BY DEF Stale

(* IncomingNew keeps NoReturnInv: it prunes no claimed record.             *)
LEMMA NewKeepsCalls ==
    ASSUME TypeOK, PeerInv, TokensKept, NoReturnInv, NEW c \in Clients, NEW k \in Tokens,
           NEW accepted \in BOOLEAN, NEW gone \in SUBSET Tokens, NewOutcome(c, k, accepted, gone)
    PROVE  NoReturnInv'
<1>1. /\ conn[c] = "connecting" /\ k \in Identities(c) /\ k \notin known
      /\ gone \subseteq Stale(remote_clients) \cup {k}
      /\ known' = (known \cup {k}) \ gone
      /\ \A j \in Tokens \ {k} :
            remote_clients'[j] = IF j \in gone THEN Blank ELSE remote_clients[j]
      /\ conn'[c] # "connecting"
      /\ \A b \in Clients \ {c} :
            conn'[b] = conn[b] \/ (conn'[b] = "away" /\ conn[b] = "parked")
      /\ UNCHANGED <<daemon, inbox, token>>
  BY DEF NewOutcome
<1>2. (\A d \in Daemons : k # daemon[d].object) /\ (\A b \in Clients : k # token[b])
  BY <1>1, NewIsFresh
<1>3. known \subseteq Tokens
  BY DEF TypeOK
<1>4. \A j \in known : remote_clients[j].assigned => j \in known' /\ remote_clients'[j].assigned
  BY <1>1, <1>3, AssignedNotStale
<1>5. \A b \in Clients : Calls(b)' => Calls(b) /\ token'[b] = token[b]
  BY <1>1 DEF Calls
<1>6. \A d \in Daemons : (Ready(d)' <=> Ready(d)) /\ (Redirecting(d)' <=> Redirecting(d))
  BY <1>1 DEF Ready, Redirecting, Has
<1>7. \A d \in Daemons : First(d)' => First(d)
  BY <1>1, <1>2, <1>3 DEF First, Claimed
<1>8. CallInv' /\ AskedInv'
  BY <1>1, <1>4, <1>5, <1>6, CallKept, AskedKept DEF NoReturnInv
<1>9. LostInv'
  <2>1. SUFFICES ASSUME NEW d \in Daemons, Ready(d), NEW b \in Clients,
                        remote_clients'[daemon[d].object].connection = Dead,
                        token[b] = daemon[d].object
                 PROVE  conn'[b] = "away"
    BY <1>1, <1>6 DEF LostInv
  <2>2. daemon[d].object \in Tokens
    BY <2>1 DEF PeerInv, ProcessInv, Ready, Has
  <2>3. remote_clients[daemon[d].object].connection = Dead
    BY <1>1, <1>2, <2>1, <2>2, BlankFields, NoneIsNoClient
  <2>4. conn[b] = "away"
    BY <2>1, <2>3 DEF NoReturnInv, LostInv
  <2>5. QED
    BY <1>1, <2>4
<1>10. FirstInv'
  BY <1>1, <1>5, <1>6, <1>7, FirstKept DEF NoReturnInv
<1>11. QED
  BY <1>8, <1>9, <1>10 DEF NoReturnInv

(* ClientLeaves keeps NoReturnInv.                                         *)
LEMMA LeavesKeepsCalls ==
    ASSUME TypeOK, PeerInv, NoReturnInv, NEW c \in Clients, ClientLeaves(c) PROVE NoReturnInv'
<1>1. /\ \A k \in Tokens :
            /\ remote_clients'[k].connection = Severed(remote_clients[k].connection, c)
            /\ remote_clients'[k].handover_count = remote_clients[k].handover_count
            /\ remote_clients'[k].assigned = remote_clients[k].assigned
      /\ \A d \in Daemons :
            daemon'[d].pc = daemon[d].pc /\ daemon'[d].object = daemon[d].object
      /\ conn'[c] = "away" /\ \A b \in Clients \ {c} : conn'[b] = conn[b]
      /\ UNCHANGED <<known, inbox, token>>
  BY LeavesEffect
<1>2. known \subseteq Tokens
  BY DEF TypeOK
<1>3. \A b \in Clients : Calls(b)' => Calls(b) /\ token'[b] = token[b]
  BY <1>1 DEF Calls
<1>4. \A d \in Daemons : (Ready(d)' <=> Ready(d)) /\ (Redirecting(d)' <=> Redirecting(d))
  BY <1>1 DEF Ready, Redirecting, Has
<1>5. \A d \in Daemons : First(d)' => First(d)
  BY <1>1, <1>2 DEF First, Claimed
<1>6. CallInv' /\ AskedInv'
  BY <1>1, <1>2, <1>3, <1>4, CallKept, AskedKept DEF NoReturnInv
<1>7. FirstInv'
  BY <1>1, <1>3, <1>4, <1>5, FirstKept DEF NoReturnInv
<1>8. LostInv'
  <2>1. SUFFICES ASSUME NEW d \in Daemons, Ready(d), NEW b \in Clients,
                        remote_clients'[daemon[d].object].connection = Dead,
                        token[b] = daemon[d].object
                 PROVE  conn'[b] = "away"
    BY <1>1, <1>4 DEF LostInv
  <2>2. daemon[d].object \in Tokens
    BY <2>1 DEF PeerInv, ProcessInv, Ready, Has
  <2>3. CASE remote_clients[daemon[d].object].connection = Dead
    BY <1>1, <2>1, <2>3 DEF NoReturnInv, LostInv
  <2>4. CASE remote_clients[daemon[d].object].connection # Dead
    <3>1. remote_clients[daemon[d].object].connection = c
      BY <1>1, <2>1, <2>2, <2>4 DEF Severed
    <3>2. token[c] = daemon[d].object
      BY <2>1, <3>1 DEF PeerInv, ParkedInv
    <3>3. b = c
      BY <2>1, <2>2, <3>2, NoneIsNoClient DEF PeerInv, TokenInv
    <3>4. QED
      BY <1>1, <3>3
  <2>5. QED
    BY <2>3, <2>4
<1>9. QED
  BY <1>6, <1>7, <1>8 DEF NoReturnInv

(* Launch keeps NoReturnInv.                                               *)
LEMMA LaunchKeepsCalls ==
    ASSUME TypeOK, PeerInv, NoReturnInv, NEW d \in Daemons, Launch(d) PROVE NoReturnInv'
<1>1. /\ daemon[d] = Stopped /\ daemon'[d].object = None
      /\ \A e \in Daemons \ {d} : daemon'[e] = daemon[e]
      /\ UNCHANGED <<known, remote_clients, inbox, conn, token>>
  BY LaunchEffect
<1>2. inbox[d] = <<>>
  BY <1>1, StoppedFields DEF PeerInv, ProcessInv
<1>3. ~First(d)'
  BY <1>1, NoneIsNoClient DEF First, Claimed, TypeOK
<1>4. \A b \in Clients : Calls(b)' => Calls(b) /\ token'[b] = token[b]
  BY <1>1 DEF Calls
<1>5. \A e \in Daemons : /\ Ready(e)' => Ready(e) /\ e # d
                         /\ Redirecting(e)' => Redirecting(e) /\ e # d
  BY <1>1, <1>2 DEF Ready, Redirecting, Has
<1>6. \A e \in Daemons : First(e)' => First(e) /\ e # d
  BY <1>1, <1>3 DEF First, Claimed
<1>7. CallInv' /\ AskedInv' /\ LostInv'
  BY <1>1, <1>4, <1>5, CallKept, AskedKept, LostKept DEF NoReturnInv
<1>8. FirstInv'
  BY <1>1, <1>4, <1>5, <1>6, FirstKept DEF NoReturnInv
<1>9. QED
  BY <1>7, <1>8 DEF NoReturnInv

(* Subscribe keeps NoReturnInv.                                            *)
LEMMA SubscribeKeepsCalls ==
    ASSUME TypeOK, PeerInv, NoReturnInv, NEW d \in Daemons, Subscribe(d) PROVE NoReturnInv'
<1>1. /\ daemon[d].pc = "requested"
      /\ \A e \in Daemons \ {d} : daemon'[e] = daemon[e]
      /\ UNCHANGED <<known, remote_clients, inbox, conn, token>>
  BY SubscribeEffect
<1>2. daemon'[d].object = daemon[d].object /\ daemon'[d].pc = "subscribed"
  BY SubscribeEffect DEF TypeOK
<1>3. \A b \in Clients : Calls(b)' => Calls(b) /\ token'[b] = token[b]
  BY <1>1 DEF Calls
<1>4. \A e \in Daemons : (Ready(e)' <=> Ready(e)) /\ (Redirecting(e)' <=> Redirecting(e))
  BY <1>1 DEF Ready, Redirecting, Has
<1>5. \A e \in Daemons : First(e)' => First(e)
  BY <1>1, <1>2 DEF First, Claimed
<1>6. CallInv' /\ AskedInv' /\ LostInv'
  BY <1>1, <1>2, <1>3, <1>4, CallKept, AskedKept, LostKept DEF NoReturnInv
<1>7. FirstInv'
  BY <1>1, <1>2, <1>3, <1>4, <1>5, FirstKept DEF NoReturnInv
<1>8. QED
  BY <1>6, <1>7 DEF NoReturnInv
-----------------------------------------------------------------------------
(* NoReturnInv is kept by the handover daemons.                            *)

(* A process is gone, and no client of its calls.                          *)
LEMMA EndsKeepsCalls ==
    ASSUME TypeOK, PeerInv, NoReturnInv, NEW d \in Daemons, daemon'[d] = Stopped, inbox'[d] = <<>>,
           \A e \in Daemons \ {d} : daemon'[e] = daemon[e] /\ inbox'[e] = inbox[e],
           known' \subseteq known,
           \A k \in known' : remote_clients'[k].handover_count = remote_clients[k].handover_count,
           \A k \in known :
              remote_clients[k].assigned => k \in known' /\ remote_clients'[k].assigned,
           \A k \in Tokens :
              remote_clients'[k].connection = Dead => remote_clients[k].connection = Dead,
           \A c \in Clients : conn'[c] = conn[c] \/ conn'[c] = "away",
           UNCHANGED token
    PROVE  NoReturnInv'
<1>1. ~First(d)'
  BY StoppedFields, NoneIsNoClient DEF First, Claimed, TypeOK
<1>2. \A b \in Clients : Calls(b)' => Calls(b) /\ token'[b] = token[b]
  BY DEF Calls
<1>3. \A e \in Daemons : /\ Ready(e)' => Ready(e) /\ e # d
                         /\ Redirecting(e)' => Redirecting(e) /\ e # d
  BY DEF Ready, Redirecting, Has
<1>4. \A e \in Daemons : First(e)' => First(e) /\ e # d
  BY <1>1 DEF First, Claimed
<1>5. CallInv' /\ AskedInv'
  BY <1>2, <1>3, CallKept, AskedKept DEF NoReturnInv
<1>6. LostInv'
  BY <1>3, LostKept DEF NoReturnInv
<1>7. FirstInv'
  BY <1>2, <1>3, <1>4, FirstKept DEF NoReturnInv
<1>8. QED
  BY <1>5, <1>6, <1>7 DEF NoReturnInv

(* RequestHandover keeps NoReturnInv: nobody calls for a client in the     *)
(* queue.                                                                  *)
LEMMA RequestKeepsCalls ==
    ASSUME TypeOK, PeerInv, OrderInv, NoReturnInv, NEW d \in Daemons, NEW k \in Tokens \cup {None},
           RequestOutcome(d, k)
    PROVE  NoReturnInv'
<1> DEFINE stale == Stale(remote_clients)
<1>1. /\ daemon[d].pc = "launched" /\ known' = known \ stale
      /\ \A j \in Tokens \ {k} : remote_clients'[j] = IF j \in stale THEN Blank
           ELSE remote_clients[j]
      /\ \A b \in Clients : conn'[b] = conn[b] \/ (conn'[b] = "away" /\ conn[b] = "parked")
      /\ UNCHANGED token
  BY DEF RequestOutcome
<1>2. NoDuplicates(pending_clients)
  BY DEF OrderInv, QueueInv
<1>3. k # None => k \in ToSet(pending_clients) \ stale
  BY <1>2 DEF RequestOutcome
<1>4. k # None =>
         /\ k \in known /\ k \in Tokens /\ k \notin stale /\ ~remote_clients[k].assigned
         /\ remote_clients'[k].assigned
         /\ remote_clients'[k].handover_count = remote_clients[k].handover_count
         /\ remote_clients'[k].connection = remote_clients[k].connection
  <2>1. SUFFICES ASSUME k # None
                 PROVE  /\ k \in known /\ k \in Tokens /\ k \notin stale
                             /\ ~remote_clients[k].assigned
                        /\ remote_clients'[k].assigned
                        /\ remote_clients'[k].handover_count = remote_clients[k].handover_count
                        /\ remote_clients'[k].connection = remote_clients[k].connection
    OBVIOUS
  <2>2. k \in known /\ k \in Tokens /\ k \notin stale /\ ~remote_clients[k].assigned
    BY <1>3, <2>1 DEF OrderInv, QueueInv
  <2>3. remote_clients'[k] =
           [(IF k \in stale THEN Blank
             ELSE remote_clients[k]) EXCEPT !.assigned = TRUE, !.stale = FALSE]
    BY <2>1 DEF RequestOutcome
  <2>4. remote_clients'[k] = [remote_clients[k] EXCEPT !.assigned = TRUE, !.stale = FALSE]
    BY <2>2, <2>3
  <2>5. QED
    BY <2>2, <2>4 DEF TypeOK, RemoteClient
<1>5. known \subseteq Tokens
  BY DEF TypeOK
<1>6. \A j \in known : remote_clients[j].assigned => j \notin stale
  BY AssignedNotStale
<1> HIDE DEF stale
<1>7. \A j \in known' : /\ j \in known /\ j \in Tokens
                        /\ remote_clients'[j].handover_count = remote_clients[j].handover_count
  BY <1>1, <1>4, <1>5, NoneIsNoClient
<1>8. \A j \in known : remote_clients[j].assigned => j \in known' /\ remote_clients'[j].assigned
  BY <1>1, <1>4, <1>5, <1>6, NoneIsNoClient
<1>9. \A j \in Tokens : remote_clients'[j].connection = Dead => remote_clients[j].connection = Dead
  BY <1>1, <1>4, BlankFields, NoneIsNoClient
<1>10. inbox[d] = <<>>
  BY <1>1 DEF PeerInv, ProcessInv
<1>11. CASE k = None
  <2>1. /\ daemon'[d] = Stopped /\ inbox'[d] = <<>>
        /\ \A e \in Daemons \ {d} : daemon'[e] = daemon[e] /\ inbox'[e] = inbox[e]
    BY <1>11, EndsEffect DEF RequestOutcome
  <2>2. QED
    BY <1>1, <1>7, <1>8, <1>9, <2>1, EndsKeepsCalls
<1>12. CASE k # None
  <2>1. (\A e \in Daemons \ {d} : daemon'[e] = daemon[e]) /\ UNCHANGED inbox
    BY <1>12 DEF RequestOutcome
  <2>2. daemon'[d].pc = "requested" /\ daemon'[d].object = k
    <3>1. daemon'[d] = [daemon[d] EXCEPT !.pc = "requested", !.object = k]
      BY <1>12 DEF RequestOutcome
    <3>2. QED
      BY <3>1 DEF TypeOK
  <2>3. \A b \in Clients : Calls(b)' => Calls(b) /\ token'[b] = token[b]
    BY <1>1 DEF Calls
  <2>4. \A e \in Daemons : /\ Ready(e)' => Ready(e) /\ e # d
                           /\ Redirecting(e)' => Redirecting(e) /\ e # d
    BY <1>10, <2>1 DEF Ready, Redirecting, Has
  <2>5. CallInv' /\ AskedInv'
    BY <1>8, <2>1, <2>3, <2>4, CallKept, AskedKept DEF NoReturnInv
  <2>6. LostInv'
    BY <1>1, <1>9, <2>1, <2>4, LostKept DEF NoReturnInv
  <2>7. FirstInv'
    <3>1. SUFFICES ASSUME NEW e \in Daemons, First(e)'
                   PROVE  /\ ~(Ready(e)' /\ Redirecting(e)')
                          /\ \A b \in Clients : Calls(b)' /\ token'[b] = daemon'[e].object =>
                                daemon'[e].pc = "running" /\ ~Redirecting(e)'
                          /\ daemon'[e].pc # "running" => inbox'[e] = <<>>
      BY DEF FirstInv
    <3>2. CASE e = d
      <4>1. \A b \in Clients : Calls(b) => token[b] # k
        BY <1>4, <1>12 DEF NoReturnInv, CallInv
      <4>2. QED
        BY <1>10, <2>1, <2>2, <2>3, <2>4, <3>2, <4>1
    <3>3. CASE e # d
      <4>1. First(e)
        BY <1>7, <2>1, <3>1, <3>3 DEF First, Claimed
      <4>2. QED
        BY <2>1, <2>3, <2>4, <3>3, <4>1 DEF NoReturnInv, FirstInv
    <3>4. QED
      BY <3>2, <3>3
  <2>8. QED
    BY <2>5, <2>6, <2>7 DEF NoReturnInv
<1>13. QED
  BY <1>11, <1>12

(* StartHandover keeps NoReturnInv: a client is redirected with the token  *)
(* of a claimed record, or the daemons are asked and nobody is.            *)
LEMMA StartKeepsCalls ==
    ASSUME TypeOK, PeerInv, OrderInv, NoReturnInv, NEW d \in Daemons, NEW k, StartOutcome(d, k)
    PROVE  NoReturnInv'
<1>1. /\ k = daemon[d].object /\ daemon[d].pc = "subscribed" /\ k \in known /\ k \in Tokens
      /\ \A e \in Daemons \ {d} : daemon'[e] = daemon[e]
      /\ \A j \in Tokens \ {k} : remote_clients'[j] = remote_clients[j]
      /\ UNCHANGED known
  BY DEF StartOutcome
<1>2. daemon'[d].pc = "running" /\ daemon'[d].object = daemon[d].object
  <2>1. daemon'[d] = [daemon[d] EXCEPT !.pc = "running"]
    BY DEF StartOutcome
  <2>2. QED
    BY <2>1 DEF TypeOK
<1>3. remote_clients[k].assigned
  BY <1>1 DEF OrderInv, ClaimInv, Claimed
<1>4. remote_clients[k] \in RemoteClient /\ known \subseteq Tokens
  BY <1>1 DEF TypeOK
<1>5. \A e \in Daemons : First(e) /\ daemon[e].object = k => e = d
  BY <1>1 DEF OrderInv, ClaimInv
<1>6. First(d) => inbox[d] = <<>>
  BY <1>1 DEF NoReturnInv, FirstInv
<1>7. CASE remote_clients[k].session # None
  <2> DEFINE c == remote_clients[k].session
  <2>1. RedirectOutcome(c, k) /\ UNCHANGED inbox
    BY <1>7 DEF StartOutcome
  <2>2. /\ remote_clients'[k].assigned /\ remote_clients'[k].connection = None
        /\ remote_clients'[k].handover_count = remote_clients[k].handover_count
    <3>1. remote_clients'[k] =
             [remote_clients[k] EXCEPT !.session = None, !.connection = None,
                                       !.assigned = TRUE, !.stale = FALSE]
      BY <1>7 DEF StartOutcome
    <3>2. QED
      BY <1>4, <3>1 DEF RemoteClient
  <2>3. First(d)
    BY <1>1, <1>7 DEF PeerInv, HeldInv, First, Claimed
  <2> HIDE DEF c
  <2>4. /\ \A b \in Clients \ {c} : conn'[b] = conn[b] /\ token'[b] = token[b]
        /\ c \in Clients => conn'[c] = "connecting" /\ token'[c] = k
    BY <2>1 DEF RedirectOutcome
  <2>5. \A e \in Daemons : (Ready(e)' <=> Ready(e)) /\ (Redirecting(e)' <=> Redirecting(e))
    BY <2>1 DEF Ready, Redirecting, Has
  <2>6. \A j \in known : remote_clients[j].assigned => j \in known' /\ remote_clients'[j].assigned
    BY <1>1, <1>4, <2>2
  <2>7. CallInv'
    <3>1. ASSUME NEW b \in Clients, Calls(b)'
          PROVE token'[b] \in known' /\ remote_clients'[token'[b]].assigned
      <4>1. CASE b = c
        BY <1>1, <2>2, <2>4, <4>1
      <4>2. CASE b # c
        BY <2>4, <2>6, <3>1, <4>2 DEF NoReturnInv, CallInv, Calls
      <4>3. QED
        BY <4>1, <4>2
    <3>2. QED
      BY <3>1 DEF CallInv
  <2>8. AskedInv'
    BY <1>1, <1>2, <2>5, <2>6, AskedKept DEF NoReturnInv
  <2>9. LostInv'
    <3>1. SUFFICES ASSUME NEW e \in Daemons, Ready(e), NEW b \in Clients,
                          remote_clients'[daemon[e].object].connection = Dead,
                          token'[b] = daemon[e].object
                   PROVE  conn'[b] = "away"
      BY <1>1, <1>2, <2>5 DEF LostInv
    <3>2. daemon[e].object \in Tokens
      BY <3>1 DEF PeerInv, ProcessInv, Ready, Has
    <3>3. daemon[e].object # k
      BY <2>2, <3>1, NoneIsNoClient
    <3>4. b # c
      BY <2>4, <3>1, <3>3
    <3>5. QED
      BY <1>1, <2>4, <3>1, <3>2, <3>3, <3>4 DEF NoReturnInv, LostInv
  <2>10. FirstInv'
    <3>1. SUFFICES ASSUME NEW e \in Daemons, First(e)'
                   PROVE  /\ ~(Ready(e)' /\ Redirecting(e)')
                          /\ \A b \in Clients : Calls(b)' /\ token'[b] = daemon'[e].object =>
                                daemon'[e].pc = "running" /\ ~Redirecting(e)'
                          /\ daemon'[e].pc # "running" => inbox'[e] = <<>>
      BY DEF FirstInv
    <3>2. First(e) /\ daemon'[e].object = daemon[e].object
      BY <1>1, <1>2, <1>4, <2>2, <3>1 DEF First, Claimed
    <3>3. CASE e = d
      BY <1>2, <1>6, <2>1, <2>3, <3>3 DEF Ready, Redirecting, Has
    <3>4. CASE e # d
      <4>1. daemon[e].object # k
        BY <1>5, <3>2, <3>4
      <4>2. \A b \in Clients : Calls(b)' /\ token'[b] = daemon[e].object =>
               Calls(b) /\ token[b] = daemon[e].object
        BY <2>4, <4>1 DEF Calls
      <4>3. QED
        BY <1>1, <2>1, <2>5, <3>2, <3>4, <4>2 DEF NoReturnInv, FirstInv
    <3>5. QED
      BY <3>3, <3>4
  <2>11. QED
    BY <2>7, <2>8, <2>9, <2>10 DEF NoReturnInv
<1>8. CASE remote_clients[k].session = None
  <2>1. Emit(k, [kind |-> "redirect-client", by |-> d]) /\ UNCHANGED <<conn, token>>
    BY <1>8 DEF StartOutcome
  <2>2. /\ remote_clients'[k].assigned = remote_clients[k].assigned
        /\ remote_clients'[k].connection = remote_clients[k].connection
        /\ remote_clients'[k].handover_count = remote_clients[k].handover_count
    <3>1. remote_clients'[k] = [remote_clients[k] EXCEPT !.stale = FALSE]
      BY <1>8 DEF StartOutcome
    <3>2. QED
      BY <1>4, <3>1 DEF RemoteClient
  <2>3. /\ \A e \in Daemons : Ready(e)' <=> Ready(e)
        /\ \A e \in Daemons : Redirecting(e)' <=> Redirecting(e) \/ Subscribed(e, k)
        /\ \A e \in Daemons : ~Subscribed(e, k) => inbox'[e] = inbox[e]
    <3>1. [kind |-> "redirect-client", by |-> d] \in Signal
      BY DEF Signal
    <3>2. QED
      BY <2>1, <3>1, EmitHas DEF Ready, Redirecting
  <2>4. \A b \in Clients : (Calls(b)' <=> Calls(b)) /\ token'[b] = token[b]
    BY <2>1 DEF Calls
  <2>5. \A j \in known : remote_clients[j].assigned => j \in known' /\ remote_clients'[j].assigned
    BY <1>1, <1>4, <2>2
  <2>6. CallInv'
    BY <2>4, <2>5, CallKept DEF NoReturnInv
  <2>7. AskedInv'
    <3>1. ASSUME NEW e \in Daemons, Redirecting(e)'
          PROVE  daemon[e].object \in known /\ remote_clients[daemon[e].object].assigned
      BY <1>1, <1>3, <2>3, <3>1 DEF Subscribed, NoReturnInv, AskedInv, Claimed
    <3>2. QED
      BY <1>1, <1>2, <2>5, <3>1 DEF AskedInv, Claimed
  <2>8. \A j \in Tokens : remote_clients'[j].connection = remote_clients[j].connection
    BY <1>1, <2>2
  <2>9. LostInv'
    BY <1>1, <1>2, <2>1, <2>3, <2>8, LostKept DEF NoReturnInv
  <2>10. FirstInv'
    <3>1. SUFFICES ASSUME NEW e \in Daemons, First(e)'
                   PROVE  /\ ~(Ready(e)' /\ Redirecting(e)')
                          /\ \A b \in Clients : Calls(b)' /\ token'[b] = daemon'[e].object =>
                                daemon'[e].pc = "running" /\ ~Redirecting(e)'
                          /\ daemon'[e].pc # "running" => inbox'[e] = <<>>
      BY DEF FirstInv
    <3>2. First(e) /\ daemon'[e].object = daemon[e].object
      BY <1>1, <1>2, <1>4, <2>2, <3>1 DEF First, Claimed
    <3>3. CASE e = d
      <4>1. ~Ready(d)
        BY <1>6, <3>2, <3>3 DEF Ready, Has
      <4>2. \A b \in Clients : Calls(b) => token[b] # k
        BY <1>1, <3>2, <3>3 DEF NoReturnInv, FirstInv
      <4>3. QED
        BY <1>1, <1>2, <2>3, <2>4, <3>3, <4>1, <4>2
    <3>4. CASE e # d
      <4>1. ~Subscribed(e, k)
        BY <1>5, <3>2, <3>4 DEF Subscribed
      <4>2. QED
        BY <1>1, <2>3, <2>4, <3>2, <3>4, <4>1 DEF NoReturnInv, FirstInv
    <3>5. QED
      BY <3>3, <3>4
  <2>11. QED
    BY <2>6, <2>7, <2>9, <2>10 DEF NoReturnInv
<1>9. QED
  BY <1>7, <1>8

(* StartHandoverFails keeps NoReturnInv.                                   *)
LEMMA StartFailsKeepsCalls ==
    ASSUME TypeOK, PeerInv, NoReturnInv, NEW d \in Daemons, StartHandoverFails(d) PROVE NoReturnInv'
<1>1. UNCHANGED <<known, conn, token>> /\ Ends(d) /\ known \subseteq Tokens
  BY DEF StartHandoverFails, TypeOK
<1>2. \A j \in Tokens : Kept(j) /\ remote_clients'[j].assigned = remote_clients[j].assigned
  BY RenewedEffect, RenewedKept DEF StartHandoverFails
<1>3. /\ daemon'[d] = Stopped /\ inbox'[d] = <<>>
      /\ \A e \in Daemons \ {d} : daemon'[e] = daemon[e] /\ inbox'[e] = inbox[e]
  BY <1>1, EndsEffect
<1>4. QED
  BY <1>1, <1>2, <1>3, EndsKeepsCalls DEF Kept

(* TakeClient keeps NoReturnInv: the claim given up is of the client whose *)
(* socket was passed on, so that nobody calls for it.                      *)
LEMMA TakeKeepsCalls ==
    ASSUME TypeOK, PeerInv, OrderInv, NoReturnInv, NEW d \in Daemons, NEW k, NEW c,
           NEW adopted \in BOOLEAN, NEW gone \in SUBSET Tokens, TakeOutcome(d, k, c, adopted, gone)
    PROVE  NoReturnInv'
<1>1. /\ k = daemon[d].object /\ daemon[d].pc = "running" /\ k \in Tokens /\ k \in known
      /\ inbox[d] # <<>> /\ inbox[d][1].kind = "take-client-ready"
      /\ c = remote_clients[k].connection /\ c \in Clients \cup {Dead}
      /\ gone \subseteq Stale(remote_clients) \cup {k}
      /\ known' = known \ gone
      /\ \A j \in Tokens \ {k} :
            remote_clients'[j] = IF j \in gone THEN Blank ELSE remote_clients[j]
      /\ remote_clients[k].handover_count # 0 => gone = {}
      /\ k \in gone => remote_clients'[k] = Blank
      /\ k \notin gone =>
            remote_clients'[k].connection = None /\ remote_clients'[k].handover_count # 0
      /\ c \in Clients => conn'[c] = IF adopted THEN "daemon" ELSE "away"
      /\ \A b \in Clients \ {c} : conn'[b] = conn[b] \/ (conn'[b] = "away" /\ conn[b] = "parked")
      /\ \A e \in Daemons \ {d} : daemon'[e] = daemon[e]
      /\ inbox'[d] = Tail(inbox[d]) /\ \A e \in Daemons \ {d} : inbox'[e] = inbox[e]
      /\ UNCHANGED token
  BY DEF TakeOutcome
<1>2. daemon'[d].pc = daemon[d].pc /\ daemon'[d].object = daemon[d].object
  <2>1. daemon'[d] = IF adopted THEN [daemon[d] EXCEPT !.active_session = c] ELSE daemon[d]
    BY DEF TakeOutcome
  <2>2. QED
    BY <2>1 DEF TypeOK
<1>3. known \subseteq Tokens
  BY DEF TypeOK
<1>4. remote_clients[k].handover_count # 0 /\ remote_clients[k].assigned =>
         remote_clients'[k].assigned
  <2>1. SUFFICES ASSUME remote_clients[k].handover_count # 0, remote_clients[k].assigned
                 PROVE  remote_clients'[k].assigned
    OBVIOUS
  <2>2. k \notin gone
    BY <1>1, <2>1
  <2>3. remote_clients'[k].assigned
           = (remote_clients[k].assigned /\ remote_clients[k].handover_count # 0)
    BY <2>2 DEF TakeOutcome
  <2>4. QED
    BY <2>1, <2>3
<1>5. \A j \in known : remote_clients[j].assigned /\ (j # k \/ remote_clients[k].handover_count # 0)
                          => j \in known' /\ remote_clients'[j].assigned
  BY <1>1, <1>3, <1>4, AssignedNotStale
<1>6. \A b \in Clients : Calls(b)' => Calls(b) /\ token'[b] = token[b] /\ b # c
  BY <1>1 DEF Calls
<1>7. \A e \in Daemons : (Ready(e)' => Ready(e)) /\ (Redirecting(e)' => Redirecting(e))
  BY <1>1, TailHas, SameHas DEF Ready, Redirecting
<1>8. Ready(d)
  BY <1>1, HeadHas DEF Ready
<1>9. CallInv'
  <2>1. ASSUME NEW b \in Clients, Calls(b), b # c PROVE token[b] # k
    <3>1. SUFFICES ASSUME token[b] = k PROVE FALSE
      OBVIOUS
    <3>2. CASE c \in Clients
      <4>1. token[c] = k
        BY <1>1, <1>8, <3>2 DEF PeerInv, ParkedInv
      <4>2. QED
        BY <1>1, <2>1, <3>1, <3>2, <4>1, NoneIsNoClient DEF PeerInv, TokenInv
    <3>3. CASE c = Dead
      BY <1>1, <1>8, <2>1, <3>1, <3>3 DEF NoReturnInv, LostInv, Calls
    <3>4. QED
      BY <1>1, <3>2, <3>3
  <2>2. ASSUME NEW b \in Clients, Calls(b)'
        PROVE token'[b] \in known' /\ remote_clients'[token'[b]].assigned
    <3>1. Calls(b) /\ token'[b] = token[b] /\ token[b] # k
      BY <1>6, <2>1, <2>2
    <3>2. token[b] \in known /\ remote_clients[token[b]].assigned
      BY <3>1 DEF NoReturnInv, CallInv
    <3>3. QED
      BY <1>5, <3>1, <3>2
  <2>3. QED
    BY <2>2 DEF CallInv
<1>10. \A e \in Daemons : daemon'[e].object = daemon[e].object /\ daemon'[e].pc = daemon[e].pc
  BY <1>1, <1>2
<1>11. AskedInv'
  <2>1. ASSUME NEW e \in Daemons, Redirecting(e)'
        PROVE  daemon[e].object \in known' /\ remote_clients'[daemon[e].object].assigned
    <3>1. Redirecting(e) /\ daemon[e].object \in known /\ remote_clients[daemon[e].object].assigned
      BY <1>7, <2>1 DEF NoReturnInv, AskedInv, Claimed
    <3>2. CASE daemon[e].object = k /\ remote_clients[k].handover_count = 0
      <4>1. First(d)
        BY <1>1, <3>2 DEF First, Claimed
      <4>2. e = d
        BY <1>1, <3>2, <4>1 DEF OrderInv, ClaimInv
      <4>3. QED
        BY <1>8, <3>1, <4>1, <4>2 DEF NoReturnInv, FirstInv
    <3>3. CASE ~(daemon[e].object = k /\ remote_clients[k].handover_count = 0)
      BY <1>5, <3>1, <3>3
    <3>4. QED
      BY <3>2, <3>3
  <2>2. QED
    BY <1>10, <2>1 DEF AskedInv, Claimed
<1>12. LostInv'
  <2>1. \A j \in Tokens : remote_clients'[j].connection = Dead
          => remote_clients[j].connection = Dead
    BY <1>1, BlankFields, NoneIsNoClient
  <2>2. c \in Clients => conn[c] # "away"
    BY <1>1 DEF PeerInv, HeldInv
  <2>3. \A b \in Clients : conn'[b] # "away" => conn[b] # "away"
    BY <1>1, <2>2
  <2>4. QED
    BY <1>1, <1>7, <1>10, <2>1, <2>3, LostKept DEF NoReturnInv
<1>13. FirstInv'
  <2>1. \A e \in Daemons : First(e)' => First(e) /\ daemon[e].object # k
    <3>1. SUFFICES ASSUME NEW e \in Daemons, First(e)' PROVE First(e) /\ daemon[e].object # k
      OBVIOUS
    <3>2. daemon[e].object \in known' /\ remote_clients'[daemon[e].object].handover_count = 0
      BY <1>10, <3>1 DEF First, Claimed
    <3>3. daemon[e].object # k
      BY <1>1, <3>2
    <3>4. QED
      BY <1>1, <1>3, <3>2, <3>3 DEF First, Claimed
  <2>2. QED
    BY <1>1, <1>6, <1>7, <1>10, <2>1, FirstKept DEF NoReturnInv
<1>14. QED
  BY <1>9, <1>11, <1>12, <1>13 DEF NoReturnInv

(* A daemon has dropped a signal.                                          *)
LEMMA TailKeepsCalls ==
    ASSUME TypeOK, PeerInv, NoReturnInv, UNCHANGED <<known, daemon, conn, token>>,
           \A k \in Tokens : Kept(k) /\ remote_clients'[k].assigned = remote_clients[k].assigned,
           NEW d \in Daemons, daemon[d].pc = "running", inbox[d] # <<>>, inbox'[d] = Tail(inbox[d]),
           \A e \in Daemons \ {d} : inbox'[e] = inbox[e]
    PROVE  NoReturnInv'
<1>1. \A e \in Daemons : (Ready(e)' => Ready(e)) /\ (Redirecting(e)' => Redirecting(e))
  BY TailHas, SameHas DEF Ready, Redirecting
<1>2. \A b \in Clients : Calls(b)' => Calls(b) /\ token'[b] = token[b]
  BY DEF Calls
<1>3. known \subseteq Tokens
  BY DEF TypeOK
<1>4. CallInv' /\ AskedInv'
  BY <1>1, <1>2, <1>3, CallKept, AskedKept DEF NoReturnInv
<1>5. LostInv'
  BY <1>1, LostKept DEF NoReturnInv, Kept
<1>6. \A e \in Daemons : First(e)' => First(e)
  BY <1>3 DEF First, Claimed, Kept
<1>7. FirstInv'
  BY <1>1, <1>2, <1>6, FirstKept DEF NoReturnInv
<1>8. QED
  BY <1>4, <1>5, <1>7 DEF NoReturnInv

(* TakeClientFails keeps NoReturnInv.                                      *)
LEMMA TakeFailsKeepsCalls ==
    ASSUME TypeOK, PeerInv, NoReturnInv, NEW d \in Daemons, TakeClientFails(d) PROVE NoReturnInv'
<1>1. /\ UNCHANGED <<known, daemon, conn, token>> /\ daemon[d].pc = "running" /\ inbox[d] # <<>>
      /\ inbox' = [inbox EXCEPT ![d] = Tail(@)]
  BY DEF TakeClientFails, Handles
<1>2. \A j \in Tokens : Kept(j) /\ remote_clients'[j].assigned = remote_clients[j].assigned
  BY RenewedEffect, RenewedKept DEF TakeClientFails
<1>3. inbox'[d] = Tail(inbox[d]) /\ \A e \in Daemons \ {d} : inbox'[e] = inbox[e]
  BY <1>1, TailEffect
<1>4. QED
  BY <1>1, <1>2, <1>3, TailKeepsCalls

(* RedirectClient keeps NoReturnInv: it is asked for while the record is   *)
(* claimed.                                                                *)
LEMMA RedirectKeepsCalls ==
    ASSUME TypeOK, PeerInv, OrderInv, NoReturnInv, NEW d \in Daemons, RedirectClient(d)
    PROVE  NoReturnInv'
<1>1. /\ daemon[d].pc = "running" /\ inbox[d] # <<>> /\ inbox[d][1].kind = "redirect-client"
      /\ RedirectsOutcome(d) \/ IgnoresOutcome(d)
      /\ UNCHANGED <<known, remote_clients>>
  BY RedirectEffect
<1>2. CASE RedirectsOutcome(d)
  <2> DEFINE c == daemon[d].active_session
  <2>1. /\ RedirectOutcome(c, daemon[d].object) /\ c # None
        /\ daemon'[d] = Stopped /\ inbox'[d] = <<>>
        /\ \A e \in Daemons \ {d} : daemon'[e] = daemon[e] /\ inbox'[e] = inbox[e]
    BY <1>2 DEF RedirectsOutcome
  <2>2. /\ \A b \in Clients \ {c} : conn'[b] = conn[b] /\ token'[b] = token[b]
        /\ c \in Clients => conn'[c] = "connecting" /\ token'[c] = daemon[d].object
    BY <2>1 DEF RedirectOutcome
  <2>3. c \in Clients => conn[c] = "daemon" /\ token[c] = daemon[d].object
    BY DEF PeerInv, ServingInv
  <2>4. ~First(d)
    BY <2>1 DEF OrderInv, ClaimInv
  <2>5. Claimed(d) /\ remote_clients[daemon[d].object].assigned
    BY <1>1, HeadHas DEF NoReturnInv, AskedInv, Redirecting
  <2> HIDE DEF c
  <2>6. \A b \in Clients : token'[b] = token[b]
    BY <2>2, <2>3
  <2>7. \A b \in Clients : conn'[b] # "away" => conn[b] # "away"
    BY <2>2, <2>3
  <2>8. CallInv'
    <3>1. ASSUME NEW b \in Clients, Calls(b)'
          PROVE token[b] \in known /\ remote_clients[token[b]].assigned
      <4>1. CASE b = c
        BY <2>2, <2>5, <2>6, <4>1 DEF Claimed
      <4>2. CASE b # c
        BY <2>2, <3>1, <4>2 DEF NoReturnInv, CallInv, Calls
      <4>3. QED
        BY <4>1, <4>2
    <3>2. QED
      BY <1>1, <2>6, <3>1 DEF CallInv
  <2>9. \A e \in Daemons : /\ Ready(e)' => Ready(e) /\ e # d
                           /\ Redirecting(e)' => Redirecting(e) /\ e # d
    BY <2>1 DEF Ready, Redirecting, Has
  <2>10. AskedInv'
    BY <1>1, <2>1, <2>9, AskedKept DEF NoReturnInv
  <2>11. LostInv'
    BY <1>1, <2>1, <2>6, <2>7, <2>9, LostKept DEF NoReturnInv
  <2>12. FirstInv'
    <3>1. SUFFICES ASSUME NEW e \in Daemons, First(e)'
                   PROVE  /\ ~(Ready(e)' /\ Redirecting(e)')
                          /\ \A b \in Clients : Calls(b)' /\ token'[b] = daemon'[e].object =>
                                daemon'[e].pc = "running" /\ ~Redirecting(e)'
                          /\ daemon'[e].pc # "running" => inbox'[e] = <<>>
      BY DEF FirstInv
    <3>2. e # d
      BY <1>1, <2>1, <3>1, StoppedFields, NoneIsNoClient DEF First, Claimed, TypeOK
    <3>3. First(e) /\ daemon'[e] = daemon[e] /\ inbox'[e] = inbox[e]
      BY <1>1, <2>1, <3>1, <3>2 DEF First, Claimed
    <3>4. daemon[e].object # daemon[d].object
      BY <2>4, <3>3 DEF First, Claimed
    <3>5. \A b \in Clients : Calls(b)' /\ token'[b] = daemon[e].object =>
             Calls(b) /\ token[b] = daemon[e].object
      BY <2>2, <3>4 DEF Calls
    <3>6. QED
      BY <2>9, <3>3, <3>5 DEF NoReturnInv, FirstInv
  <2>13. QED
    BY <2>8, <2>10, <2>11, <2>12 DEF NoReturnInv
<1>3. CASE IgnoresOutcome(d)
  BY <1>1, <1>3, TailKeepsCalls DEF IgnoresOutcome, Kept
<1>4. QED
  BY <1>1, <1>2, <1>3

(* GoesStale keeps NoReturnInv.                                            *)
LEMMA StaleKeepsCalls ==
    ASSUME TypeOK, PeerInv, NoReturnInv, NEW k \in Tokens, GoesStale(k) PROVE NoReturnInv'
<1>1. UNCHANGED <<known, daemon, inbox, conn, token>>
      /\ \A j \in Tokens : Kept(j) /\ remote_clients'[j].assigned = remote_clients[j].assigned
  BY StaleEffect, RenewedKept
<1>2. known \subseteq Tokens
  BY DEF TypeOK
<1>3. \A e \in Daemons : (Ready(e)' <=> Ready(e)) /\ (Redirecting(e)' <=> Redirecting(e))
  BY <1>1 DEF Ready, Redirecting, Has
<1>4. \A b \in Clients : Calls(b)' => Calls(b) /\ token'[b] = token[b]
  BY <1>1 DEF Calls
<1>5. CallInv' /\ AskedInv'
  BY <1>1, <1>2, <1>3, <1>4, CallKept, AskedKept DEF NoReturnInv
<1>6. LostInv'
  BY <1>1, <1>3, LostKept DEF NoReturnInv, Kept
<1>7. \A e \in Daemons : First(e)' => First(e)
  BY <1>1, <1>2 DEF First, Claimed, Kept
<1>8. FirstInv'
  BY <1>1, <1>3, <1>4, <1>7, FirstKept DEF NoReturnInv
<1>9. QED
  BY <1>5, <1>6, <1>8 DEF NoReturnInv

(* Every step keeps NoReturnInv while no client reconnects.                *)
LEMMA StepKeepsCalls ==
    ASSUME TypeOK, PeerInv, OrderInv, NoReturnInv, "reconnect" \notin faults, [Next]_vars
    PROVE  NoReturnInv'
<1>0. TokensKept
  BY DEF NoReturnInv, CallInv, TokensKept
<1>1. CASE UNCHANGED vars
  BY <1>1 DEF vars, NoReturnInv, CallInv, AskedInv, LostInv, FirstInv, Calls, First, Claimed, Ready,
              Redirecting, Has
<1>2. ASSUME NEW c \in Clients, IncomingKnown(c) PROVE NoReturnInv'
  <2> DEFINE k == token[c]
  <2> HIDE DEF k
  <2>1. KnownOutcome(c, k) /\ k = token[c]
    BY <1>2, KnownEffect DEF k
  <2>2. QED
    BY <2>1, KnownKeepsCalls
<1>3. ASSUME NEW c \in Clients, IncomingNew(c) PROVE NoReturnInv'
  BY <1>0, <1>3, NewEffect, NewKeepsCalls
<1>4. ASSUME NEW d \in Daemons, RequestHandover(d) PROVE NoReturnInv'
  BY <1>4, RequestEffect, RequestKeepsCalls
<1>5. ASSUME NEW d \in Daemons, StartHandover(d) PROVE NoReturnInv'
  BY <1>5, StartEffect, StartKeepsCalls
<1>6. ASSUME NEW d \in Daemons, TakeClient(d) PROVE NoReturnInv'
  BY <1>6, TakeEffect, TakeKeepsCalls
<1>7. QED
  BY <1>1, <1>2, <1>3, <1>4, <1>5, <1>6, ConnectsKeepsCalls, LeavesKeepsCalls, LaunchKeepsCalls,
     SubscribeKeepsCalls, StartFailsKeepsCalls, TakeFailsKeepsCalls, RedirectKeepsCalls,
     StaleKeepsCalls DEF Next, Incoming, DaemonStep
-----------------------------------------------------------------------------
(* Without idle clients and overload TokensKept follows from RoomInv: no   *)
(* record is ever removed. The invariant of the specification, and the     *)
(* theorems.                                                               *)

(* No client is idle, the table has room, and every token somebody holds   *)
(* is in it.                                                               *)
RoomInv ==
    /\ \A k \in Tokens : ~remote_clients[k].stale
    /\ IsFiniteSet(known) /\ Cardinality(known) <= MaxPending
    /\ \A c \in Clients : token[c] # None => token[c] \in known

(* A queue without duplicates is no longer than the table.                 *)
LEMMA QueueFits ==
    ASSUME NEW queue \in Seq(Tokens), NoDuplicates(queue), NEW keys, ToSet(queue) \subseteq keys,
           IsFiniteSet(keys)
    PROVE  Len(queue) <= Cardinality(keys)
<1>1. Len(queue) \in Nat /\ DOMAIN queue = 1 .. Len(queue)
  OBVIOUS
<1>2. queue \in [1 .. Len(queue) -> keys]
  BY <1>1 DEF ToSet
<1>3. queue \in Injection(1 .. Len(queue), keys)
  BY <1>1, <1>2 DEF NoDuplicates, Injection, IsInjective
<1>4. Cardinality(1 .. Len(queue)) <= Cardinality(keys)
  BY <1>3, FS_Injection
<1>5. Cardinality(1 .. Len(queue)) = Len(queue)
  BY <1>1, FS_Interval
<1>6. QED
  BY <1>4, <1>5

(* While the queued clients are fewer than the bound, nobody is removed.   *)
LEMMA RoomInQueue ==
    ASSUME TypeOK, OrderInv, RoomInv, NEW keys, ToSet(pending_clients) \subseteq keys,
           IsFiniteSet(keys), Cardinality(keys) < MaxPending
    PROVE  ~Full(Unqueue(pending_clients, Stale(remote_clients)))
<1>1. pending_clients \in Seq(Tokens) /\ NoDuplicates(pending_clients)
  BY DEF TypeOK, OrderInv, QueueInv
<1> DEFINE queue == Unqueue(pending_clients, Stale(remote_clients))
<1>2. queue \in Seq(Tokens) /\ NoDuplicates(queue) /\ ToSet(queue) \subseteq keys
  BY <1>1, UnqueueType, UnqueueRemoves
<1> HIDE DEF queue
<1>3. Len(queue) <= Cardinality(keys) /\ Len(queue) \in Nat
  BY <1>2, QueueFits
<1>4. Cardinality(keys) \in Nat
  BY FS_CardinalityType
<1>5. ~(Len(queue) >= MaxPending)
  BY <1>3, <1>4, ConstantsAssumption
<1>6. QED
  BY <1>5 DEF Full, queue

(* Without idle clients nothing is pruned.                                 *)
LEMMA NoneStale ==
    ASSUME TypeOK, RoomInv PROVE Stale(remote_clients) = {}
<1>1. ToSet(pending_clients) \subseteq Tokens
  BY DEF TypeOK, ToSet
<1>2. QED
  BY <1>1 DEF Stale, RoomInv

(* IncomingNew keeps RoomInv: the queue has room, so that nobody is        *)
(* removed.                                                                *)
LEMMA NewKeepsRoom ==
    ASSUME TypeOK, PeerInv, OrderInv, RoomInv, "overload" \notin faults, NEW c \in Clients,
           NEW k \in Tokens, NEW accepted \in BOOLEAN, NEW gone \in SUBSET Tokens,
           NewOutcome(c, k, accepted, gone)
    PROVE  RoomInv'
<1>1. /\ k \notin known
      /\ gone \subseteq Stale(remote_clients) \cup {k}
      /\ known' = (known \cup {k}) \ gone
      /\ Cardinality(known \cup {k}) <= MaxPending
      /\ \A j \in Tokens \ {k} :
            remote_clients'[j] = IF j \in gone THEN Blank ELSE remote_clients[j]
      /\ k \notin gone => ~remote_clients'[k].stale
      /\ UNCHANGED token
  BY DEF NewOutcome
<1>2. ToSet(pending_clients) \subseteq known /\ NoDuplicates(pending_clients)
  BY DEF OrderInv, QueueInv
<1>3. /\ IsFiniteSet(known) /\ IsFiniteSet(known \cup {k})
      /\ Cardinality(known) \in Nat /\ Cardinality(known \cup {k}) = Cardinality(known) + 1
  BY <1>1, FS_AddElement, FS_CardinalityType DEF RoomInv
<1>4. Cardinality(known) < MaxPending
  BY <1>1, <1>3, ConstantsAssumption
<1>5. ~Full(Unqueue(pending_clients, Stale(remote_clients)))
  BY <1>2, <1>3, <1>4, RoomInQueue
<1>6. gone = {}
  <2>1. k \notin ToSet(pending_clients)
    BY <1>1, <1>2
  <2>2. gone \subseteq Stale(remote_clients)
    BY <1>2, <1>5, <2>1 DEF NewOutcome
  <2>3. QED
    BY <2>2, NoneStale
<1>7. \A j \in Tokens : ~remote_clients'[j].stale
  BY <1>1, <1>6 DEF RoomInv
<1>8. QED
  BY <1>1, <1>3, <1>6, <1>7 DEF RoomInv

(* TakeClient keeps RoomInv: the client it queues again was not queued.    *)
LEMMA TakeKeepsRoom ==
    ASSUME TypeOK, PeerInv, OrderInv, RoomInv, NEW d \in Daemons, NEW k, NEW c,
           NEW adopted \in BOOLEAN, NEW gone \in SUBSET Tokens, TakeOutcome(d, k, c, adopted, gone)
    PROVE  RoomInv'
<1>1. /\ k = daemon[d].object /\ k \in Tokens /\ k \in known
      /\ known' = known \ gone
      /\ \A j \in Tokens \ {k} :
            remote_clients'[j] = IF j \in gone THEN Blank ELSE remote_clients[j]
      /\ remote_clients[k].handover_count # 0 => gone = {}
      /\ k \notin gone => ~remote_clients'[k].stale
      /\ UNCHANGED token
  BY DEF TakeOutcome
<1>2. CASE remote_clients[k].handover_count = 0
  <2>1. remote_clients[k].assigned
    BY <1>1, <1>2 DEF OrderInv, ClaimInv, First, Claimed
  <2>2. ToSet(pending_clients) \subseteq known \ {k} /\ NoDuplicates(pending_clients)
    BY <2>1 DEF OrderInv, QueueInv
  <2>3. /\ IsFiniteSet(known \ {k}) /\ Cardinality(known) \in Nat
        /\ Cardinality(known \ {k}) = Cardinality(known) - 1
    BY <1>1, FS_RemoveElement, FS_CardinalityType DEF RoomInv
  <2>4. Cardinality(known \ {k}) < MaxPending
    BY <2>3, ConstantsAssumption DEF RoomInv
  <2>5. ~Full(Unqueue(pending_clients, Stale(remote_clients)))
    BY <2>2, <2>3, <2>4, RoomInQueue
  <2>6. gone \subseteq Stale(remote_clients)
    BY <1>2, <2>2, <2>5 DEF TakeOutcome
  <2>7. gone = {}
    BY <2>6, NoneStale
  <2>8. QED
    BY <1>1, <2>7 DEF RoomInv
<1>3. CASE remote_clients[k].handover_count # 0
  BY <1>1, <1>3 DEF RoomInv
<1>4. QED
  BY <1>2, <1>3

(* Every step keeps RoomInv while there are no idle clients and no         *)
(* overload.                                                               *)
LEMMA StepKeepsRoom ==
    ASSUME TypeOK, PeerInv, OrderInv, RoomInv, {"idle", "overload"} \cap faults = {}, [Next]_vars
    PROVE  RoomInv'
<1>1. CASE UNCHANGED vars
  BY <1>1 DEF vars, RoomInv
<1>2. ASSUME NEW c \in Clients, ClientConnects(c) PROVE RoomInv'
  <2>1. /\ \A b \in Clients \ {c} : token'[b] = token[b]
        /\ token'[c] = None \/ token'[c] = token[c]
        /\ UNCHANGED <<known, remote_clients>>
    BY <1>2, ConnectsEffect
  <2>2. QED
    BY <2>1 DEF RoomInv
<1>3. ASSUME NEW c \in Clients, IncomingKnown(c) PROVE RoomInv'
  <2> DEFINE k == token[c]
  <2> HIDE DEF k
  <2>1. KnownOutcome(c, k)
    BY <1>3, KnownEffect DEF k
  <2>2. /\ k \in Tokens /\ \A j \in Tokens \ {k} : remote_clients'[j] = remote_clients[j]
        /\ UNCHANGED <<known, token>>
    BY <2>1 DEF KnownOutcome
  <2>3. ~remote_clients'[k].stale
    <3>1. remote_clients'[k] = [remote_clients[k] EXCEPT !.connection = c, !.stale = FALSE]
      BY <2>1 DEF KnownOutcome
    <3>2. QED
      BY <2>2, <3>1 DEF TypeOK, RemoteClient
  <2>4. QED
    BY <2>2, <2>3 DEF RoomInv
<1>4. ASSUME NEW c \in Clients, IncomingNew(c) PROVE RoomInv'
  BY <1>4, NewEffect, NewKeepsRoom
<1>5. ASSUME NEW c \in Clients, ClientLeaves(c) PROVE RoomInv'
  <2>1. UNCHANGED <<known, token>>
          /\ \A k \in Tokens : remote_clients'[k].stale = remote_clients[k].stale
    BY <1>5, LeavesEffect
  <2>2. QED
    BY <2>1 DEF RoomInv
<1>6. ASSUME NEW d \in Daemons, RequestHandover(d) PROVE RoomInv'
  <2>1. PICK k \in Tokens \cup {None} : RequestOutcome(d, k)
    BY <1>6, RequestEffect
  <2>2. /\ known' = known \ Stale(remote_clients)
        /\ \A j \in Tokens \ {k} :
              remote_clients'[j] = IF j \in Stale(remote_clients) THEN Blank ELSE remote_clients[j]
        /\ UNCHANGED token
    BY <2>1 DEF RequestOutcome
  <2>3. k \in Tokens => ~remote_clients'[k].stale
    <3>1. SUFFICES ASSUME k \in Tokens PROVE ~remote_clients'[k].stale
      OBVIOUS
    <3>2. remote_clients'[k] =
             [(IF k \in Stale(remote_clients) THEN Blank ELSE remote_clients[k])
                EXCEPT !.assigned = TRUE, !.stale = FALSE]
      BY <2>1, <3>1, NoneIsNoClient DEF RequestOutcome
    <3>3. remote_clients'[k] = [remote_clients[k] EXCEPT !.assigned = TRUE, !.stale = FALSE]
      BY <3>2, NoneStale
    <3>4. QED
      BY <3>1, <3>3 DEF TypeOK, RemoteClient
  <2>4. known' = known /\ \A j \in Tokens : ~remote_clients'[j].stale
    BY <2>2, <2>3, NoneStale DEF RoomInv
  <2>5. QED
    BY <2>2, <2>4 DEF RoomInv
<1>7. ASSUME NEW d \in Daemons, StartHandover(d) PROVE RoomInv'
  <2> DEFINE k == daemon[d].object
  <2> HIDE DEF k
  <2>1. StartOutcome(d, k)
    BY <1>7, StartEffect DEF k
  <2>2. /\ k \in Tokens /\ k \in known
        /\ \A j \in Tokens \ {k} : remote_clients'[j] = remote_clients[j]
        /\ UNCHANGED known
    BY <2>1 DEF StartOutcome
  <2>3. ~remote_clients'[k].stale
    <3>1. \/ remote_clients'[k] =
                [remote_clients[k] EXCEPT !.session = None, !.connection = None,
                                          !.assigned = TRUE, !.stale = FALSE]
          \/ remote_clients'[k] = [remote_clients[k] EXCEPT !.stale = FALSE]
      BY <2>1 DEF StartOutcome
    <3>2. QED
      BY <2>2, <3>1 DEF TypeOK, RemoteClient
  <2>4. \A b \in Clients : token'[b] = token[b] \/ token'[b] = k
    BY <2>1 DEF StartOutcome, RedirectOutcome
  <2>5. QED
    BY <2>2, <2>3, <2>4 DEF RoomInv
<1>8. ASSUME NEW d \in Daemons, TakeClient(d) PROVE RoomInv'
  BY <1>8, TakeEffect, TakeKeepsRoom
<1>9. ASSUME UNCHANGED <<known, token>>,
             \A j \in Tokens : remote_clients'[j] = remote_clients[j]
                               \/ remote_clients'[j] = [remote_clients[j] EXCEPT !.stale = FALSE]
      PROVE  RoomInv'
  <2>1. ASSUME NEW j \in Tokens PROVE ~remote_clients'[j].stale
    <3>1. remote_clients[j] \in RemoteClient /\ ~remote_clients[j].stale
      BY DEF RoomInv, TypeOK
    <3>2. CASE remote_clients'[j] = remote_clients[j]
      BY <3>1, <3>2
    <3>3. CASE remote_clients'[j] = [remote_clients[j] EXCEPT !.stale = FALSE]
      BY <3>1, <3>3 DEF RemoteClient
    <3>4. QED
      BY <1>9, <3>2, <3>3
  <2>2. QED
    BY <1>9, <2>1 DEF RoomInv
<1>10. ASSUME NEW d \in Daemons, StartHandoverFails(d) \/ TakeClientFails(d) PROVE RoomInv'
  <2>1. UNCHANGED <<known, token>>
    BY <1>10 DEF StartHandoverFails, TakeClientFails
  <2>2. \A j \in Tokens : remote_clients'[j] = remote_clients[j]
                          \/ remote_clients'[j] = [remote_clients[j] EXCEPT !.stale = FALSE]
    <3> DEFINE k == daemon[d].object
    <3> HIDE DEF k
    <3>1. remote_clients' =
             IF k \in known THEN [remote_clients EXCEPT ![k].stale = FALSE] ELSE remote_clients
      BY <1>10 DEF StartHandoverFails, TakeClientFails, k
    <3>2. QED
      BY <3>1, RenewedEffect
  <2>3. QED
    BY <1>9, <2>1, <2>2
<1>11. ASSUME NEW d \in Daemons, RedirectClient(d) PROVE RoomInv'
  <2>1. (RedirectsOutcome(d) \/ IgnoresOutcome(d)) /\ UNCHANGED <<known, remote_clients>>
    BY <1>11, RedirectEffect
  <2>2. \A b \in Clients : token'[b] = token[b]
    BY <2>1 DEF RedirectsOutcome, RedirectOutcome, IgnoresOutcome, PeerInv, ServingInv
  <2>3. QED
    BY <2>1, <2>2 DEF RoomInv
<1>12. ASSUME NEW d \in Daemons, Launch(d) \/ Subscribe(d) PROVE RoomInv'
  <2>1. UNCHANGED <<known, remote_clients, token>>
    BY <1>12 DEF Launch, Subscribe, sysVars
  <2>2. QED
    BY <2>1 DEF RoomInv
<1>13. ASSUME NEW k \in Tokens, GoesStale(k) PROVE RoomInv'
  BY <1>13 DEF GoesStale
<1>14. QED
  BY <1>1, <1>2, <1>3, <1>4, <1>5, <1>6, <1>7, <1>8, <1>10, <1>11, <1>12, <1>13
  DEF Next, Incoming, DaemonStep

(* The inductive invariant: each part under the faults that it survives.   *)
HandoverInv ==
    /\ TypeOK /\ PeerInv
    /\ NoneReturnsRemoved => OrderInv
    /\ "reconnect" \notin faults => NoReturnInv
    /\ {"idle", "overload"} \cap faults = {} => RoomInv

(* It holds when the system daemon starts.                                 *)
LEMMA InitHandover == Init => HandoverInv
<1> SUFFICES ASSUME Init PROVE HandoverInv
  OBVIOUS
<1>1. TypeOK /\ PeerInv
  BY InitPeers
<1>2. \A d \in Daemons : daemon[d].object = None /\ inbox[d] = <<>>
  BY StoppedFields DEF Init
<1>3. known = {} /\ pending_clients = <<>> /\ listed = None
      /\ (\A k \in Tokens : ~remote_clients[k].stale) /\ \A c \in Clients : token[c] = None
  BY BlankFields DEF Init
<1>4. \A d \in Daemons : ~Claimed(d) /\ ~First(d) /\ ~Ready(d) /\ ~Redirecting(d)
  BY <1>2, <1>3, NoneIsNoClient DEF Claimed, First, Ready, Redirecting, Has
<1>5. OrderInv
  BY <1>3, <1>4 DEF OrderInv, QueueInv, ClaimInv, ReadyInv, ListedInv, NoDuplicates, ToSet
<1>6. NoReturnInv
  BY <1>3, <1>4 DEF NoReturnInv, CallInv, AskedInv, LostInv, FirstInv, Calls
<1>7. RoomInv
  BY <1>3, FS_EmptySet, ConstantsAssumption DEF RoomInv
<1>8. QED
  BY <1>1, <1>5, <1>6, <1>7 DEF HandoverInv

(* Every step keeps it: NoReturnInv or RoomInv gives TokensKept, which     *)
(* OrderInv needs.                                                         *)
LEMMA StepKeepsHandover ==
    ASSUME HandoverInv, [Next]_vars PROVE HandoverInv'
<1>1. UNCHANGED faults
  BY DEF Next, vars, ClientConnects, Incoming, IncomingKnown, IncomingNew, ClientLeaves, Launch,
         DaemonStep, RequestHandover, Subscribe, StartHandover, StartHandoverFails, TakeClient,
         TakeClientFails, RedirectClient, GoesStale
<1>2. TypeOK /\ PeerInv /\ TypeOK' /\ PeerInv'
  BY StepKeepsTypeOK, StepKeepsPeers DEF HandoverInv
<1>3. NoneReturnsRemoved => TokensKept
  BY DEF NoneReturnsRemoved, HandoverInv, NoReturnInv, CallInv, RoomInv, TokensKept, Calls
<1>4. NoneReturnsRemoved' => OrderInv'
  BY <1>1, <1>2, <1>3, StepKeepsOrder DEF NoneReturnsRemoved, HandoverInv
<1>5. "reconnect" \notin faults' => NoReturnInv'
  BY <1>1, <1>2, StepKeepsCalls DEF NoneReturnsRemoved, HandoverInv
<1>6. {"idle", "overload"} \cap faults' = {} => RoomInv'
  BY <1>1, <1>2, StepKeepsRoom DEF NoneReturnsRemoved, HandoverInv
<1>7. QED
  BY <1>2, <1>4, <1>5, <1>6 DEF HandoverInv

(* The inductive invariant holds in every behaviour.                       *)
THEOREM HandoverInvariance == Spec => []HandoverInv
BY InitHandover, StepKeepsHandover, PTL DEF Spec

(* drd_system_daemon_remove_client leaves no dangling entry: what is in    *)
(* pending_clients is in remote_clients, unless removed clients may        *)
(* return.                                                                 *)
THEOREM QueueHasNoDangling == Spec => []RemovedNotQueued
<1>1. HandoverInv => RemovedNotQueued
  BY DEF HandoverInv, OrderInv, QueueInv, RemovedNotQueued
<1>2. QED
  BY <1>1, HandoverInvariance, PTL

(* drd_system_daemon_queue_client and RequestHandover lose nobody: a       *)
(* registered client is claimed and not queued, or not claimed and queued  *)
(* exactly once, unless removed clients may return.                        *)
THEOREM NobodyForgotten == Spec => []ClaimedOrQueued
<1>1. ASSUME HandoverInv, NoneReturnsRemoved, NEW k \in known
      PROVE  Cardinality({i \in DOMAIN pending_clients : pending_clients[i] = k})
                = IF remote_clients[k].assigned THEN 0 ELSE 1
  <2> DEFINE at == {i \in DOMAIN pending_clients : pending_clients[i] = k}
  <2>1. /\ NoDuplicates(pending_clients)
        /\ ToSet(pending_clients) = {j \in known : ~remote_clients[j].assigned}
    BY <1>1 DEF HandoverInv, OrderInv, QueueInv
  <2>2. CASE remote_clients[k].assigned
    <3>1. at = {}
      BY <2>1, <2>2 DEF ToSet
    <3>2. QED
      BY <2>2, <3>1, FS_EmptySet
  <2>3. CASE ~remote_clients[k].assigned
    <3>1. PICK i \in DOMAIN pending_clients : pending_clients[i] = k
      BY <1>1, <2>1, <2>3 DEF ToSet
    <3>2. at = {i}
      BY <2>1, <3>1 DEF NoDuplicates
    <3>3. QED
      BY <2>3, <3>2, FS_Singleton
  <2>4. QED
    BY <2>2, <2>3
<1>2. HandoverInv => ClaimedOrQueued
  BY <1>1 DEF ClaimedOrQueued
<1>3. QED
  BY <1>2, HandoverInvariance, PTL

(* A client is served by the system's listener or by one handover daemon,  *)
(* never by two, unless removed clients may return.                        *)
THEOREM ServedOnce == Spec => []OneServer
<1>1. HandoverInv => OneServer
  <2>1. SUFFICES ASSUME HandoverInv, NoneReturnsRemoved, NEW d \in Daemons,
                        daemon[d].active_session \in Clients
                 PROVE  /\ daemon[d].active_session # listed
                        /\ \A e \in Daemons :
                              daemon[e].active_session = daemon[d].active_session => e = d
    BY DEF OneServer
  <2>2. PeerInv /\ ListedInv
    BY <2>1 DEF HandoverInv, OrderInv
  <2>3. conn[daemon[d].active_session] = "daemon"
    BY <2>1, <2>2 DEF PeerInv, ServingInv
  <2>4. daemon[d].active_session # listed
    BY <2>1, <2>2, <2>3, NoneIsNoClient DEF ListedInv
  <2>5. QED
    BY <2>1, <2>2, <2>4 DEF PeerInv, ServingInv
<1>2. QED
  BY <1>1, HandoverInvariance, PTL
=============================================================================
