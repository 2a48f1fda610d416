-------------------------- MODULE GateSession_proofs --------------------------
(***************************************************************************)
(* GateSession for every set of users, connections and games and every     *)
(* bound: its type and safety invariants, and that it implements           *)
(* OneSession.                                                             *)
(***************************************************************************)
EXTENDS GateSession, TLAPS

\* The inductive invariant.  No conjunct is inductive alone: that a user in a
\* connected state owns a connection is what makes GoOffline release one, that
\* the links agree is what makes DropSocket delete the right user, and both
\* together say that a freshly bound connection replaces nobody but the user it
\* is taken from.  Users that shared a connection can only harm each other.
IInv ==
  /\ TypeOK
  /\ BindingAgrees
  /\ ConnectedIffSocket
  /\ NewestLoginPlays
  /\ Watched
  /\ ListedInScene

USE SentinelAssumption, BoundAssumption

\* The initial state satisfies the inductive invariant.
LEMMA InitInv == Init => IInv
BY DEF Init, IInv, TypeOK, BindingAgrees, ConnectedIffSocket, NewestLoginPlays,
       Watched, ListedInScene, UserStates, Connected, GateStates, LoginStates, Callbacks

\* What the dispatch queue may do in a step that closes the connections S and
\* deletes the users D: it stays well typed, and a timer handler leaves it only
\* if what it watched is gone.
QueueStep(S, D) ==
  /\ due' \subseteq Callbacks
  /\ ahead' \in 0..MaxAhead
  /\ \A s \in open \ S : <<"session", s>> \in due => <<"session", s>> \in due' \/ bound[s] # NoUser
  /\ \A u \in Uids \ (D \cup mixed) : state[u] \notin {"OFFLINE", "NONE"} /\ <<"pingpong", u>> \in due
                         => <<"pingpong", u>> \in due'
  /\ \A u \in Uids \ (D \cup mixed) : state[u] # "NONE" /\ <<"reconnect", u>> \in due
                         => <<"reconnect", u>> \in due'

\* Handling a message or a connection event leaves the timer queue alone.
LEMMA DispatchQueue ==
  ASSUME TypeOK, Dispatch, NEW S, NEW D
  PROVE  QueueStep(S, D)
BY DEF TypeOK, Dispatch, QueueStep

\* The messages the gate sends are of the declared kinds.
LEMMA KicksType == \A D \in SUBSET Uids : Kicks(D) \subseteq Msgs
BY DEF Kicks, Msg, Msgs

LEMMA UnregType ==
  ASSUME TypeOK, NEW u \in Uids, NEW code \in Codes, NEW host \in HostOf(u)
  PROVE  Unreg(u, code, host) \subseteq Msgs
BY DEF TypeOK, HostOf, Hosts, Unreg, Msg, Msgs

LEMMA OfflineNewsType ==
  ASSUME TypeOK, NEW u \in Uids, NEW host \in HostOf(u)
  PROVE  OfflineNews(u, host) \subseteq Msgs
BY UnregType DEF OfflineNews, Codes

\* Deleting connections together with the users bound to them, and users that no
\* connection is bound to, keeps the inductive invariant.
LEMMA CutInv ==
  ASSUME IInv, NEW S \in SUBSET open, NEW D \in SUBSET Uids, NEW more \in SUBSET Msgs,
         \A s \in S : bound[s] = NoUser \/ bound[s] \in D,
         \A s \in Sockets \ S : bound[s] \notin D,
         QueueStep(S, D), Cut(S, D, more)
  PROVE  IInv'
<1> USE DEF Cut, Detach, Erase, Unlist
<1>1. TypeOK'
  <2>1. Kicks(D) \subseteq Msgs
    BY KicksType
  <2>2. sent' \subseteq Msgs
    BY <2>1
  <2>3. listed' \in [Games -> SUBSET Uids]
    BY DEF IInv, TypeOK
  <2>4. bound' \in [Sockets -> Uids \cup {NoUser}] /\ key' \in [Sockets -> Nat]
    BY DEF IInv, TypeOK
  <2>5. mixed' \subseteq Users'
    BY DEF IInv, TypeOK, Users
  <2> QED BY <2>2, <2>3, <2>4, <2>5 DEF IInv, TypeOK, QueueStep
<1>2. BindingAgrees'
  BY DEF IInv, TypeOK, BindingAgrees, Users
<1>3. ConnectedIffSocket'
  BY DEF IInv, TypeOK, BindingAgrees, ConnectedIffSocket, Connected, GateStates, LoginStates
<1>4. NewestLoginPlays'
  BY DEF IInv, TypeOK, BindingAgrees, NewestLoginPlays, Users
<1>5. Watched'
  BY DEF IInv, TypeOK, BindingAgrees, Watched, QueueStep, GateStates
<1>6. ListedInScene'
  BY DEF IInv, TypeOK, ListedInScene, Hosts
<1> QED BY <1>1, <1>2, <1>3, <1>4, <1>5, <1>6 DEF IInv

\* del_socket(s, true) and "delete the user with its connection, if any" are
\* such deletions, because the links agree.
LEMMA DropSocketInv ==
  ASSUME IInv, NEW s \in Sockets, NEW more \in SUBSET Msgs,
         QueueStep({s} \cap open, {bound[s]} \ {NoUser}), DropSocket(s, more)
  PROVE  IInv'
<1>1. CASE s \in open
  <2>1. {s} \in SUBSET open /\ {bound[s]} \ {NoUser} \in SUBSET Uids
    BY <1>1 DEF IInv, TypeOK
  <2>2. \A x \in Sockets \ {s} : bound[x] \notin {bound[s]} \ {NoUser}
    BY DEF IInv, BindingAgrees
  <2>3. QueueStep({s}, {bound[s]} \ {NoUser})
    BY <1>1 DEF QueueStep
  <2>4. Cut({s}, {bound[s]} \ {NoUser}, more)
    BY <1>1 DEF DropSocket
  <2> QED BY <2>1, <2>2, <2>3, <2>4, CutInv
<1>2. CASE s \notin open
  <2>1. {bound[s]} \ {NoUser} = {}
    BY <1>2 DEF IInv, BindingAgrees, TypeOK
  <2>2. QueueStep({}, {})
    BY <1>2, <2>1 DEF QueueStep
  <2>3. Cut({}, {}, more)
    BY <1>2 DEF DropSocket
  <2> QED BY <2>2, <2>3, CutInv
<1> QED BY <1>1, <1>2

LEMMA DropUserInv ==
  ASSUME IInv, NEW u \in Uids, NEW more \in SUBSET Msgs,
         QueueStep({client[u]} \cap open, {u}), DropUser(u, more)
  PROVE  IInv'
<1>1. CASE client[u] = NoSock
  <2>1. QueueStep({}, {u})
    BY <1>1 DEF QueueStep, IInv, TypeOK
  <2>2. Cut({}, {u}, more)
    BY <1>1 DEF DropUser
  <2>3. \A s \in Sockets : bound[s] \notin {u}
    BY <1>1 DEF IInv, BindingAgrees
  <2> QED BY <2>1, <2>2, <2>3, CutInv
<1>2. CASE client[u] # NoSock
  <2>1. client[u] \in Sockets
    BY <1>2 DEF IInv, TypeOK
  <2>2. u \in mixed \/ bound[client[u]] = u
    BY <1>2 DEF IInv, BindingAgrees
  <2>3. QueueStep({client[u]} \cap open, {bound[client[u]]} \ {NoUser})
    BY <2>2 DEF QueueStep
  <2>4. DropSocket(client[u], more)
    BY <1>2 DEF DropUser
  <2> QED BY <2>1, <2>3, <2>4, DropSocketInv
<1> QED BY <1>1, <1>2

\* Going offline releases the connection and arms the reconnect timer.
LEMMA GoOfflineInv ==
  ASSUME IInv, NEW u \in Uids, state[u] \in Connected \ {"GATE"}, NEW more \in SUBSET Msgs,
         QueueStep({client[u]} \cap open, {u}), GoOffline(u, more)
  PROVE  IInv'
<1> USE DEF GoOffline, Park, Detach, gameVars
<1>0. /\ u \notin mixed => client[u] \in open /\ client[u] # NoSock /\ bound[client[u]] = u
      /\ u \in mixed /\ client[u] \in open /\ bound[client[u]] # u => bound[client[u]] \in mixed
  BY DEF IInv, ConnectedIffSocket, BindingAgrees
<1>a. /\ mixed' = mixed /\ mixed \subseteq Users
      /\ \A v \in Uids \ {u} : state'[v] = state[v] /\ timer'[v] = timer[v]
      /\ state'[u] = "OFFLINE" /\ timer'[u] = "reconnect"
  BY DEF IInv, TypeOK
<1>1. TypeOK'
  BY DEF IInv, TypeOK, QueueStep, UserStates, Users
<1>2. BindingAgrees'
  BY <1>0 DEF IInv, TypeOK, BindingAgrees, Users
<1>3. ConnectedIffSocket'
  BY <1>0, <1>a DEF IInv, TypeOK, BindingAgrees, ConnectedIffSocket, Connected, GateStates, LoginStates
<1>4. NewestLoginPlays'
  BY DEF IInv, TypeOK, BindingAgrees, NewestLoginPlays, Connected, GateStates, LoginStates, Users
<1>5. Watched'
  BY <1>0, <1>a DEF IInv, TypeOK, BindingAgrees, Watched, QueueStep, GateStates
<1>6. ListedInScene'
  BY DEF IInv, TypeOK, ListedInScene, Hosts, Connected
<1> QED BY <1>1, <1>2, <1>3, <1>4, <1>5, <1>6 DEF IInv

\* Connections: being accepted, vanishing, and being bound to a user.
LEMMA AddClientInv == ASSUME IInv, NEW s \in Sockets, AddClient(s) PROVE IInv'
<1> USE DEF AddClient, Unused, Dispatch, userVars, gameVars
<1>1. TypeOK'             BY DEF IInv, TypeOK, Users
<1>2. BindingAgrees'      BY DEF IInv, TypeOK, BindingAgrees, Users
<1>3. ConnectedIffSocket' BY DEF IInv, ConnectedIffSocket
<1>4. NewestLoginPlays'   BY DEF IInv, NewestLoginPlays, Users
<1>5. Watched'            BY DEF IInv, Watched
<1>6. ListedInScene'      BY DEF IInv, ListedInScene, Hosts
<1> QED BY <1>1, <1>2, <1>3, <1>4, <1>5, <1>6 DEF IInv

LEMMA VanishInv == ASSUME IInv, NEW s \in Sockets, Vanish(s) PROVE IInv'
<1> USE DEF Vanish, userVars, gameVars, queueVars
<1>1. TypeOK'             BY DEF IInv, TypeOK, Users
<1>2. BindingAgrees'      BY DEF IInv, BindingAgrees
<1>3. ConnectedIffSocket' BY DEF IInv, ConnectedIffSocket
<1>4. NewestLoginPlays'   BY DEF IInv, NewestLoginPlays, Users
<1>5. Watched'            BY DEF IInv, Watched
<1>6. ListedInScene'      BY DEF IInv, ListedInScene, Hosts
<1> QED BY <1>1, <1>2, <1>3, <1>4, <1>5, <1>6 DEF IInv

\* Only users that shared a connection have links to closed ones.
LEMMA DestroyInv == ASSUME IInv, NEW s \in Sockets, Destroy(s) PROVE IInv'
<1> USE DEF Destroy, userVars, gameVars, queueVars
<1>1. TypeOK'             BY DEF IInv, TypeOK, Users
<1>2. BindingAgrees'      BY DEF IInv, TypeOK, BindingAgrees, Users
<1>3. ConnectedIffSocket' BY DEF IInv, TypeOK, BindingAgrees, ConnectedIffSocket
<1>4. NewestLoginPlays'   BY DEF IInv, NewestLoginPlays, Users
<1>5. Watched'            BY DEF IInv, Watched
<1>6. ListedInScene'      BY DEF IInv, ListedInScene, Hosts
<1> QED BY <1>1, <1>2, <1>3, <1>4, <1>5, <1>6 DEF IInv

\* Nobody is bound to a user that may be bound, in INIT or OFFLINE.  The connection is
\* free, or its user and the new one are mixed from now on; an old connection of the
\* user is bound to nobody that is not mixed already.
LEMMA BindInv ==
  ASSUME IInv, NEW s \in Sockets, NEW u \in Uids, NEW k \in Nat,
         Dispatch, s \in open, state[u] \in {"INIT", "OFFLINE"}, k = session[u],
         client[u] # s, Bind(s, u, k)
  PROVE  IInv'
<1> DEFINE old == {client[u]} \cap open
<1>0. \A x \in Sockets : bound[x] # u
  BY DEF IInv, ConnectedIffSocket, Connected, GateStates, LoginStates, SentinelAssumption
<1>a. /\ open' = open \ old
      /\ dead' = dead \ old
      /\ sessTimer' = sessTimer \ (old \cup {s})
      /\ bound' = [x \in Sockets |->
                     IF x = s THEN u ELSE IF x \in old THEN NoUser ELSE bound[x]]
      /\ key' = [x \in Sockets |-> IF x = s THEN k ELSE IF x \in old THEN 0 ELSE key[x]]
      /\ client' = [v \in Uids |->
                      IF v = u THEN s ELSE IF \E x \in old : bound[x] = v THEN NoSock ELSE client[v]]
      /\ mixed' = mixed \cup (IF bound[s] \in Uids \ {u} THEN {bound[s], u} ELSE {})
      /\ sent' = {}
      /\ UNCHANGED <<session, creating, games, listed, logins, due>>
      /\ ahead' \in 0..MaxAhead
  BY DEF Bind, gameVars, Dispatch, IInv, TypeOK
<1>b. /\ state' \in [Uids -> UserStates \cup {"NONE"}]
      /\ timer' \in [Uids -> {"none", "pingpong", "reconnect"}]
      /\ state'[u] = IF state[u] = "INIT" THEN "GATE" ELSE "REGATE"
      /\ timer'[u] = "pingpong"
      /\ \A v \in Uids \ {u} : state'[v] = state[v] /\ timer'[v] = timer[v]
  BY DEF Bind, IInv, TypeOK, UserStates, Connected, GateStates
<1>c. s \notin old /\ (bound[s] = NoUser \/ bound[s] \in Uids \ {u})
  BY <1>0 DEF IInv, TypeOK
<1>d. \A x \in old : bound[x] \in mixed
  <2>1. CASE u \in mixed
    BY <1>0, <2>1 DEF IInv, TypeOK, BindingAgrees
  <2>2. CASE u \notin mixed
    BY <1>0, <2>2 DEF IInv, TypeOK, BindingAgrees
  <2> QED BY <2>1, <2>2
<1>e. \A x \in Sockets : bound[x] # NoUser => bound[x] \in Users /\ client[bound[x]] = x /\ x \in open
  BY DEF IInv, TypeOK, BindingAgrees, ConnectedIffSocket, Users, Connected, GateStates, LoginStates
<1>f. mixed \subseteq Users
  BY DEF IInv, TypeOK
<1>g. old \subseteq Sockets
  BY DEF IInv, TypeOK
<1> HIDE DEF old
<1>1. TypeOK'
  <2>1. mixed' \subseteq Users'
    BY <1>a, <1>b, <1>c, <1>e, <1>f DEF IInv, TypeOK, Users
  <2>2. /\ bound' \in [Sockets -> Uids \cup {NoUser}] /\ key' \in [Sockets -> Nat]
        /\ client' \in [Uids -> Sockets \cup {NoSock}]
    BY <1>a DEF IInv, TypeOK
  <2> QED BY <1>a, <1>b, <2>1, <2>2 DEF IInv, TypeOK
<1>2. BindingAgrees'
  <2>1. ASSUME NEW x \in Sockets, bound'[x] # NoUser
        PROVE  x \in open' /\ client'[bound'[x]] = x
    <3>1. CASE x = s
      BY <1>a, <1>c, <3>1
    <3>2. CASE x # s
      <4>1. x \notin old /\ bound'[x] = bound[x] /\ bound[x] # NoUser
        BY <1>a, <2>1, <3>2
      <4>2. bound[x] \in Uids \ {u} /\ client[bound[x]] = x /\ x \in open
        BY <1>0, <1>e, <4>1 DEF IInv, TypeOK
      <4>3. \A y \in old : bound[y] # bound[x]
        BY <1>e, <1>g, <4>1, <4>2
      <4> QED BY <1>a, <4>1, <4>2, <4>3
    <3> QED BY <3>1, <3>2
  <2>2. ASSUME NEW w \in Uids \ mixed', client'[w] # NoSock
        PROVE  client'[w] \in open' /\ bound'[client'[w]] = w
    <3>1. CASE w = u
      BY <1>a, <1>c, <3>1
    <3>2. CASE w # u
      <4>1. client[w] \in open /\ bound[client[w]] = w /\ client'[w] = client[w]
        BY <1>a, <2>2, <3>2 DEF IInv, BindingAgrees
      <4>2. client[w] # s /\ client[w] \notin old
        BY <1>a, <1>c, <2>2, <3>2, <4>1
      <4> QED BY <1>a, <4>1, <4>2 DEF IInv, TypeOK
    <3> QED BY <3>1, <3>2
  <2>3. ASSUME NEW w \in mixed', client'[w] \in open', bound'[client'[w]] # w
        PROVE  bound'[client'[w]] \in mixed'
    <3>1. w \in Uids /\ w # u
      BY <1>a, <1>f, <2>3 DEF IInv, TypeOK, Users
    <3>2. client'[w] = client[w] /\ client[w] \in open /\ client[w] \notin old /\ client[w] \in Sockets
      BY <1>a, <2>3, <3>1 DEF IInv, TypeOK
    <3>3. bound[client[w]] # w => bound[client[w]] \in mixed
      BY <3>1, <3>2 DEF IInv, TypeOK, BindingAgrees
    <3>4. CASE client[w] = s
      BY <1>a, <1>c, <1>f, <3>1, <3>2, <3>3, <3>4 DEF Users
    <3>5. CASE client[w] # s
      BY <1>a, <2>3, <3>2, <3>3, <3>5
    <3> QED BY <3>4, <3>5
  <2> QED BY <2>1, <2>2, <2>3 DEF BindingAgrees
<1>3. ConnectedIffSocket'
  <2>1. ASSUME NEW w \in Uids \ mixed' PROVE state'[w] \in Connected <=> client'[w] # NoSock
    <3>1. CASE w = u
      BY <1>a, <1>b, <3>1 DEF Connected, GateStates, IInv, TypeOK
    <3>2. CASE w # u
      <4>1. client'[w] = client[w]
        BY <1>a, <1>d, <2>1, <3>2
      <4> QED BY <1>a, <1>b, <3>2, <4>1 DEF IInv, ConnectedIffSocket
    <3> QED BY <3>1, <3>2
  <2>2. ASSUME NEW x \in Sockets, bound'[x] # NoUser PROVE state'[bound'[x]] \in Connected
    <3>1. CASE x = s
      BY <1>a, <1>b, <3>1 DEF Connected, GateStates
    <3>2. CASE x # s
      <4>1. bound'[x] = bound[x] /\ bound[x] # NoUser /\ bound[x] \in Uids \ {u}
        BY <1>0, <1>a, <2>2, <3>2 DEF IInv, TypeOK
      <4> QED BY <1>b, <4>1 DEF IInv, ConnectedIffSocket
    <3> QED BY <3>1, <3>2
  <2> QED BY <2>1, <2>2 DEF ConnectedIffSocket
<1>4. NewestLoginPlays'
  BY <1>0, <1>a, <1>b DEF IInv, TypeOK, NewestLoginPlays, Users
<1>5. Watched'
  <2>1. ASSUME NEW x \in open', bound'[x] = NoUser
        PROVE  x \in sessTimer' \/ <<"session", x>> \in due'
    BY <1>a, <2>1 DEF IInv, TypeOK, Watched
  <2>2. ASSUME NEW w \in Uids \ mixed'
        PROVE  /\ state'[w] \in {"INIT", "LOGIN"} \cup GateStates =>
                    timer'[w] = "pingpong" \/ <<"pingpong", w>> \in due'
               /\ state'[w] = "OFFLINE" =>
                    timer'[w] = "reconnect" \/ <<"reconnect", w>> \in due'
    BY <1>a, <1>b, <2>2 DEF IInv, Watched
  <2> QED BY <2>1, <2>2 DEF Watched
<1>6. ListedInScene'
  BY <1>a, <1>b DEF IInv, TypeOK, ListedInScene, Hosts
<1> QED BY <1>1, <1>2, <1>3, <1>4, <1>5, <1>6 DEF IInv

LEMMA ConnectRequestInv ==
  ASSUME IInv, NEW s \in Sockets, NEW u \in Uids, NEW k \in 1..MaxLogins,
         ConnectRequest(s, u, k)
  PROVE  IInv'
<1>1. CASE /\ state[u] \in {"INIT", "OFFLINE"} /\ k = session[u] /\ client[u] # s
  <2>1. Dispatch /\ s \in open /\ Bind(s, u, k) /\ k \in Nat
    BY <1>1 DEF ConnectRequest
  <2> QED BY <1>1, <2>1, BindInv
<1>2. CASE ~(/\ state[u] \in {"INIT", "OFFLINE"} /\ k = session[u] /\ client[u] # s)
  <2>1. Dispatch /\ DropSocket(s, {})
    BY <1>2 DEF ConnectRequest
  <2>2. QueueStep({s} \cap open, {bound[s]} \ {NoUser})
    BY <2>1, DispatchQueue DEF IInv
  <2> QED BY <2>1, <2>2, DropSocketInv
<1> QED BY <1>1, <1>2

\* Messages of a bound client that keep the connection.
LEMMA PingInv ==
  ASSUME IInv, NEW s \in Sockets, NEW u \in Uids,
         Pingpong(s, u) \/ Lock(s, u) \/ Unlock(s, u)
  PROVE  IInv'
<1> USE DEF Pingpong, Lock, Unlock, Dispatch, linkVars, gameVars
<1>1. TypeOK'             BY DEF IInv, TypeOK, Users
<1>2. BindingAgrees'      BY DEF IInv, BindingAgrees
<1>3. ConnectedIffSocket' BY DEF IInv, ConnectedIffSocket
<1>4. NewestLoginPlays'   BY DEF IInv, NewestLoginPlays, Users
<1>5. Watched'            BY DEF IInv, TypeOK, Watched, Connected, GateStates, LoginStates
<1>6. ListedInScene'      BY DEF IInv, ListedInScene, Hosts
<1> QED BY <1>1, <1>2, <1>3, <1>4, <1>5, <1>6 DEF IInv

LEMMA LoginGameInv ==
  ASSUME IInv, NEW s \in Sockets, NEW u \in Uids, LoginGame(s, u)
  PROVE  IInv'
<1> USE DEF LoginGame, Dispatch, linkVars, gameVars
<1>1. TypeOK'
  BY DEF IInv, TypeOK, Users, Msg, Msgs, UserStates, Connected, LoginStates
<1>2. BindingAgrees'      BY DEF IInv, BindingAgrees
<1>3. ConnectedIffSocket'
  BY DEF IInv, TypeOK, ConnectedIffSocket, Connected, GateStates, LoginStates
<1>4. NewestLoginPlays'   BY DEF IInv, TypeOK, NewestLoginPlays, Users, GateStates
<1>5. Watched'            BY DEF IInv, TypeOK, Watched, GateStates
<1>6. ListedInScene'      BY DEF IInv, TypeOK, ListedInScene, Hosts
<1> QED BY <1>1, <1>2, <1>3, <1>4, <1>5, <1>6 DEF IInv

\* The create flag, which nothing else depends on.
LEMMA CreateInv ==
  ASSUME IInv, NEW u \in Uids,
         (\E s \in Sockets : CreateRole(s, u)) \/ CreateStale(u) \/ CreateReply(u)
  PROVE  IInv'
<1> USE DEF CreateRole, CreateStale, CreateReply, Dispatch, linkVars, gameVars, queueVars
<1>0. Msg("center", "create", u, "-") \in Msgs
  BY DEF Msg, Msgs
<1>1. TypeOK'
  <2>1. sent' \subseteq Msgs /\ ahead' \in 0..MaxAhead
    BY <1>0 DEF IInv, TypeOK
  <2>2. creating' \in [Uids -> BOOLEAN]
    BY Zenon DEF IInv, TypeOK
  <2> QED BY <2>1, <2>2 DEF IInv, TypeOK, Users
<1>2. BindingAgrees'      BY DEF IInv, BindingAgrees
<1>3. ConnectedIffSocket' BY DEF IInv, ConnectedIffSocket
<1>4. NewestLoginPlays'   BY DEF IInv, NewestLoginPlays, Users
<1>5. Watched'            BY DEF IInv, Watched
<1>6. ListedInScene'      BY DEF IInv, ListedInScene, Hosts
<1> QED BY <1>1, <1>2, <1>3, <1>4, <1>5, <1>6 DEF IInv

LEMMA MsgBombInv ==
  ASSUME IInv, NEW s \in Sockets, NEW u \in Uids, MsgBomb(s, u)
  PROVE  IInv'
<1>1. PICK host \in HostOf(u) :
        DropSocket(s, IF state[u] \in LoginStates THEN Unreg(u, "LOGOUT", host) ELSE {})
  BY DEF MsgBomb
<1>2. (IF state[u] \in LoginStates THEN Unreg(u, "LOGOUT", host) ELSE {}) \subseteq Msgs
  BY UnregType DEF IInv, Codes
<1>3. QueueStep({s} \cap open, {bound[s]} \ {NoUser})
  BY DispatchQueue DEF MsgBomb, IInv
<1> QED BY <1>1, <1>2, <1>3, DropSocketInv

LEMMA DelClientInv ==
  ASSUME IInv, NEW s \in Sockets, DelClient(s)
  PROVE  IInv'
<1> DEFINE u == bound[s]
<1>1. Dispatch /\ s \in open
  BY DEF DelClient
<1>2. QueueStep({s} \cap open, {bound[s]} \ {NoUser})
  BY <1>1, DispatchQueue DEF IInv
<1>3. CASE DropSocket(s, {})
  BY <1>2, <1>3, DropSocketInv
<1>4. CASE ~DropSocket(s, {})
  <2>1. /\ u \in Uids /\ client[u] = s /\ state[u] \in {"REGATE"} \cup LoginStates
        /\ \E host \in HostOf(u) : GoOffline(u, OfflineNews(u, host))
    BY <1>1, <1>4 DEF DelClient, IInv, TypeOK
  <2>2. PICK host \in HostOf(u) : GoOffline(u, OfflineNews(u, host))
    BY <2>1
  <2>3. QueueStep({client[u]} \cap open, {u})
    BY <1>1, DispatchQueue DEF IInv
  <2>4. state[u] \in Connected \ {"GATE"}
    BY <2>1 DEF Connected, GateStates, LoginStates
  <2>5. OfflineNews(u, host) \subseteq Msgs
    BY <2>1, OfflineNewsType DEF IInv
  <2> HIDE DEF u
  <2> QED BY <2>1, <2>2, <2>3, <2>4, <2>5, GoOfflineInv
<1> QED BY <1>3, <1>4

\* Timers: running out, and the three handlers.
LEMMA ExpireInv ==
  ASSUME IInv, \/ \E s \in Sockets : SessionExpire(s)
               \/ \E u \in Uids : TimerExpire(u)
  PROVE  IInv'
<1> USE DEF SessionExpire, TimerExpire, Queue, userVars, linkVars, gameVars
<1>1. TypeOK'
  <2>1. CASE \E s \in Sockets : SessionExpire(s)
    BY <2>1 DEF IInv, TypeOK, Callbacks, Users
  <2>2. CASE \E u \in Uids : TimerExpire(u)
    <3>1. PICK u \in Uids : TimerExpire(u)
      BY <2>2
    <3>2. <<timer[u], u>> \in Callbacks
      BY <3>1 DEF IInv, TypeOK, Callbacks
    <3> QED BY <3>1, <3>2 DEF IInv, TypeOK, Users
  <2> QED BY <2>1, <2>2
<1>2. BindingAgrees'      BY DEF IInv, BindingAgrees
<1>3. ConnectedIffSocket' BY DEF IInv, ConnectedIffSocket
<1>4. NewestLoginPlays'   BY DEF IInv, NewestLoginPlays, Users
<1>5. Watched'
  <2>1. Watched /\ timer \in [Uids -> {"none", "pingpong", "reconnect"}]
    BY DEF IInv, TypeOK
  <2>2. CASE \E s \in Sockets : SessionExpire(s)
    BY <2>1, <2>2 DEF Watched
  <2>3. CASE \E u \in Uids : TimerExpire(u)
    BY <2>1, <2>3 DEF Watched
  <2> QED BY <2>2, <2>3
<1>6. ListedInScene'      BY DEF IInv, ListedInScene, Hosts
<1> QED BY <1>1, <1>2, <1>3, <1>4, <1>5, <1>6 DEF IInv

LEMMA SessionTimeoutInv ==
  ASSUME IInv, NEW s \in Sockets, SessionTimeout(s)
  PROVE  IInv'
<1>1. QueueStep({s} \cap open, {bound[s]} \ {NoUser})
  BY DEF SessionTimeout, RunQueued, QueueStep, IInv, TypeOK
<1> QED BY <1>1, DropSocketInv DEF SessionTimeout

LEMMA PingpongTimeoutInv ==
  ASSUME IInv, NEW u \in Uids, PingpongTimeout(u)
  PROVE  IInv'
<1> USE DEF PingpongTimeout
<1>1. RunQueued(<<"pingpong", u>>)
  OBVIOUS
<1>2. QueueStep({client[u]} \cap open, {u})
  BY <1>1 DEF RunQueued, QueueStep, IInv, TypeOK
<1>a. CASE state[u] = "INIT" /\ Cut({}, {u}, {})
  <2>1. \A s \in Sockets \ {} : bound[s] \notin {u}
    BY <1>a DEF IInv, ConnectedIffSocket, Connected, GateStates, LoginStates
  <2>2. QueueStep({}, {u})
    BY <1>1 DEF RunQueued, QueueStep, IInv, TypeOK
  <2> QED BY <1>a, <2>1, <2>2, CutInv
<1>3. CASE state[u] = "GATE" /\ DropUser(u, {})
  BY <1>2, <1>3, DropUserInv
<1>4. CASE /\ state[u] \in {"REGATE"} \cup LoginStates
           /\ \E host \in HostOf(u) : GoOffline(u, OfflineNews(u, host))
  <2>1. PICK host \in HostOf(u) : GoOffline(u, OfflineNews(u, host))
    BY <1>4
  <2>2. OfflineNews(u, host) \subseteq Msgs
    BY OfflineNewsType DEF IInv
  <2>3. state[u] \in Connected \ {"GATE"}
    BY <1>4 DEF Connected, GateStates, LoginStates
  <2> QED BY <1>2, <2>1, <2>2, <2>3, GoOfflineInv
<1>5. CASE state[u] \in {"OFFLINE", "NONE"} /\ Cut({}, {}, {})
  <2>1. QueueStep({}, {})
    BY <1>1, <1>5 DEF RunQueued, QueueStep, IInv, TypeOK
  <2> QED BY <1>5, <2>1, CutInv
<1> QED BY <1>a, <1>3, <1>4, <1>5

LEMMA ReconnectTimeoutInv ==
  ASSUME IInv, NEW u \in Uids, ReconnectTimeout(u)
  PROVE  IInv'
<1>1. RunQueued(<<"reconnect", u>>)
  BY DEF ReconnectTimeout
<1>2. CASE state[u] = "NONE"
  <2>1. Cut({}, {}, {})
    BY <1>2 DEF ReconnectTimeout
  <2>2. QueueStep({}, {})
    BY <1>1, <1>2 DEF RunQueued, QueueStep, IInv, TypeOK
  <2> QED BY <2>1, <2>2, CutInv
<1>3. CASE state[u] # "NONE"
  <2>1. PICK host \in HostOf(u) : DropUser(u, Unreg(u, "LOGOUT", host))
    BY <1>3 DEF ReconnectTimeout
  <2>2. Unreg(u, "LOGOUT", host) \subseteq Msgs
    BY UnregType DEF IInv, Codes
  <2>3. QueueStep({client[u]} \cap open, {u})
    BY <1>1 DEF RunQueued, QueueStep, IInv, TypeOK
  <2> QED BY <1>3, <2>1, <2>2, <2>3, DropUserInv
<1> QED BY <1>2, <1>3

\* Messages of login, center and the games.
LEMMA LoginRequestInv ==
  ASSUME IInv, NEW u \in Uids, LoginRequest(u)
  PROVE  IInv'
<1> DEFINE S == Kicked(u)
<1>0. /\ S \subseteq open
      /\ \A x \in Sockets : bound[x] = u => x \in S
      /\ \A x \in S : bound[x] = u \/ bound[x] \in mixed
      /\ u \notin mixed /\ client[u] # NoSock => client[u] \in S
  <2>1. \A x \in Sockets : bound[x] = u => client[u] = x /\ x \in open /\ state[u] \in Connected
    BY DEF IInv, TypeOK, BindingAgrees, ConnectedIffSocket
  <2>2. u \notin mixed /\ client[u] # NoSock
          => client[u] \in open /\ bound[client[u]] = u /\ state[u] \in Connected
    BY DEF IInv, BindingAgrees, ConnectedIffSocket
  <2>3. \A x \in S : x = client[u] /\ x \in open /\ x \in Sockets
    BY DEF Kicked, IInv, TypeOK
  <2>4. \A x \in S : bound[x] = u \/ bound[x] \in mixed
    BY <2>2, <2>3 DEF IInv, TypeOK, BindingAgrees
  <2>5. \A x \in Sockets : bound[x] = u => x \in S
    BY <2>1 DEF Kicked
  <2>6. u \notin mixed /\ client[u] # NoSock => client[u] \in S
    BY <2>2 DEF Kicked
  <2> QED BY <2>3, <2>4, <2>5, <2>6
<1>a. /\ open' = open \ S /\ sessTimer' = sessTimer \ S /\ dead' = dead \ S
      /\ mixed' = mixed
      /\ bound' = [x \in Sockets |-> IF x \in S THEN NoUser ELSE bound[x]]
      /\ key' = [x \in Sockets |-> IF x \in S THEN 0 ELSE key[x]]
      /\ client' = [v \in Uids |-> IF \E x \in S : bound[x] = v THEN NoSock ELSE client[v]]
  BY DEF LoginRequest, Detach, IInv, TypeOK
<1>b. /\ state' \in [Uids -> UserStates \cup {"NONE"}]
      /\ timer' \in [Uids -> {"none", "pingpong", "reconnect"}]
      /\ session' \in [Uids -> Nat] /\ logins' \in [Uids -> 0..MaxLogins]
      /\ state'[u] = IF FirstLogin(u) THEN "INIT" ELSE "OFFLINE"
      /\ timer'[u] = IF FirstLogin(u) THEN "pingpong"
                     ELSE IF state[u] = "OFFLINE" THEN timer[u] ELSE "reconnect"
      /\ session'[u] = logins'[u]
      /\ \A v \in Uids \ {u} : /\ state'[v] = state[v] /\ timer'[v] = timer[v]
                              /\ session'[v] = session[v] /\ logins'[v] = logins[v]
  BY DEF LoginRequest, IInv, TypeOK, UserStates
<1>c. UNCHANGED <<creating, games, listed, due>> /\ ahead' \in 0..MaxAhead
  BY DEF LoginRequest, Dispatch, gameVars, IInv, TypeOK
<1> HIDE DEF S
<1>1. TypeOK'
  <2>1. sent' \subseteq Msgs
    <3>1. PICK host \in HostOf(u) :
            sent' = OfflineNews(u, host) \cup {Msg("login", "reply", u, "-")}
      BY DEF LoginRequest
    <3>2. OfflineNews(u, host) \subseteq Msgs
      BY OfflineNewsType DEF IInv
    <3> QED BY <3>1, <3>2 DEF Msg, Msgs
  <2>2. /\ bound' \in [Sockets -> Uids \cup {NoUser}] /\ key' \in [Sockets -> Nat]
        /\ client' \in [Uids -> Sockets \cup {NoSock}]
    BY <1>a DEF IInv, TypeOK
  <2>3. mixed' \subseteq Users'
    BY <1>a, <1>b DEF IInv, TypeOK, Users
  <2> QED BY <1>a, <1>b, <1>c, <2>1, <2>2, <2>3 DEF IInv, TypeOK
<1>2. BindingAgrees'
  BY <1>0, <1>a DEF IInv, TypeOK, BindingAgrees, Users
<1>3. ConnectedIffSocket'
  <2>1. ASSUME NEW w \in Uids \ mixed' PROVE state'[w] \in Connected <=> client'[w] # NoSock
    <3>1. CASE w = u
      BY <1>0, <1>a, <1>b, <2>1, <3>1
         DEF IInv, TypeOK, BindingAgrees, Connected, GateStates, LoginStates
    <3>2. CASE w # u
      BY <1>0, <1>a, <1>b, <2>1, <3>2 DEF IInv, ConnectedIffSocket
    <3> QED BY <3>1, <3>2
  <2>2. ASSUME NEW x \in Sockets, bound'[x] # NoUser PROVE state'[bound'[x]] \in Connected
    BY <1>0, <1>a, <1>b, <2>2 DEF IInv, TypeOK, ConnectedIffSocket
  <2> QED BY <2>1, <2>2 DEF ConnectedIffSocket
<1>4. NewestLoginPlays'
  BY <1>0, <1>a, <1>b DEF IInv, TypeOK, NewestLoginPlays, Users
<1>5. Watched'
  BY <1>0, <1>a, <1>b, <1>c DEF IInv, TypeOK, Watched, GateStates, FirstLogin
<1>6. ListedInScene'
  BY <1>a, <1>b, <1>c DEF IInv, TypeOK, ListedInScene, Hosts, FirstLogin, UserStates, Connected,
     GateStates, LoginStates
<1> QED BY <1>1, <1>2, <1>3, <1>4, <1>5, <1>6 DEF IInv

LEMMA CenterUnregInv ==
  ASSUME IInv, NEW u \in Uids, NEW code \in Codes, CenterUnreg(u, code)
  PROVE  IInv'
<1> USE DEF CenterUnreg
<1>1. QueueStep({client[u]} \cap open, {u})
  BY DispatchQueue DEF IInv
<1>2. CASE code = "LOGOUT" /\ state[u] \in LoginStates /\ GoOffline(u, {})
  <2>1. state[u] \in Connected \ {"GATE"}
    BY <1>2 DEF Connected, LoginStates
  <2> QED BY <1>1, <1>2, <2>1, GoOfflineInv
<1>3. CASE DropUser(u, {})
  BY <1>1, <1>3, DropUserInv
<1>4. CASE code = "BAN" /\ ~DropUser(u, {})
  <2> DEFINE News(host) == IF state[u] = "SCENE" THEN Unreg(u, "LOGOUT", host) ELSE {}
  <2>1. PICK host \in HostOf(u) :
          IF client[u] = NoSock THEN Cut({}, {}, News(host)) ELSE DropSocket(client[u], News(host))
    BY <1>4
  <2>2. News(host) \subseteq Msgs
    BY UnregType DEF IInv, Codes
  <2>3. QueueStep({}, {})
    BY DispatchQueue DEF IInv
  <2>4. QueueStep({client[u]} \cap open, {bound[client[u]]} \ {NoUser})
    BY DispatchQueue DEF IInv
  <2>5. client[u] # NoSock => client[u] \in Sockets
    BY DEF IInv, TypeOK
  <2> HIDE DEF News
  <2>6. CASE client[u] = NoSock
    BY <2>1, <2>2, <2>3, <2>6, CutInv
  <2>7. CASE client[u] # NoSock
    BY <2>1, <2>2, <2>4, <2>5, <2>7, DropSocketInv
  <2> QED BY <2>6, <2>7
<1> QED BY <1>2, <1>3, <1>4

LEMMA ClearAllInv == ASSUME IInv, ClearAll PROVE IInv'
<1>1. QueueStep(open, Users)
  BY DispatchQueue DEF ClearAll, IInv
<1>2. /\ \A s \in open : bound[s] = NoUser \/ bound[s] \in Users
      /\ \A s \in Sockets \ open : bound[s] \notin Users
  BY DEF IInv, TypeOK, BindingAgrees, ConnectedIffSocket, Users, Connected, GateStates, LoginStates
<1>3. {Msg("login", "kick_all", NoUser, "-")} \in SUBSET Msgs
  BY DEF Msg, Msgs
<1>4. Users \in SUBSET Uids
  BY DEF Users
<1> QED BY <1>1, <1>2, <1>3, <1>4, CutInv DEF ClearAll

LEMMA AddGameInv == ASSUME IInv, NEW g \in Games, AddGame(g) PROVE IInv'
<1> USE DEF AddGame, Dispatch, userVars, linkVars
<1>1. TypeOK'             BY DEF IInv, TypeOK, Users
<1>2. BindingAgrees'      BY DEF IInv, BindingAgrees
<1>3. ConnectedIffSocket' BY DEF IInv, ConnectedIffSocket
<1>4. NewestLoginPlays'   BY DEF IInv, NewestLoginPlays, Users
<1>5. Watched'            BY DEF IInv, Watched
<1>6. ListedInScene'      BY DEF IInv, ListedInScene, Hosts
<1> QED BY <1>1, <1>2, <1>3, <1>4, <1>5, <1>6 DEF IInv

LEMMA DelGameInv == ASSUME IInv, NEW g \in Games, DelGame(g) PROVE IInv'
<1> DEFINE L == listed[g] \cap Users
           S == {client[u] : u \in L} \cap open
           D == {u \in L : client[u] = NoSock} \cup ({bound[s] : s \in S} \ {NoUser})
<1> USE DEF DelGame, Dispatch, Detach, Erase, Unlist
<1>0. /\ D \subseteq Uids /\ S \subseteq open
      /\ \A s \in S : bound[s] = NoUser \/ bound[s] \in D
      /\ \A s \in Sockets \ S : bound[s] \notin D
      /\ \A u \in listed[g] : u \in D \/ u \in mixed
  <2>1. L = listed[g] /\ L \subseteq Uids
    BY DEF IInv, TypeOK, Users, ListedInScene
  <2>2. S \subseteq open /\ open \subseteq Sockets /\ bound \in [Sockets -> Uids \cup {NoUser}]
    BY DEF IInv, TypeOK
  <2>3. D \subseteq Uids
    BY <2>1, <2>2
  <2>4. ASSUME NEW s \in Sockets \ S, bound[s] \in D PROVE FALSE
    <3>1. client[bound[s]] = s /\ s # NoSock
      BY <2>3, <2>4 DEF IInv, BindingAgrees
    <3>2. PICK x \in S : bound[s] = bound[x]
      BY <2>4, <3>1
    <3> QED BY <2>2, <2>3, <2>4, <3>1, <3>2 DEF IInv, BindingAgrees
  <2>5. ASSUME NEW u \in listed[g] PROVE u \in D \/ u \in mixed
    <3>1. CASE client[u] = NoSock
      BY <2>1, <3>1
    <3>2. CASE client[u] # NoSock /\ u \notin mixed
      <4>1. client[u] \in S /\ bound[client[u]] = u /\ u \in Uids
        BY <2>1, <3>2 DEF IInv, BindingAgrees
      <4> QED BY <4>1
    <3> QED BY <3>1, <3>2
  <2> QED BY <2>2, <2>3, <2>4, <2>5
<1>a. /\ mixed' = mixed \ D
      /\ open' = open \ S /\ sessTimer' = sessTimer \ S /\ dead' = dead \ S
      /\ bound' = [s \in Sockets |->
                     IF s \in S \/ bound[s] \in D THEN NoUser ELSE bound[s]]
      /\ key' = [s \in Sockets |-> IF s \in S \/ bound[s] \in D THEN 0 ELSE key[s]]
      /\ client' = [u \in Uids |->
                     IF u \in D \/ (\E s \in S : bound[s] = u) THEN NoSock ELSE client[u]]
  OBVIOUS
<1>b. /\ state'    = [u \in Uids |-> IF u \in D THEN "NONE" ELSE state[u]]
      /\ timer'    = [u \in Uids |-> IF u \in D THEN "none" ELSE timer[u]]
      /\ session'  = [u \in Uids |-> IF u \in D THEN 0 ELSE session[u]]
      /\ creating' = [u \in Uids |-> IF u \in D THEN FALSE ELSE creating[u]]
  OBVIOUS
<1>c. /\ games' = games \ {g} /\ sent' = Kicks(D)
      /\ listed' = [[h \in Games |-> listed[h] \ D] EXCEPT ![g] = {}]
      /\ UNCHANGED <<due, logins>> /\ ahead' \in 0..MaxAhead
  BY DEF IInv, TypeOK
<1> HIDE DEF L, D, S, DelGame, Dispatch, Detach, Erase, Unlist
<1>d. /\ \A h \in Games : listed'[h] = IF h = g THEN {} ELSE listed[h] \ D
      /\ listed' \in [Games -> SUBSET Uids]
  <2>1. listed \in [Games -> SUBSET Uids]
    BY DEF IInv, TypeOK
  <2>2. [h \in Games |-> listed[h] \ D] \in [Games -> SUBSET Uids]
    BY <2>1
  <2> QED BY <1>c, <2>1, <2>2
<1>1. TypeOK'
  <2>1. sent' \subseteq Msgs
    BY <1>0, <1>c, KicksType
  <2>2. creating' \in [Uids -> BOOLEAN]
    BY <1>b DEF IInv, TypeOK
  <2>3. bound' \in [Sockets -> Uids \cup {NoUser}] /\ key' \in [Sockets -> Nat]
    BY <1>a DEF IInv, TypeOK
  <2>4. client' \in [Uids -> Sockets \cup {NoSock}] /\ session' \in [Uids -> Nat]
    BY <1>a, <1>b DEF IInv, TypeOK
  <2>5. /\ state' \in [Uids -> UserStates \cup {"NONE"}]
        /\ timer' \in [Uids -> {"none", "pingpong", "reconnect"}]
    BY <1>b DEF IInv, TypeOK
  <2>6. mixed' \subseteq Users'
    BY <1>a, <1>b DEF IInv, TypeOK, Users
  <2> QED BY <1>a, <1>c, <1>d, <2>1, <2>2, <2>3, <2>4, <2>5, <2>6 DEF IInv, TypeOK
<1>2. BindingAgrees'
  BY <1>0, <1>a DEF IInv, TypeOK, BindingAgrees, Users
<1>3. ConnectedIffSocket'
  BY <1>0, <1>a, <1>b DEF IInv, TypeOK, BindingAgrees, ConnectedIffSocket, Connected, GateStates, LoginStates
<1>4. NewestLoginPlays'
  BY <1>0, <1>a, <1>b, <1>c DEF IInv, TypeOK, BindingAgrees, NewestLoginPlays, Users
<1>5. Watched'
  BY <1>0, <1>a, <1>b, <1>c DEF IInv, TypeOK, BindingAgrees, Watched, GateStates
<1>6. ListedInScene'
  <2>1. ASSUME NEW u \in Uids \ mixed', state'[u] = "SCENE" PROVE Hosts(u)' # {}
    <3>1. u \notin D /\ u \notin mixed /\ state[u] = "SCENE"
      BY <1>0, <1>a, <1>b, <2>1
    <3>2. PICK h \in games : u \in listed[h]
      BY <3>1 DEF IInv, ListedInScene, Hosts
    <3>3. h \in games' /\ u \in listed'[h]
      BY <1>0, <1>c, <1>d, <3>1, <3>2 DEF IInv, TypeOK
    <3> QED BY <3>3 DEF Hosts
  <2>2. ASSUME NEW h \in Games, NEW u \in listed'[h]
        PROVE  h \in games' /\ state'[u] \in {"SCENE", "OFFLINE", "REGATE", "LOGIN"}
    <3>1. h # g /\ u \in listed[h] /\ u \notin D /\ u \in Uids
      BY <1>d, <2>2 DEF IInv, TypeOK
    <3> QED BY <1>b, <1>c, <3>1 DEF IInv, ListedInScene
  <2> QED BY <2>1, <2>2 DEF ListedInScene
<1> QED BY <1>1, <1>2, <1>3, <1>4, <1>5, <1>6 DEF IInv

LEMMA GameUnregInv == ASSUME IInv, NEW u \in Uids, GameUnreg(u) PROVE IInv'
<1>1. QueueStep({client[u]} \cap open, {u})
  BY DispatchQueue DEF IInv, GameUnreg
<1> QED BY <1>1, DropUserInv DEF GameUnreg

LEMMA RegSuccessInv ==
  ASSUME IInv, NEW g \in Games, NEW u \in Uids, RegSuccess(g, u)
  PROVE  IInv'
<1>0. Dispatch /\ g \in games
  BY DEF RegSuccess
<1>1. CASE state[u] \in {"LOGIN", "WAIT"}
  <2> USE DEF linkVars, Dispatch
  <2>0. /\ state' = [state EXCEPT ![u] = "SCENE"]
        /\ listed' = [listed EXCEPT ![g] = @ \cup {u}]
        /\ sent' = {}
        /\ UNCHANGED <<timer, session, creating, linkVars, games, logins>>
    BY <1>1 DEF RegSuccess
  <2>1. TypeOK'
    BY <1>0, <2>0 DEF IInv, TypeOK, UserStates, Connected, LoginStates, Users
  <2>2. BindingAgrees'
    BY <2>0 DEF IInv, BindingAgrees
  <2>3. ConnectedIffSocket'
    BY <1>1, <2>0 DEF IInv, TypeOK, ConnectedIffSocket, Connected, GateStates, LoginStates
  <2>4. NewestLoginPlays'
    BY <1>1, <2>0 DEF IInv, TypeOK, NewestLoginPlays, Users
  <2>5. Watched'
    BY <1>0, <2>0 DEF IInv, TypeOK, Watched, GateStates
  <2>6. ListedInScene'
    BY <1>0, <1>1, <2>0 DEF IInv, TypeOK, ListedInScene, Hosts
  <2> QED BY <2>1, <2>2, <2>3, <2>4, <2>5, <2>6 DEF IInv
<1>2. CASE state[u] = "OFFLINE"
  <2>1. PICK host \in HostOf(u) : Cut({}, {}, Unreg(u, "OFFLINE", host))
    BY <1>2 DEF RegSuccess
  <2>2. Unreg(u, "OFFLINE", host) \subseteq Msgs
    BY UnregType DEF IInv, Codes
  <2>3. QueueStep({}, {})
    BY <1>0, DispatchQueue DEF IInv
  <2> QED BY <2>1, <2>2, <2>3, CutInv
<1>3. CASE state[u] \notin {"LOGIN", "WAIT", "OFFLINE"}
  <2> DEFINE news == {Msg("center", "unreg", u, "ERROR"), Msg(g, "unreg", u, "ERROR")}
  <2>1. IF state[u] = "NONE" THEN Cut({}, {}, news) ELSE DropUser(u, news)
    BY <1>3 DEF RegSuccess
  <2>2. news \subseteq Msgs
    BY DEF Msg, Msgs, Codes
  <2>3. QueueStep({}, {}) /\ QueueStep({client[u]} \cap open, {u})
    BY <1>0, DispatchQueue DEF IInv
  <2> HIDE DEF news
  <2>4. CASE state[u] = "NONE"
    BY <2>1, <2>2, <2>3, <2>4, CutInv
  <2>5. CASE state[u] # "NONE"
    BY <2>1, <2>2, <2>3, <2>5, DropUserInv
  <2> QED BY <2>4, <2>5
<1> QED BY <1>1, <1>2, <1>3

LEMMA CrossServerInv == ASSUME IInv, NEW u \in Uids, CrossServer(u) PROVE IInv'
<1> USE DEF CrossServer, Dispatch, linkVars, Unlist
<1>0. Msg("center", "cross", u, "-") \in Msgs
  BY DEF Msg, Msgs
<1>1. TypeOK'
  BY <1>0 DEF IInv, TypeOK, UserStates, Connected, LoginStates, Users
<1>2. BindingAgrees'      BY DEF IInv, BindingAgrees
<1>3. ConnectedIffSocket'
  BY DEF IInv, TypeOK, ConnectedIffSocket, Connected, GateStates, LoginStates
<1>4. NewestLoginPlays'   BY DEF IInv, TypeOK, NewestLoginPlays, Users
<1>5. Watched'            BY DEF IInv, TypeOK, Watched, GateStates
<1>6. ListedInScene'      BY DEF IInv, TypeOK, ListedInScene, Hosts
<1> QED BY <1>1, <1>2, <1>3, <1>4, <1>5, <1>6 DEF IInv

LEMMA RestartInv == ASSUME IInv, Restart PROVE IInv'
<1> USE DEF Restart, Detach, Erase, Users
<1>1. TypeOK'
  <2>1. creating' \in [Uids -> BOOLEAN]
    BY DEF IInv, TypeOK
  <2>2. /\ state' \in [Uids -> UserStates \cup {"NONE"}]
        /\ timer' \in [Uids -> {"none", "pingpong", "reconnect"}]
        /\ session' \in [Uids -> Nat]
    BY DEF IInv, TypeOK
  <2>3. /\ bound' \in [Sockets -> Uids \cup {NoUser}] /\ key' \in [Sockets -> Nat]
        /\ client' \in [Uids -> Sockets \cup {NoSock}]
    BY DEF IInv, TypeOK
  <2>4. listed' \in [Games -> SUBSET Uids] /\ ahead' \in 0..MaxAhead
    BY DEF IInv, TypeOK
  <2>5. mixed' \subseteq Users'
    BY DEF IInv, TypeOK
  <2> QED BY <2>1, <2>2, <2>3, <2>4, <2>5 DEF IInv, TypeOK
<1>2. BindingAgrees'
  BY DEF IInv, TypeOK, BindingAgrees, ConnectedIffSocket, Connected, GateStates, LoginStates
<1>3. ConnectedIffSocket'
  BY DEF IInv, TypeOK, ConnectedIffSocket, Connected, GateStates, LoginStates
<1>4. NewestLoginPlays'
  BY DEF IInv, TypeOK, ConnectedIffSocket, NewestLoginPlays, Connected, GateStates, LoginStates
<1>5. Watched'            BY DEF IInv, TypeOK, Watched, GateStates
<1>6. ListedInScene'      BY DEF IInv, TypeOK, ListedInScene
<1> QED BY <1>1, <1>2, <1>3, <1>4, <1>5, <1>6 DEF IInv

-----------------------------------------------------------------------------

\* Every handler keeps the inductive invariant.
LEMMA NextInv == IInv /\ [Next]_vars => IInv'
<1> SUFFICES ASSUME IInv, [Next]_vars PROVE IInv'
  OBVIOUS
<1>1. CASE \E s \in Sockets : ClientStep(s)
  <2>1. PICK s \in Sockets : ClientStep(s)
    BY <1>1
  <2>2. CASE AddClient(s) \/ Vanish(s) \/ Destroy(s) \/ DelClient(s)
    BY <2>2, AddClientInv, VanishInv, DestroyInv, DelClientInv
  <2>3. ASSUME NEW u \in Uids, NEW k \in 1..MaxLogins, ConnectRequest(s, u, k) PROVE IInv'
    BY <2>3, ConnectRequestInv
  <2>4. ASSUME NEW u \in Uids, Pingpong(s, u) \/ Lock(s, u) \/ Unlock(s, u) PROVE IInv'
    BY <2>4, PingInv
  <2>5. ASSUME NEW u \in Uids, LoginGame(s, u) \/ CreateRole(s, u) \/ MsgBomb(s, u) PROVE IInv'
    BY <2>5, LoginGameInv, CreateInv, MsgBombInv
  <2> QED BY <2>1, <2>2, <2>3, <2>4, <2>5 DEF ClientStep
<1>2. CASE TimerStep
  BY <1>2, ExpireInv, SessionTimeoutInv, PingpongTimeoutInv, ReconnectTimeoutInv, CreateInv
     DEF TimerStep
<1>3. CASE ServerStep
  <2>1. ASSUME NEW u \in Uids,
               LoginRequest(u) \/ CreateReply(u) \/ GameUnreg(u) \/ CrossServer(u)
        PROVE  IInv'
    BY <2>1, LoginRequestInv, CreateInv, GameUnregInv, CrossServerInv
  <2>2. ASSUME NEW u \in Uids, NEW code \in Codes, CenterUnreg(u, code) PROVE IInv'
    BY <2>2, CenterUnregInv
  <2>3. ASSUME NEW g \in Games, NEW u \in Uids, RegSuccess(g, u) PROVE IInv'
    BY <2>3, RegSuccessInv
  <2>4. ASSUME NEW g \in Games, AddGame(g) \/ DelGame(g) PROVE IInv'
    BY <2>4, AddGameInv, DelGameInv
  <2> QED BY <1>3, <2>1, <2>2, <2>3, <2>4, ClearAllInv DEF ServerStep
<1>4. CASE Restart
  BY <1>4, RestartInv
<1>5. CASE UNCHANGED vars
  <2> USE <1>5 DEF vars, userVars, linkVars, gameVars, queueVars
  <2>1. TypeOK'             BY DEF IInv, TypeOK, Users
  <2>2. BindingAgrees'      BY DEF IInv, BindingAgrees
  <2>3. ConnectedIffSocket' BY DEF IInv, ConnectedIffSocket
  <2>4. NewestLoginPlays'   BY DEF IInv, NewestLoginPlays, Users
  <2>5. Watched'            BY DEF IInv, Watched
  <2>6. ListedInScene'      BY DEF IInv, ListedInScene, Hosts
  <2> QED BY <2>1, <2>2, <2>3, <2>4, <2>5, <2>6 DEF IInv
<1> QED BY <1>1, <1>2, <1>3, <1>4, <1>5 DEF Next

LEMMA Invariance == Spec => []IInv
<1>1. Init => IInv
  BY InitInv
<1>2. IInv /\ [Next]_vars => IInv'
  BY NextInv
<1> QED BY <1>1, <1>2, PTL DEF Spec

-----------------------------------------------------------------------------
(* The theorems *)

\* Every state of the gate is well typed.
THEOREM TypeCorrect == Spec => []TypeOK
<1>1. IInv => TypeOK
  BY DEF IInv
<1> QED BY <1>1, Invariance, PTL

\* The user's link to its connection and the connection's link to its user agree,
\* although socket_bind_user, del_socket and del_user set them one by one, and a
\* connection that was bound to two users in turn misleads nobody but those users.
THEOREM LinksAgree == Spec => []BindingAgrees
<1>1. IInv => BindingAgrees
  BY DEF IInv
<1> QED BY <1>1, Invariance, PTL

\* The unchecked del_socket(get_client_socket()) of the timeout, kick and login
\* handlers has a connection to delete, unless the user's connection was bound to
\* another user.
THEOREM ConnectionOwned == Spec => []ConnectedIffSocket
<1>1. IInv => ConnectedIffSocket
  BY DEF IInv
<1> QED BY <1>1, Invariance, PTL

\* After handle_la_login_request no earlier client plays the user, whatever other
\* users its connection plays or played.
THEOREM OnlyNewestPlays == Spec => []NewestLoginPlays
<1>1. IInv => NewestLoginPlays
  BY DEF IInv
<1> QED BY <1>1, Invariance, PTL

\* Whatever ca_lock_notify did not lock is watched by a timer.
THEOREM AlwaysWatched == Spec => []Watched
<1>1. IInv => Watched
  BY DEF IInv
<1> QED BY <1>1, Invariance, PTL

\* Users in a scene are listed by a game, and games list only users that were.
THEOREM SceneListed == Spec => []ListedInScene
<1>1. IInv => ListedInScene
  BY DEF IInv
<1> QED BY <1>1, Invariance, PTL

-----------------------------------------------------------------------------
(* A user that asked for its role stays one that did *)

\* What RoleIsRemembered says of one step.
Remembers ==
  \A u \in Uids : state[u] \in {"REGATE", "OFFLINE"} \cup LoginStates
                  => state'[u] \notin {"INIT", "GATE"}

\* The steps shared by the handlers delete users or take them offline.
LEMMA SharedRemember ==
  ASSUME TypeOK,
         \/ \E D : Erase(D)
         \/ \E u \in Uids : \E more : GoOffline(u, more)
         \/ \E s \in Sockets \cup {NoSock} : \E more : DropSocket(s, more)
         \/ \E u \in Uids : \E more : DropUser(u, more)
         \/ UNCHANGED state
  PROVE  Remembers
<1> USE DEF TypeOK, Remembers, LoginStates
<1>1. ASSUME NEW D, Erase(D) PROVE Remembers
  BY <1>1 DEF Erase
<1>2. ASSUME NEW u \in Uids, NEW more, GoOffline(u, more) PROVE Remembers
  BY <1>2 DEF GoOffline, Park
<1>3. ASSUME NEW s, NEW more, DropSocket(s, more) PROVE Remembers
  BY <1>1, <1>3 DEF DropSocket, Cut
<1>4. ASSUME NEW u \in Uids, NEW more, DropUser(u, more) PROVE Remembers
  BY <1>1, <1>3, <1>4 DEF DropUser, Cut
<1> QED BY <1>1, <1>2, <1>3, <1>4

LEMMA NextRemembers == TypeOK /\ [Next]_vars => Remembers
<1> SUFFICES ASSUME TypeOK, [Next]_vars PROVE Remembers
  OBVIOUS
<1> USE DEF TypeOK
<1>1. ASSUME NEW s \in Sockets, ClientStep(s) PROVE Remembers
  <2>1. CASE AddClient(s) \/ Vanish(s) \/ Destroy(s) \/ DelClient(s)
    BY <2>1, SharedRemember DEF AddClient, Vanish, Destroy, DelClient, userVars
  <2>2. ASSUME NEW u \in Uids, NEW k \in 1..MaxLogins, ConnectRequest(s, u, k) PROVE Remembers
    <3>1. CASE DropSocket(s, {})
      BY <3>1, SharedRemember
    <3>2. CASE ~DropSocket(s, {})
      <4>1. state[u] \in {"INIT", "OFFLINE"} /\ Bind(s, u, k)
        BY <2>2, <3>2 DEF ConnectRequest
      <4> QED BY <4>1 DEF Bind, Remembers, LoginStates
    <3> QED BY <3>1, <3>2
  <2>3. ASSUME NEW u \in Uids,
               \/ Pingpong(s, u) \/ Lock(s, u) \/ Unlock(s, u) \/ CreateRole(s, u) \/ MsgBomb(s, u)
        PROVE  Remembers
    BY <2>3, SharedRemember DEF Pingpong, Lock, Unlock, CreateRole, MsgBomb
  <2>4. ASSUME NEW u \in Uids, LoginGame(s, u) PROVE Remembers
    BY <2>4 DEF LoginGame, Remembers, LoginStates
  <2> QED BY <1>1, <2>1, <2>2, <2>3, <2>4 DEF ClientStep
<1>2. CASE TimerStep
  <2>1. ASSUME NEW s \in Sockets, SessionExpire(s) \/ SessionTimeout(s) PROVE Remembers
    BY <2>1, SharedRemember DEF SessionExpire, SessionTimeout, userVars
  <2>2. ASSUME NEW u \in Uids, TimerExpire(u) \/ CreateStale(u) PROVE Remembers
    BY <2>2, SharedRemember DEF TimerExpire, CreateStale
  <2>3. ASSUME NEW u \in Uids, PingpongTimeout(u) PROVE Remembers
    BY <2>3, SharedRemember DEF PingpongTimeout, Cut
  <2>4. ASSUME NEW u \in Uids, ReconnectTimeout(u) PROVE Remembers
    BY <2>4, SharedRemember DEF ReconnectTimeout, Cut
  <2> QED BY <1>2, <2>1, <2>2, <2>3, <2>4 DEF TimerStep
<1>3. CASE ServerStep
  <2>1. ASSUME NEW u \in Uids, LoginRequest(u) PROVE Remembers
    BY <2>1 DEF LoginRequest, FirstLogin, Remembers, LoginStates
  <2>2. ASSUME NEW u \in Uids, CreateReply(u) \/ GameUnreg(u) PROVE Remembers
    BY <2>2, SharedRemember DEF CreateReply, GameUnreg
  <2>3. ASSUME NEW u \in Uids, CrossServer(u) PROVE Remembers
    BY <2>3 DEF CrossServer, Remembers, LoginStates
  <2>4. ASSUME NEW u \in Uids, NEW code \in Codes, CenterUnreg(u, code) PROVE Remembers
    BY <2>4, SharedRemember DEF CenterUnreg, Cut
  <2>5. ASSUME NEW g \in Games, NEW u \in Uids, RegSuccess(g, u) PROVE Remembers
    <3>1. CASE state' = [state EXCEPT ![u] = "SCENE"]
      BY <3>1 DEF Remembers, LoginStates
    <3>2. CASE state' # [state EXCEPT ![u] = "SCENE"]
      BY <2>5, <3>2, SharedRemember DEF RegSuccess, Cut
    <3> QED BY <3>1, <3>2
  <2>6. ASSUME NEW g \in Games, AddGame(g) \/ DelGame(g) PROVE Remembers
    BY <2>6, SharedRemember DEF AddGame, DelGame, userVars
  <2>7. CASE ClearAll
    BY <2>7, SharedRemember DEF ClearAll, Cut
  <2> QED BY <1>3, <2>1, <2>2, <2>3, <2>4, <2>5, <2>6, <2>7 DEF ServerStep
<1>4. CASE Restart
  BY <1>4, SharedRemember DEF Restart
<1>5. CASE UNCHANGED vars
  BY <1>5, SharedRemember DEF vars, userVars
<1> QED BY <1>1, <1>2, <1>3, <1>4, <1>5 DEF Next

\* A user that has asked center for its role is never again in INIT or GATE,
\* where it would be deleted without telling center or game.
THEOREM RoleRemembered == Spec => RoleIsRemembered
<1>1. TypeOK /\ [Next]_vars
      => [\A u \in Uids : state[u] \in {"REGATE", "OFFLINE"} \cup LoginStates
                          => state'[u] \notin {"INIT", "GATE"}]_vars
  BY NextRemembers DEF Remembers
<1> QED BY <1>1, TypeCorrect, PTL DEF Spec, RoleIsRemembered

-----------------------------------------------------------------------------
(* A game hears of every user that the gate takes out of its scene *)

Leaves(u) == state[u] = "SCENE" /\ state'[u] \notin {"SCENE", "WAIT"}

Heard(u) ==
  \E g \in games, c \in {"OFFLINE", "LOGOUT"} :
    u \in listed[g] /\ Msg(g, "unreg", u, c) \in sent'

\* What SceneExitAnnounced says of one step.
Announces ==
  \A u \in Uids \ mixed : Leaves(u) /\ ~Told(u) /\ ~RepeatedConnect(u) /\ ~LateTimeout(u) => Heard(u)

\* A user in a scene is in the list of the game that get_game_by_user_uid finds, so
\* what notify_others_unreg_user sends reaches a game that lists it.
LEMMA HostHears ==
  ASSUME IInv, NEW u \in Uids \ mixed, state[u] = "SCENE", NEW host \in HostOf(u),
         NEW code \in {"OFFLINE", "LOGOUT"}, Unreg(u, code, host) \subseteq sent'
  PROVE  Heard(u)
<1>1. Hosts(u) # {} /\ games \subseteq Games
  BY DEF IInv, ListedInScene, TypeOK
<1>2. host \in games /\ u \in listed[host] /\ host # NoGame
  BY <1>1 DEF HostOf, Hosts
<1>3. Msg(host, "unreg", u, code) \in sent'
  BY <1>2 DEF Unreg
<1> QED BY <1>2, <1>3 DEF Heard

\* Who can leave a scene when connections are closed, users deleted or parked, and
\* what is sent then.
LEMMA CutLeaves ==
  ASSUME IInv, NEW S, NEW D, NEW more, Cut(S, D, more)
  PROVE  more \subseteq sent' /\ \A v \in Uids : Leaves(v) => v \in D
BY DEF Cut, Erase, Leaves, IInv, TypeOK

LEMMA DropSocketLeaves ==
  ASSUME IInv, NEW s, NEW more, DropSocket(s, more)
  PROVE  more \subseteq sent' /\ \A v \in Uids : Leaves(v) => s \in open /\ bound[s] = v
<1>1. CASE s \in open
  BY <1>1, CutLeaves DEF DropSocket
<1>2. CASE s \notin open
  BY <1>2, CutLeaves DEF DropSocket
<1> QED BY <1>1, <1>2

LEMMA DropUserLeaves ==
  ASSUME IInv, NEW u \in Uids, NEW more, DropUser(u, more)
  PROVE  more \subseteq sent' /\ \A v \in Uids \ mixed : Leaves(v) => v = u
<1>1. CASE client[u] = NoSock
  BY <1>1, CutLeaves DEF DropUser
<1>2. CASE client[u] # NoSock
  <2>1. \A v \in Uids \ mixed : client[u] \in open /\ bound[client[u]] = v => v = u
    BY DEF IInv, TypeOK, BindingAgrees
  <2> QED BY <1>2, <2>1, DropSocketLeaves DEF DropUser
<1> QED BY <1>1, <1>2

LEMMA GoOfflineLeaves ==
  ASSUME IInv, NEW u \in Uids, NEW more, GoOffline(u, more)
  PROVE  more \subseteq sent' /\ \A v \in Uids : Leaves(v) => v = u
BY DEF GoOffline, Park, Leaves, IInv, TypeOK

\* A step that sets the state of one user that is in no scene, or leaves it in WAIT.
LEMMA NobodyLeaves ==
  ASSUME IInv,
         \/ UNCHANGED state
         \/ \E u \in Uids, st \in UserStates :
              /\ state' = [state EXCEPT ![u] = st]
              /\ state[u] # "SCENE" \/ st = "WAIT"
  PROVE  Announces
BY DEF IInv, TypeOK, Announces, Leaves

LEMMA ClientAnnounces ==
  ASSUME IInv, NEW s \in Sockets, ClientStep(s)
  PROVE  Announces
<1>1. CASE AddClient(s) \/ Vanish(s) \/ Destroy(s)
  BY <1>1, NobodyLeaves DEF AddClient, Vanish, Destroy, userVars
<1>2. CASE DelClient(s)
  <2>1. CASE bound[s] = NoUser
    BY <1>2, <2>1, DropSocketLeaves DEF DelClient, Announces
  <2>2. CASE bound[s] # NoUser /\ state[bound[s]] \in {"INIT", "GATE"}
    BY <1>2, <2>2, DropSocketLeaves DEF DelClient, Announces, GoOffline, LoginStates, Leaves
  <2>3. CASE bound[s] # NoUser /\ state[bound[s]] \notin {"INIT", "GATE"}
    <3>1. PICK u \in Uids : u = bound[s]
      BY <2>3 DEF IInv, TypeOK
    <3>2. PICK host \in HostOf(u) : GoOffline(u, OfflineNews(u, host))
      BY <1>2, <2>3, <3>1 DEF DelClient
    <3>3. u \notin mixed /\ Leaves(u) => Heard(u)
      BY <3>2, GoOfflineLeaves, HostHears DEF OfflineNews, Leaves
    <3> QED BY <3>2, <3>3, GoOfflineLeaves DEF Announces
  <2> QED BY <2>1, <2>2, <2>3
<1>3. ASSUME NEW u \in Uids, NEW k \in 1..MaxLogins, ConnectRequest(s, u, k) PROVE Announces
  <2>1. CASE DropSocket(s, {})
    <3>1. \A v \in Uids : Leaves(v) => bound[s] = v
      BY <2>1, DropSocketLeaves
    <3>2. \A v \in Uids : bound[s] = v => RepeatedConnect(v)
      BY <1>3 DEF RepeatedConnect
    <3> QED BY <3>1, <3>2 DEF Announces
  <2>2. CASE ~DropSocket(s, {})
    <3>1. state[u] \in {"INIT", "OFFLINE"} /\ Bind(s, u, k)
      BY <1>3, <2>2 DEF ConnectRequest
    <3> QED BY <3>1 DEF Bind, IInv, TypeOK, Announces, Leaves
  <2> QED BY <2>1, <2>2
<1>4. ASSUME NEW u \in Uids,
             Pingpong(s, u) \/ Lock(s, u) \/ Unlock(s, u) \/ LoginGame(s, u) \/ CreateRole(s, u)
      PROVE  Announces
  BY <1>4, NobodyLeaves
     DEF Pingpong, Lock, Unlock, LoginGame, CreateRole, GateStates, UserStates, Connected, LoginStates
<1>5. ASSUME NEW u \in Uids, MsgBomb(s, u) PROVE Announces
  <2>1. PICK host \in HostOf(u) :
          DropSocket(s, IF state[u] \in LoginStates THEN Unreg(u, "LOGOUT", host) ELSE {})
    BY <1>5 DEF MsgBomb
  <2>2. bound[s] = u
    BY <1>5 DEF MsgBomb, FromUser
  <2>3. u \notin mixed /\ Leaves(u) => Heard(u)
    BY <2>1, DropSocketLeaves, HostHears DEF Leaves, LoginStates
  <2> QED BY <2>1, <2>2, <2>3, DropSocketLeaves DEF Announces
<1> QED BY <1>1, <1>2, <1>3, <1>4, <1>5 DEF ClientStep

LEMMA TimerAnnounces == ASSUME IInv, TimerStep PROVE Announces
<1>1. ASSUME NEW s \in Sockets, SessionExpire(s) PROVE Announces
  BY <1>1, NobodyLeaves DEF SessionExpire, userVars
<1>2. ASSUME NEW s \in Sockets, SessionTimeout(s) PROVE Announces
  <2>1. \A v \in Uids : Leaves(v) => LateTimeout(v)
    BY <1>2, DropSocketLeaves DEF SessionTimeout, LateTimeout
  <2> QED BY <2>1 DEF Announces
<1>3. ASSUME NEW u \in Uids, TimerExpire(u) \/ CreateStale(u) PROVE Announces
  BY <1>3, NobodyLeaves DEF TimerExpire, CreateStale
<1>4. ASSUME NEW u \in Uids, PingpongTimeout(u) PROVE Announces
  <2>1. CASE \E host \in HostOf(u) : GoOffline(u, OfflineNews(u, host))
    <3>1. PICK host \in HostOf(u) : GoOffline(u, OfflineNews(u, host))
      BY <2>1
    <3>2. u \notin mixed /\ Leaves(u) => Heard(u)
      BY <3>1, GoOfflineLeaves, HostHears DEF OfflineNews, Leaves
    <3> QED BY <3>1, <3>2, GoOfflineLeaves DEF Announces
  <2>2. CASE state[u] = "GATE" /\ DropUser(u, {})
    BY <2>2, DropUserLeaves DEF Announces, Leaves
  <2>3. CASE state[u] = "INIT" /\ Cut({}, {u}, {})
    BY <2>3, CutLeaves DEF Announces, Leaves
  <2>4. CASE Cut({}, {}, {})
    BY <2>4, CutLeaves DEF Announces
  <2> QED BY <1>4, <2>1, <2>2, <2>3, <2>4 DEF PingpongTimeout
<1>5. ASSUME NEW u \in Uids, ReconnectTimeout(u) PROVE Announces
  <2>1. CASE state[u] = "NONE"
    BY <1>5, <2>1, CutLeaves DEF ReconnectTimeout, Announces
  <2>2. CASE state[u] # "NONE"
    <3>1. PICK host \in HostOf(u) : DropUser(u, Unreg(u, "LOGOUT", host))
      BY <1>5, <2>2 DEF ReconnectTimeout
    <3>2. u \notin mixed /\ Leaves(u) => Heard(u)
      BY <3>1, DropUserLeaves, HostHears DEF Leaves
    <3> QED BY <3>1, <3>2, DropUserLeaves DEF Announces
  <2> QED BY <2>1, <2>2
<1> QED BY <1>1, <1>2, <1>3, <1>4, <1>5 DEF TimerStep

LEMMA ServerAnnounces == ASSUME IInv, ServerStep PROVE Announces
<1>1. ASSUME NEW u \in Uids, LoginRequest(u) PROVE Announces
  <2>1. \A v \in Uids : Leaves(v) => v = u
    BY <1>1 DEF LoginRequest, Leaves, IInv, TypeOK
  <2>2. PICK host \in HostOf(u) : OfflineNews(u, host) \subseteq sent'
    BY <1>1 DEF LoginRequest
  <2>3. u \notin mixed /\ Leaves(u) => Heard(u)
    BY <2>2, HostHears DEF OfflineNews, Leaves
  <2> QED BY <2>1, <2>3 DEF Announces
<1>2. ASSUME NEW u \in Uids, CreateReply(u) \/ CrossServer(u) PROVE Announces
  BY <1>2, NobodyLeaves
     DEF CreateReply, CrossServer, UserStates, Connected, GateStates, LoginStates
<1>3. ASSUME NEW u \in Uids, GameUnreg(u) PROVE Announces
  BY <1>3, DropUserLeaves DEF GameUnreg, Announces, Told
<1>4. ASSUME NEW u \in Uids, NEW code \in Codes \ {"BAN"}, CenterUnreg(u, code) PROVE Announces
  <2>1. \A v \in Uids \ mixed : Leaves(v) => v = u
    BY <1>4, DropUserLeaves, GoOfflineLeaves DEF CenterUnreg
  <2> QED BY <1>4, <2>1 DEF Announces, Told
<1>5. ASSUME NEW u \in Uids, CenterUnreg(u, "BAN") PROVE Announces
  <2>1. PICK host \in HostOf(u) :
          LET news == IF state[u] = "SCENE" THEN Unreg(u, "LOGOUT", host) ELSE {}
          IN IF client[u] = NoSock THEN Cut({}, {}, news) ELSE DropSocket(client[u], news)
    BY <1>5 DEF CenterUnreg
  <2>2. /\ \A v \in Uids \ mixed : Leaves(v) => v = u
        /\ Leaves(u) => Unreg(u, "LOGOUT", host) \subseteq sent'
    <3>1. CASE client[u] = NoSock
      BY <2>1, <3>1, CutLeaves
    <3>2. CASE client[u] # NoSock
      <4>1. \A v \in Uids \ mixed : client[u] \in open /\ bound[client[u]] = v => v = u
        BY DEF IInv, TypeOK, BindingAgrees
      <4> QED BY <2>1, <3>2, <4>1, DropSocketLeaves DEF Leaves
    <3> QED BY <3>1, <3>2
  <2>3. u \notin mixed /\ Leaves(u) => Heard(u)
    BY <2>2, HostHears DEF Leaves
  <2> QED BY <2>2, <2>3 DEF Announces
<1>6. ASSUME NEW g \in Games, NEW u \in Uids, RegSuccess(g, u) PROVE Announces
  <2>1. CASE state[u] \in {"LOGIN", "WAIT"}
    BY <1>6, <2>1, NobodyLeaves DEF RegSuccess, UserStates, Connected, GateStates, LoginStates
  <2>2. CASE state[u] \notin {"LOGIN", "WAIT"}
    <3>1. \A v \in Uids \ mixed : Leaves(v) => v = u
      BY <1>6, <2>2, CutLeaves, DropUserLeaves DEF RegSuccess
    <3> QED BY <1>6, <3>1 DEF Announces, Told
  <2> QED BY <2>1, <2>2
<1>7. ASSUME NEW g \in Games, AddGame(g) PROVE Announces
  BY <1>7, NobodyLeaves DEF AddGame, userVars
<1>8. CASE ClearAll \/ \E g \in Games : DelGame(g)
  BY <1>8 DEF Announces, Told
<1> QED BY <1>1, <1>2, <1>3, <1>4, <1>5, <1>6, <1>7, <1>8 DEF ServerStep, Codes

LEMMA NextAnnounces == IInv /\ [Next]_vars => Announces
<1> SUFFICES ASSUME IInv, [Next]_vars PROVE Announces
  OBVIOUS
<1>1. CASE Restart
  BY <1>1 DEF Announces, Told
<1>2. CASE UNCHANGED vars
  BY <1>2, NobodyLeaves DEF vars, userVars
<1> QED BY <1>1, <1>2, ClientAnnounces, TimerAnnounces, ServerAnnounces DEF Next

\* A game that lists the user hears OFFLINE or LOGOUT in the step in which the gate
\* takes the user out of its scene, unless center or game asked for it: only a second
\* ca_connect_request on the user's connection, for whomever, and a late session timer
\* forget it, and users that share a connection make it forget each other.
THEOREM SceneExitHeard == Spec => SceneExitAnnounced
<1>1. IInv /\ [Next]_vars
      => [\A u \in Uids \ mixed :
            /\ state[u] = "SCENE" /\ state'[u] \notin {"SCENE", "WAIT"}
            /\ ~Told(u) /\ ~RepeatedConnect(u) /\ ~LateTimeout(u)
            => \E g \in games, c \in {"OFFLINE", "LOGOUT"} :
                 u \in listed[g] /\ Msg(g, "unreg", u, c) \in sent']_vars
  BY NextAnnounces DEF Announces, Leaves, Heard
<1> QED BY <1>1, Invariance, PTL DEF Spec, SceneExitAnnounced

-----------------------------------------------------------------------------
(* The gate implements OneSession *)

\* The user plays on a connection that plays it.
Linked(u) == client[u] \in Sockets /\ Plays(u, client[u])

\* A step after which every user keeps its connection and key or has none.
Releasing ==
  /\ logins' = logins
  /\ \A u \in Uids :
       Linked(u)' => Linked(u) /\ client'[u] = client[u] /\ key'[client[u]] = key[client[u]]

\* Such a step is a Release of the users that lost their connection.
LEMMA ReleasingIsRelease ==
  ASSUME TypeOK, Releasing
  PROVE  One!Next
<1>1. One!Release
  BY DEF Releasing, Linked, Plays, One!Release
<1> QED BY <1>1 DEF One!Next

LEMMA CutReleases ==
  ASSUME IInv, NEW S \in SUBSET open, NEW D \in SUBSET Uids, NEW more, Cut(S, D, more)
  PROVE  Releasing
BY DEF IInv, TypeOK, BindingAgrees, Cut, Detach, Releasing, Linked, Plays

LEMMA DropReleases ==
  ASSUME IInv, NEW more,
         \/ \E s \in Sockets : DropSocket(s, more)
         \/ \E u \in Uids : DropUser(u, more)
  PROVE  Releasing
<1>1. ASSUME NEW s \in Sockets, DropSocket(s, more) PROVE Releasing
  <2>1. {bound[s]} \ {NoUser} \in SUBSET Uids
    BY DEF IInv, TypeOK
  <2> QED BY <1>1, <2>1, CutReleases DEF DropSocket
<1>2. ASSUME NEW u \in Uids, DropUser(u, more) PROVE Releasing
  <2>1. client[u] # NoSock => client[u] \in Sockets
    BY DEF IInv, TypeOK
  <2> QED BY <1>1, <1>2, <2>1, CutReleases DEF DropUser
<1> QED BY <1>1, <1>2

LEMMA GoOfflineReleases ==
  ASSUME IInv, NEW u \in Uids, NEW more, GoOffline(u, more)
  PROVE  Releasing
BY DEF IInv, TypeOK, BindingAgrees, GoOffline, Park, Detach, Releasing, Linked, Plays

\* Steps of clients, except binding a connection.
LEMMA ClientReleases ==
  ASSUME IInv, NEW s \in Sockets,
         \/ AddClient(s) \/ Vanish(s) \/ Destroy(s) \/ DelClient(s)
         \/ \E u \in Uids : \/ Pingpong(s, u) \/ Lock(s, u) \/ Unlock(s, u)
                            \/ LoginGame(s, u) \/ CreateRole(s, u) \/ MsgBomb(s, u)
  PROVE  Releasing
<1>1. CASE AddClient(s) \/ Vanish(s) \/ Destroy(s)
  BY <1>1 DEF AddClient, Vanish, Destroy, IInv, TypeOK, Releasing, Linked, Plays
<1>2. CASE DelClient(s)
  <2>1. CASE DropSocket(s, {})
    BY <2>1, DropReleases
  <2>2. CASE ~DropSocket(s, {})
    BY <1>2, <2>2, GoOfflineReleases DEF DelClient, IInv, TypeOK
  <2> QED BY <2>1, <2>2
<1>3. ASSUME NEW u \in Uids,
             \/ Pingpong(s, u) \/ Lock(s, u) \/ Unlock(s, u)
             \/ LoginGame(s, u) \/ CreateRole(s, u)
      PROVE  Releasing
  BY <1>3 DEF Pingpong, Lock, Unlock, LoginGame, CreateRole, linkVars, Releasing, Linked, Plays
<1>4. ASSUME NEW u \in Uids, MsgBomb(s, u) PROVE Releasing
  BY <1>4, DropReleases DEF MsgBomb
<1> QED BY <1>1, <1>2, <1>3, <1>4

LEMMA TimerReleases == ASSUME IInv, TimerStep PROVE Releasing
<1>1. ASSUME NEW s \in Sockets, SessionExpire(s) \/ SessionTimeout(s) PROVE Releasing
  BY <1>1, DropReleases DEF SessionExpire, SessionTimeout, Releasing, Linked, Plays
<1>2. ASSUME NEW u \in Uids, TimerExpire(u) \/ CreateStale(u) PROVE Releasing
  BY <1>2 DEF TimerExpire, CreateStale, linkVars, Releasing, Linked, Plays
<1>3. ASSUME NEW u \in Uids, PingpongTimeout(u) PROVE Releasing
  BY <1>3, DropReleases, GoOfflineReleases, CutReleases DEF PingpongTimeout
<1>4. ASSUME NEW u \in Uids, ReconnectTimeout(u) PROVE Releasing
  BY <1>4, DropReleases, CutReleases DEF ReconnectTimeout
<1> QED BY <1>1, <1>2, <1>3, <1>4 DEF TimerStep

\* Steps of the servers, except a login, and a restart.
LEMMA ServerReleases ==
  ASSUME IInv,
         \/ \E u \in Uids : \/ CreateReply(u) \/ GameUnreg(u) \/ CrossServer(u)
                            \/ \E code \in Codes : CenterUnreg(u, code)
                            \/ \E g \in Games : RegSuccess(g, u)
         \/ \E g \in Games : AddGame(g) \/ DelGame(g)
         \/ ClearAll \/ Restart
  PROVE  Releasing
<1>1. ASSUME NEW u \in Uids, CreateReply(u) \/ GameUnreg(u) \/ CrossServer(u) PROVE Releasing
  BY <1>1, DropReleases DEF CreateReply, GameUnreg, CrossServer, linkVars, Releasing, Linked, Plays
<1>2. ASSUME NEW u \in Uids, NEW code \in Codes, CenterUnreg(u, code) PROVE Releasing
  <2>1. client[u] # NoSock => client[u] \in Sockets
    BY DEF IInv, TypeOK
  <2> QED BY <1>2, <2>1, DropReleases, GoOfflineReleases, CutReleases DEF CenterUnreg
<1>3. ASSUME NEW g \in Games, NEW u \in Uids, RegSuccess(g, u) PROVE Releasing
  <2>1. CASE state[u] \in {"LOGIN", "WAIT"}
    BY <1>3, <2>1 DEF RegSuccess, linkVars, Releasing, Linked, Plays
  <2>2. CASE state[u] \notin {"LOGIN", "WAIT"}
    BY <1>3, <2>2, DropReleases, CutReleases DEF RegSuccess
  <2> QED BY <2>1, <2>2
<1>4. ASSUME NEW g \in Games, AddGame(g) PROVE Releasing
  BY <1>4 DEF AddGame, linkVars, Releasing, Linked, Plays
<1>5. ASSUME NEW g \in Games, DelGame(g) PROVE Releasing
  <2>1. PICK S, D : Detach(S, D) /\ logins' = logins
    BY <1>5 DEF DelGame
  <2> QED BY <2>1 DEF Detach, IInv, TypeOK, Releasing, Linked, Plays
<1>6. CASE ClearAll \/ Restart
  BY <1>6 DEF ClearAll, Cut, Restart, Detach, IInv, TypeOK, BindingAgrees, Releasing, Linked, Plays
<1> QED BY <1>1, <1>2, <1>3, <1>4, <1>5, <1>6

\* Binding takes a user that nobody plays, with its newest key, and leaves the user
\* that the connection played.
LEMMA ConnectImplements ==
  ASSUME IInv, NEW s \in Sockets, NEW u \in Uids, NEW k \in 1..MaxLogins,
         ConnectRequest(s, u, k)
  PROVE  One!Next
<1>1. CASE state[u] \in {"INIT", "OFFLINE"} /\ k = session[u] /\ client[u] # s
  <2>0. Bind(s, u, k) /\ s \in open /\ logins' = logins
    BY <1>1 DEF ConnectRequest, Bind
  <2>1. k = logins[u]
    BY <1>1 DEF IInv, NewestLoginPlays, Users
  <2>2. ~Linked(u)
    BY <1>1 DEF IInv, TypeOK, ConnectedIffSocket, Connected, GateStates, LoginStates, Linked, Plays
  <2>3. Linked(u)' /\ client'[u] = s /\ key'[s] = k
    BY <1>1, <2>0 DEF IInv, TypeOK, Bind, Linked, Plays
  <2>4. ASSUME NEW v \in Uids \ {u}, Linked(v)'
        PROVE  /\ Linked(v) /\ client'[v] = client[v] /\ key'[client[v]] = key[client[v]]
               /\ client'[v] # s
    BY <1>1, <2>0, <2>4 DEF IInv, TypeOK, Bind, Linked, Plays
  <2>5. One!Attach(u, s)
    BY <2>0, <2>1, <2>2, <2>3, <2>4
       DEF One!Attach, One!Keep, One!Player, Nobody, Linked
  <2> QED BY <2>5 DEF One!Next
<1>2. CASE ~(state[u] \in {"INIT", "OFFLINE"} /\ k = session[u] /\ client[u] # s)
  <2>1. DropSocket(s, {})
    BY <1>2 DEF ConnectRequest
  <2> QED BY <2>1, DropReleases, ReleasingIsRelease DEF IInv
<1> QED BY <1>1, <1>2

LEMMA LoginImplements ==
  ASSUME IInv, NEW u \in Uids, LoginRequest(u)
  PROVE  One!Next
<1>1. Linked(u) => client[u] \in Kicked(u)
  BY DEF IInv, TypeOK, BindingAgrees, ConnectedIffSocket, Kicked, Linked, Plays
<1>2. Kicked(u) \subseteq {client[u]}
  BY DEF Kicked
<1>3. ~Linked(u)'
  BY <1>1, <1>2 DEF LoginRequest, Detach, IInv, TypeOK, Linked, Plays
<1>4. \A v \in Uids :
        Linked(v)' => Linked(v) /\ client'[v] = client[v] /\ key'[client[v]] = key[client[v]]
  BY DEF LoginRequest, Detach, IInv, TypeOK, Linked, Plays
<1>5. logins' = [logins EXCEPT ![u] = @ + 1]
  BY DEF LoginRequest
<1>6. One!Login(u)
  BY <1>3, <1>4, <1>5 DEF One!Login, One!Keep, Linked
<1> QED BY <1>6 DEF One!Next

\* Every step of the gate is a step of OneSession or leaves its state alone.
LEMMA StepImplements ==
  IInv /\ [Next]_vars
  => [One!Next]_<<logins, [u \in Uids |->
                             IF client[u] \in Sockets /\ Plays(u, client[u])
                             THEN [conn |-> client[u], key |-> key[client[u]]] ELSE Nobody]>>
<1> SUFFICES ASSUME IInv, [Next]_vars
             PROVE  One!Next \/ UNCHANGED <<logins, client, bound, key>>
  BY DEF Plays
<1>1. CASE \E s \in Sockets : ClientStep(s)
  <2>1. PICK s \in Sockets : ClientStep(s)
    BY <1>1
  <2>2. ASSUME NEW u \in Uids, NEW k \in 1..MaxLogins, ConnectRequest(s, u, k) PROVE One!Next
    BY <2>2, ConnectImplements
  <2>3. ASSUME Releasing PROVE One!Next
    BY <2>3, ReleasingIsRelease DEF IInv
  <2> QED BY <2>1, <2>2, <2>3, ClientReleases DEF ClientStep
<1>2. CASE TimerStep
  BY <1>2, TimerReleases, ReleasingIsRelease DEF IInv
<1>3. CASE ServerStep
  <2>1. ASSUME NEW u \in Uids, LoginRequest(u) PROVE One!Next
    BY <2>1, LoginImplements
  <2>2. ASSUME Releasing PROVE One!Next
    BY <2>2, ReleasingIsRelease DEF IInv
  <2> QED BY <1>3, <2>1, <2>2, ServerReleases DEF ServerStep
<1>4. CASE Restart
  BY <1>4, ServerReleases, ReleasingIsRelease DEF IInv
<1>5. CASE UNCHANGED vars
  BY <1>5 DEF vars, linkVars
<1> QED BY <1>1, <1>2, <1>3, <1>4, <1>5 DEF Next

\* The gate implements OneSession for any number of users, connections and games:
\* one connection per user, one user per connection at a time, and the newest login
\* only.
THEOREM GateImplementsOneSession == Spec => OneSessionSpec
<1>1. Init => One!Init
  BY DEF Init, One!Init, Nobody
<1>2. IInv /\ [Next]_vars
      => [One!Next]_<<logins, [u \in Uids |->
                                 IF client[u] \in Sockets /\ Plays(u, client[u])
                                 THEN [conn |-> client[u], key |-> key[client[u]]] ELSE Nobody]>>
  BY StepImplements
<1> QED BY <1>1, <1>2, Invariance, PTL DEF Spec, OneSessionSpec, One!Spec

=============================================================================
