----------------------------- MODULE GateSession -----------------------------
(***************************************************************************)
(* The session core of gate_server: which client connection plays which    *)
(* user, what the user's login state is, which timer watches it, and what  *)
(* the gate tells login, center and game when any of this changes.         *)
(*                                                                         *)
(* The gate is single-threaded: every message, connection event and timer  *)
(* is a handler run by one io_service, so every handler is one action.     *)
(* A timer that expires only QUEUES its handler.  Re-arming or cancelling  *)
(* the timer afterwards does not recall it, so handlers that were queued   *)
(* before it still run first: "due" is the set of queued timer handlers,   *)
(* "ahead" bounds how many other handlers may still overtake them.         *)
(***************************************************************************)
EXTENDS Naturals, FiniteSets

CONSTANTS Uids,      \* user ids
          Sockets,   \* client connections
          Games,     \* game servers that may connect to this gate
          NoUser, NoSock, NoGame,
          MaxLogins, \* bound: la_login_request messages per user
          MaxAhead   \* bound: handlers that overtake a queued timer handler

ASSUME SentinelAssumption ==
  /\ NoUser \notin Uids
  /\ NoSock \notin Sockets
  /\ NoGame \notin Games
  /\ Games \cap {"login", "center"} = {}

ASSUME BoundAssumption ==
  /\ MaxLogins \in Nat
  /\ MaxAhead \in Nat

VARIABLES
  state,     \* user_t::m_game_state, "NONE" when m_user_list has no such uid
  client,    \* user_t::m_client_socket
  timer,     \* what user_t::m_timer is armed for
  session,   \* user_t::m_session_id, numbered per user; 0 = none
  creating,  \* user_t::m_is_create_state
  open,      \* m_client_socket_list
  bound,     \* socket_data_t::m_user_wptr
  key,       \* the session id with which the connection was bound
  sessTimer, \* connections whose socket_data_t::m_session_timer is armed
  dead,      \* connections whose peer vanished without closing
  mixed,     \* history: users bound to a connection that was bound to another
             \* user, and the users it was bound to, until they are deleted
  games,     \* m_game_list
  listed,    \* game_t::m_user_list
  due,       \* expired timers whose handlers are still queued
  ahead,     \* handlers that may still run before a queued timer handler
  logins,    \* la_login_requests handled so far, per user
  sent       \* messages to login, center and game sent by the last step

userVars  == <<state, timer, session, creating>>
linkVars  == <<client, open, bound, key, sessTimer, dead, mixed>>
gameVars  == <<games, listed>>
queueVars == <<due, ahead>>
vars == <<userVars, linkVars, gameVars, queueVars, logins, sent>>

-----------------------------------------------------------------------------
(* States, messages, timers *)

GateStates  == {"GATE", "REGATE"}            \* user_t::is_gate_state
LoginStates == {"LOGIN", "SCENE", "WAIT"}    \* user_t::is_login_game
Connected   == GateStates \cup LoginStates   \* states that own a connection
UserStates  == Connected \cup {"INIT", "OFFLINE"}
Codes       == {"OFFLINE", "LOGOUT", "ERROR", "NO_ROLE", "BAN"}

Callbacks == ({"session"} \X Sockets) \cup ({"pingpong", "reconnect"} \X Uids)

Msgs == [to   : {"login", "center"} \cup Games,
         kind : {"kick", "kick_all", "reply", "reg", "create", "cross", "unreg"},
         uid  : Uids \cup {NoUser},
         code : Codes \cup {"-"}]

Msg(to, kind, u, c) == [to |-> to, kind |-> kind, uid |-> u, code |-> c]

Users == {u \in Uids : state[u] # "NONE"}

Init ==
  /\ state = [u \in Uids |-> "NONE"]
  /\ client = [u \in Uids |-> NoSock]
  /\ timer = [u \in Uids |-> "none"]
  /\ session = [u \in Uids |-> 0]
  /\ creating = [u \in Uids |-> FALSE]
  /\ open = {}
  /\ bound = [s \in Sockets |-> NoUser]
  /\ key = [s \in Sockets |-> 0]
  /\ sessTimer = {}
  /\ dead = {}
  /\ mixed = {}
  /\ games = {}
  /\ listed = [g \in Games |-> {}]
  /\ due = {}
  /\ ahead = MaxAhead
  /\ logins = [u \in Uids |-> 0]
  /\ sent = {}

-----------------------------------------------------------------------------
(* The dispatch queue *)

\* A message or connection event is handled.  While timer handlers are due it is
\* one that was queued before them; there are at most MaxAhead of those.
Dispatch ==
  /\ due = {} \/ ahead > 0
  /\ ahead' = IF due = {} THEN ahead ELSE ahead - 1
  /\ UNCHANGED due

\* An armed timer runs out and its handler is queued.
Queue(cb) ==
  /\ cb \notin due
  /\ due' = due \cup {cb}
  /\ UNCHANGED ahead

\* A queued timer handler is run.
RunQueued(cb) ==
  /\ cb \in due
  /\ due' = due \ {cb}
  /\ ahead' = IF due' = {} THEN MaxAhead ELSE ahead

-----------------------------------------------------------------------------
(* Steps shared by the handlers *)

\* (Operators named ..._Bug are one plausible mistake in the operator that follows
\* them; each is checked to break the property it is listed for in PROJECT.json.)

\* del_socket that forgets socket_data_t::close, the session timer.
Detach_TimerBug(S, D) ==
  /\ open' = open \ S /\ dead' = dead \ S /\ mixed' = mixed \ D
  /\ UNCHANGED sessTimer
  /\ bound' = [s \in Sockets |-> IF s \in S \/ bound[s] \in D THEN NoUser ELSE bound[s]]
  /\ key' = [s \in Sockets |-> IF s \in S \/ bound[s] \in D THEN 0 ELSE key[s]]
  /\ client' = [u \in Uids |->
                 IF u \in D \/ (\E s \in S : bound[s] = u) THEN NoSock ELSE client[u]]

\* del_socket that forgets reset_client_socket when the user stays.
Detach_LinkBug(S, D) ==
  /\ open' = open \ S /\ dead' = dead \ S /\ sessTimer' = sessTimer \ S /\ mixed' = mixed \ D
  /\ bound' = [s \in Sockets |-> IF s \in S \/ bound[s] \in D THEN NoUser ELSE bound[s]]
  /\ key' = [s \in Sockets |-> IF s \in S \/ bound[s] \in D THEN 0 ELSE key[s]]
  /\ client' = [u \in Uids |-> IF u \in D THEN NoSock ELSE client[u]]

\* del_socket for the connections S, while the users D are deleted: the session
\* timer is cancelled, the bind data is gone, and so is the link to the connection of
\* the user it is bound to.  Another user may keep its link.
Detach(S, D) ==
  /\ open' = open \ S
  /\ sessTimer' = sessTimer \ S
  /\ dead' = dead \ S
  /\ mixed' = mixed \ D
  /\ bound' = [s \in Sockets |->
                 IF s \in S \/ bound[s] \in D THEN NoUser ELSE bound[s]]
  /\ key' = [s \in Sockets |-> IF s \in S \/ bound[s] \in D THEN 0 ELSE key[s]]
  /\ client' = [u \in Uids |->
                 IF u \in D \/ (\E s \in S : bound[s] = u) THEN NoSock ELSE client[u]]

\* del_user for each of D: the timer is cancelled and the object destroyed.
Erase(D) ==
  /\ state'    = [u \in Uids |-> IF u \in D THEN "NONE" ELSE state[u]]
  /\ timer'    = [u \in Uids |-> IF u \in D THEN "none" ELSE timer[u]]
  /\ session'  = [u \in Uids |-> IF u \in D THEN 0 ELSE session[u]]
  /\ creating' = [u \in Uids |-> IF u \in D THEN FALSE ELSE creating[u]]

\* get_game_by_user_uid: the first game in the list that has the uid
Hosts(u) == {g \in games : u \in listed[g]}
HostOf(u) == IF Hosts(u) = {} THEN {NoGame} ELSE Hosts(u)

\* del_user_from_game that stops at the first game that has the uid
Unlist_FirstBug(D) ==
  [g \in Games |-> listed[g] \ {u \in D : Hosts(u) = {} \/ g = CHOOSE h \in Hosts(u) : TRUE}]

\* del_user_from_game, for each of D: every game that has the uid
Unlist(D) == [g \in Games |-> listed[g] \ D]

\* notify_login_by_kick_user
Kicks(D) == {Msg("login", "kick", u, "-") : u \in D}

\* Connections S go, with the users D; "more" is what else the handler sends.
Cut(S, D, more) ==
  /\ Detach(S, D)
  /\ Erase(D)
  /\ listed' = Unlist(D)
  /\ sent' = Kicks(D) \cup more
  /\ UNCHANGED <<games, logins>>

\* del_socket(s, true)
DropSocket(s, more) ==
  IF s \in open THEN Cut({s}, {bound[s]} \ {NoUser}, more) ELSE Cut({}, {}, more)

\* if the user has a connection del_socket(connection, true), else del_user.  What
\* del_socket deletes is the user that the connection is bound to, if it still exists.
DropUser(u, more) ==
  IF client[u] = NoSock THEN Cut({}, {u}, more) ELSE DropSocket(client[u], more)

\* The new state is set, but the connection stays.
Park_SocketBug(u, st, tm) ==
  /\ UNCHANGED linkVars
  /\ state' = [state EXCEPT ![u] = st]
  /\ timer' = [timer EXCEPT ![u] = tm]

\* The new state is set without its timer.
Park_TimerBug(u, st, tm) ==
  /\ Detach({client[u]} \cap open, {})
  /\ state' = [state EXCEPT ![u] = st]
  /\ UNCHANGED timer

\* del_socket(connection, false) and then a new state with its timer
Park(u, st, tm) ==
  /\ Detach({client[u]} \cap open, {})
  /\ state' = [state EXCEPT ![u] = st]
  /\ timer' = [timer EXCEPT ![u] = tm]

\* set_game_offline after the connection has been deleted
GoOffline(u, more) ==
  /\ Park(u, "OFFLINE", "reconnect")
  /\ sent' = more
  /\ UNCHANGED <<session, creating, gameVars, logins>>

\* notify_others_unreg_user: a logout goes to center only through the game
Unreg(u, code, host) ==
  (IF host = NoGame THEN {} ELSE {Msg(host, "unreg", u, code)})
  \cup (IF code # "LOGOUT" \/ host = NoGame
        THEN {Msg("center", "unreg", u, code)} ELSE {})

\* The state is looked at after it was set.
OfflineNews_Bug(u, host) == IF state'[u] = "SCENE" THEN Unreg(u, "OFFLINE", host) ELSE {}

\* "for a user who is online, tell the others" before it goes offline
OfflineNews(u, host) == IF state[u] = "SCENE" THEN Unreg(u, "OFFLINE", host) ELSE {}

-----------------------------------------------------------------------------
(* Client connections and their messages *)

\* A connection that nothing refers to any more, or a new one.
Unused(s) ==
  s \notin open /\ <<"session", s>> \notin due /\ \A u \in Uids : client[u] # s

\* No session timer, as with a zero timeout.
AddClient_Bug(s) ==
  /\ Dispatch
  /\ Unused(s)
  /\ open' = open \cup {s}
  /\ sent' = {}
  /\ UNCHANGED <<userVars, client, bound, key, sessTimer, dead, mixed, gameVars, logins>>

\* on_add_client: the connection must be bound before its session timer ends
AddClient(s) ==
  /\ Dispatch
  /\ Unused(s)
  /\ open' = open \cup {s}
  /\ sessTimer' = sessTimer \cup {s}
  /\ sent' = {}
  /\ UNCHANGED <<userVars, client, bound, key, dead, mixed, gameVars, logins>>

\* The peer of a connection vanishes: no close, and nothing more is received.
Vanish(s) ==
  /\ s \in open \ dead
  /\ dead' = dead \cup {s}
  /\ sent' = {}
  /\ UNCHANGED <<userVars, client, open, bound, key, sessTimer, mixed, gameVars, queueVars, logins>>

\* The network has closed a deleted connection and destroys it: user_t's weak pointer
\* to it is null from now on.  A queued session handler holds it until it has run.
Destroy(s) ==
  /\ s \notin open /\ <<"session", s>> \notin due
  /\ \E u \in Uids : client[u] = s
  /\ client' = [u \in Uids |-> IF client[u] = s THEN NoSock ELSE client[u]]
  /\ sent' = {}
  /\ UNCHANGED <<userVars, open, bound, key, sessTimer, dead, mixed, gameVars, queueVars, logins>>

\* socket_bind_user, and GATE or REGATE with a fresh pingpong timer: an old
\* connection of the user is deleted, with the link of the user it is bound to.  The
\* user that s was bound to keeps its link to s.
Bind(s, u, k) ==
  LET old == {client[u]} \cap open IN
  /\ open' = open \ old
  /\ dead' = dead \ old
  /\ sessTimer' = sessTimer \ (old \cup {s})
  /\ bound' = [x \in Sockets |->
                 IF x = s THEN u ELSE IF x \in old THEN NoUser ELSE bound[x]]
  /\ key' = [x \in Sockets |-> IF x = s THEN k ELSE IF x \in old THEN 0 ELSE key[x]]
  /\ client' = [v \in Uids |->
                  IF v = u THEN s ELSE IF \E x \in old : bound[x] = v THEN NoSock ELSE client[v]]
  /\ mixed' = mixed \cup (IF bound[s] \in Uids \ {u} THEN {bound[s], u} ELSE {})
  /\ state' = [state EXCEPT ![u] = IF @ = "INIT" THEN "GATE" ELSE "REGATE"]
  /\ timer' = [timer EXCEPT ![u] = "pingpong"]
  /\ sent' = {}
  /\ UNCHANGED <<session, creating, gameVars, logins>>

\* Any session id ever issued for the user will do.
ConnectRequest_Bug(s, u, k) ==
  /\ Dispatch
  /\ s \in open \ dead
  /\ k \in 1..logins[u]
  /\ state[u] \notin GateStates
  /\ IF state[u] \in {"INIT", "OFFLINE"} /\ client[u] # s
     THEN Bind(s, u, k)
     ELSE DropSocket(s, {})

\* handle_ca_connect_request: a client presents a session id that it was given for a
\* user, on any connection: nobody looks at whom the connection is bound to.  While
\* the user is in GATE or REGATE the request is ignored.
ConnectRequest(s, u, k) ==
  /\ Dispatch
  /\ s \in open \ dead
  /\ k \in 1..logins[u]
  /\ state[u] \notin GateStates
  /\ IF state[u] \in {"INIT", "OFFLINE"} /\ k = session[u] /\ client[u] # s
     THEN Bind(s, u, k)
     ELSE DropSocket(s, {})

\* The user for whom a message arrives on s.
FromUser(s, u) == s \in open \ dead /\ u = bound[s] /\ u \in Uids

\* handle_ca_pingpong_request
Pingpong(s, u) ==
  /\ Dispatch /\ FromUser(s, u)
  /\ state[u] \in Connected
  /\ timer' = [timer EXCEPT ![u] = "pingpong"]
  /\ sent' = {}
  /\ UNCHANGED <<state, session, creating, linkVars, gameVars, logins>>

\* handle_ca_lock_notify: the client is in the background and stops pinging
Lock(s, u) ==
  /\ Dispatch /\ FromUser(s, u)
  /\ state[u] = "SCENE"
  /\ timer' = [timer EXCEPT ![u] = "none"]
  /\ sent' = {}
  /\ UNCHANGED <<state, session, creating, linkVars, gameVars, logins>>

\* handle_ca_unlock_notify
Unlock(s, u) ==
  /\ Dispatch /\ FromUser(s, u)
  /\ state[u] = "SCENE"
  /\ timer' = [timer EXCEPT ![u] = "pingpong"]
  /\ sent' = {}
  /\ UNCHANGED <<state, session, creating, linkVars, gameVars, logins>>

\* handle_ca_login_game_request
LoginGame(s, u) ==
  /\ Dispatch /\ FromUser(s, u)
  /\ state[u] \in GateStates
  /\ state' = [state EXCEPT ![u] = "LOGIN"]
  /\ creating' = [creating EXCEPT ![u] = FALSE]
  /\ sent' = {Msg("center", "reg", u, "-")}
  /\ UNCHANGED <<timer, session, linkVars, gameVars, logins>>

\* handle_ca_create_role_request: one request at a time
CreateRole(s, u) ==
  /\ Dispatch /\ FromUser(s, u)
  /\ state[u] = "LOGIN" /\ ~creating[u]
  /\ creating' = [creating EXCEPT ![u] = TRUE]
  /\ sent' = {Msg("center", "create", u, "-")}
  /\ UNCHANGED <<state, timer, session, linkVars, gameVars, logins>>

\* is_create_state: five seconds later another request is accepted
CreateStale(u) ==
  /\ creating[u]
  /\ creating' = [creating EXCEPT ![u] = FALSE]
  /\ sent' = {}
  /\ UNCHANGED <<state, timer, session, linkVars, gameVars, queueVars, logins>>

\* check_msg_bomb fails: kick_user with KICK_ROLE_REASON_MSG_BOMB
MsgBomb(s, u) ==
  /\ Dispatch /\ FromUser(s, u)
  /\ client[u] = s
  /\ \E host \in HostOf(u) :
       DropSocket(s, IF state[u] \in LoginStates THEN Unreg(u, "LOGOUT", host) ELSE {})

\* on_del_client, when the connection is lost: kick_user with KICK_ROLE_REASON_NORMAL
DelClient(s) ==
  LET u == bound[s] IN
  /\ Dispatch /\ s \in open
  /\ IF u = NoUser THEN DropSocket(s, {})
     ELSE /\ client[u] = s
          /\ \/ state[u] \in {"INIT", "GATE"} /\ DropSocket(s, {})
             \/ /\ state[u] \in {"REGATE"} \cup LoginStates
                /\ \E host \in HostOf(u) : GoOffline(u, OfflineNews(u, host))

-----------------------------------------------------------------------------
(* Timers *)

SessionExpire(s) ==
  /\ s \in sessTimer /\ Queue(<<"session", s>>)
  /\ sessTimer' = sessTimer \ {s}
  /\ sent' = {}
  /\ UNCHANGED <<userVars, client, open, bound, key, dead, mixed, gameVars, logins>>

TimerExpire(u) ==
  /\ timer[u] # "none" /\ Queue(<<timer[u], u>>)
  /\ timer' = [timer EXCEPT ![u] = "none"]
  /\ sent' = {}
  /\ UNCHANGED <<state, session, creating, linkVars, gameVars, logins>>

\* socket_session_timeout_callback
SessionTimeout(s) ==
  /\ RunQueued(<<"session", s>>)
  /\ DropSocket(s, {})

\* A switch without the case INIT.
PingpongTimeout_Bug(u) ==
  /\ RunQueued(<<"pingpong", u>>)
  /\ \/ state[u] = "GATE" /\ DropUser(u, {})
     \/ /\ state[u] \in {"REGATE"} \cup LoginStates
        /\ \E host \in HostOf(u) : GoOffline(u, OfflineNews(u, host))
     \/ state[u] \in {"INIT", "OFFLINE", "NONE"} /\ Cut({}, {}, {})

\* pingpong_timeout_callback
PingpongTimeout(u) ==
  /\ RunQueued(<<"pingpong", u>>)
  /\ \/ state[u] = "INIT" /\ Cut({}, {u}, {})
     \/ state[u] = "GATE" /\ DropUser(u, {})
     \/ /\ state[u] \in {"REGATE"} \cup LoginStates
        /\ \E host \in HostOf(u) : GoOffline(u, OfflineNews(u, host))
     \/ state[u] \in {"OFFLINE", "NONE"} /\ Cut({}, {}, {})

\* reconnect_timeout_callback: it does not look at the state
ReconnectTimeout(u) ==
  /\ RunQueued(<<"reconnect", u>>)
  /\ IF state[u] = "NONE" THEN Cut({}, {}, {})
     ELSE \E host \in HostOf(u) : DropUser(u, Unreg(u, "LOGOUT", host))

-----------------------------------------------------------------------------
(* Messages of login, center and game *)

\* is_gate_state instead of the GATE state
FirstLogin_Bug(u) == state[u] \in {"NONE", "INIT"} \cup GateStates

\* Whether the user has never asked for its role: it starts over, else it goes on offline.
FirstLogin(u) == state[u] \in {"NONE", "INIT", "GATE"}

\* A user that has reached only the gate is not kicked.
Kicked_Bug(u) == IF state[u] \in LoginStates THEN {client[u]} \cap open ELSE {}

\* The connection that a new login closes.
Kicked(u) == IF state[u] \in Connected THEN {client[u]} \cap open ELSE {}

\* handle_la_login_request: whoever plays the user is kicked, and only the new
\* session id opens the user from now on
LoginRequest(u) ==
  /\ Dispatch
  /\ logins[u] < MaxLogins
  /\ logins' = [logins EXCEPT ![u] = @ + 1]
  /\ session' = [session EXCEPT ![u] = logins[u] + 1]
  /\ Detach(Kicked(u), {})
  /\ state' = [state EXCEPT ![u] = IF FirstLogin(u) THEN "INIT" ELSE "OFFLINE"]
  /\ timer' = [timer EXCEPT ![u] = IF FirstLogin(u) THEN "pingpong"
                                   ELSE IF state[u] = "OFFLINE" THEN @ ELSE "reconnect"]
  /\ \E host \in HostOf(u) :
       sent' = OfflineNews(u, host) \cup {Msg("login", "reply", u, "-")}
  /\ UNCHANGED <<creating, gameVars>>

\* handle_ea_unreg_user_center_notify
CenterUnreg(u, code) ==
  /\ Dispatch
  /\ state[u] # "NONE"
  /\ \/ /\ code = "LOGOUT" /\ state[u] \in LoginStates
        /\ GoOffline(u, {})
     \/ /\ code = "LOGOUT" /\ state[u] \notin LoginStates \cup {"OFFLINE"}
        /\ DropUser(u, {})
     \/ /\ code = "ERROR" /\ state[u] # "OFFLINE"
        /\ DropUser(u, {})
     \/ /\ code = "NO_ROLE" /\ state[u] \notin {"LOGIN", "OFFLINE"}
        /\ DropUser(u, {})
     \/ /\ code = "BAN"
        /\ \E host \in HostOf(u) :
             LET news == IF state[u] = "SCENE" THEN Unreg(u, "LOGOUT", host) ELSE {}
             IN IF client[u] = NoSock THEN Cut({}, {}, news) ELSE DropSocket(client[u], news)

\* handle_ea_create_role_reply
CreateReply(u) ==
  /\ Dispatch
  /\ creating[u]
  /\ creating' = [creating EXCEPT ![u] = FALSE]
  /\ sent' = {}
  /\ UNCHANGED <<state, timer, session, linkVars, gameVars, logins>>

\* clear_all_users_and_socket(true, ...): on_del_center and handle_ea_kick_all_user_notify
ClearAll ==
  /\ Dispatch
  /\ Cut(open, Users, {Msg("login", "kick_all", NoUser, "-")})

\* on_add_game
AddGame(g) ==
  /\ Dispatch
  /\ g \notin games
  /\ games' = games \cup {g}
  /\ sent' = {}
  /\ UNCHANGED <<userVars, linkVars, listed, logins>>

\* on_del_game: game_t::reset deletes every user in the game's list that has no
\* connection; of the others it deletes the connections with the users bound to them
DelGame(g) ==
  LET L == listed[g] \cap Users
      S == {client[u] : u \in L} \cap open
      D == {u \in L : client[u] = NoSock} \cup ({bound[s] : s \in S} \ {NoUser})
  IN
  /\ Dispatch
  /\ g \in games
  /\ games' = games \ {g}
  /\ Detach(S, D)
  /\ Erase(D)
  /\ listed' = [Unlist(D) EXCEPT ![g] = {}]
  /\ sent' = Kicks(D)
  /\ UNCHANGED logins

\* handle_ga_unreg_user_scene_notify, with UNREGUSER_RET_ERROR
GameUnreg(u) ==
  /\ Dispatch
  /\ state[u] \notin {"NONE", "OFFLINE"}
  /\ DropUser(u, {})

\* handle_ga_reg_user_success_notify: the role is in a scene of game g
RegSuccess(g, u) ==
  /\ Dispatch
  /\ g \in games
  /\ \/ /\ state[u] \in {"LOGIN", "WAIT"}
        /\ state' = [state EXCEPT ![u] = "SCENE"]
        /\ listed' = [listed EXCEPT ![g] = @ \cup {u}]
        /\ sent' = {}
        /\ UNCHANGED <<timer, session, creating, linkVars, games, logins>>
     \/ /\ state[u] = "OFFLINE"
        /\ \E host \in HostOf(u) : Cut({}, {}, Unreg(u, "OFFLINE", host))
     \/ /\ state[u] \notin {"LOGIN", "WAIT", "OFFLINE"}
        /\ LET news == {Msg("center", "unreg", u, "ERROR"), Msg(g, "unreg", u, "ERROR")}
           IN IF state[u] = "NONE" THEN Cut({}, {}, news) ELSE DropUser(u, news)

\* handle_ga_user_cross_server_notify: the role leaves game g for another one
CrossServer(u) ==
  /\ Dispatch
  /\ state[u] = "SCENE"
  /\ state' = [state EXCEPT ![u] = "WAIT"]
  /\ listed' = Unlist({u})
  /\ sent' = {Msg("center", "cross", u, "-")}
  /\ UNCHANGED <<timer, session, creating, linkVars, games, logins>>

\* close_network or a crash, and a new process: nothing is told to anybody
Restart ==
  /\ Detach(open, Users)
  /\ Erase(Users)
  /\ games' = {} /\ listed' = [g \in Games |-> {}]
  /\ due' = {} /\ ahead' = MaxAhead
  /\ sent' = {}
  /\ UNCHANGED logins

-----------------------------------------------------------------------------

ClientStep(s) ==
  \/ AddClient(s) \/ Vanish(s) \/ Destroy(s) \/ DelClient(s)
  \/ \E u \in Uids :
       \/ \E k \in 1..MaxLogins : ConnectRequest(s, u, k)
       \/ Pingpong(s, u) \/ Lock(s, u) \/ Unlock(s, u)
       \/ LoginGame(s, u) \/ CreateRole(s, u) \/ MsgBomb(s, u)

TimerStep ==
  \/ \E s \in Sockets : SessionExpire(s) \/ SessionTimeout(s)
  \/ \E u \in Uids : TimerExpire(u) \/ PingpongTimeout(u) \/ ReconnectTimeout(u) \/ CreateStale(u)

ServerStep ==
  \/ \E u \in Uids :
       \/ LoginRequest(u) \/ CreateReply(u) \/ GameUnreg(u) \/ CrossServer(u)
       \/ \E code \in Codes : CenterUnreg(u, code)
       \/ \E g \in Games : RegSuccess(g, u)
  \/ \E g \in Games : AddGame(g) \/ DelGame(g)
  \/ ClearAll

Next == (\E s \in Sockets : ClientStep(s)) \/ TimerStep \/ ServerStep \/ Restart

Spec == Init /\ [][Next]_vars

-----------------------------------------------------------------------------
(* Safety *)

TypeOK ==
  /\ state \in [Uids -> UserStates \cup {"NONE"}]
  /\ client \in [Uids -> Sockets \cup {NoSock}]
  /\ timer \in [Uids -> {"none", "pingpong", "reconnect"}]
  /\ session \in [Uids -> Nat]
  /\ creating \in [Uids -> BOOLEAN]
  /\ open \subseteq Sockets
  /\ bound \in [Sockets -> Uids \cup {NoUser}]
  /\ key \in [Sockets -> Nat]
  /\ sessTimer \subseteq open
  /\ dead \subseteq open
  /\ mixed \subseteq Users
  /\ games \subseteq Games
  /\ listed \in [Games -> SUBSET Uids]
  /\ due \subseteq Callbacks
  /\ ahead \in 0..MaxAhead
  /\ logins \in [Uids -> 0..MaxLogins]
  /\ sent \subseteq Msgs

\* The weak links agree: a connection's bind data names a user only while that user
\* names the connection, which is in the socket list; and a user's connection, while
\* it is in the list, is bound to nobody else.  (socket_bind_user, del_socket and
\* del_user each change only some of the three.)  The exception is a connection that
\* was bound to one user and then to another, and it stays with those users.
BindingAgrees ==
  /\ \A s \in Sockets : bound[s] # NoUser => s \in open /\ client[bound[s]] = s
  /\ \A u \in Uids \ mixed : client[u] # NoSock => client[u] \in open /\ bound[client[u]] = u
  /\ \A u \in mixed :
       client[u] \in open /\ bound[client[u]] # u => bound[client[u]] \in mixed

\* A user owns a connection in exactly the states that assume one: the handlers
\* of REGATE, LOGIN, SCENE and WAIT call del_socket on it without a check.  Whoever
\* a connection is bound to is in such a state, the users that shared it or not.
ConnectedIffSocket ==
  /\ \A u \in Uids \ mixed : state[u] \in Connected <=> client[u] # NoSock
  /\ \A s \in Sockets : bound[s] # NoUser => state[bound[s]] \in Connected

\* The connection that plays a user presented the newest session id: after
\* another la_login_request no earlier client is still attached.
NewestLoginPlays ==
  /\ \A s \in Sockets : bound[s] # NoUser => key[s] = session[bound[s]]
  /\ \A u \in Users : session[u] = logins[u]

\* An armed or already queued timer watches everything that would otherwise stay
\* for ever: an unbound connection, a user that has not reached a scene, a user
\* that is offline.  Only ca_lock_notify leaves a user without one, and a connection that
\* two users share: the timeout of one of them may delete the other instead.
Watched ==
  /\ \A s \in open : bound[s] = NoUser => s \in sessTimer \/ <<"session", s>> \in due
  /\ \A u \in Uids \ mixed :
       /\ state[u] \in {"INIT", "LOGIN"} \cup GateStates =>
            timer[u] = "pingpong" \/ <<"pingpong", u>> \in due
       /\ state[u] = "OFFLINE" =>
            timer[u] = "reconnect" \/ <<"reconnect", u>> \in due

\* A user in a scene is in the list of a game (else no message and no logout
\* would reach its role), and a game lists nobody who is not, or was never,
\* in a scene: game_t::reset deletes whoever is listed, except a user whose
\* connection another user took over.
ListedInScene ==
  /\ \A u \in Uids \ mixed : state[u] = "SCENE" => Hosts(u) # {}
  /\ \A g \in Games : \A u \in listed[g] :
       g \in games /\ state[u] \in {"SCENE", "OFFLINE", "REGATE", "LOGIN"}

\* What center or game already know, or a gate that lost all its users: steps
\* that take a user out of its scene without any message to its game.
Told(u) ==
  \/ \E code \in Codes \ {"BAN"} : CenterUnreg(u, code)
  \/ GameUnreg(u)
  \/ \E g \in Games : DelGame(g) \/ RegSuccess(g, u)
  \/ ClearAll
  \/ Restart

\* A second ca_connect_request, for any user, on the connection that plays u.
RepeatedConnect(u) ==
  \E s \in Sockets, v \in Uids, k \in 1..MaxLogins :
    bound[s] = u /\ ConnectRequest(s, v, k)

\* The handler of a session timer that was cancelled too late finds u bound, although
\* user_manager.cpp:184 says that the connection is bound to no user then.
LateTimeout(u) == \E s \in Sockets : bound[s] = u /\ SessionTimeout(s)

\* A game that lists the user hears OFFLINE or LOGOUT in the very step in which the
\* gate lets the user leave its scene on its own account
\* (notify_others_unreg_user must come before del_socket and set_game_offline).
\* A repeated ca_connect_request and a late session timer are the two handlers
\* that forget it; of two users that share a connection the wrong one may leave.
SceneExitAnnounced ==
  [][\A u \in Uids \ mixed :
       /\ state[u] = "SCENE" /\ state'[u] \notin {"SCENE", "WAIT"}
       /\ ~Told(u) /\ ~RepeatedConnect(u) /\ ~LateTimeout(u)
       => \E g \in games, c \in {"OFFLINE", "LOGOUT"} :
            u \in listed[g] /\ Msg(g, "unreg", u, c) \in sent']_vars

\* A user that asked center for its role is never taken for one that has none:
\* in INIT and GATE the user is deleted without telling center or game, so those
\* states are out of reach until the user is deleted.
RoleIsRemembered ==
  [][\A u \in Uids :
       state[u] \in {"REGATE", "OFFLINE"} \cup LoginStates
       => state'[u] \notin {"INIT", "GATE"}]_vars

\* user_msg_handler.cpp:178, "a failed ca_connect_request cannot really delete the
\* user, which is not bound to this connection yet".  A repeated request of a user
\* that already plays, or a request for another user, fails on the very connection
\* the user is bound to.
RefusedConnectDeletesNobody ==
  [][\A s \in Sockets, u, v \in Uids : \A k \in 1..MaxLogins :
       ConnectRequest(s, u, k) /\ state[v] # "NONE" => state'[v] # "NONE"]_vars

-----------------------------------------------------------------------------
(* The promise to a player *)

Nobody == [conn |-> NoSock, key |-> 0]

\* The connection whose messages are taken for the user's.
Plays(u, s) == client[u] = s /\ bound[s] = u

One == INSTANCE OneSession WITH
  latest <- logins,
  player <- [u \in Uids |->
               IF client[u] \in Sockets /\ Plays(u, client[u])
               THEN [conn |-> client[u], key |-> key[client[u]]] ELSE Nobody]

\* The gate implements OneSession: no interleaving of logins, late timers, lost
\* connections and reconnects lets two clients play one user, one connection
\* play two users at a time, or an older login back in.
OneSessionSpec == One!Spec

-----------------------------------------------------------------------------
(* Liveness.  A deadline timer that nobody re-arms runs out, and io_service   *)
(* runs every handler that is queued.  A client that is alive re-arms its     *)
(* pingpong timer, so nothing is assumed of that timer while the client lives.*)

Unattended(u) == \A s \in open \ dead : bound[s] # u

Fairness ==
  /\ \A s \in Sockets :
       /\ WF_vars(s \in dead /\ SessionExpire(s))
       /\ WF_vars(SessionTimeout(s))
  /\ \A u \in Uids :
       /\ WF_vars(Unattended(u) /\ TimerExpire(u))
       /\ WF_vars(PingpongTimeout(u))
       /\ WF_vars(ReconnectTimeout(u))

FairSpec == Spec /\ Fairness

\* Nothing watches this user: it was locked in its scene (ca_lock_notify).
Locked(u) ==
  /\ state[u] \in {"SCENE", "WAIT"} /\ timer[u] = "none"
  /\ {<<"pingpong", u>>, <<"reconnect", u>>} \cap due = {}

\* The gate gets rid of every connection whose peer vanished without closing it,
\* unless the user that plays on it is locked.
VanishedIsReleased ==
  \A s \in Sockets :
    s \in dead ~> (s \notin dead \/ (bound[s] \in Uids /\ Locked(bound[s])))

\* user.cpp:234, "once a user is bound, the user's pingpong takes over the
\* management of this connection": without the exception for locked users.
PingpongTakesOver == \A s \in Sockets : s \in dead ~> s \notin dead

\* Nobody stays offline, and nobody stays unconnected after a login, for ever:
\* the reconnect timer is not restarted by further logins, the first timer is.
\* (The reconnect timeout of a user that shared its connection deletes the user that
\* the connection is bound to, and there is no second timeout.)
OfflineEnds ==
  \A u \in Uids : state[u] = "OFFLINE" ~> (state[u] # "OFFLINE" \/ u \in mixed)
LoginIsUsedOrDropped == \A u \in Uids : state[u] = "INIT" ~> state[u] # "INIT"

=============================================================================
