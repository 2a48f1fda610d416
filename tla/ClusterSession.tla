---------------------------- MODULE ClusterSession ----------------------------
(***************************************************************************)
(* One player's session across the processes that share it: the gates, the *)
(* center, the games and the database.  The gate holds the client, center  *)
(* decides which game plays the user, the game loads the role from the     *)
(* database and writes it back, and every pair of processes has its own    *)
(* TCP connection: messages of one connection arrive in order, messages of *)
(* different connections overtake each other.                              *)
(*                                                                         *)
(* A lost connection is noticed on both sides, after the messages that     *)
(* still got through: it ends the channel with a "closed" entry (the       *)
(* on_del_ handlers).  Every process is single-threaded, so each message   *)
(* is handled by one action.  GateSession has the gate's connections and   *)
(* timers; here they are the steps Leave and Expire.                       *)
(***************************************************************************)
EXTENDS Integers, Sequences, FiniteSets

CONSTANTS Gates, Games,
          None,       \* no record
          MaxLogins,  \* bound: logins and reconnects of the player
          Fragile,    \* connections that may be lost while both ends live
          MaxIncidents, \* bound: jumps, faults and hasty logins together
          MaxVer      \* bound: changes of the role's data

ASSUME ProcessAssumption ==
  /\ Gates \cap Games = {}
  /\ {"center", "db"} \cap (Gates \cup Games) = {}

ASSUME BoundsAssumption == MaxLogins \in Nat /\ MaxIncidents \in Nat /\ MaxVer \in Nat

VARIABLES
  gate,     \* user_t::m_game_state in each gate; "NONE": not in m_user_list
  listed,   \* the games whose m_user_list has the user, in each gate
  user,     \* the user in center's m_global_user_map
  home,     \* the game of the scene that global_user_data keeps for the user
  known,    \* the games whose scenes center has
  role,     \* the role in each game's m_role_list
  stored,   \* the version of the role in the database
  wire,     \* what each process has sent to another that is not handled yet
  up,       \* the connected pairs
  logins, version, \* counters: logins, changes of the data,
  jumps,    \* jumps to a scene of another game,
  faults,   \* lost connections and crashed processes,
  hurries,  \* logins at a gate that were let in too early (Hasty)
  repeated, \* history: a login was sent while an earlier one was under way
  reloaded  \* history: a record was asked for while an earlier answer was due

gateVars   == <<gate, listed>>
centerVars == <<user, home, known>>
dataVars   == <<role, stored>>
incidentVars == <<jumps, faults, hurries>>
histories  == <<repeated, reloaded>>
counters   == <<logins, version, incidentVars, histories>>
vars == <<gateVars, centerVars, dataVars, wire, up, counters>>

-----------------------------------------------------------------------------
(* Processes, connections, messages *)

GateStates  == {"GATE", "REGATE"}
LoginStates == {"LOGIN", "SCENE", "WAIT"}
Codes == {"OFFLINE", "LOGOUT", "ERROR"}
LoginTypes == {"login", "relogin", "jump", "none"} \* scene_change_type

Processes == Gates \cup Games \cup {"center", "db"}

\* Whom each process is connected to.
Peers == [p \in Processes |->
  IF p \in Gates THEN Games \cup {"center"}
  ELSE IF p \in Games THEN Gates \cup {"center", "db"}
  ELSE IF p = "center" THEN Gates \cup Games ELSE Games]

Links == UNION {{{p, q} : q \in Peers[p]} : p \in Processes}

Say(kind) == [kind |-> kind]
UnregMsg(code) == [kind |-> "unreg", code |-> code]

Msgs ==
  [kind : {"closed", "reg", "kick_all", "success", "ready", "load", "syn"}]
  \cup [kind : {"unreg"}, code : Codes]
  \cup [kind : {"cross"}, to : Games]
  \cup [kind : {"reg_scene"}, gate : Gates, type : {"login", "jump"}]
  \cup [kind : {"relogin"}, gate : Gates]
  \cup [kind : {"entered"}, type : LoginTypes]
  \cup [kind : {"save", "record"}, ver : Nat]

Users == [gate : Gates, game : Games, on : {"LOGOUT", "ONLINE", "OFFLINE"}]
Roles == [st : {"LOADING", "OK"}, gate : Gates, on : {"ONLINE", "OFFLINE"},
          type : LoginTypes, ver : Nat]

ASSUME NoneAssumption == None \notin Roles /\ None \notin Users

\* What a handler sends: at most one message to each of its addressees.
Each(S, m) == [q \in S |-> m]
To(q, m) == Each({q}, m)
Nothing == Each({}, Say("nothing"))
out1 ++ out2 ==
  [q \in DOMAIN out1 \cup DOMAIN out2 |-> IF q \in DOMAIN out1 THEN out1[q] ELSE out2[q]]

\* Process p sends "out"; what is sent on a broken connection is dropped.
Post(w, p, out) ==
  [w EXCEPT ![p] = [q \in Peers[p] |->
     IF q \in DOMAIN out /\ {p, q} \in up THEN Append(@[q], out[q]) ELSE @[q]]]

\* The next thing p hears from q.
Incoming(q, p) == IF wire[q][p] = <<>> THEN Say("nothing") ELSE Head(wire[q][p])

\* p handles it and sends "out".
Handle(q, p, out) == wire' = Post([wire EXCEPT ![q][p] = Tail(@)], p, out)

\* p sends "out" on its own account.
Send(p, out) == wire' = Post(wire, p, out)

\* Bounds.  Only DataKept looks at the data of the role, and it speaks of
\* behaviours without jumps and faults: the data changes in no other.
MayHurry == jumps + faults + hurries < MaxIncidents
MayHappen == MayHurry /\ version = 0
MayChange == version < MaxVer /\ jumps + faults = 0

Quiet == \A p \in Processes : \A q \in Peers[p] : wire[p][q] = <<>>

Init ==
  /\ gate = [a \in Gates |-> "NONE"]
  /\ listed = [a \in Gates |-> {}]
  /\ user = None
  /\ home \in Games
  /\ known = Games
  /\ role = [g \in Games |-> None]
  /\ stored = 0
  /\ wire = [p \in Processes |-> [q \in Peers[p] |-> <<>>]]
  /\ up = Links
  /\ logins = 0 /\ version = 0
  /\ jumps = 0 /\ faults = 0 /\ hurries = 0
  /\ repeated = FALSE /\ reloaded = FALSE

-----------------------------------------------------------------------------
(* The gate: the player *)

\* What notify_others_unreg_user may send: the first game found to list the user
\* hears of it, which of them is left open, and center hears of a logout through
\* that game.
Unregs(a, code) ==
  IF listed[a] = {} THEN {To("center", UnregMsg(code))}
  ELSE {To(g, UnregMsg(code))
          ++ (IF code # "LOGOUT" THEN To("center", UnregMsg(code)) ELSE Nothing) :
        g \in listed[a]}

\* Only the state of gate a changes, and a sends "out".
GateMoves(a, st, out) ==
  /\ gate' = [gate EXCEPT ![a] = st]
  /\ Send(a, out)
  /\ UNCHANGED <<centerVars, dataVars, up, version, jumps, faults, reloaded>>

\* del_user, which also takes the user out of the game's list
GateDrops(a, out) ==
  /\ GateMoves(a, "NONE", out)
  /\ listed' = [listed EXCEPT ![a] = {}]
  /\ UNCHANGED <<logins, hurries, repeated>>

\* A login at a gate that does not have the user comes too early before the last
\* messages about its deletion are handled, or while another gate has the user:
\* login_server does not always send a user to the gate that has it (LoginGates).
Hasty(a) == ~Quiet \/ \E b \in Gates \ {a} : gate[b] # "NONE"

\* A login (la_login_request, then ca_connect_request).
Arrive(a) ==
  /\ logins < MaxLogins
  /\ \/ /\ gate[a] = "NONE" /\ ~Hasty(a)
        /\ GateMoves(a, "GATE", Nothing) /\ UNCHANGED hurries
     \/ /\ gate[a] = "NONE" /\ Hasty(a) /\ MayHurry
        /\ GateMoves(a, "GATE", Nothing) /\ hurries' = hurries + 1
     \/ gate[a] = "OFFLINE" /\ GateMoves(a, "REGATE", Nothing) /\ UNCHANGED hurries
  /\ logins' = logins + 1
  /\ UNCHANGED <<listed, repeated>>

\* A login is under way: not everyone has heard yet how it ended.
UnderWay ==
  \/ \E g \in Games : role[g] # None /\ role[g].st = "LOADING"
  \/ \E p \in Processes : \E q \in Peers[p] : \E i \in DOMAIN wire[p][q] :
       \/ wire[p][q][i].kind \in {"reg", "reg_scene", "relogin", "success"}
       \/ wire[p][q][i] = UnregMsg("ERROR")

\* handle_ca_login_game_request
LoginGame(a) ==
  /\ gate[a] \in GateStates
  /\ GateMoves(a, "LOGIN", To("center", Say("reg")))
  /\ repeated' = (repeated \/ UnderWay)
  /\ UNCHANGED <<listed, logins, hurries>>

\* The client's ready message, which the gate forwards to the game.
Ready(a) ==
  /\ gate[a] = "SCENE"
  /\ \E g \in listed[a] :
       /\ role[g] # None => role[g].type # "none"
       /\ \A i \in DOMAIN wire[a][g] : wire[a][g][i].kind # "ready"
       /\ GateMoves(a, "SCENE", To(g, Say("ready")))
  /\ UNCHANGED <<listed, logins, hurries, repeated>>

\* kick_user(NORMAL), pingpong_timeout_callback, and a further la_login_request:
\* who is in a scene is announced offline.
Leave(a) ==
  \/ gate[a] = "GATE" /\ GateDrops(a, Nothing)
  \/ /\ gate[a] \in {"REGATE"} \cup LoginStates
     /\ \E out \in IF gate[a] = "SCENE" THEN Unregs(a, "OFFLINE") ELSE {Nothing} :
          GateMoves(a, "OFFLINE", out)
     /\ UNCHANGED <<listed, logins, hurries, repeated>>

\* reconnect_timeout_callback
Expire(a) ==
  /\ gate[a] = "OFFLINE"
  /\ \E out \in Unregs(a, "LOGOUT") : GateDrops(a, out)

\* kick_user(MSG_BOMB)
MsgBomb(a) ==
  /\ gate[a] \in {"REGATE"} \cup LoginStates
  /\ \E out \in IF gate[a] = "REGATE" THEN {Nothing} ELSE Unregs(a, "LOGOUT") :
       GateDrops(a, out)

-----------------------------------------------------------------------------
(* The gate: messages of center and games *)

\* Gate a handles what q sent: a new state, a new list, and messages.
GateHandles(q, a, st, lst, out) ==
  /\ gate' = [gate EXCEPT ![a] = st]
  /\ listed' = [listed EXCEPT ![a] = lst]
  /\ Handle(q, a, out)
  /\ UNCHANGED <<centerVars, dataVars, up, counters>>

\* handle_ea_unreg_user_center_notify and handle_ga_unreg_user_scene_notify, ERROR
GateHearsError(q, a) ==
  /\ Incoming(q, a).kind = "unreg"
  /\ IF gate[a] \in {"NONE", "OFFLINE"} THEN GateHandles(q, a, gate[a], listed[a], Nothing)
     ELSE GateHandles(q, a, "NONE", {}, Nothing)

\* handle_ga_reg_user_success_notify
GateHearsSuccess(g, a) ==
  /\ Incoming(g, a).kind = "success"
  /\ \/ /\ gate[a] \in {"LOGIN", "WAIT"}
        /\ GateHandles(g, a, "SCENE", listed[a] \cup {g}, Nothing)
     \/ /\ gate[a] = "OFFLINE"
        /\ \E out \in Unregs(a, "OFFLINE") : GateHandles(g, a, "OFFLINE", listed[a], out)
     \/ /\ gate[a] \notin {"LOGIN", "WAIT", "OFFLINE"}
        /\ GateHandles(g, a, "NONE", {},
             To("center", UnregMsg("ERROR")) ++ To(g, UnregMsg("ERROR")))

\* handle_ga_user_cross_server_notify
GateHearsCross(g, a) ==
  /\ Incoming(g, a).kind = "cross"
  /\ IF gate[a] # "SCENE" THEN GateHandles(g, a, gate[a], listed[a], Nothing)
     ELSE GateHandles(g, a, "WAIT", {}, To("center", Incoming(g, a)))

\* on_del_center and handle_ea_kick_all_user_notify: clear_all_users_and_socket
GateCleared(a) ==
  /\ Incoming("center", a).kind \in {"closed", "kick_all"}
  /\ GateHandles("center", a, "NONE", {}, Nothing)

\* on_del_game: the users in the game's list are deleted
GateLosesGame(g, a) ==
  /\ Incoming(g, a).kind = "closed"
  /\ IF g \in listed[a] THEN GateHandles(g, a, "NONE", {}, Nothing)
     ELSE GateHandles(g, a, gate[a], listed[a], Nothing)

-----------------------------------------------------------------------------
(* Center *)

\* Center handles what q sent.
CenterHandles(q, u, h, k, out) ==
  /\ user' = u /\ home' = h /\ known' = k
  /\ Handle(q, "center", out)
  /\ UNCHANGED <<gateVars, dataVars, up, counters>>

\* reg_user takes the scene the user left, else the last static map or the born
\* map: whose game has those is left open.
LoginScenes == IF home \in known THEN {home} ELSE known

\* reg_global_user
CenterRegs(a) ==
  /\ Incoming(a, "center").kind = "reg"
  /\ \/ /\ user # None /\ user.gate = a
        /\ CenterHandles(a, user, home, known,
             To(user.game, [kind |-> "relogin", gate |-> a]))
     \/ /\ user # None /\ user.gate # a
        /\ CenterHandles(a, None, home, known,
             To(a, UnregMsg("ERROR")) ++ To(user.game, UnregMsg("ERROR")))
     \/ /\ user = None
        /\ \E g \in LoginScenes :
             CenterHandles(a, [gate |-> a, game |-> g, on |-> "LOGOUT"], g, known,
               To(g, [kind |-> "reg_scene", gate |-> a, type |-> "login"]))
     \/ /\ user = None \* no data, or none of its scenes is there
        /\ CenterHandles(a, None, home, known, To(a, UnregMsg("ERROR")))

\* A switch without its cases: the code is taken for an online state.
CenterUnregs_Bug(q) ==
  LET code == Incoming(q, "center").code IN
  /\ Incoming(q, "center").kind = "unreg"
  /\ IF user = None THEN CenterHandles(q, None, home, known, Nothing)
     ELSE CenterHandles(q, [user EXCEPT !.on = code], home, known, Nothing)

\* unreg_global_user, for the gate (ae_) and for the game (ge_)
CenterUnregs(q) ==
  LET code == Incoming(q, "center").code IN
  /\ Incoming(q, "center").kind = "unreg"
  /\ IF user = None THEN CenterHandles(q, None, home, known, Nothing)
     ELSE IF code = "OFFLINE"
          THEN CenterHandles(q, [user EXCEPT !.on = "OFFLINE"], home, known, Nothing)
          ELSE CenterHandles(q, None, home, known, Nothing)

\* scene_reg_user_success, with sync_role_date
CenterEntered(g) ==
  LET type == Incoming(g, "center").type IN
  /\ Incoming(g, "center").kind = "entered"
  /\ \/ /\ user # None /\ type \in {"login", "relogin"}
        /\ CenterHandles(g, [user EXCEPT !.on = "ONLINE"], home, known, Nothing)
     \/ /\ user # None /\ type = "jump"
        /\ CenterHandles(g, user, g, known, Nothing)
     \/ /\ user = None
        /\ CenterHandles(g, None, home, known,
             Each(Gates, UnregMsg("ERROR")) ++ To(g, UnregMsg("ERROR")))

\* user_cross_server, with reg_cross
CenterCrosses(a) ==
  LET to == Incoming(a, "center").to IN
  /\ Incoming(a, "center").kind = "cross"
  /\ \/ /\ user # None /\ to \in known
        /\ CenterHandles(a, [user EXCEPT !.game = to], home, known,
             To(to, [kind |-> "reg_scene", gate |-> user.gate, type |-> "jump"]))
     \/ \* no user, or the scene is gone
        CenterHandles(a, None, home, known, Each(Gates, UnregMsg("ERROR")))

\* on_del_gate: kick_gate_all_users
CenterLosesGate(a) ==
  /\ Incoming(a, "center").kind = "closed"
  /\ CenterHandles(a, IF user # None /\ user.gate = a THEN None ELSE user, home, known, Nothing)

\* on_del_game: kick_game_all_users, and the game's scenes go
CenterLosesGame(g) ==
  /\ Incoming(g, "center").kind = "closed"
  /\ CenterHandles(g, IF user # None /\ user.game = g THEN None ELSE user, home,
       known \ {g}, Nothing)

\* ge_syn_game_info_notify of a game that connected: its static scenes
CenterLearns(g) ==
  /\ Incoming(g, "center").kind = "syn"
  /\ CenterHandles(g, user, home, known \cup {g}, Nothing)

\* Only the games are told.
CenterLosesDb_Bug ==
  /\ MayHappen
  /\ user' = None
  /\ Send("center", Each(Games, Say("kick_all")))
  /\ faults' = faults + 1
  /\ UNCHANGED <<gateVars, home, known, dataVars, up, logins, version, jumps, hurries, histories>>

\* on_del_db: everybody is kicked, everywhere
CenterLosesDb ==
  /\ MayHappen
  /\ user' = None
  /\ Send("center", Each(Gates \cup Games, Say("kick_all")))
  /\ faults' = faults + 1
  /\ UNCHANGED <<gateVars, home, known, dataVars, up, logins, version, jumps, hurries, histories>>

-----------------------------------------------------------------------------
(* Games and database *)

\* A role that is offline is taken for saved.
Save_Bug(r) ==
  IF r # None /\ r.st = "OK" /\ r.on = "ONLINE"
  THEN To("db", [kind |-> "save", ver |-> r.ver]) ELSE Nothing

\* save_all_datas, for a role that is loaded
Save(r) ==
  IF r # None /\ r.st = "OK" THEN To("db", [kind |-> "save", ver |-> r.ver]) ELSE Nothing

SaveOf(g) == Save(role[g])

\* The database owes g a record.
Owed(g) ==
  \/ \E i \in DOMAIN wire[g]["db"] : wire[g]["db"][i].kind = "load"
  \/ \E i \in DOMAIN wire["db"][g] : wire["db"][g][i].kind = "record"

\* Game g handles what q sent.
GameHandles(q, g, r, out) ==
  /\ role' = [role EXCEPT ![g] = r]
  /\ Handle(q, g, out)
  /\ reloaded' = (reloaded \/ (Owed(g) /\ "db" \in DOMAIN out /\ out["db"].kind = "load"))
  /\ UNCHANGED <<gateVars, centerVars, stored, up, logins, version, incidentVars, repeated>>

\* The gates are left to find out.
Refuse_Bug(q, g) ==
  GameHandles(q, g, None, SaveOf(g) ++ To("center", UnregMsg("ERROR")))

\* The failure branches of the registrations: del_role, and everyone is told.
Refuse(q, g) ==
  GameHandles(q, g, None,
    SaveOf(g) ++ To("center", UnregMsg("ERROR")) ++ Each(Gates, UnregMsg("ERROR")))

\* scene_reg_user.  A scene that is not static may be gone.
GameRegs(g) ==
  LET m == Incoming("center", g) IN
  /\ m.kind = "reg_scene"
  /\ \/ /\ role[g] = None
        /\ GameHandles("center", g,
             [st |-> "LOADING", gate |-> m.gate, on |-> "OFFLINE", type |-> m.type, ver |-> 0],
             To("db", Say("load")))
     \/ Refuse("center", g)

\* scene_relogin_user
GameRelogs(g) ==
  LET m == Incoming("center", g) IN
  /\ m.kind = "relogin"
  /\ \/ /\ role[g] # None /\ role[g].st = "OK"
        /\ GameHandles("center", g,
             [role[g] EXCEPT !.gate = m.gate, !.type = "relogin", !.on = "ONLINE"],
             To(m.gate, Say("success")) ++ To("center", [kind |-> "entered", type |-> "relogin"]))
     \/ Refuse("center", g)

\* center_unreg_user, and handle_eg_kick_all_user_notify, on_del_center: del_all_roles
GameClears(g) ==
  /\ Incoming("center", g).kind \in {"unreg", "kick_all", "closed"}
  /\ GameHandles("center", g, None, SaveOf(g))

\* gate_unreg_user
GameUnregs(a, g) ==
  LET code == Incoming(a, g).code IN
  /\ Incoming(a, g).kind = "unreg"
  /\ \/ /\ code = "OFFLINE"
        /\ GameHandles(a, g, IF role[g] = None THEN None
                             ELSE [role[g] EXCEPT !.on = "OFFLINE"], Nothing)
     \/ /\ code = "LOGOUT"
        /\ GameHandles(a, g, None, SaveOf(g) ++ To("center", UnregMsg("LOGOUT")))
     \/ /\ code = "ERROR"
        /\ GameHandles(a, g, None, SaveOf(g))

\* ready_enter_scene resets the login type
GameReady(a, g) ==
  /\ Incoming(a, g).kind = "ready"
  /\ GameHandles(a, g, IF role[g] = None THEN None ELSE [role[g] EXCEPT !.type = "none"], Nothing)

\* on_del_gate: gate_manager_t::del_gate deletes the roles of the gate
GameLosesGate(a, g) ==
  /\ Incoming(a, g).kind = "closed"
  /\ IF role[g] # None /\ role[g].gate = a THEN GameHandles(a, g, None, SaveOf(g))
     ELSE GameHandles(a, g, role[g], Nothing)

\* on_user_record.  A record is loaded once; without a login type reg_scene fails.
GameLoads(g) ==
  LET m == Incoming("db", g)
      r == role[g]
      loaded == IF r = None THEN None ELSE [r EXCEPT !.st = "OK", !.on = "ONLINE",
                  !.ver = IF r.st = "LOADING" THEN m.ver ELSE r.ver]
  IN
  /\ m.kind = "record"
  /\ \/ r = None /\ GameHandles("db", g, None, Nothing)
     \/ /\ r # None /\ r.type # "none"
        /\ GameHandles("db", g, loaded,
             To(r.gate, Say("success")) ++ To("center", [kind |-> "entered", type |-> r.type]))
     \/ /\ r # None
        /\ \E last \in {r, loaded} : \* there was no record, or reg_scene failed
             GameHandles("db", g, None,
               To(r.gate, UnregMsg("ERROR")) ++ To("center", UnregMsg("ERROR")) ++ Save(last))

\* on_del_db: the socket is dropped and nothing else
GameLosesDb(g) ==
  /\ Incoming("db", g).kind = "closed"
  /\ GameHandles("db", g, role[g], Nothing)

\* The role is saved but not deleted before the gate is told.
Jump_Bug(g) ==
  /\ MayHappen
  /\ role[g] # None /\ role[g].st = "OK"
  /\ \E to \in Games \ {g} :
       Send(g, SaveOf(g) ++ To(role[g].gate, [kind |-> "cross", to |-> to]))
  /\ jumps' = jumps + 1
  /\ UNCHANGED <<gateVars, centerVars, dataVars, up, logins, version, faults, hurries, histories>>

\* do_jump_scene, center_cross_check_reply: the role is saved and deleted first
Jump(g) ==
  /\ MayHappen
  /\ role[g] # None /\ role[g].st = "OK"
  /\ \E to \in Games \ {g} :
       Send(g, SaveOf(g) ++ To(role[g].gate, [kind |-> "cross", to |-> to]))
  /\ role' = [role EXCEPT ![g] = None]
  /\ jumps' = jumps + 1
  /\ UNCHANGED <<gateVars, centerVars, stored, up, logins, version, faults, hurries, histories>>

\* The role plays: its data changes.
Play(g) ==
  /\ MayChange
  /\ role[g] # None /\ role[g].st = "OK"
  /\ version' = version + 1
  /\ role' = [role EXCEPT ![g].ver = @ + 1]
  /\ UNCHANGED <<gateVars, centerVars, stored, wire, up, logins, incidentVars, histories>>

\* save_to_db_timer_callback, and the saves that do not wait for it
Autosave(g) ==
  /\ role[g] # None /\ role[g].st = "OK" /\ role[g].ver # stored
  /\ wire[g]["db"] = <<>>
  /\ Send(g, SaveOf(g))
  /\ UNCHANGED <<gateVars, centerVars, dataVars, up, counters>>

\* handle_gd_batch_save_to_db_notify, handle_gd_role_data_request, a lost game
DbHandles(g) ==
  LET m == Incoming(g, "db") IN
  /\ m.kind \in {"save", "load", "closed"}
  /\ Handle(g, "db", IF m.kind = "load" THEN To(g, [kind |-> "record", ver |-> stored]) ELSE Nothing)
  /\ stored' = IF m.kind = "save" THEN m.ver ELSE stored
  /\ UNCHANGED <<gateVars, centerVars, role, up, counters>>

-----------------------------------------------------------------------------
(* Faults *)

\* What still arrives of a channel that breaks.
Broken(q, k) == SubSeq(q, 1, k) \o <<Say("closed")>>

\* How much of what p sent to each process may get through.
Cuts(p) ==
  {k \in [Peers[p] -> UNION {0..Len(wire[p][q]) : q \in Peers[p]}] :
     \A q \in Peers[p] : k[q] <= Len(wire[p][q])}

\* A connection is lost.
LinkFails(l) ==
  /\ MayHappen
  /\ l \in Fragile \cap up
  /\ up' = up \ {l}
  /\ LET p == CHOOSE x \in l : TRUE
         q == CHOOSE x \in l : x # p
     IN \E i \in 0..Len(wire[p][q]), j \in 0..Len(wire[q][p]) :
          wire' = [wire EXCEPT ![p][q] = Broken(@, i), ![q][p] = Broken(@, j)]
  /\ faults' = faults + 1
  /\ UNCHANGED <<gateVars, centerVars, dataVars, logins, version, jumps, hurries, histories>>

\* The connector of one side connects again, after both have noticed the loss.
LinkReturns(l) ==
  /\ \A p \in l : \A q \in l \ {p} : wire[p][q] = <<>>
  /\ up' = up \cup {l}
  /\ wire' = [p \in Processes |-> [q \in Peers[p] |->
                IF {p, q} = l /\ p \in Games /\ q = "center" THEN <<Say("syn")>> ELSE wire[p][q]]]
  /\ UNCHANGED <<gateVars, centerVars, dataVars, counters>>

\* A gate or a game crashes, or closes its connections by force (clear_gate), and
\* starts again, empty: the last messages it sent may be lost on each connection,
\* what was sent to it is.
Crash(p) ==
  /\ MayHappen
  /\ faults' = faults + 1
  /\ gate' = [a \in Gates |-> IF a = p THEN "NONE" ELSE gate[a]]
  /\ listed' = [a \in Gates |-> IF a = p THEN {} ELSE listed[a]]
  /\ role' = [g \in Games |-> IF g = p THEN None ELSE role[g]]
  /\ up' = {l \in up : p \notin l}
  /\ \E sent \in Cuts(p) :
       wire' = [q \in Processes |-> [r \in Peers[q] |->
                 IF {q, r} \notin up THEN wire[q][r]
                 ELSE IF q = p THEN Broken(wire[q][r], sent[r])
                 ELSE IF r = p THEN <<>> ELSE wire[q][r]]]
  /\ UNCHANGED <<centerVars, stored, logins, version, jumps, hurries, histories>>

-----------------------------------------------------------------------------

PlayerStep(a) ==
  Arrive(a) \/ LoginGame(a) \/ Ready(a) \/ Leave(a) \/ Expire(a) \/ MsgBomb(a)

\* Something that q sent waits for p.
Hears(p, q) == wire[q][p] # <<>>

GateStep(a) ==
  \/ Hears(a, "center") /\ (GateCleared(a) \/ GateHearsError("center", a))
  \/ \E g \in Games : Hears(a, g) /\
       (GateHearsError(g, a) \/ GateHearsSuccess(g, a) \/ GateHearsCross(g, a) \/ GateLosesGame(g, a))

CenterStep ==
  \/ \E a \in Gates : Hears("center", a) /\
       (CenterRegs(a) \/ CenterCrosses(a) \/ CenterLosesGate(a) \/ CenterUnregs(a))
  \/ \E g \in Games : Hears("center", g) /\
       (CenterEntered(g) \/ CenterLosesGame(g) \/ CenterLearns(g) \/ CenterUnregs(g))

GameStep(g) ==
  \/ Hears(g, "center") /\ (GameRegs(g) \/ GameRelogs(g) \/ GameClears(g))
  \/ Hears(g, "db") /\ (GameLoads(g) \/ GameLosesDb(g))
  \/ \E a \in Gates : Hears(g, a) /\ (GameUnregs(a, g) \/ GameReady(a, g) \/ GameLosesGate(a, g))
  \/ Hears("db", g) /\ DbHandles(g)

Fault ==
  \/ CenterLosesDb
  \/ \E l \in Links : LinkFails(l)
  \/ \E p \in Gates \cup Games : Crash(p)

Next ==
  \/ \E a \in Gates : PlayerStep(a) \/ GateStep(a)
  \/ CenterStep
  \/ \E g \in Games : GameStep(g) \/ Jump(g) \/ Play(g) \/ Autosave(g)
  \/ MayHappen /\ Fault
  \/ \E l \in Links \ up : LinkReturns(l)

Spec == Init /\ [][Next]_vars

-----------------------------------------------------------------------------

TypeOK ==
  /\ gate \in [Gates -> {"NONE", "OFFLINE"} \cup GateStates \cup LoginStates]
  /\ listed \in [Gates -> SUBSET Games]
  /\ user \in Users \cup {None}
  /\ home \in Games
  /\ known \subseteq Games
  /\ role \in [Games -> Roles \cup {None}]
  /\ stored \in Nat
  /\ DOMAIN wire = Processes
  /\ \A p \in Processes : wire[p] \in [Peers[p] -> Seq(Msgs)]
  /\ up \subseteq Links
  /\ logins \in 0..MaxLogins /\ version \in 0..MaxVer
  /\ jumps \in Nat /\ faults \in Nat /\ hurries \in Nat
  /\ jumps + faults + hurries <= MaxIncidents
  /\ repeated \in BOOLEAN /\ reloaded \in BOOLEAN

Plays(g) == role[g] # None /\ role[g].st = "OK"

\* What SceneIsBacked and OneRole rely on.  After a second incident, or with a
\* login that overtakes an earlier one, both can fail: center then keeps the
\* answer to one of them for the answer to the other.
Orderly == jumps + faults + hurries <= 1 /\ ~repeated

\* Once all messages are handled, a gate whose user is in a scene is right about
\* it: center has the user online at this gate, the game that center names plays
\* the role for this gate, and the gate forwards to that game.  Registration,
\* offline, logout and error messages travel over six connections and overtake
\* each other; any single jump, crash or lost connection may come between, save
\* the loss of a game's connection to center alone (Fragile leaves that out).
SceneIsBacked ==
  Quiet /\ hurries = 0 /\ Orderly =>
    \A a \in Gates : gate[a] = "SCENE" =>
      /\ user # None /\ user.gate = a /\ user.on = "ONLINE"
      /\ Plays(user.game) /\ role[user.game].gate = a
      /\ user.game \in listed[a]

\* A player's role is never played by two games at once, whichever single
\* incident happens, save the loss of a game's connection to center alone: a jump
\* deletes the role before anyone else is told, and a login goes to the game that
\* center has, or refuses.
OneRole == Orderly => \A g, h \in Games : Plays(g) /\ Plays(h) => g = h

\* Nobody waits for an answer that no one will send: when all messages are
\* handled and nothing failed, no user is left in LOGIN or WAIT, however often it
\* logged in and its role jumped.
Answered ==
  Quiet /\ faults = 0 /\ hurries = 0 =>
    \A a \in Gates : gate[a] \notin {"LOGIN", "WAIT"}

\* What a player did is in the database when no game plays the role any more,
\* however logouts, kicks and refused logins were interleaved.  After a jump it
\* may not be: the next game's request can overtake the last save.  Nor may it be
\* when a role was deleted and asked for again before its record came: an answer
\* from before the last save is then taken for the new one (on_user_record knows
\* no request ids), and the role goes on with old data.
DataKept ==
  Quiet /\ faults = 0 /\ jumps = 0 /\ ~reloaded /\ (\A g \in Games : role[g] = None) =>
    stored = version

\* user_manager.cpp:619, "a logout normally goes to game first, and game tells
\* center; if there is no game yet, center is told directly": when the player is
\* gone from gate and center, no game plays the role.  A user that goes offline
\* before ga_reg_user_success_notify arrives is in no game's list, so the game
\* that plays it never hears of the logout.
LogoutReachesRole ==
  Quiet /\ user = None /\ (\A a \in Gates : gate[a] = "NONE") =>
    \A g \in Games : ~Plays(g)

=============================================================================
