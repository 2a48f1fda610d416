# Verification of sg_server

TLA+ models, model-checking runs and machine-checked proofs for the game server
in `src/trunk/` (C++, boost::asio). This file describes what the system consists
of, what is modelled and how it corresponds to the code, what each run checks,
what is proved and from what, and what comes next. Paths below are relative to
`src/trunk/` unless they begin with `src/`.

## 1. The system

A shard is a set of processes that talk over TCP. Every process runs its logic on
ONE main thread (`server_base_t::run_server`, one `io_service`); a pool of network
threads (`network_t`) reads and writes sockets and posts events to the main thread.

```
 client --- login_server --- account_server (platform checks)
   |             |
   |         (la_login_request: uid, guid, session id)
   |             v
   +-------> gate_server ---- center_server ---- db_server (redis, MySQL)
                 |  \             |                 |
                 |   chat         |                 |
                 +----------- game_server ----------+
                                  |
            area_server, transfer_server (other shards), log, gm, recharge, video
```

| Component | State it keeps | Operations | What makes it correct |
|---|---|---|---|
| gate_server, client sessions | users with login state, session id, one timer; connections with bind data and a session timer; the users listed per game | client messages, lost connections, three timer callbacks, messages of login, center and game | one connection per user, newest login wins, game and center hear of every departure, nothing stays for ever |
| gate_server, forwarding | none (batches of move notices) | route by command number | - |
| login_server | login queue, users per gate, gate load | queue, pick a gate, issue session ids, kick | queue order, a queue that goes on, each user at one gate, users not leaked |
| account_server | requests in flight to platforms | check token, list servers | each request answered once |
| center_server, users | online state and place (gate, game, scene) of every user | register, create role, relogin, logout, cross server | agreement with gate and game about who is online and where |
| center_server, social and economy | families, mail, goods, auctions, trade, red packets, ranks, troops | about 60 managers, each handling requests in one step | conservation of goods and money, limits |
| game_server, roles | roles by uid, their gate, their load and save state | register, load from db, enter scene, relogin, offline, logout, save | one role per user, saved before it is loaded elsewhere |
| game_server, rules | scenes, units, fights, tasks, items | very many | driven by data tables |
| db_server | cache of role data over redis and MySQL | load, save, create | last save wins, no lost save |
| network library | connections with a write queue and a state; acceptors, reconnecting connectors; a message parser per connection | connect, accept, read, write, close, stop, clear | one close event per connection, no event after it, complete shutdown |
| common | timers, ids, ranks, redis client | - | ids unique, ranks sorted |
| area, transfer, chat, gm, recharge, video, log | matches between shards; routing; logs | - | - |
| robot_server, generated code (`protocpp`, `tblh`), `src/libsrc` (vendored), `src/branches` (old copy) | - | - | left aside |

What is hard here: the processes are sequential inside, but a user's life is spread
over login, gate, center, game and db, which learn of changes by messages over
different connections; clients vanish, reconnect and log in again from elsewhere;
timers run out while the message that would have cancelled them is already queued;
processes crash and come back without their memory. `PROJECT.json` lists the
hazards at their lines.

## 2. What is modelled: the session core of the gate

The gate is where those hazards meet: it decides who plays a user and tells
everybody else. Four modules:

- `OneSession` - the promise to a player, in 40 lines: at most one connection
  plays a user, a connection plays at most one user at a time, and it presented the
  newest session id; a login takes the user away from whoever played it, and a
  connection that takes a user leaves the one it played before.
- `GateSession` - the gate, one action per handler, its properties, and the
  refinement mapping to `OneSession`.
- `MCGateSession` - symmetry for TLC; the instances are in the `.cfg` files.
- `GateSession_proofs` - theorems for any number of users, connections, games
  and logins.

### State

| Variable | Code |
|---|---|
| `state[u]` | `user_t::m_game_state`; `"NONE"` if `m_user_list` has no such uid |
| `client[u]` | `user_t::m_client_socket` (a weak pointer) |
| `timer[u]` | what `user_t::m_timer` is armed for: one `deadline_timer` serves as pingpong and as reconnect timer, so arming it for one cancels the other |
| `session[u]`, `key[s]` | `m_session_id`; the id the connection `s` was bound with (history, for the property) |
| `creating[u]` | `m_is_create_state` |
| `open`, `bound[s]`, `sessTimer` | `m_client_socket_list`, `socket_data_t::m_user_wptr`, an armed `m_session_timer` |
| `mixed` | history: the users of a shared connection, see below; a user leaves it when it is deleted |
| `dead` | connections whose peer vanished without a FIN or RST (nothing is ever received on them) |
| `games`, `listed[g]` | `game_manager_t::m_game_list`, `game_t::m_user_list` |
| `due`, `ahead` | timer handlers queued in the `io_service` and not yet run; how many other handlers may still run before them |
| `logins[u]` | number of `la_login_request` handled; session ids are numbered by it |
| `sent` | messages to login, center and game sent by the last step |

### The dispatch queue

`deadline_timer::cancel` and `expires_from_now` cannot recall a handler whose
timer has already run out: it runs later with a success code. The gate's callbacks
only test `operation_aborted`, so a handler can find a world in which its timer was
long cancelled. In the model a timer that runs out (`SessionExpire`, `TimerExpire`)
moves its callback to `due`, and a later step (`SessionTimeout`,
`PingpongTimeout`, `ReconnectTimeout`) runs it. While anything is due, at most
`MaxAhead` other handlers may run: those that were in the queue before it.

### Actions

| Code | Action |
|---|---|
| `on_add_client`, `add_socket` | `AddClient` |
| `on_del_client` -> `kick_user(NORMAL)` | `DelClient` |
| `handle_ca_connect_request`, `socket_bind_user` | `ConnectRequest`, `Bind` |
| `handle_ca_pingpong_request`, `_lock_`, `_unlock_` | `Pingpong`, `Lock`, `Unlock` |
| `handle_ca_login_game_request`, `handle_ca_create_role_request`, five seconds in `is_create_state` | `LoginGame`, `CreateRole`, `CreateStale` |
| `check_msg_bomb` -> `kick_user(MSG_BOMB)` | `MsgBomb` |
| the three timer callbacks | `SessionTimeout`, `PingpongTimeout`, `ReconnectTimeout` |
| `handle_la_login_request` | `LoginRequest` |
| `handle_ea_unreg_user_center_notify`, all four codes | `CenterUnreg` |
| `handle_ea_create_role_reply`; `handle_ea_kick_all_user_notify`, `on_del_center` | `CreateReply`; `ClearAll` |
| `on_add_game`, `on_del_game` -> `game_t::reset` | `AddGame`, `DelGame` |
| `handle_ga_unreg_user_scene_notify`, `_reg_user_success_`, `_user_cross_server_` | `GameUnreg`, `RegSuccess`, `CrossServer` |
| `close_network`, or a crash and a new process | `Restart` |
| the last reference to a deleted connection goes, and `user_t`'s weak pointer to it becomes null | `Destroy` |

The helpers carry the code's own shared steps: `Detach` (`del_socket`), `Erase`
(`del_user`), `Unlist` (`del_user_from_game`), `DropSocket` (`del_socket(s, true)`),
`DropUser` (with a connection `del_socket`, else `del_user`), `GoOffline`
(`del_socket(s, false)` and `set_game_offline`), `Unreg`
(`notify_others_unreg_user`, whose receivers depend on the code and on the game
list). A handler that returns early without changing anything is no step.

### Abstractions

- Login, center and game are an open environment: any of their messages may come
  at any time, about any user, in any order. Everything that holds here holds
  whatever they do. (What they do as a group is `ClusterSession`.)
- A client presents, on any connection and for any user, a session id that was given
  out for that user at some time, `k \in 1..logins[u]`, not necessarily the newest. A
  guid or `reconnect` value that does not fit is refused like a stale session id.
- A connection that was closed may be opened again by somebody else (`Sockets` is
  a pool of connections); not while its old session handler is still queued,
  because that handler holds the connection object alive.
- A user's game is found by the first list that has its uid
  (`get_game_by_user_uid`); the order of the lists is left open (`HostOf`).
- A closed connection's object lives on until the network has let go of it (`Destroy`):
  until then the weak pointer of a user that was not unlinked still finds it.
- Left out: the cross server id of a user and cross servers, which only copy
  messages; `set_game` with an id two games announce; the counters sent to login
  every few seconds; forwarding, notices to the client, logs. Timeouts configured
  as 0 (they switch a timer off) are not considered.

### Shared connections

`handle_ca_connect_request` and `socket_bind_user` do not look at the user a connection
is bound to already: a client that plays `u1` may present the session id of `u2` on the
same connection. If the request is accepted, `set_user` overwrites the bind data, and
`u1` keeps a link to a connection that is `u2`'s; if it is refused, `del_socket(s, true)`
deletes `u1`. `ConnectRequest` does both. Much of what the gate otherwise guarantees is
then lost for `u1` and `u2`: when `u1` goes offline `u2` is unlinked, the timeout of
one deletes the other, the end of the connection is handled for `u2` alone. `mixed`
holds these users until they are deleted, and the properties say what is lost to
them and what is not:

- lost: a user's link to its connection is right, its state says whether it has one, a
  timer watches it, a game lists it in its scene, its game hears of its departure, its
  offline period ends;
- kept: whomever a connection is bound to has that connection and is in a state that
  assumes one; a connection plays one user at a time and only with the newest session id
  (`NewestLoginPlays`, `OneSessionSpec`, both without any exception); a user with a
  role is not taken for a new one; the connection of a vanished peer is released; and
  everything about the users that never shared a connection, whatever the others do.

It begins where the comment at `user_manager.cpp:91` says that at the bind there should be
no old socket: the next `ca_connect_request` of `u1`, on another connection, finds its link to
the shared one. The refusal is part of the second finding.

## 3. What is modelled: the network library

Every server stands on `network/`: an `acceptor_t` per listening port, a
`connector_t` per server it connects to, and a `tcp_socket_t` per connection. What
the other components take for granted - "a connection comes up, delivers messages,
goes down once" - is made here, by three kinds of threads of control that only
talk through queues. Seven modules:

- `TcpSocket` - one connection: the write buffers, the states of the socket, the
  handlers of its strand. Actions only; the next two compose it with an owner.
- `Acceptor` - a listening port, its sockets and the main thread that uses them.
- `Connector` - one outgoing connection that is kept up, and the main thread.
- `MCAcceptor`, `MCConnector` - the bounds of the instances for TLC.
- `TcpSocket_proofs`, `Acceptor_proofs`, `Connector_proofs` - the theorems.

### State

| Variable | Code |
|---|---|
| `state[c]`, `notify[c]` | `m_socket_state`, `m_is_close_notify`; `"none"`: not constructed yet |
| `out[c]` | the write side: `m_write_buf` (two lists of buffers), `m_idle_index`, `m_write_in_pending`, `m_wrap_buf`, and what `async_write` has not handed to TCP yet |
| `strand[c]` | handlers that `write` and `close` posted to `tcp_socket_t::m_strand` |
| `handlerQ` | handlers posted to the strand of the acceptor or connector: a socket has gone, `on_del_socket`, `stop`, `clear` |
| `mainQ` | callbacks posted to the main thread's `io_service`: up, message, down |
| `listening`, `list` | `m_tcp_acceptor.is_open()`, `m_tcp_socket_list` |
| `isOpen`, `conn` | `connector_t::m_is_open`, `m_conn_tcp_socket` |
| `attempt` | the `async_connect` on `m_new_socket`, and the code it completed with while its handler is still queued |
| `timer`, `due` | what `m_timer` is armed for; timer handlers that are queued and can no longer be cancelled |
| `held`, `current` | the connections (or the connection) the server on top has been given |
| `phase` | how far the server is on its way through `network_t::stop` and `network_t::close` |
| `posted`, `accepted`, `wire`, `read`, `seen` | history: buffers written, taken and sent, messages received, events handled |

### Actions

| Code | Action |
|---|---|
| `tcp_socket_t::write`, `close`, and their handlers | `Write`, `CloseAll`; `WriteHandler`, `CloseForced`, `CloseGraceful` |
| `do_write`, `wrap_idle_buffers`, `do_shutdown` | `DoWrite`; `SendSome` (the kernel), `WriteDone`, `WriteError` |
| `do_read`, `parse_message`, `on_read_error`, `do_close` | `ReadMsg`, `ReadError`, `DoClose` |
| `acceptor_t::do_accept`, `on_del_socket`, `on_socket_close`, `stop`, `clear` | `Accept`, `DelSocket`, `SocketClosed`, `StopListen`, `ClearList` |
| `connector_t::connect`, its handler, `reconnect`, the reconnect and the ping timer | `AttemptEnds`, `Connected`, `Refused`, `Aborted`, `Rearmed`, `TimerExpire`, `ReconnectTimeout`, `PingTimeout` |
| `connector_t::on_del_socket`, `on_socket_close`, `stop`, `clear` | `DelSocket`, `SocketClosed` (both with `Lose`), `Stop`, `Clear` |
| a server's listeners (`on_add_...`, `on_del_...`, `post_send_msg`, `post_close_socket`), `on_close_server` | `MainHandle`, `MainWrite`, `MainClose`, `MainStop`, `MainClear` |

### Abstractions

- The handlers of a strand never overlap, so a handler is a step; a completion of
  an operation of a socket and its handler are one step, as every such handler
  returns at once on a closed socket. Where that is not so - connector timers and
  attempts, which are cancelled after they may have completed - completion and
  handler are two steps.
- A buffer is its number, a message its number; how the byte stream is cut into
  messages is `message.cpp`, which is next in the plan.
- The kernel takes the buffers of an `async_write` one after the other and may fail
  between any two; the peer may close at any time.
- The main thread is what all servers have in common: add on "up", drop on
  "down", write to and close what it has; nothing after it went into
  `network_t::close`. The connector's main thread is that of a server towards
  center (`on_add_center`, `on_del_center`), and may also drop its socket
  between `stop` and `close`, as a game server does with its gates
  (`gate_manager_t::clear_gate`).
- A socket is used once. Left out: the white list, robots' connectors (no ping, no
  reconnect), failing `accept` calls (they change nothing), TCP options.

## 4. What is modelled: one session across the cluster

`GateSession` shows what the gate does whatever the others send. What gate, center,
game and database achieve together is the subject of `ClusterSession`, with
`MCClusterSession` for its instances and the theorems in `ClusterSession_proofs`,
`ClusterAnswered_proofs` and `ClusterOneRole_proofs`.

One player, any number of gates and games, one center, one database. Each process
is single-threaded, so handling one message is one action. Every pair of processes
has its own TCP connection; `wire[p][q]` is what `p` sent to `q` and `q` has not
handled. Messages of one connection arrive in order; messages of different
connections overtake each other. No handler sends more than one message to one
process, so what it sends is a function from addressees to messages (`To`, `Each`, `++`,
`Nothing`).

| Variable | Code |
|---|---|
| `gate[a]`, `listed[a]` | gate_server: `user_t::m_game_state`, the games whose `game_t::m_user_list` has the user |
| `user` | center: the entry of `m_global_user_map`, with `m_gate_id`, `m_game_id`, `m_online_state` |
| `home`, `known` | center: the game of the scene kept in `m_common_info`; the games whose scenes are registered |
| `role[g]` | game_server: the entry of `m_role_list`: loading or loaded, gate, online state, `m_login_type`, version of the data |
| `stored` | db_server: the version that is stored |
| `up` | the connections that exist |
| `logins`, `version`, `jumps`, `faults`, `hurries` | counters, each with a bound |
| `repeated`, `reloaded` | history: a login was sent while an earlier one was under way (`UnderWay`); a record was asked for while an earlier answer was due (`Owed`) |

| Code | Action |
|---|---|
| the player at the gate: login, `ca_login_game_request`, lost connections and newer logins, `reconnect_timeout_callback`, message bomb | `Arrive`, `LoginGame`, `Leave`, `Expire`, `MsgBomb` |
| `cg_enter_scene_request`, forwarded to the game's `ready_enter_scene` | `Ready`, `GameReady` |
| gate: `handle_ga_unreg_user_scene_notify`, `_reg_user_success_`, `_user_cross_server_`; center's ERROR and kick all; `on_del_game`, `on_del_center` | `GateHearsError`, `GateHearsSuccess`, `GateHearsCross`, `GateCleared`, `GateLosesGame` |
| center: `reg_global_user`, `unreg_global_user`, `scene_reg_user_success`, `user_cross_server`, `on_del_gate`, `on_del_game`, `on_del_db`, the scenes of a game that connected | `CenterRegs`, `CenterUnregs`, `CenterEntered`, `CenterCrosses`, `CenterLosesGate`, `CenterLosesGame`, `CenterLosesDb`, `CenterLearns` |
| game: `scene_reg_user`, `scene_relogin_user`, `on_user_record`, `gate_unreg_user`, `center_unreg_user` and `del_all_roles`, `on_del_gate`, `on_del_db` | `GameRegs`, `GameRelogs`, `GameLoads`, `GameUnregs`, `GameClears`, `GameLosesGate`, `GameLosesDb` |
| game: `do_jump_scene` to another game; play; `role_unify_save` | `Jump`, `Play`, `Autosave` |
| db_server: load, save | `DbHandles` |
| a lost connection, its reconnection, a crash of a gate or a game | `LinkFails`, `LinkReturns`, `Crash` |

A connection that is lost ends each direction of its channel, after the messages that
still got through, with a "closed" entry: that is the `on_del_...` handler. It comes
back when both sides have noticed. A process that crashes, or closes its connections by
force (`clear_gate`), starts again empty; of what it had sent, any last part may be lost
on each connection (`Cuts`), and what was sent to it is.

What the code relies on, and the instance therefore bounds by `MaxIncidents` (jumps,
faults and hasty logins together):

- A hasty login (`Hasty`, counted by `hurries`) is one at a gate that does not have the
  user, in either of two situations that nothing in the code prevents. `SceneIsBacked`
  and `Answered` do not hold after one, and say so (`hurries = 0`); `OneRole`, `DataKept`
  and the types allow it.
  - Another gate has the user. `login_server` is supposed to send a user to the gate
    that has it, by the lists of its gates. But it takes a user off a list whenever
    the gate says it deleted the user (`handle_al_kick_role_notify`), even if a
    `la_login_request` for that user is on its way to the gate, and it drops the whole
    list when it loses the gate (`del_gate`). The next login then goes to another
    gate: `LoginGates`, section 6, shows how. center answers the second gate's registration
    with ERROR, to that gate and to the game (`reg_global_user`); the game deletes the role, and the
    first gate, which nobody tells, stays in SCENE without a role, or in LOGIN.
  - No gate has the user any more, but the last messages about its deletion are not
    handled. Then an old LOGOUT can delete the new registration. It takes the
    player's reconnect period (minutes) and a message that is still under way.
- With two incidents `OneRole` and `SceneIsBacked` fail, as TLC shows when the bound is
  raised: after two jumps in a row center can end at the game the player left, and two
  games can play the role; a jump followed by the loss of the connection gate-game can
  leave a gate in a scene that no game plays.
- The same happens when a login overtakes an earlier one that is not over yet
  (three logins and a jump): center takes the answer to one for the answer to the
  other. `repeated` records it, and `Orderly`, the premise of the two properties,
  excludes both.
- A game that deletes a role and is asked for it again before the database has
  answered has two requests under way, and `on_user_record`
  (`role_manager.cpp:392`) cannot tell their answers apart: with four logins it can
  take the record from before the last save, and the role goes on with old data.
  `reloaded` records it, and `DataKept` excludes it.
- The connection between center and a game is not in `Fragile`. If only it is lost,
  center drops the users of the game, the game deletes its roles
  (`del_all_roles`), and neither tells a gate (`center_server.cpp:793`,
  `game_server.cpp:1037`): the gate keeps its users in SCENE. A crash of
  the game, which the gate notices, is in the instance.
- After a jump the next game's request for the record can overtake the last save,
  because the save leaves the first game for the database on one connection and the
  jump's messages reach the second game over others. The comment at
  `scene_manager.cpp:767` says "save first"; nothing waits for the save. `DataKept` is
  stated for behaviours without a jump, and the database's stored version can go
  back after one.

What is wider than the code: when the scene the player left is gone, center tries the last
static map, then the born map, and fails if it has neither, or if the user's data cannot
be loaded (`LoginScenes` takes any known game, `CenterRegs` may fail at any time); a jump
may fail because the scene is gone while its game is known (`CenterCrosses`); the first
game that is found to list a user is any of them (`Unregs`).

Two further consequences are visible in the model and are no properties: center may
keep a user whom nobody has (a message bomb in REGATE deletes silently; an OFFLINE
can overtake `ge_reg_user_scene_reply`), until its next login fails once; and a
login whose record was requested from a database that is lost waits for ever.

Left out: creating a role; bans, NO_ROLE and kicks by gm (they are in `GateSession`);
jumps of a troop and their failures; the question to center before a jump (part of
`Jump`); a crash of center (all gates and games then clear everything, as they do in
`CenterLosesDb`); the batches of key-value pairs in a save; MySQL behind redis, where
a record can be loaded late.

## 5. What is modelled: the login queue

`login_server` sends each user to a gate, and lets users wait when the gates report
too many. Three modules and their proofs:

- `WaitingRoom` - the promise to those who wait: called in the order of arrival, at
  most `AtOnce` in one round, and removed only when they leave by themselves.
- `LoginQueue` - `user_manager.cpp`, `user.cpp` and `gate_manager.cpp`, one action
  per handler, and the refinement mapping.
- `MCLoginQueue`, `LoginQueue_proofs`.

| Variable | Code |
|---|---|
| `sockets`, `data[c]` | `m_socket_list`; the bind data of a connection: none, without a user, or `p_user` |
| `users`, `sock[u]`, `recent` | `m_user_list`, `user_t::m_socket`, users within the two seconds of `check_last_login` |
| `queue`, `armed`, `due` | `m_login_queue`, the timer, its handlers that have expired and can no longer be cancelled |
| `gates`, `roster[g]`, `online[g]` | `m_gate_list`, `gate_t::m_user_list`, `m_online_user_num` |
| `calls` | the users whose `la_login_request` was sent by the last step |

| Code | Action |
|---|---|
| `add_socket`, `del_socket`, `socket_session_timeout_callback` | `AddSocket`, `DelSocket` |
| `handle_cl_login_request`, `add_user`, `reset_client_socket` | `LoginRequest` with `ResetClientSocket`, `LetInOrWait` |
| `login_queue_callback`, `add_login_queue`, `del_login_queue` | `LoginQueueCallback` with `LoginNum` and `Serve`, `AddLoginQueue`, `DelLoginQueue` |
| expiry of the timer; two seconds pass | `TimerExpires`; `Elapse` |
| `add_gate`, `del_gate`, `handle_al_syn_gate_info_notify`, `_update_gate_user_num_`, `_kick_role_`, `_kick_gate_all_user_` | `AddGate`, `DelGate`, `SynGateInfo`, `UpdateUserNum`, `KickRole`, `KickGateAllUser` |

`login_num` is `uint32_t`: with more users online than `user_num_max` the difference is
huge, and the callback lets in `login_queue_process` users instead of none. The model
computes it modulo `UInt`. Hence nothing here says that the limit is kept: the code
does not keep it.

Abstractions: a user is known by its uid (user, socket and queue hold the object of
`m_user_list`, which `OwnersMatch` shows); the order of `m_gate_list` and the turns of
`get_best_gate` are left open; gates have no ids, so `set_gate`, which closes a second
connection with the same id, is left out; the checks of account and address, which
the code has switched off, the replies to the client and the closing of the server
are left out.

Seen on the way, and no properties because no document promises otherwise: a user
who logs in when there is room passes those who wait; a user whose gate has gone when
its turn comes is dropped without a word; a repeated login leaves the user without an
owner (its old socket's data was deleted, its new socket does not get it), so that it
stays in `m_user_list`, and in the queue, after its client has gone; the session timer is
not stopped by a login, so waiting longer than the session timeout ends the wait; as
shipped (`login_queue_timer` 0) a client of a full server gets no reply.

## 6. What is modelled: the lists of the gates

By `gate_t::m_user_list` login_server knows which gate has a user. `LoginQueue` lets the
messages that change these lists come at any time; `LoginGates` extends it with the
gates that send them and with their connections to login_server, so that the lists
can be compared with the users that the gates really have. `MCLoginGates` has
its instances.

| Variable | Code |
|---|---|
| `member[g]` | gate_server: the uids in `user_manager_t::m_user_list` |
| `link` | the connections between gates and login_server that exist |
| `toGate[g]`, `toLogin[g]` | what was sent on the connection, or its listener posted, and is not handled: up and down, `la_login_request`; `al_syn_gate_info_notify`, `al_kick_role_notify`, `al_kick_gate_all_user_notify` |
| `losses` | counter of lost connections and restarts, bounded |
| `struck` | history: users that login_server took off a list though their gate had them, or was about to |

| Code | Action |
|---|---|
| clients, timers and reported numbers, as in `LoginQueue`; `send_msg_to_gate` | `LoginStep` with `SendsLogins` |
| login_server: `on_add_gate`, `on_del_gate`, `on_gate_msg` | `LoginHears` |
| gate: `on_add_login` with `syn_gate_info_to_login`, `handle_la_login_request` | `GateHears` with `Join`, `TakesLogin` |
| gate: `del_user` with `notify_login_by_kick_user`; `clear_all_users_and_socket` | `GateDeletes`, `GateClears` |
| a connection is lost, comes back; a gate ends and starts again | `LinkFails`, `LinkReturns`, `Restart` |

A gate sends nothing before it has handled its "up" (`Joined`: its connector has no
socket); what it sends on a connection that is gone is lost. Why a gate deletes a
user is `GateSession`'s subject; here it may delete any user at any time.

Abstractions: a connection comes back when both sides have noticed its loss; a gate is its
connection, as in `LoginQueue`; login_server is not restarted; the load that the gates
report does not depend on their users.

## 7. Runs

| Run | Instance | Checks |
|---|---|---|
| `gate_two_users` | 2 users, 2 connections, 1 game, 3 logins in all, symmetry | `TypeOK`, `BindingAgrees`, `ConnectedIffSocket`, `SceneExitAnnounced`, `OneSessionSpec` |
| `gate_one_user` | 1 user, 3 connections, 2 games, 3 logins, symmetry | `NewestLoginPlays`, `Watched`, `ListedInScene`, `RoleIsRemembered` |
| `gate_live` | 1 user, 2 connections, 1 game, 2 logins, fair, no symmetry | `VanishedIsReleased`, `OfflineEnds`, `LoginIsUsedOrDropped` |
| `gate_lock` | 1 user, 1 connection, fair | `PingpongTakesOver` is violated |
| `gate_refused` | 1 user, 1 connection | `RefusedConnectDeletesNobody` is violated |
| `acceptor` | 2 connections (one with a write, both with a message), fair | `TypeOK`, `EventsInOrder`, `NoGhost`, `NoneForgotten`, `DropEnds`, `GhostEnds`, `ShutdownEnds` |
| `connector` | 2 connections one after the other, 2 writes and a message on the first, fair | `TypeOK`, `WireInOrder`, `NothingHeldBack`, `OneAttempt`, `KeepsTrying`, `MainCatchesUp`, `NotCutOff`, `ClearFlushes`, `ShutdownEnds`, `Reopens` |
| `connector_stopped` | the same | `StoppedStaysDown` is violated |
| `cluster` | 1 player, 2 gates, 2 games, 2 logins, 1 incident, 1 change of the data, symmetry | `TypeOK`, `SceneIsBacked`, `OneRole`, `Answered`, `DataKept` |
| `cluster_logout` | 1 gate, 2 games, 1 login, no incident | `LogoutReachesRole` is violated |
| `login_queue` | 2 clients, 2 users, 1 gate, limit 1, one user per round, fair | `TypeOK`, `QueueTicks`, `OwnersMatch`, `ServedInOrder`, `NobodyWaitsForEver` |
| `login_gates` | 1 client, 1 user, 2 gates, 1 lost connection or restart, 2 messages on a connection, symmetry | `RosterCovers` |

What the properties say:

- `BindingAgrees`, `ConnectedIffSocket`: the weak links of users and connections
  and the socket list agree, and a user owns a connection exactly in the states
  whose handlers call `del_socket` on it unchecked; a user that shared a connection may be
  misled about its own, but whomever a connection is bound to has it.
- `ListedInScene`: a user in a scene is listed by a connected game, unless it shared a
  connection; a game that dies deletes nobody who was never in one of its scenes.
- `SceneExitAnnounced`: whenever the gate itself takes a user out of its scene,
  a game that lists the user is told in that very step (two may list it; the first that is
  found hears it). Exempt are steps asked
  for by center or game, a restart, users that shared a connection, and the two handlers
  that forget it: a second `ca_connect_request` on the user's connection, for whomever, the second
  finding, and a late session timer (`LateTimeout`, below).
- `NewestLoginPlays`, `OneSessionSpec`: only the newest login plays, and a connection
  plays one user at a time.
- `Watched`: an armed or queued timer watches everything that could otherwise stay
  for ever, save a locked user and users that shared a connection.
- `RoleIsRemembered`: a user for whom center was asked for a role never gets back
  to the states in which it is deleted without telling anybody.
- `VanishedIsReleased`, `OfflineEnds`, `LoginIsUsedOrDropped`: what is watched ends.
- `EventsInOrder`: what the main thread has handled is the beginning of up, the messages
  as they were received, down; what waits in its queue continues it without a gap, save
  that it may never be told of the end.
- `NoGhost`, `GhostEnds`: a server that holds a closed connection is going to be told,
  and drops it.
- `NoneForgotten`, `DropEnds`: a connection nobody holds any more gets closed.
- `WireInOrder`, `NothingHeldBack`: double buffering neither loses nor repeats nor
  reorders nor retains a buffer.
- `OneAttempt`, `KeepsTrying`, `Reopens`: one attempt at a time on `m_new_socket`, and
  always one ahead, although `cancel` may miss a timer that has run out.
- `MainCatchesUp`, `NotCutOff`: a main thread without an event to come has the connector's
  socket, and the connector never goes on with a socket that was told to close,
  although the main thread may have asked for that long after it got a new one.
- `ClearFlushes`: what was written before `network_t::close` is handed to TCP before the
  socket closes, unless the network fails.
- `ShutdownEnds`: `network_t::close` returns. For a connector: it comes to rest, and every
  connection made before the handler of `clear` runs ends; exempt is only a connection
  established after that (`connector_stopped`), which `join_all` waits for while all
  earlier ones have ended.
- `SceneIsBacked`: when all messages are handled, a gate whose user is in a scene is
  right: center has the user online at this gate, the game center names plays the
  role for this gate, and the gate forwards to that game. After at most one jump or
  fault and no login on top of another (`Orderly`), and no hasty login.
- `OneRole`: two games never play the role; `Orderly` again.
- `Answered`: when all messages are handled, nothing was lost and no login was
  hasty, no user is left waiting in LOGIN or WAIT; after any number of jumps and
  logins.
- `DataKept`: when no game has the role any more, the last change is stored; without
  jumps, faults and `reloaded`.
- `QueueTicks`: while anybody waits, the timer waits too or its handler is due.
- `OwnersMatch`: what `del_socket` deletes belongs to that socket, and `del_user` never
  runs on a user without a socket.
- `ServedInOrder`: the queue implements `WaitingRoom`.
- `NobodyWaitsForEver`: if from some time on there is room at every tick, everyone
  who waits is called or gone some day.
- `RosterCovers`: when login_server knows a gate - it is connected and its last word about
  its users as a whole is handled - the gate's list covers the users that the gate has, or
  that were sent to it: through lost connections, restarts and logins in any order, save users
  that a notice about an earlier deletion struck off.

Bounds of the gate. Two users on two connections are enough for a handler about one user to
hit another through a shared connection or list, and for a user to come back on a second
connection after it shared the first; three connections for a new
client, the one it replaces and one of an older login; two games for a uid listed
twice; three logins for a session id that is neither the newest nor the first. With two
users on shared connections the states multiply, so in `gate_two_users` handlers overtake a timer's
only as long as nobody has logged in twice (`ThreeLogins`); `gate_one_user` has both
together. That a shared connection is released when its peer vanishes, and that whoever
never shared one does not stay offline, was tried with two users on one connection and a
login of each.
`MaxAhead = 1`: one handler between the expiry of a timer and its callback. A
second one that depends on the first (say `ca_login_game_request`, which a client
sends after the reply to `ca_connect_request`) was caused after the expiry and
is queued behind it, so one is what a user's own client can do. The theorems hold
for every bound; the proof of `SceneExitAnnounced` is what showed that with three
handlers ahead a late session timer finds a user in its scene, hence that exemption.

Bounds of the network. The sockets of a port meet only in the acceptor's list and
queues, so two connections show every interference; a connector has one
socket at a time and the old one it has not yet forgotten. Two writes put one buffer
behind a write in progress and so swap the buffers; a third would only join
the second. After the last connection of the instance every further attempt is
refused. That three buffers or connections make no difference is what the proofs
add.

Bounds of the cluster. Two gates, because a login can come to another gate than the
one center still has, or the one that still has the user; two games, because a role jumps and logs in again elsewhere.
Two logins: the first one's messages meet the second's. One incident of any kind
at any point: see section 4 for what two do. States with a fault and `repeated` are not
explored (`StillPromised`): every property but the types, which are proved, has a premise
that fails there and in all later states. With two logins nothing is lost by the premises
`~repeated` and `~reloaded`: in this instance, without the cut, the properties hold without
them too. What they exclude was found, and that nothing else is lost was tried, in
larger instances (tens of minutes, so they are no runs):
one gate, two games, four logins, one incident; two gates, two games, three logins,
one incident; both under `~repeated` and for all properties. The invariant behind `Answered` was
tried with two jumps, with two gates and two logins, and with one gate and three
logins. The data changes only in behaviours
without jumps and faults (`MayChange`, `MayHappen`), which are those `DataKept` speaks of; the
other properties do not look at it. The bounds on logins end every behaviour,
so deadlock is not checked: that nobody waits for ever is what `Answered` says.

Bounds of the login queue. Two users make an order, two connections let a user
come back over another one while the first is open, a limit of 1 with reports up to
2 makes the server empty, full and above its limit, and two expired handlers let one
more tick come while an old one is still queued. With two gates there are four
times as many states and nothing new (a user in the lists of two gates is sent to
one of them, which the model leaves open).

Bounds of the lists of the gates. One user, because the list of a gate is a set and every
message is about one user or about all of them; two gates, to send the user
elsewhere; two messages on a connection, for a notice and a request that cross
others; one loss at any point. The gates report no load, so the queue stays empty: what it does is
`login_queue`'s question. Two losses are not explored.

Fairness of the gate. Queued timer handlers are run (`io_service::run` loops as
long as there is work). The session timer of a dead connection runs out, because
only binding, a message, restarts or cancels it. The user's timer runs out if the
user's connection is dead or gone: a living client re-arms it with every ping, so
nothing is assumed of it then. Nothing is assumed of clients, other servers, the
network's discovering that a peer is gone, or restarts.

Fairness of the network. The threads run the handlers of every strand and, as
long as it is not in `join_all`, the main thread its queue; a server that
has begun to shut down goes on (`on_close_server` is one handler). Of a port
that is all: its shutdown and its forced closes wait for nobody. A connector closes
gracefully, so there it is also assumed that an attempt ends (the kernel gives up),
that armed timers run out, that a write goes on or fails, and that the peer closes a
connection whose writing side was shut down. The last one is the peer's doing: a
peer that never closes keeps `network_t::close` waiting.

Fairness of the login queue. The timer expires and its queued handler runs
(`io_service::run`). Nothing is assumed of clients and gates: that there is room is
a premise of `NobodyWaitsForEver`. `ClusterSession` states no liveness: how long a
message stays on its way is up to the network.

### Findings

1. `gate_lock`: `ca_lock_notify` stops the only timer of the user
   (`user_msg_handler.cpp:218`). If the client then vanishes, nothing ever ends its
   session; the comment at `user.cpp:234` says that the user's pingpong watches a
   bound connection. `VanishedIsReleased` is the property with this exception.
2. `gate_refused`: a `ca_connect_request` repeated in LOGIN, SCENE or WAIT is
   refused, and the refusal deletes the user it is bound to
   (`user_msg_handler.cpp:181`) without a word to center and game, though the
   comment there says nobody can be deleted. A refused request for another user on that
   connection does the same.

3. `connector_stopped`: `connector_t::stop` cancels the attempt under way, but an
   attempt that has completed and whose handler is queued still connects: the
   handler tests only the error code (`network/connector.cpp:58`), though the
   comment in `stop` says that a stopped connector does not connect any more
   (`connector.cpp:29`). If `clear` has run by then, nothing closes the new
   connection, its ping timer re-arms itself, and `network_t::close` waits in
   `join_all` (`network.cpp:40`) until the peer closes. `ShutdownEnds` of `Connector`
   is the property with this exception.

4. `cluster_logout`: a user goes offline in LOGIN, while its role is loading.
   `ga_reg_user_success_notify` finds it offline, does not put it in the game's list and
   tells only center (`game_msg_handler.cpp:377`). When the reconnect timer ends,
   `notify_others_unreg_user` finds no game either and tells only center
   (`user_manager.cpp:621`), although the comment above says that a logout goes to
   game unless there is none yet. center deletes the user and tells nobody. The role
   stays online in its game until its player's next login, which the game refuses
   because it finds the role.

Three more disagreements have no run of their own, because they are exemptions that the
properties name:

- `LateTimeout` of `GateSession`: the session timer of a connection runs out, a
  `ca_connect_request` queued before its handler binds a user, then the handler
  deletes that user (`gate_server/user/user_manager.cpp:185`; the comment above it
  says the connection is bound to no user). In REGATE the user has a role that
  center and game are not told of.
- `mixed` of `GateSession`: a connection that was bound to one user is bound to another
  (section 2, "Shared connections").
- `struck` of `LoginGates`: a gate deletes a user and tells login_server while a
  `la_login_request` for that user is on its way to the gate. The gate adds the user
  again; login_server then strikes it off the gate's list
  (`login_server/gate/gate_msg_handler.cpp:94`), and the next login goes to another gate,
  although the comment at `login_server/user/user_manager.cpp:272` says that a user must
  be given to the gate where it logged in before. Both gates have the user; what follows
  is the hasty login of section 4.

## 8. Proofs

### The gate

`GateSession_proofs` proves, from `SentinelAssumption` (the sentinels are no
users, connections or games) and `BoundAssumption` (the bounds are naturals) only:

| Theorem | Statement |
|---|---|
| `TypeCorrect` | `Spec => []TypeOK` |
| `LinksAgree`, `ConnectionOwned` | `Spec => []BindingAgrees`, `Spec => []ConnectedIffSocket` |
| `OnlyNewestPlays` | `Spec => []NewestLoginPlays` |
| `AlwaysWatched` | `Spec => []Watched` |
| `SceneListed` | `Spec => []ListedInScene` |
| `RoleRemembered` | `Spec => RoleIsRemembered` |
| `SceneExitHeard` | `Spec => SceneExitAnnounced` |
| `GateImplementsOneSession` | `Spec => OneSessionSpec` |

The inductive invariant `IInv` is the conjunction of the six invariants; none of
them is inductive alone. `BindingAgrees` is what makes `del_socket` on a
user's connection a step about that user only; `ConnectedIffSocket` needs it, since
deleting a connection must take the state of its user along; `ListedInScene` needs
`ConnectedIffSocket` (a user that leaves its scene with a connection has it cut);
`Watched` needs `ConnectedIffSocket`, to know that an offline user gets no
connection other than through `Bind`; `NewestLoginPlays` needs `ConnectedIffSocket`
to know that a login leaves nobody attached. Users that shared a connection are excused only
for themselves: `BindingAgrees` says that a connection that one of them refers to is
bound to none but them, so that what `del_socket` does to the wrong user never reaches a
user outside `mixed`; that whomever a connection is bound to is in a state that
assumes one holds for them too, and is what `NewestLoginPlays` and `OneSession` need. The proof follows the code: one lemma
per shared helper (`CutInv`, `DropSocketInv`, `DropUserInv`, `GoOfflineInv`), one per
handler, then `NextInv` by cases and `Invariance` by PTL. `RoleRemembered` and the
refinement are step arguments over `IInv`: every step is a login, an attach, a
release of some set of users, or a stutter (`StepImplements`).

`SceneExitHeard` is a step argument over the types, `BindingAgrees` and
`ListedInScene`: a user that leaves its scene is listed by a connected game, so the
`notify_others_unreg_user` of the handler that lets it go finds a receiver, and the links say that
no step about one connection disturbs a user that never shared one. The proof takes the actions one by one and
finds exactly the exemptions of the property.

Model-checked only: liveness (fairness and leads-to are beyond the prover).

### The network library

From `ConnAssumption` (no connection is `NoConn`) and `SocketBoundAssumption` (the
bounds are naturals):

| Theorem | Statement |
|---|---|
| `ConnectorTypes` | `Spec => []TypeOK` |
| `ConnectorWireInOrder`, `ConnectorNothingHeldBack` | `Spec => []WireInOrder`, `Spec => []NothingHeldBack` |
| `ConnectorOneAttempt`, `ConnectorKeepsTrying` | `Spec => []OneAttempt`, `Spec => []KeepsTrying` |
| `ConnectorMainCatchesUp`, `ConnectorNotCutOff` | `Spec => []MainCatchesUp`, `Spec => []NotCutOff` |
| `ConnectorClearFlushes` | `Spec => ClearFlushes` |
| `AcceptorTypes`, `AcceptorEventsInOrder` | `Spec => []TypeOK`, `Spec => []EventsInOrder` |
| `AcceptorNoGhost`, `AcceptorNoneForgotten` | `Spec => []NoGhost`, `Spec => []NoneForgotten` |
| `AcceptorWrites` | `Spec => [](WireInOrder /\ NothingHeldBack)` |

`TcpSocket_proofs` holds what does not depend on the owner: the invariant `SocketInv`
and, for each action of a socket, the lemma that it is kept. Its core is
`OutFits`: while a write is in progress, what TCP has, the rest of the write and the
idle buffer are consecutive runs of the numbering, and together all that was
accepted; otherwise both buffers are empty. `Chain` says that the requests in the
strand carry the numbering on, which is why a buffer accepted is the next one.

`Connector_proofs` adds that nobody holds a socket that was not constructed, that only
`stop` aborts an attempt, and that `clear` comes after `stop` (`StopsFirst`): `clear`
disarms the timer for good, which `KeepsTrying` allows only of a stopped
connector.

A second invariant, `Handover`, is about which socket the connector and the main thread
have. `MainCatchesUp` is not inductive: it says that some up or down is still to come,
not what it leads to. `Follows` says that the last such event in the queue gives the main
thread exactly the connector's socket. For that a "down" must be about a socket the
connector has given up, and so must a request to close (`OldOnly`). `Ending`
follows a socket through its strand: only an old one is told to close, nothing is
written after a graceful close, and a socket that begins to shut down has accepted all that
was posted; with `NothingHeldBack` that is `ClearFlushes`. A graceful close comes from
`clear` only, whose request is posted when nothing is written any more (`ClearLast`).

`Acceptor_proofs` needs for `NoGhost` who knows what about a connection
(`ConnOK`). A socket can close without telling (a forced close) or be told of in
vain (it is no longer in the list). `Told` says that while the server runs, either
has a reason: the main thread has dropped the connection and will not add it again
(`Dropped`), or "down" is in its queue. That it will not add it again rests on
`UpFirst`: "up" is the first event of a connection, so none is behind another.

`Order` is the invariant for `EventsInOrder`: each event has a turn, the events handled
have the turns 1, 2, 3 and so on, and those in the queue the following ones. It needs
that a socket in the acceptor's list has not been reported down (`NotDown`), since only
being in the list entitles `on_socket_close` to report it.

Checked by TLC first: the inductive invariants hold in the instances of the
runs. Model-checked only: liveness. (`StoppedStaysDown` is violated, see the
findings.)

### The cluster

From `ProcessAssumption` (gates, games, center and database are different processes),
`NoneAssumption` (neither a role nor a user is `None`) and `BoundsAssumption` (the bounds are naturals); `Gates`,
`Games`, `Fragile` and the bounds are arbitrary:

| Theorem | Statement |
|---|---|
| `ClusterTypes` | `Spec => []TypeOK` |
| `ClusterAtHome` | `Spec => [](Calm => AtHome)`: without jumps and faults only one game has the role, ever |
| `ClusterDataKept` | `Spec => []DataKept` |
| `ClusterAnswered` | `Spec => []Answered` |
| `ClusterOneRole` | `Steady => (Spec => []OneRole)`: `Steady` says that no connection of a game to center is in `Fragile` |
| `ClusterRoleFound` | `Steady => (Spec => [](jumps = 0 \/ (Orderly /\ Quiet) => \A g \in Games : role[g] # None => g = home))` |
| `CalmSceneIsBacked` | `Spec => [](jumps = 0 /\ faults = 0 => SceneIsBacked)`, a part of `SceneIsBacked` |

`ClusterSession_proofs` first treats the mail: `Fits(wire, A)` says that every channel
carries only what `A` allows its sender to say to its receiver, and the lemmas
about sending and handling say what each channel becomes. The types are `Fits`
with all messages, together with the ranges of the other variables.

`AtHome` is `Fits` with what may be said as long as the player stays at its game:
nobody but the home game is asked for the role, has it or speaks of it, and the database hears from
no other. That reduces `DataKept` to one game and its two channels. `DataSafe` is
the invariant: if the role is in memory it has the latest version and
no record is on its way to it; otherwise the last save on the way to the database has the latest version,
or the stored one is the latest if no save is on the way; a request for
the record is the last thing in the channel, so that the answer is the latest version
too. That a request is last fails as soon as a second one is
made while the first is not answered; this is how the premise `~reloaded`, and
the four logins that need it, were found.

`ClusterAnswered_proofs` shows that somebody always owes an answer. `Answered` speaks
of quiet states; the invariant `Answerable` says what replaces the answer while it is
on its way: a gate in LOGIN or WAIT has something `Due` - its registration or its jump
on the way to center; the request of center as the last one on the way to a game; a role that is being
loaded for this gate with nothing behind it; or the reply itself. A game that is loading is owed
a record by the database (`Asked`). It is the last request on its way to a game that counts: whatever the earlier messages do
to the role, the game answers that one.
`Session` adds that only one gate is concerned: the others are silent, and
requests name the player's gate. As long as center has the user at another gate,
nothing about the new login is beyond center yet (`Elsewhere`). That all connections
stay (`Whole`) is what the absence of faults gives. `CleanBefore`
says that a state without faults and hasty logins comes from one, by a step that is
no incident but a jump. The steps are then summarised by who moves (`PlayerActs`,
`GateActs`, `CenterActs`, `GameActs`: what it does to its own state and what it sends),
and each summary is shown to keep `Answerable`.

`ClusterOneRole_proofs` reads the channels by what their letters are about: `Tags` are
the kinds of letters on a channel, `Never(c, s, t)` says that no `t` comes behind an `s`,
and `Moves` says what a step of a process does to both on every channel. Its invariant `Trace` has
three parts beside the ones above.

- `AtRoot`, as long as nobody has jumped, however many things fail: a game that has
  the role or is asked to load it is the game of the scene that center keeps (`home`),
  center knows that game's scenes, and their connection stands. It holds through
  crashes and lost connections because center registers a player elsewhere only when
  it has heard that the game is gone, behind everything the game had to say. This is
  where `Steady` is needed: if only the connection of a game to center breaks, center can
  register the player at another game before the first has heard of the loss
  and deleted its roles. TLC shows such a behaviour when that link is put in `Fragile`.
- `Turns`, without jumps and faults: the login of the player is at one place
  at a time - the gate's request, center's call, the record that the game waits for, the game's answer,
  the gate's SCENE - and there once (`LoggedIn`); or it ends with an error. This fails
  with a login that overtakes another, hence `~repeated`. It gives
  `CalmSceneIsBacked`, and it says where the login is at the moment of a jump.
- `Jumped`, after one jump and nothing else: the news of the jump is on its way from the
  old game to the gate (`Crossing`) or from the gate to center (`Moving`), and no game has the role; or center
  sent the player on to a game and has not heard that it arrived, and no other
  game has a trace of the role (`Moved`); or the jump is over and every trace of the role is at `home` (`Settled`),
  either because it arrived or because the gate was not in a scene when the news came and will not take it (`Doomed`).
  Meanwhile the player leaves, returns and logs in again, and center can forget it; the delicate
  part of `Moved` is that center never sends such a login to a third game: a gate that has
  the player, or whose request is under way, is the only one (`Alone`), and if center has no user for it then the
  new game has no trace of the role either (`Owner`), which rests on the order of errors, logouts and
  requests on each connection (`Landed`, `Landing`).

`OneRole` follows in each case: two games that play are both at `home`, or both the
game that center sent the player to. `AtRoot` and the quiet cases of `Jumped` give
`ClusterRoleFound`: the next login of the player finds its role.

The invariants were checked by TLC before they were proved, in the instances listed
under "Bounds of the cluster" (`Jumped` on that of `cluster`). Model-checked only: `SceneIsBacked` after a
jump or a fault. It needs the login to be followed through the phases of the jump and
the aftermath of each fault, not only the role.

### The login queue

From `NoneAssumption` (the sentinels are no clients, users or gates) and
`NumbersAssumption` (the configured numbers are naturals):

| Theorem | Statement |
|---|---|
| `LoginTypes` | `Spec => []TypeOK` |
| `LoginQueueTicks` | `Spec => []QueueTicks` |
| `LoginOwners` | `Spec => []OwnersMatch` |
| `LoginImplementsWaitingRoom` | `Spec => ServedInOrder` |

The inductive invariant adds one part to the three: `QueueIsOn`, that a queue with
users, a timer that waits and a handler that is due exist only where the queue is
switched on (`login_queue_timer > 0`). Without it `QueueTicks` would not survive the
callback, whose `start_login_queue_timer` does nothing when the timeout is 0.
`OwnersMatch` needs no more than the types: that the queue holds a user once is what makes
removing its entry remove the user, and that a socket's data names a user who has that
socket is what lets a login delete the data of the old socket alone. The refinement
goes action by action: a login joins, passes or rests, a deletion leaves or rests,
the callback admits or rests.

Of the login queue only `NobodyWaitsForEver` is model-checked alone, as it is
liveness. `LoginGates` is model-checked only: `RosterCovers` is a safety property, but has no proof yet.

## 9. Plan

1. `GateSession` with `OneSession`, its runs and proofs: done.
2. `ClusterSession`, its runs, theorems for its properties: done. Left:
   `SceneIsBacked` as a theorem for a jump or a fault too; creating a role, center's crash, the scene check before a jump, a
   player pair in a troop.
3. `LoginQueue` with `WaitingRoom`, its run and proofs: done. `LoginGates`, its runs: done. Left:
   theorems about `LoginGates`, a restart of login_server, gate ids
   (`set_gate`) and `account_manager`.
4. `TcpSocket`, `Acceptor`, `Connector`, their runs and theorems for every safety
   property: done. Left: `MessageParser` (`network/message.cpp`: what is delivered does
   not depend on how the stream is cut), and an abstract connection (up, messages, one
   down) implemented by `Acceptor`, which `Order` prepares.
5. Economy in center: red packets (`redbag`), auctions, trade; conservation of money
   as invariants. Theorems: conservation.
6. `RoleCache`: `db_server` write-back cache; last save wins over a crash.
7. Pure algorithms: ranks, ids, time periods (`common/`), against reference
   definitions.

Not planned: scenes and combat (large, sequential, table-driven), forwarding, logs,
generated and vendored code.
