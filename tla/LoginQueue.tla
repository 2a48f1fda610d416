------------------------------ MODULE LoginQueue ------------------------------
(***************************************************************************)
(* login_server: clients ask to log in, the server sends each user to the  *)
(* gate that has it (la_login_request), and while the gates report too     *)
(* many users online it lets users wait in m_login_queue, which a timer    *)
(* serves.  One thread runs every handler; a timer that expired has its    *)
(* handler in the queue of the io_service, where cancel no longer stops    *)
(* it.                                                                     *)
(*                                                                         *)
(* A user_t is known by its uid: user, socket and queue hold the object    *)
(* that m_user_list has, which OwnersMatch shows.                          *)
(***************************************************************************)
EXTENDS Integers, Sequences, SequencesExt, Functions

CONSTANTS Clients,  \* connections of clients
          Users,    \* uids
          Gates,    \* connections of gates
          None,     \* NULL, and the id 0 of a gate that has not told its id
          NoUser,   \* socket_data_t without a user
          UserNumMax, LoginQueueProcess, LoginQueueTimer, \* server_new.xml
          UInt,     \* uint32_t counts modulo UInt
          MaxNum,   \* bound: users one gate reports
          MaxDue    \* bound: expired handlers of the queue's timer

ASSUME NoneAssumption ==
  None \notin Clients \cup Users \cup Gates /\ NoUser \notin Users \cup {None}
ASSUME NumbersAssumption ==
  /\ UserNumMax \in Nat /\ LoginQueueProcess \in Nat /\ LoginQueueTimer \in Nat
  /\ UInt \in Nat \ {0} /\ MaxNum \in Nat /\ MaxDue \in Nat

VARIABLES
  sockets,  \* m_socket_list
  data,     \* the bind data of each client: None, NoUser or p_user
  users,    \* m_user_list
  sock,     \* user_t::m_socket, a weak pointer
  recent,   \* users within two seconds of check_last_login
  queue,    \* m_login_queue
  armed,    \* m_login_queue_timer is waiting
  due,      \* expired handlers of queue timers
  gates,    \* m_gate_list, its order left out
  roster,   \* gate_t::m_user_list
  online,   \* gate_t::m_online_user_num
  calls     \* users whose la_login_request was sent in the last step

clientVars == <<sockets, data>>
userVars   == <<users, sock, recent>>
queueVars  == <<queue, armed, due>>
gateVars   == <<gates, roster, online>>
vars == <<clientVars, userVars, queueVars, gateVars, calls>>

Init ==
  /\ sockets = {} /\ data = [c \in Clients |-> None]
  /\ users = {} /\ sock = [u \in Users |-> None] /\ recent = {}
  /\ queue = <<>> /\ armed = FALSE /\ due = 0
  /\ gates = {} /\ roster = [g \in Gates |-> {}] /\ online = [g \in Gates |-> 0]
  /\ calls = {}

-----------------------------------------------------------------------------
(* Gates *)

\* The gates that list user u; the code takes the first of m_gate_list.
Having(u) == {g \in gates : u \in roster[g]}

\* send_msg_to_gate drops the request of a user that no gate lists.
Sent(S) == {u \in S : Having(u) # {}}

AllOnline == SumFunctionOnSet(online, gates)

AddGate(g) ==
  /\ g \notin gates
  /\ gates' = gates \cup {g}
  /\ calls' = {}
  /\ UNCHANGED <<roster, online, clientVars, userVars, queueVars>>

\* gate_t g goes with its users and its number.
DelGate(g) ==
  /\ g \in gates
  /\ gates' = gates \ {g}
  /\ roster' = [roster EXCEPT ![g] = {}]
  /\ online' = [online EXCEPT ![g] = 0]
  /\ calls' = {}
  /\ UNCHANGED <<clientVars, userVars, queueVars>>

\* The users of gate g change: those it tells when it connects, one that it
\* deleted, all of them.
ListUsers(g, S) ==
  /\ g \in gates
  /\ roster' = [roster EXCEPT ![g] = S]
  /\ calls' = {}
  /\ UNCHANGED <<gates, online, clientVars, userVars, queueVars>>

SynGateInfo(g, S) == ListUsers(g, roster[g] \cup S)
KickRole(g, u) == ListUsers(g, roster[g] \ {u})
KickGateAllUser(g) == ListUsers(g, {})

\* Mutant: the report is added to the last one.
UpdateUserNum_Bug(g, n) ==
  /\ g \in gates
  /\ online' = [online EXCEPT ![g] = @ + n]
  /\ calls' = {}
  /\ UNCHANGED <<gates, roster, clientVars, userVars, queueVars>>

UpdateUserNum(g, n) ==
  /\ g \in gates
  /\ online' = [online EXCEPT ![g] = n]
  /\ calls' = {}
  /\ UNCHANGED <<gates, roster, clientVars, userVars, queueVars>>

-----------------------------------------------------------------------------
(* The queue *)

Start == IF LoginQueueTimer > 0 THEN armed' = TRUE ELSE UNCHANGED armed

\* Mutants: the timer starts when the queue had one; the newest comes first.
AddLoginQueue_Late(u) ==
  /\ queue' = IF u \in ToSet(queue) THEN queue ELSE Append(queue, u)
  /\ IF Len(queue) = 1 THEN Start ELSE UNCHANGED armed
  /\ UNCHANGED due

AddLoginQueue_First(u) ==
  /\ queue' = IF u \in ToSet(queue) THEN queue ELSE <<u>> \o queue
  /\ IF queue = <<>> THEN Start ELSE UNCHANGED armed
  /\ UNCHANGED due

AddLoginQueue(u) ==
  /\ queue' = IF u \in ToSet(queue) THEN queue ELSE Append(queue, u)
  /\ IF queue = <<>> THEN Start ELSE UNCHANGED armed
  /\ UNCHANGED due

\* The queue, and whether its timer waits, without user u.
DelLoginQueue(u) ==
  /\ IF u \in ToSet(queue)
       THEN \E i \in DOMAIN queue : queue[i] = u /\ queue' = RemoveAt(queue, i)
       ELSE UNCHANGED queue
  /\ armed' = (armed /\ ~(u \in ToSet(queue) /\ Len(queue) = 1))
  /\ UNCHANGED due

\* How many are let in; uint32_t, so more users than UserNumMax leave much room.
LoginNum ==
  LET room == (UserNumMax - AllOnline) % UInt
  IN IF room > LoginQueueProcess THEN LoginQueueProcess ELSE room

TimerExpires ==
  /\ armed /\ due < MaxDue
  /\ armed' = FALSE
  /\ due' = due + 1
  /\ calls' = {}
  /\ UNCHANGED <<queue, clientVars, userVars, gateVars>>

\* Mutant: without room the handler returns before it starts the timer again.
Serve_Bug(n) ==
  IF n = 0 \/ n > Len(queue)
    THEN /\ armed' = FALSE
         /\ queue' = IF n = 0 THEN queue ELSE <<>>
         /\ calls' = IF n = 0 THEN {} ELSE Sent(ToSet(queue))
    ELSE /\ Start
         /\ queue' = SubSeq(queue, n + 1, Len(queue))
         /\ calls' = Sent({queue[i] : i \in 1..n})

\* Serve the first n; when the queue is found empty on the way, stop ticking.
Serve(n) ==
  IF n > Len(queue)
    THEN /\ armed' = FALSE
         /\ queue' = <<>>
         /\ calls' = Sent(ToSet(queue))
    ELSE /\ Start
         /\ queue' = SubSeq(queue, n + 1, Len(queue))
         /\ calls' = Sent({queue[i] : i \in 1..n})

LoginQueueCallback ==
  /\ due > 0
  /\ due' = due - 1
  /\ \E n \in 0..LoginQueueProcess : n = LoginNum /\ Serve(n)
  /\ UNCHANGED <<clientVars, userVars, gateVars>>

-----------------------------------------------------------------------------
(* Clients *)

AddSocket(c) ==
  /\ c \notin sockets
  /\ sockets' = sockets \cup {c}
  /\ data' = [data EXCEPT ![c] = NoUser]
  /\ calls' = {}
  /\ UNCHANGED <<userVars, queueVars, gateVars>>

\* Mutant: a deleted user stays in the queue.
DelUser_Bug(u) ==
  /\ users' = users \ {u}
  /\ recent' = recent \ {u}
  /\ UNCHANGED queueVars

DelUser(u) ==
  /\ users' = users \ {u}
  /\ recent' = recent \ {u}
  /\ DelLoginQueue(u)

\* Connection c is gone: the client closed it, or the session timer's handler
\* runs (the timer starts with the connection and no login stops it).  The user
\* of its data goes too; weak pointers to it expire.
DelSocket(c) ==
  /\ c \in sockets
  /\ sockets' = sockets \ {c}
  /\ data' = [data EXCEPT ![c] = None]
  /\ sock' = [u \in Users |-> IF sock[u] = c THEN None ELSE sock[u]]
  /\ IF data[c] \in Users
       THEN DelUser(data[c])
       ELSE UNCHANGED <<users, recent, queueVars>>
  /\ calls' = {}
  /\ UNCHANGED gateVars

\* A known user binds a new socket: its old socket's data is deleted, and for
\* that reason never handed on.
ResetClientSocket(c, u) ==
  /\ sock' = [sock EXCEPT ![u] = c]
  /\ IF u \in users
       THEN data' = [k \in Clients |-> IF k = sock[u] THEN None ELSE data[k]]
       ELSE data' = [data EXCEPT ![c] = u]

\* The gate that lists the user, or else the next in turn (get_best_gate), which
\* is left open.
GatesFor(u) == IF Having(u) # {} THEN Having(u) ELSE gates

Full == AllOnline >= UserNumMax

\* Where the server is full and the queue off, the client hears nothing.
LetInOrWait(u) ==
  \/ /\ Full /\ LoginQueueTimer > 0
     /\ AddLoginQueue(u)
     /\ calls' = {} /\ UNCHANGED recent
  \/ /\ IF Full THEN LoginQueueTimer = 0 ELSE u \in recent
     /\ calls' = {} /\ UNCHANGED <<recent, queueVars>>
  \/ /\ ~Full /\ u \notin recent
     /\ recent' = recent \cup {u}
     /\ calls' = {u} /\ UNCHANGED queueVars

LoginRequest(c, u) ==
  /\ c \in sockets /\ data[c] # None
  /\ \E g \in GatesFor(u) : roster' = [roster EXCEPT ![g] = @ \cup {u}]
  /\ LetInOrWait(u)
  /\ users' = users \cup {u}
  /\ ResetClientSocket(c, u)
  /\ UNCHANGED <<sockets, gates, online>>

\* Two seconds pass since user u was sent to its gate.
Elapse(u) ==
  /\ u \in recent
  /\ recent' = recent \ {u}
  /\ calls' = {}
  /\ UNCHANGED <<users, sock, clientVars, queueVars, gateVars>>

-----------------------------------------------------------------------------
ClientStep ==
  \E c \in Clients :
     \/ AddSocket(c) \/ DelSocket(c) \/ \E u \in Users : LoginRequest(c, u)

GateStep ==
  \E g \in Gates :
     \/ AddGate(g) \/ DelGate(g) \/ KickGateAllUser(g)
     \/ \E S \in SUBSET Users : SynGateInfo(g, S)
     \/ \E n \in 0..MaxNum : UpdateUserNum(g, n)
     \/ \E u \in Users : KickRole(g, u)

TimeStep == TimerExpires \/ LoginQueueCallback \/ \E u \in Users : Elapse(u)

Next == ClientStep \/ GateStep \/ TimeStep

\* A timer expires, and a queued handler runs; nothing is assumed of clients
\* and gates.
Fairness == WF_vars(TimerExpires) /\ WF_vars(LoginQueueCallback)

Spec == Init /\ [][Next]_vars /\ Fairness

-----------------------------------------------------------------------------
(* Properties *)

\* Every variable has its type; a gate's number is what the gate reported.
TypeOK ==
  /\ sockets \subseteq Clients
  /\ data \in [Clients -> Users \cup {None, NoUser}]
  /\ users \subseteq Users /\ recent \subseteq Users
  /\ sock \in [Users -> Clients \cup {None}]
  /\ queue \in Seq(Users) /\ armed \in BOOLEAN /\ due \in Nat
  /\ gates \subseteq Gates
  /\ roster \in [Gates -> SUBSET Users]
  /\ online \in [Gates -> 0..MaxNum]
  /\ calls \subseteq Users

\* add_login_queue starts the timer only for the first user of the queue: while
\* anybody waits, the timer waits too, or its handler is about to run.
QueueTicks == queue # <<>> => armed \/ due > 0

\* del_socket deletes the user that the data of the socket names, whoever has
\* logged in over that socket or from elsewhere meanwhile: the data of a socket
\* names only a user of the list that has this very socket, a socket without
\* an entry in the list has no data, and the queue has users of the list only,
\* each of them once.
OwnersMatch ==
  /\ \A c \in Clients :
        /\ data[c] # None => c \in sockets
        /\ data[c] \in Users => data[c] \in users /\ sock[data[c]] = c
  /\ ToSet(queue) \subseteq users
  /\ IsInjective(queue)

Room == INSTANCE WaitingRoom
          WITH line <- queue, AtOnce <- LoginQueueProcess

\* login_queue_callback and del_login_queue keep the order of the queue: a user
\* leaves it when its turn has come or when it is deleted, never otherwise.
ServedInOrder == Room!Spec

\* Once the server has room whenever the timer ticks, everyone who waits is
\* called or gone some day, however many log in and wait meanwhile.
NobodyWaitsForEver ==
  \A u \in Users :
     <>[](LoginNum > 0) => (u \in ToSet(queue) ~> u \notin ToSet(queue))
================================================================================
