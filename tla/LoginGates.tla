------------------------------ MODULE LoginGates ------------------------------
(***************************************************************************)
(* login_server with the user lists of its gates.  login_server keeps a    *)
(* roster of the users of each gate, by which it chooses the gate of a     *)
(* login; a gate adds the user of a la_login_request to its list, tells    *)
(* login_server of every user that it deletes, and tells its whole list    *)
(* when their connection is made.  Requests and notices cross on the way,  *)
(* connections are lost and gates restart.                                 *)
(*                                                                         *)
(* GateSession has what a gate does with a user it has; here a gate may    *)
(* delete any user at any time.                                            *)
(***************************************************************************)
EXTENDS LoginQueue

CONSTANTS MaxWire,  \* bound: messages on a connection
          MaxLosses \* bound: lost connections and restarts

ASSUME BoundsAssumption == MaxWire \in Nat /\ MaxLosses \in Nat

VARIABLES
  member,   \* m_user_list of each gate
  link,     \* the gates that are connected to login_server
  toGate,   \* what each gate has yet to handle of login_server
  toLogin,  \* what login_server has yet to handle of each gate
  losses,   \* lost connections and restarts
  struck    \* history: <<g, u>> where login_server took u off the roster of g
            \* though g had u again, or was about to

wireVars == <<link, toGate, toLogin>>
gatesVars == <<vars, member, wireVars, losses, struck>>

Up == [kind |-> "up"]
Down == [kind |-> "down"]
Login(u) == [kind |-> "login", user |-> u]
Syn(S) == [kind |-> "syn", users |-> S]
Kick(u) == [kind |-> "kick", user |-> u]
KickAll == [kind |-> "kick_all"]

GatesInit ==
  /\ Init
  /\ member = [g \in Gates |-> {}]
  /\ link = {}
  /\ toGate = [g \in Gates |-> <<>>] /\ toLogin = [g \in Gates |-> <<>>]
  /\ losses = 0 /\ struck = {}

\* Gate g has user u, or will.
Has(g, u) == u \in member[g] \/ Login(u) \in ToSet(toGate[g])

\* login_server struck S off the roster of g, and maybe listed others.
Strikes(g, S) ==
  struck' = {p \in struck \cup {<<g, u>> : u \in {v \in S : Has(g, v)}} : p[2] \notin roster'[p[1]]}

-----------------------------------------------------------------------------
(* login_server *)

\* Each la_login_request goes to a gate that lists the user.
SendsLogins ==
  /\ \E at \in [calls' -> gates'] :
       /\ \A u \in calls' : at[u] \in Having(u)'
       /\ toGate' = [g \in Gates |->
            IF g \notin link THEN toGate[g]
            ELSE toGate[g] \o SetToSeq({Login(u) : u \in {v \in calls' : at[v] = g}})]
  /\ \A g \in Gates : Len(toGate'[g]) <= MaxWire

\* Clients, timers and the numbers that gates report, as in LoginQueue.
LoginStep ==
  /\ ClientStep \/ TimeStep \/ \E g \in Gates, n \in 0..MaxNum : UpdateUserNum(g, n)
  /\ SendsLogins
  /\ \E g \in Gates : Strikes(g, {})
  /\ UNCHANGED <<member, link, toLogin, losses>>

\* login_server handles what comes next from gate g.
LoginHears(g) ==
  /\ toLogin[g] # <<>>
  /\ LET m == Head(toLogin[g]) IN
       \/ m.kind = "up" /\ AddGate(g) /\ Strikes(g, {})
       \/ m.kind = "syn" /\ SynGateInfo(g, m.users) /\ Strikes(g, {})
       \/ m.kind = "kick" /\ KickRole(g, m.user) /\ Strikes(g, {m.user})
       \/ m.kind = "kick_all" /\ KickGateAllUser(g) /\ Strikes(g, Users)
       \/ m.kind = "down" /\ DelGate(g) /\ Strikes(g, {})
  /\ toLogin' = [toLogin EXCEPT ![g] = Tail(@)]
  /\ UNCHANGED <<member, link, toGate, losses>>

-----------------------------------------------------------------------------
(* Gates *)

\* The connector of gate g has no socket before on_add_login.
Joined(g) == g \in link /\ Up \notin ToSet(toGate[g])

Tell(g, s) == toLogin' = [toLogin EXCEPT ![g] = IF Joined(g) THEN @ \o s ELSE @]

Roomy(g) == Len(toLogin[g]) < MaxWire

\* The gate tells its id but not its users.
Join_Bug(g) ==
  /\ toLogin' = [toLogin EXCEPT ![g] = IF g \in link THEN Append(@, Syn({})) ELSE @]
  /\ UNCHANGED member

\* on_add_login
Join(g) ==
  /\ toLogin' = [toLogin EXCEPT ![g] = IF g \in link THEN Append(@, Syn(member[g])) ELSE @]
  /\ UNCHANGED member

\* handle_la_login_request: the gate has the user from now on.
TakesLogin(g, u) ==
  /\ member' = [member EXCEPT ![g] = @ \cup {u}]
  /\ UNCHANGED toLogin

GateHears(g) ==
  /\ toGate[g] # <<>>
  /\ LET m == Head(toGate[g]) IN
       \/ m.kind = "up" /\ Join(g)
       \/ m.kind = "login" /\ TakesLogin(g, m.user)
  /\ toGate' = [toGate EXCEPT ![g] = Tail(@)]
  /\ UNCHANGED <<vars, link, losses, struck>>

\* del_user: a login that times out, a kick, a refusal, the end of an offline time
GateDeletes(g, u) ==
  /\ u \in member[g] /\ Roomy(g)
  /\ member' = [member EXCEPT ![g] = @ \ {u}]
  /\ Tell(g, <<Kick(u)>>)
  /\ UNCHANGED <<vars, link, toGate, losses, struck>>

\* clear_all_users_and_socket when center is lost or asks for it
GateClears(g) ==
  /\ Roomy(g)
  /\ member' = [member EXCEPT ![g] = {}]
  /\ Tell(g, SetToSeq({Kick(u) : u \in member[g]}) \o <<KickAll>>)
  /\ UNCHANGED <<vars, link, toGate, losses, struck>>

-----------------------------------------------------------------------------
(* Connections *)

\* What login_server still gets of a connection that breaks.  That it was made is
\* no message of the gate.
Rest(s) == {SubSeq(s, 1, i) \o <<Down>> : i \in (IF Up \in ToSet(s) THEN 1 ELSE 0)..Len(s)}

\* The messages under way may be lost; what the gate has received it handles.
LinkFails(g) ==
  /\ g \in link /\ losses < MaxLosses
  /\ losses' = losses + 1
  /\ link' = link \ {g}
  /\ \E s \in Rest(toLogin[g]) : toLogin' = [toLogin EXCEPT ![g] = s]
  /\ \E i \in (IF Up \in ToSet(toGate[g]) THEN 1 ELSE 0)..Len(toGate[g]) :
       toGate' = [toGate EXCEPT ![g] = SubSeq(@, 1, i)]
  /\ UNCHANGED <<vars, member, struck>>

\* The gate's connector connects again, when both have noticed the loss.
LinkReturns(g) ==
  /\ g \notin link /\ toLogin[g] = <<>> /\ toGate[g] = <<>>
  /\ link' = link \cup {g}
  /\ toLogin' = [toLogin EXCEPT ![g] = <<Up>>]
  /\ toGate' = [toGate EXCEPT ![g] = <<Up>>]
  /\ UNCHANGED <<vars, member, losses, struck>>

\* The gate ends, in close_network or otherwise, and starts without users.
Restart(g) ==
  /\ losses < MaxLosses /\ losses' = losses + 1
  /\ member' = [member EXCEPT ![g] = {}]
  /\ link' = link \ {g}
  /\ toGate' = [toGate EXCEPT ![g] = <<>>]
  /\ IF g \in link
       THEN \E s \in Rest(toLogin[g]) : toLogin' = [toLogin EXCEPT ![g] = s]
       ELSE UNCHANGED toLogin
  /\ UNCHANGED <<vars, struck>>

-----------------------------------------------------------------------------
GatesNext ==
  \/ LoginStep
  \/ \E g \in Gates :
       \/ LoginHears(g) \/ GateHears(g) \/ GateClears(g)
       \/ LinkFails(g) \/ LinkReturns(g) \/ Restart(g)
       \/ \E u \in Users : GateDeletes(g, u)

GatesSpec == GatesInit /\ [][GatesNext]_gatesVars

-----------------------------------------------------------------------------
(* Properties *)

\* login_server knows of gate g: it is connected, and has told its users.
Known(g) ==
  /\ g \in gates /\ Joined(g)
  /\ \A i \in DOMAIN toLogin[g] : toLogin[g][i].kind \notin {"up", "syn", "down"}

\* What handle_al_syn_gate_info_notify and add_user make of the rosters: whom a
\* known gate has, or is about to get, its roster lists, however logins, kicks,
\* losses and restarts follow each other, unless the notice of a deletion struck
\* off a user that a later request brought back (handle_al_kick_role_notify).
RosterCovers ==
  \A g \in Gates, u \in Users :
     Known(g) /\ Has(g, u) => u \in roster[g] \/ <<g, u>> \in struck

================================================================================
