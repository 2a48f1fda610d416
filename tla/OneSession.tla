------------------------------ MODULE OneSession ------------------------------
(***************************************************************************)
(* What the gate promises a player: a user is played by at most one        *)
(* connection at a time, a connection plays at most one user, and whoever  *)
(* plays holds the session id of the newest login.  A login takes the user *)
(* away from whoever played it before.                                     *)
(***************************************************************************)
EXTENDS Naturals

CONSTANTS Uids, Sockets, Nobody

VARIABLES latest, \* the newest session id of each user
          player  \* the connection that plays a user, with its session id

Player(s, k) == [conn |-> s, key |-> k]

Init ==
  /\ latest = [u \in Uids |-> 0]
  /\ player = [u \in Uids |-> Nobody]

\* Nobody but u gets a connection; who has one may lose it.
Keep(u) ==
  /\ DOMAIN player' = Uids
  /\ \A v \in Uids \ {u} : player'[v] \in {player[v], Nobody}

\* A login: a new session id, and nobody plays the user.
Login(u) ==
  /\ latest' = [latest EXCEPT ![u] = @ + 1]
  /\ Keep(u) /\ player'[u] = Nobody

\* A connection with the newest session id takes a user nobody plays, and leaves the
\* user that it played before.
Attach(u, s) ==
  /\ player[u] = Nobody /\ player'[u] = Player(s, latest[u])
  /\ Keep(u)
  /\ \A v \in Uids \ {u} : player'[v].conn # s
  /\ UNCHANGED latest

\* Some users lose their connections.
Release ==
  /\ DOMAIN player' = Uids
  /\ \A v \in Uids : player'[v] \in {player[v], Nobody}
  /\ UNCHANGED latest

Next ==
  \/ Release
  \/ \E u \in Uids : Login(u) \/ \E s \in Sockets : Attach(u, s)

Spec == Init /\ [][Next]_<<latest, player>>

=============================================================================
