---------------------------- MODULE MCGateSession ----------------------------
(* Small instances of GateSession for TLC. *)
EXTENDS GateSession, TLC

\* Users, connections and games are interchangeable: sound for the safety runs.
Symmetry ==
  Permutations(Uids) \cup Permutations(Sockets) \cup Permutations(Games)

\* Two users: three logins in all, and handlers that overtake a timer's only as long
\* as nobody has logged in twice.
ThreeLogins ==
  /\ \A u, v \in Uids : u # v => logins[u] + logins[v] <= 3
  /\ (\E u \in Uids : logins[u] > 1) => ahead = 0

=============================================================================
