---------------------------- MODULE MCClusterSession ----------------------------
(* Small instances of ClusterSession for TLC. *)
EXTENDS ClusterSession, TLC

\* Every connection but those between center and a game: a game that loses only
\* center deletes its roles and tells no gate, and nor does center.
NotCenterGame == {l \in Links : l \cap Games = {} \/ "center" \notin l}

\* A bound.  With a fault and a login that overtook an earlier one all properties
\* but the types are excused, in this state and ever after.
StillPromised == faults = 0 \/ ~repeated

Symmetry == Permutations(Gates) \cup Permutations(Games)

=============================================================================
