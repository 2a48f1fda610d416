----------------------------- MODULE MCConnector -----------------------------
(* Instances of Connector for TLC: two connections, one after the other.   *)
EXTENDS Connector

CONSTANTS c1, c2

TwoConns == {c1, c2}

Writes == [c \in TwoConns |-> IF c = c1 THEN 2 ELSE 0]

Msgs == [c \in TwoConns |-> IF c = c1 THEN 1 ELSE 0]
=============================================================================
