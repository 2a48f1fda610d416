----------------------------- MODULE MCAcceptor -----------------------------
(* An instance of Acceptor for TLC: two connections. A message comes on    *)
(* each, the server writes to one of them.                                 *)
EXTENDS Acceptor

CONSTANTS c1, c2

TwoConns == {c1, c2}

OneWrite == [c \in TwoConns |-> IF c = c1 THEN 1 ELSE 0]

OneMsgEach == [c \in TwoConns |-> 1]
=============================================================================
