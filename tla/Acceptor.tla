------------------------------- MODULE Acceptor -------------------------------
(***************************************************************************)
(* A listening port: network/acceptor.cpp, its connections (TcpSocket) and *)
(* the server's main thread, which learns of them from the callbacks of a  *)
(* listener (user_listener_t, game_listener_t, ...), writes to them, closes *)
(* them, and shuts the network down.                                       *)
(*                                                                         *)
(* Three kinds of threads of control: the strand of the acceptor, the      *)
(* strand of each socket, and the main thread.                             *)
(***************************************************************************)
EXTENDS TcpSocket

VARIABLES
    listening,      \* m_tcp_acceptor.is_open()
    list,           \* m_tcp_socket_list
    held,           \* connections the main thread has added and not dropped
    seen,           \* history: events of a connection the main thread has handled
    phase           \* "running", "stopping" (after network_t::stop), "closing"
                    \* (in network_t::close: the main thread waits in join_all)

vars == <<sockVars, handlerQ, mainQ, listening, list, held, seen, phase>>

acceptorVars == <<listening, list>>
mainVars == <<held, seen, phase>>

Init ==
    /\ SocketInit
    /\ handlerQ = <<>>
    /\ mainQ = <<>>
    /\ listening = TRUE
    /\ list = {}
    /\ held = {}
    /\ seen = [c \in Conns |-> <<>>]
    /\ phase = "running"

----------------------------------------------------------------------------
(* The strand of the acceptor.                                             *)

\* The callback is given the socket that was moved from.
Accept_Bug(c) ==
    /\ listening
    /\ Construct(c)
    /\ list' = list \cup {c}
    /\ mainQ' = Append(mainQ, Entry("up", NoConn, 0))
    /\ UNCHANGED <<handlerQ, listening, mainVars>>

\* A client was accepted. The handler returns if the port was closed meanwhile.
Accept(c) ==
    /\ listening
    /\ Construct(c)
    /\ list' = list \cup {c}
    /\ mainQ' = Append(mainQ, Entry("up", c, 0))
    /\ UNCHANGED <<handlerQ, listening, mainVars>>

Handler(what) ==
    /\ handlerQ # <<>>
    /\ Head(handlerQ).what = what
    /\ handlerQ' = Tail(handlerQ)

\* The close is not forced.
DelSocket_Bug ==
    /\ Handler("del")
    /\ LET cs == list \cap {Head(handlerQ).conn} IN
         /\ CloseAll(cs, "graceful")
         /\ list' = list \ cs
    /\ UNCHANGED <<mainQ, listening, mainVars>>

\* on_del_socket: the main thread asked for it.
DelSocket ==
    /\ Handler("del")
    /\ LET cs == list \cap {Head(handlerQ).conn} IN
         /\ CloseAll(cs, "forced")
         /\ list' = list \ cs
    /\ UNCHANGED <<mainQ, listening, mainVars>>

\* The callback is forgotten.
SocketClosed_Bug ==
    /\ Handler("gone")
    /\ list' = list \ {Head(handlerQ).conn}
    /\ UNCHANGED <<sockVars, mainQ, listening, mainVars>>

\* on_socket_close: the socket closed by itself.
SocketClosed ==
    /\ Handler("gone")
    /\ LET c == Head(handlerQ).conn IN
         /\ mainQ' = IF c \in list THEN Append(mainQ, Entry("down", c, 0)) ELSE mainQ
         /\ list' = list \ {c}
    /\ UNCHANGED <<sockVars, listening, mainVars>>

\* The port stays open.
StopListen_Bug ==
    /\ Handler("stop")
    /\ UNCHANGED <<sockVars, mainQ, acceptorVars, mainVars>>

StopListen ==
    /\ Handler("stop")
    /\ listening' = FALSE
    /\ UNCHANGED <<sockVars, mainQ, list, mainVars>>

\* The list is emptied, the sockets stay open.
ClearList_Bug ==
    /\ Handler("clear")
    /\ list' = {}
    /\ UNCHANGED <<sockVars, mainQ, listening, mainVars>>

ClearList ==
    /\ Handler("clear")
    /\ CloseAll(list, "forced")
    /\ list' = {}
    /\ UNCHANGED <<mainQ, listening, mainVars>>

----------------------------------------------------------------------------
(* The main thread. A server adds and drops a connection with the events   *)
(* "up" and "down"; on "down" many of them also ask for a close, which then *)
(* finds nothing.                                                          *)

MainHandle ==
    /\ phase = "running"
    /\ mainQ # <<>>
    /\ LET e == Head(mainQ)
           c == e.conn IN
         /\ seen' = [seen EXCEPT ![c] = Append(@, [what |-> e.what, n |-> e.n])]
         /\ held' = CASE e.what = "up"   -> held \cup {c}
                      [] e.what = "down" -> held \ {c}
                      [] e.what = "msg"  -> held
         /\ handlerQ' \in {handlerQ} \cup
                (IF e.what = "down" THEN {Append(handlerQ, Entry("del", c, 0))} ELSE {})
    /\ mainQ' = Tail(mainQ)
    /\ UNCHANGED <<sockVars, acceptorVars, phase>>

\* post_close_socket: the server drops the connection by itself.
MainClose(c) ==
    /\ phase = "running"
    /\ c \in held
    /\ held' = held \ {c}
    /\ handlerQ' = Append(handlerQ, Entry("del", c, 0))
    /\ UNCHANGED <<sockVars, mainQ, acceptorVars, seen, phase>>

\* post_send_msg.
MainWrite(c) ==
    /\ phase # "closing"
    /\ c \in held
    /\ Write(c)
    /\ UNCHANGED <<handlerQ, mainQ, acceptorVars, mainVars>>

\* network_t::stop and network_t::close, called by one handler of the main
\* thread (on_close_server): it handles no event between them or after them.
MainStop ==
    /\ phase = "running"
    /\ phase' = "stopping"
    /\ handlerQ' = Append(handlerQ, Entry("stop", NoConn, 0))
    /\ UNCHANGED <<sockVars, mainQ, acceptorVars, held, seen>>

MainClear ==
    /\ phase = "stopping"
    /\ phase' = "closing"
    /\ handlerQ' = Append(handlerQ, Entry("clear", NoConn, 0))
    /\ UNCHANGED <<sockVars, mainQ, acceptorVars, held, seen>>

----------------------------------------------------------------------------

Socket(c) == SocketStep(c) /\ UNCHANGED <<acceptorVars, mainVars>>

AcceptorStep == DelSocket \/ SocketClosed \/ StopListen \/ ClearList

Main == MainHandle \/ MainStop \/ MainClear \/ \E c \in Conns : MainClose(c) \/ MainWrite(c)

Next ==
    \/ \E c \in Conns : Accept(c) \/ Socket(c)
    \/ AcceptorStep
    \/ Main

\* The threads run the handlers in their queues, and a server that has begun to
\* shut down goes on with it (on_close_server is one handler). Nothing is assumed
\* of clients, of the network, or of what the server decides to do.
Fairness ==
    /\ WF_vars(AcceptorStep)
    /\ WF_vars(MainHandle)
    /\ WF_vars(MainClear)
    /\ \A c \in Conns : WF_vars(StrandStep(c) /\ UNCHANGED <<acceptorVars, mainVars>>)

Spec == Init /\ [][Next]_vars

FairSpec == Spec /\ Fairness

----------------------------------------------------------------------------

Events == [what : {"up", "msg", "down"}, conn : Conns, n : Nat]

HandlerEvents ==
    [what : {"gone", "del"}, conn : Conns, n : {0}]
        \cup [what : {"stop", "clear"}, conn : {NoConn}, n : {0}]

\* The type invariant of a listening port.
TypeOK ==
    /\ SocketTypeOK
    /\ handlerQ \in Seq(HandlerEvents)
    /\ mainQ \in Seq(Events)
    /\ listening \in BOOLEAN
    /\ list \subseteq Conns
    /\ held \subseteq Conns
    /\ seen \in [Conns -> Seq([what : {"up", "msg", "down"}, n : Nat])]
    /\ phase \in {"running", "stopping", "closing"}

\* The place of e among the events of its connection, of which k messages were
\* received.
Turn(e, k) ==
    CASE e.what = "up"   -> 1
      [] e.what = "msg"  -> e.n + 1
      [] e.what = "down" -> k + 2

\* What e tells of a socket in state st is so.
Happened(e, k, st) ==
    /\ st # "none"
    /\ e.what = "msg" => e.n \in 1..k
    /\ e.what = "down" => st = "closed"

\* The events of c in q are those that follow the first n, in their order; none that
\* happened is missing, except that it may not be told that the socket closed.
Waiting(q, c, n, k, st) ==
    LET mine == {i \in 1..Len(q) : q[i].conn = c} IN
    /\ \A i \in mine : Happened(q[i], k, st) /\ Turn(q[i], k) > n
    /\ \A i, j \in mine : i < j => Turn(q[i], k) < Turn(q[j], k)
    /\ st # "none" => \A t \in (n + 1)..(k + 1) : \E i \in mine : Turn(q[i], k) = t

\* The events in s are the first ones of a connection, in their order.
Handled(s, k, st) == \A i \in 1..Len(s) : Happened(s[i], k, st) /\ Turn(s[i], k) = i

\* Whatever the three kinds of threads do, the main thread is told of a
\* connection in this order: that it is up, each message once and in the order
\* received, and, unless the server dropped it, that it is down; then nothing.
EventsInOrder ==
    \A c \in Conns :
        /\ Handled(seen[c], read[c], state[c])
        /\ Waiting(mainQ, c, Len(seen[c]), read[c], state[c])

\* A server that still holds a connection that has closed is going to be told.
\* (On the way to shutdown nobody is told any more.)
NoGhost ==
    \A c \in Conns :
        phase = "running" /\ c \in held /\ state[c] = "closed" =>
            InQueue(handlerQ, "gone", c) \/ InQueue(mainQ, "down", c)

\* A socket that is neither in the acceptor's list nor on its way to be closed
\* does not exist: none is forgotten open.
NoneForgotten ==
    \A c \in Conns :
        Alive(c) /\ c \notin list => \E i \in 1..Len(strand[c]) : strand[c][i].op = "forced"

\* A connection the server has dropped is closed in the end, whatever its peer
\* does or does not.
DropEnds ==
    \A c \in Conns :
        (state[c] # "none" /\ seen[c] # <<>> /\ c \notin held) ~> (state[c] = "closed")

\* A closed connection is dropped by a server that keeps running.
GhostEnds ==
    \A c \in Conns : (c \in held /\ state[c] = "closed") ~> (c \notin held \/ phase # "running")

\* Nothing keeps the network threads busy.
Quiet ==
    /\ ~listening
    /\ handlerQ = <<>>
    /\ \A c \in Conns : ~Alive(c) /\ strand[c] = <<>>

\* network_t::close returns: once the server waits in join_all, the port and all
\* its connections come to rest, whatever the peers do.
ShutdownEnds == (phase = "closing") ~> Quiet
=============================================================================
