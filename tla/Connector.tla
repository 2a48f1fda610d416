------------------------------ MODULE Connector ------------------------------
(***************************************************************************)
(* A connection a server keeps up to another server: network/connector.cpp *)
(* with its successive sockets (TcpSocket) and the main thread, which holds *)
(* the current one (m_center_socket, m_login_socket, ...).                 *)
(*                                                                         *)
(* connector_t has one socket to connect with (m_new_socket) and one timer *)
(* (m_timer), armed for the next attempt or for the next ping. A cancelled *)
(* operation that has already completed still runs its handler, with the   *)
(* code it completed with: that is why completions (attempt = "connected", *)
(* "refused", "aborted") and timers that ran out (due) have steps of their *)
(* own here.                                                               *)
(***************************************************************************)
EXTENDS TcpSocket

VARIABLES
    isOpen,         \* m_is_open
    conn,           \* m_conn_tcp_socket
    attempt,        \* the async_connect on m_new_socket and its completion
    timer,          \* what m_timer is armed for: "none", "reconnect", "pingpong"
    due,            \* timer handlers in the queue of the strand
    current,        \* the socket the main thread has been given
    phase           \* "running", "stopping" (after network_t::stop), "closing"
                    \* (in network_t::close: the main thread waits in join_all)

vars == <<sockVars, handlerQ, mainQ, isOpen, conn, attempt, timer, due, current, phase>>

connectorVars == <<isOpen, conn, attempt, timer, due>>
mainVars == <<current, phase>>

Attempts == {"none", "pending", "connected", "refused", "aborted"}

\* The constructor ends with connect().
Init ==
    /\ SocketInit
    /\ handlerQ = <<>>
    /\ mainQ = <<>>
    /\ isOpen = TRUE
    /\ conn = NoConn
    /\ attempt = "pending"
    /\ timer = "none"
    /\ due = {}
    /\ current = NoConn
    /\ phase = "running"

----------------------------------------------------------------------------
(* Connecting.                                                             *)

\* reconnect() that arms nothing.
Rearmed_Bug(t) == t

\* What reconnect() makes of m_timer, with no connection. Every server reconnects
\* (reconnect_interval_time # 0) and pings; robots, which do not, are left out.
Rearmed(t) == IF isOpen THEN "reconnect" ELSE t

\* The kernel completes async_connect. As many attempts succeed as there are
\* connections in Conns.
AttemptEnds ==
    /\ attempt = "pending"
    /\ \/ attempt' = "connected" /\ \E c \in Conns : state[c] = "none"
       \/ attempt' = "refused"
    /\ UNCHANGED <<sockVars, handlerQ, mainQ, isOpen, conn, timer, due, mainVars>>

Connected(c) ==
    /\ attempt = "connected"
    /\ Construct(c)
    /\ attempt' = "none"
    /\ conn' = c
    /\ mainQ' = Append(mainQ, Entry("up", c, 0))
    /\ timer' = "pingpong"
    /\ UNCHANGED <<handlerQ, isOpen, due, mainVars>>

Refused ==
    /\ attempt = "refused"
    /\ attempt' = "none"
    /\ timer' = IF conn = NoConn THEN Rearmed(timer) ELSE timer
    /\ UNCHANGED <<sockVars, handlerQ, mainQ, isOpen, conn, due, mainVars>>

Aborted ==
    /\ attempt = "aborted"
    /\ attempt' = "none"
    /\ UNCHANGED <<sockVars, handlerQ, mainQ, isOpen, conn, timer, due, mainVars>>

----------------------------------------------------------------------------
(* The timer.                                                              *)

TimerExpire ==
    /\ timer # "none"
    /\ due' = due \cup {timer}
    /\ timer' = "none"
    /\ UNCHANGED <<sockVars, handlerQ, mainQ, isOpen, conn, attempt, mainVars>>

ReconnectTimeout ==
    /\ "reconnect" \in due
    /\ due' = due \ {"reconnect"}
    /\ attempt' = IF conn = NoConn /\ isOpen THEN "pending" ELSE attempt
    /\ UNCHANGED <<sockVars, handlerQ, mainQ, isOpen, conn, timer, mainVars>>

\* A ping that finds no connection reconnects.
PingTimeout_OrphanBug ==
    /\ "pingpong" \in due
    /\ due' = due \ {"pingpong"}
    /\ timer' = IF conn = NoConn THEN Rearmed(timer) ELSE "pingpong"
    /\ UNCHANGED <<sockVars, handlerQ, mainQ, isOpen, conn, attempt, mainVars>>

\* A ping is written only up to the bound on writes.
PingTimeout ==
    /\ "pingpong" \in due
    /\ due' = due \ {"pingpong"}
    /\ IF conn = NoConn
       THEN UNCHANGED <<sockVars, timer>>
       ELSE /\ timer' = "pingpong"
            /\ IF posted[conn] < MaxWrites[conn] THEN Write(conn) ELSE UNCHANGED sockVars
    /\ UNCHANGED <<handlerQ, mainQ, isOpen, conn, attempt, mainVars>>

----------------------------------------------------------------------------
(* What is posted to the strand of the connector.                          *)

Handler(what) ==
    /\ handlerQ # <<>>
    /\ Head(handlerQ).what = what
    /\ handlerQ' = Tail(handlerQ)

\* The cancel after the reconnect.
Lose_Bug ==
    /\ conn' = NoConn
    /\ timer' = "none"
    /\ UNCHANGED <<isOpen, attempt, due>>

\* The connection has gone: m_conn_tcp_socket.reset(), m_timer.cancel(), reconnect().
Lose ==
    /\ conn' = NoConn
    /\ timer' = Rearmed("none")
    /\ UNCHANGED <<isOpen, attempt, due>>

IsCurrent(c) == conn # NoConn /\ conn = c

\* on_del_socket without the test s != m_conn_tcp_socket.
DelSocket_OtherBug ==
    /\ Handler("del")
    /\ IF conn # NoConn
       THEN CloseAll({conn}, "forced") /\ Lose
       ELSE UNCHANGED <<sockVars, connectorVars>>
    /\ UNCHANGED <<mainQ, mainVars>>

\* on_del_socket without m_conn_tcp_socket.reset().
DelSocket_ResetBug ==
    /\ Handler("del")
    /\ IF IsCurrent(Head(handlerQ).conn)
       THEN CloseAll({conn}, "forced") /\ UNCHANGED connectorVars
       ELSE UNCHANGED <<sockVars, connectorVars>>
    /\ UNCHANGED <<mainQ, mainVars>>

\* on_del_socket: the main thread asked for it. The socket may be an old one.
DelSocket ==
    /\ Handler("del")
    /\ IF IsCurrent(Head(handlerQ).conn)
       THEN CloseAll({conn}, "forced") /\ Lose
       ELSE UNCHANGED <<sockVars, connectorVars>>
    /\ UNCHANGED <<mainQ, mainVars>>

\* on_socket_close: the socket closed by itself.
SocketClosed ==
    /\ Handler("gone")
    /\ IF IsCurrent(Head(handlerQ).conn)
       THEN mainQ' = Append(mainQ, Entry("down", conn, 0)) /\ Lose
       ELSE UNCHANGED <<mainQ, connectorVars>>
    /\ UNCHANGED <<sockVars, mainVars>>

\* Cancelling has an effect only on what has not completed yet.
Stop ==
    /\ Handler("stop")
    /\ isOpen' = FALSE
    /\ IF conn = NoConn
       THEN /\ attempt' = IF attempt = "pending" THEN "aborted" ELSE attempt
            /\ timer' = "none"
       ELSE UNCHANGED <<attempt, timer>>
    /\ UNCHANGED <<sockVars, mainQ, conn, due, mainVars>>

\* clear() that only cancels the timer, as stop() does.
Clear_Bug ==
    /\ Handler("clear")
    /\ timer' = "none"
    /\ UNCHANGED <<sockVars, mainQ, isOpen, conn, attempt, due, mainVars>>

Clear ==
    /\ Handler("clear")
    /\ CloseAll({conn} \ {NoConn}, "graceful")
    /\ conn' = NoConn
    /\ timer' = "none"
    /\ UNCHANGED <<mainQ, isOpen, attempt, due, mainVars>>

----------------------------------------------------------------------------
(* The main thread. On "up" a server keeps the socket (on_add_center), on  *)
(* "down" it asks for its close and forgets the socket it has, whichever   *)
(* it is (on_del_center).                                                  *)

MainHandle ==
    /\ phase = "running"
    /\ mainQ # <<>>
    /\ LET e == Head(mainQ) IN
         /\ current' = CASE e.what = "up"   -> e.conn
                         [] e.what = "down" -> NoConn
                         [] e.what = "msg"  -> current
         /\ handlerQ' = IF e.what = "down" THEN Append(handlerQ, Entry("del", e.conn, 0))
                                           ELSE handlerQ
    /\ mainQ' = Tail(mainQ)
    /\ UNCHANGED <<sockVars, connectorVars, phase>>

\* A game server that goes down drops its gates (gate_manager_t::clear_gate)
\* between network_t::stop and network_t::close.
MainClose ==
    /\ phase = "stopping"
    /\ current # NoConn
    /\ current' = NoConn
    /\ handlerQ' = Append(handlerQ, Entry("del", current, 0))
    /\ UNCHANGED <<sockVars, mainQ, connectorVars, phase>>

\* Also between stop and close: a server saves its data on the way out.
MainWrite ==
    /\ phase # "closing"
    /\ current # NoConn
    /\ Write(current)
    /\ UNCHANGED <<handlerQ, mainQ, connectorVars, mainVars>>

MainStop ==
    /\ phase = "running"
    /\ phase' = "stopping"
    /\ handlerQ' = Append(handlerQ, Entry("stop", NoConn, 0))
    /\ UNCHANGED <<sockVars, mainQ, connectorVars, current>>

MainClear ==
    /\ phase = "stopping"
    /\ phase' = "closing"
    /\ handlerQ' = Append(handlerQ, Entry("clear", NoConn, 0))
    /\ UNCHANGED <<sockVars, mainQ, connectorVars, current>>

----------------------------------------------------------------------------

Socket(c) == SocketStep(c) /\ UNCHANGED <<connectorVars, mainVars>>

Connecting == Refused \/ Aborted \/ \E c \in Conns : Connected(c)

Posted == DelSocket \/ SocketClosed \/ Stop \/ Clear

Timeouts == ReconnectTimeout \/ PingTimeout

Main == MainHandle \/ MainClose \/ MainWrite \/ MainStop \/ MainClear

Next ==
    \/ AttemptEnds
    \/ Connecting
    \/ TimerExpire
    \/ Timeouts
    \/ Posted
    \/ Main
    \/ \E c \in Conns : Socket(c)

\* The threads run the handlers in their queues, an armed timer runs out, TCP
\* ends an attempt and goes on with a write or fails it, and the peer closes a
\* connection whose writing side was shut down (it reads the end of the stream,
\* which tcp_socket.cpp takes for an error). A server that has begun to shut down
\* goes on with it.
Fairness ==
    /\ WF_vars(AttemptEnds)
    /\ WF_vars(Connecting)
    /\ WF_vars(TimerExpire)
    /\ WF_vars(ReconnectTimeout)
    /\ WF_vars(PingTimeout)
    /\ WF_vars(Posted)
    /\ WF_vars(MainHandle)
    /\ WF_vars(MainClear)
    /\ \A c \in Conns :
         /\ WF_vars(StrandStep(c) /\ UNCHANGED <<connectorVars, mainVars>>)
         /\ WF_vars((WriteProgress(c) \/ WriteError(c)) /\ UNCHANGED <<connectorVars, mainVars>>)
         /\ WF_vars(state[c] = "shutdown_write" /\ ReadError(c)
                        /\ UNCHANGED <<connectorVars, mainVars>>)

Spec == Init /\ [][Next]_vars

FairSpec == Spec /\ Fairness

----------------------------------------------------------------------------

Events == [what : {"up", "msg", "down"}, conn : Conns, n : Nat]

HandlerEvents ==
    [what : {"gone", "del"}, conn : Conns, n : {0}]
        \cup [what : {"stop", "clear"}, conn : {NoConn}, n : {0}]

\* The type invariant of a connector.
TypeOK ==
    /\ SocketTypeOK
    /\ handlerQ \in Seq(HandlerEvents)
    /\ mainQ \in Seq(Events)
    /\ isOpen \in BOOLEAN
    /\ conn \in Conns \cup {NoConn}
    /\ attempt \in Attempts
    /\ timer \in {"none", "reconnect", "pingpong"}
    /\ due \subseteq {"reconnect", "pingpong"}
    /\ current \in Conns \cup {NoConn}
    /\ phase \in {"running", "stopping", "closing"}

\* m_new_socket serves one attempt at a time, and none while there is a
\* connection: whatever timers ran out late and whatever was cancelled, there is
\* at most one of a connection, an attempt, and a timer or handler that will
\* start one.
OneAttempt ==
    LET waiting == timer = "reconnect" \/ "reconnect" \in due IN
    /\ conn # NoConn => attempt = "none" /\ ~waiting
    /\ attempt # "none" => ~waiting
    /\ ~(timer = "reconnect" /\ "reconnect" \in due)

\* A connector never gives up before it is stopped, and it never stops pinging: a
\* cancel, which may hit or miss a timer that has run out, never takes away the
\* only thing that would have gone on.
KeepsTrying ==
    /\ isOpen /\ conn = NoConn =>
           attempt # "none" \/ timer = "reconnect" \/ "reconnect" \in due
    /\ conn # NoConn => timer = "pingpong" \/ "pingpong" \in due

\* The main thread, which asks for a close and forgets its socket on any "down", is
\* not made to close or to forget a newer one: once it has handled the events in
\* its queue it has the socket the connector has.
MainCatchesUp ==
    phase = "running" /\ conn # current =>
        \E i \in 1..Len(mainQ) : mainQ[i].what \in {"up", "down"}

\* The connector never goes on with a socket that was told to close: what is
\* written to it would be dropped, and nobody would be told when it closes.
NotCutOff ==
    conn # NoConn => \A i \in 1..Len(strand[conn]) : strand[conn][i].op = "write"

\* What the main thread wrote before network_t::close, the saves of a server that
\* goes down among it, is handed to TCP before the connection is closed, unless
\* the peer or the network fails first.
ClearFlushes ==
    [][\A c \in Conns :
          LET finished == state[c] # "shutdown_write" /\ state'[c] = "shutdown_write"
              closed == state[c] = "open" /\ state'[c] = "closed" IN
          finished \/ (closed /\ Next1(c, "graceful") /\ ~notify'[c])
              => Len(wire[c]) = posted[c]]_vars

\* A stopped connector does not connect any more (connector.cpp, the comment on
\* m_is_open in stop()).
StoppedStaysDown ==
    [][\A c \in Conns : state[c] = "none" /\ state'[c] = "open" => isOpen]_vars

\* Socket c keeps the network threads busy no more.
Ended(c) == ~Alive(c) /\ strand[c] = <<>>

\* Nothing does.
Quiet ==
    /\ attempt = "none" /\ timer = "none" /\ due = {} /\ handlerQ = <<>>
    /\ \A c \in Conns : Ended(c)

\* The connector is to be cleared, and has made the connections S so far.
BeforeClear(S) ==
    /\ \E i \in DOMAIN handlerQ : handlerQ[i].what = "clear"
    /\ S = {c \in Conns : state[c] # "none"}

\* network_t::close returns: the connector comes to rest, given that peers close
\* what was shut down, and every connection it has made before the handler of
\* clear() runs has ended. Exempt is only a connection established after that:
\* nobody closes it (StoppedStaysDown), and join_all waits for it.
ShutdownEnds ==
    \A S \in SUBSET Conns :
        BeforeClear(S) ~> Quiet \/ (conn \in Conns \ S /\ \A c \in S : Ended(c))

\* A connection that closed is replaced, or an attempt is made to.
Reopens ==
    \A c \in Conns :
        (conn = c /\ state[c] = "closed") ~> (attempt # "none" \/ ~isOpen)
=============================================================================
