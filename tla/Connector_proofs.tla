--------------------------- MODULE Connector_proofs ---------------------------
(***************************************************************************)
(* What holds of network/connector.cpp for any number of connections and   *)
(* writes: the sockets hand everything over in order, and the connector    *)
(* has never two attempts under way and never stops trying.                *)
(***************************************************************************)
EXTENDS Connector, TcpSocket_proofs

----------------------------------------------------------------------------
(* The inductive invariant.                                                *)

\* The types of what is not a socket's.
OwnerTypes ==
    /\ handlerQ \in Seq(HandlerEvents)
    /\ mainQ \in Seq(Events)
    /\ isOpen \in BOOLEAN
    /\ conn \in Conns \cup {NoConn}
    /\ attempt \in Attempts
    /\ timer \in {"none", "reconnect", "pingpong"}
    /\ due \subseteq {"reconnect", "pingpong"}
    /\ current \in Conns \cup {NoConn}
    /\ phase \in {"running", "stopping", "closing"}

\* Events q are about sockets that s says were constructed.
AllKnown(q, s) == \A i \in 1..Len(q) : s[q[i].conn] # "none"

\* Nobody has a socket that was not constructed: it could be written to.
Known ==
    /\ conn # NoConn => state[conn] # "none"
    /\ current # NoConn => state[current] # "none"
    /\ AllKnown(mainQ, state)

HasStop(q) == \E i \in 1..Len(q) : q[i].what = "stop"

\* In q no clear comes before a stop.
StopThenClear(q) ==
    \A i \in 1..Len(q) : q[i].what = "clear" => \E j \in 1..(i - 1) : q[j].what = "stop"

\* clear(), which disarms the timer, runs after stop().
StopsFirst ==
    /\ phase # "running" /\ isOpen => HasStop(handlerQ)
    /\ isOpen => StopThenClear(handlerQ)

\* Only stop() cancels an attempt.
AbortedByStop == attempt = "aborted" => ~isOpen

IInv ==
    /\ SocketInv
    /\ OwnerTypes
    /\ Known
    /\ AbortedByStop
    /\ OneAttempt
    /\ KeepsTrying
    /\ StopsFirst

----------------------------------------------------------------------------
(* The queues.                                                             *)

\* An event is appended to the queue of the main thread.
LEMMA KnownAppend ==
    ASSUME NEW q \in Seq(Events), NEW s, NEW e \in Events, AllKnown(q, s), s[e.conn] # "none"
    PROVE  Append(q, e) \in Seq(Events) /\ AllKnown(Append(q, e), s)
  <1>1. \A i \in 1..Len(Append(q, e)) :
           (i \in 1..Len(q) /\ Append(q, e)[i] = q[i]) \/ Append(q, e)[i] = e
    OBVIOUS
  <1> QED
    BY <1>1 DEF AllKnown

\* The main thread takes an event.
LEMMA KnownTail ==
    ASSUME NEW q \in Seq(Events), NEW s, AllKnown(q, s), q # <<>>
    PROVE  /\ Head(q) \in Events /\ s[Head(q).conn] # "none"
           /\ Tail(q) \in Seq(Events) /\ AllKnown(Tail(q), s)
  <1>1. /\ Head(q) \in Events /\ Head(q) = q[1] /\ 1 \in 1..Len(q)
        /\ Tail(q) \in Seq(Events)
        /\ \A i \in 1..Len(Tail(q)) : Tail(q)[i] = q[i + 1] /\ i + 1 \in 1..Len(q)
    OBVIOUS
  <1> QED
    BY <1>1 DEF AllKnown

\* A socket that was constructed stays so.
LEMMA KnownLater ==
    ASSUME NEW q \in Seq(Events), NEW s, NEW t, AllKnown(q, s),
           \A d \in Conns : s[d] # "none" => t[d] # "none"
    PROVE  AllKnown(q, t)
  <1>1. \A i \in 1..Len(q) : q[i] \in Events
    OBVIOUS
  <1>2. \A i \in 1..Len(q) : q[i].conn \in Conns
    BY <1>1 DEF Events
  <1> QED
    BY <1>2 DEF AllKnown

\* A handler is posted to the connector.
LEMMA StopAppend ==
    ASSUME NEW q \in Seq(HandlerEvents), NEW e \in HandlerEvents
    PROVE  /\ Append(q, e) \in Seq(HandlerEvents)
           /\ HasStop(q) \/ e.what = "stop" => HasStop(Append(q, e))
           /\ StopThenClear(q) /\ (e.what = "clear" => HasStop(q))
                => StopThenClear(Append(q, e))
  <1> DEFINE t == Append(q, e)
  <1>1. /\ t \in Seq(HandlerEvents) /\ Len(t) = Len(q) + 1 /\ Len(q) \in Nat
        /\ t[Len(q) + 1] = e
        /\ \A i \in 1..Len(q) : t[i] = q[i]
    OBVIOUS
  <1> HIDE DEF t
  <1>2. HasStop(q) \/ e.what = "stop" => HasStop(t)
    BY <1>1 DEF HasStop
  <1>3. ASSUME StopThenClear(q), e.what = "clear" => HasStop(q)
        PROVE  StopThenClear(t)
    <2>1. ASSUME NEW i \in 1..Len(t), t[i].what = "clear"
          PROVE  \E j \in 1..(i - 1) : t[j].what = "stop"
      <3>1. CASE i \in 1..Len(q)
        <4>1. \E j \in 1..(i - 1) : q[j].what = "stop"
          BY <1>1, <1>3, <2>1, <3>1 DEF StopThenClear
        <4> QED
          BY <1>1, <3>1, <4>1
      <3>2. CASE i = Len(q) + 1
        <4>1. \E j \in 1..Len(q) : q[j].what = "stop"
          BY <1>1, <1>3, <2>1, <3>2 DEF HasStop
        <4> QED
          BY <1>1, <3>2, <4>1
      <3> QED
        BY <1>1, <3>1, <3>2
    <2> QED
      BY <2>1 DEF StopThenClear
  <1> QED
    BY <1>1, <1>2, <1>3 DEF t

\* The connector takes a handler that is not stop().
LEMMA StopTail ==
    ASSUME NEW q \in Seq(HandlerEvents), q # <<>>, Head(q).what # "stop"
    PROVE  /\ Head(q) \in HandlerEvents /\ Tail(q) \in Seq(HandlerEvents)
           /\ HasStop(q) => HasStop(Tail(q))
           /\ StopThenClear(q) => Head(q).what # "clear" /\ StopThenClear(Tail(q))
  <1> DEFINE t == Tail(q)
  <1>1. /\ Head(q) \in HandlerEvents /\ Head(q) = q[1] /\ Len(q) \in Nat /\ Len(q) # 0
        /\ t \in Seq(HandlerEvents) /\ Len(t) = Len(q) - 1
        /\ \A i \in 1..Len(t) : t[i] = q[i + 1]
    OBVIOUS
  <1> HIDE DEF t
  <1>2. ASSUME HasStop(q) PROVE HasStop(t)
    <2>1. PICK i \in 1..Len(q) : q[i].what = "stop"
      BY <1>2 DEF HasStop
    <2>2. i # 1 /\ i - 1 \in 1..Len(t) /\ (i - 1) + 1 = i
      BY <1>1, <2>1
    <2> QED
      BY <1>1, <2>1, <2>2 DEF HasStop
  <1>3. ASSUME StopThenClear(q) PROVE Head(q).what # "clear" /\ StopThenClear(t)
    <2>1. Head(q).what # "clear"
      BY <1>1, <1>3 DEF StopThenClear
    <2>2. ASSUME NEW i \in 1..Len(t), t[i].what = "clear"
          PROVE  \E j \in 1..(i - 1) : t[j].what = "stop"
      <3>1. i + 1 \in 1..Len(q) /\ q[i + 1].what = "clear"
        BY <1>1, <2>2
      <3>2. PICK j \in 1..i : q[j].what = "stop"
        BY <1>3, <3>1 DEF StopThenClear
      <3>3. j # 1 /\ j - 1 \in 1..(i - 1) /\ j - 1 \in 1..Len(t) /\ (j - 1) + 1 = j
        BY <1>1, <3>2
      <3> QED
        BY <1>1, <3>2, <3>3
    <2> QED
      BY <2>1, <2>2 DEF StopThenClear
  <1> QED
    BY <1>1, <1>2, <1>3 DEF t

----------------------------------------------------------------------------
(* The steps. Each lemma is about the actions that disturb the same parts. *)

\* Shorthand for what the steps do to the queues.
LEMMA Entries ==
    ASSUME NEW c \in Conns, NEW n \in Nat
    PROVE  /\ Entry("gone", c, 0) \in HandlerEvents /\ Entry("gone", c, 0).what = "gone"
           /\ Entry("del", c, 0) \in HandlerEvents /\ Entry("del", c, 0).what = "del"
           /\ Entry("stop", NoConn, 0) \in HandlerEvents
           /\ Entry("stop", NoConn, 0).what = "stop"
           /\ Entry("clear", NoConn, 0) \in HandlerEvents
           /\ Entry("clear", NoConn, 0).what = "clear"
           /\ \A what \in {"up", "msg", "down"} :
                 Entry(what, c, n) \in Events /\ Entry(what, c, n).conn = c
  BY DEF Entry, HandlerEvents, Events

\* The initial state.
LEMMA InitInv == Init => IInv
  <1> SUFFICES ASSUME Init PROVE IInv
    OBVIOUS
  <1>1. SocketInv
    BY SocketInitInv DEF Init
  <1>2. OwnerTypes /\ Known
    BY DEF Init, OwnerTypes, Known, AllKnown, Attempts
  <1>3. OneAttempt /\ KeepsTrying /\ StopsFirst /\ AbortedByStop
    BY DEF Init, OneAttempt, KeepsTrying, AbortedByStop, StopsFirst, StopThenClear, HasStop
  <1> QED
    BY <1>1, <1>2, <1>3 DEF IInv

\* A step of a socket.
LEMMA SocketKeeps ==
    ASSUME IInv, NEW c \in Conns, Socket(c)
    PROVE  IInv'
  <1>1. SocketInv /\ SocketStep(c) /\ UNCHANGED <<connectorVars, mainVars>>
    BY DEF IInv, Socket
  <1>2. SocketInv'
    BY <1>1, SocketStepInv
  <1>3. /\ \A d \in Conns : state[d] # "none" => state'[d] # "none"
        /\ handlerQ' \in {handlerQ, Append(handlerQ, Entry("gone", c, 0))}
        /\ mainQ' \in {mainQ, Append(mainQ, Entry("msg", c, read[c] + 1))}
        /\ state[c] # "none" /\ read[c] + 1 \in Nat
    BY <1>1, SocketStepFrame, Parts
  <1>4. handlerQ \in Seq(HandlerEvents) /\ mainQ \in Seq(Events) /\ AllKnown(mainQ, state)
    BY DEF IInv, OwnerTypes, Known
  <1>5. mainQ' \in Seq(Events) /\ AllKnown(mainQ', state')
    <2>1. AllKnown(mainQ, state')
      BY <1>3, <1>4, KnownLater
    <2> DEFINE e == Entry("msg", c, read[c] + 1)
    <2>2. e \in Events /\ e.conn = c /\ state'[c] # "none"
      BY <1>3, Entries
    <2> HIDE DEF e
    <2>3. Append(mainQ, e) \in Seq(Events) /\ AllKnown(Append(mainQ, e), state')
      BY <1>4, <2>1, <2>2, KnownAppend
    <2>4. mainQ' = mainQ \/ mainQ' = Append(mainQ, e)
      BY <1>3 DEF e
    <2> QED
      BY <1>4, <2>1, <2>3, <2>4
  <1>6. handlerQ' \in Seq(HandlerEvents)
        /\ (HasStop(handlerQ) => HasStop(handlerQ'))
        /\ (StopThenClear(handlerQ) => StopThenClear(handlerQ'))
    <2> DEFINE e == Entry("gone", c, 0)
    <2>1. e \in HandlerEvents /\ e.what = "gone"
      BY Entries, 0 \in Nat
    <2> HIDE DEF e
    <2>2. /\ Append(handlerQ, e) \in Seq(HandlerEvents)
          /\ (HasStop(handlerQ) => HasStop(Append(handlerQ, e)))
          /\ (StopThenClear(handlerQ) => StopThenClear(Append(handlerQ, e)))
      BY <1>4, <2>1, StopAppend
    <2>3. handlerQ' = handlerQ \/ handlerQ' = Append(handlerQ, e)
      BY <1>3 DEF e
    <2> QED
      BY <1>4, <2>2, <2>3
  <1>7. OwnerTypes' /\ StopsFirst'
    BY <1>1, <1>5, <1>6 DEF IInv, OwnerTypes, StopsFirst, connectorVars, mainVars
  <1>8. Known'
    BY <1>1, <1>3, <1>5 DEF IInv, Known, OwnerTypes, connectorVars, mainVars
  <1>9. OneAttempt' /\ KeepsTrying' /\ AbortedByStop'
    BY <1>1 DEF IInv, OneAttempt, KeepsTrying, AbortedByStop, AbortedByStop, connectorVars, mainVars
  <1> QED
    BY <1>2, <1>7, <1>8, <1>9 DEF IInv

\* A step that leaves the sockets, the queues and the main thread alone: attempts
\* that end and timers.
LEMMA TryingKeeps ==
    ASSUME IInv, AttemptEnds \/ Refused \/ Aborted \/ TimerExpire \/ ReconnectTimeout
    PROVE  IInv'
  <1>1. UNCHANGED <<sockVars, handlerQ, mainQ, isOpen, conn, mainVars>>
    BY DEF AttemptEnds, Refused, Aborted, TimerExpire, ReconnectTimeout
  <1>2. SocketInv'
    BY <1>1, SocketStutter DEF IInv
  <1>3. OwnerTypes'
    <2>1. /\ attempt' \in {attempt, "none", "pending", "connected", "refused"}
          /\ timer' \in {timer, "none", "reconnect"}
          /\ due' \subseteq due \cup {timer} /\ (due' \subseteq due \/ timer # "none")
      BY DEF AttemptEnds, Refused, Aborted, TimerExpire, ReconnectTimeout, Rearmed
    <2> QED
      BY <1>1, <2>1 DEF IInv, OwnerTypes, mainVars, Attempts
  <1>4. Known' /\ StopsFirst'
    BY <1>1 DEF IInv, Known, StopsFirst, mainVars, sockVars
  <1>5. OneAttempt' /\ KeepsTrying' /\ AbortedByStop'
    <2>1. CASE AttemptEnds
      BY <2>1 DEF IInv, OneAttempt, KeepsTrying, AbortedByStop, AbortedByStop, AttemptEnds
    <2>2. CASE Refused
      BY <2>2 DEF IInv, OneAttempt, KeepsTrying, AbortedByStop, AbortedByStop, Refused, Rearmed
    <2>3. CASE Aborted
      BY <2>3 DEF IInv, OneAttempt, KeepsTrying, AbortedByStop, Aborted
    <2>4. CASE TimerExpire
      BY <2>4 DEF IInv, OneAttempt, KeepsTrying, AbortedByStop, TimerExpire
    <2>5. CASE ReconnectTimeout
      BY <2>5 DEF IInv, OneAttempt, KeepsTrying, AbortedByStop, ReconnectTimeout
    <2> QED
      BY <2>1, <2>2, <2>3, <2>4, <2>5
  <1> QED
    BY <1>2, <1>3, <1>4, <1>5 DEF IInv

\* An attempt succeeds.
LEMMA ConnectedKeeps ==
    ASSUME IInv, NEW c \in Conns, Connected(c)
    PROVE  IInv'
  <1> DEFINE e == Entry("up", c, 0)
  <1>1. /\ Construct(c) /\ mainQ' = Append(mainQ, e) /\ conn' = c /\ attempt = "connected"
        /\ attempt' = "none" /\ timer' = "pingpong" /\ UNCHANGED <<handlerQ, isOpen, due, mainVars>>
    BY DEF Connected
  <1>2. SocketInv'
    BY <1>1, ConstructInv DEF IInv
  <1>3. /\ \A d \in Conns : state[d] # "none" => state'[d] # "none"
        /\ state'[c] # "none"
    BY <1>1 DEF IInv, SocketInv, SocketTypeOK, Construct
  <1>4. mainQ' \in Seq(Events) /\ AllKnown(mainQ', state')
    <2>1. mainQ \in Seq(Events) /\ AllKnown(mainQ, state')
      BY <1>3, KnownLater DEF IInv, OwnerTypes, Known
    <2>2. e \in Events /\ e.conn = c
      BY Entries
    <2> HIDE DEF e
    <2> QED
      BY <1>1, <1>3, <2>1, <2>2, KnownAppend
  <1>5. OwnerTypes' /\ StopsFirst'
    BY <1>1, <1>4 DEF IInv, OwnerTypes, StopsFirst, mainVars, Attempts
  <1>6. Known'
    BY <1>1, <1>3, <1>4 DEF IInv, OwnerTypes, Known, mainVars
  <1>7. OneAttempt' /\ KeepsTrying' /\ AbortedByStop'
    BY <1>1, ConnAssumption DEF IInv, OneAttempt, KeepsTrying, AbortedByStop
  <1> QED
    BY <1>2, <1>5, <1>6, <1>7 DEF IInv

\* A write leaves the sockets constructed.
LEMMA WriteKeeps ==
    ASSUME IInv, NEW c \in Conns, state[c] # "none", Write(c)
    PROVE  SocketInv' /\ UNCHANGED state
  BY WriteInv DEF IInv, Write

\* The handler of the ping timer.
LEMMA PingKeeps ==
    ASSUME IInv, PingTimeout
    PROVE  IInv'
  <1>1. /\ "pingpong" \in due /\ due' = due \ {"pingpong"}
        /\ UNCHANGED <<handlerQ, mainQ, isOpen, conn, attempt, mainVars>>
        /\ timer' = IF conn = NoConn THEN timer ELSE "pingpong"
    BY DEF PingTimeout
  <1>2. SocketInv' /\ UNCHANGED state
    <2>1. CASE UNCHANGED sockVars
      BY <2>1, SocketStutter DEF IInv, sockVars
    <2>2. CASE conn # NoConn /\ Write(conn)
      BY <2>2, WriteKeeps DEF IInv, OwnerTypes, Known
    <2> QED
      BY <2>1, <2>2 DEF PingTimeout, sockVars
  <1>3. OwnerTypes' /\ Known' /\ StopsFirst'
    BY <1>1, <1>2 DEF IInv, OwnerTypes, Known, StopsFirst, mainVars
  <1>4. OneAttempt' /\ KeepsTrying' /\ AbortedByStop'
    BY <1>1 DEF IInv, OneAttempt, KeepsTrying, AbortedByStop
  <1> QED
    BY <1>2, <1>3, <1>4 DEF IInv

\* A lost connection is replaced by a timer, not by an attempt beside another.
LEMMA LoseTrying ==
    ASSUME OneAttempt, KeepsTrying, AbortedByStop, conn # NoConn, Lose
    PROVE  OneAttempt' /\ KeepsTrying' /\ AbortedByStop'
  BY DEF OneAttempt, KeepsTrying, AbortedByStop, Lose, Rearmed

\* A handler of the connector about a socket: on_del_socket, on_socket_close.
LEMMA GoneKeeps ==
    ASSUME IInv, DelSocket \/ SocketClosed
    PROVE  IInv'
  <1>1. /\ handlerQ # <<>> /\ Head(handlerQ).what # "stop" /\ handlerQ' = Tail(handlerQ)
        /\ UNCHANGED mainVars
        /\ (conn # NoConn /\ Lose) \/ UNCHANGED connectorVars
    BY DEF DelSocket, SocketClosed, Handler, IsCurrent
  <1>2. SocketInv' /\ UNCHANGED state
    <2>1. CASE UNCHANGED sockVars
      BY <2>1, SocketStutter DEF IInv, sockVars
    <2>2. CASE conn # NoConn /\ CloseAll({conn}, "forced")
      <3>1. conn \in Conns /\ state[conn] # "none"
        BY <2>2 DEF IInv, OwnerTypes, Known
      <3>2. {conn} \in SUBSET Conns /\ \A d \in {conn} : state[d] # "none"
        BY <3>1
      <3> QED
        BY <2>2, <3>2, CloseAllInv DEF IInv, CloseAll
    <2> QED
      BY <2>1, <2>2 DEF DelSocket, SocketClosed, IsCurrent
  <1>3. mainQ' \in Seq(Events) /\ AllKnown(mainQ', state')
    <2>1. mainQ \in Seq(Events) /\ AllKnown(mainQ, state')
      BY <1>2 DEF IInv, OwnerTypes, Known
    <2>2. CASE UNCHANGED mainQ
      BY <2>1, <2>2
    <2> DEFINE e == Entry("down", conn, 0)
    <2>3. CASE conn # NoConn /\ mainQ' = Append(mainQ, e)
      <3>1. conn \in Conns /\ state'[conn] # "none"
        BY <1>2, <2>3 DEF IInv, OwnerTypes, Known
      <3>2. e \in Events /\ e.conn = conn
        BY <3>1, Entries
      <3> HIDE DEF e
      <3> QED
        BY <2>1, <2>3, <3>1, <3>2, KnownAppend
    <2> QED
      BY <2>2, <2>3 DEF DelSocket, SocketClosed, IsCurrent
  <1>4. handlerQ' \in Seq(HandlerEvents)
        /\ (HasStop(handlerQ) => HasStop(handlerQ'))
        /\ (StopThenClear(handlerQ) => StopThenClear(handlerQ'))
    BY <1>1, StopTail DEF IInv, OwnerTypes
  <1>5. isOpen' = isOpen /\ conn' \in {conn, NoConn}
    BY <1>1 DEF Lose, connectorVars
  <1>6. OwnerTypes'
    BY <1>1, <1>3, <1>4 DEF IInv, OwnerTypes, Lose, Rearmed, connectorVars, mainVars
  <1>7. Known' /\ StopsFirst'
    BY <1>1, <1>2, <1>3, <1>4, <1>5 DEF IInv, Known, StopsFirst, mainVars
  <1>8. OneAttempt' /\ KeepsTrying' /\ AbortedByStop'
    <2>1. CASE conn # NoConn /\ Lose
      BY <2>1, LoseTrying DEF IInv
    <2>2. CASE UNCHANGED connectorVars
      BY <2>2 DEF IInv, OneAttempt, KeepsTrying, AbortedByStop, connectorVars
    <2> QED
      BY <1>1, <2>1, <2>2
  <1> QED
    BY <1>2, <1>6, <1>7, <1>8 DEF IInv

\* stop().
LEMMA StopKeeps ==
    ASSUME IInv, Stop
    PROVE  IInv'
  <1>1. /\ handlerQ # <<>> /\ handlerQ' = Tail(handlerQ) /\ ~isOpen'
        /\ UNCHANGED <<sockVars, mainQ, conn, due, mainVars>>
    BY DEF Stop, Handler
  <1>2. SocketInv'
    BY <1>1, SocketStutter DEF IInv
  <1>3. handlerQ' \in Seq(HandlerEvents)
    BY <1>1 DEF IInv, OwnerTypes
  <1>4. OwnerTypes'
    BY <1>1, <1>3 DEF IInv, OwnerTypes, Stop, mainVars, Attempts
  <1>5. Known' /\ StopsFirst'
    BY <1>1 DEF IInv, Known, StopsFirst, mainVars, sockVars
  <1>6. OneAttempt' /\ KeepsTrying' /\ AbortedByStop'
    BY <1>1 DEF IInv, OneAttempt, KeepsTrying, AbortedByStop, Stop
  <1> QED
    BY <1>2, <1>4, <1>5, <1>6 DEF IInv

\* clear(): the connector is no longer open.
LEMMA ClearKeeps ==
    ASSUME IInv, Clear
    PROVE  IInv'
  <1>1. /\ handlerQ # <<>> /\ Head(handlerQ).what = "clear" /\ handlerQ' = Tail(handlerQ)
        /\ CloseAll({conn} \ {NoConn}, "graceful") /\ conn' = NoConn /\ timer' = "none"
        /\ UNCHANGED <<mainQ, isOpen, attempt, due, mainVars>>
    BY DEF Clear, Handler
  <1>2. ~isOpen
    BY <1>1, StopTail DEF IInv, OwnerTypes, StopsFirst
  <1>3. SocketInv' /\ UNCHANGED state
    <2>1. /\ {conn} \ {NoConn} \in SUBSET Conns
          /\ \A d \in {conn} \ {NoConn} : state[d] # "none"
      BY DEF IInv, OwnerTypes, Known
    <2> QED
      BY <1>1, <2>1, CloseAllInv DEF IInv, CloseAll
  <1>4. handlerQ' \in Seq(HandlerEvents)
    BY <1>1 DEF IInv, OwnerTypes
  <1>5. OwnerTypes' /\ Known' /\ StopsFirst'
    BY <1>1, <1>2, <1>3, <1>4 DEF IInv, OwnerTypes, Known, StopsFirst, mainVars
  <1>6. OneAttempt' /\ KeepsTrying' /\ AbortedByStop'
    BY <1>1, <1>2 DEF IInv, OneAttempt, KeepsTrying, AbortedByStop
  <1> QED
    BY <1>3, <1>5, <1>6 DEF IInv

\* The main thread posts a handler that is not clear(), or takes an event.
LEMMA MainHandleKeeps ==
    ASSUME IInv, MainHandle
    PROVE  IInv'
  <1> DEFINE e == Head(mainQ)
             h == Entry("del", e.conn, 0)
  <1>1. /\ mainQ # <<>> /\ mainQ' = Tail(mainQ) /\ phase = "running"
        /\ current' = (CASE e.what = "up" -> e.conn
                          [] e.what = "down" -> NoConn
                          [] e.what = "msg" -> current)
        /\ handlerQ' = handlerQ \/ handlerQ' = Append(handlerQ, h)
        /\ UNCHANGED <<sockVars, connectorVars, phase>>
    BY DEF MainHandle
  <1>2. SocketInv' /\ UNCHANGED state
    BY <1>1, SocketStutter DEF IInv, sockVars
  <1>3. /\ e \in Events /\ state[e.conn] # "none"
        /\ mainQ' \in Seq(Events) /\ AllKnown(mainQ', state)
    BY <1>1, KnownTail DEF IInv, OwnerTypes, Known
  <1>4. /\ e.what \in {"up", "msg", "down"} /\ e.conn \in Conns
        /\ h \in HandlerEvents /\ h.what = "del"
    BY <1>3, Entries DEF Events
  <1>5. current' \in {e.conn, NoConn, current}
    BY <1>1, <1>4
  <1> HIDE DEF e, h
  <1>6. /\ handlerQ' \in Seq(HandlerEvents)
        /\ (HasStop(handlerQ) => HasStop(handlerQ'))
        /\ (StopThenClear(handlerQ) => StopThenClear(handlerQ'))
    BY <1>1, <1>4, StopAppend DEF IInv, OwnerTypes
  <1>7. OwnerTypes'
    BY <1>1, <1>3, <1>4, <1>5, <1>6 DEF IInv, OwnerTypes, connectorVars
  <1>8. Known'
    BY <1>1, <1>2, <1>3, <1>5 DEF IInv, Known, connectorVars
  <1>9. StopsFirst' /\ OneAttempt' /\ KeepsTrying' /\ AbortedByStop'
    BY <1>1, <1>6 DEF IInv, StopsFirst, OneAttempt, KeepsTrying, AbortedByStop, connectorVars
  <1> QED
    BY <1>2, <1>7, <1>8, <1>9 DEF IInv

\* The main thread closes its socket, stops or clears the connector.
LEMMA MainPostKeeps ==
    ASSUME IInv, MainClose \/ MainStop \/ MainClear
    PROVE  IInv'
  <1>1. UNCHANGED <<sockVars, mainQ, connectorVars>> /\ current' \in {NoConn, current}
    BY DEF MainClose, MainStop, MainClear
  <1>2. SocketInv' /\ UNCHANGED state
    BY <1>1, SocketStutter DEF IInv, sockVars
  <1>3. PICK h \in HandlerEvents :
           /\ handlerQ' = Append(handlerQ, h)
           /\ h.what = "clear" => phase # "running"
           /\ phase # "running" \/ phase' = "running" \/ h.what = "stop"
           /\ phase' \in {"running", "stopping", "closing"}
    <2>1. CASE MainClose
      <3>1. current \in Conns
        BY <2>1 DEF MainClose, IInv, OwnerTypes
      <3> QED
        BY <2>1, <3>1, Entries DEF MainClose
    <2>2. CASE MainStop
      BY <2>2 DEF MainStop, Entry, HandlerEvents
    <2>3. CASE MainClear
      BY <2>3 DEF MainClear, Entry, HandlerEvents
    <2> QED
      BY <2>1, <2>2, <2>3
  <1>4. OwnerTypes'
    BY <1>1, <1>3, StopAppend DEF IInv, OwnerTypes, connectorVars
  <1>5. Known'
    BY <1>1, <1>2 DEF IInv, Known, connectorVars
  <1>6. StopsFirst'
    <2>1. CASE isOpen
      <3>1. /\ HasStop(handlerQ) \/ h.what = "stop" => HasStop(handlerQ')
            /\ StopThenClear(handlerQ) /\ (h.what = "clear" => HasStop(handlerQ))
                 => StopThenClear(handlerQ')
        BY <1>3, StopAppend DEF IInv, OwnerTypes
      <3> QED
        BY <1>1, <1>3, <2>1, <3>1 DEF IInv, StopsFirst, connectorVars
    <2>2. CASE ~isOpen
      BY <1>1, <2>2 DEF StopsFirst, connectorVars
    <2> QED
      BY <2>1, <2>2
  <1>7. OneAttempt' /\ KeepsTrying' /\ AbortedByStop'
    BY <1>1 DEF IInv, OneAttempt, KeepsTrying, AbortedByStop, connectorVars
  <1> QED
    BY <1>2, <1>4, <1>5, <1>6, <1>7 DEF IInv

\* The main thread writes to the socket it has.
LEMMA MainWriteKeeps ==
    ASSUME IInv, MainWrite
    PROVE  IInv'
  <1>1. /\ current # NoConn /\ Write(current)
        /\ UNCHANGED <<handlerQ, mainQ, connectorVars, mainVars>>
    BY DEF MainWrite
  <1>2. SocketInv' /\ UNCHANGED state
    BY <1>1, WriteKeeps DEF IInv, OwnerTypes, Known
  <1>3. OwnerTypes' /\ Known' /\ StopsFirst'
    BY <1>1, <1>2 DEF IInv, OwnerTypes, Known, StopsFirst, connectorVars, mainVars
  <1>4. OneAttempt' /\ KeepsTrying' /\ AbortedByStop'
    BY <1>1 DEF IInv, OneAttempt, KeepsTrying, AbortedByStop, connectorVars
  <1> QED
    BY <1>2, <1>3, <1>4 DEF IInv

\* Nothing happens.
LEMMA StutterKeeps ==
    ASSUME IInv, UNCHANGED vars
    PROVE  IInv'
  <1>1. SocketInv'
    BY SocketStutter DEF IInv, vars
  <1>2. OwnerTypes' /\ Known' /\ StopsFirst'
    BY DEF IInv, OwnerTypes, Known, StopsFirst, vars, sockVars
  <1>3. OneAttempt' /\ KeepsTrying' /\ AbortedByStop'
    BY DEF IInv, OneAttempt, KeepsTrying, AbortedByStop, vars
  <1> QED
    BY <1>1, <1>2, <1>3 DEF IInv

\* Every step of the system keeps the inductive invariant.
LEMMA StepInv == IInv /\ [Next]_vars => IInv'
  <1> SUFFICES ASSUME IInv, [Next]_vars PROVE IInv'
    OBVIOUS
  <1>1. CASE AttemptEnds \/ TimerExpire
    BY <1>1, TryingKeeps
  <1>2. CASE Connecting
    BY <1>2, TryingKeeps, ConnectedKeeps DEF Connecting
  <1>3. CASE Timeouts
    BY <1>3, TryingKeeps, PingKeeps DEF Timeouts
  <1>4. CASE Posted
    BY <1>4, GoneKeeps, StopKeeps, ClearKeeps DEF Posted
  <1>5. CASE Main
    BY <1>5, MainHandleKeeps, MainPostKeeps, MainWriteKeeps DEF Main
  <1>6. CASE \E c \in Conns : Socket(c)
    BY <1>6, SocketKeeps
  <1>7. CASE UNCHANGED vars
    BY <1>7, StutterKeeps
  <1> QED
    BY <1>1, <1>2, <1>3, <1>4, <1>5, <1>6, <1>7 DEF Next

----------------------------------------------------------------------------
(* The handover: which socket the connector has, which one the main thread *)
(* has, and what is said of sockets to both. A second invariant, which     *)
(* every step keeps because it keeps the first.                            *)

\* An event that gives the main thread a socket or takes it away.
Tells(e) == e.what \in {"up", "down"}

\* What the main thread has after such an event.
Given(e) == IF e.what = "up" THEN e.conn ELSE NoConn

\* A main thread that has x has y after the events q.
Leads(q, x, y) ==
    \/ x = y /\ \A i \in 1..Len(q) : ~Tells(q[i])
    \/ \E i \in 1..Len(q) :
          /\ Tells(q[i]) /\ y = Given(q[i])
          /\ \A j \in 1..Len(q) : j > i => ~Tells(q[j])

\* A running main thread ends up with the connector's socket.
Follows == phase = "running" => Leads(mainQ, current, conn)

\* As long as the server runs, only old sockets are reported down or told to close.
OldOnly ==
    phase = "running" /\ conn # NoConn =>
        ~InQueue(mainQ, "down", conn) /\ ~InQueue(handlerQ, "del", conn)

\* The main thread asks for the close of a socket that was constructed.
Born == \A c \in Conns : InQueue(handlerQ, "del", c) => state[c] # "none"

\* clear() is posted last.
ClearLast == InQueue(handlerQ, "clear", NoConn) => phase = "closing"

OnlyWrites(s) == \A i \in 1..Len(s) : s[i].op = "write"

\* Nothing follows a graceful close.
GracefulLast(s) == \A i \in 1..Len(s) : s[i].op = "graceful" => i = Len(s)

HasGraceful(s) == \E i \in 1..Len(s) : s[i].op = "graceful"

\* A socket told to close is not the connector's any more; one told to close
\* gracefully, by clear(), is written to no more, and has accepted everything when
\* it begins to shut down. Until then a socket reports its end.
Ending(c) ==
    /\ conn = c => OnlyWrites(strand[c])
    /\ GracefulLast(strand[c])
    /\ HasGraceful(strand[c]) => phase = "closing"
    /\ state[c] \in {"shutdown_writing", "shutdown_write"} =>
          phase = "closing" /\ conn # c /\ accepted[c] = posted[c]
    /\ state[c] \in {"none", "open"} => notify[c]

Handover ==
    /\ Follows
    /\ OldOnly
    /\ Born
    /\ ClearLast
    /\ \A c \in Conns : Ending(c)

\* An event that comes last decides.
LEMMA LeadsAppend ==
    ASSUME NEW q \in Seq(Events), NEW e \in Events, NEW x, NEW y, Leads(q, x, y)
    PROVE  /\ ~Tells(e) => Leads(Append(q, e), x, y)
           /\ Tells(e) => Leads(Append(q, e), x, Given(e))
  <1> DEFINE t == Append(q, e)
  <1>1. /\ Len(t) = Len(q) + 1 /\ Len(q) \in Nat /\ t[Len(q) + 1] = e
        /\ \A i \in 1..Len(q) : t[i] = q[i]
    OBVIOUS
  <1> HIDE DEF t
  <1>2. /\ \A i \in 1..Len(t) : i \in 1..Len(q) \/ i = Len(q) + 1
        /\ \A i \in 1..Len(q) : i \in 1..Len(t)
        /\ Len(q) + 1 \in 1..Len(t)
    BY <1>1
  <1>3. ASSUME ~Tells(e) PROVE Leads(t, x, y)
    <2>1. CASE x = y /\ \A i \in 1..Len(q) : ~Tells(q[i])
      BY <1>1, <1>2, <1>3, <2>1, Zenon DEF Leads
    <2>2. CASE \E i \in 1..Len(q) : /\ Tells(q[i]) /\ y = Given(q[i])
                                   /\ \A j \in 1..Len(q) : j > i => ~Tells(q[j])
      <3>1. PICK i \in 1..Len(q) : /\ Tells(q[i]) /\ y = Given(q[i])
                                   /\ \A j \in 1..Len(q) : j > i => ~Tells(q[j])
        BY <2>2
      <3>2. i \in 1..Len(t) /\ Tells(t[i]) /\ y = Given(t[i])
        BY <1>1, <1>2, <3>1
      <3>3. \A j \in 1..Len(t) : j > i => ~Tells(t[j])
        BY <1>1, <1>2, <1>3, <3>1
      <3> QED
        BY <3>2, <3>3 DEF Leads
    <2> QED
      BY <2>1, <2>2 DEF Leads
  <1>4. ASSUME Tells(e) PROVE Leads(t, x, Given(e))
    <2>1. \A j \in 1..Len(t) : ~(j > Len(q) + 1)
      BY <1>1
    <2> QED
      BY <1>1, <1>2, <1>4, <2>1 DEF Leads
  <1> QED
    BY <1>3, <1>4 DEF t

\* The main thread takes the first event.
LEMMA LeadsTail ==
    ASSUME NEW q \in Seq(Events), q # <<>>, NEW x, NEW y, Leads(q, x, y)
    PROVE  Leads(Tail(q), IF Tells(Head(q)) THEN Given(Head(q)) ELSE x, y)
  <1> DEFINE t == Tail(q)
             z == IF Tells(Head(q)) THEN Given(Head(q)) ELSE x
  <1>1. /\ Len(t) = Len(q) - 1 /\ Len(q) \in Nat /\ Len(q) # 0 /\ Head(q) = q[1]
        /\ \A i \in 1..Len(t) : t[i] = q[i + 1]
    OBVIOUS
  <1> HIDE DEF t
  <1>2. /\ 1 \in 1..Len(q)
        /\ \A i \in 1..Len(t) : i + 1 \in 1..Len(q)
        /\ \A i \in 1..Len(q) : i # 1 => i - 1 \in 1..Len(t) /\ (i - 1) + 1 = i
    BY <1>1
  <1>3. CASE x = y /\ \A i \in 1..Len(q) : ~Tells(q[i])
    <2>1. z = y
      BY <1>1, <1>2, <1>3
    <2>2. \A i \in 1..Len(t) : ~Tells(t[i])
      BY <1>1, <1>2, <1>3
    <2> QED
      BY <2>1, <2>2 DEF Leads, t
  <1>4. CASE \E i \in 1..Len(q) : /\ Tells(q[i]) /\ y = Given(q[i])
                                 /\ \A j \in 1..Len(q) : j > i => ~Tells(q[j])
    <2>1. PICK i \in 1..Len(q) : /\ Tells(q[i]) /\ y = Given(q[i])
                                 /\ \A j \in 1..Len(q) : j > i => ~Tells(q[j])
      BY <1>4
    <2>2. \A j \in 1..Len(t) : j + 1 > i => ~Tells(t[j])
      BY <1>1, <1>2, <2>1
    <2>3. CASE i = 1
      <3>1. z = y
        BY <1>1, <2>1, <2>3
      <3>2. \A j \in 1..Len(t) : ~Tells(t[j])
        BY <2>2, <2>3
      <3> QED
        BY <3>1, <3>2 DEF Leads, t
    <2>4. CASE i # 1
      <3>1. i - 1 \in 1..Len(t) /\ t[i - 1] = q[i]
        BY <1>1, <1>2, <2>4
      <3>2. \A j \in 1..Len(t) : j > i - 1 => ~Tells(t[j])
        BY <2>2
      <3> QED
        BY <2>1, <3>1, <3>2 DEF Leads, t
    <2> QED
      BY <2>3, <2>4
  <1> QED
    BY <1>3, <1>4 DEF Leads

\* A request is appended to a strand.
LEMMA StrandAppend ==
    ASSUME NEW s \in Seq(Requests), NEW r \in Requests
    PROVE  /\ OnlyWrites(s) /\ r.op = "write" => OnlyWrites(Append(s, r))
           /\ OnlyWrites(s) => GracefulLast(Append(s, r))
           /\ HasGraceful(Append(s, r)) <=> HasGraceful(s) \/ r.op = "graceful"
           /\ GracefulLast(s) /\ ~HasGraceful(s) => GracefulLast(Append(s, r))
  <1> DEFINE t == Append(s, r)
  <1>1. /\ Len(t) = Len(s) + 1 /\ Len(s) \in Nat /\ t[Len(s) + 1] = r
        /\ \A i \in 1..Len(s) : t[i] = s[i]
    OBVIOUS
  <1> HIDE DEF t
  <1>2. /\ \A i \in 1..Len(t) : i \in 1..Len(s) \/ i = Len(s) + 1
        /\ \A i \in 1..Len(s) : i \in 1..Len(t)
        /\ Len(s) + 1 \in 1..Len(t)
    BY <1>1
  <1>3. OnlyWrites(s) /\ r.op = "write" => OnlyWrites(t)
    BY <1>1, <1>2 DEF OnlyWrites
  <1>4. OnlyWrites(s) => GracefulLast(t)
    BY <1>1, <1>2 DEF OnlyWrites, GracefulLast
  <1>5. HasGraceful(t) <=> HasGraceful(s) \/ r.op = "graceful"
    BY <1>1, <1>2 DEF HasGraceful
  <1>6. ~HasGraceful(s) => GracefulLast(t)
    BY <1>1, <1>2 DEF HasGraceful, GracefulLast
  <1> QED
    BY <1>3, <1>4, <1>5, <1>6 DEF t

\* A strand takes its first request.
LEMMA StrandTail ==
    ASSUME NEW s \in Seq(Requests), s # <<>>
    PROVE  /\ OnlyWrites(s) => Head(s).op = "write" /\ OnlyWrites(Tail(s))
           /\ GracefulLast(s) => GracefulLast(Tail(s))
           /\ HasGraceful(Tail(s)) => HasGraceful(s)
           /\ Head(s).op = "graceful" => HasGraceful(s)
           /\ Head(s).op = "graceful" /\ GracefulLast(s) => Len(s) = 1
  <1> DEFINE t == Tail(s)
  <1>1. /\ Len(t) = Len(s) - 1 /\ Len(s) \in Nat /\ Len(s) # 0 /\ Head(s) = s[1]
        /\ \A i \in 1..Len(t) : t[i] = s[i + 1]
    OBVIOUS
  <1> HIDE DEF t
  <1>2. /\ \A i \in 1..Len(t) : i + 1 \in 1..Len(s)
        /\ 1 \in 1..Len(s)
    BY <1>1
  <1>3. OnlyWrites(s) => Head(s).op = "write" /\ OnlyWrites(t)
    BY <1>1, <1>2 DEF OnlyWrites
  <1>4. GracefulLast(s) => GracefulLast(t)
    BY <1>1, <1>2 DEF GracefulLast
  <1>5. HasGraceful(t) => HasGraceful(s)
    BY <1>1, <1>2 DEF HasGraceful
  <1>6. Head(s).op = "graceful" => HasGraceful(s) /\ (GracefulLast(s) => Len(s) = 1)
    BY <1>1, <1>2 DEF HasGraceful, GracefulLast
  <1> QED
    BY <1>3, <1>4, <1>5, <1>6 DEF t

\* A socket the step does not touch, which does not become the connector's.
LEMMA EndingSame ==
    ASSUME NEW c \in Conns, Ending(c),
           strand'[c] = strand[c], state'[c] = state[c], notify'[c] = notify[c],
           accepted'[c] = accepted[c], posted'[c] = posted[c],
           conn' = c => conn = c, phase = "closing" => phase' = "closing"
    PROVE  Ending(c)'
  BY DEF Ending

\* A step of the socket itself. A graceful close that comes first has all writes
\* behind it, by the numbering of the requests.
LEMMA EndingStep ==
    ASSUME SocketInv, NEW c \in Conns, SocketStep(c), Ending(c), UNCHANGED <<conn, phase>>
    PROVE  Ending(c)'
  <1>1. /\ state \in [Conns -> SocketStates] /\ notify \in [Conns -> BOOLEAN]
        /\ out \in [Conns -> Outs] /\ accepted \in [Conns -> Nat] /\ posted \in [Conns -> Nat]
        /\ strand \in [Conns -> Seq(Requests)] /\ strand[c] \in Seq(Requests)
        /\ SocketOK(c)
    BY DEF SocketInv, SocketTypeOK
  <1>2. CASE WriteHandler(c)
    <2>1. /\ strand[c] # <<>> /\ strand'[c] = Tail(strand[c])
          /\ UNCHANGED <<state, notify, posted>>
          /\ state[c] # "open" => accepted' = accepted
      BY <1>1, <1>2 DEF WriteHandler, Next1, Pop
    <2> QED
      BY <1>1, <2>1, StrandTail DEF Ending
  <1>3. CASE CloseForced(c)
    <2>1. /\ strand[c] # <<>> /\ strand'[c] = Tail(strand[c])
          /\ UNCHANGED <<accepted, posted>> /\ state'[c] = "closed"
      BY <1>1, <1>3 DEF CloseForced, Next1, Pop
    <2> QED
      BY <1>1, <2>1, StrandTail DEF Ending
  <1>4. CASE CloseGraceful(c)
    <2>1. /\ strand[c] # <<>> /\ Head(strand[c]).op = "graceful" /\ strand'[c] = Tail(strand[c])
          /\ UNCHANGED <<accepted, posted>>
          /\ \/ state[c] = "open" /\ state'[c] \in {"shutdown_writing", "closed"}
             \/ state[c] # "open" /\ UNCHANGED <<state, notify>>
      BY <1>1, <1>4 DEF CloseGraceful, Next1, Pop
    <2>2. HasGraceful(strand[c]) /\ Len(strand[c]) = 1 /\ phase = "closing"
      BY <1>1, <2>1, StrandTail DEF Ending
    <2>3. conn # c
      BY <1>1, <2>1, StrandTail DEF Ending
    <2>4. state[c] = "open" => accepted[c] = posted[c]
      <3> SUFFICES ASSUME state[c] = "open" PROVE accepted[c] = posted[c]
        OBVIOUS
      <3>1. Chain(strand[c], accepted[c], posted[c])
        BY <1>1 DEF SocketOK, Fits
      <3>2. Head(strand[c]).n = accepted[c] + Adds(Head(strand[c]))
        BY <1>1, <2>1, <3>1, ChainTail
      <3>3. Head(strand[c]).n = accepted[c]
        BY <1>1, <2>1, <3>2 DEF Adds
      <3>4. posted[c] = strand[c][Len(strand[c])].n /\ Head(strand[c]) = strand[c][1]
        BY <1>1, <2>1, <3>1 DEF Chain
      <3> QED
        BY <2>2, <3>3, <3>4
    <2> QED
      BY <1>1, <2>1, <2>2, <2>3, <2>4, StrandTail DEF Ending
  <1>5. CASE SendSome(c)
    BY <1>5 DEF SendSome, Ending
  <1>6. CASE WriteDone(c)
    <2>1. /\ UNCHANGED <<notify, strand, posted, accepted>>
          /\ \/ state'[c] = state[c]
             \/ state[c] = "shutdown_writing" /\ state'[c] = "shutdown_write"
      BY <1>1, <1>6 DEF WriteDone
    <2> QED
      BY <2>1 DEF Ending
  <1>7. CASE WriteError(c) \/ ReadError(c)
    <2>1. UNCHANGED <<notify, strand, posted, accepted>> /\ state'[c] = "closed"
      BY <1>1, <1>7 DEF WriteError, ReadError, DoClose
    <2> QED
      BY <2>1 DEF Ending
  <1>8. CASE ReadMsg(c)
    BY <1>8 DEF ReadMsg, Ending
  <1> QED
    BY <1>2, <1>3, <1>4, <1>5, <1>6, <1>7, <1>8 DEF SocketStep, StrandStep, WriteProgress

\* A write to a socket that is not told to close.
LEMMA EndingWrite ==
    ASSUME SocketInv, NEW c \in Conns, Write(c), phase # "closing" \/ conn = c,
           \A d \in Conns : Ending(d), UNCHANGED <<conn, phase>>
    PROVE  \A d \in Conns : Ending(d)'
  <1>1. /\ strand \in [Conns -> Seq(Requests)] /\ posted \in [Conns -> Nat]
        /\ strand[c] \in Seq(Requests)
        /\ Request(c, "write") \in Requests /\ Request(c, "write").op = "write"
    BY DEF SocketInv, SocketTypeOK, Request, Requests
  <1>2. /\ strand'[c] = Append(strand[c], Request(c, "write"))
        /\ UNCHANGED <<state, notify, accepted>>
        /\ \A d \in Conns \ {c} : strand'[d] = strand[d] /\ posted'[d] = posted[d]
    BY <1>1 DEF Write
  <1>3. ~HasGraceful(strand[c])
    BY DEF Ending, OnlyWrites, HasGraceful
  <1>4. Ending(c)'
    BY <1>1, <1>2, <1>3, StrandAppend DEF Ending
  <1>5. ASSUME NEW d \in Conns \ {c} PROVE Ending(d)'
    BY <1>2, EndingSame
  <1> QED
    BY <1>4, <1>5

\* The connector gives its socket up and tells it to close.
LEMMA EndingClose ==
    ASSUME SocketInv, NEW how \in {"forced", "graceful"}, CloseAll({conn} \ {NoConn}, how),
           conn' = NoConn, \A d \in Conns : Ending(d),
           UNCHANGED phase, how = "graceful" => phase = "closing"
    PROVE  \A d \in Conns : Ending(d)'
  <1> TAKE d \in Conns
  <1>1. /\ strand[d] \in Seq(Requests) /\ posted[d] \in Nat
        /\ Request(d, how) \in Requests /\ Request(d, how).op = how
    BY DEF SocketInv, SocketTypeOK, Request, Requests
  <1>2. /\ UNCHANGED <<state, notify, accepted, posted>>
        /\ strand'[d] = IF d = conn THEN Append(strand[d], Request(d, how)) ELSE strand[d]
    BY ConnAssumption DEF CloseAll
  <1>3. CASE d = conn
    <2>1. conn' # d /\ strand'[d] = Append(strand[d], Request(d, how))
      BY <1>2, <1>3, ConnAssumption
    <2>2. OnlyWrites(strand[d])
      BY <1>3 DEF Ending
    <2>3. /\ GracefulLast(strand'[d])
          /\ HasGraceful(strand'[d]) => how = "graceful"
      BY <1>1, <2>1, <2>2, StrandAppend DEF OnlyWrites, HasGraceful
    <2> QED
      BY <1>2, <1>3, <2>1, <2>3 DEF Ending
  <1>4. CASE d # conn
    BY <1>2, <1>4, EndingSame, ConnAssumption
  <1> QED
    BY <1>3, <1>4

\* What an event put into or taken from a queue does to it, in the terms of Handover.
LEMMA AppendHandover ==
    ASSUME NEW q \in Seq(HandlerEvents), NEW e \in HandlerEvents
    PROVE  \A what, c : InQueue(Append(q, e), what, c) <=>
               InQueue(q, what, c) \/ (e.what = what /\ e.conn = c)
  BY InAppend

\* A step that neither changes a socket nor the two sockets in charge.
LEMMA HandoverSame ==
    ASSUME Handover, UNCHANGED <<sockVars, mainQ, handlerQ, conn, current, phase>>
    PROVE  Handover'
  <1>1. \A c \in Conns : Ending(c)'
    BY EndingSame DEF Handover, sockVars
  <1>2. Follows' /\ OldOnly' /\ Born' /\ ClearLast'
    BY DEF Handover, Follows, OldOnly, Born, ClearLast, sockVars
  <1> QED
    BY <1>1, <1>2 DEF Handover

\* A step of a socket: a message or the end of the socket is posted.
LEMMA SocketHandover ==
    ASSUME IInv, Handover, NEW c \in Conns, Socket(c)
    PROVE  Handover'
  <1> DEFINE gone == Entry("gone", c, 0)
             msg == Entry("msg", c, read[c] + 1)
  <1>1. /\ SocketInv /\ SocketStep(c) /\ UNCHANGED <<conn, current, phase>>
        /\ handlerQ \in Seq(HandlerEvents) /\ mainQ \in Seq(Events)
    BY DEF IInv, OwnerTypes, Socket, connectorVars, mainVars
  <1>2. /\ \A d \in Conns : state[d] # "none" => state'[d] # "none"
        /\ handlerQ' = handlerQ \/ handlerQ' = Append(handlerQ, gone)
        /\ mainQ' = mainQ \/ mainQ' = Append(mainQ, msg)
        /\ read[c] + 1 \in Nat
    BY <1>1, SocketStepFrame, Parts
  <1>3. /\ gone \in HandlerEvents /\ gone.what = "gone"
        /\ msg \in Events /\ msg.what = "msg"
    BY <1>2 DEF Entry, HandlerEvents, Events
  <1> HIDE DEF gone, msg
  <1>4. /\ \A d : InQueue(handlerQ', "del", d) <=> InQueue(handlerQ, "del", d)
        /\ \A d : InQueue(handlerQ', "clear", d) <=> InQueue(handlerQ, "clear", d)
    <2>1. CASE handlerQ' = handlerQ
      BY <2>1
    <2>2. CASE handlerQ' = Append(handlerQ, gone)
      BY <1>1, <1>3, <2>2, AppendHandover
    <2> QED
      BY <1>2, <2>1, <2>2
  <1>5. \A d : InQueue(mainQ', "down", d) <=> InQueue(mainQ, "down", d)
    <2>1. CASE mainQ' = mainQ
      BY <2>1
    <2>2. CASE mainQ' = Append(mainQ, msg)
      BY <1>1, <1>3, <2>2, InAppend
    <2> QED
      BY <1>2, <2>1, <2>2
  <1>6. Follows'
    <2>1. CASE mainQ' = mainQ
      BY <1>1, <2>1 DEF Handover, Follows
    <2>2. CASE mainQ' = Append(mainQ, msg)
      BY <1>1, <1>3, <2>2, LeadsAppend DEF Handover, Follows, Tells
    <2> QED
      BY <1>2, <2>1, <2>2
  <1>7. OldOnly' /\ Born' /\ ClearLast'
    BY <1>1, <1>2, <1>4, <1>5 DEF Handover, OldOnly, Born, ClearLast
  <1>8. ASSUME NEW d \in Conns PROVE Ending(d)'
    <2>1. CASE d = c
      BY <1>1, <2>1, EndingStep DEF Handover
    <2>2. CASE d # c
      <3>1. /\ strand'[d] = strand[d] /\ state'[d] = state[d] /\ notify'[d] = notify[d]
            /\ accepted'[d] = accepted[d] /\ posted'[d] = posted[d]
        BY <1>1, <2>2, SocketStepOthers DEF Same
      <3> QED
        BY <1>1, <3>1, EndingSame DEF Handover
    <2> QED
      BY <2>1, <2>2
  <1> QED
    BY <1>6, <1>7, <1>8 DEF Handover

\* An attempt succeeds: the main thread is told, and nobody has heard of the socket.
LEMMA ConnectedHandover ==
    ASSUME IInv, Handover, NEW c \in Conns, Connected(c)
    PROVE  Handover'
  <1> DEFINE up == Entry("up", c, 0)
  <1>1. /\ Construct(c) /\ conn' = c /\ mainQ' = Append(mainQ, up)
        /\ UNCHANGED <<handlerQ, current, phase>>
        /\ SocketInv /\ mainQ \in Seq(Events) /\ AllKnown(mainQ, state)
    BY DEF Connected, mainVars, IInv, OwnerTypes, Known
  <1>2. up \in Events /\ up.what = "up" /\ up.conn = c
    BY DEF Entry, Events
  <1> HIDE DEF up
  <1>3. /\ state[c] = "none" /\ strand[c] = <<>> /\ state'[c] = "open"
        /\ UNCHANGED <<notify, strand, accepted, posted>>
        /\ \A d \in Conns \ {c} : state'[d] = state[d]
    BY <1>1, Parts DEF Construct, SocketInv, SocketTypeOK, SocketOK, Fits
  <1>4. Follows'
    BY <1>1, <1>2, LeadsAppend DEF Handover, Follows, Tells, Given
  <1>5. ~InQueue(mainQ, "down", c) /\ ~InQueue(handlerQ, "del", c)
    BY <1>1, <1>3 DEF AllKnown, InQueue, Handover, Born
  <1>6. OldOnly'
    <2>1. InQueue(Append(mainQ, up), "down", c) <=>
            InQueue(mainQ, "down", c) \/ (up.what = "down" /\ up.conn = c)
      BY <1>1, <1>2, InAppend
    <2>2. ~InQueue(mainQ', "down", c)
      BY <1>1, <1>2, <1>5, <2>1
    <2> QED
      BY <1>1, <1>5, <2>2 DEF OldOnly
  <1>7. Born' /\ ClearLast'
    BY <1>1, <1>3 DEF Handover, Born, ClearLast
  <1>8. Ending(c)'
    BY <1>1, <1>3 DEF Handover, Ending, OnlyWrites, GracefulLast, HasGraceful
  <1>9. ASSUME NEW d \in Conns \ {c} PROVE Ending(d)'
    BY <1>1, <1>3, EndingSame DEF Handover
  <1> QED
    BY <1>4, <1>6, <1>7, <1>8, <1>9 DEF Handover

\* A write, by the ping or by the main thread.
LEMMA WriteHandover ==
    ASSUME IInv, Handover, NEW c \in Conns, Write(c), phase # "closing" \/ conn = c,
           UNCHANGED <<handlerQ, mainQ, conn, current, phase>>
    PROVE  Handover'
  <1>1. \A d \in Conns : Ending(d)'
    BY EndingWrite DEF IInv, Handover
  <1>2. Follows' /\ OldOnly' /\ Born' /\ ClearLast'
    BY DEF Write, Handover, Follows, OldOnly, Born, ClearLast
  <1> QED
    BY <1>1, <1>2 DEF Handover

\* The connector takes a handler from its queue.
LEMMA TakenHandover ==
    ASSUME IInv, handlerQ # <<>>, handlerQ' = Tail(handlerQ)
    PROVE  /\ \A what, c : InQueue(handlerQ', what, c) => InQueue(handlerQ, what, c)
           /\ InQueue(handlerQ, Head(handlerQ).what, Head(handlerQ).conn)
           /\ Head(handlerQ) \in HandlerEvents
  BY InTail DEF IInv, OwnerTypes

\* on_del_socket: while the server runs it is about an old socket.
LEMMA DelHandover ==
    ASSUME IInv, Handover, DelSocket
    PROVE  Handover'
  <1>1. /\ handlerQ # <<>> /\ Head(handlerQ).what = "del" /\ handlerQ' = Tail(handlerQ)
        /\ UNCHANGED <<mainQ, current, phase>>
        /\ SocketInv
    BY DEF DelSocket, Handler, mainVars, IInv
  <1>2. /\ \A what, c : InQueue(handlerQ', what, c) => InQueue(handlerQ, what, c)
        /\ InQueue(handlerQ, "del", Head(handlerQ).conn)
    BY <1>1, TakenHandover
  <1>3. CASE IsCurrent(Head(handlerQ).conn)
    <2>1. CloseAll({conn}, "forced") /\ conn' = NoConn /\ conn # NoConn
      BY <1>3 DEF DelSocket, Lose, IsCurrent
    <2>2. phase # "running"
      BY <1>2, <1>3 DEF Handover, OldOnly, IsCurrent
    <2>3. \A d \in Conns : Ending(d)'
      <3>1. CloseAll({conn} \ {NoConn}, "forced")
        BY <2>1 DEF CloseAll
      <3> QED
        BY <1>1, <2>1, <3>1, EndingClose DEF Handover
    <2>4. Follows' /\ OldOnly' /\ Born' /\ ClearLast'
      BY <1>1, <1>2, <2>1, <2>2 DEF CloseAll, Handover, Follows, OldOnly, Born, ClearLast
    <2> QED
      BY <2>3, <2>4 DEF Handover
  <1>4. CASE ~IsCurrent(Head(handlerQ).conn)
    <2>1. UNCHANGED <<sockVars, conn>>
      BY <1>4 DEF DelSocket, connectorVars
    <2>2. \A d \in Conns : Ending(d)'
      BY <1>1, <2>1, EndingSame DEF Handover, sockVars
    <2>3. Follows' /\ OldOnly' /\ Born' /\ ClearLast'
      BY <1>1, <1>2, <2>1 DEF Handover, Follows, OldOnly, Born, ClearLast, sockVars
    <2> QED
      BY <2>2, <2>3 DEF Handover
  <1> QED
    BY <1>3, <1>4

\* on_socket_close: the main thread is told that it has lost the socket.
LEMMA GoneHandover ==
    ASSUME IInv, Handover, SocketClosed
    PROVE  Handover'
  <1>1. /\ handlerQ # <<>> /\ handlerQ' = Tail(handlerQ)
        /\ UNCHANGED <<sockVars, current, phase>>
        /\ SocketInv /\ mainQ \in Seq(Events)
    BY DEF SocketClosed, Handler, mainVars, IInv, OwnerTypes
  <1>2. \A what, c : InQueue(handlerQ', what, c) => InQueue(handlerQ, what, c)
    BY <1>1, TakenHandover
  <1>3. conn' \in {conn, NoConn}
    BY DEF SocketClosed, Lose, connectorVars
  <1>4. \A d \in Conns : Ending(d)'
    BY <1>1, <1>3, EndingSame, ConnAssumption DEF Handover, sockVars
  <1>5. Follows' /\ OldOnly'
    <2> DEFINE down == Entry("down", conn, 0)
    <2>1. CASE conn # NoConn /\ mainQ' = Append(mainQ, down) /\ Lose
      <3>1. down \in Events /\ down.what = "down" /\ conn' = NoConn
        BY <2>1 DEF Entry, Events, Lose, IInv, OwnerTypes
      <3> HIDE DEF down
      <3> QED
        BY <1>1, <2>1, <3>1, LeadsAppend DEF Handover, Follows, OldOnly, Tells, Given
    <2>2. CASE UNCHANGED <<mainQ, connectorVars>>
      BY <1>1, <1>2, <2>2 DEF Handover, Follows, OldOnly, connectorVars
    <2> QED
      BY <2>1, <2>2 DEF SocketClosed, IsCurrent
  <1>6. Born' /\ ClearLast'
    BY <1>1, <1>2 DEF Handover, Born, ClearLast, sockVars
  <1> QED
    BY <1>4, <1>5, <1>6 DEF Handover

\* stop() and clear(): the server has nothing more to write when clear() runs.
LEMMA ShutHandover ==
    ASSUME IInv, Handover, Stop \/ Clear
    PROVE  Handover'
  <1>1. /\ handlerQ # <<>> /\ handlerQ' = Tail(handlerQ) /\ SocketInv
        /\ UNCHANGED <<mainQ, current, phase>>
    BY DEF Stop, Clear, Handler, mainVars, IInv
  <1>2. \A what, c : InQueue(handlerQ', what, c) => InQueue(handlerQ, what, c)
    BY <1>1, TakenHandover
  <1>3. CASE Stop
    <2>1. UNCHANGED <<sockVars, conn>>
      BY <1>3 DEF Stop
    <2>2. \A d \in Conns : Ending(d)'
      BY <1>1, <2>1, EndingSame DEF Handover, sockVars
    <2>3. Follows' /\ OldOnly' /\ Born' /\ ClearLast'
      BY <1>1, <1>2, <2>1 DEF Handover, Follows, OldOnly, Born, ClearLast, sockVars
    <2> QED
      BY <2>2, <2>3 DEF Handover
  <1>4. CASE Clear
    <2>1. /\ CloseAll({conn} \ {NoConn}, "graceful") /\ conn' = NoConn
          /\ Head(handlerQ).what = "clear"
      BY <1>4 DEF Clear, Handler
    <2>2. Head(handlerQ).conn = NoConn /\ InQueue(handlerQ, "clear", NoConn)
      BY <1>1, <2>1, TakenHandover DEF HandlerEvents
    <2>3. phase = "closing"
      BY <2>2 DEF Handover, ClearLast
    <2>4. \A d \in Conns : Ending(d)'
      BY <1>1, <2>1, <2>3, EndingClose DEF Handover
    <2>5. Follows' /\ OldOnly' /\ Born' /\ ClearLast'
      BY <1>1, <1>2, <2>1, <2>3 DEF CloseAll, Handover, Follows, OldOnly, Born, ClearLast
    <2> QED
      BY <2>4, <2>5 DEF Handover
  <1> QED
    BY <1>3, <1>4

\* The main thread takes an event: what it has afterwards leads where it did before.
LEMMA MainHandleHandover ==
    ASSUME IInv, Handover, MainHandle
    PROVE  Handover'
  <1> DEFINE e == Head(mainQ)
             del == Entry("del", e.conn, 0)
  <1>1. /\ mainQ # <<>> /\ mainQ' = Tail(mainQ) /\ phase = "running" /\ phase' = phase
        /\ current' = (CASE e.what = "up" -> e.conn
                          [] e.what = "down" -> NoConn
                          [] e.what = "msg" -> current)
        /\ handlerQ' = IF e.what = "down" THEN Append(handlerQ, del) ELSE handlerQ
        /\ UNCHANGED <<sockVars, conn>>
    BY DEF MainHandle, connectorVars
  <1>2. /\ mainQ \in Seq(Events) /\ handlerQ \in Seq(HandlerEvents)
        /\ e \in Events /\ state[e.conn] # "none"
    BY <1>1, KnownTail DEF IInv, OwnerTypes, Known
  <1>3. /\ e.what \in {"up", "msg", "down"} /\ e.conn \in Conns
        /\ del \in HandlerEvents /\ del.what = "del" /\ del.conn = e.conn
    BY <1>2, Entries DEF Events, Entry
  <1>4. /\ \A what, c : InQueue(mainQ', what, c) => InQueue(mainQ, what, c)
        /\ InQueue(mainQ, e.what, e.conn)
    BY <1>1, <1>2, InTail
  <1> HIDE DEF e, del
  <1>5. Follows'
    <2>1. Leads(mainQ, current, conn)
      BY <1>1 DEF Handover, Follows
    <2>2. Leads(mainQ', IF Tells(e) THEN Given(e) ELSE current, conn)
      BY <1>1, <1>2, <2>1, LeadsTail DEF e
    <2>3. current' = IF Tells(e) THEN Given(e) ELSE current
      BY <1>1, <1>3 DEF Tells, Given
    <2> QED
      BY <1>1, <2>2, <2>3 DEF Follows
  <1>6. \A what, c : InQueue(handlerQ', what, c) <=>
           InQueue(handlerQ, what, c) \/ (e.what = "down" /\ what = "del" /\ c = e.conn)
    <2>1. CASE e.what = "down"
      BY <1>1, <1>2, <1>3, <2>1, AppendHandover
    <2>2. CASE e.what # "down"
      BY <1>1, <2>2
    <2> QED
      BY <2>1, <2>2
  <1>7. OldOnly'
    BY <1>1, <1>4, <1>6 DEF Handover, OldOnly
  <1>8. Born' /\ ClearLast'
    BY <1>1, <1>2, <1>6 DEF Handover, Born, ClearLast, sockVars
  <1>9. \A d \in Conns : Ending(d)'
    BY <1>1, EndingSame DEF Handover, sockVars
  <1> QED
    BY <1>5, <1>7, <1>8, <1>9 DEF Handover

\* The main thread on its way down.
LEMMA MainPostHandover ==
    ASSUME IInv, Handover, MainClose \/ MainStop \/ MainClear
    PROVE  Handover'
  <1>1. /\ UNCHANGED <<sockVars, mainQ, conn>> /\ phase' # "running"
        /\ phase = "closing" => phase' = "closing"
        /\ handlerQ \in Seq(HandlerEvents)
    BY DEF MainClose, MainStop, MainClear, connectorVars, IInv, OwnerTypes
  <1>2. PICK h \in HandlerEvents :
           /\ handlerQ' = Append(handlerQ, h)
           /\ h.what = "clear" => phase' = "closing"
           /\ h.what = "del" => state[h.conn] # "none"
    <2>1. CASE MainClose
      <3>1. current \in Conns /\ state[current] # "none"
        BY <2>1 DEF MainClose, IInv, OwnerTypes, Known
      <3> QED
        BY <2>1, <3>1 DEF MainClose, Entry, HandlerEvents
    <2>2. CASE MainStop
      BY <2>2 DEF MainStop, Entry, HandlerEvents
    <2>3. CASE MainClear
      BY <2>3 DEF MainClear, Entry, HandlerEvents
    <2> QED
      BY <2>1, <2>2, <2>3
  <1>3. \A what, c : InQueue(handlerQ', what, c) <=>
           InQueue(handlerQ, what, c) \/ (h.what = what /\ h.conn = c)
    BY <1>1, <1>2, AppendHandover
  <1>4. Born' /\ ClearLast'
    BY <1>1, <1>2, <1>3 DEF Handover, Born, ClearLast, sockVars
  <1>5. \A d \in Conns : Ending(d)'
    BY <1>1, EndingSame DEF Handover, sockVars
  <1>6. Follows' /\ OldOnly'
    BY <1>1 DEF Follows, OldOnly
  <1> QED
    BY <1>4, <1>5, <1>6 DEF Handover

\* Every step keeps the second invariant.
LEMMA StepHandover == IInv /\ Handover /\ [Next]_vars => Handover'
  <1> SUFFICES ASSUME IInv, Handover, [Next]_vars PROVE Handover'
    OBVIOUS
  <1>1. CASE AttemptEnds \/ Refused \/ Aborted \/ TimerExpire \/ ReconnectTimeout \/ UNCHANGED vars
    <2>1. UNCHANGED <<sockVars, mainQ, handlerQ, conn, current, phase>>
      BY <1>1 DEF AttemptEnds, Refused, Aborted, TimerExpire, ReconnectTimeout, vars, mainVars
    <2> QED
      BY <2>1, HandoverSame
  <1>2. CASE \E c \in Conns : Connected(c)
    BY <1>2, ConnectedHandover
  <1>3. CASE PingTimeout
    <2>1. UNCHANGED <<handlerQ, mainQ, conn, current, phase>>
      BY <1>3 DEF PingTimeout, mainVars
    <2>2. CASE UNCHANGED sockVars
      BY <2>1, <2>2, HandoverSame
    <2>3. CASE conn # NoConn /\ Write(conn)
      BY <2>1, <2>3, WriteHandover DEF IInv, OwnerTypes
    <2> QED
      BY <1>3, <2>2, <2>3 DEF PingTimeout, sockVars
  <1>4. CASE Posted
    BY <1>4, DelHandover, GoneHandover, ShutHandover DEF Posted
  <1>5. CASE MainWrite
    <2>1. /\ phase # "closing" /\ current \in Conns /\ Write(current)
          /\ UNCHANGED <<handlerQ, mainQ, conn, current, phase>>
      BY <1>5 DEF MainWrite, connectorVars, mainVars, IInv, OwnerTypes
    <2> QED
      BY <2>1, WriteHandover
  <1>6. CASE MainHandle \/ MainClose \/ MainStop \/ MainClear
    BY <1>6, MainHandleHandover, MainPostHandover
  <1>7. CASE \E c \in Conns : Socket(c)
    BY <1>7, SocketHandover
  <1> QED
    BY <1>1, <1>2, <1>3, <1>4, <1>5, <1>6, <1>7 DEF Next, Connecting, Timeouts, Main

\* The initial state.
LEMMA InitHandover == Init => Handover
  <1> SUFFICES ASSUME Init PROVE Handover
    OBVIOUS
  <1>1. Follows /\ OldOnly /\ Born /\ ClearLast
    BY DEF Init, Follows, OldOnly, Born, ClearLast, Leads, InQueue
  <1>2. ASSUME NEW c \in Conns PROVE Ending(c)
    BY DEF Init, SocketInit, Ending, OnlyWrites, GracefulLast, HasGraceful
  <1> QED
    BY <1>1, <1>2 DEF Handover

----------------------------------------------------------------------------
(* The theorems.                                                           *)

\* The inductive invariant holds in every behaviour of network/connector.cpp.
THEOREM ConnectorInductive == Spec => []IInv
  BY InitInv, StepInv, PTL DEF Spec

\* Type correctness of connector.hpp and of the sockets it owns.
THEOREM ConnectorTypes == Spec => []TypeOK
  <1>1. IInv => TypeOK
    BY DEF IInv, OwnerTypes, TypeOK, SocketInv
  <1> QED
    BY <1>1, ConnectorInductive, PTL

\* tcp_socket_t's double buffering hands the buffers of any number of write()
\* calls to TCP one by one and in the order of the calls, on every connection of
\* a connector.
THEOREM ConnectorWireInOrder == Spec => []WireInOrder
  <1>1. IInv => WireInOrder
    BY SocketInvMeans DEF IInv
  <1> QED
    BY <1>1, ConnectorInductive, PTL

\* No buffer is left lying in a socket of a connector that is not writing.
THEOREM ConnectorNothingHeldBack == Spec => []NothingHeldBack
  <1>1. IInv => NothingHeldBack
    BY SocketInvMeans DEF IInv
  <1> QED
    BY <1>1, ConnectorInductive, PTL

\* Whatever timers run out late and whatever was cancelled too late, connector_t
\* never uses m_new_socket for two attempts, nor attempts while it is connected.
THEOREM ConnectorOneAttempt == Spec => []OneAttempt
  <1>1. IInv => OneAttempt
    BY DEF IInv
  <1> QED
    BY <1>1, ConnectorInductive, PTL

\* connector_t never gives up before stop() and never ceases to ping.
THEOREM ConnectorKeepsTrying == Spec => []KeepsTrying
  <1>1. IInv => KeepsTrying
    BY DEF IInv
  <1> QED
    BY <1>1, ConnectorInductive, PTL

\* Who has which socket, and which of them are told to close, in every behaviour.
THEOREM ConnectorHandover == Spec => []Handover
  BY InitHandover, StepHandover, ConnectorInductive, PTL DEF Spec

\* A server that acts on "up" and "down" of sockets that may be old ones ends up
\* with the socket that connector_t has, once it has handled its queue.
THEOREM ConnectorMainCatchesUp == Spec => []MainCatchesUp
  <1>1. Handover => MainCatchesUp
    BY DEF Handover, Follows, Leads, Tells, MainCatchesUp
  <1> QED
    BY <1>1, ConnectorHandover, PTL

\* connector_t never keeps a socket that it or the server told to close.
THEOREM ConnectorNotCutOff == Spec => []NotCutOff
  <1>1. IInv /\ Handover => NotCutOff
    BY DEF IInv, OwnerTypes, Handover, Ending, OnlyWrites, NotCutOff
  <1> QED
    BY <1>1, ConnectorInductive, ConnectorHandover, PTL

\* A socket begins to shut down only when it has accepted and sent all that was
\* written to it: a close that ends a strand comes after every write().
LEMMA FlushStep ==
    ASSUME IInv, Handover, Next, NEW c \in Conns,
           LET finished == state[c] # "shutdown_write" /\ state'[c] = "shutdown_write"
               closed == state[c] = "open" /\ state'[c] = "closed" IN
           finished \/ (closed /\ Next1(c, "graceful") /\ ~notify'[c])
    PROVE  Len(wire[c]) = posted[c]
  <1>1. /\ SocketInv /\ Ending(c) /\ SocketOK(c)
        /\ state \in [Conns -> SocketStates] /\ notify \in [Conns -> BOOLEAN]
        /\ out \in [Conns -> Outs] /\ out[c] \in Outs /\ wire[c] \in Buffers
        /\ accepted[c] \in Nat /\ posted[c] \in Nat /\ strand[c] \in Seq(Requests)
    BY DEF IInv, SocketInv, SocketTypeOK, Handover
  <1>2. state'[c] # state[c] /\ state'[c] # "open"
    OBVIOUS
  <1>3. SocketStep(c)
    <2>1. PICK d \in Conns : Connected(d) \/ Socket(d)
      <3>1. UNCHANGED state \/ \E d \in Conns : Connected(d) \/ Socket(d)
        BY DEF Next, AttemptEnds, Connecting, Refused, Aborted, TimerExpire, Timeouts,
               ReconnectTimeout, PingTimeout, Posted, DelSocket, SocketClosed, Stop, Clear,
               Main, MainHandle, MainClose, MainWrite, MainStop, MainClear,
               Write, CloseAll, sockVars
      <3> QED
        BY <1>2, <3>1
    <2>2. ~Connected(d)
      BY <1>1, <1>2 DEF Connected, Construct
    <2>3. SocketStep(d)
      BY <2>1, <2>2 DEF Socket
    <2>4. c = d
      BY <1>1, <1>2, <2>3, SocketStepOthers DEF Same
    <2> QED
      BY <2>3, <2>4
  <1>4. CASE CloseGraceful(c)
    <2>1. state[c] = "open" /\ state'[c] = "closed" /\ ~out[c].pending
      BY <1>1, <1>2, <1>4 DEF CloseGraceful
    <2>2. strand[c] # <<>> /\ Head(strand[c]).op = "graceful"
      BY <1>4 DEF CloseGraceful, Next1
    <2>3. Chain(strand[c], accepted[c], posted[c])
      BY <1>1, <2>1 DEF SocketOK, Fits
    <2>4. Head(strand[c]).n = accepted[c]
      BY <1>1, <2>2, <2>3, ChainTail DEF Adds
    <2>5. Len(strand[c]) = 1
      BY <1>1, <2>2, StrandTail DEF Ending
    <2>6. posted[c] = strand[c][Len(strand[c])].n /\ Head(strand[c]) = strand[c][1]
      BY <1>1, <2>2, <2>3 DEF Chain
    <2>7. Len(wire[c]) = accepted[c]
      BY <1>1, <2>1 DEF SocketOK, Fits, OutFits
    <2> QED
      BY <2>4, <2>5, <2>6, <2>7
  <1>5. CASE WriteDone(c)
    <2>1. /\ state[c] = "shutdown_writing" /\ ~Written(out[c]).pending
          /\ out[c].pending /\ out[c].left = <<>>
      BY <1>1, <1>2, <1>5 DEF WriteDone
    <2>2. accepted[c] = posted[c]
      BY <1>1, <2>1 DEF Ending
    <2>3. OutFits(Written(out[c]), wire[c], accepted[c])
      BY <1>1, <2>1, WrittenFits DEF SocketOK, Fits
    <2> QED
      BY <2>1, <2>2, <2>3 DEF OutFits
  <1>6. CASE ~CloseGraceful(c) /\ ~WriteDone(c)
    <2>1. /\ state'[c] = "closed"
          /\ UNCHANGED notify \/ CloseForced(c)
      BY <1>1, <1>2, <1>3, <1>6
         DEF SocketStep, StrandStep, WriteProgress, WriteHandler, CloseForced, SendSome,
             WriteError, ReadMsg, ReadError, DoClose
    <2>2. state[c] = "open" /\ Next1(c, "graceful") /\ ~notify'[c]
      BY <2>1
    <2>3. notify[c]
      BY <1>1, <2>2 DEF Ending
    <2>4. ~CloseForced(c)
      BY <2>2 DEF CloseForced, Next1
    <2> QED
      BY <2>1, <2>2, <2>3, <2>4
  <1> QED
    BY <1>4, <1>5, <1>6

\* Whatever the threads do on the way to shutdown, what the main thread wrote
\* before network_t::close is handed to TCP before the connection is closed.
THEOREM ConnectorClearFlushes == Spec => ClearFlushes
  <1> DEFINE Flushed ==
        \A c \in Conns :
          LET finished == state[c] # "shutdown_write" /\ state'[c] = "shutdown_write"
              closed == state[c] = "open" /\ state'[c] = "closed" IN
          finished \/ (closed /\ Next1(c, "graceful") /\ ~notify'[c])
              => Len(wire[c]) = posted[c]
  <1>1. IInv /\ Handover /\ [Next]_vars => [Flushed]_vars
    BY FlushStep
  <1>2. Spec => [][Flushed]_vars
    BY <1>1, ConnectorInductive, ConnectorHandover, PTL DEF Spec
  <1> QED
    BY <1>2 DEF ClearFlushes
=============================================================================
