---------------------------- MODULE Acceptor_proofs ----------------------------
(***************************************************************************)
(* What holds of network/acceptor.cpp for any number of connections: no    *)
(* socket is forgotten open, and a server that holds a closed connection   *)
(* is going to be told.                                                    *)
(***************************************************************************)
EXTENDS Acceptor, TcpSocket_proofs

----------------------------------------------------------------------------
(* The inductive invariant.                                                *)

\* The types of what is not a socket's. (The history seen is not needed.)
OwnerTypes ==
    /\ handlerQ \in Seq(HandlerEvents)
    /\ mainQ \in Seq(Events)
    /\ list \subseteq Conns
    /\ held \subseteq Conns

HasOp(s, op) == \E i \in 1..Len(s) : s[i].op = op

\* No event of a connection comes before the one that says it is up.
UpFirst(q) ==
    \A i \in 1..Len(q) : q[i].what = "up" => \A j \in 1..(i - 1) : q[j].conn # q[i].conn

\* The main thread has dropped c, and will not add it (again).
Dropped(c) == c \notin held /\ ~InQueue(mainQ, "up", c)

\* Nobody knows a socket that was not constructed.
Unborn(c) ==
    state[c] = "none" =>
        c \notin list /\ c \notin held /\ ~Mentions(mainQ, c) /\ ~Mentions(handlerQ, c)

\* The acceptor only closes by force, so only a closed socket keeps silent.
Forced(c) ==
    /\ ~HasOp(strand[c], "graceful")
    /\ ~notify[c] => state[c] = "closed"
    /\ InQueue(handlerQ, "gone", c) => state[c] = "closed"

\* A socket out of the list is closed or told to close.
Listed(c) == Alive(c) /\ c \notin list => HasOp(strand[c], "forced")

AddedOnce(c) == c \in held => ~InQueue(mainQ, "up", c)

\* As long as the server runs, it was told, will be told, or does not care: of a
\* socket told to close, of one out of the list, of one that closed.
Told(c) ==
    /\ HasOp(strand[c], "forced") \/ InQueue(handlerQ, "del", c) => Dropped(c)
    /\ c \notin list /\ state[c] # "none" => Dropped(c) \/ InQueue(mainQ, "down", c)
    /\ state[c] = "closed" =>
          Dropped(c) \/ InQueue(handlerQ, "gone", c) \/ InQueue(mainQ, "down", c)

ConnOK(c) ==
    /\ Unborn(c)
    /\ Forced(c)
    /\ Listed(c)
    /\ AddedOnce(c)
    /\ phase = "running" => Told(c)

IInv ==
    /\ SocketInv
    /\ OwnerTypes
    /\ UpFirst(mainQ)
    /\ phase = "running" => ~InQueue(handlerQ, "clear", NoConn)
    /\ \A c \in Conns : ConnOK(c)

----------------------------------------------------------------------------
(* The queues.                                                             *)

\* What an appended request adds to a strand.
LEMMA OpAppend ==
    ASSUME NEW s \in Seq(Requests), NEW r \in Requests
    PROVE  \A op : HasOp(Append(s, r), op) <=> HasOp(s, op) \/ r.op = op
  <1> DEFINE t == Append(s, r)
  <1>1. /\ Len(t) = Len(s) + 1 /\ Len(s) \in Nat /\ t[Len(s) + 1] = r
        /\ \A i \in 1..Len(s) : t[i] = s[i]
    OBVIOUS
  <1> HIDE DEF t
  <1>2. \A i \in 1..Len(t) : i \in 1..Len(s) \/ i = Len(s) + 1
    BY <1>1
  <1>3. \A i \in 1..Len(s) : i \in 1..Len(t)
    BY <1>1
  <1>4. Len(s) + 1 \in 1..Len(t)
    BY <1>1
  <1> QED
    BY <1>1, <1>2, <1>3, <1>4, ZenonT(60) DEF HasOp, t

\* What the first request of a strand has to do with it.
LEMMA OpTail ==
    ASSUME NEW s \in Seq(Requests), s # <<>>
    PROVE  \A op : HasOp(s, op) <=> HasOp(Tail(s), op) \/ Head(s).op = op
  <1> DEFINE t == Tail(s)
  <1>1. /\ Len(t) = Len(s) - 1 /\ Len(s) \in Nat /\ Len(s) # 0 /\ Head(s) = s[1]
        /\ \A i \in 1..Len(t) : t[i] = s[i + 1]
    OBVIOUS
  <1> HIDE DEF t
  <1>2. \A i \in 1..Len(s) : i = 1 \/ (i - 1 \in 1..Len(t) /\ t[i - 1] = s[i])
    BY <1>1
  <1>3. \A i \in 1..Len(t) : i + 1 \in 1..Len(s)
    BY <1>1
  <1>4. 1 \in 1..Len(s)
    BY <1>1
  <1> QED
    BY <1>1, <1>2, <1>3, <1>4, ZenonT(60) DEF HasOp, t

\* An event appended to the queue of the main thread.
LEMMA UpAppend ==
    ASSUME NEW q \in Seq(Events), NEW e \in Events, UpFirst(q),
           e.what = "up" => ~Mentions(q, e.conn)
    PROVE  UpFirst(Append(q, e))
  <1> DEFINE t == Append(q, e)
  <1>1. /\ Len(t) = Len(q) + 1 /\ Len(q) \in Nat /\ t[Len(q) + 1] = e
        /\ \A i \in 1..Len(q) : t[i] = q[i]
    OBVIOUS
  <1> HIDE DEF t
  <1>2. ASSUME NEW i \in 1..Len(t), t[i].what = "up", NEW j \in 1..(i - 1)
        PROVE  t[j].conn # t[i].conn
    <2>1. CASE i \in 1..Len(q)
      BY <1>1, <1>2, <2>1 DEF UpFirst
    <2>2. CASE i = Len(q) + 1
      BY <1>1, <1>2, <2>2 DEF Mentions
    <2> QED
      BY <1>1, <2>1, <2>2
  <1> QED
    BY <1>2 DEF UpFirst, t

\* No event that follows another one of its connection says that it is up.
LEMMA UpTail ==
    ASSUME NEW q \in Seq(Events), UpFirst(q), q # <<>>
    PROVE  UpFirst(Tail(q)) /\ ~InQueue(Tail(q), "up", Head(q).conn)
  <1> DEFINE t == Tail(q)
  <1>1. /\ Len(t) = Len(q) - 1 /\ Len(q) \in Nat /\ Len(q) # 0 /\ Head(q) = q[1]
        /\ \A i \in 1..Len(t) : t[i] = q[i + 1]
    OBVIOUS
  <1> HIDE DEF t
  <1>2. ASSUME NEW i \in 1..Len(t), t[i].what = "up"
        PROVE  /\ \A j \in 1..(i - 1) : t[j].conn # t[i].conn
               /\ t[i].conn # Head(q).conn
    <2>1. i + 1 \in 1..Len(q) /\ q[i + 1].what = "up" /\ q[i + 1] = t[i]
      BY <1>1, <1>2
    <2>2. \A j \in 1..i : q[j].conn # q[i + 1].conn
      BY <2>1 DEF UpFirst
    <2>3. 1 \in 1..i
      OBVIOUS
    <2>4. \A j \in 1..(i - 1) : j + 1 \in 1..i /\ t[j] = q[j + 1]
      BY <1>1
    <2> QED
      BY <1>1, <2>1, <2>2, <2>3, <2>4
  <1> QED
    BY <1>2 DEF UpFirst, InQueue, t

----------------------------------------------------------------------------
(* The steps.                                                              *)

\* Queues q and r have the same events of d.
Agree(q, r, d) ==
    /\ \A what : InQueue(r, what, d) <=> InQueue(q, what, d)
    /\ Mentions(r, d) <=> Mentions(q, d)

\* The step does nothing about d.
Like(d) ==
    /\ state'[d] = state[d] /\ notify'[d] = notify[d] /\ strand'[d] = strand[d]
    /\ d \in list' <=> d \in list
    /\ d \in held' <=> d \in held
    /\ Agree(mainQ, mainQ', d)
    /\ Agree(handlerQ, handlerQ', d)

\* A connection the step does nothing about.
LEMMA LikeKeeps ==
    ASSUME NEW d \in Conns, ConnOK(d), Like(d), phase' = "running" => phase = "running"
    PROVE  ConnOK(d)'
  <1>1. Unborn(d)' /\ Forced(d)' /\ Listed(d)' /\ AddedOnce(d)'
    BY Zenon DEF ConnOK, Like, Agree, Unborn, Forced, Listed, AddedOnce, Alive
  <1>2. Told(d) => Told(d)'
    BY Zenon DEF Like, Agree, Told, Dropped
  <1> QED
    BY <1>1, <1>2 DEF ConnOK

\* A queue that is left alone, or that an event of another connection is put into.
LEMMA AgreeSame == \A q, d : Agree(q, q, d)
  BY DEF Agree

\* An event of c says nothing of d.
LEMMA AgreeAppend ==
    ASSUME NEW S, NEW q \in Seq(S), NEW e \in S, NEW d, e.conn # d
    PROVE  Agree(q, Append(q, e), d)
  BY InAppend DEF Agree

\* Taking an event of c says nothing of d.
LEMMA AgreeTail ==
    ASSUME NEW S, NEW q \in Seq(S), q # <<>>, NEW d, Head(q).conn # d
    PROVE  Agree(q, Tail(q), d)
  BY InTail DEF Agree

\* What is posted.
LEMMA Entries ==
    ASSUME NEW c \in Conns, NEW n \in Nat
    PROVE  /\ \A what \in {"gone", "del"} :
                 /\ Entry(what, c, 0) \in HandlerEvents
                 /\ Entry(what, c, 0).what = what /\ Entry(what, c, 0).conn = c
           /\ \A what \in {"up", "msg", "down"} :
                 /\ Entry(what, c, n) \in Events
                 /\ Entry(what, c, n).what = what /\ Entry(what, c, n).conn = c
  BY DEF Entry, HandlerEvents, Events

\* What is posted to shut the port down.
LEMMA ShutEntries ==
    \A what \in {"stop", "clear"} :
        /\ Entry(what, NoConn, 0) \in HandlerEvents
        /\ Entry(what, NoConn, 0).what = what /\ Entry(what, NoConn, 0).conn = NoConn
  BY DEF Entry, HandlerEvents

\* The initial state.
LEMMA InitInv == Init => IInv
  <1> SUFFICES ASSUME Init PROVE IInv
    OBVIOUS
  <1>1. SocketInv
    BY SocketInitInv DEF Init
  <1>2. OwnerTypes /\ UpFirst(mainQ) /\ ~InQueue(handlerQ, "clear", NoConn)
    BY DEF Init, OwnerTypes, UpFirst, InQueue
  <1>3. ASSUME NEW c \in Conns PROVE ConnOK(c)
    BY DEF Init, SocketInit, ConnOK, Unborn, Forced, Listed, AddedOnce, Told, Dropped,
           Alive, HasOp, InQueue, Mentions
  <1> QED
    BY <1>1, <1>2, <1>3 DEF IInv

\* What a step of a socket does to its life and its strand, and what it posts, when
\* no graceful close is among its requests.
LEMMA SocketEffect ==
    ASSUME SocketInv, NEW c \in Conns, SocketStep(c), ~HasOp(strand[c], "graceful")
    PROVE  /\ \A d \in Conns \ {c} : /\ state'[d] = state[d] /\ notify'[d] = notify[d]
                                     /\ strand'[d] = strand[d]
           /\ state'[c] # "none"
           /\ \A op : HasOp(strand'[c], op) => HasOp(strand[c], op)
           /\ HasOp(strand[c], "forced") =>
                  HasOp(strand'[c], "forced") \/ state'[c] = "closed"
           /\ state[c] = "closed" => state'[c] = "closed"
           /\ ~notify'[c] => ~notify[c] \/ state'[c] = "closed"
           /\ \/ /\ handlerQ' = handlerQ
                 /\ state'[c] = "closed" =>
                        state[c] = "closed" \/ ~notify[c] \/ HasOp(strand[c], "forced")
              \/ handlerQ' = Append(handlerQ, Entry("gone", c, 0)) /\ state'[c] = "closed"
  <1>1. /\ state \in [Conns -> SocketStates] /\ notify \in [Conns -> BOOLEAN]
        /\ strand[c] \in Seq(Requests)
    BY DEF SocketInv, SocketTypeOK
  <1>2. CASE StrandStep(c)
    <2>1. strand[c] # <<>> /\ Pop(c) /\ handlerQ' = handlerQ
      BY <1>2 DEF StrandStep, WriteHandler, CloseForced, CloseGraceful, Next1
    <2>2. /\ strand'[c] = Tail(strand[c]) /\ state[c] # "none"
          /\ \A d \in Conns \ {c} : strand'[d] = strand[d]
      BY <2>1, PopOne
    <2>3. \A op : HasOp(strand[c], op) <=> HasOp(strand'[c], op) \/ Head(strand[c]).op = op
      BY <1>1, <2>1, <2>2, OpTail
    <2>4. CASE WriteHandler(c)
      BY <1>1, <2>1, <2>2, <2>3, <2>4 DEF WriteHandler, Next1
    <2>5. CASE CloseForced(c)
      BY <1>1, <2>1, <2>2, <2>3, <2>5 DEF CloseForced, Next1
    <2>6. CASE CloseGraceful(c)
      BY <2>3, <2>6 DEF CloseGraceful, Next1
    <2> QED
      BY <1>2, <2>4, <2>5, <2>6 DEF StrandStep
  <1>3. CASE SendSome(c)
    BY <1>1, <1>3 DEF SendSome, Alive
  <1>4. CASE WriteDone(c)
    BY <1>1, <1>4 DEF WriteDone, Alive
  <1>5. CASE WriteError(c) \/ ReadError(c)
    BY <1>1, <1>5 DEF WriteError, ReadError, DoClose, Alive
  <1>6. CASE ReadMsg(c)
    BY <1>1, <1>6 DEF ReadMsg
  <1> QED
    BY <1>2, <1>3, <1>4, <1>5, <1>6 DEF SocketStep, WriteProgress

\* A step of a socket.
LEMMA SocketKeeps ==
    ASSUME IInv, NEW c \in Conns, Socket(c)
    PROVE  IInv'
  <1> DEFINE gone == Entry("gone", c, 0)
             msg == Entry("msg", c, read[c] + 1)
  <1>1. SocketInv /\ SocketStep(c) /\ UNCHANGED <<listening, list, held, seen, phase>>
    BY DEF IInv, Socket, acceptorVars, mainVars
  <1>2. SocketInv' /\ read[c] + 1 \in Nat
    BY <1>1, SocketStepInv, Parts
  <1>3. handlerQ \in Seq(HandlerEvents) /\ mainQ \in Seq(Events) /\ UpFirst(mainQ) /\ ConnOK(c)
    BY DEF IInv, OwnerTypes
  <1>4. /\ gone \in HandlerEvents /\ gone.what = "gone" /\ gone.conn = c
        /\ msg \in Events /\ msg.what = "msg" /\ msg.conn = c
    BY <1>2, Entries
  <1>5. /\ handlerQ' = handlerQ \/ handlerQ' = Append(handlerQ, gone)
        /\ mainQ' = mainQ \/ mainQ' = Append(mainQ, msg)
        /\ state[c] # "none"
    BY <1>1, SocketStepFrame
  <1>6. /\ \A d \in Conns \ {c} : /\ state'[d] = state[d] /\ notify'[d] = notify[d]
                                  /\ strand'[d] = strand[d]
        /\ state'[c] # "none"
        /\ \A op : HasOp(strand'[c], op) => HasOp(strand[c], op)
        /\ HasOp(strand[c], "forced") => HasOp(strand'[c], "forced") \/ state'[c] = "closed"
        /\ state[c] = "closed" => state'[c] = "closed"
        /\ ~notify'[c] => ~notify[c] \/ state'[c] = "closed"
        /\ \/ /\ handlerQ' = handlerQ
              /\ state'[c] = "closed" =>
                     state[c] = "closed" \/ ~notify[c] \/ HasOp(strand[c], "forced")
           \/ handlerQ' = Append(handlerQ, gone) /\ state'[c] = "closed"
    BY <1>1, <1>3, SocketEffect DEF ConnOK, Forced
  <1> HIDE DEF gone, msg
  <1>7. OwnerTypes' /\ UpFirst(mainQ')
    <2>1. Append(mainQ, msg) \in Seq(Events) /\ Append(handlerQ, gone) \in Seq(HandlerEvents)
      BY <1>3, <1>4
    <2>2. UpFirst(Append(mainQ, msg))
      BY <1>3, <1>4, UpAppend
    <2>3. mainQ' \in Seq(Events) /\ handlerQ' \in Seq(HandlerEvents) /\ UpFirst(mainQ')
      BY <1>3, <1>5, <2>1, <2>2
    <2> QED
      BY <1>1, <2>3 DEF IInv, OwnerTypes
  <1>8. /\ \A what, d : InQueue(handlerQ', what, d) <=>
              \/ InQueue(handlerQ, what, d)
              \/ handlerQ' = Append(handlerQ, gone) /\ what = "gone" /\ d = c
        /\ \A what, d : InQueue(mainQ', what, d) <=>
              \/ InQueue(mainQ, what, d)
              \/ mainQ' = Append(mainQ, msg) /\ what = "msg" /\ d = c
    <2>1. \A what, d : InQueue(Append(handlerQ, gone), what, d) <=>
             InQueue(handlerQ, what, d) \/ (what = "gone" /\ d = c)
      BY <1>3, <1>4, InAppend
    <2>2. \A what, d : InQueue(Append(mainQ, msg), what, d) <=>
             InQueue(mainQ, what, d) \/ (what = "msg" /\ d = c)
      BY <1>3, <1>4, InAppend
    <2>3. /\ handlerQ' = handlerQ \/ handlerQ' = Append(handlerQ, gone)
          /\ mainQ' = mainQ \/ mainQ' = Append(mainQ, msg)
      BY <1>5
    <2>4. \A what, d : InQueue(handlerQ', what, d) <=>
             \/ InQueue(handlerQ, what, d)
             \/ handlerQ' = Append(handlerQ, gone) /\ what = "gone" /\ d = c
      <3>1. CASE handlerQ' = Append(handlerQ, gone)
        BY <2>1, <3>1
      <3>2. CASE handlerQ' # Append(handlerQ, gone)
        BY <2>3, <3>2
      <3> QED
        BY <3>1, <3>2
    <2>5. \A what, d : InQueue(mainQ', what, d) <=>
             \/ InQueue(mainQ, what, d)
             \/ mainQ' = Append(mainQ, msg) /\ what = "msg" /\ d = c
      <3>1. CASE mainQ' = Append(mainQ, msg)
        BY <2>2, <3>1
      <3>2. CASE mainQ' # Append(mainQ, msg)
        BY <2>3, <3>2
      <3> QED
        BY <3>1, <3>2
    <2> QED
      BY <2>4, <2>5
  <1>9. ASSUME NEW d \in Conns \ {c} PROVE ConnOK(d)'
    <2>1. Agree(mainQ, mainQ', d) /\ Agree(handlerQ, handlerQ', d)
      BY <1>3, <1>4, <1>5, AgreeSame, AgreeAppend
    <2> QED
      BY <1>1, <1>6, <2>1, LikeKeeps DEF IInv, Like
  <1>10. /\ \A what \in {"up", "down"} : InQueue(mainQ', what, c) <=> InQueue(mainQ, what, c)
         /\ InQueue(handlerQ, "gone", c) => InQueue(handlerQ', "gone", c)
         /\ InQueue(handlerQ', "del", c) => InQueue(handlerQ, "del", c)
         /\ InQueue(handlerQ', "gone", c) =>
               InQueue(handlerQ, "gone", c) \/ state'[c] = "closed"
         /\ handlerQ' = Append(handlerQ, gone) => InQueue(handlerQ', "gone", c)
    <2>1. \A what \in {"up", "down"} : InQueue(mainQ', what, c) <=> InQueue(mainQ, what, c)
      BY <1>8
    <2>2. /\ InQueue(handlerQ, "gone", c) => InQueue(handlerQ', "gone", c)
          /\ InQueue(handlerQ', "del", c) => InQueue(handlerQ, "del", c)
          /\ handlerQ' = Append(handlerQ, gone) => InQueue(handlerQ', "gone", c)
      BY <1>8
    <2>3. InQueue(handlerQ', "gone", c) => InQueue(handlerQ, "gone", c) \/ state'[c] = "closed"
      BY <1>6
    <2> QED
      BY <2>1, <2>2, <2>3
  <1>11. Unborn(c)' /\ Forced(c)' /\ Listed(c)' /\ AddedOnce(c)'
    BY <1>1, <1>3, <1>5, <1>6, <1>10
       DEF ConnOK, Unborn, Forced, Listed, AddedOnce, Alive
  <1>12. phase' = "running" => Told(c)'
    <2> SUFFICES ASSUME phase' = "running" PROVE Told(c)'
      OBVIOUS
    <2>1. Told(c) /\ Forced(c) /\ Dropped(c)' = Dropped(c)
      BY <1>1, <1>3, <1>10 DEF ConnOK, Dropped
    <2> QED
      BY <1>1, <1>5, <1>6, <1>10, <2>1 DEF Told, Forced
  <1>13. ConnOK(c)'
    BY <1>11, <1>12 DEF ConnOK
  <1>14. phase' = "running" => ~InQueue(handlerQ', "clear", NoConn)
    BY <1>1, <1>8, ConnAssumption DEF IInv
  <1> QED
    BY <1>2, <1>7, <1>9, <1>13, <1>14 DEF IInv

\* A client is accepted: nobody has heard of the connection yet.
LEMMA AcceptKeeps ==
    ASSUME IInv, NEW c \in Conns, Accept(c)
    PROVE  IInv'
  <1> DEFINE up == Entry("up", c, 0)
  <1>1. /\ Construct(c) /\ list' = list \cup {c} /\ mainQ' = Append(mainQ, up)
        /\ UNCHANGED <<handlerQ, held, phase>>
    BY DEF Accept, mainVars
  <1>2. SocketInv'
    BY <1>1, ConstructInv DEF IInv
  <1>3. /\ state[c] = "none" /\ strand[c] = <<>> /\ state'[c] = "open"
        /\ UNCHANGED <<notify, strand>> /\ \A d \in Conns \ {c} : state'[d] = state[d]
    BY <1>1, Parts DEF IInv, SocketInv, SocketTypeOK, SocketOK, Fits, Construct
  <1>4. /\ handlerQ \in Seq(HandlerEvents) /\ mainQ \in Seq(Events) /\ UpFirst(mainQ)
        /\ ConnOK(c) /\ ~Mentions(mainQ, c) /\ ~Mentions(handlerQ, c) /\ c \notin held
    BY <1>3 DEF IInv, OwnerTypes, ConnOK, Unborn
  <1>5. up \in Events /\ up.what = "up" /\ up.conn = c
    BY Entries
  <1> HIDE DEF up
  <1>6. OwnerTypes' /\ UpFirst(mainQ')
    BY <1>1, <1>4, <1>5, UpAppend DEF IInv, OwnerTypes
  <1>7. ASSUME NEW d \in Conns \ {c} PROVE ConnOK(d)'
    <2>1. Agree(mainQ, mainQ', d) /\ Agree(handlerQ, handlerQ', d)
      BY <1>1, <1>4, <1>5, AgreeSame, AgreeAppend
    <2> QED
      BY <1>1, <1>3, <2>1, LikeKeeps DEF IInv, Like
  <1>8. \A what : ~InQueue(handlerQ, what, c)
    BY <1>4 DEF Mentions, InQueue
  <1>9. \A op : ~HasOp(strand'[c], op)
    BY <1>3 DEF HasOp
  <1>10. ConnOK(c)'
    BY <1>1, <1>3, <1>4, <1>8, <1>9
       DEF ConnOK, Unborn, Forced, Listed, AddedOnce, Told, Alive
  <1> QED
    BY <1>1, <1>2, <1>6, <1>7, <1>10 DEF IInv

\* The acceptor takes a handler from its queue.
LEMMA Taken ==
    ASSUME IInv, handlerQ # <<>>, handlerQ' = Tail(handlerQ), phase' = phase
    PROVE  /\ Head(handlerQ) \in HandlerEvents /\ handlerQ' \in Seq(HandlerEvents)
           /\ \A d : d # Head(handlerQ).conn => Agree(handlerQ, handlerQ', d)
           /\ \A what, d : InQueue(handlerQ, what, d) <=>
                  InQueue(handlerQ', what, d)
                      \/ (Head(handlerQ).what = what /\ Head(handlerQ).conn = d)
           /\ \A d : Mentions(handlerQ', d) => Mentions(handlerQ, d)
           /\ Mentions(handlerQ, Head(handlerQ).conn)
           /\ phase' = "running" => ~InQueue(handlerQ', "clear", NoConn)
  <1>1. handlerQ \in Seq(HandlerEvents)
    BY DEF IInv, OwnerTypes
  <1>2. /\ Head(handlerQ) \in HandlerEvents /\ handlerQ' \in Seq(HandlerEvents)
        /\ \A what, d : InQueue(handlerQ, what, d) <=>
               InQueue(handlerQ', what, d)
                   \/ (Head(handlerQ).what = what /\ Head(handlerQ).conn = d)
        /\ \A d : Mentions(handlerQ, d) <=> Mentions(handlerQ', d) \/ Head(handlerQ).conn = d
    BY <1>1, InTail
  <1>3. \A d : d # Head(handlerQ).conn => Agree(handlerQ, handlerQ', d)
    BY <1>2 DEF Agree
  <1> QED
    BY <1>2, <1>3 DEF IInv

\* on_del_socket: only a connection the server has dropped is closed.
LEMMA DelSocketKeeps ==
    ASSUME IInv, DelSocket
    PROVE  IInv'
  <1>1. /\ handlerQ # <<>> /\ Head(handlerQ).what = "del" /\ handlerQ' = Tail(handlerQ)
        /\ UNCHANGED <<mainQ, held, phase>>
    BY DEF DelSocket, Handler, mainVars
  <1>2. PICK c \in Conns : c = Head(handlerQ).conn
    BY <1>1, Taken DEF HandlerEvents
  <1> DEFINE cs == list \cap {c}
  <1>0. CloseAll(cs, "forced") /\ list' = list \ cs
    BY <1>2 DEF DelSocket
  <1>3. ConnOK(c) /\ state[c] # "none"
    BY <1>0, <1>1, <1>2, Taken DEF IInv, ConnOK, Unborn
  <1>4. SocketInv'
    <2>1. cs \in SUBSET Conns /\ \A d \in cs : state[d] # "none"
      BY <1>2, <1>3
    <2> QED
      BY <1>0, <1>1, <1>2, <2>1, CloseAllInv DEF IInv
  <1>5. OwnerTypes'
    BY <1>0, <1>1, <1>2, Taken DEF IInv, OwnerTypes
  <1>6. UNCHANGED <<state, notify>> /\ \A d \in Conns \ cs : strand'[d] = strand[d]
    BY <1>0, <1>1, <1>2 DEF CloseAll, IInv, SocketInv, SocketTypeOK
  <1>7. ASSUME NEW d \in Conns \ {c} PROVE ConnOK(d)'
    BY <1>0, <1>1, <1>2, <1>6, <1>7, Taken, AgreeSame, LikeKeeps DEF IInv, Like
  <1>8. /\ InQueue(handlerQ, "del", c)
        /\ InQueue(handlerQ', "del", c) => InQueue(handlerQ, "del", c)
        /\ InQueue(handlerQ', "gone", c) <=> InQueue(handlerQ, "gone", c)
        /\ Dropped(c)' = Dropped(c)
    BY <1>0, <1>1, <1>2, Taken DEF Dropped
  <1>9. CASE c \notin list
    <2>1. strand'[c] = strand[c] /\ list' = list
      BY <1>0, <1>1, <1>2, <1>6, <1>9
    <2>2. Unborn(c)' /\ Forced(c)' /\ Listed(c)' /\ AddedOnce(c)'
      BY <1>0, <1>1, <1>2, <1>3, <1>6, <1>8, <2>1
         DEF ConnOK, Unborn, Forced, Listed, AddedOnce, Alive
    <2>3. phase' = "running" => Told(c)'
      BY <1>0, <1>1, <1>2, <1>3, <1>6, <1>8, <2>1 DEF ConnOK, Told
    <2> QED
      BY <1>0, <1>1, <1>2, <1>4, <1>5, <1>7, <2>2, <2>3, Taken DEF IInv, ConnOK
  <1>10. CASE c \in list
    <2>1. strand'[c] = Append(strand[c], Request(c, "forced")) /\ c \notin list'
      BY <1>0, <1>1, <1>2, <1>10 DEF CloseAll
    <2>2. Request(c, "forced") \in Requests /\ Request(c, "forced").op = "forced"
      BY <1>2, Parts DEF IInv, Request, Requests
    <2>3. \A op : HasOp(strand'[c], op) <=> HasOp(strand[c], op) \/ op = "forced"
      BY <1>2, <2>1, <2>2, OpAppend, Parts DEF IInv
    <2>4. Unborn(c)' /\ Forced(c)' /\ Listed(c)' /\ AddedOnce(c)'
      BY <1>0, <1>1, <1>2, <1>3, <1>6, <1>8, <2>1, <2>3
         DEF ConnOK, Unborn, Forced, Listed, AddedOnce, Alive
    <2>5. phase' = "running" => Told(c)'
      BY <1>0, <1>1, <1>2, <1>3, <1>8 DEF ConnOK, Told
    <2> QED
      BY <1>0, <1>1, <1>2, <1>4, <1>5, <1>7, <2>4, <2>5, Taken DEF IInv, ConnOK
  <1> QED
    BY <1>9, <1>10

\* on_socket_close: the main thread is told of a socket that was in the list.
LEMMA SocketClosedKeeps ==
    ASSUME IInv, SocketClosed
    PROVE  IInv'
  <1>1. /\ handlerQ # <<>> /\ Head(handlerQ).what = "gone" /\ handlerQ' = Tail(handlerQ)
        /\ UNCHANGED <<sockVars, held, phase>>
    BY DEF SocketClosed, Handler, mainVars
  <1>2. PICK c \in Conns : c = Head(handlerQ).conn
    BY <1>1, Taken DEF HandlerEvents
  <1> DEFINE down == Entry("down", c, 0)
  <1>0. mainQ' = (IF c \in list THEN Append(mainQ, down) ELSE mainQ) /\ list' = list \ {c}
    BY <1>2 DEF SocketClosed
  <1>3. ConnOK(c) /\ state[c] = "closed"
    BY <1>0, <1>1, <1>2, Taken DEF IInv, ConnOK, Forced
  <1>4. SocketInv' /\ UNCHANGED <<state, notify, strand>>
    BY <1>0, <1>1, <1>2, SocketStutter DEF IInv, sockVars
  <1>5. /\ mainQ \in Seq(Events) /\ UpFirst(mainQ)
        /\ down \in Events /\ down.what = "down" /\ down.conn = c
    BY <1>2, Entries DEF IInv, OwnerTypes
  <1> HIDE DEF down
  <1>6. mainQ' \in Seq(Events) /\ UpFirst(mainQ')
    <2>1. Append(mainQ, down) \in Seq(Events) /\ UpFirst(Append(mainQ, down))
      BY <1>5, UpAppend
    <2> QED
      BY <1>0, <1>1, <1>2, <1>5, <2>1
  <1>7. OwnerTypes'
    BY <1>0, <1>1, <1>2, <1>6, Taken DEF IInv, OwnerTypes
  <1>8. ASSUME NEW d \in Conns \ {c} PROVE ConnOK(d)'
    <2>1. Agree(mainQ, mainQ', d)
      BY <1>0, <1>1, <1>2, <1>5, AgreeSame, AgreeAppend
    <2> QED
      BY <1>0, <1>1, <1>2, <1>4, <2>1, Taken, LikeKeeps DEF IInv, Like
  <1>9. /\ InQueue(handlerQ', "del", c) => InQueue(handlerQ, "del", c)
        /\ InQueue(handlerQ', "gone", c) => InQueue(handlerQ, "gone", c)
    BY <1>0, <1>1, <1>2, Taken
  <1>10. /\ \A what : InQueue(Append(mainQ, down), what, c) <=>
                          InQueue(mainQ, what, c) \/ what = "down"
    BY <1>5, InAppend
  <1>11. /\ InQueue(mainQ', "up", c) <=> InQueue(mainQ, "up", c)
         /\ c \in list => InQueue(mainQ', "down", c)
         /\ InQueue(mainQ, "down", c) => InQueue(mainQ', "down", c)
    BY <1>0, <1>1, <1>2, <1>10
  <1>12. Unborn(c)' /\ Forced(c)' /\ Listed(c)' /\ AddedOnce(c)'
    BY <1>0, <1>1, <1>2, <1>3, <1>4, <1>9, <1>11
       DEF ConnOK, Unborn, Forced, Listed, AddedOnce, Alive
  <1>13. phase' = "running" => Told(c)'
    <2> SUFFICES ASSUME phase' = "running" PROVE Told(c)'
      OBVIOUS
    <2>1. Told(c) /\ Dropped(c)' = Dropped(c)
      BY <1>0, <1>1, <1>2, <1>3, <1>11 DEF ConnOK, Dropped
    <2> QED
      BY <1>0, <1>1, <1>2, <1>3, <1>4, <1>9, <1>11, <2>1 DEF Told
  <1> QED
    BY <1>0, <1>1, <1>2, <1>4, <1>6, <1>7, <1>8, <1>12, <1>13, Taken DEF IInv, ConnOK

\* stop(): the port is closed.
LEMMA StopListenKeeps ==
    ASSUME IInv, StopListen
    PROVE  IInv'
  <1>1. /\ handlerQ # <<>> /\ Head(handlerQ).what = "stop" /\ handlerQ' = Tail(handlerQ)
        /\ UNCHANGED <<sockVars, mainQ, list, held, phase>>
    BY DEF StopListen, Handler, mainVars
  <1>2. Head(handlerQ).conn = NoConn
    BY <1>1, Taken DEF HandlerEvents
  <1>3. SocketInv' /\ UNCHANGED <<state, notify, strand>>
    BY <1>1, SocketStutter DEF IInv, sockVars
  <1>4. OwnerTypes'
    BY <1>1, Taken DEF IInv, OwnerTypes
  <1>5. ASSUME NEW d \in Conns PROVE ConnOK(d)'
    BY <1>1, <1>2, <1>3, Taken, AgreeSame, LikeKeeps, ConnAssumption DEF IInv, Like
  <1> QED
    BY <1>1, <1>3, <1>4, <1>5, Taken DEF IInv

\* clear(): the server does not run any more.
LEMMA ClearListKeeps ==
    ASSUME IInv, ClearList
    PROVE  IInv'
  <1>1. /\ handlerQ # <<>> /\ Head(handlerQ).what = "clear" /\ handlerQ' = Tail(handlerQ)
        /\ CloseAll(list, "forced") /\ list' = {}
        /\ UNCHANGED <<mainQ, held, phase>>
    BY DEF ClearList, Handler, mainVars
  <1>2. Head(handlerQ).conn = NoConn
    BY <1>1, Taken DEF HandlerEvents
  <1>3. phase # "running"
    BY <1>1, <1>2, Taken DEF IInv
  <1>4. list \in SUBSET Conns /\ \A d \in list : state[d] # "none"
    BY DEF IInv, OwnerTypes, ConnOK, Unborn
  <1>5. SocketInv' /\ UNCHANGED <<state, notify>>
    BY <1>1, <1>4, CloseAllInv DEF IInv, CloseAll
  <1>6. OwnerTypes'
    BY <1>1, Taken DEF IInv, OwnerTypes
  <1>7. ASSUME NEW d \in Conns PROVE ConnOK(d)'
    <2>1. ConnOK(d) /\ Agree(handlerQ, handlerQ', d)
      BY <1>1, <1>2, Taken, ConnAssumption DEF IInv
    <2>2. Request(d, "forced") \in Requests /\ Request(d, "forced").op = "forced"
      BY Parts DEF IInv, Request, Requests
    <2>3. /\ strand'[d] = IF d \in list THEN Append(strand[d], Request(d, "forced"))
                                        ELSE strand[d]
          /\ strand[d] \in Seq(Requests)
      BY <1>1, Parts DEF CloseAll, IInv
    <2>4. /\ \A op : HasOp(strand[d], op) => HasOp(strand'[d], op)
          /\ HasOp(strand'[d], "graceful") => HasOp(strand[d], "graceful")
          /\ d \in list => HasOp(strand'[d], "forced")
      BY <2>2, <2>3, OpAppend
    <2>5. Unborn(d)' /\ Forced(d)' /\ Listed(d)' /\ AddedOnce(d)'
      BY <1>1, <1>5, <2>1, <2>4
         DEF ConnOK, Agree, Unborn, Forced, Listed, AddedOnce, Alive
    <2> QED
      BY <1>1, <1>3, <2>5 DEF ConnOK
  <1> QED
    BY <1>1, <1>3, <1>5, <1>6, <1>7 DEF IInv

\* The main thread takes an event: after "up" it has the connection, after "down" it
\* has dropped it for good.
LEMMA MainHandleKeeps ==
    ASSUME IInv, MainHandle
    PROVE  IInv'
  <1>1. /\ mainQ # <<>> /\ mainQ' = Tail(mainQ) /\ phase = "running" /\ phase' = phase
        /\ UNCHANGED <<sockVars, list>>
    BY DEF MainHandle, acceptorVars
  <1>2. PICK e \in Events : e = Head(mainQ)
    BY <1>1 DEF IInv, OwnerTypes
  <1>3. e.what \in {"up", "msg", "down"} /\ e.conn \in Conns
    BY DEF Events
  <1>4. PICK c \in Conns : c = e.conn
    BY <1>3
  <1> DEFINE del == Entry("del", c, 0)
  <1>5. /\ e.what = "up" => held' = held \cup {c}
        /\ e.what = "down" => held' = held \ {c}
        /\ e.what = "msg" => held' = held
    BY <1>2, <1>3, <1>4 DEF MainHandle
  <1>6. handlerQ' = handlerQ \/ (e.what = "down" /\ handlerQ' = Append(handlerQ, del))
    BY <1>2, <1>4 DEF MainHandle
  <1>7. /\ mainQ \in Seq(Events) /\ handlerQ \in Seq(HandlerEvents) /\ UpFirst(mainQ)
        /\ del \in HandlerEvents /\ del.what = "del" /\ del.conn = c
    BY Entries DEF IInv, OwnerTypes
  <1> HIDE DEF del
  <1>8. SocketInv' /\ UNCHANGED <<state, notify, strand>>
    BY <1>1, SocketStutter DEF IInv, sockVars
  <1>9. /\ mainQ' \in Seq(Events)
        /\ \A what : InQueue(mainQ, what, c) <=> InQueue(mainQ', what, c) \/ e.what = what
        /\ Mentions(mainQ, c)
        /\ \A d \in Conns \ {c} : Agree(mainQ, mainQ', d)
    BY <1>1, <1>2, <1>4, <1>7, InTail, AgreeTail
  <1>10. UpFirst(mainQ') /\ ~InQueue(mainQ', "up", c)
    BY <1>1, <1>2, <1>4, <1>7, UpTail
  <1>11. /\ handlerQ' \in Seq(HandlerEvents)
         /\ \A what, d : InQueue(handlerQ', what, d) <=>
               \/ InQueue(handlerQ, what, d)
               \/ handlerQ' = Append(handlerQ, del) /\ what = "del" /\ d = c
         /\ \A d \in Conns \ {c} : Agree(handlerQ, handlerQ', d)
    <2>1. CASE handlerQ' = Append(handlerQ, del)
      BY <1>7, <2>1, InAppend, AgreeAppend
    <2>2. CASE handlerQ' = handlerQ /\ handlerQ' # Append(handlerQ, del)
      BY <1>7, <2>2, AgreeSame
    <2> QED
      BY <1>6, <2>1, <2>2
  <1>12. OwnerTypes'
    BY <1>1, <1>3, <1>5, <1>9, <1>11 DEF IInv, OwnerTypes
  <1>13. ASSUME NEW d \in Conns \ {c} PROVE ConnOK(d)'
    BY <1>1, <1>3, <1>5, <1>8, <1>9, <1>11, LikeKeeps DEF IInv, Like
  <1>14. ConnOK(c) /\ state[c] # "none"
    BY <1>9 DEF IInv, ConnOK, Unborn
  <1>15. Unborn(c)' /\ Forced(c)' /\ Listed(c)' /\ AddedOnce(c)'
    BY <1>1, <1>8, <1>10, <1>11, <1>14
       DEF ConnOK, Unborn, Forced, Listed, AddedOnce, Alive
  <1>16. Told(c)'
    <2>1. Told(c)
      BY <1>1, <1>14 DEF ConnOK
    <2>2. CASE e.what = "up"
      <3>1. ~Dropped(c) /\ UNCHANGED handlerQ
        BY <1>6, <1>9, <2>2 DEF Dropped
      <3>2. InQueue(mainQ, "down", c) => InQueue(mainQ', "down", c)
        BY <1>9, <2>2
      <3> QED
        BY <1>1, <1>8, <2>1, <3>1, <3>2 DEF Told
    <2>3. CASE e.what = "msg"
      <3>1. Dropped(c)' = Dropped(c) /\ UNCHANGED handlerQ
        BY <1>5, <1>6, <1>9, <2>3 DEF Dropped
      <3>2. InQueue(mainQ, "down", c) => InQueue(mainQ', "down", c)
        BY <1>9, <2>3
      <3> QED
        BY <1>1, <1>8, <2>1, <3>1, <3>2 DEF Told
    <2>4. CASE e.what = "down"
      <3>1. Dropped(c)'
        BY <1>5, <1>10, <2>4 DEF Dropped
      <3> QED
        BY <3>1 DEF Told
    <2> QED
      BY <1>3, <2>2, <2>3, <2>4
  <1>17. ~InQueue(handlerQ', "clear", NoConn)
    BY <1>1, <1>11 DEF IInv
  <1> QED
    BY <1>8, <1>10, <1>12, <1>13, <1>15, <1>16, <1>17 DEF IInv, ConnOK

\* The server drops a connection by itself.
LEMMA MainCloseKeeps ==
    ASSUME IInv, NEW c \in Conns, MainClose(c)
    PROVE  IInv'
  <1> DEFINE del == Entry("del", c, 0)
  <1>1. /\ c \in held /\ held' = held \ {c} /\ handlerQ' = Append(handlerQ, del)
        /\ phase = "running" /\ phase' = phase
        /\ UNCHANGED <<sockVars, mainQ, list>>
    BY DEF MainClose, acceptorVars
  <1>2. /\ handlerQ \in Seq(HandlerEvents) /\ ConnOK(c)
        /\ del \in HandlerEvents /\ del.what = "del" /\ del.conn = c
    BY Entries DEF IInv, OwnerTypes
  <1> HIDE DEF del
  <1>3. SocketInv' /\ UNCHANGED <<state, notify, strand>>
    BY <1>1, SocketStutter DEF IInv, sockVars
  <1>4. OwnerTypes'
    BY <1>1, <1>2 DEF IInv, OwnerTypes
  <1>5. \A what, d : InQueue(handlerQ', what, d) <=>
           InQueue(handlerQ, what, d) \/ (what = "del" /\ d = c)
    BY <1>1, <1>2, InAppend
  <1>6. ASSUME NEW d \in Conns \ {c} PROVE ConnOK(d)'
    BY <1>1, <1>2, <1>3, AgreeSame, AgreeAppend, LikeKeeps DEF IInv, Like
  <1>7. Unborn(c)' /\ Forced(c)' /\ Listed(c)' /\ AddedOnce(c)'
    BY <1>1, <1>2, <1>3, <1>5
       DEF ConnOK, Unborn, Forced, Listed, AddedOnce, Alive
  <1>8. Told(c)'
    <2>1. Dropped(c)'
      BY <1>1, <1>2 DEF ConnOK, AddedOnce, Dropped
    <2> QED
      BY <2>1 DEF Told
  <1> QED
    BY <1>1, <1>3, <1>4, <1>5, <1>6, <1>7, <1>8 DEF IInv, ConnOK

\* The server writes to a connection it has.
LEMMA MainWriteKeeps ==
    ASSUME IInv, NEW c \in Conns, MainWrite(c)
    PROVE  IInv'
  <1>1. /\ c \in held /\ Write(c) /\ UNCHANGED <<handlerQ, mainQ, list, held, phase>>
    BY DEF MainWrite, acceptorVars, mainVars
  <1>2. ConnOK(c) /\ state[c] # "none"
    BY <1>1 DEF IInv, ConnOK, Unborn
  <1>3. SocketInv'
    BY <1>1, <1>2, WriteInv DEF IInv
  <1>4. /\ strand'[c] = Append(strand[c], Request(c, "write"))
        /\ UNCHANGED <<state, notify>>
        /\ \A d \in Conns \ {c} : strand'[d] = strand[d]
    BY <1>1 DEF Write, IInv, SocketInv, SocketTypeOK
  <1>5. /\ strand[c] \in Seq(Requests)
        /\ Request(c, "write") \in Requests /\ Request(c, "write").op = "write"
    BY Parts DEF IInv, Request, Requests
  <1>6. /\ HasOp(strand'[c], "forced") <=> HasOp(strand[c], "forced")
        /\ HasOp(strand'[c], "graceful") <=> HasOp(strand[c], "graceful")
    BY <1>4, <1>5, OpAppend
  <1>7. ASSUME NEW d \in Conns \ {c} PROVE ConnOK(d)'
    BY <1>1, <1>4, AgreeSame, LikeKeeps DEF IInv, Like
  <1>8. Unborn(c)' /\ Forced(c)' /\ Listed(c)' /\ AddedOnce(c)' /\ Dropped(c)' = Dropped(c)
    BY <1>1, <1>2, <1>4, <1>6
       DEF ConnOK, Unborn, Forced, Listed, AddedOnce, Alive, Dropped
  <1>9. phase' = "running" => Told(c)'
    BY <1>1, <1>2, <1>4, <1>6, <1>8 DEF ConnOK, Told
  <1> QED
    BY <1>1, <1>3, <1>7, <1>8, <1>9 DEF IInv, OwnerTypes, ConnOK

\* stop() and clear() are posted by a server that does not run any more.
LEMMA MainPostKeeps ==
    ASSUME IInv, MainStop \/ MainClear
    PROVE  IInv'
  <1>1. phase' # "running" /\ UNCHANGED <<sockVars, mainQ, list, held>>
    BY DEF MainStop, MainClear, acceptorVars
  <1>2. PICK h \in HandlerEvents : h.conn = NoConn /\ handlerQ' = Append(handlerQ, h)
    BY ShutEntries DEF MainStop, MainClear
  <1>3. handlerQ \in Seq(HandlerEvents)
    BY DEF IInv, OwnerTypes
  <1>4. SocketInv' /\ UNCHANGED <<state, notify, strand>>
    BY <1>1, SocketStutter DEF IInv, sockVars
  <1>5. OwnerTypes'
    BY <1>1, <1>2, <1>3 DEF IInv, OwnerTypes
  <1>6. ASSUME NEW d \in Conns PROVE ConnOK(d)'
    BY <1>1, <1>2, <1>3, <1>4, AgreeSame, AgreeAppend, LikeKeeps, ConnAssumption DEF IInv, Like
  <1> QED
    BY <1>1, <1>4, <1>5, <1>6 DEF IInv

\* Nothing happens.
LEMMA StutterKeeps ==
    ASSUME IInv, UNCHANGED vars
    PROVE  IInv'
  <1>1. SocketInv' /\ UNCHANGED <<state, notify, strand, list, held, mainQ, handlerQ, phase>>
    BY SocketStutter DEF IInv, vars, sockVars
  <1>2. ASSUME NEW d \in Conns PROVE ConnOK(d)'
    BY <1>1, AgreeSame, LikeKeeps DEF IInv, Like
  <1> QED
    BY <1>1, <1>2 DEF IInv, OwnerTypes

\* Every step of the system keeps the inductive invariant.
LEMMA StepInv == IInv /\ [Next]_vars => IInv'
  <1> SUFFICES ASSUME IInv, [Next]_vars PROVE IInv'
    OBVIOUS
  <1>1. CASE \E c \in Conns : Accept(c) \/ Socket(c)
    BY <1>1, AcceptKeeps, SocketKeeps
  <1>2. CASE AcceptorStep
    BY <1>2, DelSocketKeeps, SocketClosedKeeps, StopListenKeeps, ClearListKeeps
       DEF AcceptorStep
  <1>3. CASE Main
    BY <1>3, MainHandleKeeps, MainCloseKeeps, MainWriteKeeps, MainPostKeeps DEF Main
  <1>4. CASE UNCHANGED vars
    BY <1>4, StutterKeeps
  <1> QED
    BY <1>1, <1>2, <1>3, <1>4 DEF Next

----------------------------------------------------------------------------
(* The order of the events.                                                *)

\* What the main thread remembers of an event.
Notices == [what : {"up", "msg", "down"}, n : Nat]

\* The types of what TypeOK adds.
RestTypes ==
    /\ listening \in BOOLEAN
    /\ seen \in [Conns -> Seq(Notices)]
    /\ phase \in {"running", "stopping", "closing"}

\* Nothing was read before the start, and of a socket in the list nobody was told
\* that it closed.
NotDown(c) ==
    /\ state[c] = "none" => read[c] = 0
    /\ c \in list => /\ ~InQueue(mainQ, "down", c)
                     /\ \A i \in 1..Len(seen[c]) : seen[c][i].what # "down"

OrderOK(c) ==
    /\ Handled(seen[c], read[c], state[c])
    /\ Waiting(mainQ, c, Len(seen[c]), read[c], state[c])
    /\ NotDown(c)

Order == \A c \in Conns : OrderOK(c)

\* An event of another connection is put into the queue.
LEMMA WaitingAppend ==
    ASSUME NEW q \in Seq(Events), NEW e \in Events, NEW c \in Conns, e.conn # c,
           NEW n, NEW k, NEW st, Waiting(q, c, n, k, st)
    PROVE  Waiting(Append(q, e), c, n, k, st)
  <1> DEFINE r == Append(q, e)
  <1>1. /\ Len(r) = Len(q) + 1 /\ Len(q) \in Nat /\ r[Len(q) + 1] = e
        /\ \A i \in 1..Len(q) : r[i] = q[i]
    OBVIOUS
  <1> HIDE DEF r
  <1>2. {i \in 1..Len(r) : r[i].conn = c} = {i \in 1..Len(q) : q[i].conn = c}
    BY <1>1
  <1>3. \A i \in {j \in 1..Len(q) : q[j].conn = c} : r[i] = q[i]
    BY <1>1
  <1> QED
    BY <1>2, <1>3, Zenon DEF Waiting, r

\* An event of another connection is taken from the queue.
LEMMA WaitingTail ==
    ASSUME NEW q \in Seq(Events), q # <<>>, NEW c \in Conns, Head(q).conn # c,
           NEW n, NEW k, NEW st, Waiting(q, c, n, k, st)
    PROVE  Waiting(Tail(q), c, n, k, st)
  <1> DEFINE r == Tail(q)
             mine == {i \in 1..Len(q) : q[i].conn = c}
             left == {i \in 1..Len(r) : r[i].conn = c}
  <1>1. /\ Len(r) = Len(q) - 1 /\ Len(q) \in Nat /\ Len(q) # 0 /\ Head(q) = q[1]
        /\ \A i \in 1..Len(r) : r[i] = q[i + 1]
    OBVIOUS
  <1> HIDE DEF r
  <1>2. \A i \in left : i + 1 \in mine /\ r[i] = q[i + 1]
    BY <1>1
  <1>3. \A i \in mine : i - 1 \in left /\ r[i - 1] = q[i]
    BY <1>1
  <1>4. \A i, j \in left : i < j => i + 1 < j + 1
    BY <1>1
  <1>5. /\ \A i \in mine : Happened(q[i], k, st) /\ Turn(q[i], k) > n
        /\ \A i, j \in mine : i < j => Turn(q[i], k) < Turn(q[j], k)
        /\ st # "none" => \A t \in (n + 1)..(k + 1) : \E i \in mine : Turn(q[i], k) = t
    BY DEF Waiting
  <1> HIDE DEF mine, left
  <1>6. \A i \in left : Happened(r[i], k, st) /\ Turn(r[i], k) > n
    BY <1>2, <1>5
  <1>7. \A i, j \in left : i < j => Turn(r[i], k) < Turn(r[j], k)
    BY <1>2, <1>4, <1>5
  <1>8. st # "none" => \A t \in (n + 1)..(k + 1) : \E i \in left : Turn(r[i], k) = t
    BY <1>3, <1>5
  <1> QED
    BY <1>6, <1>7, <1>8, Zenon DEF Waiting, r, left

\* The socket goes on to another state.
LEMMA HappenedLater ==
    ASSUME NEW k, NEW st, NEW new, new # "none", st = "closed" => new = "closed"
    PROVE  /\ \A e : Happened(e, k, st) => Happened(e, k, new)
           /\ \A s : Handled(s, k, st) => Handled(s, k, new)
           /\ \A q, c, n : st # "none" /\ Waiting(q, c, n, k, st) => Waiting(q, c, n, k, new)
  <1>1. \A e : Happened(e, k, st) => Happened(e, k, new)
    BY DEF Happened
  <1>2. \A s : Handled(s, k, st) => Handled(s, k, new)
    BY <1>1 DEF Handled
  <1>3. ASSUME NEW q, NEW c, NEW n, st # "none", Waiting(q, c, n, k, st)
        PROVE  Waiting(q, c, n, k, new)
    BY <1>1, <1>3, Zenon DEF Waiting
  <1> QED
    BY <1>1, <1>2, <1>3

\* Of a socket that is not there nothing was told.
LEMMA NothingYet ==
    ASSUME NEW S, NEW s \in Seq(S), NEW k, Handled(s, k, "none")
    PROVE  Len(s) = 0
  BY DEF Handled, Happened

\* "up" is the first event.
LEMMA WaitingUp ==
    ASSUME NEW q \in Seq(Events), NEW c \in Conns, NEW e \in Events,
           e.conn = c, e.what = "up", ~Mentions(q, c)
    PROVE  Waiting(Append(q, e), c, 0, 0, "open")
  <1> DEFINE r == Append(q, e)
  <1>1. /\ Len(r) = Len(q) + 1 /\ Len(q) \in Nat /\ r[Len(q) + 1] = e
        /\ \A i \in 1..Len(q) : r[i] = q[i]
    OBVIOUS
  <1> HIDE DEF r
  <1>2. {i \in 1..Len(r) : r[i].conn = c} = {Len(q) + 1}
    BY <1>1 DEF Mentions
  <1>3. Happened(e, 0, "open") /\ Turn(e, 0) = 1
    BY DEF Happened, Turn
  <1>4. \A t \in (0 + 1)..(0 + 1) : t = 1
    OBVIOUS
  <1>5. 1 > 0 /\ ~(Len(q) + 1 < Len(q) + 1)
    BY <1>1
  <1> HIDE DEF Happened
  <1> QED
    BY <1>1, <1>2, <1>3, <1>4, <1>5, Zenon DEF Waiting, r

\* The turns are numbers.
LEMMA Turns ==
    ASSUME NEW e, e.what \in {"up", "msg", "down"}, e.n \in Nat, NEW k \in Nat
    PROVE  /\ Turn(e, k) \in Nat
           /\ \A st : Happened(e, k, st) => Turn(e, k) \in 1..(k + 2)
           /\ \A st : Happened(e, k, st) /\ e.what # "down" =>
                  Turn(e, k) \in 1..(k + 1) /\ Turn(e, k + 1) = Turn(e, k)
  BY DEF Turn, Happened

\* The next event of a connection is put into the queue.
LEMMA WaitingNext ==
    ASSUME NEW q \in Seq(Events), NEW e \in Events, NEW c \in Conns, e.conn = c,
           NEW n \in Nat, NEW k \in Nat, NEW m \in Nat, NEW st, st # "none",
           Waiting(q, c, n, k, st),
           Happened(e, m, st), Turn(e, m) > n,
           \A i \in {j \in 1..Len(q) : q[j].conn = c} :
               /\ Happened(q[i], m, st)
               /\ Turn(q[i], m) = Turn(q[i], k) /\ Turn(q[i], m) < Turn(e, m),
           \A t \in (n + 1)..(m + 1) : t \in (n + 1)..(k + 1) \/ t = Turn(e, m)
    PROVE  Waiting(Append(q, e), c, n, m, st)
  <1> DEFINE r == Append(q, e)
             mine == {i \in 1..Len(q) : q[i].conn = c}
             all == {i \in 1..Len(r) : r[i].conn = c}
  <1>1. /\ Len(r) = Len(q) + 1 /\ Len(q) \in Nat /\ r[Len(q) + 1] = e
        /\ \A i \in 1..Len(q) : r[i] = q[i]
    OBVIOUS
  <1> HIDE DEF r
  <1>2. /\ all = mine \cup {Len(q) + 1} /\ r[Len(q) + 1] = e
        /\ \A i \in mine : r[i] = q[i] /\ i < Len(q) + 1 /\ ~(Len(q) + 1 < i)
        /\ ~(Len(q) + 1 < Len(q) + 1)
    BY <1>1
  <1>3. /\ \A i \in mine : Happened(q[i], k, st) /\ Turn(q[i], k) > n
        /\ \A i, j \in mine : i < j => Turn(q[i], k) < Turn(q[j], k)
        /\ \A t \in (n + 1)..(k + 1) : \E i \in mine : Turn(q[i], k) = t
    BY DEF Waiting
  <1>4. \A i \in mine : /\ Happened(q[i], m, st)
                        /\ Turn(q[i], m) = Turn(q[i], k) /\ Turn(q[i], m) < Turn(e, m)
    OBVIOUS
  <1> HIDE DEF mine, all
  <1>5. \A i \in all : Happened(r[i], m, st) /\ Turn(r[i], m) > n
    BY <1>2, <1>3, <1>4, Zenon
  <1>6. \A i, j \in all : i < j => Turn(r[i], m) < Turn(r[j], m)
    <2> TAKE i, j \in all
    <2>1. CASE i \in mine /\ j \in mine
      BY <1>2, <1>3, <1>4, <2>1
    <2>2. CASE i \in mine /\ j = Len(q) + 1
      BY <1>2, <1>4, <2>2, Zenon
    <2>3. CASE i = Len(q) + 1
      BY <1>2, <2>3, Zenon
    <2> QED
      BY <1>2, <2>1, <2>2, <2>3
  <1>7. \A t \in (n + 1)..(m + 1) : \E i \in all : Turn(r[i], m) = t
    <2> TAKE t \in (n + 1)..(m + 1)
    <2>1. CASE t \in (n + 1)..(k + 1)
      BY <1>2, <1>3, <1>4, <2>1, Zenon
    <2>2. CASE t = Turn(e, m)
      BY <1>2, <2>2, Zenon
    <2> QED
      BY <2>1, <2>2
  <1> QED
    BY <1>5, <1>6, <1>7, Zenon DEF Waiting, r, all

\* A message comes on an open connection.
LEMMA WaitingMsg ==
    ASSUME NEW q \in Seq(Events), NEW e \in Events, NEW c \in Conns, NEW n \in Nat,
           NEW k \in Nat, e.conn = c, e.what = "msg", e.n = k + 1, n <= k + 1,
           Waiting(q, c, n, k, "open")
    PROVE  Waiting(Append(q, e), c, n, k + 1, "open")
  <1>1. /\ Happened(e, k + 1, "open") /\ Turn(e, k + 1) = k + 2
        /\ k + 1 \in Nat /\ k + 2 > n
    BY DEF Happened, Turn
  <1>2. ASSUME NEW i \in {j \in 1..Len(q) : q[j].conn = c}
        PROVE  /\ Happened(q[i], k + 1, "open")
               /\ Turn(q[i], k + 1) = Turn(q[i], k) /\ Turn(q[i], k + 1) < Turn(e, k + 1)
    <2>1. Happened(q[i], k, "open") /\ q[i] \in Events
      BY DEF Waiting
    <2>2. q[i].what # "down" /\ Happened(q[i], k + 1, "open")
      BY <2>1 DEF Happened
    <2>3. q[i].what \in {"up", "msg", "down"} /\ q[i].n \in Nat
      BY <2>1 DEF Events
    <2>4. Turn(q[i], k) \in 1..(k + 1) /\ Turn(q[i], k + 1) = Turn(q[i], k)
      BY <2>1, <2>2, <2>3 DEF Turn, Happened
    <2> QED
      BY <1>1, <2>2, <2>4
  <1>3. \A t \in (n + 1)..((k + 1) + 1) : t \in (n + 1)..(k + 1) \/ t = k + 2
    OBVIOUS
  <1>4. Turn(e, k + 1) > n /\ "open" # "none"
    BY <1>1
  <1> QED
    BY <1>1, <1>2, <1>3, <1>4, WaitingNext

\* A connection is told to have closed.
LEMMA WaitingDown ==
    ASSUME NEW q \in Seq(Events), NEW e \in Events, NEW c \in Conns, NEW n \in Nat,
           NEW k \in Nat, e.conn = c, e.what = "down", n <= k + 1,
           Waiting(q, c, n, k, "closed"), ~InQueue(q, "down", c)
    PROVE  Waiting(Append(q, e), c, n, k, "closed")
  <1>1. Happened(e, k, "closed") /\ Turn(e, k) = k + 2
    BY DEF Happened, Turn
  <1>2. ASSUME NEW i \in {j \in 1..Len(q) : q[j].conn = c}
        PROVE  Happened(q[i], k, "closed") /\ Turn(q[i], k) < k + 2
    <2>1. Happened(q[i], k, "closed") /\ q[i] \in Events
      BY DEF Waiting
    <2>2. q[i].what # "down"
      BY DEF InQueue
    <2>3. q[i].what \in {"up", "msg", "down"} /\ q[i].n \in Nat
      BY <2>1 DEF Events
    <2>4. Turn(q[i], k) \in 1..(k + 1)
      BY <2>1, <2>2, <2>3, Turns
    <2> QED
      BY <2>1, <2>4
  <1>3. \A i \in {j \in 1..Len(q) : q[j].conn = c} :
          /\ Happened(q[i], k, "closed")
          /\ Turn(q[i], k) = Turn(q[i], k) /\ Turn(q[i], k) < Turn(e, k)
    BY <1>1, <1>2
  <1>4. \A t \in (n + 1)..(k + 1) : t \in (n + 1)..(k + 1) \/ t = Turn(e, k)
    OBVIOUS
  <1>5. Turn(e, k) > n /\ "closed" # "none"
    BY <1>1
  <1> QED
    BY <1>1, <1>3, <1>4, <1>5, WaitingNext

\* The first event of a connection in the queue is the next one.
LEMMA WaitingTake ==
    ASSUME NEW q \in Seq(Events), q # <<>>, NEW c \in Conns, Head(q).conn = c,
           NEW n \in Nat, NEW k \in Nat, NEW st, Waiting(q, c, n, k, st)
    PROVE  /\ Happened(Head(q), k, st) /\ Turn(Head(q), k) = n + 1
           /\ Waiting(Tail(q), c, n + 1, k, st)
  <1> DEFINE r == Tail(q)
             mine == {i \in 1..Len(q) : q[i].conn = c}
             left == {i \in 1..Len(r) : r[i].conn = c}
  <1>1. /\ Len(r) = Len(q) - 1 /\ Len(q) \in Nat /\ Len(q) # 0 /\ Head(q) = q[1]
        /\ \A i \in 1..Len(r) : r[i] = q[i + 1]
        /\ \A i \in 1..Len(q) : q[i] \in Events
    OBVIOUS
  <1> HIDE DEF r
  <1>2. \A i \in left : i + 1 \in mine /\ r[i] = q[i + 1] /\ 1 < i + 1
    BY <1>1
  <1>3. 1 \in mine /\ \A i \in mine : i = 1 \/ (1 < i /\ i - 1 \in left /\ r[i - 1] = q[i])
    BY <1>1
  <1>4. \A i, j \in left : i < j => i + 1 < j + 1
    BY <1>1
  <1>5. /\ \A i \in mine : Happened(q[i], k, st) /\ Turn(q[i], k) > n
        /\ \A i, j \in mine : i < j => Turn(q[i], k) < Turn(q[j], k)
        /\ st # "none" => \A t \in (n + 1)..(k + 1) : \E i \in mine : Turn(q[i], k) = t
    BY DEF Waiting
  <1>6. ASSUME NEW i \in mine
        PROVE  Turn(q[i], k) \in 1..(k + 2) /\ Turn(q[i], k) \in Nat
    <2>1. Happened(q[i], k, st)
      BY <1>5
    <2>2. q[i].what \in {"up", "msg", "down"} /\ q[i].n \in Nat
      BY <1>1 DEF Events
    <2> QED
      BY <2>1, <2>2 DEF Turn, Happened
  <1> HIDE DEF mine, left
  <1>7. Happened(q[1], k, st) /\ st # "none"
    BY <1>3, <1>5 DEF Happened
  <1>8. Turn(q[1], k) = n + 1
    <2>1. CASE n + 1 <= k + 1
      <3>1. PICK i \in mine : Turn(q[i], k) = n + 1
        BY <1>5, <1>7, <2>1
      <3> QED
        BY <1>3, <1>5, <1>6, <3>1
    <2>2. CASE ~(n + 1 <= k + 1)
      BY <1>3, <1>5, <1>6, <2>2
    <2> QED
      BY <2>1, <2>2
  <1>9. \A i \in left : Happened(r[i], k, st) /\ Turn(r[i], k) > n + 1
    BY <1>2, <1>3, <1>5, <1>6, <1>8
  <1>10. \A i, j \in left : i < j => Turn(r[i], k) < Turn(r[j], k)
    BY <1>2, <1>4, <1>5
  <1>11. \A t \in (n + 1 + 1)..(k + 1) : \E i \in left : Turn(r[i], k) = t
    <2> TAKE t \in (n + 1 + 1)..(k + 1)
    <2>1. PICK i \in mine : Turn(q[i], k) = t
      BY <1>5, <1>7
    <2>2. i # 1
      BY <1>8, <2>1
    <2> QED
      BY <1>3, <2>1, <2>2
  <1>12. Waiting(r, c, n + 1, k, st)
    BY <1>9, <1>10, <1>11, Zenon DEF Waiting, left
  <1> QED
    BY <1>1, <1>7, <1>8, <1>12 DEF r

\* An event is handled.
LEMMA HandledNext ==
    ASSUME NEW S, NEW s \in Seq(S), NEW e \in S, NEW k, NEW st, Handled(s, k, st),
           Happened(e, k, st), Turn(e, k) = Len(s) + 1
    PROVE  Handled(Append(s, e), k, st)
  <1> DEFINE r == Append(s, e)
  <1>1. /\ Len(r) = Len(s) + 1 /\ Len(s) \in Nat /\ r[Len(s) + 1] = e
        /\ \A i \in 1..Len(s) : r[i] = s[i]
    OBVIOUS
  <1> HIDE DEF r
  <1>2. \A i \in 1..Len(r) : i \in 1..Len(s) \/ i = Len(s) + 1
    BY <1>1
  <1> QED
    BY <1>1, <1>2, Zenon DEF Handled, r

\* As long as nobody was told that the socket closed, what was handled comes before
\* what is read next.
LEMMA HandledMore ==
    ASSUME NEW s \in Seq(Notices), NEW k \in Nat, NEW st,
           Handled(s, k, st), \A i \in 1..Len(s) : s[i].what # "down"
    PROVE  Len(s) <= k + 1 /\ Handled(s, k + 1, st)
  <1>1. \A i \in 1..Len(s) : /\ Happened(s[i], k, st) /\ Turn(s[i], k) = i
                            /\ s[i].what \in {"up", "msg", "down"} /\ s[i].n \in Nat
    <2> TAKE i \in 1..Len(s)
    <2>1. s[i] \in Notices
      OBVIOUS
    <2> QED
      BY <2>1 DEF Handled, Notices
  <1>2. \A i \in 1..Len(s) : Turn(s[i], k) \in 1..(k + 1) /\ Turn(s[i], k + 1) = Turn(s[i], k)
    BY <1>1, Turns
  <1>3. \A i \in 1..Len(s) : Happened(s[i], k + 1, st)
    BY <1>1 DEF Happened
  <1>4. Len(s) \in Nat /\ (Len(s) # 0 => Len(s) \in 1..Len(s))
    OBVIOUS
  <1>5. Len(s) <= k + 1
    BY <1>1, <1>2, <1>4
  <1>6. Handled(s, k + 1, st)
    BY <1>1, <1>2, <1>3 DEF Handled
  <1> QED
    BY <1>5, <1>6

\* A connection the step says nothing about.
LEMMA OrderLike ==
    ASSUME NEW d \in Conns, OrderOK(d),
           seen'[d] = seen[d], read'[d] = read[d], state'[d] = state[d],
           d \in list' => d \in list,
           InQueue(mainQ', "down", d) => InQueue(mainQ, "down", d),
           Waiting(mainQ', d, Len(seen[d]), read[d], state[d])
    PROVE  OrderOK(d)'
  BY Zenon DEF OrderOK, NotDown

\* A step that changes none of the events.
LEMMA OrderStill ==
    ASSUME Order, UNCHANGED <<state, read, seen, mainQ>>, list' \subseteq list
    PROVE  Order'
  BY OrderLike DEF Order, OrderOK

\* A step of a socket reads a message or reads nothing.
LEMMA SocketReads ==
    ASSUME NEW c \in Conns, SocketStep(c)
    PROVE  ReadMsg(c) \/ UNCHANGED <<mainQ, read>>
  BY DEF SocketStep, StrandStep, WriteHandler, CloseForced, CloseGraceful, WriteProgress,
         SendSome, WriteDone, WriteError, ReadError

\* The events of a connection are those that the proof speaks of.
LEMMA OrderParts ==
    ASSUME IInv, RestTypes, Order, NEW c \in Conns
    PROVE  /\ Handled(seen[c], read[c], state[c])
           /\ Waiting(mainQ, c, Len(seen[c]), read[c], state[c])
           /\ NotDown(c)
           /\ mainQ \in Seq(Events) /\ read[c] \in Nat /\ state[c] \in SocketStates
           /\ seen[c] \in Seq(Notices) /\ Len(seen[c]) \in Nat
           /\ state \in [Conns -> SocketStates] /\ read \in [Conns -> Nat]
           /\ seen \in [Conns -> Seq(Notices)]
  <1>1. seen[c] \in Seq(Notices) /\ Len(seen[c]) \in Nat
    BY DEF RestTypes
  <1>2. OrderOK(c)
    BY DEF Order
  <1>3. /\ Handled(seen[c], read[c], state[c])
        /\ Waiting(mainQ, c, Len(seen[c]), read[c], state[c])
        /\ NotDown(c)
    BY <1>2 DEF OrderOK
  <1>4. /\ mainQ \in Seq(Events)
        /\ state \in [Conns -> SocketStates] /\ read \in [Conns -> Nat]
    BY DEF IInv, OwnerTypes, SocketInv, SocketTypeOK
  <1> QED
    BY <1>1, <1>3, <1>4 DEF RestTypes

\* "up" comes first.
LEMMA AcceptOrder ==
    ASSUME IInv, RestTypes, Order, NEW c \in Conns, Accept(c)
    PROVE  Order'
  <1> DEFINE up == Entry("up", c, 0)
  <1>1. /\ Construct(c) /\ list' = list \cup {c} /\ mainQ' = Append(mainQ, up)
        /\ UNCHANGED seen
    BY DEF Accept, mainVars
  <1>2. /\ state[c] = "none" /\ state'[c] = "open" /\ UNCHANGED read
        /\ \A d \in Conns \ {c} : state'[d] = state[d]
    BY <1>1, OrderParts DEF Construct
  <1>3. /\ up \in Events /\ up.what = "up" /\ up.conn = c /\ mainQ \in Seq(Events)
        /\ ~Mentions(mainQ, c)
    BY <1>2, Entries DEF IInv, OwnerTypes, ConnOK, Unborn
  <1> HIDE DEF up
  <1>4. ASSUME NEW d \in Conns \ {c} PROVE OrderOK(d)'
    <2>1. InQueue(mainQ', "down", d) => InQueue(mainQ, "down", d)
      BY <1>1, <1>3, InAppend
    <2>2. Waiting(mainQ', d, Len(seen[d]), read[d], state[d])
      BY <1>1, <1>3, OrderParts, WaitingAppend
    <2> QED
      BY <1>1, <1>2, <2>1, <2>2, OrderLike DEF Order
  <1>5. read[c] = 0 /\ Len(seen[c]) = 0
    BY <1>2, OrderParts, NothingYet DEF NotDown
  <1>6. Waiting(mainQ', c, 0, 0, "open")
    BY <1>1, <1>3, WaitingUp
  <1>7. Handled(seen[c], 0, "open")
    BY <1>5 DEF Handled
  <1>8. ~InQueue(mainQ', "down", c)
    <2>1. ~InQueue(mainQ, "down", c)
      BY <1>3 DEF Mentions, InQueue
    <2> QED
      BY <1>1, <1>3, <2>1, InAppend
  <1>9. OrderOK(c)'
    BY <1>1, <1>2, <1>5, <1>6, <1>7, <1>8 DEF OrderOK, NotDown
  <1> QED
    BY <1>4, <1>9 DEF Order

\* A message comes after all that happened before; other steps of a socket tell the
\* main thread nothing.
LEMMA SocketOrder ==
    ASSUME IInv, RestTypes, Order, NEW c \in Conns, Socket(c)
    PROVE  Order'
  <1> DEFINE msg == Entry("msg", c, read[c] + 1)
  <1>1. /\ SocketInv /\ SocketStep(c) /\ UNCHANGED <<list, seen>>
        /\ ~HasOp(strand[c], "graceful")
    BY DEF IInv, ConnOK, Forced, Socket, acceptorVars, mainVars
  <1>2. /\ state[c] # "none" /\ state'[c] # "none"
        /\ \A d \in Conns \ {c} : state'[d] = state[d]
        /\ state[c] = "closed" => state'[c] = "closed"
    BY <1>1, SocketEffect, SocketStepFrame
  <1>3. CASE UNCHANGED <<mainQ, read>>
    <2>1. ASSUME NEW d \in Conns \ {c} PROVE OrderOK(d)'
      BY <1>1, <1>2, <1>3, OrderLike, OrderParts DEF Order
    <2>2. /\ Handled(seen[c], read[c], state'[c])
          /\ Waiting(mainQ, c, Len(seen[c]), read[c], state'[c])
      BY <1>2, OrderParts, HappenedLater
    <2>3. OrderOK(c)'
      BY <1>1, <1>2, <1>3, <2>2, OrderParts DEF OrderOK, NotDown
    <2> QED
      BY <2>1, <2>3 DEF Order
  <1>4. CASE ReadMsg(c)
    <2>1. /\ state[c] = "open" /\ UNCHANGED state /\ mainQ' = Append(mainQ, msg)
          /\ read'[c] = read[c] + 1 /\ \A d \in Conns \ {c} : read'[d] = read[d]
      BY <1>4, OrderParts DEF ReadMsg
    <2>2. /\ msg \in Events /\ msg.what = "msg" /\ msg.conn = c /\ msg.n = read[c] + 1
          /\ mainQ \in Seq(Events)
      <3>1. read[c] + 1 \in Nat /\ mainQ \in Seq(Events)
        BY OrderParts
      <3>2. msg \in Events /\ msg.what = "msg" /\ msg.conn = c
        BY <3>1, Entries
      <3> QED
        BY <3>1, <3>2 DEF Entry
    <2> HIDE DEF msg
    <2>3. ASSUME NEW d \in Conns \ {c} PROVE OrderOK(d)'
      <3>1. InQueue(mainQ', "down", d) => InQueue(mainQ, "down", d)
        <4>1. InQueue(Append(mainQ, msg), "down", d) <=>
                InQueue(mainQ, "down", d) \/ (msg.what = "down" /\ msg.conn = d)
          BY <2>2, InAppend
        <4> QED
          BY <2>1, <2>2, <4>1
      <3>2. Waiting(mainQ', d, Len(seen[d]), read[d], state[d])
        BY <2>1, <2>2, OrderParts, WaitingAppend
      <3> QED
        BY <1>1, <2>1, <3>1, <3>2, OrderLike DEF Order
    <2>4. \A i \in 1..Len(seen[c]) : seen[c][i].what # "down"
      BY <2>1, OrderParts DEF Handled, Happened
    <2>5. Len(seen[c]) <= read[c] + 1 /\ Handled(seen[c], read[c] + 1, "open")
      BY <2>1, <2>4, OrderParts, HandledMore
    <2>6. Waiting(mainQ', c, Len(seen[c]), read[c] + 1, "open")
      BY <2>1, <2>2, <2>5, OrderParts, WaitingMsg
    <2>7. InQueue(mainQ', "down", c) => InQueue(mainQ, "down", c)
      <3>1. \A what : InQueue(Append(mainQ, msg), what, c) <=>
                          InQueue(mainQ, what, c) \/ (msg.what = what /\ msg.conn = c)
        BY <2>2, InAppend
      <3> QED
        BY <2>1, <2>2, <3>1
    <2>8. OrderOK(c)'
      BY <1>1, <2>1, <2>5, <2>6, <2>7, OrderParts DEF OrderOK, NotDown
    <2> QED
      BY <2>3, <2>8 DEF Order
  <1> QED
    BY <1>1, <1>3, <1>4, SocketReads

\* "down" comes once, when the socket reads no more.
LEMMA SocketClosedOrder ==
    ASSUME IInv, RestTypes, Order, SocketClosed
    PROVE  Order'
  <1>1. /\ handlerQ # <<>> /\ Head(handlerQ).what = "gone" /\ handlerQ' = Tail(handlerQ)
        /\ UNCHANGED <<state, read, seen, phase>>
    BY DEF SocketClosed, Handler, mainVars, sockVars
  <1>2. PICK c \in Conns : c = Head(handlerQ).conn
    BY <1>1, Taken DEF HandlerEvents
  <1> DEFINE down == Entry("down", c, 0)
  <1>3. mainQ' = (IF c \in list THEN Append(mainQ, down) ELSE mainQ) /\ list' = list \ {c}
    BY <1>2 DEF SocketClosed
  <1>4. state[c] = "closed"
    BY <1>1, <1>2, Taken DEF IInv, ConnOK, Forced
  <1>5. down \in Events /\ down.what = "down" /\ down.conn = c /\ mainQ \in Seq(Events)
    BY Entries, OrderParts
  <1> HIDE DEF down
  <1>6. CASE c \notin list
    BY <1>1, <1>3, <1>6, OrderStill
  <1>7. CASE c \in list
    <2>1. mainQ' = Append(mainQ, down)
      BY <1>3, <1>7
    <2>2. ASSUME NEW d \in Conns \ {c} PROVE OrderOK(d)'
      <3>1. InQueue(mainQ', "down", d) => InQueue(mainQ, "down", d)
        BY <1>5, <2>1, InAppend
      <3>2. Waiting(mainQ', d, Len(seen[d]), read[d], state[d])
        BY <1>5, <2>1, OrderParts, WaitingAppend
      <3> QED
        BY <1>1, <1>3, <3>1, <3>2, OrderLike DEF Order
    <2>3. ~InQueue(mainQ, "down", c) /\ \A i \in 1..Len(seen[c]) : seen[c][i].what # "down"
      BY <1>7, OrderParts DEF NotDown
    <2>4. Len(seen[c]) <= read[c] + 1
      BY <2>3, OrderParts, HandledMore
    <2>5. Waiting(mainQ', c, Len(seen[c]), read[c], "closed")
      BY <1>4, <1>5, <2>1, <2>3, <2>4, OrderParts, WaitingDown
    <2>6. OrderOK(c)'
      BY <1>1, <1>3, <1>4, <2>5, OrderParts DEF OrderOK, NotDown
    <2> QED
      BY <2>2, <2>6 DEF Order
  <1> QED
    BY <1>6, <1>7

\* The main thread handles the next event of a connection.
LEMMA MainHandleOrder ==
    ASSUME IInv, RestTypes, Order, MainHandle
    PROVE  Order'
  <1>1. /\ mainQ # <<>> /\ mainQ' = Tail(mainQ) /\ UNCHANGED <<state, read, list>>
        /\ mainQ \in Seq(Events) /\ seen \in [Conns -> Seq(Notices)]
    BY DEF MainHandle, acceptorVars, sockVars, IInv, OwnerTypes, RestTypes
  <1>2. PICK e \in Events : e = Head(mainQ)
    BY <1>1
  <1>3. PICK c \in Conns : c = e.conn
    BY DEF Events
  <1> DEFINE note == [what |-> e.what, n |-> e.n]
  <1>4. /\ note \in Notices /\ note.what = e.what /\ note.n = e.n
        /\ seen' = [seen EXCEPT ![c] = Append(@, note)]
    BY <1>2, <1>3 DEF Events, Notices, MainHandle
  <1>5. /\ \A k : Turn(note, k) = Turn(e, k)
        /\ \A k, st : Happened(note, k, st) <=> Happened(e, k, st)
    BY DEF Turn, Happened
  <1> HIDE DEF note
  <1>6. /\ seen'[c] = Append(seen[c], note) /\ Len(Append(seen[c], note)) = Len(seen[c]) + 1
        /\ \A d \in Conns \ {c} : seen'[d] = seen[d]
    BY <1>1, <1>4, OrderParts
  <1>7. \A what, d : InQueue(mainQ, what, d) <=>
            InQueue(mainQ', what, d) \/ (e.what = what /\ c = d)
    BY <1>1, <1>2, <1>3, InTail
  <1>8. ASSUME NEW d \in Conns \ {c} PROVE OrderOK(d)'
    <2>1. Waiting(mainQ', d, Len(seen[d]), read[d], state[d])
      BY <1>1, <1>2, <1>3, OrderParts, WaitingTail
    <2> QED
      BY <1>1, <1>6, <1>7, <2>1, OrderLike DEF Order
  <1>9. /\ Happened(e, read[c], state[c]) /\ Turn(e, read[c]) = Len(seen[c]) + 1
        /\ Waiting(mainQ', c, Len(seen[c]) + 1, read[c], state[c])
    <2> DEFINE n == Len(seen[c])
               k == read[c]
               st == state[c]
    <2>1. Waiting(mainQ, c, n, k, st) /\ n \in Nat /\ k \in Nat
      BY OrderParts
    <2> HIDE DEF n, k, st
    <2>2. Head(mainQ).conn = c
      BY <1>2, <1>3
    <2>3. /\ Happened(Head(mainQ), k, st) /\ Turn(Head(mainQ), k) = n + 1
          /\ Waiting(Tail(mainQ), c, n + 1, k, st)
      BY <1>1, <2>1, <2>2, WaitingTake, Zenon
    <2> QED
      BY <1>1, <1>2, <2>3 DEF n, k, st
  <1>10. Handled(Append(seen[c], note), read[c], state[c])
    BY <1>4, <1>5, <1>9, OrderParts, HandledNext
  <1>11. NotDown(c)'
    <2> SUFFICES ASSUME c \in list
                 PROVE  \A i \in 1..Len(seen'[c]) : seen'[c][i].what # "down"
      BY <1>1, <1>7, OrderParts DEF NotDown
    <2>1. e.what # "down" /\ \A i \in 1..Len(seen[c]) : seen[c][i].what # "down"
      BY <1>7, OrderParts DEF NotDown
    <2> QED
      BY <1>4, <1>6, <2>1, OrderParts
  <1>12. OrderOK(c)'
    BY <1>1, <1>6, <1>9, <1>10, <1>11 DEF OrderOK
  <1> QED
    BY <1>8, <1>12 DEF Order

\* Every step keeps the order of the events.
LEMMA StepOrder == IInv /\ RestTypes /\ Order /\ [Next]_vars => Order'
  <1> SUFFICES ASSUME IInv, RestTypes, Order, [Next]_vars PROVE Order'
    OBVIOUS
  <1>1. CASE \E c \in Conns : Accept(c) \/ Socket(c)
    BY <1>1, AcceptOrder, SocketOrder
  <1>2. CASE SocketClosed
    BY <1>2, SocketClosedOrder
  <1>3. CASE MainHandle
    BY <1>3, MainHandleOrder
  <1>4. CASE DelSocket \/ ClearList
    <2>1. UNCHANGED <<state, read, seen, mainQ>> /\ list' \subseteq list
      BY <1>4 DEF DelSocket, ClearList, CloseAll, mainVars
    <2> QED
      BY <2>1, OrderStill
  <1>5. CASE \E c \in Conns : MainClose(c) \/ MainWrite(c)
    <2>1. UNCHANGED <<state, read, seen, mainQ>> /\ list' \subseteq list
      BY <1>5 DEF MainClose, MainWrite, Write, acceptorVars, mainVars, sockVars
    <2> QED
      BY <2>1, OrderStill
  <1>6. CASE StopListen \/ MainStop \/ MainClear \/ UNCHANGED vars
    <2>1. UNCHANGED <<state, read, seen, mainQ>> /\ list' \subseteq list
      BY <1>6 DEF StopListen, MainStop, MainClear, vars, acceptorVars, mainVars, sockVars
    <2> QED
      BY <2>1, OrderStill
  <1> QED
    BY <1>1, <1>2, <1>3, <1>4, <1>5, <1>6 DEF Next, AcceptorStep, Main

\* The initial state.
LEMMA InitOrder == Init => RestTypes /\ Order
  <1> SUFFICES ASSUME Init PROVE RestTypes /\ Order
    OBVIOUS
  <1>1. RestTypes
    BY DEF Init, RestTypes
  <1>2. ASSUME NEW c \in Conns PROVE OrderOK(c)
    <2>1. /\ state[c] = "none" /\ read[c] = 0 /\ seen[c] = <<>> /\ mainQ = <<>>
          /\ list = {}
      BY DEF Init, SocketInit
    <2>2. Waiting(<<>>, c, 0, 0, "none") /\ Handled(<<>>, 0, "none")
      BY DEF Waiting, Handled
    <2> QED
      BY <2>1, <2>2 DEF OrderOK, NotDown
  <1> QED
    BY <1>1, <1>2 DEF Order

\* What TypeOK adds to the inductive invariant is kept, too.
LEMMA StepTypes == IInv /\ RestTypes /\ [Next]_vars => RestTypes'
  <1> SUFFICES ASSUME IInv, RestTypes, [Next]_vars PROVE RestTypes'
    OBVIOUS
  <1>1. CASE \E c \in Conns : Accept(c) \/ Socket(c) \/ MainClose(c) \/ MainWrite(c)
    BY <1>1 DEF Accept, Socket, MainClose, MainWrite, acceptorVars, mainVars, RestTypes
  <1>2. CASE AcceptorStep \/ MainStop \/ MainClear \/ UNCHANGED vars
    BY <1>2 DEF AcceptorStep, DelSocket, SocketClosed, StopListen, ClearList, MainStop,
                MainClear, acceptorVars, mainVars, vars, RestTypes
  <1>3. CASE MainHandle
    <2>1. Head(mainQ) \in Events /\ UNCHANGED <<listening, phase>>
      BY <1>3 DEF MainHandle, acceptorVars, IInv, OwnerTypes
    <2> DEFINE c == Head(mainQ).conn
               note == [what |-> Head(mainQ).what, n |-> Head(mainQ).n]
    <2>2. c \in Conns /\ note \in Notices
      BY <2>1 DEF Events, Notices
    <2>3. seen' = [seen EXCEPT ![c] = Append(@, note)]
      BY <1>3 DEF MainHandle
    <2> HIDE DEF c, note
    <2>4. seen' \in [Conns -> Seq(Notices)]
      BY <2>2, <2>3 DEF RestTypes
    <2> QED
      BY <2>1, <2>4 DEF RestTypes
  <1> QED
    BY <1>1, <1>2, <1>3 DEF Next, Main

----------------------------------------------------------------------------
(* The theorems.                                                           *)

\* The inductive invariant holds in every behaviour of network/acceptor.cpp.
THEOREM AcceptorInductive == Spec => []IInv
  BY InitInv, StepInv, PTL DEF Spec

\* The types of all of its variables, and the order of the events, too.
THEOREM AcceptorOrder == Spec => [](RestTypes /\ Order)
  BY InitOrder, StepOrder, StepTypes, AcceptorInductive, PTL DEF Spec

\* Every variable of the model of network/acceptor.cpp keeps to its type.
THEOREM AcceptorTypes == Spec => []TypeOK
  <1>1. IInv /\ RestTypes => TypeOK
    BY DEF IInv, SocketInv, OwnerTypes, RestTypes, Notices, TypeOK
  <1> QED
    BY <1>1, AcceptorInductive, AcceptorOrder, PTL

\* The main thread is told of each connection that it is up, then of each of its
\* messages once and in the order received, then at most once that it is down.
THEOREM AcceptorEventsInOrder == Spec => []EventsInOrder
  <1>1. Order => EventsInOrder
    BY DEF Order, OrderOK, EventsInOrder
  <1> QED
    BY <1>1, AcceptorOrder, PTL

\* Whatever the order in which clients, the kernel, the acceptor and the main thread
\* act, a running server that still holds a connection that has closed has its
\* on_del_... callback coming: no ghost is left in a server.
THEOREM AcceptorNoGhost == Spec => []NoGhost
  <1>1. IInv => NoGhost
    BY DEF IInv, ConnOK, Told, Dropped, NoGhost
  <1> QED
    BY <1>1, AcceptorInductive, PTL

\* acceptor_t forgets no open socket: one that is not in m_tcp_socket_list has a
\* forced close() coming.
THEOREM AcceptorNoneForgotten == Spec => []NoneForgotten
  <1>1. IInv => NoneForgotten
    BY DEF IInv, ConnOK, Listed, HasOp, NoneForgotten
  <1> QED
    BY <1>1, AcceptorInductive, PTL

\* On the connections of a port, too, the buffers reach TCP in order and none is
\* left lying.
THEOREM AcceptorWrites == Spec => [](WireInOrder /\ NothingHeldBack)
  <1>1. IInv => WireInOrder /\ NothingHeldBack
    BY SocketInvMeans DEF IInv
  <1> QED
    BY <1>1, AcceptorInductive, PTL
=============================================================================
