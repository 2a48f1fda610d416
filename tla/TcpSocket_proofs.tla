--------------------------- MODULE TcpSocket_proofs ---------------------------
(***************************************************************************)
(* What every step of network/tcp_socket.cpp preserves, whoever owns the   *)
(* sockets: the lemmas that the proofs about Acceptor and Connector share. *)
(***************************************************************************)
EXTENDS TcpSocket, TLAPS

\* How many buffers a request adds.
Adds(r) == IF r.op = "write" THEN 1 ELSE 0

\* A write side o, with w handed to TCP and n buffers accepted: while a write is in
\* progress its rest and the idle buffer follow what TCP has; otherwise nothing is
\* buffered.
OutFits(o, w, n) ==
    /\ Run(w, 0)
    /\ o.pending =>
         /\ Run(o.left, Len(w))
         /\ Run(o.buf[o.idle], Len(w) + Len(o.left))
         /\ n = Len(w) + Len(o.left) + Len(o.buf[o.idle])
    /\ ~o.pending =>
         /\ o.left = <<>> /\ o.wrap = <<>> /\ o.buf[0] = <<>> /\ o.buf[1] = <<>>
         /\ n = Len(w)

\* Requests s carry on the numbering from n accepted buffers to p posted ones.
Chain(s, n, p) ==
    /\ p = IF s = <<>> THEN n ELSE s[Len(s)].n
    /\ \A i \in 1..Len(s) :
          /\ n <= s[i].n /\ s[i].n <= p
          /\ s[i].n = (IF i = 1 THEN n ELSE s[i - 1].n) + Adds(s[i])
    /\ \A i, j \in 1..Len(s) : i <= j => s[i].n <= s[j].n

\* A socket's state, write side, and the requests in its strand.
Fits(st, o, s, w, n, p) ==
    /\ OutFits(o, w, n)
    /\ n <= p
    /\ st = "none" => s = <<>> /\ p = 0
    /\ st \in {"none", "open"} => Chain(s, n, p)
    /\ st = "shutdown_writing" => o.pending

SocketOK(c) == Fits(state[c], out[c], strand[c], wire[c], accepted[c], posted[c])

SocketInv ==
    /\ SocketTypeOK
    /\ \A c \in Conns : SocketOK(c)

\* Nothing about d changes.
Same(d) ==
    /\ state'[d] = state[d]
    /\ out'[d] = out[d]
    /\ strand'[d] = strand[d]
    /\ posted'[d] = posted[d]
    /\ accepted'[d] = accepted[d]
    /\ wire'[d] = wire[d]

----------------------------------------------------------------------------
(* Sums and sequences.                                                     *)

\* Moving one from a number to another.
LEMMA MoveOne == \A a, b \in Nat : (a + 1) + (b - 1) = a + b
  OBVIOUS

\* A sum is at least its first part.
LEMMA AtMostSum == \A a, b, d \in Nat : a <= a + b + d
  OBVIOUS

\* Concatenating to the empty sequence.
LEMMA EmptyConcat ==
    ASSUME NEW S, NEW s \in Seq(S)
    PROVE  <<>> \o s = s
  OBVIOUS

\* A sequence with an element is not the empty one.
LEMMA AppendRun ==
    ASSUME NEW s \in Seq(Nat), NEW from \in Nat, Run(s, from)
    PROVE  LET t == Append(s, from + Len(s) + 1) IN
           t \in Seq(Nat) /\ Len(t) = Len(s) + 1 /\ Run(t, from)
  <1> DEFINE t == Append(s, from + Len(s) + 1)
  <1>1. t \in Seq(Nat) /\ Len(t) = Len(s) + 1
    OBVIOUS
  <1>2. ASSUME NEW i \in 1..Len(t) PROVE t[i] = from + i
    <2>1. CASE i = Len(s) + 1
      BY <2>1
    <2>2. CASE i \in 1..Len(s)
      BY <2>2 DEF Run
    <2> QED
      BY <1>1, <2>1, <2>2
  <1> QED
    BY <1>1, <1>2 DEF Run

\* The tail of a run is a run.
LEMMA TailRun ==
    ASSUME NEW s \in Seq(Nat), NEW from \in Nat, Run(s, from), s # <<>>
    PROVE  /\ Head(s) = from + 1
           /\ Tail(s) \in Seq(Nat) /\ Len(Tail(s)) = Len(s) - 1
           /\ Run(Tail(s), from + 1)
  BY DEF Run

\* A request appended with the next number.
LEMMA ChainAppend ==
    ASSUME NEW s \in Seq(Requests), NEW n \in Nat, NEW p \in Nat, Chain(s, n, p),
           NEW r \in Requests, r.n = p + Adds(r)
    PROVE  Chain(Append(s, r), n, r.n)
  <1> DEFINE t == Append(s, r)
  <1>1. t \in Seq(Requests) /\ Len(t) = Len(s) + 1 /\ t[Len(t)] = r /\ t # <<>>
    OBVIOUS
  <1>2. \A i \in 1..Len(s) : t[i] = s[i] /\ s[i] \in Requests
    OBVIOUS
  <1>3. n <= p /\ p <= r.n
    BY DEF Chain, Adds, Requests
  <1>4. ASSUME NEW i \in 1..Len(t)
        PROVE  /\ n <= t[i].n /\ t[i].n <= r.n
               /\ t[i].n = (IF i = 1 THEN n ELSE t[i - 1].n) + Adds(t[i])
    <2>1. CASE i = Len(s) + 1
      <3>1. CASE s = <<>>
        BY <1>1, <1>3, <2>1, <3>1 DEF Chain, Requests
      <3>2. CASE s # <<>>
        BY <1>1, <1>2, <1>3, <2>1, <3>2 DEF Chain, Requests
      <3> QED
        BY <3>1, <3>2
    <2>2. CASE i \in 1..Len(s)
      <3>1. i # 1 => i - 1 \in 1..Len(s)
        BY <2>2
      <3>2. s[i].n \in Nat
        BY <1>2, <2>2 DEF Requests
      <3> QED
        BY <1>2, <1>3, <2>2, <3>1, <3>2, SMTT(60) DEF Chain, Requests
    <2> QED
      BY <1>1, <2>1, <2>2
  <1>5. ASSUME NEW i \in 1..Len(t), NEW j \in 1..Len(t), i <= j
        PROVE  t[i].n <= t[j].n
    <2>1. CASE j = Len(s) + 1
      BY <1>1, <1>4, <2>1
    <2>2. CASE j \in 1..Len(s)
      BY <1>2, <1>5, <2>2 DEF Chain
    <2> QED
      BY <1>1, <2>1, <2>2
  <1> QED
    BY <1>1, <1>4, <1>5 DEF Chain

\* The first request taken out.
LEMMA ChainTail ==
    ASSUME NEW s \in Seq(Requests), NEW n \in Nat, NEW p \in Nat, Chain(s, n, p), s # <<>>
    PROVE  /\ Head(s) \in Requests
           /\ Head(s).n = n + Adds(Head(s))
           /\ Head(s).n <= p
           /\ Chain(Tail(s), Head(s).n, p)
  <1> DEFINE t == Tail(s)
  <1>1. /\ Head(s) = s[1] /\ Head(s) \in Requests
        /\ t \in Seq(Requests) /\ Len(t) = Len(s) - 1
        /\ \A i \in 1..Len(t) : t[i] = s[i + 1] /\ i + 1 \in 1..Len(s)
        /\ 1 \in 1..Len(s) /\ Len(s) \in Nat
    OBVIOUS
  <1> HIDE DEF t
  <1>2. Head(s).n = n + Adds(Head(s)) /\ Head(s).n <= p
    <2>1. \A i \in 1..Len(s) :
            /\ s[i].n <= p
            /\ s[i].n = (IF i = 1 THEN n ELSE s[i - 1].n) + Adds(s[i])
      BY DEF Chain
    <2>2. s[1].n <= p /\ s[1].n = n + Adds(s[1])
      BY <1>1, <2>1
    <2> QED
      BY <1>1, <2>2
  <1>3. p = IF t = <<>> THEN Head(s).n ELSE t[Len(t)].n
    <2>1. p = s[Len(s)].n
      BY DEF Chain
    <2>2. CASE t = <<>>
      <3>1. Len(t) = 0
        BY <2>2
      <3>2. Len(s) = 1
        BY <1>1, <3>1
      <3>3. p = Head(s).n
        BY <1>1, <2>1, <3>2
      <3> QED
        BY <2>2, <3>3
    <2>3. CASE t # <<>>
      <3>1. Len(t) \in 1..Len(t) /\ Len(t) + 1 = Len(s)
        BY <1>1, <2>3
      <3> QED
        BY <1>1, <2>1, <2>3, <3>1
    <2> QED
      BY <2>2, <2>3
  <1>4. ASSUME NEW i \in 1..Len(t)
        PROVE  /\ Head(s).n <= t[i].n /\ t[i].n <= p
               /\ t[i].n = (IF i = 1 THEN Head(s).n ELSE t[i - 1].n) + Adds(t[i])
    <2>1. t[i] = s[i + 1] /\ i + 1 \in 1..Len(s) /\ i + 1 # 1 /\ (i + 1) - 1 = i
      BY <1>1
    <2>2. s[i] = IF i = 1 THEN Head(s) ELSE t[i - 1]
      <3>1. CASE i = 1
        BY <1>1, <3>1
      <3>2. CASE i # 1
        <4>1. i - 1 \in 1..Len(t) /\ (i - 1) + 1 = i
          BY <3>2
        <4> QED
          BY <1>1, <3>2, <4>1
      <3> QED
        BY <3>1, <3>2
    <2>3. /\ n <= s[1].n /\ s[1].n <= s[i + 1].n /\ s[i + 1].n <= p
          /\ s[i + 1].n = s[i].n + Adds(s[i + 1])
      BY <1>1, <2>1 DEF Chain
    <2> QED
      BY <1>1, <2>1, <2>2, <2>3
  <1>5. ASSUME NEW i \in 1..Len(t), NEW j \in 1..Len(t), i <= j PROVE t[i].n <= t[j].n
    <2>1. i + 1 \in 1..Len(s) /\ j + 1 \in 1..Len(s) /\ i + 1 <= j + 1
      BY <1>1, <1>5
    <2>2. s[i + 1].n <= s[j + 1].n
      BY <2>1 DEF Chain
    <2> QED
      BY <1>1, <2>2
  <1>6. Chain(t, Head(s).n, p)
    BY <1>3, <1>4, <1>5 DEF Chain
  <1> QED
    BY <1>1, <1>2, <1>6 DEF t

----------------------------------------------------------------------------
(* The queues of the owner and of the main thread.                         *)

\* Queue q has an event of c.
Mentions(q, c) == \E i \in 1..Len(q) : q[i].conn = c

\* What an appended event adds to a queue.
LEMMA InAppend ==
    ASSUME NEW S, NEW q \in Seq(S), NEW e \in S, NEW c
    PROVE  /\ \A what : InQueue(Append(q, e), what, c) <=>
                          InQueue(q, what, c) \/ (e.what = what /\ e.conn = c)
           /\ Mentions(Append(q, e), c) <=> Mentions(q, c) \/ e.conn = c
  <1> DEFINE t == Append(q, e)
  <1>1. /\ Len(t) = Len(q) + 1 /\ Len(q) \in Nat /\ t[Len(q) + 1] = e
        /\ \A i \in 1..Len(q) : t[i] = q[i]
    OBVIOUS
  <1> HIDE DEF t
  <1>2. \A i \in 1..Len(t) : i \in 1..Len(q) \/ i = Len(q) + 1
    BY <1>1
  <1>3. \A i \in 1..Len(q) : i \in 1..Len(t)
    BY <1>1
  <1>4. Len(q) + 1 \in 1..Len(t)
    BY <1>1
  <1>5. \A what : InQueue(t, what, c) <=> InQueue(q, what, c) \/ (e.what = what /\ e.conn = c)
    BY <1>1, <1>2, <1>3, <1>4, ZenonT(60) DEF InQueue
  <1>6. Mentions(t, c) <=> Mentions(q, c) \/ e.conn = c
    BY <1>1, <1>2, <1>3, <1>4, ZenonT(60) DEF Mentions
  <1> QED
    BY <1>5, <1>6 DEF t

\* What the first event has to do with a queue.
LEMMA InTail ==
    ASSUME NEW S, NEW q \in Seq(S), q # <<>>, NEW c
    PROVE  /\ Head(q) \in S /\ Tail(q) \in Seq(S)
           /\ \A what : InQueue(q, what, c) <=>
                          InQueue(Tail(q), what, c) \/ (Head(q).what = what /\ Head(q).conn = c)
           /\ Mentions(q, c) <=> Mentions(Tail(q), c) \/ Head(q).conn = c
  <1> DEFINE t == Tail(q)
  <1>1. /\ Len(t) = Len(q) - 1 /\ Len(q) \in Nat /\ Len(q) # 0 /\ Head(q) = q[1]
        /\ Head(q) \in S /\ t \in Seq(S)
        /\ \A i \in 1..Len(t) : t[i] = q[i + 1]
    OBVIOUS
  <1> HIDE DEF t
  <1>2. \A i \in 1..Len(q) : i = 1 \/ (i - 1 \in 1..Len(t) /\ t[i - 1] = q[i])
    BY <1>1
  <1>3. \A i \in 1..Len(t) : i + 1 \in 1..Len(q)
    BY <1>1
  <1>4. 1 \in 1..Len(q)
    BY <1>1
  <1>5. \A what : InQueue(q, what, c) <=>
                    InQueue(t, what, c) \/ (Head(q).what = what /\ Head(q).conn = c)
    <2> SUFFICES ASSUME NEW what
                 PROVE  InQueue(q, what, c) <=>
                          InQueue(t, what, c) \/ (Head(q).what = what /\ Head(q).conn = c)
      OBVIOUS
    <2>1. InQueue(q, what, c) =>
            InQueue(t, what, c) \/ (Head(q).what = what /\ Head(q).conn = c)
      BY <1>1, <1>2, ZenonT(60) DEF InQueue
    <2>2. InQueue(t, what, c) => InQueue(q, what, c)
      BY <1>1, <1>3, ZenonT(60) DEF InQueue
    <2>3. Head(q).what = what /\ Head(q).conn = c => InQueue(q, what, c)
      BY <1>1, <1>4, ZenonT(60) DEF InQueue
    <2> QED
      BY <2>1, <2>2, <2>3
  <1>6. Mentions(q, c) <=> Mentions(t, c) \/ Head(q).conn = c
    <2>1. Mentions(q, c) => Mentions(t, c) \/ Head(q).conn = c
      BY <1>1, <1>2, ZenonT(60) DEF Mentions
    <2>2. Mentions(t, c) => Mentions(q, c)
      BY <1>1, <1>3, ZenonT(60) DEF Mentions
    <2>3. Head(q).conn = c => Mentions(q, c)
      BY <1>1, <1>4, ZenonT(60) DEF Mentions
    <2> QED
      BY <2>1, <2>2, <2>3
  <1> QED
    BY <1>1, <1>5, <1>6 DEF t

----------------------------------------------------------------------------
(* The write side.                                                         *)

\* do_write with a write in progress or without.
LEMMA DoWriteFits ==
    ASSUME NEW o \in Outs, NEW w \in Buffers, NEW n \in Nat, Run(w, 0),
           \/ OutFits(o, w, n)
           \/ /\ ~o.pending /\ o.wrap = <<>> /\ o.left = <<>> /\ o.buf[1 - o.idle] = <<>>
              /\ Run(o.buf[o.idle], Len(w)) /\ n = Len(w) + Len(o.buf[o.idle])
    PROVE  /\ DoWrite(o) \in Outs
           /\ OutFits(DoWrite(o), w, n)
  <1>1. /\ o.idle \in {0, 1} /\ 1 - o.idle \in {0, 1}
        /\ o.buf[o.idle] \in Seq(Nat) /\ o.buf[1 - o.idle] \in Seq(Nat) /\ o.pending \in BOOLEAN
    BY DEF Outs, Buffers
  <1>2. CASE o.pending \/ o.buf[o.idle] = <<>>
    <2>1. DoWrite(o) = o
      BY <1>2 DEF DoWrite
    <2>2. CASE OutFits(o, w, n)
      BY <2>1, <2>2
    <2>3. CASE ~OutFits(o, w, n)
      <3>1. ~o.pending /\ o.buf[o.idle] = <<>> /\ o.buf[1 - o.idle] = <<>> /\ n = Len(w)
        BY <1>1, <1>2, <2>3
      <3>2. o.buf[0] = <<>> /\ o.buf[1] = <<>>
        BY <1>1, <3>1
      <3> QED
        BY <2>1, <2>3, <3>1, <3>2 DEF OutFits
    <2> QED
      BY <2>2, <2>3
  <1>3. CASE ~(o.pending \/ o.buf[o.idle] = <<>>)
    <2>1. /\ ~o.pending /\ o.wrap = <<>> /\ o.buf[1 - o.idle] = <<>>
          /\ Run(o.buf[o.idle], Len(w)) /\ n = Len(w) + Len(o.buf[o.idle])
      <3>1. CASE OutFits(o, w, n)
        <4>1. o.buf[0] # <<>> \/ o.buf[1] # <<>>
          BY <1>1, <1>3
        <4> QED
          BY <1>3, <3>1, <4>1 DEF OutFits
      <3>2. CASE ~OutFits(o, w, n)
        BY <3>2
      <3> QED
        BY <3>1, <3>2
    <2> DEFINE b == o.buf[o.idle]
    <2>2. o.wrap \o b = b
      BY <1>1, <2>1, EmptyConcat
    <2>3. DoWrite(o) = [o EXCEPT !.pending = TRUE, !.wrap = b, !.left = b, !.idle = 1 - @]
      BY <1>3, <2>2 DEF DoWrite
    <2> DEFINE d == [o EXCEPT !.pending = TRUE, !.wrap = b, !.left = b, !.idle = 1 - @]
    <2>4. d \in Outs
      BY <1>1 DEF Outs, Buffers
    <2>5. /\ d.pending /\ d.left = b /\ d.buf[d.idle] = <<>>
      BY <1>1, <2>1 DEF Outs
    <2>6. Run(<<>>, Len(w) + Len(b)) /\ Len(w) + Len(b) \in Nat
      BY <1>1 DEF Run, Buffers
    <2>7. n = Len(w) + Len(b) + Len(<<>>)
      BY <2>1, <2>6
    <2>8. OutFits(d, w, n)
      BY <2>1, <2>5, <2>6, <2>7 DEF OutFits
    <2> QED
      BY <2>3, <2>4, <2>8
  <1> QED
    BY <1>2, <1>3

\* The initial state.
LEMMA SocketInitInv == SocketInit => SocketInv
  BY DEF SocketInit, SocketInv, SocketTypeOK, SocketOK, Fits, OutFits, Chain, Run, NewOut,
         SocketStates, Outs, Buffers, Requests

\* A step about one connection need only be looked at there.
LEMMA OneSocket ==
    ASSUME SocketInv, SocketTypeOK', NEW c \in Conns,
           \A d \in Conns \ {c} : Same(d),
           SocketOK(c)'
    PROVE  SocketInv'
  BY DEF SocketInv, Same, SocketOK

\* What the types say of one connection.
LEMMA Parts ==
    ASSUME SocketInv, NEW c \in Conns
    PROVE  /\ state[c] \in SocketStates /\ notify[c] \in BOOLEAN /\ out[c] \in Outs
           /\ strand[c] \in Seq(Requests) /\ posted[c] \in Nat /\ accepted[c] \in Nat
           /\ wire[c] \in Buffers /\ read[c] \in Nat /\ SocketOK(c)
  BY DEF SocketInv, SocketTypeOK

\* Stuttering.
LEMMA SocketStutter ==
    ASSUME SocketInv, UNCHANGED sockVars
    PROVE  SocketInv'
  BY DEF SocketInv, SocketTypeOK, SocketOK, sockVars

----------------------------------------------------------------------------
(* What the owner of the sockets does.                                     *)

\* The constructor.
LEMMA ConstructInv ==
    ASSUME SocketInv, NEW c \in Conns, Construct(c)
    PROVE  SocketInv'
  <1>1. SocketTypeOK' /\ \A d \in Conns \ {c} : Same(d)
    BY DEF SocketInv, SocketTypeOK, Construct, SocketStates, Same
  <1>2. SocketOK(c)'
    BY DEF SocketInv, SocketTypeOK, SocketOK, Fits, Construct
  <1> QED
    BY <1>1, <1>2, OneSocket

\* write() of a constructed socket.
LEMMA WriteInv ==
    ASSUME SocketInv, NEW c \in Conns, state[c] # "none", Write(c)
    PROVE  SocketInv'
  <1> DEFINE r == Request(c, "write")
  <1>1. /\ posted[c] \in Nat /\ accepted[c] \in Nat /\ strand[c] \in Seq(Requests)
        /\ SocketOK(c)
    BY DEF SocketInv, SocketTypeOK
  <1>2. r \in Requests /\ r.n = posted[c] + 1 /\ Adds(r) = 1
    BY <1>1 DEF Request, Requests, Adds
  <1>3. SocketTypeOK' /\ \A d \in Conns \ {c} : Same(d)
    BY <1>1, <1>2 DEF SocketInv, SocketTypeOK, Write, Same
  <1>4. strand'[c] = Append(strand[c], r) /\ posted'[c] = posted[c] + 1
    BY <1>1 DEF SocketInv, SocketTypeOK, Write
  <1>5. state[c] = "open" => Chain(strand'[c], accepted[c], posted'[c])
    BY <1>1, <1>2, <1>4, ChainAppend DEF SocketOK, Fits
  <1>6. SocketOK(c)'
    BY <1>1, <1>4, <1>5 DEF SocketOK, Fits, Write
  <1> QED
    BY <1>3, <1>6, OneSocket

\* close() of constructed sockets.
LEMMA CloseAllInv ==
    ASSUME SocketInv, NEW cs \in SUBSET Conns, \A c \in cs : state[c] # "none",
           NEW how \in {"forced", "graceful"}, CloseAll(cs, how)
    PROVE  SocketInv'
  <1>1. ASSUME NEW c \in Conns
        PROVE  Request(c, how) \in Requests /\ Request(c, how).n = posted[c]
               /\ Adds(Request(c, how)) = 0
    <2>1. posted[c] \in Nat /\ how # "write"
      BY Parts
    <2>2. Request(c, how) = [op |-> how, n |-> posted[c]]
      BY <2>1 DEF Request
    <2> QED
      BY <2>1, <2>2 DEF Requests, Adds
  <1>2. SocketTypeOK'
    BY <1>1 DEF SocketInv, SocketTypeOK, CloseAll
  <1>3. ASSUME NEW c \in Conns PROVE SocketOK(c)'
    <2>1. /\ posted[c] \in Nat /\ accepted[c] \in Nat /\ strand[c] \in Seq(Requests)
          /\ SocketOK(c)
      BY DEF SocketInv, SocketTypeOK
    <2>2. CASE c \in cs
      <3>1. strand'[c] = Append(strand[c], Request(c, how))
        BY <2>2 DEF CloseAll
      <3>2. state[c] = "open" => Chain(strand'[c], accepted[c], posted[c])
        BY <1>1, <2>1, <3>1, ChainAppend DEF SocketOK, Fits
      <3> QED
        BY <2>1, <2>2, <3>2 DEF SocketOK, Fits, CloseAll
    <2>3. CASE c \notin cs
      BY <2>1, <2>3 DEF SocketOK, CloseAll
    <2> QED
      BY <2>2, <2>3
  <1> QED
    BY <1>2, <1>3 DEF SocketInv

----------------------------------------------------------------------------
(* The socket's own steps.                                                 *)

\* A handler taken off a strand.
LEMMA PopOne ==
    ASSUME SocketInv, NEW c \in Conns, strand[c] # <<>>, Pop(c)
    PROVE  /\ strand' \in [Conns -> Seq(Requests)]
           /\ strand'[c] = Tail(strand[c]) /\ Tail(strand[c]) \in Seq(Requests)
           /\ Head(strand[c]) \in Requests
           /\ \A d \in Conns \ {c} : strand'[d] = strand[d]
           /\ state[c] # "none"
  <1>1. strand \in [Conns -> Seq(Requests)] /\ strand[c] \in Seq(Requests)
    BY DEF SocketInv, SocketTypeOK
  <1>2. Tail(strand[c]) \in Seq(Requests) /\ Head(strand[c]) \in Requests
    BY <1>1
  <1>3. state[c] # "none"
    BY Parts DEF SocketOK, Fits
  <1> QED
    BY <1>1, <1>2, <1>3 DEF Pop

\* The handler of write(): the buffer joins the idle one.
LEMMA BufferAdded ==
    ASSUME NEW o \in Outs, NEW w \in Buffers, NEW n \in Nat, OutFits(o, w, n)
    PROVE  /\ DoWrite(Buffered(o, n + 1)) \in Outs
           /\ OutFits(DoWrite(Buffered(o, n + 1)), w, n + 1)
  <1> DEFINE b == Buffered(o, n + 1)
  <1>1. /\ o.idle \in {0, 1} /\ 1 - o.idle \in {0, 1} /\ 1 - o.idle # o.idle
        /\ o.buf \in [{0, 1} -> Buffers] /\ o.pending \in BOOLEAN /\ o.left \in Seq(Nat)
    BY DEF Outs, Buffers
  <1>2. o.buf[o.idle] \in Seq(Nat) /\ Append(o.buf[o.idle], n + 1) \in Seq(Nat)
    BY <1>1 DEF Buffers
  <1>3. b \in Outs
    BY <1>1, <1>2 DEF Outs, Buffers, Buffered
  <1>4. /\ b.pending = o.pending /\ b.idle = o.idle /\ b.left = o.left /\ b.wrap = o.wrap
        /\ b.buf[b.idle] = Append(o.buf[o.idle], n + 1)
        /\ b.buf[1 - b.idle] = o.buf[1 - o.idle]
    BY <1>1, <1>2 DEF Outs, Buffered
  <1>5. Len(w) \in Nat /\ Len(o.left) \in Nat /\ Run(w, 0)
    BY <1>1 DEF Buffers, OutFits
  <1>6. CASE o.pending
    <2> DEFINE from == Len(w) + Len(o.left)
    <2>1. Run(o.buf[o.idle], from) /\ from \in Nat /\ n + 1 = from + Len(o.buf[o.idle]) + 1
          /\ Run(o.left, Len(w))
      BY <1>5, <1>6 DEF OutFits
    <2>2. Run(b.buf[b.idle], from) /\ Len(b.buf[b.idle]) = Len(o.buf[o.idle]) + 1
      <3> DEFINE s == o.buf[o.idle]
      <3>1. s \in Seq(Nat) /\ Run(s, from) /\ from \in Nat /\ n + 1 = from + Len(s) + 1
        BY <1>2, <2>1
      <3> HIDE DEF s, from
      <3>2. Run(Append(s, n + 1), from) /\ Len(Append(s, n + 1)) = Len(s) + 1
        BY <3>1, AppendRun
      <3> QED
        BY <1>4, <3>2 DEF s
    <2>3. n + 1 = from + Len(b.buf[b.idle])
      <3>1. Len(o.buf[o.idle]) \in Nat
        BY <1>2
      <3> HIDE DEF from, b
      <3> QED
        BY <2>1, <2>2, <3>1
    <2>4. OutFits(b, w, n + 1)
      BY <1>4, <1>5, <1>6, <2>1, <2>2, <2>3 DEF OutFits
    <2> QED
      BY <1>3, <1>5, <2>4, DoWriteFits
  <1>7. CASE ~o.pending
    <2>1. /\ o.left = <<>> /\ o.wrap = <<>> /\ n = Len(w)
          /\ o.buf[o.idle] = <<>> /\ o.buf[1 - o.idle] = <<>>
      BY <1>1, <1>7 DEF OutFits
    <2>2. /\ b.buf[b.idle] = <<n + 1>>
          /\ ~b.pending /\ b.wrap = <<>> /\ b.left = <<>> /\ b.buf[1 - b.idle] = <<>>
      BY <1>4, <1>7, <2>1
    <2>3. Run(b.buf[b.idle], Len(w)) /\ n + 1 = Len(w) + Len(b.buf[b.idle])
      <3>1. Len(w) \in Nat /\ n + 1 = Len(w) + 1
        BY <1>5, <2>1
      <3>2. ASSUME NEW i \in 1..Len(<<n + 1>>) PROVE <<n + 1>>[i] = Len(w) + i
        BY <3>1
      <3>3. Run(<<n + 1>>, Len(w)) /\ Len(<<n + 1>>) = 1
        BY <3>2 DEF Run
      <3> QED
        BY <2>2, <3>1, <3>3
    <2> HIDE DEF b
    <2>4. DoWrite(b) \in Outs /\ OutFits(DoWrite(b), w, n + 1)
      <3>1. n + 1 \in Nat
        OBVIOUS
      <3>2. \/ OutFits(b, w, n + 1)
            \/ /\ ~b.pending /\ b.wrap = <<>> /\ b.left = <<>> /\ b.buf[1 - b.idle] = <<>>
               /\ Run(b.buf[b.idle], Len(w)) /\ n + 1 = Len(w) + Len(b.buf[b.idle])
        BY <2>2, <2>3
      <3> QED
        BY ONLY <1>3, <1>5, <3>1, <3>2, w \in Buffers, DoWriteFits
    <2> QED
      BY <2>4 DEF b
  <1> QED
    BY <1>6, <1>7

\* The handler of write().
LEMMA WriteHandlerInv ==
    ASSUME SocketInv, NEW c \in Conns, WriteHandler(c)
    PROVE  SocketInv'
  <1> DEFINE r == Head(strand[c])
             b == DoWrite(Buffered(out[c], r.n))
  <1>1. strand[c] # <<>> /\ r.op = "write" /\ Pop(c)
    BY DEF WriteHandler, Next1
  <1>2. UNCHANGED <<state, notify, posted, wire, read>>
    BY DEF WriteHandler
  <1>3. CASE state[c] = "open"
    <2>1. out' = [out EXCEPT ![c] = b] /\ accepted' = [accepted EXCEPT ![c] = @ + 1]
      BY <1>3 DEF WriteHandler
    <2>2. /\ Chain(strand[c], accepted[c], posted[c])
          /\ OutFits(out[c], wire[c], accepted[c])
      BY <1>3, Parts DEF SocketOK, Fits
    <2>3. /\ r.n = accepted[c] + 1 /\ r.n <= posted[c]
          /\ Chain(Tail(strand[c]), r.n, posted[c])
      BY <1>1, <2>2, Parts, ChainTail DEF Adds
    <2>4. b \in Outs /\ OutFits(b, wire[c], r.n)
      BY <2>2, <2>3, Parts, BufferAdded
    <2>5. out'[c] = b /\ accepted'[c] = r.n /\ \A d \in Conns \ {c} :
            out'[d] = out[d] /\ accepted'[d] = accepted[d]
      BY <2>1, <2>3 DEF SocketInv, SocketTypeOK
    <2>6. out' \in [Conns -> Outs] /\ accepted' \in [Conns -> Nat]
      BY <2>1, <2>4, Parts DEF SocketInv, SocketTypeOK
    <2>7. SocketTypeOK'
      BY <1>1, <1>2, <2>6, PopOne DEF SocketInv, SocketTypeOK
    <2>8. \A d \in Conns \ {c} : Same(d)
      BY <1>1, <1>2, <2>5, PopOne DEF Same
    <2>9. SocketOK(c)'
      BY <1>1, <1>2, <1>3, <2>3, <2>4, <2>5, PopOne DEF SocketOK, Fits
    <2> QED
      BY <2>7, <2>8, <2>9, OneSocket
  <1>4. CASE state[c] # "open"
    <2>1. UNCHANGED <<out, accepted>>
      BY <1>4 DEF WriteHandler
    <2>2. SocketTypeOK' /\ \A d \in Conns \ {c} : Same(d)
      BY <1>1, <1>2, <2>1, PopOne DEF SocketInv, SocketTypeOK, Same
    <2>3. SocketOK(c)'
      BY <1>1, <1>2, <1>4, <2>1, PopOne, Parts DEF SocketOK, Fits
    <2> QED
      BY <2>2, <2>3, OneSocket
  <1> QED
    BY <1>3, <1>4

\* The handler of close() by force.
LEMMA CloseForcedInv ==
    ASSUME SocketInv, NEW c \in Conns, CloseForced(c)
    PROVE  SocketInv'
  <1>1. strand[c] # <<>> /\ Pop(c) /\ UNCHANGED <<out, posted, accepted, wire, read>>
    BY DEF CloseForced, Next1
  <1>2. \/ state[c] = "closed" /\ UNCHANGED <<state, notify>>
        \/ state' = [state EXCEPT ![c] = "closed"] /\ notify' = [notify EXCEPT ![c] = FALSE]
    BY DEF CloseForced
  <1>3. SocketTypeOK' /\ \A d \in Conns \ {c} : Same(d)
    BY <1>1, <1>2, PopOne DEF SocketInv, SocketTypeOK, SocketStates, Same
  <1>4. state'[c] = "closed"
    BY <1>2 DEF SocketInv, SocketTypeOK
  <1>5. SocketOK(c)'
    BY <1>1, <1>4, Parts DEF SocketOK, Fits
  <1> QED
    BY <1>3, <1>5, OneSocket

\* The handler of close() without force: it waits for the write in progress.
LEMMA CloseGracefulInv ==
    ASSUME SocketInv, NEW c \in Conns, CloseGraceful(c)
    PROVE  SocketInv'
  <1>1. strand[c] # <<>> /\ Pop(c) /\ UNCHANGED <<out, posted, accepted, wire, read>>
    BY DEF CloseGraceful, Next1
  <1> DEFINE next == IF out[c].pending THEN "shutdown_writing" ELSE "closed"
  <1>2. \/ state[c] # "open" /\ UNCHANGED <<state, notify>>
        \/ state' = [state EXCEPT ![c] = next] /\ notify' = [notify EXCEPT ![c] = FALSE]
    BY DEF CloseGraceful
  <1>3. SocketTypeOK' /\ \A d \in Conns \ {c} : Same(d)
    BY <1>1, <1>2, PopOne DEF SocketInv, SocketTypeOK, SocketStates, Same
  <1>4. /\ state'[c] \notin {"none", "open"}
        /\ state'[c] = "shutdown_writing" => state[c] = "shutdown_writing" \/ out[c].pending
    BY <1>1, <1>2, PopOne DEF SocketInv, SocketTypeOK
  <1>5. SocketOK(c)'
    BY <1>1, <1>4, Parts DEF SocketOK, Fits
  <1> QED
    BY <1>3, <1>5, OneSocket

\* A buffer handed to TCP.
LEMMA BufferSent ==
    ASSUME NEW o \in Outs, NEW w \in Buffers, NEW n \in Nat, OutFits(o, w, n), o.left # <<>>
    PROVE  LET b == [o EXCEPT !.left = Tail(@)]
               v == Append(w, Head(o.left)) IN
           /\ b \in Outs /\ v \in Buffers /\ OutFits(b, v, n) /\ b.pending
  <1> DEFINE b == [o EXCEPT !.left = Tail(@)]
             v == Append(w, Head(o.left))
  <1>1. /\ o.left \in Seq(Nat) /\ o.idle \in {0, 1} /\ o.buf[o.idle] \in Seq(Nat)
        /\ w \in Seq(Nat) /\ Len(w) \in Nat
    BY DEF Outs, Buffers
  <1>2. /\ o.pending /\ Run(w, 0) /\ Run(o.left, Len(w))
        /\ Run(o.buf[o.idle], Len(w) + Len(o.left))
        /\ n = Len(w) + Len(o.left) + Len(o.buf[o.idle])
    BY DEF OutFits
  <1>3. /\ Head(o.left) = Len(w) + 1
        /\ Tail(o.left) \in Seq(Nat) /\ Len(Tail(o.left)) = Len(o.left) - 1
        /\ Run(Tail(o.left), Len(w) + 1)
    BY <1>1, <1>2, TailRun
  <1>4. v \in Seq(Nat) /\ Len(v) = Len(w) + 1 /\ Run(v, 0)
    <2>1. Len(w) + 1 = 0 + Len(w) + 1
      BY <1>1
    <2> QED
      BY <1>1, <1>2, <1>3, <2>1, AppendRun, SMTT(60)
  <1>5. /\ b \in Outs /\ b.left = Tail(o.left) /\ b.buf = o.buf /\ b.idle = o.idle
        /\ b.pending = o.pending
    BY <1>3 DEF Outs, Buffers
  <1> HIDE DEF b, v
  <1>6. Len(v) + Len(b.left) = Len(w) + Len(o.left)
    <2>1. Len(b.left) = Len(o.left) - 1 /\ Len(v) = Len(w) + 1
      BY <1>3, <1>4, <1>5
    <2>2. Len(o.left) \in Nat
      BY <1>1
    <2>3. (Len(w) + 1) + (Len(o.left) - 1) = Len(w) + Len(o.left)
      BY <1>1, <2>2, MoveOne, Zenon
    <2> QED
      BY <2>1, <2>3, Zenon
  <1>7. OutFits(b, v, n)
    BY <1>2, <1>3, <1>4, <1>5, <1>6 DEF OutFits
  <1> QED
    BY <1>2, <1>4, <1>5, <1>7 DEF b, v, Buffers

\* The kernel takes a buffer.
LEMMA SendSomeInv ==
    ASSUME SocketInv, NEW c \in Conns, SendSome(c)
    PROVE  SocketInv'
  <1> DEFINE b == [out[c] EXCEPT !.left = Tail(@)]
             v == Append(wire[c], Head(out[c].left))
  <1>1. /\ out[c].left # <<>> /\ state[c] \notin {"none", "closed"}
        /\ UNCHANGED <<state, notify, strand, posted, accepted, read>>
    BY DEF SendSome, Alive
  <1>2. wire' = [wire EXCEPT ![c] = v] /\ out' = [out EXCEPT ![c] = b]
    BY DEF SendSome, SocketInv, SocketTypeOK
  <1>3. b \in Outs /\ v \in Buffers /\ OutFits(b, v, accepted[c]) /\ b.pending
    BY <1>1, Parts, BufferSent DEF SocketOK, Fits
  <1> HIDE DEF b, v
  <1>4. out'[c] = b /\ wire'[c] = v
    BY <1>2 DEF SocketInv, SocketTypeOK
  <1>5. SocketTypeOK' /\ \A d \in Conns \ {c} : Same(d)
    BY <1>1, <1>2, <1>3 DEF SocketInv, SocketTypeOK, Same
  <1>6. SocketOK(c)'
    BY <1>1, <1>3, <1>4, Parts DEF SocketOK, Fits
  <1> QED
    BY <1>5, <1>6, OneSocket

\* A write is done: the buffers of the meantime are next.
LEMMA WrittenFits ==
    ASSUME NEW o \in Outs, NEW w \in Buffers, NEW n \in Nat, OutFits(o, w, n),
           o.pending, o.left = <<>>
    PROVE  Written(o) \in Outs /\ OutFits(Written(o), w, n)
  <1> DEFINE b == [o EXCEPT !.buf[1 - o.idle] = <<>>, !.wrap = <<>>, !.pending = FALSE]
  <1>1. /\ o.idle \in {0, 1} /\ 1 - o.idle \in {0, 1} /\ 1 - o.idle # o.idle
        /\ o.buf \in [{0, 1} -> Buffers] /\ <<>> \in Seq(Nat) /\ Len(w) \in Nat
        /\ o.buf[o.idle] \in Seq(Nat)
    BY DEF Outs, Buffers
  <1>2. /\ b \in Outs /\ ~b.pending /\ b.wrap = <<>> /\ b.left = <<>> /\ b.idle = o.idle
        /\ b.buf[1 - b.idle] = <<>> /\ b.buf[b.idle] = o.buf[o.idle]
    BY <1>1 DEF Outs, Buffers
  <1>3. Run(w, 0) /\ Run(o.buf[o.idle], Len(w)) /\ n = Len(w) + Len(o.buf[o.idle])
    <2>1. Len(o.left) = 0 /\ Len(w) + 0 = Len(w)
      BY <1>1
    <2>2. /\ Run(o.buf[o.idle], Len(w) + Len(o.left))
          /\ n = Len(w) + Len(o.left) + Len(o.buf[o.idle])
      BY DEF OutFits
    <2> QED
      BY <2>1, <2>2 DEF OutFits
  <1> HIDE DEF b
  <1>4. DoWrite(b) \in Outs /\ OutFits(DoWrite(b), w, n)
    BY ONLY <1>2, <1>3, w \in Buffers, n \in Nat, DoWriteFits
  <1> QED
    BY <1>4 DEF b, Written

\* The completion handler of async_write.
LEMMA WriteDoneInv ==
    ASSUME SocketInv, NEW c \in Conns, WriteDone(c)
    PROVE  SocketInv'
  <1> DEFINE b == Written(out[c])
             next == IF state[c] = "shutdown_writing" /\ ~b.pending THEN "shutdown_write"
                     ELSE state[c]
  <1>1. /\ out[c].pending /\ out[c].left = <<>> /\ state[c] \notin {"none", "closed"}
        /\ UNCHANGED <<notify, strand, posted, accepted, wire, read>>
    BY DEF WriteDone, Alive
  <1>2. out' = [out EXCEPT ![c] = b] /\ state' = [state EXCEPT ![c] = next]
    BY DEF WriteDone
  <1>3. b \in Outs /\ OutFits(b, wire[c], accepted[c])
    BY <1>1, Parts, WrittenFits DEF SocketOK, Fits
  <1>4. out'[c] = b /\ state'[c] = next /\ next \in SocketStates
    BY <1>2, Parts DEF SocketInv, SocketTypeOK, SocketStates
  <1>5. SocketTypeOK' /\ \A d \in Conns \ {c} : Same(d)
    BY <1>1, <1>2, <1>3, <1>4 DEF SocketInv, SocketTypeOK, Same
  <1>6. SocketOK(c)'
    BY <1>1, <1>3, <1>4, Parts DEF SocketOK, Fits
  <1> QED
    BY <1>5, <1>6, OneSocket

\* An error of a write or a read closes the socket.
LEMMA DoCloseInv ==
    ASSUME SocketInv, NEW c \in Conns, state[c] # "none", DoClose(c),
           UNCHANGED <<notify, out, strand, posted, accepted, wire, read>>
    PROVE  SocketInv'
  <1>1. SocketTypeOK' /\ \A d \in Conns \ {c} : Same(d)
    BY DEF SocketInv, SocketTypeOK, SocketStates, DoClose, Same
  <1>2. state'[c] = "closed"
    BY DEF SocketInv, SocketTypeOK, DoClose
  <1>3. SocketOK(c)'
    BY <1>2, Parts DEF SocketOK, Fits
  <1> QED
    BY <1>1, <1>3, OneSocket

\* A message received.
LEMMA ReadMsgInv ==
    ASSUME SocketInv, NEW c \in Conns, ReadMsg(c)
    PROVE  SocketInv'
  BY DEF SocketInv, SocketTypeOK, SocketOK, ReadMsg

\* Every step of a socket keeps the invariant of the sockets.
LEMMA SocketStepInv ==
    ASSUME SocketInv, NEW c \in Conns, SocketStep(c)
    PROVE  SocketInv'
  <1>1. CASE StrandStep(c)
    BY <1>1, WriteHandlerInv, CloseForcedInv, CloseGracefulInv DEF StrandStep
  <1>2. CASE WriteProgress(c)
    BY <1>2, SendSomeInv, WriteDoneInv DEF WriteProgress
  <1>3. CASE WriteError(c) \/ ReadError(c)
    BY <1>3, DoCloseInv DEF WriteError, ReadError, Alive
  <1>4. CASE ReadMsg(c)
    BY <1>4, ReadMsgInv
  <1> QED
    BY <1>1, <1>2, <1>3, <1>4 DEF SocketStep

\* The invariant gives the two properties of the sockets.
LEMMA SocketInvMeans == SocketInv => WireInOrder /\ NothingHeldBack
  <1> SUFFICES ASSUME SocketInv, NEW c \in Conns
               PROVE  /\ Run(wire[c], 0) /\ Len(wire[c]) <= posted[c]
                      /\ Alive(c) /\ ~out[c].pending =>
                           Len(wire[c]) = accepted[c] /\ state[c] # "shutdown_writing"
    BY DEF WireInOrder, NothingHeldBack
  <1>1. OutFits(out[c], wire[c], accepted[c]) /\ accepted[c] <= posted[c]
        /\ (state[c] = "shutdown_writing" => out[c].pending)
    BY Parts DEF SocketOK, Fits
  <1>2. accepted[c] \in Nat /\ posted[c] \in Nat /\ wire[c] \in Seq(Nat)
    BY Parts DEF Buffers
  <1>3. CASE out[c].pending
    <2>1. /\ out[c].left \in Seq(Nat) /\ out[c].idle \in {0, 1}
          /\ out[c].buf[out[c].idle] \in Seq(Nat)
      BY Parts DEF Outs, Buffers
    <2>2. /\ Len(out[c].left) \in Nat /\ Len(out[c].buf[out[c].idle]) \in Nat
          /\ Len(wire[c]) \in Nat
      BY <1>2, <2>1, SMTT(60)
    <2>3. accepted[c] = Len(wire[c]) + Len(out[c].left) + Len(out[c].buf[out[c].idle])
      BY <1>1, <1>3 DEF OutFits
    <2>4. Len(wire[c]) <= accepted[c]
      BY <2>2, <2>3, AtMostSum, Zenon
    <2> QED
      BY <1>1, <1>2, <1>3, <2>2, <2>4 DEF OutFits
  <1>4. CASE ~out[c].pending
    BY <1>1, <1>2, <1>4 DEF OutFits
  <1> QED
    BY <1>3, <1>4

\* What else a step of a socket does: it concerns a constructed one, unconstructs
\* none, and may post to the io_handler that it has gone or to the main thread
\* that a message came.
LEMMA SocketStepFrame ==
    ASSUME SocketInv, NEW c \in Conns, SocketStep(c)
    PROVE  /\ state[c] # "none"
           /\ \A d \in Conns : state[d] # "none" => state'[d] # "none"
           /\ handlerQ' \in {handlerQ, Append(handlerQ, Entry("gone", c, 0))}
           /\ mainQ' \in {mainQ, Append(mainQ, Entry("msg", c, read[c] + 1))}
  <1>1. state \in [Conns -> SocketStates]
    BY DEF SocketInv, SocketTypeOK
  <1>2. CASE WriteHandler(c)
    BY <1>1, <1>2, PopOne DEF WriteHandler, Next1
  <1>3. CASE CloseForced(c)
    BY <1>1, <1>3, PopOne DEF CloseForced, Next1
  <1>4. CASE CloseGraceful(c)
    BY <1>1, <1>4, PopOne DEF CloseGraceful, Next1
  <1>5. CASE SendSome(c)
    BY <1>1, <1>5 DEF SendSome, Alive
  <1>6. CASE WriteDone(c)
    BY <1>1, <1>6 DEF WriteDone, Alive
  <1>7. CASE WriteError(c) \/ ReadError(c)
    BY <1>1, <1>7 DEF WriteError, ReadError, DoClose, Alive
  <1>8. CASE ReadMsg(c)
    BY <1>1, <1>8 DEF ReadMsg
  <1> QED
    BY <1>2, <1>3, <1>4, <1>5, <1>6, <1>7, <1>8 DEF SocketStep, StrandStep, WriteProgress

\* A step of a socket is about that socket only.
LEMMA SocketStepOthers ==
    ASSUME SocketInv, NEW c \in Conns, NEW d \in Conns \ {c}, SocketStep(c)
    PROVE  Same(d) /\ notify'[d] = notify[d]
  <1>1. /\ state \in [Conns -> SocketStates] /\ notify \in [Conns -> BOOLEAN]
        /\ out \in [Conns -> Outs] /\ strand \in [Conns -> Seq(Requests)]
        /\ posted \in [Conns -> Nat] /\ accepted \in [Conns -> Nat]
        /\ wire \in [Conns -> Buffers]
    BY DEF SocketInv, SocketTypeOK
  <1>2. CASE StrandStep(c)
    BY <1>1, <1>2 DEF StrandStep, WriteHandler, CloseForced, CloseGraceful, Pop, Same
  <1>3. CASE WriteProgress(c)
    BY <1>1, <1>3 DEF WriteProgress, SendSome, WriteDone, Same
  <1>4. CASE WriteError(c) \/ ReadError(c) \/ ReadMsg(c)
    BY <1>1, <1>4 DEF WriteError, ReadError, ReadMsg, DoClose, Same
  <1> QED
    BY <1>2, <1>3, <1>4 DEF SocketStep, WriteProgress
=============================================================================
