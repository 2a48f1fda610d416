------------------------------ MODULE TcpSocket ------------------------------
(***************************************************************************)
(* One connection of network/tcp_socket.cpp: the two write buffers, the    *)
(* states open -> shutdown_writing -> shutdown_write -> closed, and what a *)
(* socket posts to its io_handler (acceptor_t or connector_t) and, through *)
(* the handler's callbacks, to the server's main thread.                   *)
(*                                                                         *)
(* The module has the sockets' actions only; Acceptor and Connector        *)
(* compose them with the handler that owns the sockets and the main thread *)
(* that uses them.                                                         *)
(*                                                                         *)
(* The handlers of a strand never run at the same time, so one handler is  *)
(* one step. A completion and its handler are one step too: every handler  *)
(* returns at once if the socket is closed, and nothing else that can run  *)
(* between the two makes a difference.                                     *)
(*                                                                         *)
(* Operators named ..._Bug are one plausible mistake in the operator that  *)
(* follows them; no specification uses them.                               *)
(***************************************************************************)
EXTENDS Naturals, Sequences

CONSTANTS
    Conns,          \* connections, each used once
    NoConn,         \* no connection
    MaxWrites,      \* bound: buffers written to each connection
    MaxMsgs         \* bound: messages received on each connection

ASSUME ConnAssumption == NoConn \notin Conns
ASSUME SocketBoundAssumption ==
    MaxWrites \in [Conns -> Nat] /\ MaxMsgs \in [Conns -> Nat]

VARIABLES
    state,          \* m_socket_state; "none" before the socket is constructed
    notify,         \* m_is_close_notify
    out,            \* the write side: see NewOut
    strand,         \* handlers posted to the socket's m_strand
    posted,         \* number of write() calls so far; they number the buffers
    accepted,       \* history: number of buffers that were taken into m_write_buf
    wire,           \* history: buffers handed to TCP
    read,           \* history: number of messages parsed
    handlerQ,       \* handlers posted to the m_strand of the io_handler
    mainQ           \* handlers posted to the io_service of the main thread

sockVars == <<state, notify, out, strand, posted, accepted, wire, read>>

SocketStates == {"none", "open", "shutdown_writing", "shutdown_write", "closed"}

\* An asynchronous operation has a handler that does not return at once.
Alive(c) == state[c] \notin {"none", "closed"}

\* m_write_buf, m_idle_index, m_write_in_pending, m_wrap_buf; left is what
\* async_write has not handed to TCP yet.
NewOut == [buf |-> [i \in {0, 1} |-> <<>>], idle |-> 0, pending |-> FALSE,
           wrap |-> <<>>, left |-> <<>>]

\* A request in a socket's strand. The field n is the number of the last buffer
\* written before it, itself included.
Request(c, op) == [op |-> op, n |-> posted[c] + (IF op = "write" THEN 1 ELSE 0)]

\* An entry of handlerQ ("gone", "del", "stop", "clear") or of mainQ ("up",
\* "msg", "down").
Entry(what, c, n) == [what |-> what, conn |-> c, n |-> n]

\* An entry of this kind is about c.
InQueue(q, what, c) == \E i \in 1..Len(q) : q[i].what = what /\ q[i].conn = c

SocketInit ==
    /\ state = [c \in Conns |-> "none"]
    /\ notify = [c \in Conns |-> TRUE]
    /\ out = [c \in Conns |-> NewOut]
    /\ strand = [c \in Conns |-> <<>>]
    /\ posted = [c \in Conns |-> 0]
    /\ accepted = [c \in Conns |-> 0]
    /\ wire = [c \in Conns |-> <<>>]
    /\ read = [c \in Conns |-> 0]

----------------------------------------------------------------------------
(* What handlers and the main thread do to a socket.                       *)

\* The constructor, and the read() that follows it.
Construct(c) ==
    /\ state[c] = "none"
    /\ state' = [state EXCEPT ![c] = "open"]
    /\ UNCHANGED <<notify, out, strand, posted, accepted, wire, read>>

Write(c) ==
    /\ posted[c] < MaxWrites[c]
    /\ strand' = [strand EXCEPT ![c] = Append(@, Request(c, "write"))]
    /\ posted' = [posted EXCEPT ![c] = @ + 1]
    /\ UNCHANGED <<state, notify, out, accepted, wire, read>>

\* close() of every connection in cs, by force or not.
CloseAll(cs, how) ==
    /\ strand' = [c \in Conns |->
                     IF c \in cs THEN Append(strand[c], Request(c, how)) ELSE strand[c]]
    /\ UNCHANGED <<state, notify, out, posted, accepted, wire, read>>

----------------------------------------------------------------------------
(* The handlers of the socket's strand.                                    *)

Pop(c) == strand' = [strand EXCEPT ![c] = Tail(@)]

Next1(c, op) == strand[c] # <<>> /\ Head(strand[c]).op = op

\* The index of the buffers is counted up.
DoWrite_IndexBug(o) ==
    IF o.pending \/ o.buf[o.idle] = <<>> THEN o
    ELSE [o EXCEPT !.pending = TRUE,
                   !.wrap = @ \o o.buf[o.idle],
                   !.left = o.wrap \o o.buf[o.idle],
                   !.idle = @ + 1]

\* do_write: unless a write is in progress, start one with the idle buffer and
\* swap the buffers.
DoWrite(o) ==
    IF o.pending \/ o.buf[o.idle] = <<>> THEN o
    ELSE [o EXCEPT !.pending = TRUE,
                   !.wrap = @ \o o.buf[o.idle],
                   !.left = o.wrap \o o.buf[o.idle],
                   !.idle = 1 - @]

\* The io_handler is not told.
DoClose_Bug(c) ==
    /\ state' = [state EXCEPT ![c] = "closed"]
    /\ handlerQ' = handlerQ

\* do_close, and what the io_handler is told: cs is {c} or {}.
DoClose(c) ==
    /\ state' = [state EXCEPT ![c] = "closed"]
    /\ handlerQ' = IF notify[c] THEN Append(handlerQ, Entry("gone", c, 0)) ELSE handlerQ

\* write() puts the buffer into the idle one.
Buffered(o, n) == [o EXCEPT !.buf[o.idle] = Append(@, n)]

WriteHandler(c) ==
    /\ Next1(c, "write")
    /\ Pop(c)
    /\ IF state[c] = "open"
       THEN /\ out' = [out EXCEPT ![c] = DoWrite(Buffered(@, Head(strand[c]).n))]
            /\ accepted' = [accepted EXCEPT ![c] = @ + 1]
       ELSE UNCHANGED <<out, accepted>>
    /\ UNCHANGED <<state, notify, posted, wire, read, handlerQ, mainQ>>

CloseForced(c) ==
    /\ Next1(c, "forced")
    /\ Pop(c)
    /\ IF state[c] = "closed"
       THEN UNCHANGED <<state, notify>>
       ELSE /\ state' = [state EXCEPT ![c] = "closed"]
            /\ notify' = [notify EXCEPT ![c] = FALSE]
    /\ UNCHANGED <<out, posted, accepted, wire, read, handlerQ, mainQ>>

\* A graceful close that does not wait for the write in progress.
CloseGraceful_Bug(c) ==
    /\ Next1(c, "graceful")
    /\ Pop(c)
    /\ IF state[c] = "open"
       THEN /\ state' = [state EXCEPT ![c] = "closed"]
            /\ notify' = [notify EXCEPT ![c] = FALSE]
       ELSE UNCHANGED <<state, notify>>
    /\ UNCHANGED <<out, posted, accepted, wire, read, handlerQ, mainQ>>

\* A graceful close lets a write in progress, and all that is buffered, go out.
CloseGraceful(c) ==
    /\ Next1(c, "graceful")
    /\ Pop(c)
    /\ IF state[c] = "open"
       THEN /\ state' = [state EXCEPT ![c] =
                            IF out[c].pending THEN "shutdown_writing" ELSE "closed"]
            /\ notify' = [notify EXCEPT ![c] = FALSE]
       ELSE UNCHANGED <<state, notify>>
    /\ UNCHANGED <<out, posted, accepted, wire, read, handlerQ, mainQ>>

\* The kernel takes the next buffer of the write in progress.
SendSome(c) ==
    /\ Alive(c)
    /\ out[c].left # <<>>
    /\ wire' = [wire EXCEPT ![c] = Append(@, Head(out[c].left))]
    /\ out' = [out EXCEPT ![c].left = Tail(@)]
    /\ UNCHANGED <<state, notify, strand, posted, accepted, read, handlerQ, mainQ>>

\* m_wrap_buf is not cleared.
Written_WrapBug(o) == DoWrite([o EXCEPT !.buf[1 - o.idle] = <<>>, !.pending = FALSE])

\* The buffers of the meantime are not written.
Written_IdleBug(o) == [o EXCEPT !.buf[1 - o.idle] = <<>>, !.wrap = <<>>, !.pending = FALSE]

\* The completion handler of async_write: the written buffer is emptied, then
\* do_write again, which ends in do_shutdown if nothing is left to write.
Written(o) == DoWrite([o EXCEPT !.buf[1 - o.idle] = <<>>, !.wrap = <<>>, !.pending = FALSE])

WriteDone(c) ==
    /\ Alive(c)
    /\ out[c].pending
    /\ out[c].left = <<>>
    /\ out' = [out EXCEPT ![c] = Written(@)]
    /\ state' = [state EXCEPT ![c] =
                    IF @ = "shutdown_writing" /\ ~Written(out[c]).pending
                    THEN "shutdown_write" ELSE @]
    /\ UNCHANGED <<notify, strand, posted, accepted, wire, read, handlerQ, mainQ>>

WriteError(c) ==
    /\ Alive(c)
    /\ out[c].pending
    /\ DoClose(c)
    /\ UNCHANGED <<notify, out, strand, posted, accepted, wire, read, mainQ>>

\* Messages of a closed socket are still posted.
ReadMsg_Bug(c) ==
    /\ state[c] # "none"
    /\ read[c] < MaxMsgs[c]
    /\ read' = [read EXCEPT ![c] = @ + 1]
    /\ mainQ' = Append(mainQ, Entry("msg", c, read[c] + 1))
    /\ UNCHANGED <<state, notify, out, strand, posted, accepted, wire, handlerQ>>

\* A message was parsed: the io_handler's callback posts it to the main thread.
\* What arrives in other states is dropped.
ReadMsg(c) ==
    /\ state[c] = "open"
    /\ read[c] < MaxMsgs[c]
    /\ read' = [read EXCEPT ![c] = @ + 1]
    /\ mainQ' = Append(mainQ, Entry("msg", c, read[c] + 1))
    /\ UNCHANGED <<state, notify, out, strand, posted, accepted, wire, handlerQ>>

\* The peer closed or reset the connection, or sent a bad message.
ReadError(c) ==
    /\ Alive(c)
    /\ DoClose(c)
    /\ UNCHANGED <<notify, out, strand, posted, accepted, wire, read, mainQ>>

StrandStep(c) == WriteHandler(c) \/ CloseForced(c) \/ CloseGraceful(c)

WriteProgress(c) == SendSome(c) \/ WriteDone(c)

SocketStep(c) ==
    \/ StrandStep(c)
    \/ WriteProgress(c)
    \/ WriteError(c)
    \/ ReadMsg(c)
    \/ ReadError(c)

----------------------------------------------------------------------------

Requests == [op : {"write", "forced", "graceful"}, n : Nat]

Buffers == Seq(Nat)

Outs == [buf : [{0, 1} -> Buffers], idle : {0, 1}, pending : BOOLEAN,
         wrap : Buffers, left : Buffers]

\* The type invariant of the sockets of network/tcp_socket.hpp.
SocketTypeOK ==
    /\ state \in [Conns -> SocketStates]
    /\ notify \in [Conns -> BOOLEAN]
    /\ out \in [Conns -> Outs]
    /\ strand \in [Conns -> Seq(Requests)]
    /\ posted \in [Conns -> Nat]
    /\ accepted \in [Conns -> Nat]
    /\ wire \in [Conns -> Buffers]
    /\ read \in [Conns -> Nat]

\* The buffers of s are those numbered from + 1, from + 2, ...
Run(s, from) == \A i \in 1..Len(s) : s[i] = from + i

\* Double buffering, swapping and the clearing of m_wrap_buf lose, repeat and
\* reorder nothing: TCP is given the buffers of the write() calls one by one, in
\* the order of the calls.
WireInOrder == \A c \in Conns : Run(wire[c], 0) /\ Len(wire[c]) <= posted[c]

\* No buffer is left lying: a socket that is not writing has handed over every
\* buffer it accepted. So a graceful close that closes at once, because no write
\* is in progress, and one that waits for the writes to end lose nothing.
NothingHeldBack ==
    \A c \in Conns :
        Alive(c) /\ ~out[c].pending =>
            /\ Len(wire[c]) = accepted[c]
            /\ state[c] # "shutdown_writing"
=============================================================================
