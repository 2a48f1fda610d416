--------------------------- MODULE LoginQueue_proofs ---------------------------
(***************************************************************************)
(* LoginQueue for every set of clients, users and gates and every setting: *)
(* its type and safety invariants, and that it implements WaitingRoom.     *)
(***************************************************************************)
EXTENDS LoginQueue, SequenceTheorems, TLAPS

\* Where the queue is switched off nobody is in it and no timer runs: with it
\* the handler that starts the timer again really does.
QueueIsOn == queue # <<>> \/ armed \/ due > 0 => LoginQueueTimer > 0

IInv == TypeOK /\ OwnersMatch /\ QueueTicks /\ QueueIsOn

-----------------------------------------------------------------------------
(* Sequences without repetition *)

\* Cutting one element out of a sequence.
LEMMA CutOne ==
  ASSUME NEW S, NEW s \in Seq(S), NEW i \in DOMAIN s
  PROVE  LET t == RemoveAt(s, i)
         IN /\ t \in Seq(S)
            /\ Len(t) = Len(s) - 1
            /\ \A k \in DOMAIN t : t[k] = IF k < i THEN s[k] ELSE s[k + 1]
<1> DEFINE a == SubSeq(s, 1, i - 1)
           b == SubSeq(s, i + 1, Len(s))
           n == Len(s)
<1>1. n \in Nat /\ i \in 1..n /\ \A k \in 1..n : s[k] \in S
  OBVIOUS
<1>2. /\ a \in Seq(S) /\ Len(a) = i - 1
      /\ \A k \in 1..(i - 1) : a[k] = s[k]
  OBVIOUS
<1>3. /\ b \in Seq(S) /\ Len(b) = n - i
      /\ \A k \in 1..(n - i) : b[k] = s[k + i]
  OBVIOUS
<1> HIDE DEF a, b, n
<1>4. /\ a \o b \in Seq(S) /\ Len(a \o b) = (i - 1) + (n - i)
      /\ \A k \in 1..(n - 1) : (a \o b)[k] = IF k <= i - 1 THEN a[k] ELSE b[k - (i - 1)]
  <2>1. /\ a \o b \in Seq(S) /\ Len(a \o b) = Len(a) + Len(b)
        /\ \A k \in 1..(Len(a) + Len(b)) :
              (a \o b)[k] = IF k <= Len(a) THEN a[k] ELSE b[k - Len(a)]
    BY <1>2, <1>3, ConcatProperties
  <2>2. Len(a) + Len(b) = n - 1
    BY <1>1, <1>2, <1>3
  <2> QED BY <2>1, <2>2, <1>2, <1>3
<1>5. ASSUME NEW k \in 1..(n - 1)
      PROVE  (a \o b)[k] = IF k < i THEN s[k] ELSE s[k + 1]
  <2>1. CASE k < i
    <3>1. k \in 1..(i - 1) /\ k <= i - 1
      BY <2>1, <1>1
    <3> QED BY <3>1, <2>1, <1>2, <1>4
  <2>2. CASE ~(k < i)
    <3>1. k - (i - 1) \in 1..(n - i) /\ (k - (i - 1)) + i = k + 1 /\ ~(k <= i - 1)
      BY <2>2, <1>1
    <3> QED BY <3>1, <1>3, <1>4, <2>2
  <2> QED BY <2>1, <2>2
<1>6. (i - 1) + (n - i) = n - 1
  BY <1>1
<1>7. DOMAIN (a \o b) = 1..(n - 1)
  BY <1>4, <1>6
<1> QED BY <1>4, <1>5, <1>6, <1>7 DEF a, b, n, RemoveAt

\* ... keeps the others, each of them once, and loses that one.
LEMMA CutKeeps ==
  ASSUME NEW S, NEW s \in Seq(S), NEW i \in DOMAIN s, IsInjective(s)
  PROVE  /\ RemoveAt(s, i) \in Seq(S) /\ IsInjective(RemoveAt(s, i))
         /\ ToSet(RemoveAt(s, i)) \subseteq ToSet(s) \ {s[i]}
         /\ RemoveAt(s, i) # <<>> => Len(s) # 1
<1> DEFINE t == RemoveAt(s, i)
<1>1. /\ t \in Seq(S) /\ Len(t) = Len(s) - 1
      /\ \A k \in DOMAIN t : t[k] = IF k < i THEN s[k] ELSE s[k + 1]
  BY CutOne
<1> HIDE DEF t
<1>2. DOMAIN t = 1..(Len(s) - 1) /\ DOMAIN s = 1..Len(s) /\ Len(s) \in Nat
  BY <1>1
<1> DEFINE old(k) == IF k < i THEN k ELSE k + 1
<1>3. ASSUME NEW k \in DOMAIN t
      PROVE  old(k) \in DOMAIN s /\ old(k) # i /\ t[k] = s[old(k)]
  <2>1. old(k) \in 1..Len(s) /\ old(k) # i
    BY <1>2
  <2>2. t[k] = s[old(k)]
    BY <1>1
  <2> QED BY <2>1, <2>2, <1>2
<1>4. IsInjective(t)
  <2>1. ASSUME NEW k \in DOMAIN t, NEW m \in DOMAIN t, t[k] = t[m]
        PROVE  k = m
    <3>1. old(k) = old(m)
      BY <1>3, <2>1 DEF IsInjective
    <3>2. k \in Int /\ m \in Int /\ i \in Int
      BY <1>2
    <3> QED BY <3>1, <3>2
  <2> QED BY <2>1 DEF IsInjective
<1>5. ToSet(t) \subseteq ToSet(s) \ {s[i]}
  <2>1. ASSUME NEW k \in DOMAIN t
        PROVE  t[k] \in ToSet(s) /\ t[k] # s[i]
    <3> HIDE DEF old
    <3> QED BY <1>3 DEF IsInjective, ToSet
  <2> QED BY <2>1 DEF ToSet
<1>6. t # <<>> => Len(s) # 1
  BY <1>1
<1> QED BY <1>1, <1>4, <1>5, <1>6 DEF t

\* The rest of a sequence after its first n elements.
LEMMA DropKeeps ==
  ASSUME NEW S, NEW s \in Seq(S), IsInjective(s), NEW n \in Nat, n <= Len(s),
         NEW t, t = SubSeq(s, n + 1, Len(s))
  PROVE  /\ t \in Seq(S) /\ IsInjective(t)
         /\ ToSet(t) \subseteq ToSet(s)
<1>1. /\ t \in Seq(S) /\ Len(t) = Len(s) - n
      /\ \A k \in 1..(Len(s) - n) : t[k] = s[n + k]
  OBVIOUS
<1>2. DOMAIN t = 1..(Len(s) - n) /\ DOMAIN s = 1..Len(s) /\ Len(s) \in Nat
  BY <1>1
<1>3. \A k \in 1..(Len(s) - n) : n + k \in 1..Len(s)
  BY <1>2
<1>4. \A k \in DOMAIN t : n + k \in DOMAIN s /\ t[k] = s[n + k]
  BY <1>1, <1>2, <1>3
<1>5. IsInjective(t)
  BY <1>4, <1>2 DEF IsInjective
<1> QED BY <1>1, <1>4, <1>5 DEF ToSet

\* Appending a new element.
LEMMA AppendKeeps ==
  ASSUME NEW S, NEW s \in Seq(S), IsInjective(s), NEW x \in S, x \notin ToSet(s),
         NEW t, t = Append(s, x)
  PROVE  /\ t \in Seq(S) /\ IsInjective(t)
         /\ ToSet(t) \subseteq ToSet(s) \cup {x}
<1>1. /\ t \in Seq(S) /\ Len(t) = Len(s) + 1
      /\ \A k \in 1..Len(s) : t[k] = s[k]
      /\ t[Len(s) + 1] = x
  OBVIOUS
<1>2. DOMAIN t = 1..(Len(s) + 1) /\ DOMAIN s = 1..Len(s) /\ Len(s) \in Nat
  BY <1>1
<1>3. \A k \in DOMAIN t : \/ k \in DOMAIN s /\ t[k] = s[k]
                          \/ k = Len(s) + 1 /\ t[k] = x
  BY <1>1, <1>2
<1>4. IsInjective(t)
  BY <1>3, <1>2 DEF IsInjective, ToSet
<1> QED BY <1>1, <1>3, <1>4 DEF ToSet

-----------------------------------------------------------------------------
(* The inductive invariant, part by part *)

USE NoneAssumption, NumbersAssumption

QueuePart ==
  /\ queue \in Seq(Users) /\ armed \in BOOLEAN /\ due \in Nat
  /\ IsInjective(queue) /\ QueueTicks /\ QueueIsOn

\* A socket's data names a user that has this socket.
SocketPart ==
  /\ sockets \subseteq Clients /\ users \subseteq Users /\ recent \subseteq Users
  /\ data \in [Clients -> Users \cup {None, NoUser}]
  /\ sock \in [Users -> Clients \cup {None}]
  /\ \A c \in Clients :
        /\ data[c] # None => c \in sockets
        /\ data[c] \in Users => data[c] \in users /\ sock[data[c]] = c

GatePart ==
  /\ gates \subseteq Gates
  /\ roster \in [Gates -> SUBSET Users]
  /\ online \in [Gates -> 0..MaxNum]

LEMMA Parts ==
  IInv <=> /\ QueuePart /\ SocketPart /\ GatePart
           /\ ToSet(queue) \subseteq users /\ calls \subseteq Users
BY DEF IInv, TypeOK, OwnersMatch, QueuePart, SocketPart, GatePart, IsInjective

LEMMA PartsNext ==
  ASSUME QueuePart', SocketPart', GatePart',
         ToSet(queue') \subseteq users', calls' \subseteq Users
  PROVE  IInv'
BY DEF IInv, TypeOK, OwnersMatch, QueuePart, SocketPart, GatePart, IsInjective, ToSet

\* In each part, a step that leaves its variables alone keeps it.
LEMMA QueueStays == QueuePart /\ UNCHANGED queueVars => QueuePart'
BY DEF QueuePart, queueVars, QueueTicks, QueueIsOn, IsInjective

LEMMA SocketStays == SocketPart /\ UNCHANGED <<clientVars, userVars>> => SocketPart'
BY DEF SocketPart, clientVars, userVars

LEMMA GateStays == GatePart /\ UNCHANGED gateVars => GatePart'
BY DEF GatePart, gateVars

LEMMA StartMeans == ASSUME Start, LoginQueueTimer > 0 PROVE armed' = TRUE
BY DEF Start

LEMMA InQueue == ASSUME NEW s, s = <<>> PROVE ToSet(s) = {}
BY DEF ToSet

LEMMA AddLoginQueueInv ==
  ASSUME QueuePart, NEW u \in Users, LoginQueueTimer > 0, AddLoginQueue(u)
  PROVE  QueuePart' /\ ToSet(queue') \subseteq ToSet(queue) \cup {u}
<1>1. /\ queue' \in Seq(Users) /\ IsInjective(queue')
      /\ ToSet(queue') \subseteq ToSet(queue) \cup {u}
  <2>1. CASE u \in ToSet(queue)
    BY <2>1 DEF AddLoginQueue, QueuePart
  <2>2. CASE u \notin ToSet(queue)
    BY <2>2, AppendKeeps DEF AddLoginQueue, QueuePart
  <2> QED BY <2>1, <2>2
<1>2. armed' \/ due' > 0
  <2>1. CASE queue = <<>>
    BY <2>1, StartMeans DEF AddLoginQueue
  <2>2. CASE queue # <<>>
    BY <2>2 DEF AddLoginQueue, QueuePart, QueueTicks
  <2> QED BY <2>1, <2>2
<1>3. armed' \in BOOLEAN
  BY StartMeans DEF AddLoginQueue, QueuePart
<1>4. due' \in Nat
  BY DEF AddLoginQueue, QueuePart
<1> QED BY <1>1, <1>2, <1>3, <1>4 DEF QueuePart, QueueTicks, QueueIsOn, IsInjective

LEMMA DelLoginQueueInv ==
  ASSUME QueuePart, NEW u \in Users, DelLoginQueue(u)
  PROVE  QueuePart' /\ ToSet(queue') \subseteq ToSet(queue) \ {u}
<1>1. CASE u \notin ToSet(queue)
  <2>1. queue' = queue /\ armed' = armed /\ due' = due
    BY <1>1 DEF DelLoginQueue, QueuePart
  <2> QED BY <2>1, <1>1, QueueStays DEF queueVars
<1>2. CASE u \in ToSet(queue)
  <2>1. PICK i \in DOMAIN queue : queue[i] = u /\ queue' = RemoveAt(queue, i)
    BY <1>2 DEF DelLoginQueue
  <2>2. /\ queue' \in Seq(Users) /\ IsInjective(queue')
        /\ ToSet(queue') \subseteq ToSet(queue) \ {u}
        /\ queue' # <<>> => Len(queue) # 1
    BY <2>1, CutKeeps DEF QueuePart
  <2>3. queue # <<>>
    BY <1>2, InQueue
  <2>4. /\ due' = due /\ armed' \in BOOLEAN
        /\ armed' => armed
        /\ queue' # <<>> => armed' = armed
    BY <1>2, <2>2 DEF DelLoginQueue, QueuePart
  <2> QED BY <2>2, <2>3, <2>4 DEF QueuePart, QueueTicks, QueueIsOn, IsInjective
<1> QED BY <1>1, <1>2

LEMMA TimerExpiresInv ==
  ASSUME QueuePart, TimerExpires
  PROVE  QueuePart'
<1>1. /\ queue' = queue /\ due' = due + 1 /\ armed' = FALSE /\ armed
  BY DEF TimerExpires
<1>2. due' \in Nat /\ due' > 0
  BY <1>1 DEF QueuePart
<1> QED BY <1>1, <1>2 DEF QueuePart, QueueTicks, QueueIsOn, IsInjective

LEMMA CallbackInv ==
  ASSUME QueuePart, LoginQueueCallback
  PROVE  QueuePart' /\ ToSet(queue') \subseteq ToSet(queue)
<1>1. due > 0 /\ due' \in Nat /\ LoginQueueTimer > 0
  BY DEF QueuePart, LoginQueueCallback, QueueIsOn
<1>2. PICK n \in 0..LoginQueueProcess : Serve(n)
  BY DEF LoginQueueCallback
<1>3. CASE n > Len(queue)
  <2>1. queue' = <<>> /\ armed' = FALSE
    BY <1>2, <1>3 DEF Serve
  <2>2. queue' \in Seq(Users) /\ IsInjective(queue') /\ ToSet(queue') = {}
    BY <2>1, InQueue DEF IsInjective
  <2> QED BY <1>1, <2>1, <2>2 DEF QueuePart, QueueTicks, QueueIsOn, IsInjective
<1>4. CASE ~(n > Len(queue))
  <2>1. armed' = TRUE /\ queue' = SubSeq(queue, n + 1, Len(queue))
    BY <1>1, <1>2, <1>4, StartMeans DEF Serve
  <2>2. n \in Nat /\ n <= Len(queue)
    BY <1>4 DEF QueuePart
  <2>3. /\ queue' \in Seq(Users) /\ IsInjective(queue')
        /\ ToSet(queue') \subseteq ToSet(queue)
    BY <2>1, <2>2, DropKeeps DEF QueuePart
  <2> QED BY <1>1, <2>1, <2>3 DEF QueuePart, QueueTicks, QueueIsOn, IsInjective
<1> QED BY <1>3, <1>4

\* A connection without a user goes.
LEMMA DelSocketInv ==
  ASSUME SocketPart, NEW c \in Clients, DelSocket(c), NEW D \in SUBSET Users,
         \A u \in Users : data[c] = u => u \in D,
         D \subseteq {data[c]}, users' = users \ D, recent' \subseteq recent
  PROVE  SocketPart'
<1>1. /\ sockets' = sockets \ {c}
      /\ data' = [data EXCEPT ![c] = None]
      /\ sock' = [u \in Users |-> IF sock[u] = c THEN None ELSE sock[u]]
  BY DEF DelSocket
<1>2. ASSUME NEW d \in Clients
      PROVE  /\ data'[d] # None => d \in sockets'
             /\ data'[d] \in Users => data'[d] \in users' /\ sock'[data'[d]] = d
  <2>1. CASE d = c
    BY <1>1, <2>1 DEF SocketPart
  <2>2. CASE d # c
    <3>1. data'[d] = data[d]
      BY <1>1, <2>2 DEF SocketPart
    <3>2. data[d] # None => d \in sockets'
      BY <1>1, <2>2 DEF SocketPart
    <3>3. ASSUME data[d] \in Users
          PROVE  data[d] \in users' /\ sock'[data[d]] = d
      <4>1. data[d] \in users /\ sock[data[d]] = d
        BY <3>3 DEF SocketPart
      <4>2. data[d] \notin D
        BY <3>3, <4>1, <2>2 DEF SocketPart
      <4> QED BY <1>1, <2>2, <3>3, <4>1, <4>2
    <3> QED BY <3>1, <3>2, <3>3
  <2> QED BY <2>1, <2>2
<1>3. data' \in [Clients -> Users \cup {None, NoUser}]
  BY <1>1 DEF SocketPart
<1>4. sock' \in [Users -> Clients \cup {None}]
  BY <1>1 DEF SocketPart
<1>5. sockets' \subseteq Clients /\ users' \subseteq Users /\ recent' \subseteq Users
  BY <1>1 DEF SocketPart
<1> QED BY <1>2, <1>3, <1>4, <1>5 DEF SocketPart

LEMMA LoginRequestSocketInv ==
  ASSUME SocketPart, NEW c \in Clients, NEW u \in Users, LoginRequest(c, u)
  PROVE  SocketPart'
<1>1. /\ c \in sockets /\ data[c] # None
      /\ users' = users \cup {u} /\ sockets' = sockets
      /\ sock' = [sock EXCEPT ![u] = c]
  BY DEF LoginRequest, ResetClientSocket
<1>2. recent' \subseteq Users
  BY DEF LoginRequest, LetInOrWait, SocketPart
<1>3. data' = IF u \in users
                THEN [k \in Clients |-> IF k = sock[u] THEN None ELSE data[k]]
                ELSE [data EXCEPT ![c] = u]
  BY DEF LoginRequest, ResetClientSocket
<1>4. ASSUME NEW d \in Clients
      PROVE  /\ data'[d] # None => d \in sockets'
             /\ data'[d] \in Users => data'[d] \in users' /\ sock'[data'[d]] = d
  <2>1. CASE u \in users
    <3>1. data'[d] = IF d = sock[u] THEN None ELSE data[d]
      BY <1>3, <2>1
    <3>2. data'[d] # None => d \in sockets'
      BY <3>1, <1>1 DEF SocketPart
    <3>3. ASSUME data'[d] \in Users
          PROVE  data'[d] \in users' /\ sock'[data'[d]] = d
      <4>1. d # sock[u] /\ data'[d] = data[d]
        BY <3>1, <3>3
      <4>2. data[d] \in users /\ sock[data[d]] = d
        BY <4>1, <3>3 DEF SocketPart
      <4>3. data[d] # u
        BY <4>1, <4>2
      <4> QED BY <1>1, <3>3, <4>1, <4>2, <4>3 DEF SocketPart
    <3> QED BY <3>2, <3>3
  <2>2. CASE u \notin users /\ d = c
    BY <2>2, <1>1, <1>3 DEF SocketPart
  <2>3. CASE u \notin users /\ d # c
    <3>1. data'[d] = data[d]
      BY <2>3, <1>3 DEF SocketPart
    <3>2. data[d] # u
      BY <2>3 DEF SocketPart
    <3> QED BY <1>1, <3>1, <3>2 DEF SocketPart
  <2> QED BY <2>1, <2>2, <2>3
<1>5. data' \in [Clients -> Users \cup {None, NoUser}]
  <2>1. CASE u \in users
    BY <2>1, <1>3 DEF SocketPart
  <2>2. CASE u \notin users
    BY <2>2, <1>3 DEF SocketPart
  <2> QED BY <2>1, <2>2
<1>6. sock' \in [Users -> Clients \cup {None}]
  BY <1>1 DEF SocketPart
<1> QED BY <1>1, <1>2, <1>4, <1>5, <1>6 DEF SocketPart

-----------------------------------------------------------------------------
(* The steps *)

LEMMA InitInv == Init => IInv
<1> SUFFICES ASSUME Init PROVE IInv
  OBVIOUS
<1>1. QueuePart /\ ToSet(queue) = {}
  <2>1. ToSet(queue) = {} /\ queue = <<>> /\ queue \in Seq(Users)
    BY InQueue DEF Init
  <2>2. IsInjective(queue)
    BY <2>1 DEF IsInjective
  <2>3. armed = FALSE /\ due = 0
    BY DEF Init
  <2>4. QueueTicks /\ QueueIsOn
    <3>1. ~(queue # <<>>) /\ ~armed /\ ~(due > 0)
      BY <2>1, <2>3
    <3> QED BY <3>1 DEF QueueTicks, QueueIsOn
  <2> QED BY <2>1, <2>2, <2>3, <2>4 DEF QueuePart
<1>2. SocketPart
  BY DEF Init, SocketPart
<1>3. GatePart
  BY DEF Init, GatePart
<1> QED BY <1>1, <1>2, <1>3, Parts DEF Init

LEMMA GateStepInv == IInv /\ GateStep => IInv'
<1> SUFFICES ASSUME IInv, NEW g \in Gates,
                    \/ AddGate(g) \/ DelGate(g) \/ KickGateAllUser(g)
                    \/ \E S \in SUBSET Users : SynGateInfo(g, S)
                    \/ \E n \in 0..MaxNum : UpdateUserNum(g, n)
                    \/ \E u \in Users : KickRole(g, u)
             PROVE  IInv'
  BY DEF GateStep
<1>1. /\ QueuePart /\ SocketPart /\ GatePart /\ ToSet(queue) \subseteq users
  BY Parts
<1>2. ASSUME NEW S \in SUBSET Users, ListUsers(g, S)
      PROVE  GatePart' /\ calls' = {} /\ UNCHANGED <<clientVars, userVars, queueVars>>
  BY <1>1, <1>2 DEF ListUsers, GatePart
<1>3. GatePart' /\ calls' = {} /\ UNCHANGED <<clientVars, userVars, queueVars>>
  <2>1. CASE AddGate(g)
    BY <1>1, <2>1 DEF AddGate, GatePart
  <2>2. CASE DelGate(g)
    BY <1>1, <2>2 DEF DelGate, GatePart
  <2>3. CASE KickGateAllUser(g)
    BY <1>2, <2>3 DEF KickGateAllUser
  <2>4. ASSUME NEW S \in SUBSET Users, SynGateInfo(g, S)
        PROVE  GatePart' /\ calls' = {} /\ UNCHANGED <<clientVars, userVars, queueVars>>
    <3>1. roster[g] \cup S \in SUBSET Users
      BY <1>1 DEF GatePart
    <3> QED BY <1>2, <2>4, <3>1 DEF SynGateInfo
  <2>5. ASSUME NEW n \in 0..MaxNum, UpdateUserNum(g, n)
        PROVE  GatePart' /\ calls' = {} /\ UNCHANGED <<clientVars, userVars, queueVars>>
    BY <1>1, <2>5 DEF UpdateUserNum, GatePart
  <2>6. ASSUME NEW u \in Users, KickRole(g, u)
        PROVE  GatePart' /\ calls' = {} /\ UNCHANGED <<clientVars, userVars, queueVars>>
    <3>1. roster[g] \ {u} \in SUBSET Users
      BY <1>1 DEF GatePart
    <3> QED BY <1>2, <2>6, <3>1 DEF KickRole
  <2> QED BY <2>1, <2>2, <2>3, <2>4, <2>5, <2>6
<1>4. QueuePart' /\ SocketPart'
  BY <1>1, <1>3, QueueStays, SocketStays
<1>5. ToSet(queue') \subseteq users'
  BY <1>1, <1>3 DEF queueVars, userVars
<1> QED BY <1>3, <1>4, <1>5, PartsNext

LEMMA TimeStepInv == IInv /\ TimeStep => IInv'
<1> SUFFICES ASSUME IInv, TimeStep PROVE IInv'
  OBVIOUS
<1>1. /\ QueuePart /\ SocketPart /\ GatePart /\ ToSet(queue) \subseteq users
  BY Parts
<1>2. CASE TimerExpires
  <2>1. /\ UNCHANGED <<clientVars, userVars>> /\ UNCHANGED gateVars
        /\ queue' = queue /\ users' = users /\ calls' = {}
    BY <1>2 DEF TimerExpires, userVars
  <2>2. QueuePart' /\ SocketPart' /\ GatePart'
    BY <1>1, <1>2, <2>1, TimerExpiresInv, SocketStays, GateStays
  <2> QED BY <1>1, <2>1, <2>2, PartsNext
<1>3. CASE LoginQueueCallback
  <2>1. /\ UNCHANGED <<clientVars, userVars>> /\ UNCHANGED gateVars /\ users' = users
    BY <1>3 DEF LoginQueueCallback, userVars
  <2>2. /\ QueuePart' /\ SocketPart' /\ GatePart'
        /\ ToSet(queue') \subseteq ToSet(queue)
    BY <1>1, <1>3, <2>1, CallbackInv, SocketStays, GateStays
  <2>3. calls' \subseteq Users
    <3>1. PICK n \in 0..LoginQueueProcess : Serve(n)
      BY <1>3 DEF LoginQueueCallback
    <3>2. ToSet(queue) \subseteq Users
      BY <1>1 DEF QueuePart, ToSet
    <3>3. CASE n > Len(queue)
      BY <3>1, <3>2, <3>3 DEF Serve, Sent
    <3>4. CASE ~(n > Len(queue))
      <4>1. {queue[i] : i \in 1..n} \subseteq Users
        <5>1. \A i \in 1..n : i \in 1..Len(queue)
          BY <3>4, <1>1 DEF QueuePart
        <5> QED BY <5>1, <1>1 DEF QueuePart
      <4> QED BY <3>1, <3>4, <4>1 DEF Serve, Sent
    <3> QED BY <3>3, <3>4
  <2> QED BY <1>1, <2>1, <2>2, <2>3, PartsNext
<1>4. ASSUME NEW u \in Users, Elapse(u)
      PROVE  IInv'
  <2>1. /\ UNCHANGED <<sockets, data, users, sock>> /\ UNCHANGED queueVars
        /\ UNCHANGED gateVars /\ calls' = {} /\ recent' \subseteq recent
    BY <1>4 DEF Elapse, clientVars
  <2>2. SocketPart'
    BY <1>1, <2>1 DEF SocketPart
  <2>3. QueuePart' /\ GatePart' /\ queue' = queue
    BY <1>1, <2>1, QueueStays, GateStays DEF queueVars
  <2> QED BY <1>1, <2>1, <2>2, <2>3, PartsNext
<1> QED BY <1>2, <1>3, <1>4 DEF TimeStep

LEMMA AddSocketInv ==
  ASSUME IInv, NEW c \in Clients, AddSocket(c)
  PROVE  IInv'
<1>1. QueuePart /\ SocketPart /\ GatePart /\ ToSet(queue) \subseteq users
  BY Parts
<1>2. /\ sockets' = sockets \cup {c} /\ data' = [data EXCEPT ![c] = NoUser]
      /\ users' = users /\ sock' = sock /\ recent' = recent /\ calls' = {}
      /\ UNCHANGED queueVars /\ UNCHANGED gateVars
  BY DEF AddSocket, userVars
<1>3. SocketPart'
  BY <1>1, <1>2 DEF SocketPart
<1>4. QueuePart' /\ GatePart' /\ queue' = queue
  BY <1>1, <1>2, QueueStays, GateStays DEF queueVars
<1> QED BY <1>1, <1>2, <1>3, <1>4, PartsNext

LEMMA DelSocketStepInv ==
  ASSUME IInv, NEW c \in Clients, DelSocket(c)
  PROVE  IInv'
<1>1. QueuePart /\ SocketPart /\ GatePart /\ ToSet(queue) \subseteq users
  BY Parts
<1>2. UNCHANGED gateVars /\ calls' = {}
  BY DEF DelSocket
<1>3. CASE data[c] \in Users
  <2>1. /\ users' = users \ {data[c]} /\ recent' \subseteq recent
        /\ DelLoginQueue(data[c])
    BY <1>3 DEF DelSocket, DelUser
  <2>2. SocketPart'
    <3> DEFINE D == {data[c]}
    <3>1. /\ D \in SUBSET Users /\ D \subseteq {data[c]} /\ users' = users \ D
          /\ \A u \in Users : data[c] = u => u \in D
      BY <1>3, <2>1
    <3> HIDE DEF D
    <3> QED BY <1>1, <2>1, <3>1, DelSocketInv
  <2>3. QueuePart' /\ ToSet(queue') \subseteq ToSet(queue) \ {data[c]}
    BY <1>1, <1>3, <2>1, DelLoginQueueInv
  <2>4. ToSet(queue') \subseteq users'
    BY <1>1, <2>1, <2>3
  <2> QED BY <1>1, <1>2, <2>2, <2>3, <2>4, GateStays, PartsNext
<1>4. CASE data[c] \notin Users
  <2>1. users' = users /\ recent' = recent /\ UNCHANGED queueVars
    BY <1>4 DEF DelSocket
  <2>2. SocketPart'
    <3> DEFINE D == {}
    <3>1. /\ D \in SUBSET Users /\ D \subseteq {data[c]} /\ users' = users \ D
          /\ \A u \in Users : data[c] = u => u \in D
          /\ recent' \subseteq recent
      BY <1>4, <2>1
    <3> HIDE DEF D
    <3> QED BY <1>1, <3>1, DelSocketInv
  <2>3. QueuePart' /\ GatePart' /\ queue' = queue
    BY <1>1, <1>2, <2>1, QueueStays, GateStays DEF queueVars
  <2> QED BY <1>1, <1>2, <2>1, <2>2, <2>3, PartsNext
<1> QED BY <1>3, <1>4

LEMMA LoginRequestInv ==
  ASSUME IInv, NEW c \in Clients, NEW u \in Users, LoginRequest(c, u)
  PROVE  IInv'
<1>1. QueuePart /\ SocketPart /\ GatePart /\ ToSet(queue) \subseteq users
  BY Parts
<1>2. SocketPart'
  BY <1>1, LoginRequestSocketInv
<1>3. GatePart'
  <2>1. PICK g \in GatesFor(u) : roster' = [roster EXCEPT ![g] = @ \cup {u}]
    BY DEF LoginRequest
  <2>2. gates' = gates /\ online' = online /\ g \in Gates
    BY <1>1, <2>1 DEF LoginRequest, GatesFor, Having, GatePart
  <2> QED BY <1>1, <2>1, <2>2 DEF GatePart
<1>4. QueuePart' /\ ToSet(queue') \subseteq ToSet(queue) \cup {u} /\ calls' \subseteq Users
  <2>1. LetInOrWait(u)
    BY DEF LoginRequest
  <2>2. CASE LoginQueueTimer > 0 /\ AddLoginQueue(u) /\ calls' = {}
    BY <1>1, <2>2, AddLoginQueueInv
  <2>3. CASE UNCHANGED queueVars /\ calls' \subseteq {u}
    <3>1. QueuePart' /\ queue' = queue
      BY <1>1, <2>3, QueueStays DEF queueVars
    <3> QED BY <2>3, <3>1
  <2> QED BY <2>1, <2>2, <2>3 DEF LetInOrWait
<1>5. users' = users \cup {u}
  BY DEF LoginRequest
<1>6. ToSet(queue') \subseteq users'
  BY <1>1, <1>4, <1>5
<1> QED BY <1>2, <1>3, <1>4, <1>6, PartsNext

LEMMA StepInv == IInv /\ [Next]_vars => IInv'
<1> SUFFICES ASSUME IInv, [Next]_vars PROVE IInv'
  OBVIOUS
<1>1. CASE ClientStep
  BY <1>1, AddSocketInv, DelSocketStepInv, LoginRequestInv DEF ClientStep
<1>2. CASE GateStep
  BY <1>2, GateStepInv
<1>3. CASE TimeStep
  BY <1>3, TimeStepInv
<1>4. CASE UNCHANGED vars
  <2>1. QueuePart /\ SocketPart /\ GatePart /\ ToSet(queue) \subseteq users /\ calls \subseteq Users
    BY Parts
  <2>2. /\ UNCHANGED queueVars /\ UNCHANGED <<clientVars, userVars>> /\ UNCHANGED gateVars
        /\ queue' = queue /\ users' = users /\ calls' = calls
    BY <1>4 DEF vars, queueVars, userVars
  <2>3. QueuePart' /\ SocketPart' /\ GatePart'
    BY <2>1, <2>2, QueueStays, SocketStays, GateStays
  <2> QED BY <2>1, <2>2, <2>3, PartsNext
<1> QED BY <1>1, <1>2, <1>3, <1>4 DEF Next

\* The inductive invariant holds in every behaviour of the login server.
THEOREM LoginInductive == Spec => []IInv
BY InitInv, StepInv, PTL DEF Spec

\* Type correctness, for any number of clients, users and gates.
THEOREM LoginTypes == Spec => []TypeOK
<1>1. IInv => TypeOK
  BY DEF IInv
<1> QED BY <1>1, LoginInductive, PTL

\* The queue's timer never stops while a user waits: neither a cancel that comes
\* too late nor a handler that ran late leaves a queue without one.
THEOREM LoginQueueTicks == Spec => []QueueTicks
<1>1. IInv => QueueTicks
  BY DEF IInv
<1> QED BY <1>1, LoginInductive, PTL

\* A lost connection deletes the user that has it and no other, and the queue
\* holds nobody whom the user list has not.
THEOREM LoginOwners == Spec => []OwnersMatch
<1>1. IInv => OwnersMatch
  BY DEF IInv
<1> QED BY <1>1, LoginInductive, PTL

-----------------------------------------------------------------------------
(* The login server implements WaitingRoom *)

\* A step that leaves the queue alone calls nobody or one user.
LEMMA Stays ==
  ASSUME queue' = queue, calls' = {} \/ \E u \in Users : calls' = {u}
  PROVE  Room!Next
BY DEF Room!Next, Room!Rest, Room!Pass

LEMMA ServeImplements ==
  ASSUME IInv, LoginQueueCallback
  PROVE  [Room!Next]_<<queue, calls>>
<1>1. queue \in Seq(Users)
  BY DEF IInv, TypeOK
<1>2. PICK n \in 0..LoginQueueProcess : Serve(n)
  BY DEF LoginQueueCallback
<1> DEFINE m == IF n > Len(queue) THEN Len(queue) ELSE n
<1>3. m \in Nat /\ m <= Len(queue) /\ m <= LoginQueueProcess
  BY <1>1
<1>4. queue' = SubSeq(queue, m + 1, Len(queue))
  <2>1. CASE n > Len(queue)
    <3>1. SubSeq(queue, Len(queue) + 1, Len(queue)) = <<>>
      BY <1>1, SubSeqEmpty
    <3> QED BY <1>2, <2>1, <3>1 DEF Serve
  <2>2. CASE ~(n > Len(queue))
    BY <1>2, <2>2 DEF Serve
  <2> QED BY <2>1, <2>2
<1>5. calls' \subseteq {queue[i] : i \in 1..m}
  <2>1. CASE n > Len(queue)
    <3>1. DOMAIN queue = 1..m
      BY <1>1, <2>1
    <3> QED BY <1>2, <2>1, <3>1 DEF Serve, Sent, ToSet
  <2>2. CASE ~(n > Len(queue))
    BY <1>2, <2>2 DEF Serve, Sent
  <2> QED BY <2>1, <2>2
<1> HIDE DEF m
<1>6. CASE m > 0
  <2>1. m \in 1..LoginQueueProcess
    BY <1>3, <1>6
  <2>2. Room!Admit
    BY <1>3, <1>4, <1>5, <2>1 DEF Room!Admit
  <2> QED BY <2>2 DEF Room!Next
<1>7. CASE ~(m > 0)
  <2>1. m = 0
    BY <1>3, <1>7
  <2>2. calls' = {}
    BY <1>5, <2>1
  <2>3. queue' = queue
    BY <1>1, <1>4, <2>1
  <2> QED BY <2>2, <2>3, Stays
<1> QED BY <1>6, <1>7

LEMMA DelSocketImplements ==
  ASSUME IInv, NEW c \in Clients, DelSocket(c)
  PROVE  Room!Next
<1>1. calls' = {}
  BY DEF DelSocket
<1>2. CASE data[c] \in Users /\ data[c] \in ToSet(queue)
  <2>1. DelLoginQueue(data[c])
    BY <1>2 DEF DelSocket, DelUser
  <2>2. Room!Leave(data[c])
    BY <1>1, <1>2, <2>1 DEF DelLoginQueue, Room!Leave, RemoveAt, Room!RemoveAt
  <2> QED BY <1>2, <2>2 DEF Room!Next
<1>3. CASE ~(data[c] \in Users /\ data[c] \in ToSet(queue))
  <2>1. queue' = queue
    BY <1>3 DEF DelSocket, DelUser, DelLoginQueue, queueVars
  <2> QED BY <1>1, <2>1, Stays
<1> QED BY <1>2, <1>3

LEMMA LoginRequestImplements ==
  ASSUME IInv, NEW c \in Clients, NEW u \in Users, LoginRequest(c, u)
  PROVE  Room!Next
<1>1. LetInOrWait(u)
  BY DEF LoginRequest
<1>2. CASE AddLoginQueue(u) /\ calls' = {} /\ u \notin ToSet(queue)
  <2>1. Room!Join(u)
    BY <1>2 DEF AddLoginQueue, Room!Join, ToSet, Room!ToSet
  <2> QED BY <2>1 DEF Room!Next
<1>3. CASE AddLoginQueue(u) /\ calls' = {} /\ u \in ToSet(queue)
  BY <1>3, Stays DEF AddLoginQueue
<1>4. CASE UNCHANGED queueVars /\ (calls' = {} \/ calls' = {u})
  BY <1>4, Stays DEF queueVars
<1> QED BY <1>1, <1>2, <1>3, <1>4 DEF LetInOrWait

LEMMA StepImplements == IInv /\ [Next]_vars => [Room!Next]_<<queue, calls>>
<1> SUFFICES ASSUME IInv, [Next]_vars PROVE [Room!Next]_<<queue, calls>>
  OBVIOUS
<1>1. ASSUME NEW c \in Clients, AddSocket(c)
      PROVE  Room!Next
  BY <1>1, Stays DEF AddSocket, queueVars
<1>2. CASE ClientStep
  BY <1>1, <1>2, DelSocketImplements, LoginRequestImplements DEF ClientStep
<1>3. CASE GateStep
  <2>1. queue' = queue /\ calls' = {}
    BY <1>3 DEF GateStep, AddGate, DelGate, ListUsers, SynGateInfo, KickRole,
                KickGateAllUser, UpdateUserNum, queueVars
  <2> QED BY <2>1, Stays
<1>4. CASE TimeStep
  <2>1. CASE LoginQueueCallback
    BY <2>1, ServeImplements
  <2>2. CASE TimerExpires \/ \E u \in Users : Elapse(u)
    BY <2>2, Stays DEF TimerExpires, Elapse, queueVars
  <2> QED BY <1>4, <2>1, <2>2 DEF TimeStep
<1>5. CASE UNCHANGED vars
  BY <1>5 DEF vars, queueVars
<1> QED BY <1>2, <1>3, <1>4, <1>5 DEF Next

\* The login queue is a waiting room for any numbers: first come, first called,
\* at most login_queue_process at a time, and nobody in it twice.
THEOREM LoginImplementsWaitingRoom == Spec => ServedInOrder
<1>1. Init => Room!Init
  BY DEF Init, Room!Init
<1>2. IInv /\ [Next]_vars => [Room!Next]_<<queue, calls>>
  BY StepImplements
<1> QED BY <1>1, <1>2, LoginInductive, PTL DEF Spec, ServedInOrder, Room!Spec

=============================================================================
