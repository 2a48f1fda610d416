------------------------ MODULE ClusterAnswered_proofs ------------------------
(***************************************************************************)
(* As long as nothing failed, no user is left in LOGIN or WAIT: there is   *)
(* always a letter on its way, or a role being loaded, that will tell its  *)
(* gate how the login or the jump ended.                                   *)
(***************************************************************************)
EXTENDS ClusterSession_proofs

----------------------------------------------------------------------------
(* The letters of a channel.                                               *)

Letters(c) == {c[i] : i \in 1..Len(c)}
Latest(c) == c[Len(c)]

LEMMA LettersAppend ==
    ASSUME NEW S, NEW c \in Seq(S), NEW m
    PROVE  /\ Letters(Append(c, m)) = Letters(c) \cup {m}
           /\ Append(c, m) # <<>> /\ Latest(Append(c, m)) = m
  <1>1. /\ Len(Append(c, m)) = Len(c) + 1 /\ Append(c, m)[Len(c) + 1] = m /\ Len(c) \in Nat
        /\ \A i \in 1..Len(c) : Append(c, m)[i] = c[i]
    OBVIOUS
  <1>2. 1..(Len(c) + 1) = 1..Len(c) \cup {Len(c) + 1}
    BY <1>1
  <1> QED
    BY <1>1, <1>2 DEF Letters, Latest

LEMMA LettersTail ==
    ASSUME NEW S, NEW c \in Seq(S), c # <<>>
    PROVE  /\ Letters(c) = {Head(c)} \cup Letters(Tail(c))
           /\ Tail(c) # <<>> => Latest(Tail(c)) = Latest(c)
           /\ Tail(c) = <<>> => Latest(c) = Head(c)
           /\ Latest(c) \in Letters(c)
  <1>1. /\ Len(c) \in Nat \ {0} /\ Len(Tail(c)) = Len(c) - 1 /\ Head(c) = c[1]
        /\ Tail(c) \in Seq(S)
        /\ \A i \in 1..(Len(c) - 1) : Tail(c)[i] = c[i + 1]
    OBVIOUS
  <1>2. Letters(c) = {Head(c)} \cup Letters(Tail(c))
    <2>1. ASSUME NEW i \in 1..Len(c)
          PROVE  c[i] \in {Head(c)} \cup Letters(Tail(c))
      <3>1. CASE i = 1
        BY <1>1, <3>1
      <3>2. CASE i # 1
        <4>1. i - 1 \in 1..Len(Tail(c)) /\ Tail(c)[i - 1] = c[i]
          BY <1>1, <3>2
        <4> QED
          BY <4>1 DEF Letters
      <3> QED
        BY <3>1, <3>2
    <2>2. ASSUME NEW i \in 1..Len(Tail(c))
          PROVE  Tail(c)[i] \in Letters(c)
      <3>1. i + 1 \in 1..Len(c) /\ Tail(c)[i] = c[i + 1]
        BY <1>1
      <3> QED
        BY <3>1 DEF Letters
    <2>3. Head(c) \in Letters(c)
      <3>1. 1 \in 1..Len(c)
        BY <1>1
      <3> QED
        BY <1>1, <3>1 DEF Letters
    <2> QED
      BY <2>1, <2>2, <2>3 DEF Letters
  <1>3. Tail(c) # <<>> => Len(Tail(c)) # 0
    BY <1>1, EmptySeq
  <1>4. Tail(c) # <<>> => Latest(Tail(c)) = Latest(c)
    <2> SUFFICES ASSUME Tail(c) # <<>> PROVE Tail(c)[Len(c) - 1] = c[Len(c)]
      BY <1>1 DEF Latest
    <2>1. Len(c) - 1 \in 1..(Len(c) - 1) /\ (Len(c) - 1) + 1 = Len(c)
      BY <1>1, <1>3
    <2> QED
      BY <1>1, <2>1
  <1>5. Tail(c) = <<>> => Latest(c) = Head(c)
    <2> SUFFICES ASSUME Tail(c) = <<>> PROVE Len(c) = 1
      BY <1>1 DEF Latest
    <2> QED
      BY <1>1
  <1>6. Len(c) \in 1..Len(c)
    BY <1>1
  <1> QED
    BY <1>2, <1>4, <1>5, <1>6 DEF Letters, Latest

LEMMA LettersEmpty == Letters(<<>>) = {}
  BY DEF Letters

\* A channel c becomes d: what was taken from it and what was put on it.
After(c, d, taken, put) ==
    /\ \A m \in Letters(d) : m \in Letters(c) \/ m \in put
    /\ \A m \in Letters(c) : m \in Letters(d) \/ m \in taken
    /\ put \subseteq Letters(d)
    /\ put # {} => d # <<>> /\ Latest(d) \in put
    /\ put = {} /\ d # <<>> => c # <<>> /\ Latest(d) = Latest(c)
    /\ put = {} /\ d = <<>> /\ c # <<>> => Latest(c) \in taken
    /\ put = {} /\ taken = {} => d = c

Put(p, out, r, s) == IF r = p /\ s \in DOMAIN out THEN {out[s]} ELSE {}
Taken(p, q, r, s) == IF r = q /\ s = p THEN {Incoming(q, p)} ELSE {}

LEMMA SendLetters ==
    ASSUME Fits(wire, Any), up = Links, NEW p \in Processes, NEW out, Send(p, out),
           NEW r \in Processes, NEW s \in Peers[r]
    PROVE  After(wire[r][s], wire'[r][s], {}, Put(p, out, r, s))
  <1> DEFINE c == wire[r][s]
  <1>1. c \in Seq(Msgs) /\ {r, s} \in up
    BY Ends DEF Fits, Any
  <1>2. wire'[r][s] = Sent(c, p, out, r, s)
    BY PostChannels DEF Send
  <1> HIDE DEF c
  <1>3. CASE r = p /\ s \in DOMAIN out
    <2>1. wire'[r][s] = Append(c, out[s]) /\ Put(p, out, r, s) = {out[s]}
      BY <1>1, <1>2, <1>3 DEF Sent, Put
    <2>2. /\ Letters(Append(c, out[s])) = Letters(c) \cup {out[s]}
          /\ Append(c, out[s]) # <<>> /\ Latest(Append(c, out[s])) = out[s]
      BY <1>1, LettersAppend
    <2> QED
      BY <2>1, <2>2 DEF After, c
  <1>4. CASE ~(r = p /\ s \in DOMAIN out)
    <2>1. wire'[r][s] = c /\ Put(p, out, r, s) = {}
      BY <1>2, <1>4 DEF Sent, Put
    <2> QED
      BY <2>1 DEF After, c
  <1> QED
    BY <1>3, <1>4

LEMMA HandleLetters ==
    ASSUME Fits(wire, Any), up = Links, NEW p \in Processes, NEW q \in Peers[p], NEW out,
           Hears(p, q), Handle(q, p, out), NEW r \in Processes, NEW s \in Peers[r]
    PROVE  After(wire[r][s], wire'[r][s], Taken(p, q, r, s), Put(p, out, r, s))
  <1> DEFINE c == wire[r][s]
  <1>1. c \in Seq(Msgs) /\ {r, s} \in up /\ p # q /\ (c # <<>> => Tail(c) \in Seq(Msgs))
    <2>1. c \in Seq(Msgs) /\ {r, s} \in up /\ p # q
      BY Ends DEF Fits, Any
    <2> QED
      BY <2>1, SeqStep
  <1>2. wire'[r][s] = Sent(Took(c, p, q, r, s), p, out, r, s)
    BY HandleChannels
  <1>3. r = q /\ s = p => c # <<>> /\ Incoming(q, p) = Head(c)
    BY DEF Hears, Incoming
  <1> HIDE DEF c
  <1>4. CASE r = q /\ s = p
    <2>1. wire'[r][s] = Tail(c) /\ Put(p, out, r, s) = {} /\ Taken(p, q, r, s) = {Head(c)}
      BY <1>1, <1>2, <1>3, <1>4 DEF Sent, Took, Put, Taken
    <2>2. /\ Letters(c) = {Head(c)} \cup Letters(Tail(c))
          /\ Tail(c) # <<>> => Latest(Tail(c)) = Latest(c)
          /\ Tail(c) = <<>> => Latest(c) = Head(c)
      BY <1>1, <1>3, <1>4, LettersTail
    <2> QED
      BY <1>3, <1>4, <2>1, <2>2 DEF After, c
  <1>5. CASE ~(r = q /\ s = p) /\ r = p /\ s \in DOMAIN out
    <2>1. /\ wire'[r][s] = Append(c, out[s]) /\ Put(p, out, r, s) = {out[s]}
          /\ Taken(p, q, r, s) = {}
      BY <1>1, <1>2, <1>5 DEF Sent, Took, Put, Taken
    <2>2. /\ Letters(Append(c, out[s])) = Letters(c) \cup {out[s]}
          /\ Append(c, out[s]) # <<>> /\ Latest(Append(c, out[s])) = out[s]
      BY <1>1, LettersAppend
    <2> QED
      BY <2>1, <2>2 DEF After, c
  <1>6. CASE ~(r = q /\ s = p) /\ ~(r = p /\ s \in DOMAIN out)
    <2>1. wire'[r][s] = c /\ Put(p, out, r, s) = {} /\ Taken(p, q, r, s) = {}
      BY <1>2, <1>6 DEF Sent, Took, Put, Taken
    <2> QED
      BY <2>1 DEF After, c
  <1> QED
    BY <1>4, <1>5, <1>6

\* What is heard was on the channel.
LEMMA HeardLetter ==
    ASSUME Fits(wire, Any), NEW p \in Processes, NEW q \in Peers[p], Hears(p, q)
    PROVE  Incoming(q, p) \in Letters(wire[q][p])
  <1>1. q \in Processes /\ p \in Peers[q]
    BY Ends
  <1>2. wire[q][p] \in Seq(Msgs) /\ wire[q][p] # <<>>
    BY <1>1 DEF Fits, Any, Hears
  <1> QED
    BY <1>2, LettersTail DEF Incoming

----------------------------------------------------------------------------
(* The invariant.                                                          *)

Clean == faults = 0 /\ hurries = 0

\* As long as nothing failed everybody is connected.
Whole ==
    /\ known = Games /\ up = Links
    /\ \A p \in Processes : \A q \in Peers[p] : \A m \in Letters(wire[p][q]) :
         m.kind \notin {"closed", "kick_all", "syn"}

\* The database owes g a record.
Asked(g) ==
    \/ \E m \in Letters(wire[g]["db"]) : m.kind = "load"
    \/ \E m \in Letters(wire["db"][g]) : m.kind = "record"

Loading(g) == role[g] # None /\ role[g].st = "LOADING"

Calls(m, a) == m.kind \in {"reg_scene", "relogin"} /\ m.gate = a

\* What will tell gate a how its login or its jump ended.
Due(a) ==
    \/ \E m \in Letters(wire[a]["center"]) : m.kind \in {"reg", "cross"}
    \/ \E g \in Games : wire["center"][g] # <<>> /\ Calls(Latest(wire["center"][g]), a)
    \/ \E g \in Games : wire["center"][g] = <<>> /\ Loading(g) /\ role[g].gate = a
    \/ \E q \in Peers[a] : \E m \in Letters(wire[q][a]) : m.kind \in {"success", "unreg"}

\* Center has the user at another gate than a: its login at a is yet to be heard.
Elsewhere(a) ==
    /\ gate[a] \notin {"SCENE", "WAIT"}
    /\ \A m \in Letters(wire[a]["center"]) : m.kind # "cross"
    /\ \A g \in Games : \A m \in Letters(wire[g][a]) : m.kind # "success"
    /\ \A g \in Games : \A m \in Letters(wire["center"][g]) : m.kind \notin {"reg_scene", "relogin"}
    /\ \A g \in Games : ~Asked(g)

\* The player is at gate a: the other gates are silent, and nothing that is under
\* way is about them.
Session(a) ==
    /\ \A b \in Gates \ {a} :
         /\ gate[b] = "NONE"
         /\ \A q \in Peers[b] : wire[b][q] = <<>>
         /\ \A g \in Games : \A m \in Letters(wire[g][b]) : m.kind # "success"
    /\ \A g \in Games : \A m \in Letters(wire[a][g]) : m.kind = "unreg" => m.code = "OFFLINE"
    /\ \A g \in Games : \A m \in Letters(wire["center"][g]) :
         m.kind \in {"reg_scene", "relogin"} => m.gate = a
    /\ \A g \in Games : role[g] # None /\ Asked(g) => role[g].gate = a
    /\ user # None /\ user.gate # a => Elsewhere(a)
    /\ gate[a] \in {"LOGIN", "WAIT"} => Due(a)

Answerable ==
    /\ Whole
    /\ \A g \in Games : Loading(g) => Asked(g)
    /\ \A a \in Gates : gate[a] # "NONE" => Session(a)

\* It is what has to be shown: with all letters handled, nothing is due.
LEMMA AnswerImplies ==
    ASSUME Clean => Answerable
    PROVE  Answered
  <1> SUFFICES ASSUME Quiet, Clean, NEW a \in Gates, gate[a] \in {"LOGIN", "WAIT"}
               PROVE  FALSE
    BY DEF Answered, Clean
  <1>1. \A p \in Processes : \A q \in Peers[p] : Letters(wire[p][q]) = {} /\ wire[p][q] = <<>>
    BY LettersEmpty DEF Quiet
  <1>2. Due(a) /\ \A g \in Games : Loading(g) => Asked(g)
    BY DEF Answerable, Session
  <1>3. /\ a \in Processes /\ "center" \in Processes /\ "db" \in Processes /\ "center" \in Peers[a]
        /\ \A g \in Games : /\ g \in Processes /\ "db" \in Peers[g] /\ g \in Peers["db"]
                            /\ g \in Peers["center"]
        /\ \A q \in Peers[a] : q \in Processes /\ a \in Peers[q]
    BY Connections
  <1>4. \A g \in Games : ~Loading(g)
    BY <1>1, <1>2, <1>3 DEF Asked
  <1> QED
    BY <1>1, <1>2, <1>3, <1>4 DEF Due

----------------------------------------------------------------------------
(* The steps.                                                              *)

Bad == {"closed", "kick_all", "syn"}

LEMMA WholeSend ==
    ASSUME TypeOK, Whole, NEW p \in Processes, NEW out, Send(p, out), UNCHANGED <<known, up>>,
           \A s \in DOMAIN out : out[s].kind \notin Bad
    PROVE  /\ Whole'
           /\ \A r \in Processes : \A s \in Peers[r] :
                After(wire[r][s], wire'[r][s], {}, Put(p, out, r, s))
  <1>1. \A r \in Processes : \A s \in Peers[r] :
          After(wire[r][s], wire'[r][s], {}, Put(p, out, r, s))
    BY WireTypes, SendLetters DEF TypeOK, Whole
  <1>2. ASSUME NEW r \in Processes, NEW s \in Peers[r], NEW m \in Letters(wire'[r][s])
        PROVE  m.kind \notin Bad
    <2>1. m \in Letters(wire[r][s]) \/ m \in Put(p, out, r, s)
      BY <1>1, <1>2 DEF After
    <2>2. m \in Letters(wire[r][s]) => m.kind \notin Bad
      BY DEF Whole, Bad
    <2>3. m \in Put(p, out, r, s) => m.kind \notin Bad
      BY DEF Put
    <2> QED
      BY <2>1, <2>2, <2>3
  <1> QED
    BY <1>1, <1>2 DEF Whole, Bad

LEMMA WholeHandle ==
    ASSUME TypeOK, Whole, NEW p \in Processes, NEW q \in Peers[p], NEW out, Hears(p, q),
           Handle(q, p, out), UNCHANGED <<known, up>>,
           \A s \in DOMAIN out : out[s].kind \notin Bad
    PROVE  /\ Whole'
           /\ \A r \in Processes : \A s \in Peers[r] :
                After(wire[r][s], wire'[r][s], Taken(p, q, r, s), Put(p, out, r, s))
  <1>1. \A r \in Processes : \A s \in Peers[r] :
          After(wire[r][s], wire'[r][s], Taken(p, q, r, s), Put(p, out, r, s))
    BY WireTypes, HandleLetters DEF TypeOK, Whole
  <1>2. ASSUME NEW r \in Processes, NEW s \in Peers[r], NEW m \in Letters(wire'[r][s])
        PROVE  m.kind \notin Bad
    <2>1. m \in Letters(wire[r][s]) \/ m \in Put(p, out, r, s)
      BY <1>1, <1>2 DEF After
    <2>2. m \in Letters(wire[r][s]) => m.kind \notin Bad
      BY DEF Whole, Bad
    <2>3. m \in Put(p, out, r, s) => m.kind \notin Bad
      BY DEF Put
    <2> QED
      BY <2>1, <2>2, <2>3
  <1> QED
    BY <1>1, <1>2 DEF Whole, Bad

\* What is heard is of the kinds that are sent while nothing failed.
LEMMA WholeHears ==
    ASSUME TypeOK, Whole, NEW p \in Processes, NEW q \in Peers[p], Hears(p, q)
    PROVE  /\ Incoming(q, p) \in Letters(wire[q][p]) /\ Incoming(q, p) \in Msgs
           /\ Incoming(q, p).kind \notin Bad
  <1>1. Incoming(q, p) \in Letters(wire[q][p]) /\ Incoming(q, p) \in Msgs
    BY WireTypes, HeardLetter, HearTypes DEF TypeOK
  <1>2. q \in Processes /\ p \in Peers[q]
    BY Ends
  <1> QED
    BY <1>1, <1>2 DEF Whole, Bad

\* A channel that nothing was taken from and nothing put on.
LEMMA Untouched ==
    ASSUME NEW c, NEW d, After(c, d, {}, {})
    PROVE  d = c
  BY DEF After

\* What the player makes of gate a, and what the gate says.
PlayerActs(a, st, out) ==
    /\ \A s \in DOMAIN out : out[s].kind \notin Bad
    /\ \/ st = "NONE"
       \/ Arrive(a) /\ gate[a] = "NONE" /\ st = "GATE" /\ out = Nothing
       \/ /\ gate[a] # "NONE"
          /\ \A s \in DOMAIN out : /\ out[s].kind \in {"reg", "ready", "unreg"}
                                   /\ out[s].kind = "unreg" => out[s].code = "OFFLINE"
          /\ st = "SCENE" => gate[a] = "SCENE"
          /\ st # "WAIT"
          /\ st = "LOGIN" => out = To("center", Say("reg"))

\* A notice of the end of a session says nothing else, to whomever it goes.
LEMMA UnregSays ==
    ASSUME NEW a, NEW c, NEW out \in Unregs(a, c), NEW s \in DOMAIN out
    PROVE  out[s] = UnregMsg(c)
  BY DEF Unregs, Each, To, Nothing, ++

LEMMA PlayerMail ==
    ASSUME TypeOK, NEW a \in Gates, PlayerStep(a)
    PROVE  \E st, out :
             GateMoves(a, st, out) /\ PlayerActs(a, st, out)
  <1> USE DEF GateStates, LoginStates, PlayerActs
  <1>1. \A c : \A out \in Unregs(a, c) : \A s \in DOMAIN out : out[s] = UnregMsg(c)
    BY UnregSays
  <1>2. \A s \in DOMAIN Nothing : FALSE
    BY DEF Nothing, Each
  <1>3. \A c : UnregMsg(c).kind = "unreg" /\ UnregMsg(c).code = c
    BY DEF UnregMsg
  <1>4. \A q, k : \A s \in DOMAIN To(q, Say(k)) : To(q, Say(k))[s].kind = k
    BY DEF To, Each, Say
  <1>5. CASE Arrive(a)
    BY <1>2, <1>5 DEF Arrive
  <1>6. CASE LoginGame(a)
    BY <1>4, <1>6 DEF LoginGame, Bad
  <1>7. CASE Ready(a)
    BY <1>4, <1>7 DEF Ready, Bad
  <1>8. CASE Leave(a)
    <2>1. CASE GateDrops(a, Nothing)
      BY <1>2, <2>1 DEF GateDrops
    <2>2. CASE gate[a] # "NONE" /\ \E out \in Unregs(a, "OFFLINE") \cup {Nothing} : GateMoves(a, "OFFLINE", out)
      BY <1>1, <1>2, <1>3, <2>2 DEF Bad
    <2> QED
      BY <1>8, <2>1, <2>2 DEF Leave
  <1>9. CASE Expire(a)
    BY <1>1, <1>3, <1>9 DEF Expire, GateDrops, Bad
  <1>10. CASE MsgBomb(a)
    BY <1>1, <1>2, <1>3, <1>10 DEF MsgBomb, GateDrops, Bad
  <1> QED
    BY <1>5, <1>6, <1>7, <1>8, <1>9, <1>10 DEF PlayerStep

LEMMA PlayerAnswers ==
    ASSUME TypeOK, Answerable, NEW a \in Gates, PlayerStep(a), hurries' = hurries
    PROVE  Answerable'
  <1>1. PICK st, out :
             GateMoves(a, st, out) /\ PlayerActs(a, st, out)
    BY PlayerMail
  <1>2. /\ gate' = [gate EXCEPT ![a] = st] /\ Send(a, out)
        /\ UNCHANGED <<user, home, known, role, up>>
    BY <1>1 DEF GateMoves, centerVars, dataVars
  <1>3. /\ a \in Processes /\ "center" \in Processes /\ "db" \in Processes /\ "center" \in Peers[a]
        /\ \A g \in Games : /\ g \in Processes /\ "db" \in Peers[g] /\ g \in Peers["db"]
                            /\ g \in Peers["center"] /\ a \in Peers[g] /\ g \in Peers[a]
                            /\ g # a /\ \A b \in Gates : b \in Peers[g]
        /\ a # "center" /\ a # "db"
        /\ \A b \in Gates : b \in Processes /\ "center" \in Peers[b] /\ b \in Peers["center"]
        /\ \A p \in Processes : \A q \in Peers[p] : q \in Processes /\ p \in Peers[q]
        /\ gate \in [Gates -> {"NONE", "OFFLINE"} \cup GateStates \cup LoginStates]
    BY Connections, Ends DEF TypeOK
  <1>4. /\ Whole'
        /\ \A r \in Processes : \A s \in Peers[r] :
             After(wire[r][s], wire'[r][s], {}, Put(a, out, r, s))
    BY <1>1, <1>2, <1>3, WholeSend DEF Answerable, PlayerActs
  <1>5. \A r \in Processes \ {a} : \A s \in Peers[r] : wire'[r][s] = wire[r][s]
    BY <1>4, Untouched DEF Put
  <1>6. \A g \in Games : (Asked(g)' <=> Asked(g)) /\ (Loading(g)' <=> Loading(g))
    BY <1>2, <1>3, <1>5 DEF Asked, Loading
  <1>7. ASSUME NEW x \in Gates, gate'[x] # "NONE"
        PROVE  Session(x)'
    <2>1. CASE gate[a] = "NONE"
      <3>1. Arrive(a) /\ st = "GATE" /\ out = Nothing /\ Quiet /\ \A b \in Gates \ {a} : gate[b] = "NONE"
        <4>1. st # "NONE"
          <5>1. CASE x = a
            BY <1>2, <1>3, <1>7, <5>1
          <5>2. CASE x # a
            <6>1. gate[x] # "NONE"
              BY <1>2, <1>3, <1>7, <5>2
            <6>2. ~Arrive(a)
              BY <1>3, <2>1, <6>1, <5>2 DEF Arrive, Hasty, TypeOK
            <6>3. gate[a] # "NONE"
              BY <6>2 DEF PlayerStep, LoginGame, Ready, Leave, Expire, MsgBomb, GateStates, LoginStates
            <6> QED
              BY <2>1, <6>3
          <5> QED
            BY <5>1, <5>2
        <4>2. Arrive(a) /\ st = "GATE" /\ out = Nothing
          BY <1>1, <2>1, <4>1 DEF PlayerActs
        <4>3. ~Hasty(a)
          BY <2>1, <4>2 DEF Arrive, TypeOK
        <4> QED
          BY <4>2, <4>3 DEF Hasty
      <3>2. \A r \in Processes : \A s \in Peers[r] : wire'[r][s] = <<>> /\ Letters(wire'[r][s]) = {}
        <4>1. \A r \in Processes : \A s \in Peers[r] : wire'[r][s] = wire[r][s]
          BY <1>4, <3>1, Untouched DEF Put, Nothing, Each
        <4> QED
          BY <3>1, <4>1, LettersEmpty DEF Quiet
      <3>3. x = a /\ gate'[a] = "GATE" /\ \A b \in Gates \ {a} : gate'[b] = "NONE"
        BY <1>2, <1>3, <1>7, <3>1
      <3>4. \A g \in Games : ~Asked(g)'
        BY <1>3, <3>2 DEF Asked
      <3> QED
        BY <1>3, <3>2, <3>3, <3>4 DEF Session, Elsewhere
    <2>2. CASE gate[a] # "NONE"
      <3>1. Session(a)
        BY <2>2 DEF Answerable
      <3>2. x = a
        BY <1>2, <1>3, <1>7, <3>1 DEF Session
      <3>3. gate'[a] = st /\ st # "NONE"
        BY <1>2, <1>3, <1>7, <3>2
      <3>4. /\ \A s \in DOMAIN out : /\ out[s].kind \in {"reg", "ready", "unreg"}
                                     /\ out[s].kind = "unreg" => out[s].code = "OFFLINE"
            /\ st = "SCENE" => gate[a] = "SCENE"
            /\ st # "WAIT"
            /\ st = "LOGIN" => out = To("center", Say("reg"))
        BY <1>1, <2>2, <3>3 DEF PlayerActs
      <3>5. \A s \in Peers[a] : \A m \in Letters(wire'[a][s]) : m \in Letters(wire[a][s]) \/
               (m.kind \in {"reg", "ready", "unreg"} /\ (m.kind = "unreg" => m.code = "OFFLINE"))
        <4> TAKE s \in Peers[a]
        <4> TAKE m \in Letters(wire'[a][s])
        <4>1. m \in Letters(wire[a][s]) \/ m \in Put(a, out, a, s)
          BY <1>3, <1>4 DEF After
        <4> QED
          BY <3>4, <4>1 DEF Put
      <3>6. \A b \in Gates \ {a} :
               /\ gate'[b] = "NONE"
               /\ \A q \in Peers[b] : wire'[b][q] = <<>>
               /\ \A g \in Games : \A m \in Letters(wire'[g][b]) : m.kind # "success"
        BY <1>2, <1>3, <1>5, <3>1 DEF Session
      <3>7. \A g \in Games : \A m \in Letters(wire'[a][g]) : m.kind = "unreg" => m.code = "OFFLINE"
        BY <1>3, <3>1, <3>5 DEF Session
      <3>8. /\ \A g \in Games : \A m \in Letters(wire'["center"][g]) :
                 m.kind \in {"reg_scene", "relogin"} => m.gate = a
            /\ \A g \in Games : role'[g] # None /\ Asked(g)' => role'[g].gate = a
        BY <1>2, <1>3, <1>5, <1>6, <3>1 DEF Session
      <3>9. user' # None /\ user'.gate # a => Elsewhere(a)'
        <4>1. Elsewhere(a) => Elsewhere(a)'
          BY <1>3, <1>5, <1>6, <3>3, <3>4, <3>5 DEF Elsewhere
        <4> QED
          BY <1>2, <3>1, <4>1 DEF Session
      <3>10. gate'[a] \in {"LOGIN", "WAIT"} => Due(a)'
        <4> SUFFICES ASSUME st = "LOGIN" PROVE Due(a)'
          BY <3>3, <3>4
        <4>1. Say("reg") \in Letters(wire'[a]["center"])
          <5>1. Put(a, out, a, "center") = {Say("reg")}
            BY <3>4 DEF Put, To, Each
          <5>2. Put(a, out, a, "center") \subseteq Letters(wire'[a]["center"])
            BY <1>3, <1>4 DEF After
          <5> QED
            BY <5>1, <5>2
        <4> QED
          BY <4>1 DEF Due, Say
      <3> QED
        BY <3>2, <3>6, <3>7, <3>8, <3>9, <3>10 DEF Session
    <2> QED
      BY <2>1, <2>2
  <1> QED
    BY <1>4, <1>6, <1>7 DEF Answerable

\* What gate a makes of the message of q: its state then, and what it says.
GateActs(q, a, st, out) ==
    LET m == Incoming(q, a)
        hears(kind) == q \in Games /\ m.kind = kind
    IN /\ \A s \in DOMAIN out : out[s].kind \notin Bad
       /\ gate[a] = "NONE" /\ ~hears("success") => st = "NONE" /\ out = Nothing
       /\ \/ st = "NONE"
          \/ /\ gate[a] = "OFFLINE" /\ st = "OFFLINE"
             /\ \A s \in DOMAIN out : out[s] = UnregMsg("OFFLINE")
          \/ hears("success") /\ gate[a] # "NONE" /\ st = "SCENE" /\ out = Nothing
          \/ hears("cross") /\ gate[a] # "SCENE" /\ st = gate[a] /\ out = Nothing
          \/ hears("cross") /\ gate[a] = "SCENE" /\ st = "WAIT" /\ out = To("center", m)

LEMMA GateMail ==
    ASSUME TypeOK, Whole, NEW a \in Gates, GateStep(a)
    PROVE  \E q \in Peers[a] : \E st, lst, out :
             Hears(a, q) /\ GateHandles(q, a, st, lst, out) /\ GateActs(q, a, st, out)
  <1>1. /\ \A c : \A out \in Unregs(a, c) : \A s \in DOMAIN out : out[s] = UnregMsg(c)
        /\ \A s \in DOMAIN Nothing : FALSE
        /\ \A c : UnregMsg(c).kind = "unreg" /\ UnregMsg(c).code = c
        /\ \A g : LET o == To("center", UnregMsg("ERROR")) ++ To(g, UnregMsg("ERROR"))
                  IN \A s \in DOMAIN o : o[s] = UnregMsg("ERROR")
    BY UnregSays DEF Each, To, Nothing, ++, UnregMsg
  <1>2. "center" \in Peers[a] /\ a \in Processes /\ \A g \in Games : g \in Peers[a] /\ g # "center"
    BY Connections
  <1>3. \A q \in Peers[a] : Hears(a, q) => Incoming(q, a).kind \notin Bad
    BY <1>2, WholeHears
  <1>4. ASSUME NEW q \in Peers[a], Hears(a, q), GateHearsError(q, a)
        PROVE  \E st, lst, out :
                 /\ GateHandles(q, a, st, lst, out) /\ out = Nothing
                 /\ st = "NONE" \/ (gate[a] = "OFFLINE" /\ st = "OFFLINE")
                 /\ gate[a] = "NONE" => st = "NONE"
    BY <1>4 DEF GateHearsError
  <1>5. ~(Hears(a, "center") /\ GateCleared(a))
    BY <1>2, <1>3 DEF GateCleared, Bad
  <1>6. ASSUME NEW g \in Games, Hears(a, g)
        PROVE  ~GateLosesGame(g, a)
    BY <1>2, <1>3, <1>6 DEF GateLosesGame, Bad
  <1>7. ASSUME NEW g \in Games, Hears(a, g), GateHearsSuccess(g, a)
        PROVE  \E st, lst, out :
             /\ GateHandles(g, a, st, lst, out) /\ Incoming(g, a).kind = "success"
             /\ \A s \in DOMAIN out : out[s].kind \notin Bad
             /\ \/ st = "NONE"
                \/ /\ gate[a] = "OFFLINE" /\ st = "OFFLINE"
                   /\ \A s \in DOMAIN out : out[s] = UnregMsg("OFFLINE")
                \/ gate[a] # "NONE" /\ st = "SCENE" /\ out = Nothing
    <2>1. CASE gate[a] \in {"LOGIN", "WAIT"} /\ GateHandles(g, a, "SCENE", listed[a] \cup {g}, Nothing)
      BY <1>1, <1>7, <2>1 DEF GateHearsSuccess
    <2>2. CASE gate[a] = "OFFLINE" /\ \E out \in Unregs(a, "OFFLINE") :
                                        GateHandles(g, a, "OFFLINE", listed[a], out)
      BY <1>1, <1>7, <2>2 DEF GateHearsSuccess, Bad
    <2>3. CASE GateHandles(g, a, "NONE", {}, To("center", UnregMsg("ERROR")) ++ To(g, UnregMsg("ERROR")))
      <3> DEFINE o == To("center", UnregMsg("ERROR")) ++ To(g, UnregMsg("ERROR"))
      <3>1. \A s \in DOMAIN o : o[s].kind \notin Bad
        BY <1>1 DEF Bad
      <3>2. Incoming(g, a).kind = "success"
        BY <1>7 DEF GateHearsSuccess
      <3> HIDE DEF o
      <3> QED
        BY <2>3, <3>1, <3>2 DEF o
    <2> QED
      BY <1>7, <2>1, <2>2, <2>3 DEF GateHearsSuccess
  <1>8. ASSUME NEW g \in Games, Hears(a, g), GateHearsCross(g, a)
        PROVE  \E st, lst, out :
             /\ GateHandles(g, a, st, lst, out) /\ Incoming(g, a).kind = "cross"
             /\ \A s \in DOMAIN out : out[s].kind \notin Bad
             /\ \/ gate[a] # "SCENE" /\ st = gate[a] /\ out = Nothing
                \/ gate[a] = "SCENE" /\ st = "WAIT" /\ out = To("center", Incoming(g, a))
    <2>1. \A s \in DOMAIN To("center", Incoming(g, a)) : To("center", Incoming(g, a))[s] = Incoming(g, a)
      BY DEF To, Each
    <2> QED
      BY <1>1, <1>8, <2>1 DEF GateHearsCross, Bad
  <1>9. CASE \E q \in Peers[a] : Hears(a, q) /\ GateHearsError(q, a)
    <2>1. PICK q \in Peers[a] : Hears(a, q) /\ GateHearsError(q, a)
      BY <1>9
    <2>2. PICK st, lst, out :
                 /\ GateHandles(q, a, st, lst, out) /\ out = Nothing
                 /\ st = "NONE" \/ (gate[a] = "OFFLINE" /\ st = "OFFLINE")
                 /\ gate[a] = "NONE" => st = "NONE"
      BY <1>4, <2>1
    <2>3. \A s \in DOMAIN out : FALSE
      BY <1>1, <2>2
    <2> QED
      BY <2>1, <2>2, <2>3 DEF GateActs
  <1>10. CASE \E g \in Games : Hears(a, g) /\ GateHearsSuccess(g, a)
    <2>1. PICK g \in Games : Hears(a, g) /\ GateHearsSuccess(g, a)
      BY <1>10
    <2> QED
      BY <1>2, <1>7, <2>1 DEF GateActs
  <1>11. CASE \E g \in Games : Hears(a, g) /\ GateHearsCross(g, a)
    <2>1. PICK g \in Games : Hears(a, g) /\ GateHearsCross(g, a)
      BY <1>11
    <2> QED
      BY <1>2, <1>8, <2>1 DEF GateActs
  <1> QED
    BY <1>2, <1>5, <1>6, <1>9, <1>10, <1>11 DEF GateStep

LEMMA GateAnswers ==
    ASSUME TypeOK, Answerable, NEW a \in Gates, GateStep(a)
    PROVE  Answerable'
  <1>1. PICK q \in Peers[a] : \E st, lst, out :
             Hears(a, q) /\ GateHandles(q, a, st, lst, out) /\ GateActs(q, a, st, out)
    BY GateMail DEF Answerable
  <1> DEFINE m == Incoming(q, a)
  <1>2. PICK st, lst, out :
             Hears(a, q) /\ GateHandles(q, a, st, lst, out) /\ GateActs(q, a, st, out)
    BY <1>1
  <1>3. /\ a \in Processes /\ "center" \in Processes /\ "db" \in Processes /\ "center" \in Peers[a]
        /\ \A g \in Games : /\ g \in Processes /\ "db" \in Peers[g] /\ g \in Peers["db"]
                            /\ g \in Peers["center"] /\ g \in Peers[a]
                            /\ g # a /\ g # "center" /\ g # "db"
                            /\ \A b \in Gates : b \in Peers[g]
        /\ a # "center" /\ a # "db" /\ q \notin Gates /\ q # "db"
        /\ \A b \in Gates : b \in Processes /\ "center" \in Peers[b] /\ b \in Peers["center"]
        /\ \A p \in Processes : \A r \in Peers[p] : r \in Processes /\ p \in Peers[r]
        /\ gate \in [Gates -> {"NONE", "OFFLINE"} \cup GateStates \cup LoginStates]
    <2>1. Peers[a] = Games \cup {"center"}
      BY Connections
    <2> QED
      BY <2>1, Connections, Ends, ProcessAssumption DEF TypeOK
  <1>4. /\ gate' = [gate EXCEPT ![a] = st] /\ Handle(q, a, out)
        /\ UNCHANGED <<user, home, known, role, up>>
    BY <1>2 DEF GateHandles, centerVars, dataVars
  <1>5. /\ Whole'
        /\ \A r \in Processes : \A s \in Peers[r] :
             After(wire[r][s], wire'[r][s], Taken(a, q, r, s), Put(a, out, r, s))
    BY <1>2, <1>3, <1>4, WholeHandle DEF Answerable, GateActs
  <1>6. \A r \in Processes \ {a} : \A s \in Peers[r] \ {a} : wire'[r][s] = wire[r][s]
    BY <1>5, Untouched DEF Put, Taken
  <1>7. \A r \in Processes \ {a} : \A s \in Peers[r] : \A n \in Letters(wire'[r][s]) : n \in Letters(wire[r][s])
    BY <1>5 DEF Put, After
  <1>8. \A g \in Games : (Asked(g)' <=> Asked(g)) /\ (Loading(g)' <=> Loading(g))
    BY <1>3, <1>4, <1>6 DEF Asked, Loading
  <1>9. m \in Letters(wire[q][a])
    BY <1>2, <1>3, HeardLetter, WireTypes DEF TypeOK
  <1>10. ASSUME NEW x \in Gates, x # a, gate'[x] # "NONE"
         PROVE  Session(x)'
    <2>1. Session(x) /\ gate[x] = gate'[x]
      BY <1>3, <1>4, <1>10 DEF Answerable
    <2>2. gate[a] = "NONE" /\ ~(q \in Games /\ m.kind = "success")
      BY <1>9, <1>10, <2>1 DEF Session
    <2>3. st = "NONE" /\ out = Nothing
      BY <1>2, <2>2 DEF GateActs
    <2>4. \A r \in Processes : \A s \in Peers[r] \ {a} : wire'[r][s] = wire[r][s]
      BY <1>5, <2>3, Untouched DEF Put, Taken, Nothing, Each
    <2>5. \A b \in Gates : \A s \in Peers[b] : wire'[b][s] = wire[b][s]
      <3> TAKE b \in Gates
      <3> TAKE s \in Peers[b]
      <3>1. Put(a, out, b, s) = {} /\ Taken(a, q, b, s) = {}
        BY <1>3, <2>3 DEF Put, Taken, Nothing, Each
      <3>2. After(wire[b][s], wire'[b][s], {}, {})
        BY <1>3, <1>5, <3>1
      <3> QED
        BY <3>2, Untouched
    <2>6. \A b \in Gates \ {x} :
               /\ gate'[b] = "NONE"
               /\ \A s \in Peers[b] : wire'[b][s] = <<>>
               /\ \A g \in Games : \A n \in Letters(wire'[g][b]) : n.kind # "success"
      <3> TAKE b \in Gates \ {x}
      <3>1. gate'[b] = "NONE"
        BY <1>3, <1>4, <2>1, <2>3 DEF Session
      <3>2. \A s \in Peers[b] : wire'[b][s] = <<>>
        BY <2>1, <2>5 DEF Session
      <3>3. ASSUME NEW g \in Games, NEW n \in Letters(wire'[g][b])
            PROVE  n.kind # "success"
        <4>1. g \in Processes \ {a} /\ b \in Peers[g]
          BY <1>3
        <4>2. n \in Letters(wire[g][b])
          BY <1>7, <4>1
        <4> QED
          BY <2>1, <4>2 DEF Session
      <3> QED
        BY <3>1, <3>2, <3>3
    <2>7. \A s \in Peers[x] : wire'[s][x] = wire[s][x]
      BY <1>3, <1>10, <2>4
    <2>8. \A g \in Games : wire'["center"][g] = wire["center"][g] /\ wire'[g][x] = wire[g][x]
      BY <1>3, <1>10, <2>4
    <2>9. Elsewhere(x) => Elsewhere(x)'
      BY <1>3, <1>8, <2>1, <2>5, <2>8 DEF Elsewhere
    <2>10. Due(x) => Due(x)'
      BY <1>3, <1>4, <1>8, <2>5, <2>7, <2>8 DEF Due
    <2> QED
      BY <1>3, <1>4, <1>8, <2>1, <2>5, <2>6, <2>8, <2>9, <2>10 DEF Session
  <1>11. ASSUME gate'[a] # "NONE"
         PROVE  Session(a)'
    <2>1. gate'[a] = st /\ st # "NONE"
      BY <1>3, <1>4, <1>11
    <2>2. gate[a] # "NONE"
      BY <1>2, <2>1 DEF GateActs
    <2>3. Session(a)
      BY <2>2 DEF Answerable
    <2>4. \A b \in Gates \ {a} :
               /\ gate'[b] = "NONE"
               /\ \A s \in Peers[b] : wire'[b][s] = <<>>
               /\ \A g \in Games : \A n \in Letters(wire'[g][b]) : n.kind # "success"
      <3>1. \A b \in Gates \ {a} : \A s \in Peers[b] : wire'[b][s] = wire[b][s]
        <4> TAKE b \in Gates \ {a}
        <4> TAKE s \in Peers[b]
        <4>1. Put(a, out, b, s) = {} /\ Taken(a, q, b, s) = {}
          BY <1>3 DEF Put, Taken
        <4>2. After(wire[b][s], wire'[b][s], {}, {})
          BY <1>3, <1>5, <4>1
        <4> QED
          BY <4>2, Untouched
      <3> TAKE b \in Gates \ {a}
      <3>2. gate'[b] = "NONE"
        BY <1>3, <1>4, <2>3 DEF Session
      <3>3. \A s \in Peers[b] : wire'[b][s] = <<>>
        BY <2>3, <3>1 DEF Session
      <3>4. ASSUME NEW g \in Games, NEW n \in Letters(wire'[g][b])
            PROVE  n.kind # "success"
        <4>1. g \in Processes \ {a} /\ b \in Peers[g]
          BY <1>3
        <4>2. n \in Letters(wire[g][b])
          BY <1>7, <4>1
        <4> QED
          BY <2>3, <4>2 DEF Session
      <3> QED
        BY <3>2, <3>3, <3>4
    <2>5. /\ \A s \in DOMAIN out \cap Games : out[s].kind = "unreg" => out[s].code = "OFFLINE"
          /\ "center" \in DOMAIN out => out["center"].kind = "unreg" \/ st = "WAIT"
      BY <1>2, <1>3, <2>1 DEF UnregMsg, GateActs, Nothing, To, Each
    <2>6. \A g \in Games : \A n \in Letters(wire'[a][g]) : n.kind = "unreg" => n.code = "OFFLINE"
      <3> TAKE g \in Games
      <3> TAKE n \in Letters(wire'[a][g])
      <3>1. n \in Letters(wire[a][g]) \/ n \in Put(a, out, a, g)
        BY <1>3, <1>5 DEF After
      <3> QED
        BY <2>3, <2>5, <3>1 DEF Put, Session
    <2>7. \A g \in Games : wire'["center"][g] = wire["center"][g]
      BY <1>3, <1>6
    <2>8. user' # None /\ user'.gate # a => Elsewhere(a)'
      <3> SUFFICES ASSUME Elsewhere(a) PROVE Elsewhere(a)'
        BY <1>4, <2>3 DEF Session
      <3>1. st \notin {"SCENE", "WAIT"}
        BY <1>2, <1>9, <2>1 DEF Elsewhere, GateActs
      <3>2. \A n \in Letters(wire'[a]["center"]) : n.kind # "cross"
        <4> TAKE n \in Letters(wire'[a]["center"])
        <4>1. n \in Letters(wire[a]["center"]) \/ n \in Put(a, out, a, "center")
          BY <1>3, <1>5 DEF After
        <4> QED
          BY <2>5, <3>1, <4>1 DEF Put, Elsewhere
      <3> QED
        BY <1>3, <1>7, <1>8, <2>1, <2>7, <3>1, <3>2 DEF Elsewhere
    <2>9. gate'[a] \in {"LOGIN", "WAIT"} => Due(a)'
      <3>1. CASE st = gate[a] /\ out = Nothing /\ m.kind = "cross" /\ gate[a] \in {"LOGIN", "WAIT"}
        <4>1. Due(a)
          BY <2>3, <3>1 DEF Session
        <4>2. wire'[a]["center"] = wire[a]["center"]
          BY <1>3, <1>5, <3>1, Untouched DEF Put, Taken, Nothing, Each
        <4>3. \A s \in Peers[a] : \A n \in Letters(wire[s][a]) :
                n.kind \in {"success", "unreg"} => n \in Letters(wire'[s][a])
          BY <1>3, <1>5, <3>1 DEF After, Taken
        <4> QED
          BY <1>3, <1>4, <1>8, <2>7, <4>1, <4>2, <4>3 DEF Due
      <3>2. CASE out = To("center", m) /\ m.kind = "cross"
        <4>1. Put(a, out, a, "center") = {m}
          BY <3>2 DEF Put, To, Each
        <4>2. m \in Letters(wire'[a]["center"])
          BY <1>3, <1>5, <4>1 DEF After
        <4> QED
          BY <3>2, <4>2 DEF Due
      <3> QED
        BY <1>2, <2>1, <3>1, <3>2 DEF GateActs
    <2> QED
      BY <1>3, <1>4, <1>8, <2>3, <2>4, <2>6, <2>7, <2>8, <2>9 DEF Session
  <1> QED
    BY <1>5, <1>8, <1>10, <1>11 DEF Answerable

\* What center makes of the message of q: the user it has then, and what it says.
CenterActs(q, u, out) ==
    LET m == Incoming(q, "center")
    IN \* There is nothing to answer.
       \/ /\ out = Nothing /\ m.kind \notin {"reg", "cross"}
          /\ u # None => user # None /\ u.gate = user.gate
       \* The login has failed.
       \/ /\ u = None
          /\ \A s \in DOMAIN out : out[s] = UnregMsg("ERROR")
          /\ Gates \subseteq DOMAIN out \/ q \in DOMAIN out \cap Gates
       \* The login or the jump goes on to a game.
       \/ \E g \in Games : \E n :
            /\ out = To(g, n) /\ n.kind \in {"reg_scene", "relogin"} /\ n.gate = u.gate
            /\ q \in Gates
            /\ \/ u.gate = q
               \/ m.kind = "cross" /\ user # None /\ u.gate = user.gate

LEMMA CenterMail ==
    ASSUME TypeOK, Whole, CenterStep
    PROVE  \E q \in Peers["center"] : \E u, h, out :
             /\ Hears("center", q) /\ CenterHandles(q, u, h, known, out) /\ CenterActs(q, u, out)
  <1> DEFINE Sum(q, u, h, out) ==
             /\ Hears("center", q) /\ CenterHandles(q, u, h, known, out) /\ CenterActs(q, u, out)
  <1>1. /\ "center" \in Processes
        /\ \A g \in Games : g \in Peers["center"] /\ g \notin Gates
        /\ \A a \in Gates : a \in Peers["center"]
    BY Connections, ProcessAssumption
  <1>2. \A q \in Peers["center"] : Hears("center", q) =>
          /\ Incoming(q, "center").kind \notin Bad /\ Incoming(q, "center") \in Msgs
    BY <1>1, WholeHears
  <1>3. user # None => user \in Users /\ user.game \in Games
    BY DEF TypeOK, Users
  <1>4. known = Games /\ home \in Games
    BY DEF Whole, TypeOK
  <1>5. \A S : /\ DOMAIN Each(S, UnregMsg("ERROR")) = S
               /\ \A s \in S : Each(S, UnregMsg("ERROR"))[s] = UnregMsg("ERROR")
    BY DEF Each
  <1>6. \A c, d : LET o == c ++ d IN
          /\ DOMAIN o = DOMAIN c \cup DOMAIN d
          /\ \A s \in DOMAIN o : o[s] = IF s \in DOMAIN c THEN c[s] ELSE d[s]
    BY DEF ++
  <1>7. \A S, T : LET o == Each(S, UnregMsg("ERROR")) ++ Each(T, UnregMsg("ERROR")) IN
          DOMAIN o = S \cup T /\ \A s \in DOMAIN o : o[s] = UnregMsg("ERROR")
    <2> TAKE S, T
    <2> DEFINE c == Each(S, UnregMsg("ERROR"))
               d == Each(T, UnregMsg("ERROR"))
    <2>1. DOMAIN c = S /\ DOMAIN d = T
      BY <1>5
    <2>2. \A s : (s \in S => c[s] = UnregMsg("ERROR")) /\ (s \in T => d[s] = UnregMsg("ERROR"))
      BY <1>5
    <2> HIDE DEF c, d
    <2>3. DOMAIN (c ++ d) = S \cup T /\ \A s \in DOMAIN (c ++ d) : (c ++ d)[s] = UnregMsg("ERROR")
      BY <1>6, <2>1, <2>2
    <2> QED
      BY <2>3 DEF c, d
  <1>8. ASSUME NEW a \in Gates, Hears("center", a), CenterRegs(a)
        PROVE  \E u, h, out : Sum(a, u, h, out)
    <2>1. CASE user # None /\ user.gate = a /\ CenterHandles(a, user, home, known,
                 To(user.game, [kind |-> "relogin", gate |-> a]))
      <3> DEFINE n == [kind |-> "relogin", gate |-> a]
      <3>1. n.kind = "relogin" /\ n.gate = a
        OBVIOUS
      <3> HIDE DEF n
      <3>2. Sum(a, user, home, To(user.game, n))
        BY <1>3, <1>8, <2>1, <3>1 DEF n, CenterActs
      <3> QED
        BY <3>2
    <2>2. CASE CenterHandles(a, None, home, known,
                 To(a, UnregMsg("ERROR")) ++ To(user.game, UnregMsg("ERROR")))
      <3> DEFINE o == To(a, UnregMsg("ERROR")) ++ To(user.game, UnregMsg("ERROR"))
      <3>1. DOMAIN o = {a, user.game} /\ \A s \in DOMAIN o : o[s] = UnregMsg("ERROR")
        BY <1>7 DEF To
      <3> HIDE DEF o
      <3>2. Sum(a, None, home, o)
        BY <1>8, <2>2, <3>1 DEF o, CenterActs
      <3> QED
        BY <3>2
    <2>3. ASSUME NEW g \in LoginScenes,
                 CenterHandles(a, [gate |-> a, game |-> g, on |-> "LOGOUT"], g, known,
                   To(g, [kind |-> "reg_scene", gate |-> a, type |-> "login"]))
          PROVE  \E u, h, out : Sum(a, u, h, out)
      <3> DEFINE n == [kind |-> "reg_scene", gate |-> a, type |-> "login"]
                 u == [gate |-> a, game |-> g, on |-> "LOGOUT"]
      <3>1. n.kind = "reg_scene" /\ n.gate = a /\ u.gate = a /\ g \in Games
        BY <1>4 DEF LoginScenes
      <3> HIDE DEF n, u
      <3>2. Sum(a, u, g, To(g, n))
        BY <1>8, <2>3, <3>1 DEF n, u, CenterActs
      <3> QED
        BY <3>2
    <2>4. CASE CenterHandles(a, None, home, known, To(a, UnregMsg("ERROR")))
      <3> DEFINE o == To(a, UnregMsg("ERROR"))
      <3>1. DOMAIN o = {a} /\ \A s \in DOMAIN o : o[s] = UnregMsg("ERROR")
        BY DEF To, Each
      <3> HIDE DEF o
      <3>2. Sum(a, None, home, o)
        BY <1>8, <2>4, <3>1 DEF o, CenterActs
      <3> QED
        BY <3>2
    <2> QED
      BY <1>8, <2>1, <2>2, <2>3, <2>4 DEF CenterRegs
  <1>9. ASSUME NEW a \in Gates, Hears("center", a), CenterCrosses(a)
        PROVE  \E u, h, out : Sum(a, u, h, out)
    <2> DEFINE to == Incoming(a, "center").to
    <2>1. CASE user # None /\ to \in known /\
                 CenterHandles(a, [user EXCEPT !.game = to], home, known,
                   To(to, [kind |-> "reg_scene", gate |-> user.gate, type |-> "jump"]))
      <3> DEFINE n == [kind |-> "reg_scene", gate |-> user.gate, type |-> "jump"]
                 u == [user EXCEPT !.game = to]
      <3>1. n.kind = "reg_scene" /\ n.gate = user.gate /\ to \in Games
        BY <1>4, <2>1
      <3>2. u.gate = user.gate
        BY <1>3, <2>1 DEF Users
      <3>3. Incoming(a, "center").kind = "cross"
        BY <1>9 DEF CenterCrosses
      <3> HIDE DEF n, u, to
      <3>4. Sum(a, u, home, To(to, n))
        BY <1>9, <2>1, <3>1, <3>2, <3>3 DEF n, u, CenterActs
      <3> QED
        BY <3>4
    <2>2. CASE CenterHandles(a, None, home, known, Each(Gates, UnregMsg("ERROR")))
      <3>1. Sum(a, None, home, Each(Gates, UnregMsg("ERROR")))
        BY <1>5, <1>9, <2>2 DEF CenterActs
      <3> QED
        BY <3>1
    <2> QED
      BY <1>9, <2>1, <2>2 DEF CenterCrosses
  <1>10. ASSUME NEW q \in Peers["center"], Hears("center", q), CenterUnregs(q)
         PROVE  \E u, h, out : Sum(q, u, h, out)
    <2>1. Incoming(q, "center").kind = "unreg"
      BY <1>10 DEF CenterUnregs
    <2>2. CASE CenterHandles(q, None, home, known, Nothing)
      <3>1. Sum(q, None, home, Nothing)
        BY <1>10, <2>1, <2>2 DEF CenterActs
      <3> QED
        BY <3>1
    <2>3. CASE user # None /\ CenterHandles(q, [user EXCEPT !.on = "OFFLINE"], home, known, Nothing)
      <3>1. [user EXCEPT !.on = "OFFLINE"].gate = user.gate
        BY <1>3, <2>3 DEF Users
      <3>2. Sum(q, [user EXCEPT !.on = "OFFLINE"], home, Nothing)
        BY <1>10, <2>1, <2>3, <3>1 DEF CenterActs
      <3> QED
        BY <3>2
    <2> QED
      BY <1>10, <2>2, <2>3 DEF CenterUnregs
  <1>11. ASSUME NEW g \in Games, Hears("center", g), CenterEntered(g)
         PROVE  \E u, h, out : Sum(g, u, h, out)
    <2>1. Incoming(g, "center").kind = "entered"
      BY <1>11 DEF CenterEntered
    <2>2. CASE user # None /\ CenterHandles(g, [user EXCEPT !.on = "ONLINE"], home, known, Nothing)
      <3>1. [user EXCEPT !.on = "ONLINE"].gate = user.gate
        BY <1>3, <2>2 DEF Users
      <3>2. Sum(g, [user EXCEPT !.on = "ONLINE"], home, Nothing)
        BY <1>11, <2>1, <2>2, <3>1 DEF CenterActs
      <3> QED
        BY <3>2
    <2>3. CASE user # None /\ CenterHandles(g, user, g, known, Nothing)
      <3>1. Sum(g, user, g, Nothing)
        BY <1>11, <2>1, <2>3 DEF CenterActs
      <3> QED
        BY <3>1
    <2>4. CASE CenterHandles(g, None, home, known,
                 Each(Gates, UnregMsg("ERROR")) ++ To(g, UnregMsg("ERROR")))
      <3> DEFINE o == Each(Gates, UnregMsg("ERROR")) ++ To(g, UnregMsg("ERROR"))
      <3>1. Gates \subseteq DOMAIN o /\ \A s \in DOMAIN o : o[s] = UnregMsg("ERROR")
        BY <1>7 DEF To
      <3> HIDE DEF o
      <3>2. Sum(g, None, home, o)
        BY <1>11, <2>4, <3>1 DEF o, CenterActs
      <3> QED
        BY <3>2
    <2> QED
      BY <1>11, <2>2, <2>3, <2>4 DEF CenterEntered
  <1>12. \A q \in Peers["center"] : Hears("center", q) =>
           ~CenterLosesGate(q) /\ ~CenterLosesGame(q) /\ ~CenterLearns(q)
    BY <1>2 DEF CenterLosesGate, CenterLosesGame, CenterLearns, Bad
  <1>13. \E q \in Peers["center"] : \E u, h, out : Sum(q, u, h, out)
    <2> HIDE DEF Sum
    <2> QED
      BY <1>1, <1>8, <1>9, <1>10, <1>11, <1>12 DEF CenterStep
  <1> QED
    BY <1>13

LEMMA CenterAnswers ==
    ASSUME TypeOK, Answerable, CenterStep
    PROVE  Answerable'
  <1>0. PICK q \in Peers["center"] : \E u, h, out :
             Hears("center", q) /\ CenterHandles(q, u, h, known, out) /\ CenterActs(q, u, out)
    BY CenterMail DEF Answerable
  <1>1. PICK u, h, out :
             Hears("center", q) /\ CenterHandles(q, u, h, known, out) /\ CenterActs(q, u, out)
    BY <1>0
  <1> DEFINE m == Incoming(q, "center")
             Idle == /\ out = Nothing /\ m.kind \notin {"reg", "cross"}
                     /\ u # None => user # None /\ u.gate = user.gate
             Refused == /\ u = None
                        /\ \A s \in DOMAIN out : out[s] = UnregMsg("ERROR")
                        /\ Gates \subseteq DOMAIN out \/ q \in DOMAIN out \cap Gates
             Goes(g, n) == /\ out = To(g, n) /\ n.kind \in {"reg_scene", "relogin"} /\ n.gate = u.gate
                           /\ q \in Gates
                           /\ \/ u.gate = q
                              \/ m.kind = "cross" /\ user # None /\ u.gate = user.gate
  <1>2. Idle \/ Refused \/ \E g \in Games : \E n : Goes(g, n)
    BY <1>1 DEF CenterActs
  <1>3. /\ "center" \in Processes /\ "db" \in Processes /\ "center" # "db" /\ q # "center"
        /\ \A g \in Games : /\ g \in Processes /\ "db" \in Peers[g] /\ g \in Peers["db"]
                            /\ g \in Peers["center"] /\ "center" \in Peers[g]
                            /\ g # "center" /\ g # "db"
                            /\ \A b \in Gates : g # b /\ b \in Peers[g] /\ g \in Peers[b]
        /\ \A b \in Gates : /\ b \in Processes /\ "center" \in Peers[b] /\ b \in Peers["center"]
                            /\ b # "center" /\ b # "db"
        /\ \A p \in Processes : \A r \in Peers[p] : r \in Processes /\ p \in Peers[r]
    BY Connections, Ends, ProcessAssumption
  <1>4. /\ user' = u /\ Handle(q, "center", out)
        /\ UNCHANGED <<gate, known, role, up>>
    BY <1>1 DEF CenterHandles, gateVars, dataVars
  <1>5. \A s \in DOMAIN out : out[s].kind \in {"reg_scene", "relogin", "unreg"}
    <2>1. CASE Idle
      BY <2>1 DEF Nothing, Each
    <2>2. CASE Refused
      BY <2>2 DEF UnregMsg
    <2>3. ASSUME NEW g \in Games, NEW n, Goes(g, n)
          PROVE  \A s \in DOMAIN out : out[s].kind \in {"reg_scene", "relogin"}
      BY <2>3 DEF To, Each
    <2> HIDE DEF Idle, Refused, Goes
    <2> QED
      BY <1>2, <2>1, <2>2, <2>3
  <1>6. /\ Whole'
        /\ \A r \in Processes : \A s \in Peers[r] :
             After(wire[r][s], wire'[r][s], Taken("center", q, r, s), Put("center", out, r, s))
    <2>1. \A s \in DOMAIN out : out[s].kind \notin Bad
      BY <1>5 DEF Bad
    <2> QED
      BY <1>1, <1>3, <1>4, <2>1, WholeHandle DEF Answerable
  <1>7. \A r \in Processes \ {"center"} : \A s \in Peers[r] :
          r # q \/ s # "center" => wire'[r][s] = wire[r][s]
    BY <1>6, Untouched DEF Put, Taken
  <1>8. \A g \in Games : (Asked(g)' <=> Asked(g)) /\ (Loading(g)' <=> Loading(g))
    BY <1>3, <1>4, <1>7 DEF Asked, Loading
  <1>9. m \in Letters(wire[q]["center"]) /\ wire[q]["center"] # <<>>
    BY <1>1, <1>3, HeardLetter, WireTypes DEF TypeOK, Hears
  <1>10. ASSUME NEW x \in Gates, gate'[x] # "NONE"
         PROVE  Session(x)'
    <2>1. Session(x) /\ gate[x] = gate'[x]
      BY <1>4, <1>10 DEF Answerable
    <2>2. q \in Gates => q = x
      BY <1>3, <1>9, <2>1 DEF Session
    <2>3. \A g \in Games : \A n : Goes(g, n) => u.gate = x
      <3> SUFFICES ASSUME q = x, m.kind = "cross", user # None PROVE user.gate = x
        BY <2>2
      <3> QED
        BY <1>9, <2>1 DEF Session, Elsewhere
    <2>4. \A b \in Gates \ {x} :
               /\ gate'[b] = "NONE"
               /\ \A s \in Peers[b] : wire'[b][s] = <<>>
               /\ \A g \in Games : \A n \in Letters(wire'[g][b]) : n.kind # "success"
      <3> TAKE b \in Gates \ {x}
      <3>1. gate'[b] = "NONE"
        BY <1>4, <2>1 DEF Session
      <3>2. \A s \in Peers[b] : wire'[b][s] = <<>>
        BY <1>3, <1>7, <2>1, <2>2 DEF Session
      <3>3. \A g \in Games : wire'[g][b] = wire[g][b]
        BY <1>3, <1>7
      <3>4. \A g \in Games : \A n \in Letters(wire'[g][b]) : n.kind # "success"
        BY <2>1, <3>3 DEF Session
      <3> QED
        BY <3>1, <3>2, <3>4
    <2>5. \A g \in Games : wire'[x][g] = wire[x][g] /\ wire'[g][x] = wire[g][x]
      BY <1>3, <1>7
    <2>6. \A g \in Games : \A n \in Letters(wire'["center"][g]) :
                 n.kind \in {"reg_scene", "relogin"} => n.gate = x
      <3> TAKE g \in Games
      <3> TAKE n \in Letters(wire'["center"][g])
      <3>1. n \in Letters(wire["center"][g]) \/ n \in Put("center", out, "center", g)
        BY <1>3, <1>6 DEF After
      <3>2. CASE n \in Put("center", out, "center", g)
        <4>1. g \in DOMAIN out /\ n = out[g]
          BY <3>2 DEF Put
        <4>2. CASE Idle
          BY <4>1, <4>2 DEF Nothing, Each
        <4>3. CASE Refused
          BY <4>1, <4>3 DEF UnregMsg
        <4>4. ASSUME NEW e \in Games, NEW l, Goes(e, l)
              PROVE  n.gate = x
          <5>1. n = l
            BY <4>1, <4>4 DEF To, Each
          <5> QED
            BY <2>3, <4>4, <5>1
        <4> HIDE DEF Idle, Refused, Goes
        <4> QED
          BY <1>2, <4>2, <4>3, <4>4
      <3> QED
        BY <2>1, <3>1, <3>2 DEF Session
    <2>7. user' # None /\ user'.gate # x => Elsewhere(x)'
      <3> SUFFICES ASSUME u # None, u.gate # x PROVE Elsewhere(x)'
        BY <1>4
      <3>1. Idle
        <4> HIDE DEF Idle, Goes
        <4> QED
          BY <1>2, <2>3
      <3>2. Elsewhere(x)
        BY <2>1, <3>1 DEF Session
      <3>3. \A g \in Games : wire'["center"][g] = wire["center"][g]
        BY <1>3, <1>6, <3>1, Untouched DEF Put, Taken, Nothing, Each
      <3>4. \A n \in Letters(wire'[x]["center"]) : n \in Letters(wire[x]["center"])
        BY <1>3, <1>6 DEF After, Put
      <3> QED
        BY <1>8, <2>1, <2>5, <3>2, <3>3, <3>4 DEF Elsewhere
    <2>8. gate'[x] \in {"LOGIN", "WAIT"} => Due(x)'
      <3> SUFFICES ASSUME Due(x) PROVE Due(x)'
        BY <2>1 DEF Session
      <3>1. CASE Refused
        <4>1. x \in DOMAIN out /\ out[x] = UnregMsg("ERROR")
          BY <2>2, <3>1
        <4>2. Put("center", out, "center", x) = {UnregMsg("ERROR")}
          BY <4>1 DEF Put
        <4>3. UnregMsg("ERROR") \in Letters(wire'["center"][x])
          BY <1>3, <1>6, <4>2 DEF After
        <4> QED
          BY <1>3, <4>3 DEF Due, UnregMsg
      <3>2. ASSUME NEW g \in Games, NEW n, Goes(g, n)
            PROVE  Due(x)'
        <4>1. Put("center", out, "center", g) = {n}
          BY <3>2 DEF Put, To, Each
        <4>2. wire'["center"][g] # <<>> /\ Latest(wire'["center"][g]) = n
          BY <1>3, <1>6, <4>1 DEF After
        <4>3. Calls(n, x)
          BY <2>3, <3>2 DEF Calls
        <4> QED
          BY <4>2, <4>3 DEF Due
      <3>3. CASE Idle
        <4>1. \A s \in Peers["center"] : wire'["center"][s] = wire["center"][s]
          BY <1>3, <1>6, <3>3, Untouched DEF Put, Taken, Nothing, Each
        <4>2. \A s \in Peers[x] : wire'[s][x] = wire[s][x]
          BY <1>3, <1>7, <4>1
        <4>3. \A n \in Letters(wire[x]["center"]) :
                n.kind \in {"reg", "cross"} => n \in Letters(wire'[x]["center"])
          BY <1>3, <1>6, <3>3 DEF After, Taken
        <4> QED
          BY <1>3, <1>4, <1>8, <4>1, <4>2, <4>3 DEF Due
      <3> HIDE DEF Idle, Refused, Goes
      <3> QED
        BY <1>2, <3>1, <3>2, <3>3
    <2> QED
      BY <1>4, <1>8, <2>1, <2>4, <2>5, <2>6, <2>7, <2>8 DEF Session
  <1> QED
    BY <1>4, <1>6, <1>8, <1>10 DEF Answerable

\* What a game says tells exactly the gates of T that a login ended in k, and asks
\* the database for nothing.
Tells(out, T, k) ==
    /\ DOMAIN out \cap Gates = T
    /\ \A s \in DOMAIN out : /\ out[s].kind \notin Bad
                             /\ s = "db" => out[s].kind # "load"
                             /\ s \in Gates => out[s].kind = k

LEMMA GameSays ==
    /\ \A k : Tells(Nothing, {}, k)
    /\ \A r, k : Tells(Save(r), {}, k)
    /\ \A c, k : Tells(To("center", UnregMsg(c)), {}, k)
    /\ \A t, k : Tells(To("center", [kind |-> "entered", type |-> t]), {}, k)
    /\ \A a \in Gates : /\ Tells(To(a, Say("success")), {a}, "success")
                        /\ Tells(To(a, UnregMsg("ERROR")), {a}, "unreg")
    /\ Tells(Each(Gates, UnregMsg("ERROR")), Gates, "unreg")
    /\ \A o1, o2, T1, T2, k : Tells(o1, T1, k) /\ Tells(o2, T2, k) => Tells(o1 ++ o2, T1 \cup T2, k)
  <1>1. "center" \notin Gates /\ "db" \notin Gates /\ "center" # "db"
    BY ProcessAssumption
  <1>2. ASSUME NEW o1, NEW o2, NEW T1, NEW T2, NEW k, Tells(o1, T1, k), Tells(o2, T2, k)
        PROVE  Tells(o1 ++ o2, T1 \cup T2, k)
    <2>1. /\ DOMAIN (o1 ++ o2) = DOMAIN o1 \cup DOMAIN o2
          /\ \A s \in DOMAIN (o1 ++ o2) : \/ s \in DOMAIN o1 /\ (o1 ++ o2)[s] = o1[s]
                                          \/ s \in DOMAIN o2 /\ (o1 ++ o2)[s] = o2[s]
      BY DEF ++
    <2> QED
      BY <1>2, <2>1 DEF Tells
  <1>3. \A k : Tells(Nothing, {}, k)
    BY DEF Tells, Nothing, Each
  <1>4. ASSUME NEW q, NEW m, NEW k, m.kind \notin Bad, q = "db" => m.kind # "load",
               q \in Gates => m.kind = k
        PROVE  Tells(To(q, m), {q} \cap Gates, k)
    <2>1. DOMAIN To(q, m) = {q} /\ \A s \in {q} : To(q, m)[s] = m
      BY DEF To, Each
    <2> QED
      BY <1>4, <2>1 DEF Tells
  <1>5. ASSUME NEW r, NEW k PROVE Tells(Save(r), {}, k)
    <2>1. CASE Save(r) = Nothing
      BY <1>3, <2>1
    <2>2. CASE Save(r) = To("db", [kind |-> "save", ver |-> r.ver])
      <3> DEFINE m == [kind |-> "save", ver |-> r.ver]
      <3>1. m.kind = "save"
        OBVIOUS
      <3> HIDE DEF m
      <3>2. Tells(To("db", m), {"db"} \cap Gates, k)
        BY <1>1, <1>4, <3>1 DEF Bad
      <3>3. {"db"} \cap Gates = {}
        BY <1>1
      <3> QED
        BY <2>2, <3>2, <3>3 DEF m
    <2> QED
      BY <2>1, <2>2 DEF Save
  <1>6. ASSUME NEW m, NEW k, m.kind \in {"unreg", "entered"}
        PROVE  Tells(To("center", m), {}, k)
    <2>1. Tells(To("center", m), {"center"} \cap Gates, k)
      BY <1>1, <1>4, <1>6 DEF Bad
    <2>2. {"center"} \cap Gates = {}
      BY <1>1
    <2> QED
      BY <2>1, <2>2
  <1>7. \A c, t : UnregMsg(c).kind = "unreg" /\ [kind |-> "entered", type |-> t].kind = "entered"
    BY DEF UnregMsg
  <1>8. ASSUME NEW a \in Gates, NEW m, NEW k, k \in {"success", "unreg"}, m.kind = k
        PROVE  Tells(To(a, m), {a}, k)
    <2>1. Tells(To(a, m), {a} \cap Gates, k)
      BY <1>1, <1>4, <1>8 DEF Bad
    <2>2. {a} \cap Gates = {a}
      OBVIOUS
    <2> QED
      BY <2>1, <2>2
  <1>9. Say("success").kind = "success"
    BY DEF Say
  <1>10. Tells(Each(Gates, UnregMsg("ERROR")), Gates, "unreg")
    BY <1>1 DEF Tells, Bad, UnregMsg, Each
  <1>11. \A a \in Gates : /\ Tells(To(a, Say("success")), {a}, "success")
                          /\ Tells(To(a, UnregMsg("ERROR")), {a}, "unreg")
    BY <1>7, <1>8, <1>9
  <1> QED
    BY <1>2, <1>3, <1>5, <1>6, <1>7, <1>10, <1>11

\* What game g makes of the message of q: the role it has then, and what it says.
GameActs(q, g, r, out) ==
    LET m == Incoming(q, g)
        old == role[g]
    IN \* The role is asked for.
       \/ /\ q = "center" /\ m.kind = "reg_scene"
          /\ r # None /\ r.st = "LOADING" /\ r.gate = m.gate
          /\ out = To("db", Say("load"))
       \* The login is refused.
       \/ q = "center" /\ m.kind \in {"reg_scene", "relogin"} /\ r = None /\ Tells(out, Gates, "unreg")
       \* The role goes on with another client.
       \/ /\ q = "center" /\ m.kind = "relogin"
          /\ r # None /\ r.st = "OK" /\ r.gate = m.gate /\ Tells(out, {m.gate}, "success")
       \* The role is deleted.
       \/ q = "center" /\ m.kind = "unreg" /\ r = None /\ Tells(out, {}, "unreg")
       \* The gate's news.
       \/ /\ q \in Gates /\ Tells(out, {}, "unreg")
          /\ \/ r = None /\ (old = None \/ (m.kind = "unreg" /\ m.code # "OFFLINE"))
             \/ old # None /\ r # None /\ r.st = old.st /\ r.gate = old.gate
       \* The record arrives.
       \/ /\ q = "db" /\ m.kind = "record"
          /\ \/ old = None /\ r = None /\ Tells(out, {}, "unreg")
             \/ /\ old # None
                /\ r = None \/ (r.st = "OK" /\ r.gate = old.gate)
                /\ \E k \in {"success", "unreg"} : Tells(out, {old.gate}, k)

LEMMA GameMail ==
    ASSUME TypeOK, Whole, NEW g \in Games, GameStep(g)
    PROVE  \/ \E q \in Peers[g] : \E r, out : Hears(g, q) /\ GameHandles(q, g, r, out) /\ GameActs(q, g, r, out)
           \/ Hears("db", g) /\ DbHandles(g)
  <1>1. /\ g \in Processes /\ "center" \in Peers[g] /\ "db" \in Peers[g]
        /\ \A a \in Gates : a \in Peers[g]
    BY Connections
  <1>2. \A q \in Peers[g] : Hears(g, q) =>
          Incoming(q, g).kind \notin Bad /\ Incoming(q, g) \in Msgs
    BY <1>1, WholeHears
  <1>3. role[g] \in Roles \cup {None} /\ None \notin Roles
    BY NoneAssumption DEF TypeOK
  <1>4. role[g] # None => role[g].gate \in Gates
    BY <1>3 DEF Roles
  <1>5. ASSUME NEW q \in Peers[g], Hears(g, q), q = "center",
               Incoming(q, g).kind \in {"reg_scene", "relogin"}, Refuse(q, g)
        PROVE  \E r, out : GameHandles(q, g, r, out) /\ GameActs(q, g, r, out)
    <2> DEFINE o == SaveOf(g) ++ To("center", UnregMsg("ERROR")) ++ Each(Gates, UnregMsg("ERROR"))
    <2>1. Tells(o, ({} \cup {}) \cup Gates, "unreg")
      BY GameSays DEF SaveOf
    <2>2. Tells(o, Gates, "unreg")
      BY <2>1
    <2>3. GameHandles(q, g, None, o)
      BY <1>5 DEF Refuse
    <2> HIDE DEF o
    <2> QED
      BY <1>5, <2>2, <2>3 DEF GameActs
  <1>6. CASE Hears(g, "center") /\ GameRegs(g)
    <2> DEFINE m == Incoming("center", g)
               r == [st |-> "LOADING", gate |-> m.gate, on |-> "OFFLINE", type |-> m.type, ver |-> 0]
    <2>1. CASE GameHandles("center", g, r, To("db", Say("load")))
      <3>1. m.kind = "reg_scene" /\ r \in Roles
        BY <1>1, <1>2, <1>6, Carries DEF GameRegs, Roles, LoginTypes
      <3>2. r.st = "LOADING" /\ r.gate = m.gate
        OBVIOUS
      <3> HIDE DEF r
      <3>3. GameActs("center", g, r, To("db", Say("load")))
        BY <1>3, <3>1, <3>2 DEF GameActs
      <3> QED
        BY <1>1, <1>6, <2>1, <3>3
    <2>2. CASE Refuse("center", g)
      BY <1>1, <1>5, <1>6, <2>2 DEF GameRegs
    <2> QED
      BY <1>6, <2>1, <2>2 DEF GameRegs
  <1>7. CASE Hears(g, "center") /\ GameRelogs(g)
    <2> DEFINE m == Incoming("center", g)
               r == [role[g] EXCEPT !.gate = m.gate, !.type = "relogin", !.on = "ONLINE"]
               out == To(m.gate, Say("success"))
                        ++ To("center", [kind |-> "entered", type |-> "relogin"])
    <2>1. CASE role[g] # None /\ role[g].st = "OK" /\ GameHandles("center", g, r, out)
      <3>1. m.kind = "relogin" /\ m.gate \in Gates
        BY <1>1, <1>2, <1>7, Carries DEF GameRelogs
      <3>2. r \in Roles /\ r.st = "OK" /\ r.gate = m.gate
        BY <1>3, <2>1, <3>1 DEF Roles, LoginTypes
      <3>3. Tells(out, {m.gate} \cup {}, "success")
        BY <3>1, GameSays
      <3>4. Tells(out, {m.gate}, "success")
        BY <3>3
      <3> HIDE DEF r, out
      <3>5. GameActs("center", g, r, out)
        BY <1>3, <3>1, <3>2, <3>4 DEF GameActs
      <3> QED
        BY <1>1, <1>7, <2>1, <3>5
    <2>2. CASE Refuse("center", g)
      BY <1>1, <1>5, <1>7, <2>2 DEF GameRelogs
    <2> QED
      BY <1>7, <2>1, <2>2 DEF GameRelogs
  <1>8. CASE Hears(g, "center") /\ GameClears(g)
    <2>1. Incoming("center", g).kind = "unreg"
      BY <1>1, <1>2, <1>8 DEF GameClears, Bad
    <2>2. Tells(SaveOf(g), {}, "unreg")
      BY GameSays DEF SaveOf
    <2>3. GameActs("center", g, None, SaveOf(g))
      BY <2>1, <2>2 DEF GameActs
    <2> QED
      BY <1>1, <1>8, <2>3 DEF GameClears
  <1>9. CASE Hears(g, "db") /\ GameLoads(g)
    <2> DEFINE m == Incoming("db", g)
               loaded == IF role[g] = None THEN None ELSE
                  [role[g] EXCEPT !.st = "OK", !.on = "ONLINE",
                     !.ver = IF role[g].st = "LOADING" THEN m.ver ELSE role[g].ver]
               entered == To(role[g].gate, Say("success"))
                            ++ To("center", [kind |-> "entered", type |-> role[g].type])
               failed(last) == To(role[g].gate, UnregMsg("ERROR"))
                            ++ To("center", UnregMsg("ERROR")) ++ Save(last)
    <2>1. m.kind = "record"
      BY <1>9 DEF GameLoads
    <2>2. CASE role[g] = None /\ GameHandles("db", g, None, Nothing)
      <3>1. GameActs("db", g, None, Nothing)
        BY <2>1, <2>2, GameSays DEF GameActs
      <3> QED
        BY <1>1, <1>9, <2>2, <3>1
    <2>3. CASE role[g] # None /\ GameHandles("db", g, loaded, entered)
      <3>1. loaded.st = "OK" /\ loaded.gate = role[g].gate
        BY <1>3, <2>3 DEF Roles
      <3>2. Tells(entered, {role[g].gate} \cup {}, "success")
        BY <1>4, <2>3, GameSays
      <3>3. Tells(entered, {role[g].gate}, "success")
        BY <3>2
      <3> HIDE DEF loaded, entered
      <3>4. GameActs("db", g, loaded, entered)
        BY <2>1, <2>3, <3>1, <3>3 DEF GameActs
      <3> QED
        BY <1>1, <1>9, <2>3, <3>4
    <2>4. ASSUME role[g] # None, NEW last \in {role[g], loaded}, GameHandles("db", g, None, failed(last))
          PROVE  \E out : GameHandles("db", g, None, out) /\ GameActs("db", g, None, out)
      <3>1. Tells(failed(last), ({role[g].gate} \cup {}) \cup {}, "unreg")
        BY <1>4, <2>4, GameSays
      <3>2. Tells(failed(last), {role[g].gate}, "unreg")
        BY <3>1
      <3> DEFINE o == failed(last)
      <3>3. GameHandles("db", g, None, o) /\ Tells(o, {role[g].gate}, "unreg")
        BY <2>4, <3>2
      <3> HIDE DEF o
      <3> QED
        BY <2>1, <2>4, <3>3 DEF GameActs
    <2> QED
      BY <1>1, <1>9, <2>2, <2>3, <2>4 DEF GameLoads
  <1>10. ~(Hears(g, "db") /\ GameLosesDb(g))
    BY <1>1, <1>2 DEF GameLosesDb, Bad
  <1>11. ASSUME NEW a \in Gates, Hears(g, a), GameUnregs(a, g)
         PROVE  \E r, out : GameHandles(a, g, r, out) /\ GameActs(a, g, r, out)
    <2>1. Incoming(a, g).kind = "unreg"
      BY <1>11 DEF GameUnregs
    <2>2. CASE GameHandles(a, g, IF role[g] = None THEN None
                             ELSE [role[g] EXCEPT !.on = "OFFLINE"], Nothing)
      <3> DEFINE r == IF role[g] = None THEN None ELSE [role[g] EXCEPT !.on = "OFFLINE"]
      <3>1. IF role[g] = None THEN r = None
            ELSE r \in Roles /\ r.st = role[g].st /\ r.gate = role[g].gate
        BY <1>3 DEF Roles
      <3>2. GameHandles(a, g, r, Nothing)
        BY <2>2
      <3> HIDE DEF r
      <3>3. GameActs(a, g, r, Nothing)
        BY <1>3, <3>1, GameSays DEF GameActs
      <3> QED
        BY <3>2, <3>3
    <2>3. CASE Incoming(a, g).code = "LOGOUT" /\
                 GameHandles(a, g, None, SaveOf(g) ++ To("center", UnregMsg("LOGOUT")))
      <3> DEFINE o == SaveOf(g) ++ To("center", UnregMsg("LOGOUT"))
      <3>1. Tells(o, {} \cup {}, "unreg")
        BY GameSays DEF SaveOf
      <3>2. Tells(o, {}, "unreg") /\ GameHandles(a, g, None, o)
        BY <2>3, <3>1
      <3> HIDE DEF o
      <3>3. GameActs(a, g, None, o)
        BY <2>1, <2>3, <3>2 DEF GameActs
      <3> QED
        BY <3>2, <3>3
    <2>4. CASE Incoming(a, g).code = "ERROR" /\ GameHandles(a, g, None, SaveOf(g))
      <3>1. Tells(SaveOf(g), {}, "unreg")
        BY GameSays DEF SaveOf
      <3>2. GameActs(a, g, None, SaveOf(g))
        BY <2>1, <2>4, <3>1 DEF GameActs
      <3> QED
        BY <2>4, <3>2
    <2> QED
      BY <1>11, <2>2, <2>3, <2>4 DEF GameUnregs
  <1>12. ASSUME NEW a \in Gates, Hears(g, a), GameReady(a, g)
         PROVE  \E r, out : GameHandles(a, g, r, out) /\ GameActs(a, g, r, out)
    <2> DEFINE r == IF role[g] = None THEN None ELSE [role[g] EXCEPT !.type = "none"]
    <2>1. IF role[g] = None THEN r = None
          ELSE r \in Roles /\ r.st = role[g].st /\ r.gate = role[g].gate
      BY <1>3 DEF Roles, LoginTypes
    <2>2. GameHandles(a, g, r, Nothing)
      BY <1>12 DEF GameReady
    <2> HIDE DEF r
    <2>3. GameActs(a, g, r, Nothing)
      BY <1>3, <2>1, GameSays DEF GameActs
    <2> QED
      BY <2>2, <2>3
  <1>13. \A a \in Gates : ~(Hears(g, a) /\ GameLosesGate(a, g))
    BY <1>1, <1>2 DEF GameLosesGate, Bad
  <1> QED
    BY <1>1, <1>6, <1>7, <1>8, <1>9, <1>10, <1>11, <1>12, <1>13 DEF GameStep

LEMMA GameActsAnswer ==
    ASSUME TypeOK, Answerable, NEW g \in Games, NEW q \in Peers[g], NEW r, NEW out,
           Hears(g, q), GameHandles(q, g, r, out), GameActs(q, g, r, out)
    PROVE  Answerable'
  <1> DEFINE m == Incoming(q, g)
             Starts == /\ q = "center" /\ m.kind = "reg_scene"
                       /\ r # None /\ r.st = "LOADING" /\ r.gate = m.gate
                       /\ out = To("db", Say("load"))
             Refuses == /\ q = "center" /\ m.kind \in {"reg_scene", "relogin"}
                        /\ r = None /\ Tells(out, Gates, "unreg")
             Resumes == /\ q = "center" /\ m.kind = "relogin"
                        /\ r # None /\ r.st = "OK" /\ r.gate = m.gate /\ Tells(out, {m.gate}, "success")
             Clears == q = "center" /\ m.kind = "unreg" /\ r = None /\ Tells(out, {}, "unreg")
             News == /\ q \in Gates /\ Tells(out, {}, "unreg")
                     /\ \/ r = None /\ (role[g] = None \/ (m.kind = "unreg" /\ m.code # "OFFLINE"))
                        \/ role[g] # None /\ r # None /\ r.st = role[g].st /\ r.gate = role[g].gate
             Arrives == /\ q = "db" /\ m.kind = "record"
                        /\ \/ role[g] = None /\ r = None /\ Tells(out, {}, "unreg")
                           \/ /\ role[g] # None
                              /\ r = None \/ (r.st = "OK" /\ r.gate = role[g].gate)
                              /\ \E k \in {"success", "unreg"} : Tells(out, {role[g].gate}, k)
  <1>1. Starts \/ Refuses \/ Resumes \/ Clears \/ News \/ Arrives
    BY DEF GameActs
  <1>2. /\ g \in Processes /\ "center" \in Processes /\ "db" \in Processes /\ "center" # "db"
        /\ g # "center" /\ g # "db" /\ q # g /\ q \in Processes /\ q \notin Games
        /\ \A h \in Games : /\ h \in Processes /\ "db" \in Peers[h] /\ h \in Peers["db"]
                            /\ h \in Peers["center"] /\ "center" \in Peers[h]
                            /\ h # "center" /\ h # "db"
                            /\ \A b \in Gates : h # b /\ b \in Peers[h] /\ h \in Peers[b]
        /\ \A b \in Gates : /\ b \in Processes /\ "center" \in Peers[b] /\ b \in Peers["center"]
                            /\ b # "center" /\ b # "db"
        /\ \A p \in Processes : \A s \in Peers[p] : s \in Processes /\ p \in Peers[s]
        /\ role \in [Games -> Roles \cup {None}]
    <2>1. Peers[g] = Gates \cup {"center", "db"}
      BY Connections
    <2> QED
      BY <2>1, Connections, Ends, ProcessAssumption DEF TypeOK
  <1>3. /\ role' = [role EXCEPT ![g] = r] /\ role'[g] = r /\ Handle(q, g, out)
        /\ \A h \in Games \ {g} : role'[h] = role[h]
        /\ UNCHANGED <<gate, user, known, up>>
    BY <1>2 DEF GameHandles, gateVars, centerVars
  <1>4. Starts \/ \E T : \E k \in {"success", "unreg"} : Tells(out, T, k)
    BY <1>1
  <1>5. /\ \A s \in DOMAIN out : out[s].kind \notin Bad
        /\ ~Starts /\ "db" \in DOMAIN out => out["db"].kind # "load"
        /\ Starts => out = [s \in {"db"} |-> Say("load")]
        /\ \A b \in DOMAIN out \cap Gates : out[b].kind \in {"success", "unreg"}
    <2>1. CASE Starts
      <3>1. out = [s \in {"db"} |-> Say("load")]
        BY <2>1 DEF To, Each
      <3> HIDE DEF Starts
      <3> QED
        BY <1>2, <2>1, <3>1 DEF Say, Bad
    <2>2. CASE ~Starts /\ \E T : \E k \in {"success", "unreg"} : Tells(out, T, k)
      <3> HIDE DEF Starts
      <3> QED
        BY <1>2, <2>2 DEF Tells
    <2> HIDE DEF Starts
    <2> QED
      BY <1>4, <2>1, <2>2
  <1>6. /\ Whole'
        /\ \A p \in Processes : \A s \in Peers[p] :
             After(wire[p][s], wire'[p][s], Taken(g, q, p, s), Put(g, out, p, s))
    BY <1>2, <1>3, <1>5, WholeHandle DEF Answerable
  <1>7. \A p \in Processes \ {g} : \A s \in Peers[p] :
          p # q \/ s # g => wire'[p][s] = wire[p][s]
    BY <1>6, Untouched DEF Put, Taken
  <1>8. m \in Letters(wire[q][g]) /\ wire[q][g] # <<>>
    BY <1>2, HeardLetter, WireTypes DEF TypeOK, Hears
  <1>9. \A h \in Games \ {g} : (Asked(h)' <=> Asked(h)) /\ (Loading(h)' <=> Loading(h))
    <2> TAKE h \in Games \ {g}
    <2>1. wire'[h]["db"] = wire[h]["db"] /\ wire'["db"][h] = wire["db"][h]
      BY <1>2, <1>7
    <2> QED
      BY <1>3, <2>1 DEF Asked, Loading
  <1>10. /\ Asked(g)' => Asked(g) \/ Starts
         /\ Starts => Asked(g)'
         /\ Asked(g) /\ q # "db" => Asked(g)'
         /\ Arrives => Asked(g)
    <2>1. /\ \A n \in Letters(wire'[g]["db"]) : n \in Letters(wire[g]["db"]) \/ ("db" \in DOMAIN out /\ n = out["db"])
          /\ \A n \in Letters(wire[g]["db"]) : n \in Letters(wire'[g]["db"])
          /\ "db" \in DOMAIN out => out["db"] \in Letters(wire'[g]["db"])
      BY <1>2, <1>6 DEF After, Put, Taken
    <2>2. /\ \A n \in Letters(wire'["db"][g]) : n \in Letters(wire["db"][g])
          /\ q # "db" => wire'["db"][g] = wire["db"][g]
      BY <1>2, <1>6, <1>7 DEF After, Put
    <2>3. Asked(g)' => Asked(g) \/ Starts
      <3> HIDE DEF Starts
      <3> QED
        BY <1>5, <2>1, <2>2 DEF Asked
    <2>4. Starts => Asked(g)'
      <3> HIDE DEF Starts
      <3> QED
        BY <1>5, <2>1 DEF Asked, Say
    <2>5. Asked(g) /\ q # "db" => Asked(g)'
      BY <2>1, <2>2 DEF Asked
    <2>6. Arrives => Asked(g)
      BY <1>8 DEF Asked
    <2> HIDE DEF Starts, Arrives
    <2> QED
      BY <2>3, <2>4, <2>5, <2>6
  <1>11. \A h \in Games : Loading(h)' => Asked(h)'
    <2> SUFFICES ASSUME Loading(g)' PROVE Asked(g)'
      BY <1>9 DEF Answerable
    <2>1. r # None /\ r.st = "LOADING"
      BY <1>3 DEF Loading
    <2>2. CASE Starts
      <3> HIDE DEF Starts
      <3> QED
        BY <1>10, <2>2
    <2>3. CASE News
      <3>1. Loading(g) /\ q # "db"
        BY <1>2, <2>1, <2>3 DEF Loading
      <3> QED
        BY <1>10, <3>1 DEF Answerable
    <2>4. ~Refuses /\ ~Resumes /\ ~Clears /\ ~Arrives
      BY <2>1
    <2> HIDE DEF Starts, Refuses, Resumes, Clears, News, Arrives
    <2> QED
      BY <1>1, <2>2, <2>3, <2>4
  <1>12. ASSUME NEW x \in Gates, gate'[x] # "NONE"
         PROVE  Session(x)'
    <2>1. Session(x) /\ gate[x] = gate'[x]
      BY <1>3, <1>12 DEF Answerable
    <2>2. q \in Gates => q = x
      BY <1>2, <1>8, <2>1 DEF Session
    <2>3. q = "center" /\ m.kind \in {"reg_scene", "relogin"} => m.gate = x
      BY <1>8, <2>1 DEF Session
    <2>4. role[g] # None /\ Asked(g) => role[g].gate = x
      BY <2>1 DEF Session
    <2>5. \A b \in DOMAIN out \cap Gates : out[b].kind = "success" => b = x
      <3> TAKE b \in DOMAIN out \cap Gates
      <3>1. CASE Starts
        <4>1. DOMAIN out = {"db"}
          BY <3>1 DEF To, Each
        <4> QED
          BY <1>2, <4>1
      <3>2. CASE Refuses \/ Clears \/ News
        BY <3>2 DEF Tells
      <3>3. CASE Resumes
        BY <2>3, <3>3 DEF Tells
      <3>4. CASE Arrives
        <4>1. role[g] # None => role[g].gate = x
          <5> HIDE DEF Arrives
          <5> QED
            BY <1>10, <2>4, <3>4
        <4> QED
          BY <3>4, <4>1 DEF Tells
      <3> HIDE DEF Starts, Refuses, Resumes, Clears, News, Arrives
      <3> QED
        BY <1>1, <3>1, <3>2, <3>3, <3>4
    <2>6. \A b \in Gates \ {x} :
               /\ gate'[b] = "NONE"
               /\ \A s \in Peers[b] : wire'[b][s] = <<>>
               /\ \A h \in Games : \A n \in Letters(wire'[h][b]) : n.kind # "success"
      <3> TAKE b \in Gates \ {x}
      <3>1. gate'[b] = "NONE"
        BY <1>3, <2>1 DEF Session
      <3>2. \A s \in Peers[b] : wire'[b][s] = <<>>
        BY <1>2, <1>7, <2>1, <2>2 DEF Session
      <3>3. ASSUME NEW h \in Games, NEW n \in Letters(wire'[h][b])
            PROVE  n.kind # "success"
        <4>1. n \in Letters(wire[h][b]) \/ n \in Put(g, out, h, b)
          BY <1>2, <1>6 DEF After
        <4>2. n \in Put(g, out, h, b) => b \in DOMAIN out /\ n = out[b]
          BY DEF Put
        <4> QED
          BY <2>1, <2>5, <4>1, <4>2 DEF Session
      <3> QED
        BY <3>1, <3>2, <3>3
    <2>7. \A h \in Games :
            /\ \A n \in Letters(wire'[x][h]) : n \in Letters(wire[x][h])
            /\ \A n \in Letters(wire'["center"][h]) : n \in Letters(wire["center"][h])
      <3> TAKE h \in Games
      <3>1. /\ Put(g, out, x, h) = {} /\ Put(g, out, "center", h) = {}
            /\ x \in Processes /\ h \in Peers[x] /\ "center" \in Processes /\ h \in Peers["center"]
        BY <1>2, Connections DEF Put
      <3>2. /\ After(wire[x][h], wire'[x][h], Taken(g, q, x, h), {})
            /\ After(wire["center"][h], wire'["center"][h], Taken(g, q, "center", h), {})
        BY <1>6, <3>1
      <3> QED
        BY <3>2 DEF After
    <2>8. wire'[x]["center"] = wire[x]["center"]
      BY <1>2, <1>7
    <2>9. ASSUME NEW h \in Games, role'[h] # None, Asked(h)'
          PROVE  role'[h].gate = x
      <3>1. CASE h # g
        BY <1>3, <1>9, <2>1, <2>9, <3>1 DEF Session
      <3>2. CASE h = g
        <4>1. r # None
          BY <1>3, <2>9, <3>2
        <4>2. Asked(g) \/ Starts
          <5> HIDE DEF Starts
          <5> QED
            BY <1>10, <2>9, <3>2
        <4>3. r.gate = x
          <5>1. CASE Starts \/ Resumes
            BY <2>3, <5>1
          <5>2. CASE News
            BY <1>2, <2>4, <4>1, <4>2, <5>2
          <5>3. CASE Arrives
            BY <2>4, <4>1, <4>2, <5>3
          <5>4. ~Refuses /\ ~Clears
            BY <4>1
          <5> HIDE DEF Starts, Refuses, Resumes, Clears, News, Arrives
          <5> QED
            BY <1>1, <5>1, <5>2, <5>3, <5>4
        <4> QED
          BY <1>3, <3>2, <4>3
      <3> QED
        BY <3>1, <3>2
    <2>10. Elsewhere(x) => Elsewhere(x)'
      <3> SUFFICES ASSUME Elsewhere(x) PROVE Elsewhere(x)'
        OBVIOUS
      <3>1. ~Starts /\ ~Refuses /\ ~Resumes
        BY <1>8 DEF Elsewhere
      <3>2. ~Asked(g)
        BY DEF Elsewhere
      <3>3. ~Arrives
        <4> HIDE DEF Arrives
        <4> QED
          BY <1>10, <3>2
      <3>4. ~Asked(g)'
        <4> HIDE DEF Starts
        <4> QED
          BY <1>10, <3>1, <3>2
      <3>5. DOMAIN out \cap Gates = {}
        <4>1. Clears \/ News
          <5> HIDE DEF Starts, Refuses, Resumes, Clears, News, Arrives
          <5> QED
            BY <1>1, <3>1, <3>3
        <4> QED
          BY <4>1 DEF Tells
      <3>6. \A h \in Games : \A n \in Letters(wire'[h][x]) : n \in Letters(wire[h][x])
        BY <1>2, <1>6, <3>5 DEF After, Put
      <3> QED
        BY <1>9, <2>1, <2>7, <2>8, <3>2, <3>4, <3>6 DEF Elsewhere
    <2>11. x \in DOMAIN out => Due(x)'
      <3> SUFFICES ASSUME x \in DOMAIN out PROVE Due(x)'
        OBVIOUS
      <3>1. Put(g, out, g, x) = {out[x]}
        BY DEF Put
      <3>2. out[x] \in Letters(wire'[g][x])
        BY <1>2, <1>6, <3>1 DEF After
      <3> QED
        BY <1>2, <1>5, <3>2 DEF Due
    <2>12. gate'[x] \in {"LOGIN", "WAIT"} => Due(x)'
      <3> SUFFICES ASSUME Due(x) PROVE Due(x)'
        BY <2>1 DEF Session
      <3>1. CASE \E n \in Letters(wire[x]["center"]) : n.kind \in {"reg", "cross"}
        BY <2>8, <3>1 DEF Due
      <3>2. CASE \E s \in Peers[x] : \E n \in Letters(wire[s][x]) : n.kind \in {"success", "unreg"}
        <4>1. \A s \in Peers[x] : \A n \in Letters(wire[s][x]) : n \in Letters(wire'[s][x])
          BY <1>2, <1>6 DEF After, Taken
        <4> QED
          BY <3>2, <4>1 DEF Due
      <3>3. ASSUME NEW h \in Games, wire["center"][h] # <<>>, Calls(Latest(wire["center"][h]), x)
            PROVE  Due(x)'
        <4>1. CASE h # g \/ q # "center"
          <5>1. wire'["center"][h] = wire["center"][h]
            BY <1>2, <1>7, <4>1
          <5> QED
            BY <3>3, <5>1 DEF Due
        <4>2. CASE h = g /\ q = "center"
          <5>1. After(wire["center"][g], wire'["center"][g], {m}, {})
            BY <1>2, <1>6, <4>2 DEF Put, Taken
          <5>2. CASE wire'["center"][g] # <<>>
            BY <3>3, <4>2, <5>1, <5>2 DEF After, Due
          <5>3. CASE wire'["center"][g] = <<>>
            <6>1. m.kind \in {"reg_scene", "relogin"} /\ m.gate = x
              BY <3>3, <4>2, <5>1, <5>3 DEF After, Calls
            <6>2. CASE Starts
              <7>1. Loading(g)' /\ role'[g].gate = x
                BY <1>3, <6>1, <6>2 DEF Loading
              <7> QED
                BY <5>3, <7>1 DEF Due
            <6>3. CASE Refuses \/ Resumes
              BY <2>11, <6>1, <6>3 DEF Tells
            <6>4. ~Clears /\ ~News /\ ~Arrives
              BY <1>2, <4>2, <6>1
            <6> HIDE DEF Starts, Refuses, Resumes, Clears, News, Arrives
            <6> QED
              BY <1>1, <6>2, <6>3, <6>4
          <5> QED
            BY <5>2, <5>3
        <4> QED
          BY <4>1, <4>2
      <3>4. ASSUME NEW h \in Games, wire["center"][h] = <<>>, Loading(h), role[h].gate = x
            PROVE  Due(x)'
        <4>1. wire'["center"][h] = <<>>
          BY <1>2, <1>7, <1>8, <3>4
        <4>2. CASE h # g
          BY <1>3, <1>9, <3>4, <4>1, <4>2 DEF Due
        <4>3. CASE h = g
          <5>1. q # "center"
            BY <1>8, <3>4, <4>3
          <5>2. CASE News
            <6>1. q = x /\ (m.kind = "unreg" => m.code = "OFFLINE")
              BY <1>8, <2>1, <2>2, <5>2 DEF Session
            <6>2. r # None /\ r.st = "LOADING" /\ r.gate = x
              BY <3>4, <4>3, <5>2, <6>1 DEF Loading
            <6> QED
              BY <1>3, <4>1, <4>3, <6>2 DEF Due, Loading
          <5>3. CASE Arrives
            BY <2>11, <3>4, <4>3, <5>3 DEF Tells, Loading
          <5>4. ~Starts /\ ~Refuses /\ ~Resumes /\ ~Clears
            BY <5>1
          <5> HIDE DEF Starts, Refuses, Resumes, Clears, News, Arrives
          <5> QED
            BY <1>1, <5>2, <5>3, <5>4
        <4> QED
          BY <4>2, <4>3
      <3> QED
        BY <3>1, <3>2, <3>3, <3>4 DEF Due
    <2> QED
      BY <1>3, <2>1, <2>6, <2>7, <2>9, <2>10, <2>12 DEF Session
  <1> QED
    BY <1>3, <1>6, <1>11, <1>12 DEF Answerable

\* The steps between a game and the database, and what games do on their own: no
\* login is answered, and none is forgotten.
LEMMA Aside ==
    ASSUME Answerable, Whole', gate' = gate, user' = user,
           \A b \in Gates : \A s \in Peers[b] : wire'[b][s] = wire[b][s],
           \A s \in Peers["center"] : wire'["center"][s] = wire["center"][s],
           \A h \in Games : \A b \in Gates :
             /\ Letters(wire[h][b]) \subseteq Letters(wire'[h][b])
             /\ \A n \in Letters(wire'[h][b]) : n.kind = "success" => n \in Letters(wire[h][b]),
           \A h \in Games : (Asked(h)' <=> Asked(h)) /\ (Loading(h)' <=> Loading(h)),
           \A h \in Games : role'[h] # None => role[h] # None /\ role'[h].gate = role[h].gate
    PROVE  Answerable'
  <1>1. /\ \A h \in Games : h \in Peers["center"]
        /\ \A b \in Gates : /\ "center" \in Peers[b] /\ b \in Peers["center"]
                            /\ \A s \in Peers[b] : s = "center" \/ s \in Games
                            /\ \A h \in Games : h \in Peers[b]
    BY Connections
  <1>2. ASSUME NEW x \in Gates, gate'[x] # "NONE"
        PROVE  Session(x)'
    <2>1. Session(x) /\ gate[x] = gate'[x]
      BY <1>2 DEF Answerable
    <2>2. \A s \in Peers[x] : Letters(wire[s][x]) \subseteq Letters(wire'[s][x])
      BY <1>1
    <2>3. \A b \in Gates \ {x} :
               /\ gate'[b] = "NONE"
               /\ \A s \in Peers[b] : wire'[b][s] = <<>>
               /\ \A h \in Games : \A n \in Letters(wire'[h][b]) : n.kind # "success"
      <3> TAKE b \in Gates \ {x}
      <3>1. gate'[b] = "NONE"
        BY <2>1 DEF Session
      <3>2. \A s \in Peers[b] : wire'[b][s] = <<>>
        BY <2>1 DEF Session
      <3>3. ASSUME NEW h \in Games, NEW n \in Letters(wire'[h][b]), n.kind = "success"
            PROVE  FALSE
        BY <2>1, <3>3 DEF Session
      <3> QED
        BY <3>1, <3>2, <3>3
    <2>4. Elsewhere(x) => Elsewhere(x)'
      <3> SUFFICES ASSUME Elsewhere(x) PROVE Elsewhere(x)'
        OBVIOUS
      <3>1. wire'[x]["center"] = wire[x]["center"] /\ \A h \in Games : wire'["center"][h] = wire["center"][h]
        BY <1>1
      <3>2. \A h \in Games : \A n \in Letters(wire'[h][x]) : n.kind # "success"
        BY DEF Elsewhere
      <3> QED
        BY <2>1, <3>1, <3>2 DEF Elsewhere
    <2>5. Due(x) => Due(x)'
      <3>1. wire'[x]["center"] = wire[x]["center"] /\ \A h \in Games : wire'["center"][h] = wire["center"][h]
        BY <1>1
      <3>2. \A h \in Games : Loading(h) => Loading(h)' /\ role'[h].gate = role[h].gate
        BY DEF Loading
      <3> QED
        BY <2>2, <3>1, <3>2 DEF Due
    <2>6. /\ \A h \in Games : wire'[x][h] = wire[x][h] /\ wire'["center"][h] = wire["center"][h]
          /\ \A h \in Games : role'[h] # None /\ Asked(h)' => role'[h].gate = x
      BY <1>1, <2>1 DEF Session
    <2> QED
      BY <2>1, <2>3, <2>4, <2>5, <2>6 DEF Session
  <1> QED
    BY <1>2 DEF Answerable

LEMMA DbAnswers ==
    ASSUME TypeOK, Answerable, NEW g \in Games, Hears("db", g), DbHandles(g)
    PROVE  Answerable'
  <1> DEFINE m == Incoming(g, "db")
             n == [kind |-> "record", ver |-> stored]
             out == IF m.kind = "load" THEN To(g, n) ELSE Nothing
  <1>1. /\ g \in Processes /\ "db" \in Processes /\ "center" \in Processes
        /\ g \in Peers["db"] /\ "db" \in Peers[g] /\ g # "db" /\ "center" # "db"
        /\ \A h \in Games : /\ h \in Processes /\ "db" \in Peers[h] /\ h \in Peers["db"] /\ h # "db"
                            /\ \A b \in Gates : b \in Peers[h]
        /\ \A b \in Gates : b \in Processes /\ b # "db"
    BY Connections
  <1>2. /\ Handle(g, "db", out) /\ UNCHANGED <<gate, user, known, role, up>>
    BY DEF DbHandles, gateVars, centerVars
  <1>3. /\ \A s \in DOMAIN out : s = g /\ out[s] = n /\ m.kind = "load"
        /\ m.kind = "load" => g \in DOMAIN out /\ out[g] = n
        /\ n.kind = "record"
    BY DEF To, Each, Nothing
  <1> HIDE DEF out, n
  <1>4. /\ Whole'
        /\ \A p \in Processes : \A s \in Peers[p] :
             After(wire[p][s], wire'[p][s], Taken("db", g, p, s), Put("db", out, p, s))
    BY <1>1, <1>2, <1>3, WholeHandle DEF Answerable, Bad
  <1>5. \A p \in Processes \ {"db"} : \A s \in Peers[p] : s # "db" => wire'[p][s] = wire[p][s]
    BY <1>4, Untouched DEF Put, Taken
  <1>6. \A b \in Gates : \A s \in Peers[b] : wire'[b][s] = wire[b][s]
    <2>1. \A b \in Gates : "db" \notin Peers[b]
      BY Connections
    <2> QED
      BY <1>1, <1>5, <2>1
  <1>7. \A s \in Peers["center"] : wire'["center"][s] = wire["center"][s]
    <2>1. "db" \notin Peers["center"]
      BY Connections
    <2> QED
      BY <1>1, <1>5, <2>1
  <1>8. \A h \in Games : \A b \in Gates : wire'[h][b] = wire[h][b]
    BY <1>1, <1>5
  <1>9. m \in Letters(wire[g]["db"])
    BY <1>1, HeardLetter, WireTypes DEF TypeOK
  <1>10. \A h \in Games : Asked(h)' <=> Asked(h)
    <2> TAKE h \in Games
    <2>1. CASE h # g
      <3>1. wire'[h]["db"] = wire[h]["db"] /\ wire'["db"][h] = wire["db"][h]
        <4>1. /\ Put("db", out, h, "db") = {} /\ Taken("db", g, h, "db") = {}
              /\ Put("db", out, "db", h) = {} /\ Taken("db", g, "db", h) = {}
          BY <1>1, <1>3, <2>1 DEF Put, Taken
        <4>2. After(wire[h]["db"], wire'[h]["db"], {}, {}) /\ After(wire["db"][h], wire'["db"][h], {}, {})
          BY <1>1, <1>4, <4>1
        <4> QED
          BY <4>2, Untouched
      <3> QED
        BY <3>1 DEF Asked
    <2>2. CASE h = g
      <3>1. /\ \A l \in Letters(wire'[g]["db"]) : l \in Letters(wire[g]["db"])
            /\ \A l \in Letters(wire[g]["db"]) : l \in Letters(wire'[g]["db"]) \/ l = m
        BY <1>1, <1>4 DEF After, Put, Taken
      <3>2. /\ \A l \in Letters(wire'["db"][g]) : l \in Letters(wire["db"][g]) \/ m.kind = "load"
            /\ \A l \in Letters(wire["db"][g]) : l \in Letters(wire'["db"][g])
            /\ m.kind = "load" => n \in Letters(wire'["db"][g])
        <4>1. /\ Taken("db", g, "db", g) = {}
              /\ Put("db", out, "db", g) = IF m.kind = "load" THEN {n} ELSE {}
          BY <1>1, <1>3 DEF Put, Taken
        <4>2. After(wire["db"][g], wire'["db"][g], {}, Put("db", out, "db", g))
          BY <1>1, <1>4, <4>1
        <4> QED
          BY <4>1, <4>2 DEF After
      <3>3. Asked(g)' => Asked(g)
        BY <1>9, <3>1, <3>2 DEF Asked
      <3>4. Asked(g) => Asked(g)'
        BY <1>3, <3>1, <3>2 DEF Asked
      <3> QED
        BY <2>2, <3>3, <3>4
    <2> QED
      BY <2>1, <2>2
  <1>11. \A h \in Games : Loading(h)' <=> Loading(h)
    BY <1>2 DEF Loading
  <1> QED
    BY <1>2, <1>4, <1>6, <1>7, <1>8, <1>10, <1>11, Aside

\* What a game says on its own: a save, and perhaps a jump.
LEMMA GameSpeaks ==
    ASSUME TypeOK, Answerable, NEW g \in Games, NEW out, Send(g, out), UNCHANGED <<gate, user, known, up>>,
           \A s \in DOMAIN out : out[s].kind \in {"save", "cross"},
           \A h \in Games : Loading(h)' <=> Loading(h),
           \A h \in Games : role'[h] # None => role[h] # None /\ role'[h].gate = role[h].gate
    PROVE  Answerable'
  <1>1. /\ g \in Processes /\ "db" \in Processes /\ "center" \in Processes
        /\ \A h \in Games : /\ h \in Processes /\ "db" \in Peers[h] /\ h \in Peers["db"]
                            /\ \A b \in Gates : b \in Peers[h]
        /\ \A b \in Gates : b \in Processes /\ b # g
        /\ g # "center" /\ g # "db"
    BY Connections
  <1>2. /\ Whole'
        /\ \A p \in Processes : \A s \in Peers[p] :
             After(wire[p][s], wire'[p][s], {}, Put(g, out, p, s))
    BY <1>1, WholeSend DEF Answerable, Bad
  <1>3. \A p \in Processes \ {g} : \A s \in Peers[p] : wire'[p][s] = wire[p][s]
    BY <1>2, Untouched DEF Put
  <1>4. ASSUME NEW p \in Processes, NEW s \in Peers[p]
        PROVE  /\ Letters(wire[p][s]) \subseteq Letters(wire'[p][s])
               /\ \A n \in Letters(wire'[p][s]) : n \in Letters(wire[p][s]) \/ n.kind \in {"save", "cross"}
    <2>1. After(wire[p][s], wire'[p][s], {}, Put(g, out, p, s))
      BY <1>2
    <2>2. \A n \in Put(g, out, p, s) : n.kind \in {"save", "cross"}
      BY DEF Put
    <2> QED
      BY <2>1, <2>2 DEF After
  <1>5. \A h \in Games : Asked(h)' <=> Asked(h)
    <2> TAKE h \in Games
    <2>1. Asked(h)' => Asked(h)
      BY <1>1, <1>4 DEF Asked
    <2>2. Asked(h) => Asked(h)'
      BY <1>1, <1>4 DEF Asked
    <2> QED
      BY <2>1, <2>2
  <1>6. \A h \in Games : \A b \in Gates :
             /\ Letters(wire[h][b]) \subseteq Letters(wire'[h][b])
             /\ \A n \in Letters(wire'[h][b]) : n.kind = "success" => n \in Letters(wire[h][b])
    <2> TAKE h \in Games
    <2> TAKE b \in Gates
    <2>1. h \in Processes /\ b \in Peers[h]
      BY <1>1
    <2>2. ASSUME NEW n \in Letters(wire'[h][b]), n.kind = "success"
          PROVE  n \in Letters(wire[h][b])
      BY <1>4, <2>1, <2>2
    <2> QED
      BY <1>4, <2>1, <2>2
  <1> QED
    BY <1>1, <1>2, <1>3, <1>5, <1>6, Aside

LEMMA OwnAnswers ==
    ASSUME TypeOK, Answerable, NEW g \in Games, Jump(g) \/ Play(g) \/ Autosave(g)
    PROVE  Answerable'
  <1>1. role \in [Games -> Roles \cup {None}] /\ None \notin Roles
    BY NoneAssumption DEF TypeOK
  <1>2. \A s \in DOMAIN SaveOf(g) : SaveOf(g)[s].kind = "save"
    <2>1. [kind |-> "save", ver |-> role[g].ver].kind = "save"
      OBVIOUS
    <2> QED
      BY <2>1 DEF SaveOf, Save, To, Each, Nothing
  <1>3. CASE Jump(g)
    <2>1. PICK to \in Games \ {g} : Send(g, SaveOf(g) ++ To(role[g].gate, [kind |-> "cross", to |-> to]))
      BY <1>3 DEF Jump
    <2> DEFINE n == [kind |-> "cross", to |-> to]
               out == SaveOf(g) ++ To(role[g].gate, n)
    <2>2. n.kind = "cross"
      OBVIOUS
    <2> HIDE DEF n
    <2>3. \A s \in DOMAIN out : out[s].kind \in {"save", "cross"}
      BY <1>2, <2>2 DEF ++, To, Each
    <2>4. Send(g, out)
      BY <2>1 DEF n
    <2> HIDE DEF out
    <2>5. /\ role[g].st = "OK" /\ role' = [role EXCEPT ![g] = None]
          /\ UNCHANGED <<gate, user, known, up>>
      BY <1>3 DEF Jump, gateVars, centerVars
    <2>6. \A h \in Games : (Loading(h)' <=> Loading(h))
      BY <1>1, <2>5 DEF Loading
    <2>7. \A h \in Games : role'[h] # None => role[h] # None /\ role'[h].gate = role[h].gate
      BY <1>1, <2>5
    <2> QED
      BY <2>3, <2>4, <2>5, <2>6, <2>7, GameSpeaks
  <1>4. CASE Autosave(g)
    <2>1. Send(g, SaveOf(g)) /\ UNCHANGED <<gate, user, known, up, role>>
      BY <1>4 DEF Autosave, gateVars, centerVars, dataVars
    <2>2. \A h \in Games : (Loading(h)' <=> Loading(h))
      BY <2>1 DEF Loading
    <2> QED
      BY <1>2, <2>1, <2>2, GameSpeaks
  <1>5. CASE Play(g)
    <2>1. /\ role[g] # None /\ role' = [role EXCEPT ![g].ver = @ + 1]
          /\ UNCHANGED <<gate, user, known, up, wire>>
      BY <1>5 DEF Play, gateVars, centerVars
    <2>2. role'[g] # None /\ role'[g].gate = role[g].gate /\ role'[g].st = role[g].st
      BY <1>1, <2>1 DEF Roles
    <2>3. \A h \in Games \ {g} : role'[h] = role[h]
      BY <1>1, <2>1
    <2>4. \A h \in Games : (Asked(h)' <=> Asked(h)) /\ (Loading(h)' <=> Loading(h))
      BY <2>1, <2>2, <2>3 DEF Asked, Loading
    <2>5. Whole'
      BY <2>1 DEF Whole, Answerable
    <2>6. \A h \in Games : role'[h] # None => role[h] # None /\ role'[h].gate = role[h].gate
      BY <2>1, <2>2, <2>3
    <2> QED
      BY <2>1, <2>4, <2>5, <2>6, Aside
  <1> QED
    BY <1>3, <1>4, <1>5

\* As long as nothing failed only these steps are taken.
LEMMA CleanBefore ==
    ASSUME TypeOK, Clean => Answerable, [Next]_vars, Clean'
    PROVE  /\ Clean /\ Answerable /\ hurries' = hurries
           /\ \/ \E a \in Gates : PlayerStep(a) \/ GateStep(a)
              \/ CenterStep
              \/ \E g \in Games : GameStep(g) \/ Jump(g) \/ Play(g) \/ Autosave(g)
              \/ UNCHANGED vars
  <1>1. faults \in Nat /\ hurries \in Nat
    BY DEF TypeOK
  <1>2. ASSUME NEW a \in Gates, PlayerStep(a)
        PROVE  faults' = faults /\ hurries' \in {hurries, hurries + 1}
    BY <1>2 DEF PlayerStep, Arrive, LoginGame, Ready, Leave, Expire, MsgBomb, GateDrops, GateMoves
  <1>3. \A a \in Gates : GateStep(a) => UNCHANGED <<faults, hurries>>
    BY DEF GateStep, GateCleared, GateHearsError, GateHearsSuccess, GateHearsCross, GateLosesGame,
       GateHandles, counters, incidentVars
  <1>4. CenterStep => UNCHANGED <<faults, hurries>>
    BY DEF CenterStep, CenterRegs, CenterCrosses, CenterLosesGate, CenterUnregs, CenterEntered,
       CenterLosesGame, CenterLearns, CenterHandles, counters, incidentVars
  <1>5. \A g \in Games : GameStep(g) => UNCHANGED <<faults, hurries>>
    BY DEF GameStep, GameRegs, GameRelogs, GameClears, GameLoads, GameLosesDb, GameUnregs,
       GameReady, GameLosesGate, DbHandles, Refuse, GameHandles, counters, incidentVars
  <1>6. \A g \in Games : Jump(g) \/ Play(g) \/ Autosave(g) => UNCHANGED <<faults, hurries>>
    BY DEF Jump, Play, Autosave, counters, incidentVars
  <1>7. \A l \in Links : LinkReturns(l) => UNCHANGED <<faults, hurries>>
    BY DEF LinkReturns, counters, incidentVars
  <1>8. ~Fault
    <2>1. Fault => faults' = faults + 1
      BY DEF Fault, CenterLosesDb, LinkFails, Crash
    <2> QED
      BY <1>1, <2>1 DEF Clean
  <1>9. UNCHANGED vars => UNCHANGED <<faults, hurries>>
    BY DEF vars, counters, incidentVars
  <1>10. /\ \/ \E a \in Gates : PlayerStep(a) \/ GateStep(a)
            \/ CenterStep
            \/ \E g \in Games : GameStep(g) \/ Jump(g) \/ Play(g) \/ Autosave(g)
            \/ \E l \in Links \ up : LinkReturns(l)
            \/ UNCHANGED vars
    BY <1>8 DEF Next
  <1>11. Clean /\ hurries' = hurries
    <2>1. faults' = faults /\ hurries' \in {hurries, hurries + 1}
      BY <1>2, <1>3, <1>4, <1>5, <1>6, <1>7, <1>9, <1>10
    <2> QED
      BY <1>1, <2>1 DEF Clean
  <1>12. up = Links
    BY <1>11 DEF Answerable, Whole
  <1> QED
    BY <1>10, <1>11, <1>12

LEMMA NextAnswers ==
    ASSUME TypeOK, Clean => Answerable, [Next]_vars, Clean'
    PROVE  Answerable'
  <1>1. CASE UNCHANGED vars
    <2>1. UNCHANGED <<gate, user, known, role, wire, up>>
      BY <1>1 DEF vars, gateVars, centerVars, dataVars
    <2>2. Answerable
      BY CleanBefore
    <2> QED
      BY <2>1, <2>2 DEF Answerable, Whole, Asked, Loading, Session, Elsewhere, Due
  <1> QED
    BY <1>1, CleanBefore, PlayerAnswers, GateAnswers, CenterAnswers, GameMail, GameActsAnswer,
       DbAnswers, OwnAnswers DEF Answerable

LEMMA InitAnswers == Init => Answerable
  <1> SUFFICES ASSUME Init PROVE Answerable
    OBVIOUS
  <1>1. \A p \in Processes : \A q \in Peers[p] : Letters(wire[p][q]) = {}
    BY LettersEmpty DEF Init
  <1>2. Whole
    BY <1>1 DEF Init, Whole
  <1>3. (\A g \in Games : ~Loading(g)) /\ (\A a \in Gates : gate[a] = "NONE")
    BY DEF Init, Loading
  <1> QED
    BY <1>2, <1>3 DEF Answerable

\* Nobody waits for an answer that no one will send, for any number of gates,
\* games, logins and jumps.
THEOREM ClusterAnswered == Spec => []Answered
  <1>1. Init => TypeOK /\ (Clean => Answerable)
    BY InitTypes, InitAnswers
  <1>2. TypeOK /\ (Clean => Answerable) /\ [Next]_vars => TypeOK' /\ (Clean => Answerable)'
    BY NextTypes, NextAnswers
  <1>3. (Clean => Answerable) => Answered
    BY AnswerImplies
  <1> QED
    BY <1>1, <1>2, <1>3, PTL DEF Spec

=============================================================================
