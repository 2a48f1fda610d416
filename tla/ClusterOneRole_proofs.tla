------------------------- MODULE ClusterOneRole_proofs -------------------------
(***************************************************************************)
(* A player's role is never played by two games at once.                   *)
(***************************************************************************)
EXTENDS ClusterAnswered_proofs

----------------------------------------------------------------------------
(* The letters of a channel by their tags, and the order they come in.     *)

\* What a letter is about: unregistrations by their code, and what belongs to a
\* jump set apart from what belongs to a login.
Tag(m) ==
    IF m.kind = "unreg" THEN m.code
    ELSE IF m.kind = "reg_scene" /\ m.type = "jump" THEN "reg_jump"
    ELSE IF m.kind = "entered" /\ m.type = "jump" THEN "entered_jump"
    ELSE m.kind

Tags(c) == {Tag(c[i]) : i \in 1..Len(c)}

\* On channel c no t comes behind an s.
Never(c, s, t) == \A i, j \in 1..Len(c) : i < j /\ Tag(c[i]) = s => Tag(c[j]) # t

LEMMA TagsAppend ==
    ASSUME NEW S, NEW c \in Seq(S), NEW m
    PROVE  /\ Tags(Append(c, m)) = Tags(c) \cup {Tag(m)}
           /\ \A s, t : Never(c, s, t) /\ ~(s \in Tags(c) /\ t = Tag(m)) => Never(Append(c, m), s, t)
  <1>1. /\ Len(Append(c, m)) = Len(c) + 1 /\ Append(c, m)[Len(c) + 1] = m /\ Len(c) \in Nat
        /\ \A i \in 1..Len(c) : Append(c, m)[i] = c[i]
    OBVIOUS
  <1> DEFINE d == Append(c, m)
  <1>2. 1..(Len(c) + 1) = 1..Len(c) \cup {Len(c) + 1}
    BY <1>1
  <1>3. Tags(d) = Tags(c) \cup {Tag(m)}
    BY <1>1, <1>2 DEF Tags
  <1>4. ASSUME NEW s, NEW t, Never(c, s, t), ~(s \in Tags(c) /\ t = Tag(m))
        PROVE  Never(d, s, t)
    <2> SUFFICES ASSUME NEW i \in 1..Len(d), NEW j \in 1..Len(d), i < j, Tag(d[i]) = s
                 PROVE  Tag(d[j]) # t
      BY DEF Never
    <2>1. i \in 1..Len(c) /\ d[i] = c[i]
      BY <1>1
    <2>2. s \in Tags(c)
      BY <2>1 DEF Tags
    <2>3. CASE j \in 1..Len(c)
      BY <1>1, <1>4, <2>1, <2>3 DEF Never
    <2>4. CASE j = Len(c) + 1
      BY <1>1, <1>4, <2>2, <2>4
    <2> QED
      BY <1>1, <1>2, <2>3, <2>4
  <1> QED
    BY <1>3, <1>4

LEMMA TagsTail ==
    ASSUME NEW S, NEW c \in Seq(S), c # <<>>
    PROVE  /\ Tags(c) = {Tag(Head(c))} \cup Tags(Tail(c))
           /\ \A s, t : Never(c, s, t) => Never(Tail(c), s, t)
           /\ \A s, t : Never(c, s, t) /\ s = Tag(Head(c)) => t \notin Tags(Tail(c))
  <1>1. /\ Len(c) \in Nat \ {0} /\ Len(Tail(c)) = Len(c) - 1 /\ Head(c) = c[1]
        /\ \A i \in 1..(Len(c) - 1) : Tail(c)[i] = c[i + 1]
    OBVIOUS
  <1> DEFINE d == Tail(c)
  <1>2. \A i \in 1..Len(d) : i + 1 \in 1..Len(c) /\ 1 < i + 1 /\ d[i] = c[i + 1]
    BY <1>1
  <1>3. \A i \in 1..Len(c) : i # 1 => i - 1 \in 1..Len(d) /\ d[i - 1] = c[i]
    BY <1>1
  <1>4. Tags(c) = {Tag(Head(c))} \cup Tags(d)
    <2>1. ASSUME NEW i \in 1..Len(c)
          PROVE  Tag(c[i]) \in {Tag(Head(c))} \cup Tags(d)
      <3>1. CASE i = 1
        BY <1>1, <3>1
      <3>2. CASE i # 1
        <4>1. i - 1 \in 1..Len(d) /\ Tag(d[i - 1]) = Tag(c[i])
          BY <1>3, <3>2
        <4> QED
          BY <4>1 DEF Tags
      <3> QED
        BY <3>1, <3>2
    <2>2. \A x \in Tags(d) : x \in Tags(c)
      BY <1>2 DEF Tags
    <2>3. 1 \in 1..Len(c)
      BY <1>1
    <2>4. Tag(Head(c)) \in Tags(c)
      BY <1>1, <2>3 DEF Tags
    <2> QED
      BY <2>1, <2>2, <2>4 DEF Tags
  <1>5. ASSUME NEW s, NEW t, Never(c, s, t)
        PROVE  Never(d, s, t)
    <2> SUFFICES ASSUME NEW i \in 1..Len(d), NEW j \in 1..Len(d), i < j, Tag(d[i]) = s
                 PROVE  Tag(d[j]) # t
      BY DEF Never
    <2>1. i + 1 < j + 1
      BY <1>1
    <2> QED
      BY <1>2, <1>5, <2>1 DEF Never
  <1>6. ASSUME NEW s, NEW t, Never(c, s, t), s = Tag(Head(c))
        PROVE  t \notin Tags(d)
    <2> SUFFICES ASSUME NEW i \in 1..Len(d), Tag(d[i]) = t
                 PROVE  FALSE
      BY DEF Tags
    <2>1. 1 \in 1..Len(c)
      BY <1>1
    <2> QED
      BY <1>1, <1>2, <1>6, <2>1 DEF Never
  <1> QED
    BY <1>4, <1>5, <1>6

LEMMA TagsEmpty ==
    /\ Tags(<<>>) = {}
    /\ \A s, t : Never(<<>>, s, t)
    /\ \A c, s, t : s \notin Tags(c) \/ t \notin Tags(c) => Never(c, s, t)
    /\ \A S : \A c \in Seq(S) : Tags(c) = {} => c = <<>>
  <1>1. Tags(<<>>) = {} /\ \A s, t : Never(<<>>, s, t)
    BY DEF Tags, Never
  <1>2. \A c, s, t : s \notin Tags(c) \/ t \notin Tags(c) => Never(c, s, t)
    BY DEF Tags, Never
  <1>3. ASSUME NEW S, NEW c \in Seq(S), Tags(c) = {}
        PROVE  c = <<>>
    <2>1. Len(c) = 0
      BY <1>3 DEF Tags
    <2> QED
      BY <2>1, EmptySeq
  <1> QED
    BY <1>1, <1>2, <1>3

\* A channel c becomes d when the tags "taken" are taken and "put" are put.
Flow(c, d, taken, put) ==
    /\ Tags(d) \subseteq Tags(c) \cup put
    /\ Tags(c) \subseteq Tags(d) \cup taken
    /\ put \subseteq Tags(d)
    /\ \A s, t : Never(c, s, t) /\ ~(s \in Tags(c) /\ t \in put) => Never(d, s, t)
    /\ \A s, t : Never(c, s, t) /\ s \in taken => t \notin Tags(d)
    /\ taken = {} /\ put = {} => d = c

\* What addressee s gets of the mail "out".
Gets(out, s) == IF s \in DOMAIN out THEN {Tag(out[s])} ELSE {}

\* What p takes from q, and what p sends, on the channel from r to s.
TagTaken(p, q, r, s) == IF r = q /\ s = p THEN {Tag(Incoming(q, p))} ELSE {}
TagPut(p, out, r, s) == IF r = p /\ {r, s} \in up THEN Gets(out, s) ELSE {}

LEMMA SentFlow ==
    ASSUME NEW S, NEW c \in Seq(S), NEW p, NEW out, NEW r, NEW s
    PROVE  Flow(c, Sent(c, p, out, r, s), {}, TagPut(p, out, r, s))
  <1>1. CASE r = p /\ s \in DOMAIN out /\ {r, s} \in up
    <2>1. Sent(c, p, out, r, s) = Append(c, out[s]) /\ TagPut(p, out, r, s) = {Tag(out[s])}
      BY <1>1 DEF Sent, TagPut, Gets
    <2>2. /\ Tags(Append(c, out[s])) = Tags(c) \cup {Tag(out[s])}
          /\ \A x, t : Never(c, x, t) /\ ~(x \in Tags(c) /\ t = Tag(out[s]))
                         => Never(Append(c, out[s]), x, t)
      BY TagsAppend
    <2> QED
      BY <2>1, <2>2 DEF Flow
  <1>2. CASE ~(r = p /\ s \in DOMAIN out /\ {r, s} \in up)
    <2>1. Sent(c, p, out, r, s) = c /\ TagPut(p, out, r, s) = {}
      BY <1>2 DEF Sent, TagPut, Gets
    <2> QED
      BY <2>1 DEF Flow
  <1> QED
    BY <1>1, <1>2

LEMMA SendFlow ==
    ASSUME TypeOK, NEW p \in Processes, NEW out, Send(p, out)
    PROVE  \A r \in Processes : \A s \in Peers[r] :
             Flow(wire[r][s], wire'[r][s], {}, TagPut(p, out, r, s))
  <1>1. Fits(wire, Any)
    BY WireTypes DEF TypeOK
  <1>2. ASSUME NEW r \in Processes, NEW s \in Peers[r]
        PROVE  Flow(wire[r][s], wire'[r][s], {}, TagPut(p, out, r, s))
    <2>1. wire[r][s] \in Seq(Msgs)
      BY <1>1, Ends DEF Fits, Any
    <2>2. wire'[r][s] = Sent(wire[r][s], p, out, r, s)
      BY <1>1, PostChannels DEF Send
    <2> QED
      BY <2>1, <2>2, SentFlow
  <1> QED
    BY <1>2

LEMMA HandleFlow ==
    ASSUME TypeOK, NEW p \in Processes, NEW q \in Peers[p], NEW out, Hears(p, q), Handle(q, p, out)
    PROVE  /\ \A r \in Processes : \A s \in Peers[r] :
                Flow(wire[r][s], wire'[r][s], TagTaken(p, q, r, s), TagPut(p, out, r, s))
           /\ Tag(Incoming(q, p)) \in Tags(wire[q][p]) /\ Incoming(q, p) \in Msgs
  <1>1. Fits(wire, Any) /\ q \in Processes /\ p \in Peers[q] /\ p # q
    BY WireTypes, Ends DEF TypeOK
  <1>2. wire[q][p] \in Seq(Msgs) /\ wire[q][p] # <<>> /\ Incoming(q, p) = Head(wire[q][p])
    BY <1>1, Ends DEF Fits, Any, Hears, Incoming
  <1>3. ASSUME NEW r \in Processes, NEW s \in Peers[r]
        PROVE  Flow(wire[r][s], wire'[r][s], TagTaken(p, q, r, s), TagPut(p, out, r, s))
    <2>1. wire[r][s] \in Seq(Msgs)
      BY <1>1, Ends DEF Fits, Any
    <2>2. wire'[r][s] = Sent(Took(wire[r][s], p, q, r, s), p, out, r, s)
      BY <1>1, HandleChannels
    <2>3. CASE r = q /\ s = p
      <3>1. wire'[r][s] = Tail(wire[q][p]) /\ TagPut(p, out, r, s) = {}
            /\ TagTaken(p, q, r, s) = {Tag(Head(wire[q][p]))}
        BY <1>1, <1>2, <2>2, <2>3 DEF Sent, Took, TagPut, TagTaken
      <3>2. /\ Tags(wire[q][p]) = {Tag(Head(wire[q][p]))} \cup Tags(Tail(wire[q][p]))
            /\ \A x, t : Never(wire[q][p], x, t) => Never(Tail(wire[q][p]), x, t)
            /\ \A x, t : Never(wire[q][p], x, t) /\ x = Tag(Head(wire[q][p]))
                           => t \notin Tags(Tail(wire[q][p]))
        BY <1>2, TagsTail
      <3> QED
        BY <2>3, <3>1, <3>2 DEF Flow
    <2>4. CASE ~(r = q /\ s = p)
      <3>1. wire'[r][s] = Sent(wire[r][s], p, out, r, s) /\ TagTaken(p, q, r, s) = {}
        BY <2>2, <2>4 DEF Took, TagTaken
      <3> QED
        BY <2>1, <3>1, SentFlow
    <2> QED
      BY <2>3, <2>4
  <1>4. Tag(Incoming(q, p)) \in Tags(wire[q][p]) /\ Incoming(q, p) \in Msgs
    BY <1>2, TagsTail
  <1> QED
    BY <1>3, <1>4

\* Mail, addressee by addressee.
LEMMA GetsRules ==
    /\ \A s : Gets(Nothing, s) = {}
    /\ \A S, m, s : Gets(Each(S, m), s) = IF s \in S THEN {Tag(m)} ELSE {}
    /\ \A q, m, s : Gets(To(q, m), s) = IF s = q THEN {Tag(m)} ELSE {}
    /\ \A o1, o2, s : Gets(o1 ++ o2, s) = IF Gets(o1, s) # {} THEN Gets(o1, s) ELSE Gets(o2, s)
    /\ \A r, s : Gets(Save(r), s) \subseteq (IF s = "db" THEN {"save"} ELSE {})
  <1>1. \A S, m, s : Gets(Each(S, m), s) = IF s \in S THEN {Tag(m)} ELSE {}
    BY DEF Gets, Each
  <1>2. \A q, m, s : Gets(To(q, m), s) = IF s = q THEN {Tag(m)} ELSE {}
    BY <1>1 DEF To
  <1>3. \A s : Gets(Nothing, s) = {}
    BY <1>1 DEF Nothing
  <1>4. \A o1, o2, s : Gets(o1 ++ o2, s) = IF Gets(o1, s) # {} THEN Gets(o1, s) ELSE Gets(o2, s)
    <2> TAKE o1, o2, s
    <2>1. /\ DOMAIN (o1 ++ o2) = DOMAIN o1 \cup DOMAIN o2
          /\ s \in DOMAIN (o1 ++ o2) => (o1 ++ o2)[s] = IF s \in DOMAIN o1 THEN o1[s] ELSE o2[s]
      BY DEF ++
    <2> QED
      BY <2>1 DEF Gets
  <1>5. \A r, s : Gets(Save(r), s) \subseteq (IF s = "db" THEN {"save"} ELSE {})
    <2> TAKE r, s
    <2>1. Tag([kind |-> "save", ver |-> r.ver]) = "save"
      BY DEF Tag
    <2> QED
      BY <1>2, <1>3, <2>1 DEF Save
  <1> QED
    BY <1>1, <1>2, <1>3, <1>4, <1>5

\* The tags of the letters that are sent.
LEMMA TagRules ==
    /\ \A k : k # "unreg" /\ k # "reg_scene" /\ k # "entered" => Tag(Say(k)) = k
    /\ \A c : Tag(UnregMsg(c)) = c
    /\ \A a : Tag([kind |-> "reg_scene", gate |-> a, type |-> "login"]) = "reg_scene"
    /\ \A a : Tag([kind |-> "reg_scene", gate |-> a, type |-> "jump"]) = "reg_jump"
    /\ \A a : Tag([kind |-> "relogin", gate |-> a]) = "relogin"
    /\ \A t : Tag([kind |-> "entered", type |-> t]) = IF t = "jump" THEN "entered_jump" ELSE "entered"
    /\ \A g : Tag([kind |-> "cross", to |-> g]) = "cross"
    /\ \A v : Tag([kind |-> "record", ver |-> v]) = "record"
  BY DEF Tag, Say, UnregMsg

\* What a letter with a tag is.
LEMMA TagMeans ==
    ASSUME NEW m \in Msgs
    PROVE  /\ m.kind = "unreg" <=> Tag(m) \in Codes
           /\ m.kind = "unreg" => m.code = Tag(m)
           /\ m.kind = "reg_scene" <=> Tag(m) \in {"reg_scene", "reg_jump"}
           /\ m.kind = "reg_scene" => m.type = IF Tag(m) = "reg_jump" THEN "jump" ELSE "login"
           /\ m.kind = "entered" <=> Tag(m) \in {"entered", "entered_jump"}
           /\ m.kind = "entered" => (m.type = "jump" <=> Tag(m) = "entered_jump")
           /\ \A k \in {"closed", "reg", "kick_all", "success", "ready", "load", "syn", "cross",
                        "relogin", "save", "record"} : m.kind = k <=> Tag(m) = k
           /\ m.kind \in {"closed", "reg", "kick_all", "success", "ready", "load", "syn", "cross",
                          "relogin", "save", "record", "unreg", "reg_scene", "entered"}
  <1>1. m.kind \in {"closed", "reg", "kick_all", "success", "ready", "load", "syn", "cross",
                    "relogin", "save", "record", "unreg", "reg_scene", "entered"}
    BY DEF Msgs
  <1>2. m.kind = "unreg" => m.code \in Codes
    BY Carries
  <1>3. m.kind = "reg_scene" => m.type \in {"login", "jump"}
    BY Carries
  <1> QED
    BY <1>1, <1>2, <1>3 DEF Tag, Codes

----------------------------------------------------------------------------
(* What the processes do, in tags.                                         *)

\* Nobody gets anything.
Mute(out) == \A s : Gets(out, s) = {}

\* Exactly those of T get a letter, and it has tag t.
Only(out, T, t) == \A s : Gets(out, s) = IF s \in T THEN {t} ELSE {}

\* The games the gate tells of an unregistration: the first it finds, if any.
Told(a) == IF listed[a] = {} THEN {{}} ELSE {{g} : g \in listed[a]}

LEMMA UnregGets ==
    ASSUME NEW a \in Gates, NEW c, NEW out \in Unregs(a, c)
    PROVE  \E T \in Told(a) :
             Only(out, IF c # "LOGOUT" \/ T = {} THEN T \cup {"center"} ELSE T, c)
  <1>1. \A q : Only(To(q, UnregMsg(c)), {q}, c)
    <2>1. Tag(UnregMsg(c)) = c
      BY TagRules
    <2> QED
      BY <2>1, GetsRules DEF Only
  <1>2. CASE listed[a] = {}
    <2>1. out = To("center", UnregMsg(c)) /\ {} \in Told(a)
      BY <1>2 DEF Unregs, Told
    <2>2. Only(out, {} \cup {"center"}, c)
      BY <1>1, <2>1 DEF Only
    <2> QED
      BY <2>1, <2>2
  <1>3. CASE listed[a] # {}
    <2>1. PICK g \in listed[a] :
            out = To(g, UnregMsg(c)) ++ (IF c # "LOGOUT" THEN To("center", UnregMsg(c)) ELSE Nothing)
      BY <1>3 DEF Unregs
    <2> DEFINE o1 == To(g, UnregMsg(c))
               o2 == IF c # "LOGOUT" THEN To("center", UnregMsg(c)) ELSE Nothing
    <2>2. Only(o1, {g}, c)
      BY <1>1
    <2>3. Only(o2, IF c # "LOGOUT" THEN {"center"} ELSE {}, c)
      <3>1. Only(Nothing, {}, c)
        BY GetsRules DEF Only
      <3> QED
        BY <1>1, <3>1
    <2>4. out = o1 ++ o2
      BY <2>1
    <2> HIDE DEF o1, o2
    <2>5. \A s : Gets(o1 ++ o2, s) = IF Gets(o1, s) # {} THEN Gets(o1, s) ELSE Gets(o2, s)
      BY GetsRules
    <2>6. Only(out, IF c # "LOGOUT" THEN {g} \cup {"center"} ELSE {g}, c)
      BY <2>2, <2>3, <2>4, <2>5 DEF Only
    <2>7. {g} \in Told(a)
      BY <1>3 DEF Told
    <2> QED
      BY <2>6, <2>7
  <1> QED
    BY <1>2, <1>3

PlayerDeed(a, st, out) ==
    /\ GateMoves(a, st, out)
    /\ \/ /\ listed' = listed
          /\ \/ gate[a] = "NONE" /\ st = "GATE" /\ Mute(out) /\ Arrive(a)
             \/ gate[a] = "OFFLINE" /\ st = "REGATE" /\ Mute(out)
             \/ gate[a] \in GateStates /\ st = "LOGIN" /\ Only(out, {"center"}, "reg") /\ LoginGame(a)
             \/ /\ gate[a] = "SCENE" /\ st = "SCENE"
                /\ \E g \in listed[a] : Only(out, {g}, "ready")
             \/ gate[a] \in {"REGATE", "LOGIN", "WAIT"} /\ st = "OFFLINE" /\ Mute(out)
             \/ /\ gate[a] = "SCENE" /\ st = "OFFLINE"
                /\ \E T \in Told(a) : Only(out, T \cup {"center"}, "OFFLINE")
       \/ /\ listed' = [listed EXCEPT ![a] = {}] /\ st = "NONE"
          /\ \/ gate[a] \in GateStates /\ Mute(out)
             \/ /\ gate[a] \in {"OFFLINE"} \cup LoginStates
                /\ \E T \in Told(a) : Only(out, IF T = {} THEN {"center"} ELSE T, "LOGOUT")

LEMMA PlayerDoes ==
    ASSUME NEW a \in Gates, PlayerStep(a)
    PROVE  \E st, out : PlayerDeed(a, st, out)
  <1> USE DEF PlayerDeed
  <1>1. Mute(Nothing) /\ \A q, k : k \in {"reg", "ready"} => Only(To(q, Say(k)), {q}, k)
    BY GetsRules, TagRules DEF Mute, Only
  <1>2. /\ \A out \in Unregs(a, "OFFLINE") :
             \E T \in Told(a) : Only(out, T \cup {"center"}, "OFFLINE")
        /\ \A out \in Unregs(a, "LOGOUT") :
             \E T \in Told(a) : Only(out, IF T = {} THEN {"center"} ELSE T, "LOGOUT")
    <2>1. ASSUME NEW out \in Unregs(a, "OFFLINE")
          PROVE  \E T \in Told(a) : Only(out, T \cup {"center"}, "OFFLINE")
      BY <2>1, UnregGets
    <2>2. ASSUME NEW out \in Unregs(a, "LOGOUT")
          PROVE  \E T \in Told(a) : Only(out, IF T = {} THEN {"center"} ELSE T, "LOGOUT")
      <3>1. PICK T \in Told(a) : Only(out, IF T = {} THEN T \cup {"center"} ELSE T, "LOGOUT")
        BY <2>2, UnregGets
      <3>2. CASE T = {}
        <4>1. T \cup {"center"} = {"center"}
          BY <3>2
        <4> QED
          BY <3>1, <3>2, <4>1
      <3>3. CASE T # {}
        BY <3>1, <3>3
      <3> QED
        BY <3>2, <3>3
    <2> QED
      BY <2>1, <2>2
  <1>3. CASE Arrive(a)
    <2>1. CASE gate[a] = "NONE" /\ GateMoves(a, "GATE", Nothing)
      <3>1. PlayerDeed(a, "GATE", Nothing)
        BY <1>1, <1>3, <2>1 DEF Arrive
      <3> QED
        BY <3>1
    <2>2. CASE gate[a] = "OFFLINE" /\ GateMoves(a, "REGATE", Nothing)
      <3>1. PlayerDeed(a, "REGATE", Nothing)
        BY <1>1, <1>3, <2>2 DEF Arrive
      <3> QED
        BY <3>1
    <2> QED
      BY <1>3, <2>1, <2>2 DEF Arrive
  <1>4. CASE LoginGame(a)
    <2>1. PlayerDeed(a, "LOGIN", To("center", Say("reg")))
      BY <1>1, <1>4 DEF LoginGame
    <2> QED
      BY <2>1
  <1>5. CASE Ready(a)
    <2>1. PICK g \in listed[a] : GateMoves(a, "SCENE", To(g, Say("ready")))
      BY <1>5 DEF Ready
    <2>2. PlayerDeed(a, "SCENE", To(g, Say("ready")))
      BY <1>1, <1>5, <2>1 DEF Ready
    <2> QED
      BY <2>2
  <1>6. CASE Leave(a)
    <2>1. CASE gate[a] = "GATE" /\ GateDrops(a, Nothing)
      <3>1. PlayerDeed(a, "NONE", Nothing)
        BY <1>1, <2>1 DEF GateDrops, GateStates
      <3> QED
        BY <3>1
    <2>2. CASE /\ gate[a] \in {"REGATE"} \cup LoginStates /\ listed' = listed
               /\ \E out \in IF gate[a] = "SCENE" THEN Unregs(a, "OFFLINE") ELSE {Nothing} :
                    GateMoves(a, "OFFLINE", out)
      <3>0. PICK out \in IF gate[a] = "SCENE" THEN Unregs(a, "OFFLINE") ELSE {Nothing} :
                   GateMoves(a, "OFFLINE", out)
        BY <2>2
      <3>1. CASE gate[a] = "SCENE"
        <4>1. PlayerDeed(a, "OFFLINE", out)
          BY <1>2, <2>2, <3>0, <3>1
        <4> QED
          BY <4>1
      <3>2. CASE gate[a] # "SCENE"
        <4>1. PlayerDeed(a, "OFFLINE", Nothing)
          BY <1>1, <2>2, <3>0, <3>2 DEF LoginStates
        <4> QED
          BY <4>1
      <3> QED
        BY <3>1, <3>2
    <2> QED
      BY <1>6, <2>1, <2>2 DEF Leave
  <1>7. CASE Expire(a)
    <2>1. PICK out \in Unregs(a, "LOGOUT") : GateDrops(a, out)
      BY <1>7 DEF Expire
    <2>2. PlayerDeed(a, "NONE", out)
      BY <1>2, <1>7, <2>1 DEF Expire, GateDrops
    <2> QED
      BY <2>2
  <1>8. CASE MsgBomb(a)
    <2>1. CASE gate[a] = "REGATE"
      <3>1. PlayerDeed(a, "NONE", Nothing)
        BY <1>1, <1>8, <2>1 DEF MsgBomb, GateDrops, GateStates
      <3> QED
        BY <3>1
    <2>2. CASE gate[a] # "REGATE"
      <3>1. PICK out \in Unregs(a, "LOGOUT") : GateDrops(a, out)
        BY <1>8, <2>2 DEF MsgBomb
      <3>2. PlayerDeed(a, "NONE", out)
        BY <1>2, <1>8, <2>2, <3>1 DEF MsgBomb, GateDrops
      <3> QED
        BY <3>2
    <2> QED
      BY <2>1, <2>2
  <1> QED
    BY <1>3, <1>4, <1>5, <1>6, <1>7, <1>8 DEF PlayerStep

GateDeed(q, a, st, lst, out) ==
    LET t == Tag(Incoming(q, a)) IN
    /\ Hears(a, q) /\ GateHandles(q, a, st, lst, out)
    /\ \/ t \in Codes /\ gate[a] \in {"NONE", "OFFLINE"} /\ st = gate[a] /\ lst = listed[a] /\ Mute(out)
       \/ t \in Codes /\ gate[a] \notin {"NONE", "OFFLINE"} /\ st = "NONE" /\ lst = {} /\ Mute(out)
       \/ /\ q \in Games /\ t = "success" /\ gate[a] \in {"LOGIN", "WAIT"}
          /\ st = "SCENE" /\ lst = listed[a] \cup {q} /\ Mute(out)
       \/ /\ q \in Games /\ t = "success" /\ gate[a] = "OFFLINE"
          /\ st = "OFFLINE" /\ lst = listed[a]
          /\ \E T \in Told(a) : Only(out, T \cup {"center"}, "OFFLINE")
       \/ /\ q \in Games /\ t = "success" /\ gate[a] \notin {"LOGIN", "WAIT", "OFFLINE"}
          /\ st = "NONE" /\ lst = {} /\ Only(out, {"center", q}, "ERROR")
       \/ /\ q \in Games /\ t = "cross" /\ gate[a] # "SCENE"
          /\ st = gate[a] /\ lst = listed[a] /\ Mute(out)
       \/ /\ q \in Games /\ t = "cross" /\ gate[a] = "SCENE"
          /\ st = "WAIT" /\ lst = {} /\ Only(out, {"center"}, "cross")
       \/ t \in {"closed", "kick_all"} /\ Mute(out)

LEMMA GateDoes ==
    ASSUME TypeOK, NEW a \in Gates, GateStep(a)
    PROVE  \E q \in Peers[a] : \E st, lst, out : GateDeed(q, a, st, lst, out)
  <1> USE DEF GateDeed
  <1>1. /\ Mute(Nothing)
        /\ \A out \in Unregs(a, "OFFLINE") :
             \E T \in Told(a) : Only(out, T \cup {"center"}, "OFFLINE")
    BY GetsRules, UnregGets DEF Mute
  <1>2. \A g : Only(To("center", UnregMsg("ERROR")) ++ To(g, UnregMsg("ERROR")), {"center", g}, "ERROR")
    <2> TAKE g
    <2>1. \A s, q : Gets(To(q, UnregMsg("ERROR")), s) = IF s = q THEN {"ERROR"} ELSE {}
      BY GetsRules, TagRules
    <2> QED
      BY <2>1, GetsRules DEF Only
  <1>3. a \in Processes /\ "center" \in Peers[a] /\ \A g \in Games : g \in Peers[a]
    BY Connections
  <1>4. \A q \in Peers[a] : Hears(a, q) => Incoming(q, a) \in Msgs
    BY <1>3, WireTypes, HearTypes DEF TypeOK
  <1>5. ASSUME NEW q \in Peers[a], Hears(a, q), GateHearsError(q, a)
        PROVE  \E st, lst, out : GateDeed(q, a, st, lst, out)
    <2>1. Tag(Incoming(q, a)) \in Codes
      BY <1>4, <1>5, TagMeans DEF GateHearsError
    <2>2. CASE gate[a] \in {"NONE", "OFFLINE"}
      <3>1. GateDeed(q, a, gate[a], listed[a], Nothing)
        BY <1>1, <1>5, <2>1, <2>2 DEF GateHearsError
      <3> QED
        BY <3>1
    <2>3. CASE gate[a] \notin {"NONE", "OFFLINE"}
      <3>1. GateDeed(q, a, "NONE", {}, Nothing)
        BY <1>1, <1>5, <2>1, <2>3 DEF GateHearsError
      <3> QED
        BY <3>1
    <2> QED
      BY <2>2, <2>3
  <1>6. ASSUME NEW g \in Games, Hears(a, g), GateHearsSuccess(g, a)
        PROVE  \E st, lst, out : GateDeed(g, a, st, lst, out)
    <2>1. Tag(Incoming(g, a)) = "success"
      BY <1>3, <1>4, <1>6, TagMeans DEF GateHearsSuccess
    <2>2. CASE gate[a] \in {"LOGIN", "WAIT"}
      <3>1. GateDeed(g, a, "SCENE", listed[a] \cup {g}, Nothing)
        BY <1>1, <1>6, <2>1, <2>2 DEF GateHearsSuccess
      <3> QED
        BY <3>1
    <2>3. CASE gate[a] = "OFFLINE"
      <3>1. PICK out \in Unregs(a, "OFFLINE") : GateHandles(g, a, "OFFLINE", listed[a], out)
        BY <1>6, <2>3 DEF GateHearsSuccess
      <3>2. GateDeed(g, a, "OFFLINE", listed[a], out)
        BY <1>1, <1>6, <2>1, <2>3, <3>1
      <3> QED
        BY <3>2
    <2>4. CASE gate[a] \notin {"LOGIN", "WAIT", "OFFLINE"}
      <3> DEFINE o == To("center", UnregMsg("ERROR")) ++ To(g, UnregMsg("ERROR"))
      <3>1. GateHandles(g, a, "NONE", {}, o) /\ Only(o, {"center", g}, "ERROR")
        BY <1>2, <1>6, <2>4 DEF GateHearsSuccess
      <3> HIDE DEF o
      <3>2. GateDeed(g, a, "NONE", {}, o)
        BY <1>6, <2>1, <2>4, <3>1
      <3> QED
        BY <3>2
    <2> QED
      BY <2>2, <2>3, <2>4
  <1>7. ASSUME NEW g \in Games, Hears(a, g), GateHearsCross(g, a)
        PROVE  \E st, lst, out : GateDeed(g, a, st, lst, out)
    <2>1. Tag(Incoming(g, a)) = "cross"
      BY <1>3, <1>4, <1>7, TagMeans DEF GateHearsCross
    <2>2. CASE gate[a] # "SCENE"
      <3>1. GateDeed(g, a, gate[a], listed[a], Nothing)
        BY <1>1, <1>7, <2>1, <2>2 DEF GateHearsCross
      <3> QED
        BY <3>1
    <2>3. CASE gate[a] = "SCENE"
      <3>1. Only(To("center", Incoming(g, a)), {"center"}, "cross")
        BY <2>1, GetsRules DEF Only
      <3>2. GateDeed(g, a, "WAIT", {}, To("center", Incoming(g, a)))
        BY <1>7, <2>1, <2>3, <3>1 DEF GateHearsCross
      <3> QED
        BY <3>2
    <2> QED
      BY <2>2, <2>3
  <1>8. ASSUME Hears(a, "center"), GateCleared(a)
        PROVE  \E st, lst, out : GateDeed("center", a, st, lst, out)
    <2>1. Tag(Incoming("center", a)) \in {"closed", "kick_all"}
      BY <1>3, <1>4, <1>8, TagMeans DEF GateCleared
    <2>2. GateDeed("center", a, "NONE", {}, Nothing)
      BY <1>1, <1>8, <2>1 DEF GateCleared
    <2> QED
      BY <2>2
  <1>9. ASSUME NEW g \in Games, Hears(a, g), GateLosesGame(g, a)
        PROVE  \E st, lst, out : GateDeed(g, a, st, lst, out)
    <2>1. Tag(Incoming(g, a)) = "closed"
      BY <1>3, <1>4, <1>9, TagMeans DEF GateLosesGame
    <2>2. \E st, lst : GateHandles(g, a, st, lst, Nothing)
      BY <1>9 DEF GateLosesGame
    <2>3. PICK st, lst : GateHandles(g, a, st, lst, Nothing)
      BY <2>2
    <2>4. GateDeed(g, a, st, lst, Nothing)
      BY <1>1, <1>9, <2>1, <2>3
    <2> QED
      BY <2>4
  <1> QED
    BY <1>3, <1>5, <1>6, <1>7, <1>8, <1>9 DEF GateStep

\* Center sends the player on to game g for gate a.
Sends(out, g, t, a) == Only(out, {g}, t) /\ out[g].gate = a

CenterDeed(q, u, h, k, out) ==
    LET m == Incoming(q, "center")
        t == Tag(m)
    IN
    /\ Hears("center", q) /\ CenterHandles(q, u, h, k, out)
    /\ \* A login.
       \/ /\ q \in Gates /\ t = "reg" /\ h = home /\ k = known /\ user # None
          /\ \/ user.gate = q /\ u = user /\ Sends(out, user.game, "relogin", q)
             \/ user.gate # q /\ u = None /\ Only(out, {q, user.game}, "ERROR")
       \/ /\ q \in Gates /\ t = "reg" /\ h \in LoginScenes /\ k = known /\ user = None
          /\ u = [gate |-> q, game |-> h, on |-> "LOGOUT"] /\ Sends(out, h, "reg_scene", q)
       \/ /\ q \in Gates /\ t = "reg" /\ h = home /\ k = known
          /\ user = None /\ u = None /\ Only(out, {q}, "ERROR")
       \* An unregistration.
       \/ /\ t \in Codes /\ h = home /\ k = known /\ Mute(out)
          /\ u = IF user = None \/ t # "OFFLINE" THEN None ELSE [user EXCEPT !.on = "OFFLINE"]
       \* The player is in a scene.
       \/ /\ q \in Games /\ t = "entered" /\ h = home /\ k = known /\ Mute(out)
          /\ user # None /\ u = [user EXCEPT !.on = "ONLINE"]
       \/ /\ q \in Games /\ t = "entered_jump" /\ h = q /\ k = known /\ Mute(out)
          /\ user # None /\ u = user
       \/ /\ q \in Games /\ t \in {"entered", "entered_jump"} /\ h = home /\ k = known
          /\ user = None /\ u = None /\ Only(out, Gates \cup {q}, "ERROR")
       \* A jump.
       \/ /\ q \in Gates /\ t = "cross" /\ h = home /\ k = known
          /\ user # None /\ m.to \in known
          /\ u = [user EXCEPT !.game = m.to] /\ Sends(out, m.to, "reg_jump", user.gate)
       \/ /\ q \in Gates /\ t = "cross" /\ h = home /\ k = known
          /\ u = None /\ Only(out, Gates, "ERROR")
       \* Connections.
       \/ t = "closed" /\ h = home /\ k \in {known, known \ {q}} /\ Mute(out)
          /\ (q \in Games => k = known \ {q}) /\ u \in {user, None}
       \/ q \in Games /\ t = "syn" /\ h = home /\ k = known \cup {q} /\ Mute(out) /\ u = user

LEMMA CenterDoes ==
    ASSUME TypeOK, CenterStep
    PROVE  \E q \in Peers["center"] : \E u, h, k, out : CenterDeed(q, u, h, k, out)
  <1> USE DEF CenterDeed
  <1>1. /\ "center" \in Processes
        /\ \A g \in Games : g \in Peers["center"] /\ g \notin Gates
        /\ \A a \in Gates : a \in Peers["center"] /\ a \notin Games
    BY Connections
  <1>2. \A q \in Peers["center"] : Hears("center", q) => Incoming(q, "center") \in Msgs
    BY <1>1, WireTypes, HearTypes DEF TypeOK
  <1>3. user # None => user \in Users /\ user.game \in Games
    BY DEF TypeOK, Users
  <1>4. Mute(Nothing)
    BY GetsRules DEF Mute
  <1>5. \A S : Only(Each(S, UnregMsg("ERROR")), S, "ERROR")
    <2> TAKE S
    <2>1. \A s : Gets(Each(S, UnregMsg("ERROR")), s) = IF s \in S THEN {Tag(UnregMsg("ERROR"))} ELSE {}
      BY GetsRules
    <2> QED
      BY <2>1, TagRules DEF Only
  <1>6. \A S, T : Only(Each(S, UnregMsg("ERROR")) ++ Each(T, UnregMsg("ERROR")), S \cup T, "ERROR")
    <2> TAKE S, T
    <2> QED
      BY <1>5, GetsRules DEF Only
  <1>7. \A g, n : Sends(To(g, n), g, Tag(n), n.gate)
    <2> TAKE g, n
    <2>1. To(g, n)[g] = n
      BY DEF To, Each
    <2> QED
      BY <2>1, GetsRules DEF Sends, Only
  <1>8. ASSUME NEW a \in Gates, Hears("center", a), CenterRegs(a)
        PROVE  \E u, h, k, out : CenterDeed(a, u, h, k, out)
    <2>1. Tag(Incoming(a, "center")) = "reg"
      BY <1>1, <1>2, <1>8, TagMeans DEF CenterRegs
    <2>2. CASE user # None /\ user.gate = a /\ CenterHandles(a, user, home, known,
                 To(user.game, [kind |-> "relogin", gate |-> a]))
      <3> DEFINE n == [kind |-> "relogin", gate |-> a]
      <3>1. Tag(n) = "relogin" /\ n.gate = a
        BY TagRules
      <3>2. Sends(To(user.game, n), user.game, "relogin", a)
        BY <1>7, <3>1
      <3> HIDE DEF n
      <3>3. CenterDeed(a, user, home, known, To(user.game, n))
        BY <1>8, <2>1, <2>2, <3>2 DEF n
      <3> QED
        BY <3>3
    <2>3. CASE user # None /\ user.gate # a /\ CenterHandles(a, None, home, known,
                 To(a, UnregMsg("ERROR")) ++ To(user.game, UnregMsg("ERROR")))
      <3> DEFINE o == To(a, UnregMsg("ERROR")) ++ To(user.game, UnregMsg("ERROR"))
      <3>1. Only(o, {a} \cup {user.game}, "ERROR")
        BY <1>6 DEF To
      <3>2. {a} \cup {user.game} = {a, user.game}
        OBVIOUS
      <3>3. Only(o, {a, user.game}, "ERROR")
        BY <3>1, <3>2
      <3> HIDE DEF o
      <3>4. CenterDeed(a, None, home, known, o)
        BY <1>8, <2>1, <2>3, <3>3 DEF o
      <3> QED
        BY <3>4
    <2>4. ASSUME user = None, NEW g \in LoginScenes,
                 CenterHandles(a, [gate |-> a, game |-> g, on |-> "LOGOUT"], g, known,
                   To(g, [kind |-> "reg_scene", gate |-> a, type |-> "login"]))
          PROVE  \E u, h, k, out : CenterDeed(a, u, h, k, out)
      <3> DEFINE n == [kind |-> "reg_scene", gate |-> a, type |-> "login"]
                 u == [gate |-> a, game |-> g, on |-> "LOGOUT"]
      <3>1. Tag(n) = "reg_scene" /\ n.gate = a
        BY TagRules
      <3>2. Sends(To(g, n), g, "reg_scene", a)
        BY <1>7, <3>1
      <3> HIDE DEF n
      <3>3. CenterDeed(a, u, g, known, To(g, n))
        BY <1>8, <2>1, <2>4, <3>2 DEF n
      <3> QED
        BY <3>3
    <2>5. CASE user = None /\ CenterHandles(a, None, home, known, To(a, UnregMsg("ERROR")))
      <3>1. Only(To(a, UnregMsg("ERROR")), {a}, "ERROR")
        BY <1>5 DEF To
      <3>2. CenterDeed(a, None, home, known, To(a, UnregMsg("ERROR")))
        BY <1>8, <2>1, <2>5, <3>1
      <3> QED
        BY <3>2
    <2> QED
      BY <1>8, <2>2, <2>3, <2>4, <2>5 DEF CenterRegs
  <1>9. ASSUME NEW q \in Peers["center"], Hears("center", q), CenterUnregs(q)
        PROVE  \E u, h, k, out : CenterDeed(q, u, h, k, out)
    <2> DEFINE m == Incoming(q, "center")
               u == IF user = None \/ Tag(m) # "OFFLINE" THEN None ELSE [user EXCEPT !.on = "OFFLINE"]
    <2>1. Tag(m) \in Codes /\ m.code = Tag(m)
      BY <1>2, <1>9, TagMeans DEF CenterUnregs
    <2>2. CenterHandles(q, u, home, known, Nothing)
      BY <1>9, <2>1 DEF CenterUnregs
    <2> HIDE DEF m
    <2>3. CenterDeed(q, u, home, known, Nothing)
      BY <1>4, <1>9, <2>1, <2>2 DEF m
    <2> QED
      BY <2>3
  <1>10. ASSUME NEW g \in Games, Hears("center", g), CenterEntered(g)
         PROVE  \E u, h, k, out : CenterDeed(g, u, h, k, out)
    <2> DEFINE m == Incoming(g, "center")
    <2>1. /\ Tag(m) \in {"entered", "entered_jump"}
          /\ m.type = "jump" <=> Tag(m) = "entered_jump"
      BY <1>1, <1>2, <1>10, TagMeans DEF CenterEntered
    <2>2. CASE user # None /\ m.type \in {"login", "relogin"} /\
               CenterHandles(g, [user EXCEPT !.on = "ONLINE"], home, known, Nothing)
      <3>1. Tag(m) = "entered"
        BY <2>1, <2>2
      <3>2. CenterDeed(g, [user EXCEPT !.on = "ONLINE"], home, known, Nothing)
        BY <1>4, <1>10, <2>2, <3>1
      <3> QED
        BY <3>2
    <2>3. CASE user # None /\ m.type = "jump" /\ CenterHandles(g, user, g, known, Nothing)
      <3>1. CenterDeed(g, user, g, known, Nothing)
        BY <1>4, <1>10, <2>1, <2>3
      <3> QED
        BY <3>1
    <2>4. CASE user = None /\ CenterHandles(g, None, home, known,
                 Each(Gates, UnregMsg("ERROR")) ++ To(g, UnregMsg("ERROR")))
      <3> DEFINE o == Each(Gates, UnregMsg("ERROR")) ++ To(g, UnregMsg("ERROR"))
      <3>1. Only(o, Gates \cup {g}, "ERROR")
        BY <1>6 DEF To
      <3> HIDE DEF o
      <3>2. CenterDeed(g, None, home, known, o)
        BY <1>10, <2>1, <2>4, <3>1 DEF o
      <3> QED
        BY <3>2
    <2> QED
      BY <1>10, <2>2, <2>3, <2>4 DEF CenterEntered
  <1>11. ASSUME NEW a \in Gates, Hears("center", a), CenterCrosses(a)
         PROVE  \E u, h, k, out : CenterDeed(a, u, h, k, out)
    <2> DEFINE m == Incoming(a, "center")
    <2>1. Tag(m) = "cross"
      BY <1>1, <1>2, <1>11, TagMeans DEF CenterCrosses
    <2>2. CASE user # None /\ m.to \in known /\
               CenterHandles(a, [user EXCEPT !.game = m.to], home, known,
                 To(m.to, [kind |-> "reg_scene", gate |-> user.gate, type |-> "jump"]))
      <3> DEFINE n == [kind |-> "reg_scene", gate |-> user.gate, type |-> "jump"]
      <3>1. Tag(n) = "reg_jump" /\ n.gate = user.gate
        BY TagRules
      <3>2. Sends(To(m.to, n), m.to, "reg_jump", user.gate)
        BY <1>7, <3>1
      <3> HIDE DEF n
      <3>3. CenterDeed(a, [user EXCEPT !.game = m.to], home, known, To(m.to, n))
        BY <1>11, <2>1, <2>2, <3>2 DEF n
      <3> QED
        BY <3>3
    <2>3. CASE CenterHandles(a, None, home, known, Each(Gates, UnregMsg("ERROR")))
      <3>1. CenterDeed(a, None, home, known, Each(Gates, UnregMsg("ERROR")))
        BY <1>5, <1>11, <2>1, <2>3
      <3> QED
        BY <3>1
    <2> QED
      BY <1>11, <2>2, <2>3 DEF CenterCrosses
  <1>12. ASSUME NEW a \in Gates, Hears("center", a), CenterLosesGate(a)
         PROVE  \E u, h, k, out : CenterDeed(a, u, h, k, out)
    <2>1. Tag(Incoming(a, "center")) = "closed"
      BY <1>1, <1>2, <1>12, TagMeans DEF CenterLosesGate
    <2>2. \E u \in {user, None} : CenterHandles(a, u, home, known, Nothing)
      BY <1>12 DEF CenterLosesGate
    <2>3. PICK u \in {user, None} : CenterHandles(a, u, home, known, Nothing)
      BY <2>2
    <2>4. CenterDeed(a, u, home, known, Nothing)
      BY <1>1, <1>4, <1>12, <2>1, <2>3
    <2> QED
      BY <2>4
  <1>13. ASSUME NEW g \in Games, Hears("center", g), CenterLosesGame(g)
         PROVE  \E u, h, k, out : CenterDeed(g, u, h, k, out)
    <2>1. Tag(Incoming(g, "center")) = "closed"
      BY <1>1, <1>2, <1>13, TagMeans DEF CenterLosesGame
    <2>2. \E u \in {user, None} : CenterHandles(g, u, home, known \ {g}, Nothing)
      BY <1>13 DEF CenterLosesGame
    <2>3. PICK u \in {user, None} : CenterHandles(g, u, home, known \ {g}, Nothing)
      BY <2>2
    <2>4. CenterDeed(g, u, home, known \ {g}, Nothing)
      BY <1>4, <1>13, <2>1, <2>3
    <2> QED
      BY <2>4
  <1>14. ASSUME NEW g \in Games, Hears("center", g), CenterLearns(g)
         PROVE  \E u, h, k, out : CenterDeed(g, u, h, k, out)
    <2>1. Tag(Incoming(g, "center")) = "syn"
      BY <1>1, <1>2, <1>14, TagMeans DEF CenterLearns
    <2>2. CenterDeed(g, user, home, known \cup {g}, Nothing)
      BY <1>4, <1>14, <2>1 DEF CenterLearns
    <2> QED
      BY <2>2
  <1>15. \E q \in Peers["center"] : \E u, h, k, out : CenterDeed(q, u, h, k, out)
    <2> HIDE DEF CenterDeed
    <2> QED
      BY <1>1, <1>8, <1>9, <1>10, <1>11, <1>12, <1>13, <1>14 DEF CenterStep
  <1> QED
    BY <1>15

\* Whatever else it says, a game asks the database for nothing.
Asks(out) == "load" \in Gets(out, "db")

\* Center gets t, the gates of T get k, and the other gates get nothing.
Answers(out, C, T, k) ==
    /\ ~Asks(out)
    /\ Gets(out, "center") = C
    /\ \A a \in Gates : Gets(out, a) = IF a \in T THEN {k} ELSE {}

LEMMA AnswerRules ==
    /\ \A k : Answers(Nothing, {}, {}, k)
    /\ \A r, k : Answers(Save(r), {}, {}, k)
    /\ \A r, c, k : Answers(Save(r) ++ To("center", UnregMsg(c)), {c}, {}, k)
    /\ \A r, c : Answers(Save(r) ++ To("center", UnregMsg(c)) ++ Each(Gates, UnregMsg(c)), {c}, Gates, c)
    /\ \A a \in Gates : \A t : Answers(To(a, Say("success")) ++ To("center", [kind |-> "entered", type |-> t]),
          {IF t = "jump" THEN "entered_jump" ELSE "entered"}, {a}, "success")
    /\ \A a \in Gates : \A c, r : Answers(To(a, UnregMsg(c)) ++ To("center", UnregMsg(c)) ++ Save(r), {c}, {a}, c)
    /\ \A a \in Gates : \A r, n : Answers(Save(r) ++ To(a, n), {}, {a}, Tag(n))
  <1>1. "center" \notin Gates /\ "db" \notin Gates /\ "center" # "db"
    BY ProcessAssumption
  <1>2. \A r : /\ \A s : s # "db" => Gets(Save(r), s) = {}
               /\ "load" \notin Gets(Save(r), "db")
    BY GetsRules
  <1>3. \A s : Gets(Nothing, s) = {}
    BY GetsRules
  <1>4. \A q, c, s : Gets(To(q, UnregMsg(c)), s) = IF s = q THEN {c} ELSE {}
    BY GetsRules, TagRules
  <1>5. \A c, s : Gets(Each(Gates, UnregMsg(c)), s) = IF s \in Gates THEN {c} ELSE {}
    <2> TAKE c, s
    <2>1. Gets(Each(Gates, UnregMsg(c)), s) = IF s \in Gates THEN {Tag(UnregMsg(c))} ELSE {}
      BY GetsRules
    <2> QED
      BY <2>1, TagRules
  <1>6. \A q, s : Gets(To(q, Say("success")), s) = IF s = q THEN {"success"} ELSE {}
    BY GetsRules, TagRules
  <1>7. \A t, s : Gets(To("center", [kind |-> "entered", type |-> t]), s) =
          IF s = "center" THEN {IF t = "jump" THEN "entered_jump" ELSE "entered"} ELSE {}
    <2> TAKE t, s
    <2> DEFINE n == [kind |-> "entered", type |-> t]
    <2>1. Gets(To("center", n), s) = IF s = "center" THEN {Tag(n)} ELSE {}
      BY GetsRules
    <2>2. Tag(n) = IF t = "jump" THEN "entered_jump" ELSE "entered"
      BY TagRules
    <2> QED
      BY <2>1, <2>2
  <1>8. \A o1, o2, s : Gets(o1 ++ o2, s) = IF Gets(o1, s) # {} THEN Gets(o1, s) ELSE Gets(o2, s)
    BY GetsRules
  <1>9. \A k : Answers(Nothing, {}, {}, k)
    BY <1>3 DEF Answers, Asks
  <1>10. \A r, k : Answers(Save(r), {}, {}, k)
    BY <1>1, <1>2 DEF Answers, Asks
  <1>11. \A r, c, k : Answers(Save(r) ++ To("center", UnregMsg(c)), {c}, {}, k)
    <2> TAKE r, c, k
    <2> DEFINE o1 == Save(r)
               o2 == To("center", UnregMsg(c))
    <2>1. \A s : Gets(o1 ++ o2, s) = IF Gets(o1, s) # {} THEN Gets(o1, s) ELSE Gets(o2, s)
      BY <1>8
    <2>2. \A s : Gets(o2, s) = IF s = "center" THEN {c} ELSE {}
      BY <1>4
    <2>3. (\A s : s # "db" => Gets(o1, s) = {}) /\ "load" \notin Gets(o1, "db")
      BY <1>2
    <2> SUFFICES Answers(o1 ++ o2, {c}, {}, k)
      OBVIOUS
    <2> HIDE DEF o1, o2
    <2>5. "load" \notin Gets(o1 ++ o2, "db")
      BY <1>1, <2>1, <2>2, <2>3
    <2>6. Gets(o1 ++ o2, "center") = {c}
      BY <1>1, <2>1, <2>2, <2>3
    <2>7. \A b \in Gates : Gets(o1 ++ o2, b) = {}
      BY <1>1, <2>1, <2>2, <2>3
    <2> QED
      BY <2>5, <2>6, <2>7 DEF Answers, Asks
  <1>12. \A r, c : Answers(Save(r) ++ To("center", UnregMsg(c)) ++ Each(Gates, UnregMsg(c)), {c}, Gates, c)
    <2> TAKE r, c
    <2> DEFINE o1 == Save(r) ++ To("center", UnregMsg(c))
               o2 == Each(Gates, UnregMsg(c))
    <2>1. \A s : Gets(o1 ++ o2, s) = IF Gets(o1, s) # {} THEN Gets(o1, s) ELSE Gets(o2, s)
      BY <1>8
    <2>2. \A s : Gets(o2, s) = IF s \in Gates THEN {c} ELSE {}
      BY <1>5
    <2>3. Answers(o1, {c}, {}, c)
      BY <1>11
    <2> SUFFICES Answers(o1 ++ o2, {c}, Gates, c)
      OBVIOUS
    <2> HIDE DEF o1, o2
    <2>5. "load" \notin Gets(o1 ++ o2, "db")
      BY <1>1, <2>1, <2>2, <2>3 DEF Answers, Asks
    <2>6. Gets(o1 ++ o2, "center") = {c}
      BY <1>1, <2>1, <2>2, <2>3 DEF Answers, Asks
    <2>7. \A b \in Gates : Gets(o1 ++ o2, b) = {c}
      BY <1>1, <2>1, <2>2, <2>3 DEF Answers, Asks
    <2> QED
      BY <2>5, <2>6, <2>7 DEF Answers, Asks
  <1>13. \A a \in Gates : \A t : Answers(To(a, Say("success")) ++ To("center", [kind |-> "entered", type |-> t]),
          {IF t = "jump" THEN "entered_jump" ELSE "entered"}, {a}, "success")
    <2> TAKE a \in Gates
    <2> TAKE t
    <2> DEFINE o1 == To(a, Say("success"))
               o2 == To("center", [kind |-> "entered", type |-> t])
    <2>1. \A s : Gets(o1 ++ o2, s) = IF Gets(o1, s) # {} THEN Gets(o1, s) ELSE Gets(o2, s)
      BY <1>8
    <2>2. \A s : Gets(o1, s) = IF s = a THEN {"success"} ELSE {}
      BY <1>6
    <2>3. \A s : Gets(o2, s) = IF s = "center" THEN {IF t = "jump" THEN "entered_jump" ELSE "entered"} ELSE {}
      BY <1>7
    <2> SUFFICES Answers(o1 ++ o2, {IF t = "jump" THEN "entered_jump" ELSE "entered"}, {a}, "success")
      OBVIOUS
    <2> HIDE DEF o1, o2
    <2>5. "load" \notin Gets(o1 ++ o2, "db")
      BY <1>1, <2>1, <2>2, <2>3
    <2>6. Gets(o1 ++ o2, "center") = {IF t = "jump" THEN "entered_jump" ELSE "entered"}
      BY <1>1, <2>1, <2>2, <2>3
    <2>7. \A b \in Gates : Gets(o1 ++ o2, b) = IF b = a THEN {"success"} ELSE {}
      BY <1>1, <2>1, <2>2, <2>3
    <2> QED
      BY <2>5, <2>6, <2>7 DEF Answers, Asks
  <1>14. \A a \in Gates : \A c, r : Answers(To(a, UnregMsg(c)) ++ To("center", UnregMsg(c)) ++ Save(r), {c}, {a}, c)
    <2> TAKE a \in Gates
    <2> TAKE c, r
    <2> DEFINE o1 == To(a, UnregMsg(c))
               o2 == To("center", UnregMsg(c))
               o3 == Save(r)
    <2>1. \A s : Gets(o1 ++ o2, s) = IF Gets(o1, s) # {} THEN Gets(o1, s) ELSE Gets(o2, s)
      BY <1>8
    <2>2. \A s : Gets((o1 ++ o2) ++ o3, s) = IF Gets(o1 ++ o2, s) # {} THEN Gets(o1 ++ o2, s) ELSE Gets(o3, s)
      BY <1>8
    <2>3. \A s : /\ Gets(o1, s) = IF s = a THEN {c} ELSE {}
                 /\ Gets(o2, s) = IF s = "center" THEN {c} ELSE {}
      BY <1>4
    <2>4. (\A s : s # "db" => Gets(o3, s) = {}) /\ "load" \notin Gets(o3, "db")
      BY <1>2
    <2> SUFFICES Answers((o1 ++ o2) ++ o3, {c}, {a}, c)
      OBVIOUS
    <2> HIDE DEF o1, o2, o3
    <2>5. "load" \notin Gets((o1 ++ o2) ++ o3, "db")
      BY <1>1, <2>1, <2>2, <2>3, <2>4
    <2>6. Gets((o1 ++ o2) ++ o3, "center") = {c}
      BY <1>1, <2>1, <2>2, <2>3, <2>4
    <2>7. \A b \in Gates : Gets((o1 ++ o2) ++ o3, b) = IF b = a THEN {c} ELSE {}
      BY <1>1, <2>1, <2>2, <2>3, <2>4
    <2> QED
      BY <2>5, <2>6, <2>7 DEF Answers, Asks
  <1>15. \A a \in Gates : \A r, n : Answers(Save(r) ++ To(a, n), {}, {a}, Tag(n))
    <2> TAKE a \in Gates
    <2> TAKE r, n
    <2> DEFINE o1 == Save(r)
               o2 == To(a, n)
    <2>1. \A s : Gets(o1 ++ o2, s) = IF Gets(o1, s) # {} THEN Gets(o1, s) ELSE Gets(o2, s)
      BY <1>8
    <2>2. \A s : Gets(o2, s) = IF s = a THEN {Tag(n)} ELSE {}
      BY GetsRules
    <2>3. (\A s : s # "db" => Gets(o1, s) = {}) /\ "load" \notin Gets(o1, "db")
      BY <1>2
    <2> SUFFICES Answers(o1 ++ o2, {}, {a}, Tag(n))
      OBVIOUS
    <2> HIDE DEF o1, o2
    <2>5. "load" \notin Gets(o1 ++ o2, "db")
      BY <1>1, <2>1, <2>2, <2>3
    <2>6. Gets(o1 ++ o2, "center") = {}
      BY <1>1, <2>1, <2>2, <2>3
    <2>7. \A b \in Gates : Gets(o1 ++ o2, b) = IF b = a THEN {Tag(n)} ELSE {}
      BY <1>1, <2>1, <2>2, <2>3
    <2> QED
      BY <2>5, <2>6, <2>7 DEF Answers, Asks
  <1> QED
    BY <1>9, <1>10, <1>11, <1>12, <1>13, <1>14, <1>15

\* The role goes on: its state, its gate, whether it is there for a jump.
Goes(r, st, a, type) == r # None /\ r.st = st /\ r.gate = a /\ r.type = type

GameDeed(q, g, r, out) ==
    LET m == Incoming(q, g)
        t == Tag(m)
        old == role[g]
    IN
    /\ Hears(g, q) /\ GameHandles(q, g, r, out)
    /\ \* A registration.
       \/ /\ q = "center" /\ t \in {"reg_scene", "reg_jump"} /\ old = None
          /\ Goes(r, "LOADING", m.gate, IF t = "reg_jump" THEN "jump" ELSE "login")
          /\ Only(out, {"db"}, "load")
       \/ /\ q = "center" /\ t \in {"reg_scene", "reg_jump", "relogin"}
          /\ r = None /\ Answers(out, {"ERROR"}, Gates, "ERROR")
       \/ /\ q = "center" /\ t = "relogin" /\ Plays(g)
          /\ Goes(r, "OK", m.gate, "relogin") /\ m.gate \in Gates
          /\ Answers(out, {"entered"}, {m.gate}, "success")
       \* An unregistration by center, the loss of a connection.
       \/ /\ q = "center" /\ t \in Codes \cup {"kick_all", "closed"}
          /\ r = None /\ Answers(out, {}, {}, "ERROR")
       \/ /\ q \in Gates /\ t = "closed" /\ r \in {None, old} /\ Answers(out, {}, {}, "ERROR")
       \/ /\ q = "db" /\ t = "closed" /\ r = old /\ Answers(out, {}, {}, "ERROR")
       \* The gate's news.
       \/ /\ q \in Gates /\ t \in {"LOGOUT", "ERROR"} /\ r = None
          /\ Answers(out, IF t = "LOGOUT" THEN {"LOGOUT"} ELSE {}, {}, "ERROR")
       \/ /\ q \in Gates /\ t \in {"OFFLINE", "ready"} /\ Answers(out, {}, {}, "ERROR")
          /\ IF old = None THEN r = None
             ELSE Goes(r, old.st, old.gate, IF t = "ready" THEN "none" ELSE old.type)
       \* The record arrives.
       \/ /\ q = "db" /\ t = "record" /\ old = None /\ r = None /\ Answers(out, {}, {}, "ERROR")
       \/ /\ q = "db" /\ t = "record" /\ old # None /\ old.type # "none"
          /\ Goes(r, "OK", old.gate, old.type)
          /\ Answers(out, {IF old.type = "jump" THEN "entered_jump" ELSE "entered"}, {old.gate}, "success")
       \/ /\ q = "db" /\ t = "record" /\ old # None /\ r = None
          /\ Answers(out, {"ERROR"}, {old.gate}, "ERROR")

LEMMA GameDoes ==
    ASSUME TypeOK, NEW g \in Games, GameStep(g)
    PROVE  \/ \E q \in Peers[g] : \E r, out : GameDeed(q, g, r, out)
           \/ Hears("db", g) /\ DbHandles(g)
  <1> USE DEF GameDeed
  <1>1. /\ g \in Processes /\ "center" \in Peers[g] /\ "db" \in Peers[g]
        /\ \A a \in Gates : a \in Peers[g] /\ a # "center" /\ a # "db"
        /\ "center" # "db" /\ "db" \notin Gates /\ "center" \notin Gates
    BY Connections, ProcessAssumption
  <1>2. \A q \in Peers[g] : Hears(g, q) => Incoming(q, g) \in Msgs
    BY <1>1, WireTypes, HearTypes DEF TypeOK
  <1>3. role[g] \in Roles \cup {None} /\ (role[g] # None => role[g] \in Roles /\ role[g].gate \in Gates)
        /\ None \notin Roles
    BY NoneAssumption DEF TypeOK, Roles
  <1>4. \A q, t : t \in {"reg_scene", "reg_jump", "relogin"} /\ q = "center" /\ Hears(g, q)
          /\ Tag(Incoming(q, g)) = t /\ Refuse(q, g)
          => \E r, out : GameDeed(q, g, r, out)
    <2> SUFFICES ASSUME NEW t \in {"reg_scene", "reg_jump", "relogin"}, Hears(g, "center"),
                        Tag(Incoming("center", g)) = t, Refuse("center", g)
                 PROVE  \E r, out : GameDeed("center", g, r, out)
      OBVIOUS
    <2> DEFINE o == SaveOf(g) ++ To("center", UnregMsg("ERROR")) ++ Each(Gates, UnregMsg("ERROR"))
    <2>1. Answers(o, {"ERROR"}, Gates, "ERROR")
      BY AnswerRules DEF SaveOf
    <2>2. GameHandles("center", g, None, o)
      BY DEF Refuse
    <2> HIDE DEF o
    <2>3. GameDeed("center", g, None, o)
      BY <2>1, <2>2
    <2> QED
      BY <2>3
  <1>5. CASE Hears(g, "center") /\ GameRegs(g)
    <2> DEFINE m == Incoming("center", g)
               r == [st |-> "LOADING", gate |-> m.gate, on |-> "OFFLINE", type |-> m.type, ver |-> 0]
    <2>1. /\ Tag(m) \in {"reg_scene", "reg_jump"}
          /\ m.type = IF Tag(m) = "reg_jump" THEN "jump" ELSE "login"
          /\ m.gate \in Gates
      BY <1>1, <1>2, <1>5, TagMeans, Carries DEF GameRegs
    <2>2. CASE role[g] = None /\ GameHandles("center", g, r, To("db", Say("load")))
      <3>1. r \in Roles
        BY <2>1 DEF Roles, LoginTypes
      <3>2. Goes(r, "LOADING", m.gate, IF Tag(m) = "reg_jump" THEN "jump" ELSE "login")
        BY <1>3, <2>1, <3>1 DEF Goes
      <3>3. Only(To("db", Say("load")), {"db"}, "load")
        BY GetsRules, TagRules DEF Only
      <3> HIDE DEF r, m
      <3>4. GameDeed("center", g, r, To("db", Say("load")))
        BY <1>5, <2>1, <2>2, <3>2, <3>3 DEF m
      <3> QED
        BY <1>1, <3>4
    <2> QED
      BY <1>1, <1>4, <1>5, <2>1, <2>2 DEF GameRegs
  <1>6. CASE Hears(g, "center") /\ GameRelogs(g)
    <2> DEFINE m == Incoming("center", g)
               r == [role[g] EXCEPT !.gate = m.gate, !.type = "relogin", !.on = "ONLINE"]
               o == To(m.gate, Say("success")) ++ To("center", [kind |-> "entered", type |-> "relogin"])
    <2>1. Tag(m) = "relogin" /\ m.gate \in Gates
      BY <1>1, <1>2, <1>6, TagMeans, Carries DEF GameRelogs
    <2>2. CASE Plays(g) /\ GameHandles("center", g, r, o)
      <3>1. r.st = "OK" /\ r.gate = m.gate /\ r.type = "relogin" /\ r \in Roles
        BY <1>3, <2>1, <2>2 DEF Plays, Roles, LoginTypes
      <3>2. Goes(r, "OK", m.gate, "relogin")
        BY <1>3, <3>1 DEF Goes
      <3>3. Answers(o, {"entered"}, {m.gate}, "success")
        BY <2>1, AnswerRules
      <3> HIDE DEF r, m, o
      <3>4. GameDeed("center", g, r, o)
        BY <1>6, <2>1, <2>2, <3>2, <3>3 DEF m
      <3> QED
        BY <1>1, <3>4
    <2> QED
      BY <1>1, <1>4, <1>6, <2>1, <2>2 DEF GameRelogs, Plays
  <1>7. CASE Hears(g, "center") /\ GameClears(g)
    <2>1. Tag(Incoming("center", g)) \in Codes \cup {"kick_all", "closed"}
      BY <1>1, <1>2, <1>7, TagMeans DEF GameClears
    <2>2. Answers(SaveOf(g), {}, {}, "ERROR")
      BY AnswerRules DEF SaveOf
    <2>3. GameDeed("center", g, None, SaveOf(g))
      BY <1>7, <2>1, <2>2 DEF GameClears
    <2> QED
      BY <1>1, <2>3
  <1>8. CASE Hears(g, "db") /\ GameLoads(g)
    <2> DEFINE m == Incoming("db", g)
               old == role[g]
               loaded == IF old = None THEN None ELSE
                  [old EXCEPT !.st = "OK", !.on = "ONLINE",
                     !.ver = IF old.st = "LOADING" THEN m.ver ELSE old.ver]
               won == To(old.gate, Say("success")) ++ To("center", [kind |-> "entered", type |-> old.type])
               lost(last) == To(old.gate, UnregMsg("ERROR")) ++ To("center", UnregMsg("ERROR")) ++ Save(last)
    <2>1. Tag(m) = "record" /\ m.ver \in Nat
      BY <1>1, <1>2, <1>8, TagMeans, Carries DEF GameLoads
    <2>2. CASE old = None /\ GameHandles("db", g, None, Nothing)
      <3>1. GameDeed("db", g, None, Nothing)
        BY <1>8, <2>1, <2>2, AnswerRules
      <3> QED
        BY <1>1, <3>1
    <2>3. CASE old # None /\ old.type # "none" /\ GameHandles("db", g, loaded, won)
      <3>1. loaded.st = "OK" /\ loaded.gate = old.gate /\ loaded.type = old.type /\ loaded \in Roles
        BY <1>3, <2>1, <2>3 DEF Roles
      <3>2. Goes(loaded, "OK", old.gate, old.type)
        BY <1>3, <3>1 DEF Goes
      <3>3. Answers(won, {IF old.type = "jump" THEN "entered_jump" ELSE "entered"}, {old.gate}, "success")
        BY <1>3, <2>3, AnswerRules
      <3> HIDE DEF loaded, won
      <3>4. GameDeed("db", g, loaded, won)
        BY <1>8, <2>1, <2>3, <3>2, <3>3
      <3> QED
        BY <1>1, <3>4
    <2>4. CASE old # None /\ \E last \in {old, loaded} : GameHandles("db", g, None, lost(last))
      <3>1. PICK last \in {old, loaded} : GameHandles("db", g, None, lost(last))
        BY <2>4
      <3>2. Answers(lost(last), {"ERROR"}, {old.gate}, "ERROR")
        BY <1>3, <2>4, AnswerRules
      <3> HIDE DEF loaded, lost
      <3>3. GameDeed("db", g, None, lost(last))
        BY <1>8, <2>1, <2>4, <3>1, <3>2
      <3> QED
        BY <1>1, <3>3
    <2> QED
      BY <1>8, <2>2, <2>3, <2>4 DEF GameLoads
  <1>9. CASE Hears(g, "db") /\ GameLosesDb(g)
    <2>1. Tag(Incoming("db", g)) = "closed"
      BY <1>1, <1>2, <1>9, TagMeans DEF GameLosesDb
    <2>2. GameDeed("db", g, role[g], Nothing)
      BY <1>9, <2>1, AnswerRules DEF GameLosesDb
    <2> QED
      BY <1>1, <2>2
  <1>10. ASSUME NEW a \in Gates, Hears(g, a), GameUnregs(a, g)
         PROVE  \E q \in Peers[g] : \E r, out : GameDeed(q, g, r, out)
    <2> DEFINE c == Incoming(a, g).code
               off == IF role[g] = None THEN None ELSE [role[g] EXCEPT !.on = "OFFLINE"]
    <2>1. Tag(Incoming(a, g)) = c
      BY <1>1, <1>2, <1>10, TagMeans DEF GameUnregs
    <2>2. CASE c = "OFFLINE" /\ GameHandles(a, g, off, Nothing)
      <3>1. ASSUME role[g] # None
            PROVE  Goes(off, role[g].st, role[g].gate, role[g].type)
        <4>1. /\ off \in Roles /\ off # None
              /\ off.st = role[g].st /\ off.gate = role[g].gate /\ off.type = role[g].type
          BY <1>3, <3>1 DEF Roles
        <4> QED
          BY <4>1 DEF Goes
      <3>2. IF role[g] = None THEN off = None ELSE Goes(off, role[g].st, role[g].gate, role[g].type)
        BY <3>1
      <3> HIDE DEF off
      <3>3. GameDeed(a, g, off, Nothing)
        BY <1>10, <2>1, <2>2, <3>2, AnswerRules
      <3> QED
        BY <1>1, <3>3
    <2>3. CASE c = "LOGOUT" /\ GameHandles(a, g, None, SaveOf(g) ++ To("center", UnregMsg("LOGOUT")))
      <3> DEFINE o == SaveOf(g) ++ To("center", UnregMsg("LOGOUT"))
      <3>1. Answers(o, {"LOGOUT"}, {}, "ERROR")
        BY AnswerRules DEF SaveOf
      <3> HIDE DEF o
      <3>2. GameDeed(a, g, None, o)
        BY <1>10, <2>1, <2>3, <3>1 DEF o
      <3> QED
        BY <1>1, <3>2
    <2>4. CASE c = "ERROR" /\ GameHandles(a, g, None, SaveOf(g))
      <3>1. Answers(SaveOf(g), {}, {}, "ERROR")
        BY AnswerRules DEF SaveOf
      <3>2. GameDeed(a, g, None, SaveOf(g))
        BY <1>10, <2>1, <2>4, <3>1
      <3> QED
        BY <1>1, <3>2
    <2> QED
      BY <1>10, <2>2, <2>3, <2>4 DEF GameUnregs
  <1>11. ASSUME NEW a \in Gates, Hears(g, a), GameReady(a, g)
         PROVE  \E q \in Peers[g] : \E r, out : GameDeed(q, g, r, out)
    <2> DEFINE off == IF role[g] = None THEN None ELSE [role[g] EXCEPT !.type = "none"]
    <2>1. Tag(Incoming(a, g)) = "ready"
      BY <1>1, <1>2, <1>11, TagMeans DEF GameReady
    <2>2. ASSUME role[g] # None
          PROVE  Goes(off, role[g].st, role[g].gate, "none")
      <3>1. /\ off \in Roles /\ off # None
            /\ off.st = role[g].st /\ off.gate = role[g].gate /\ off.type = "none"
        BY <1>3, <2>2 DEF Roles, LoginTypes
      <3> QED
        BY <3>1 DEF Goes
    <2>3. IF role[g] = None THEN off = None ELSE Goes(off, role[g].st, role[g].gate, "none")
      BY <2>2
    <2>4. GameHandles(a, g, off, Nothing)
      BY <1>11 DEF GameReady
    <2> HIDE DEF off
    <2>5. GameDeed(a, g, off, Nothing)
      BY <1>11, <2>1, <2>3, <2>4, AnswerRules
    <2> QED
      BY <1>1, <2>5
  <1>12. ASSUME NEW a \in Gates, Hears(g, a), GameLosesGate(a, g)
         PROVE  \E q \in Peers[g] : \E r, out : GameDeed(q, g, r, out)
    <2>1. Tag(Incoming(a, g)) = "closed"
      BY <1>1, <1>2, <1>12, TagMeans DEF GameLosesGate
    <2>2. Answers(SaveOf(g), {}, {}, "ERROR") /\ Answers(Nothing, {}, {}, "ERROR")
      BY AnswerRules DEF SaveOf
    <2>3. GameDeed(a, g, None, SaveOf(g)) \/ GameDeed(a, g, role[g], Nothing)
      BY <1>12, <2>1, <2>2 DEF GameLosesGate
    <2> QED
      BY <1>1, <2>3
  <1>13. (\E q \in Peers[g] : \E r, out : GameDeed(q, g, r, out)) \/ (Hears("db", g) /\ DbHandles(g))
    <2> HIDE DEF GameDeed
    <2> QED
      BY <1>5, <1>6, <1>7, <1>8, <1>9, <1>10, <1>11, <1>12 DEF GameStep
  <1> QED
    BY <1>13

\* What game g does on its own account: it saves, its role goes on or jumps away.
OwnDeed(g, out) ==
    /\ Send(g, out) /\ UNCHANGED <<gate, listed, user, home, known, up, faults, hurries, repeated>>
    /\ \/ /\ Answers(out, {}, {}, "ERROR") /\ jumps' = jumps
          /\ UNCHANGED role
       \/ /\ Plays(g) /\ Answers(out, {}, {role[g].gate}, "cross")
          /\ role' = [role EXCEPT ![g] = None] /\ jumps' = jumps + 1

LEMMA OwnDoes ==
    ASSUME TypeOK, NEW g \in Games, Jump(g) \/ Autosave(g)
    PROVE  \E out : OwnDeed(g, out)
  <1> USE DEF OwnDeed
  <1>1. CASE Autosave(g)
    <2>1. OwnDeed(g, SaveOf(g))
      BY <1>1, AnswerRules DEF Autosave, SaveOf, gateVars, centerVars, dataVars, counters,
         incidentVars, histories
    <2> QED
      BY <2>1
  <1>2. CASE Jump(g)
    <2>1. PICK to \in Games \ {g} : Send(g, SaveOf(g) ++ To(role[g].gate, [kind |-> "cross", to |-> to]))
      BY <1>2 DEF Jump
    <2> DEFINE n == [kind |-> "cross", to |-> to]
               o == SaveOf(g) ++ To(role[g].gate, n)
    <2>2. Plays(g) /\ role[g].gate \in Gates
      BY <1>2 DEF Jump, Plays, TypeOK, Roles
    <2>3. Tag(n) = "cross"
      BY TagRules
    <2>4. Answers(o, {}, {role[g].gate}, "cross")
      <3> HIDE DEF n
      <3>1. Answers(o, {}, {role[g].gate}, Tag(n))
        BY <2>2, AnswerRules DEF SaveOf
      <3> QED
        BY <2>3, <3>1
    <2> HIDE DEF o, n
    <2>5. Send(g, o)
      BY <2>1 DEF o, n
    <2>6. OwnDeed(g, o)
      BY <1>2, <2>2, <2>4, <2>5 DEF Jump, gateVars, centerVars, histories
    <2> QED
      BY <2>6
  <1> QED
    BY <1>1, <1>2

\* The role plays: all of it that matters here stays.
LEMMA PlayDoes ==
    ASSUME TypeOK, NEW g \in Games, Play(g)
    PROVE  /\ UNCHANGED <<gate, listed, user, home, known, wire, up, jumps, faults, hurries, repeated>>
           /\ Plays(g) /\ Goes(role'[g], role[g].st, role[g].gate, role[g].type)
           /\ \A h \in Games \ {g} : role'[h] = role[h]
  <1>1. /\ role \in [Games -> Roles \cup {None}] /\ None \notin Roles
        /\ role[g] \in Roles /\ role' = [role EXCEPT ![g] = [role[g] EXCEPT !.ver = @ + 1]]
    BY NoneAssumption DEF TypeOK, Play
  <1> DEFINE r == [role[g] EXCEPT !.ver = @ + 1]
  <1>2. /\ r \in Roles /\ r.st = role[g].st /\ r.gate = role[g].gate /\ r.type = role[g].type
    BY <1>1, BoundsAssumption DEF Roles
  <1>3. role'[g] = r /\ \A h \in Games \ {g} : role'[h] = role[h]
    BY <1>1
  <1>4. Goes(role'[g], role[g].st, role[g].gate, role[g].type)
    BY <1>1, <1>2, <1>3 DEF Goes
  <1> QED
    BY <1>3, <1>4 DEF Play, Plays, gateVars, centerVars, incidentVars, histories

\* The database answers a request with the record.
LEMMA DbDoes ==
    ASSUME TypeOK, NEW g \in Games, Hears("db", g), DbHandles(g)
    PROVE  \E out : /\ Handle(g, "db", out)
                    /\ \/ Tag(Incoming(g, "db")) \in {"save", "closed"} /\ Mute(out)
                       \/ Tag(Incoming(g, "db")) = "load" /\ Only(out, {g}, "record")
                    /\ UNCHANGED <<gate, listed, user, home, known, role, up, jumps, faults, hurries, repeated>>
  <1> DEFINE m == Incoming(g, "db")
             n == [kind |-> "record", ver |-> stored]
  <1>1. m \in Msgs
    BY WireTypes, HearTypes, Connections DEF TypeOK
  <1>2. m.kind \in {"save", "load", "closed"} /\ Tag(m) = m.kind
    BY <1>1, TagMeans DEF DbHandles
  <1>3. /\ Handle(g, "db", IF m.kind = "load" THEN To(g, n) ELSE Nothing)
        /\ UNCHANGED <<gate, listed, user, home, known, role, up, jumps, faults, hurries, repeated>>
    BY DEF DbHandles, gateVars, centerVars, counters, incidentVars, histories
  <1>4. Mute(Nothing) /\ Only(To(g, n), {g}, "record")
    <2>1. Tag(n) = "record"
      BY TagRules
    <2> HIDE DEF n
    <2> QED
      BY <2>1, GetsRules DEF Mute, Only
  <1> HIDE DEF m, n
  <1> QED
    BY <1>2, <1>3, <1>4 DEF m

LEMMA BrokenTags ==
    ASSUME NEW c \in Seq(Msgs), NEW k \in 0..Len(c)
    PROVE  Tags(Broken(c, k)) \subseteq Tags(c) \cup {"closed"}
  <1> DEFINE d == SubSeq(c, 1, k)
  <1>1. /\ d \in Seq(Msgs) /\ Len(d) = k /\ k \in Nat
        /\ \A i \in 1..k : i \in 1..Len(c) /\ d[i] = c[i]
    OBVIOUS
  <1>2. Tags(d) \subseteq Tags(c)
    BY <1>1 DEF Tags
  <1>3. Tag(Say("closed")) = "closed"
    BY TagRules
  <1>4. Broken(c, k) = Append(d, Say("closed"))
    <2> DEFINE e == Say("closed")
    <2>1. e \in Msgs
      BY Messages
    <2> HIDE DEF e, d
    <2>2. d \o <<e>> = Append(d, e)
      BY <1>1, <2>1
    <2> QED
      BY <2>2 DEF Broken, d, e
  <1> HIDE DEF d
  <1>5. Tags(Append(d, Say("closed"))) = Tags(d) \cup {Tag(Say("closed"))}
    BY <1>1, TagsAppend
  <1> QED
    BY <1>2, <1>3, <1>4, <1>5

\* What faults do to the channels: they lose letters, and say that they broke.
Shaken == \A r \in Processes : \A s \in Peers[r] :
    Tags(wire'[r][s]) \subseteq Tags(wire[r][s]) \cup {"closed", "syn"}

LEMMA LinkFailsDoes ==
    ASSUME TypeOK, NEW l \in Links, LinkFails(l)
    PROVE  /\ Shaken /\ UNCHANGED <<gate, listed, user, home, known, role, jumps>>
           /\ l \in Fragile /\ up' = up \ {l}
           /\ \A r \in Processes : \A s \in Peers[r] : {r, s} # l => wire'[r][s] = wire[r][s]
  <1>1. \A r \in Processes : \A s \in Peers[r] : wire[r][s] \in Seq(Msgs)
    BY DEF TypeOK
  <1>2. PICK x \in Processes : \E y \in Peers[x] : l = {x, y}
    BY Ends
  <1>3. PICK y \in Peers[x] : l = {x, y}
    BY <1>2
  <1> DEFINE p == CHOOSE z \in l : TRUE
             q == CHOOSE z \in l : z # p
  <1>4. x # y /\ y \in Processes /\ x \in Peers[y]
    BY Ends
  <1>5. p \in l
    BY <1>3
  <1>6. q \in l /\ q # p
    <2>1. \E z \in l : z # p
      BY <1>3, <1>4, <1>5
    <2> QED
      BY <2>1
  <1>7. p \in Processes /\ q \in Processes /\ q \in Peers[p] /\ p \in Peers[q] /\ l = {p, q}
    BY <1>3, <1>4, <1>5, <1>6
  <1>8. \E i \in 0..Len(wire[p][q]), j \in 0..Len(wire[q][p]) :
          wire' = [wire EXCEPT ![p][q] = Broken(wire[p][q], i), ![q][p] = Broken(wire[q][p], j)]
    BY <1>6 DEF LinkFails
  <1> HIDE DEF p, q
  <1>9. PICK i \in 0..Len(wire[p][q]), j \in 0..Len(wire[q][p]) :
          wire' = [wire EXCEPT ![p][q] = Broken(wire[p][q], i), ![q][p] = Broken(wire[q][p], j)]
    BY <1>8
  <1>10. /\ wire'[p][q] = Broken(wire[p][q], i) /\ wire'[q][p] = Broken(wire[q][p], j)
         /\ \A r \in Processes : \A s \in Peers[r] : {r, s} # {p, q} => wire'[r][s] = wire[r][s]
    BY <1>6, <1>7, <1>9, SMTT(60) DEF TypeOK
  <1>11. /\ Tags(wire'[p][q]) \subseteq Tags(wire[p][q]) \cup {"closed"}
         /\ Tags(wire'[q][p]) \subseteq Tags(wire[q][p]) \cup {"closed"}
    BY <1>1, <1>7, <1>10, BrokenTags
  <1>12. ASSUME NEW r \in Processes, NEW s \in Peers[r]
         PROVE  Tags(wire'[r][s]) \subseteq Tags(wire[r][s]) \cup {"closed", "syn"}
    <2>1. CASE {r, s} # {p, q}
      BY <1>10, <2>1
    <2>2. CASE {r, s} = {p, q}
      <3>1. (r = p /\ s = q) \/ (r = q /\ s = p)
        BY <1>6, <2>2
      <3> QED
        BY <1>11, <3>1
    <2> QED
      BY <2>1, <2>2
  <1> QED
    BY <1>7, <1>10, <1>12 DEF LinkFails, Shaken, gateVars, centerVars, dataVars

LEMMA CrashDoes ==
    ASSUME TypeOK, NEW p \in Gates \cup Games, Crash(p)
    PROVE  /\ Shaken /\ UNCHANGED <<user, home, known, jumps>>
           /\ \A g \in Games : role'[g] = IF g = p THEN None ELSE role[g]
           /\ \A l \in up : l \in up' <=> p \notin l
           /\ up' \subseteq up
           /\ \A r \in Processes : \A s \in Peers[r] :
                /\ p \notin {r, s} \/ {r, s} \notin up => wire'[r][s] = wire[r][s]
                /\ s = p /\ {r, s} \in up => wire'[r][s] = <<>>
  <1>0. PICK sent \in Cuts(p) :
          wire' = [r \in Processes |-> [s \in Peers[r] |->
                    IF {r, s} \notin up THEN wire[r][s]
                    ELSE IF r = p THEN Broken(wire[r][s], sent[s])
                    ELSE IF s = p THEN <<>> ELSE wire[r][s]]]
    BY DEF Crash
  <1> DEFINE c(r, s) == IF {r, s} \notin up THEN wire[r][s]
                ELSE IF r = p THEN Broken(wire[r][s], sent[s])
                ELSE IF s = p THEN <<>> ELSE wire[r][s]
  <1>1. wire' = [r \in Processes |-> [s \in Peers[r] |-> c(r, s)]]
    BY <1>0
  <1>2. \A r \in Processes : \A s \in Peers[r] : wire'[r][s] = c(r, s)
    <2> HIDE DEF c
    <2> QED
      BY <1>1
  <1>3. \A r \in Processes : \A s \in Peers[r] : r # s
    BY Ends
  <1>4. ASSUME NEW r \in Processes, NEW s \in Peers[r]
        PROVE  Tags(wire'[r][s]) \subseteq Tags(wire[r][s]) \cup {"closed", "syn"}
    <2>1. wire[r][s] \in Seq(Msgs)
      BY DEF TypeOK
    <2>2. CASE r = p /\ {r, s} \in up
      <3>1. sent[s] \in 0..Len(wire[r][s])
        <4>1. Len(wire[r][s]) \in Nat
          BY <2>1
        <4>2. /\ sent \in [Peers[p] -> UNION {0..Len(wire[p][q]) : q \in Peers[p]}]
              /\ sent[s] <= Len(wire[p][s]) /\ s \in Peers[p]
          BY <2>2 DEF Cuts
        <4>3. sent[s] \in UNION {0..Len(wire[p][q]) : q \in Peers[p]}
          BY <4>2
        <4>4. PICK q \in Peers[p] : sent[s] \in 0..Len(wire[p][q])
          BY <4>3
        <4>5. Len(wire[p][q]) \in Nat
          BY <2>2 DEF TypeOK
        <4> QED
          BY <2>2, <4>1, <4>2, <4>4, <4>5
      <3>2. wire'[r][s] = Broken(wire[r][s], sent[s])
        BY <1>2, <2>2
      <3> QED
        BY <2>1, <3>1, <3>2, BrokenTags
    <2>3. CASE r # p \/ {r, s} \notin up
      <3>1. wire'[r][s] \in {wire[r][s], <<>>}
        BY <1>2, <2>3
      <3> QED
        BY <3>1, TagsEmpty
    <2> QED
      BY <2>2, <2>3
  <1>5. \A r \in Processes : \A s \in Peers[r] :
          /\ p \notin {r, s} \/ {r, s} \notin up => wire'[r][s] = wire[r][s]
          /\ s = p /\ {r, s} \in up => wire'[r][s] = <<>>
    BY <1>2, <1>3
  <1> QED
    BY <1>4, <1>5 DEF Crash, Shaken, centerVars

LEMMA LinkReturnsDoes ==
    ASSUME TypeOK, NEW l \in Links \ up, LinkReturns(l)
    PROVE  /\ Shaken /\ UNCHANGED <<gate, listed, user, home, known, role, jumps>>
           /\ up' = up \cup {l}
           /\ \A r \in Processes : \A s \in Peers[r] :
                /\ {r, s} = l => wire[r][s] = <<>> /\ "closed" \notin Tags(wire'[r][s])
                /\ {r, s} # l \/ r = "center" => wire'[r][s] = wire[r][s]
  <1> DEFINE c(r, s) == IF {r, s} = l /\ r \in Games /\ s = "center" THEN <<Say("syn")>>
                        ELSE wire[r][s]
  <1>1. wire' = [r \in Processes |-> [s \in Peers[r] |-> c(r, s)]]
    BY DEF LinkReturns
  <1>2. \A r \in Processes : \A s \in Peers[r] : wire'[r][s] = c(r, s)
    <2> HIDE DEF c
    <2> QED
      BY <1>1
  <1>3. \A r \in Processes : \A s \in Peers[r] : r # s
    BY Ends
  <1>4. Tags(<<Say("syn")>>) = {"syn"}
    <2> DEFINE n == Say("syn")
    <2>1. Tag(n) = "syn"
      BY TagRules
    <2> HIDE DEF n
    <2>2. Tags(<<n>>) = {Tag(n)}
      BY DEF Tags
    <2> QED
      BY <2>1, <2>2 DEF n
  <1>5. ASSUME NEW r \in Processes, NEW s \in Peers[r]
        PROVE  /\ Tags(wire'[r][s]) \subseteq Tags(wire[r][s]) \cup {"closed", "syn"}
               /\ {r, s} = l => wire[r][s] = <<>> /\ "closed" \notin Tags(wire'[r][s])
               /\ {r, s} # l \/ r = "center" => wire'[r][s] = wire[r][s]
    <2>1. wire'[r][s] = c(r, s)
      BY <1>2
    <2>2. {r, s} = l => wire[r][s] = <<>>
      <3>1. SUFFICES ASSUME {r, s} = l PROVE wire[r][s] = <<>>
        OBVIOUS
      <3>2. r \in l /\ s \in l \ {r}
        BY <1>3, <3>1
      <3> QED
        BY <3>2 DEF LinkReturns
    <2>3. "center" \notin Games
      BY Connections
    <2> QED
      BY <1>4, <2>1, <2>2, <2>3, TagsEmpty
  <1> QED
    BY <1>5 DEF LinkReturns, Shaken, gateVars, centerVars, dataVars, counters, incidentVars

----------------------------------------------------------------------------
(* Without a jump: every trace of the role is at the player's home, whose  *)
(* connection to center stands, whatever else fails.                       *)

\* Game g neither has the role nor will be asked to load it.
Vacant(g) == role[g] = None /\ Tags(wire["center"][g]) \cap {"reg_scene", "reg_jump"} = {}

Rooted == \A g \in Games : ~Vacant(g) => g = home /\ home \in known /\ {"center", g} \in up

\* When center hears that a game is gone, it is gone.
Parted == \A g \in Games : "closed" \in Tags(wire[g]["center"]) => {"center", g} \notin up

Stray == {"cross", "reg_jump", "entered_jump"}

\* Nothing on the wire is about a jump.
Plain == /\ \A p \in Processes : \A q \in Peers[p] \ {"db"} : Tags(wire[p][q]) \cap Stray = {}
         /\ \A g \in Games : role[g] # None => role[g].type # "jump"

AtRoot == Plain /\ Rooted /\ Parted

LEMMA RootedStays ==
    ASSUME Rooted, Parted, UNCHANGED <<home, known>>,
           \A g \in Games :
             /\ {"center", g} \in up' <=> {"center", g} \in up
             /\ Vacant(g) => Vacant(g)'
             /\ "closed" \in Tags(wire'[g]["center"]) => "closed" \in Tags(wire[g]["center"])
    PROVE  Rooted' /\ Parted'
  BY DEF Rooted, Parted

\* Sending what is not about a jump.
LEMMA PlainFlow ==
    ASSUME Plain, NEW p, NEW out,
           \A s : s # "db" => Gets(out, s) \cap Stray = {},
           \A r \in Processes : \A s \in Peers[r] :
             Tags(wire'[r][s]) \subseteq Tags(wire[r][s]) \cup TagPut(p, out, r, s),
           \A g \in Games : role'[g] # None => role'[g].type # "jump"
    PROVE  Plain'
  <1>1. ASSUME NEW r \in Processes, NEW s \in Peers[r] \ {"db"}
        PROVE  Tags(wire'[r][s]) \cap Stray = {}
    <2>1. TagPut(p, out, r, s) \cap Stray = {}
      BY DEF TagPut
    <2> QED
      BY <2>1 DEF Plain
  <1> QED
    BY <1>1 DEF Plain

LEMMA PlayerRoot ==
    ASSUME TypeOK, AtRoot, NEW a \in Gates, PlayerStep(a)
    PROVE  AtRoot'
  <1>1. PICK st, out : PlayerDeed(a, st, out)
    BY PlayerDoes
  <1>2. a \in Processes /\ "center" \in Processes /\ a # "center" /\ a \notin Games
        /\ \A g \in Games : g \in Processes /\ g \in Peers["center"] /\ "center" \in Peers[g]
    BY Connections
  <1>3. Send(a, out) /\ UNCHANGED <<home, known, up, role>>
    BY <1>1 DEF PlayerDeed, GateMoves, centerVars, dataVars
  <1>4. \A r \in Processes : \A s \in Peers[r] : Flow(wire[r][s], wire'[r][s], {}, TagPut(a, out, r, s))
    BY <1>2, <1>3, SendFlow
  <1>5. \A s : Gets(out, s) \subseteq {"reg", "ready", "OFFLINE", "LOGOUT"}
    BY <1>1 DEF PlayerDeed, Mute, Only
  <1>6. Plain'
    <2>1. \A s : Gets(out, s) \cap Stray = {}
      BY <1>5 DEF Stray
    <2>2. \A r \in Processes : \A s \in Peers[r] :
             Tags(wire'[r][s]) \subseteq Tags(wire[r][s]) \cup TagPut(a, out, r, s)
      BY <1>4 DEF Flow
    <2>3. \A g \in Games : role'[g] # None => role'[g].type # "jump"
      BY <1>3 DEF AtRoot, Plain
    <2> QED
      BY <2>1, <2>2, <2>3, PlainFlow DEF AtRoot
  <1>7. \A g \in Games : wire'["center"][g] = wire["center"][g] /\ wire'[g]["center"] = wire[g]["center"]
    BY <1>2, <1>4 DEF Flow, TagPut
  <1>8. Rooted' /\ Parted'
    <2>1. \A g \in Games : Vacant(g) => Vacant(g)'
      BY <1>3, <1>7 DEF Vacant
    <2> QED
      BY <1>3, <1>7, <2>1, RootedStays DEF AtRoot
  <1> QED
    BY <1>6, <1>8 DEF AtRoot

LEMMA GateRoot ==
    ASSUME TypeOK, AtRoot, NEW a \in Gates, GateStep(a)
    PROVE  AtRoot'
  <1>1. PICK q \in Peers[a] : \E st, lst, out : GateDeed(q, a, st, lst, out)
    BY GateDoes
  <1>2. PICK st, lst, out : GateDeed(q, a, st, lst, out)
    BY <1>1
  <1>3. a \in Processes /\ "center" \in Processes /\ a # "center" /\ a # "db" /\ a \notin Games
        /\ q \in Processes /\ a \in Peers[q]
        /\ \A g \in Games : g \in Processes /\ g \in Peers["center"] /\ "center" \in Peers[g]
    BY Connections, Ends
  <1>4. Hears(a, q) /\ Handle(q, a, out) /\ UNCHANGED <<home, known, up, role>>
    BY <1>2 DEF GateDeed, GateHandles, centerVars, dataVars
  <1>5. /\ \A r \in Processes : \A s \in Peers[r] :
             Flow(wire[r][s], wire'[r][s], TagTaken(a, q, r, s), TagPut(a, out, r, s))
        /\ Tag(Incoming(q, a)) \in Tags(wire[q][a])
    BY <1>3, <1>4, HandleFlow
  <1>6. Tag(Incoming(q, a)) \notin Stray
    BY <1>3, <1>5 DEF AtRoot, Plain
  <1>7. \A s : Gets(out, s) \subseteq {"OFFLINE", "ERROR"}
    BY <1>2, <1>6 DEF GateDeed, Mute, Only, Stray
  <1>8. Plain'
    <2>1. \A s : Gets(out, s) \cap Stray = {}
      BY <1>7 DEF Stray
    <2>2. \A r \in Processes : \A s \in Peers[r] :
             Tags(wire'[r][s]) \subseteq Tags(wire[r][s]) \cup TagPut(a, out, r, s)
      BY <1>5 DEF Flow
    <2>3. \A g \in Games : role'[g] # None => role'[g].type # "jump"
      BY <1>4 DEF AtRoot, Plain
    <2> QED
      BY <2>1, <2>2, <2>3, PlainFlow DEF AtRoot
  <1>9. \A g \in Games : wire'["center"][g] = wire["center"][g] /\ wire'[g]["center"] = wire[g]["center"]
    <2> TAKE g \in Games
    <2>1. /\ TagTaken(a, q, "center", g) = {} /\ TagPut(a, out, "center", g) = {}
          /\ TagTaken(a, q, g, "center") = {} /\ TagPut(a, out, g, "center") = {}
      BY <1>3 DEF TagPut, TagTaken
    <2> QED
      BY <1>3, <1>5, <2>1 DEF Flow
  <1>10. Rooted' /\ Parted'
    <2>1. \A g \in Games : Vacant(g) => Vacant(g)'
      BY <1>4, <1>9 DEF Vacant
    <2> QED
      BY <1>4, <1>9, <2>1, RootedStays DEF AtRoot
  <1> QED
    BY <1>8, <1>10 DEF AtRoot

LEMMA CenterRoot ==
    ASSUME TypeOK, AtRoot, CenterStep
    PROVE  AtRoot'
  <1>1. PICK q \in Peers["center"] : \E u, h, k, out : CenterDeed(q, u, h, k, out)
    BY CenterDoes
  <1>2. PICK u, h, k, out : CenterDeed(q, u, h, k, out)
    BY <1>1
  <1>3. "center" \in Processes /\ "center" # "db" /\ "center" \notin Games /\ "center" \notin Gates
        /\ q \in Processes /\ "center" \in Peers[q] /\ q # "center"
        /\ \A g \in Games : g \in Processes /\ g \in Peers["center"] /\ "center" \in Peers[g]
                            /\ g # "center" /\ g \notin Gates
    BY Connections, Ends
  <1>4. Hears("center", q) /\ Handle(q, "center", out) /\ UNCHANGED <<up, role>>
        /\ user' = u /\ home' = h /\ known' = k
    BY <1>2 DEF CenterDeed, CenterHandles, dataVars
  <1>5. /\ \A r \in Processes : \A s \in Peers[r] :
             Flow(wire[r][s], wire'[r][s], TagTaken("center", q, r, s), TagPut("center", out, r, s))
        /\ Tag(Incoming(q, "center")) \in Tags(wire[q]["center"])
    BY <1>3, <1>4, HandleFlow
  <1> DEFINE t == Tag(Incoming(q, "center"))
  <1>6. t \notin Stray
    BY <1>3, <1>5 DEF AtRoot, Plain
  <1>7. \A s : Gets(out, s) \subseteq {"relogin", "reg_scene", "ERROR"}
    BY <1>2, <1>6 DEF CenterDeed, Mute, Only, Sends, Stray
  <1>8. Plain'
    <2>1. \A s : Gets(out, s) \cap Stray = {}
      BY <1>7 DEF Stray
    <2>2. \A r \in Processes : \A s \in Peers[r] :
             Tags(wire'[r][s]) \subseteq Tags(wire[r][s]) \cup TagPut("center", out, r, s)
      BY <1>5 DEF Flow
    <2>3. \A g \in Games : role'[g] # None => role'[g].type # "jump"
      BY <1>4 DEF AtRoot, Plain
    <2> QED
      BY <2>1, <2>2, <2>3, PlainFlow DEF AtRoot
  <1>9. \A g \in Games :
          /\ Tags(wire'["center"][g]) \subseteq Tags(wire["center"][g]) \cup TagPut("center", out, "center", g)
          /\ Tags(wire'[g]["center"]) \subseteq Tags(wire[g]["center"])
    BY <1>3, <1>5 DEF Flow, TagPut
  <1>10. CASE \E g \in Games : Gets(out, g) \cap {"reg_scene", "reg_jump"} # {}
    <2>1. t = "reg" /\ h \in LoginScenes /\ k = known /\ user = None /\ Sends(out, h, "reg_scene", q)
      BY <1>2, <1>6, <1>10 DEF CenterDeed, Mute, Only, Sends, Stray
    <2>2. ASSUME NEW g \in Games, ~Vacant(g)'
          PROVE  g = h /\ h \in known /\ {"center", g} \in up
      <3>1. CASE Vacant(g)
        <4>1. TagPut("center", out, "center", g) # {}
          BY <1>4, <1>9, <2>2, <3>1 DEF Vacant
        <4>2. g = h /\ {"center", g} \in up
          BY <2>1, <4>1 DEF TagPut, Sends, Only
        <4>3. h \in known
          BY <2>1 DEF LoginScenes
        <4> QED
          BY <4>2, <4>3
      <3>2. CASE ~Vacant(g)
        BY <2>1, <3>2 DEF AtRoot, Rooted, LoginScenes
      <3> QED
        BY <3>1, <3>2
    <2>3. Rooted'
      BY <1>4, <2>1, <2>2 DEF Rooted
    <2>4. Parted'
      BY <1>4, <1>9 DEF AtRoot, Parted
    <2> QED
      BY <1>8, <2>3, <2>4 DEF AtRoot
  <1>11. CASE \A g \in Games : Gets(out, g) \cap {"reg_scene", "reg_jump"} = {}
    <2>1. \A g \in Games : Vacant(g) => Vacant(g)'
      BY <1>4, <1>9, <1>11 DEF Vacant, TagPut
    <2>2. h = home
      <3>1. h \in LoginScenes => h \in Games
        BY DEF LoginScenes, TypeOK
      <3>2. h # home => h \in LoginScenes /\ Sends(out, h, "reg_scene", q)
        BY <1>2, <1>6 DEF CenterDeed, Stray
      <3> QED
        BY <1>11, <3>1, <3>2 DEF Sends, Only
    <2>3. Parted'
      BY <1>4, <1>9 DEF AtRoot, Parted
    <2>4. \A g \in Games : ~Vacant(g) => g = home /\ home \in known /\ home \in k /\ {"center", g} \in up
      <3>1. known \subseteq k \/ (t = "closed" /\ k \in {known, known \ {q}} /\ q \in Games)
            \/ (t = "closed" /\ k \in {known, known \ {q}} /\ q \notin Games)
        BY <1>2 DEF CenterDeed
      <3>2. t = "closed" /\ q \in Games => {"center", q} \notin up
        BY <1>5 DEF AtRoot, Parted
      <3>3. known \subseteq Games
        BY DEF TypeOK
      <3> QED
        BY <3>1, <3>2, <3>3 DEF AtRoot, Rooted
    <2>5. Rooted'
      BY <1>4, <2>1, <2>2, <2>4 DEF Rooted
    <2> QED
      BY <1>8, <2>3, <2>5 DEF AtRoot
  <1> QED
    BY <1>10, <1>11

LEMMA GameRoot ==
    ASSUME TypeOK, AtRoot, NEW g \in Games, GameStep(g)
    PROVE  AtRoot'
  <1>1. /\ g \in Processes /\ "center" \in Processes /\ "db" \in Processes
        /\ g # "center" /\ g # "db" /\ "db" # "center" /\ g \notin Gates
        /\ \A x \in Games : x \in Processes /\ x \in Peers["center"] /\ "center" \in Peers[x]
                            /\ x \in Peers["db"] /\ "db" \in Peers[x] /\ x # "center" /\ x # "db"
        /\ "center" \notin Gates /\ "db" \notin Gates
        /\ Peers[g] = Gates \cup {"center", "db"}
    BY Connections
  <1>2. CASE \E q \in Peers[g] : \E r, out : GameDeed(q, g, r, out)
    <2>1. PICK q \in Peers[g] : \E r, out : GameDeed(q, g, r, out)
      BY <1>2
    <2>2. PICK r, out : GameDeed(q, g, r, out)
      BY <2>1
    <2> DEFINE t == Tag(Incoming(q, g))
    <2>3. Hears(g, q) /\ Handle(q, g, out) /\ UNCHANGED <<up, home, known>>
          /\ role'[g] = r /\ \A x \in Games \ {g} : role'[x] = role[x]
      BY <2>2 DEF GameDeed, GameHandles, centerVars, TypeOK
    <2>4. q \in Processes /\ g \in Peers[q]
      BY <1>1, Ends
    <2>5. /\ \A x \in Processes : \A s \in Peers[x] :
               Flow(wire[x][s], wire'[x][s], TagTaken(g, q, x, s), TagPut(g, out, x, s))
          /\ t \in Tags(wire[q][g])
      BY <1>1, <2>3, HandleFlow
    <2>6. t \notin Stray
      BY <1>1, <2>4, <2>5 DEF AtRoot, Plain
    <2>7. /\ Gets(out, "center") \subseteq {"entered", "LOGOUT", "ERROR"}
          /\ \A a \in Gates : Gets(out, a) \subseteq {"success", "ERROR"}
          /\ r # None => r.type # "jump"
      <3>1. role[g] # None => role[g].type # "jump"
        BY DEF AtRoot, Plain
      <3> QED
        BY <1>1, <2>2, <2>6, <3>1 DEF GameDeed, Only, Answers, Goes, Stray
    <2>8. Plain'
      <3>1. ASSUME NEW x \in Processes, NEW s \in Peers[x] \ {"db"}
            PROVE  TagPut(g, out, x, s) \cap Stray = {}
        <4>1. x = g => s \in Gates \cup {"center"}
          BY <1>1
        <4> QED
          BY <2>7, <4>1 DEF TagPut, Stray
      <3>2. \A x \in Processes : \A s \in Peers[x] :
               Tags(wire'[x][s]) \subseteq Tags(wire[x][s]) \cup TagPut(g, out, x, s)
        BY <2>5 DEF Flow
      <3>3. \A x \in Games : role'[x] # None => role'[x].type # "jump"
        BY <2>3, <2>7 DEF AtRoot, Plain
      <3>4. \A x \in Processes : \A s \in Peers[x] \ {"db"} : Tags(wire'[x][s]) \cap Stray = {}
        BY <3>1, <3>2 DEF AtRoot, Plain
      <3> QED
        BY <3>3, <3>4 DEF Plain
    <2>9. \A x \in Games :
            /\ Tags(wire'["center"][x]) \subseteq Tags(wire["center"][x])
            /\ "closed" \in Tags(wire'[x]["center"]) => "closed" \in Tags(wire[x]["center"])
      <3> TAKE x \in Games
      <3>1. /\ Tags(wire'["center"][x]) \subseteq Tags(wire["center"][x]) \cup TagPut(g, out, "center", x)
            /\ Tags(wire'[x]["center"]) \subseteq Tags(wire[x]["center"]) \cup TagPut(g, out, x, "center")
        BY <1>1, <2>5 DEF Flow
      <3> QED
        BY <1>1, <2>7, <3>1 DEF TagPut
    <2>10. ASSUME NEW x \in Games, Vacant(x)
           PROVE  Vacant(x)'
      <3>1. CASE x # g
        BY <2>3, <2>9, <2>10, <3>1 DEF Vacant
      <3>2. CASE x = g
        <4>1. role[g] = None /\ (q = "center" => t \notin {"reg_scene", "reg_jump"})
          BY <2>5, <2>10, <3>2 DEF Vacant
        <4>2. r = None
          BY <2>2, <4>1 DEF GameDeed, Plays
        <4> QED
          BY <2>3, <2>9, <2>10, <3>2, <4>2 DEF Vacant
      <3> QED
        BY <3>1, <3>2
    <2>11. Rooted' /\ Parted'
      BY <2>3, <2>9, <2>10, RootedStays DEF AtRoot
    <2> QED
      BY <2>8, <2>11 DEF AtRoot
  <1>3. CASE Hears("db", g) /\ DbHandles(g)
    <2>1. PICK out : /\ Handle(g, "db", out)
                     /\ \A s : Gets(out, s) \subseteq {"record"}
                     /\ UNCHANGED <<home, known, role, up>>
      BY <1>3, DbDoes DEF Mute, Only
    <2>2. \A x \in Processes : \A s \in Peers[x] :
            Flow(wire[x][s], wire'[x][s], TagTaken("db", g, x, s), TagPut("db", out, x, s))
      BY <1>1, <1>3, <2>1, HandleFlow
    <2>3. Plain'
      <3>1. \A s : Gets(out, s) \cap Stray = {}
        BY <2>1 DEF Stray
      <3>2. \A x \in Processes : \A s \in Peers[x] :
               Tags(wire'[x][s]) \subseteq Tags(wire[x][s]) \cup TagPut("db", out, x, s)
        BY <2>2 DEF Flow
      <3>3. \A x \in Games : role'[x] # None => role'[x].type # "jump"
        BY <2>1 DEF AtRoot, Plain
      <3> QED
        BY <3>1, <3>2, <3>3, PlainFlow DEF AtRoot
    <2>4. \A x \in Games : wire'["center"][x] = wire["center"][x] /\ wire'[x]["center"] = wire[x]["center"]
      BY <1>1, <2>2 DEF Flow, TagPut, TagTaken
    <2>5. \A x \in Games : Vacant(x) => Vacant(x)'
      BY <2>1, <2>4 DEF Vacant
    <2>6. Rooted' /\ Parted'
      BY <2>1, <2>4, <2>5, RootedStays DEF AtRoot
    <2> QED
      BY <2>3, <2>6 DEF AtRoot
  <1> QED
    BY <1>2, <1>3, GameDoes

\* What a game does on its own account, as long as it does not jump.
LEMMA OwnRoot ==
    ASSUME TypeOK, AtRoot, NEW g \in Games, jumps' = 0, Jump(g) \/ Play(g) \/ Autosave(g)
    PROVE  AtRoot'
  <1>1. /\ g \in Processes /\ "center" \in Processes /\ g # "center" /\ g # "db"
        /\ \A x \in Games : x \in Processes /\ x \in Peers["center"] /\ "center" \in Peers[x]
        /\ Peers[g] = Gates \cup {"center", "db"}
    BY Connections
  <1>2. CASE Play(g)
    <2>1. /\ UNCHANGED <<home, known, wire, up>>
          /\ Plays(g) /\ Goes(role'[g], role[g].st, role[g].gate, role[g].type)
          /\ \A h \in Games \ {g} : role'[h] = role[h]
      BY <1>2, PlayDoes
    <2>2. \A x \in Games : Vacant(x) => Vacant(x)'
      BY <2>1 DEF Vacant, Plays
    <2>3. Rooted' /\ Parted'
      BY <2>1, <2>2, RootedStays DEF AtRoot
    <2>4. Plain'
      BY <2>1 DEF AtRoot, Plain, Plays, Goes
    <2> QED
      BY <2>3, <2>4 DEF AtRoot
  <1>3. CASE Jump(g) \/ Autosave(g)
    <2>1. PICK out : OwnDeed(g, out)
      BY <1>3, OwnDoes
    <2>2. jumps \in Nat
      BY DEF TypeOK
    <2>3. /\ Send(g, out) /\ UNCHANGED <<home, known, role, up>>
          /\ Answers(out, {}, {}, "ERROR")
      BY <2>1, <2>2 DEF OwnDeed
    <2>4. \A x \in Processes : \A s \in Peers[x] :
            Flow(wire[x][s], wire'[x][s], {}, TagPut(g, out, x, s))
      BY <1>1, <2>3, SendFlow
    <2>5. \A x \in Processes : \A s \in Peers[x] \ {"db"} : wire'[x][s] = wire[x][s]
      <3> TAKE x \in Processes
      <3> TAKE s \in Peers[x] \ {"db"}
      <3>1. x = g => Gets(out, s) = {}
        BY <1>1, <2>3 DEF Answers
      <3>2. TagPut(g, out, x, s) = {}
        BY <3>1 DEF TagPut
      <3> QED
        BY <2>4, <3>2 DEF Flow
    <2>6. Plain'
      BY <2>3, <2>5 DEF AtRoot, Plain
    <2>7. \A x \in Games : wire'["center"][x] = wire["center"][x] /\ wire'[x]["center"] = wire[x]["center"]
      BY <1>1, <2>5, Connections
    <2>8. \A x \in Games : Vacant(x) => Vacant(x)'
      BY <2>3, <2>7 DEF Vacant
    <2>9. Rooted' /\ Parted'
      BY <2>3, <2>7, <2>8, RootedStays DEF AtRoot
    <2> QED
      BY <2>6, <2>9 DEF AtRoot
  <1> QED
    BY <1>2, <1>3

\* The connections of the games to center are among those that do not break
\* while both ends live.
Steady == \A g \in Games : {"center", g} \notin Fragile

LEMMA FaultRoot ==
    ASSUME Steady, TypeOK, AtRoot, Fault \/ \E l \in Links \ up : LinkReturns(l)
    PROVE  AtRoot'
  <1>1. /\ "center" \in Processes /\ "center" # "db" /\ "center" \notin Gates /\ "center" \notin Games
        /\ \A x \in Games : x \in Processes /\ x \in Peers["center"] /\ "center" \in Peers[x]
                            /\ x # "center" /\ x # "db"
        /\ Peers["center"] = Gates \cup Games
    BY Connections
  <1>2. \A x \in Games : {"center", x} = {x, "center"}
    OBVIOUS
  <1>3. ASSUME Shaken, \A g \in Games : role'[g] \in {role[g], None}
        PROVE  Plain'
    <2>1. {"closed", "syn"} \cap Stray = {}
      BY DEF Stray
    <2>2. \A r \in Processes : \A s \in Peers[r] \ {"db"} : Tags(wire'[r][s]) \cap Stray = {}
      BY <1>3, <2>1 DEF Shaken, AtRoot, Plain
    <2>3. \A g \in Games : role'[g] # None => role'[g].type # "jump"
      BY <1>3 DEF AtRoot, Plain
    <2> QED
      BY <2>2, <2>3 DEF Plain
  <1>4. CASE CenterLosesDb
    <2> DEFINE out == Each(Gates \cup Games, Say("kick_all"))
    <2>1. Send("center", out) /\ UNCHANGED <<home, known, role, up>>
      BY <1>4 DEF CenterLosesDb, dataVars
    <2>2. \A s : Gets(out, s) \subseteq {"kick_all"}
      BY GetsRules, TagRules
    <2> HIDE DEF out
    <2>3. \A x \in Processes : \A s \in Peers[x] :
            Flow(wire[x][s], wire'[x][s], {}, TagPut("center", out, x, s))
      BY <1>1, <2>1, SendFlow
    <2>4. Plain'
      <3>1. \A s : Gets(out, s) \cap Stray = {}
        BY <2>2 DEF Stray
      <3>2. \A x \in Processes : \A s \in Peers[x] :
               Tags(wire'[x][s]) \subseteq Tags(wire[x][s]) \cup TagPut("center", out, x, s)
        BY <2>3 DEF Flow
      <3>3. \A g \in Games : role'[g] # None => role'[g].type # "jump"
        BY <2>1 DEF AtRoot, Plain
      <3> QED
        BY <3>1, <3>2, <3>3, PlainFlow DEF AtRoot
    <2>5. \A x \in Games : /\ Tags(wire'["center"][x]) \subseteq Tags(wire["center"][x]) \cup {"kick_all"}
                           /\ wire'[x]["center"] = wire[x]["center"]
      BY <1>1, <2>2, <2>3 DEF Flow, TagPut
    <2>6. \A x \in Games : Vacant(x) => Vacant(x)'
      BY <2>1, <2>5 DEF Vacant
    <2>7. Rooted' /\ Parted'
      BY <2>1, <2>5, <2>6, RootedStays DEF AtRoot
    <2> QED
      BY <2>4, <2>7 DEF AtRoot
  <1>5. ASSUME NEW l \in Links, LinkFails(l)
        PROVE  AtRoot'
    <2>1. /\ Shaken /\ UNCHANGED <<home, known, role>> /\ up' = up \ {l}
          /\ \A g \in Games : {"center", g} # l
          /\ \A r \in Processes : \A s \in Peers[r] : {r, s} # l => wire'[r][s] = wire[r][s]
      BY <1>5, LinkFailsDoes DEF Steady
    <2>2. \A x \in Games : wire'["center"][x] = wire["center"][x] /\ wire'[x]["center"] = wire[x]["center"]
      BY <1>1, <1>2, <2>1
    <2>3. \A x \in Games : Vacant(x) => Vacant(x)'
      BY <2>1, <2>2 DEF Vacant
    <2>4. Rooted' /\ Parted'
      BY <2>1, <2>2, <2>3, RootedStays DEF AtRoot
    <2> QED
      BY <1>3, <2>1, <2>4 DEF AtRoot
  <1>6. ASSUME NEW p \in Gates \cup Games, Crash(p)
        PROVE  AtRoot'
    <2>1. /\ Shaken /\ UNCHANGED <<home, known>> /\ up' \subseteq up
          /\ \A g \in Games : role'[g] = IF g = p THEN None ELSE role[g]
          /\ \A l \in up : l \in up' <=> p \notin l
          /\ \A r \in Processes : \A s \in Peers[r] :
               /\ p \notin {r, s} \/ {r, s} \notin up => wire'[r][s] = wire[r][s]
               /\ s = p /\ {r, s} \in up => wire'[r][s] = <<>>
      BY <1>6, CrashDoes
    <2>2. p # "center"
      BY <1>1, <1>6
    <2>3. ASSUME NEW x \in Games, x # p
          PROVE  /\ wire'["center"][x] = wire["center"][x] /\ wire'[x]["center"] = wire[x]["center"]
                 /\ {"center", x} \in up' <=> {"center", x} \in up
                 /\ role'[x] = role[x]
      <3>1. p \notin {"center", x} /\ p \notin {x, "center"}
        BY <2>2, <2>3
      <3> QED
        BY <1>1, <2>1, <2>3, <3>1
    <2>4. ASSUME p \in Games
          PROVE  Vacant(p)' /\ {"center", p} \notin up'
      <3>1. {"center", p} \notin up'
        BY <2>1
      <3>2. role'[p] = None
        BY <2>1, <2>4
      <3>3. CASE {"center", p} \in up
        BY <1>1, <2>1, <2>4, <3>2, <3>3, TagsEmpty DEF Vacant
      <3>4. CASE {"center", p} \notin up
        <4>1. Vacant(p)
          BY <2>4, <3>4 DEF AtRoot, Rooted
        <4>2. wire'["center"][p] = wire["center"][p]
          BY <1>1, <2>1, <2>4, <3>4
        <4> QED
          BY <3>1, <3>2, <4>1, <4>2 DEF Vacant
      <3> QED
        BY <3>1, <3>3, <3>4
    <2>5. \A x \in Games : x # p => (Vacant(x)' <=> Vacant(x))
      BY <2>3 DEF Vacant
    <2>6. Rooted'
      BY <2>1, <2>3, <2>4, <2>5 DEF AtRoot, Rooted
    <2>7. Parted'
      BY <2>3, <2>4 DEF AtRoot, Parted
    <2> QED
      BY <1>3, <2>1, <2>6, <2>7 DEF AtRoot
  <1>7. ASSUME NEW l \in Links \ up, LinkReturns(l)
        PROVE  AtRoot'
    <2>1. /\ Shaken /\ UNCHANGED <<home, known, role>> /\ up' = up \cup {l}
          /\ \A r \in Processes : \A s \in Peers[r] :
                /\ {r, s} = l => wire[r][s] = <<>> /\ "closed" \notin Tags(wire'[r][s])
                /\ {r, s} # l \/ r = "center" => wire'[r][s] = wire[r][s]
      BY <1>7, LinkReturnsDoes
    <2>2. \A x \in Games : wire'["center"][x] = wire["center"][x]
      BY <1>1, <2>1
    <2>3. \A x \in Games : Vacant(x) => Vacant(x)'
      BY <2>1, <2>2 DEF Vacant
    <2>4. Rooted'
      BY <2>1, <2>3 DEF AtRoot, Rooted
    <2>5. ASSUME NEW x \in Games, "closed" \in Tags(wire'[x]["center"])
          PROVE  {"center", x} \notin up'
      <3>1. {"center", x} # l /\ wire'[x]["center"] = wire[x]["center"]
        BY <1>1, <1>2, <2>1, <2>5
      <3> QED
        BY <2>1, <2>5, <3>1 DEF AtRoot, Parted
    <2>6. Parted'
      BY <2>5 DEF Parted
    <2> QED
      BY <1>3, <2>1, <2>4, <2>6 DEF AtRoot
  <1> QED
    BY <1>4, <1>5, <1>6, <1>7 DEF Fault

LEMMA InitRoot == Init => AtRoot
  <1> SUFFICES ASSUME Init PROVE AtRoot
    OBVIOUS
  <1>1. \A p \in Processes : \A q \in Peers[p] : wire[p][q] = <<>> /\ Tags(wire[p][q]) = {}
    BY TagsEmpty DEF Init
  <1>2. \A g \in Games : role[g] = None /\ Tags(wire["center"][g]) = {} /\ Tags(wire[g]["center"]) = {}
    <2> TAKE g \in Games
    <2>1. /\ "center" \in Processes /\ g \in Peers["center"]
          /\ g \in Processes /\ "center" \in Peers[g]
      BY Connections
    <2> QED
      BY <1>1, <2>1 DEF Init
  <1> QED
    BY <1>1, <1>2 DEF AtRoot, Plain, Rooted, Parted, Vacant

\* No step takes a jump back.
LEMMA JumpsRise ==
    ASSUME TypeOK, [Next]_vars
    PROVE  jumps' \in {jumps, jumps + 1} /\ (jumps' = jumps + 1 => \E g \in Games : Jump(g))
  <1>1. \A a \in Gates : PlayerStep(a) => jumps' = jumps
    BY DEF PlayerStep, Arrive, LoginGame, Ready, Leave, Expire, MsgBomb, GateDrops, GateMoves
  <1>2. \A a \in Gates : GateStep(a) => jumps' = jumps
    BY DEF GateStep, GateCleared, GateHearsError, GateHearsSuccess, GateHearsCross, GateLosesGame,
       GateHandles, counters, incidentVars
  <1>3. CenterStep => jumps' = jumps
    BY DEF CenterStep, CenterRegs, CenterCrosses, CenterLosesGate, CenterUnregs, CenterEntered,
       CenterLosesGame, CenterLearns, CenterHandles, counters, incidentVars
  <1>4. \A g \in Games : GameStep(g) => jumps' = jumps
    BY DEF GameStep, GameRegs, GameRelogs, GameClears, GameLoads, GameLosesDb, GameUnregs,
       GameReady, GameLosesGate, DbHandles, Refuse, GameHandles, counters, incidentVars
  <1>5. \A g \in Games : Play(g) \/ Autosave(g) => jumps' = jumps
    BY DEF Play, Autosave, counters, incidentVars
  <1>6. \A g \in Games : Jump(g) => jumps' = jumps + 1
    BY DEF Jump
  <1>7. \A l \in Links : LinkReturns(l) => jumps' = jumps
    BY DEF LinkReturns, counters, incidentVars
  <1>8. Fault => jumps' = jumps
    BY DEF Fault, CenterLosesDb, LinkFails, Crash
  <1>9. UNCHANGED vars => jumps' = jumps
    BY DEF vars, counters, incidentVars
  <1>10. jumps \in Nat
    BY DEF TypeOK
  <1> QED
    BY <1>1, <1>2, <1>3, <1>4, <1>5, <1>6, <1>7, <1>8, <1>9, <1>10 DEF Next

LEMMA NextRoot ==
    ASSUME Steady, TypeOK, jumps = 0 => AtRoot, [Next]_vars, jumps' = 0
    PROVE  AtRoot'
  <1>1. jumps \in Nat
    BY DEF TypeOK
  <1>2. AtRoot
    BY <1>1, JumpsRise
  <1>3. CASE UNCHANGED vars
    <2>1. UNCHANGED <<user, home, known, role, wire, up>>
      BY <1>3 DEF vars, centerVars, dataVars
    <2> QED
      BY <1>2, <2>1 DEF AtRoot, Plain, Rooted, Parted, Vacant
  <1> QED
    BY <1>2, <1>3, PlayerRoot, GateRoot, CenterRoot, GameRoot, OwnRoot, FaultRoot DEF Next

----------------------------------------------------------------------------
(* Before a jump, as long as nothing fails: a login of the player is at one *)
(* place at a time.  It passes from the gate's request to center's call,   *)
(* to the record that the game waits for, to the game's answer, to the     *)
(* gate's SCENE; or it ends with an error.                                 *)

Kills == {"LOGOUT", "ERROR"}
CallTags == {"reg_scene", "relogin"}

\* A letter with a tag of K is on its way, whoever it is for; not counting what
\* the games write to the database.
Somewhere(K) == \E p \in Processes : \E q \in Peers[p] \ {"db"} : Tags(wire[p][q]) \cap K # {}

\* The places where a login of gate x at game h can be.
Reg(x) == "reg" \in Tags(wire[x]["center"])
Call(h) == Tags(wire["center"][h]) \cap CallTags # {}
Rec(h) == "load" \in Tags(wire[h]["db"]) \/ "record" \in Tags(wire["db"][h])
Load(h) == Loading(h) \/ Rec(h)
Win(h, x) == "success" \in Tags(wire[h][x])
In(x) == gate[x] = "SCENE"
Err == Somewhere(Kills)

\* Game h tells center that the player has come.
Ent(h) == "entered" \in Tags(wire[h]["center"])

\* A login is at one of them,
OnePlace(x, h) ==
    /\ Reg(x) => ~Call(h) /\ ~Load(h) /\ ~Win(h, x) /\ ~In(x) /\ ~Err
    /\ Call(h) => ~Load(h) /\ ~Win(h, x) /\ ~In(x) /\ ~Err
    /\ Load(h) => ~Win(h, x) /\ ~In(x) /\ ~Err
    /\ Win(h, x) => ~In(x) /\ ~Err
    /\ In(x) => ~Err

\* and there once.
OneLetter(x, h) ==
    /\ Never(wire[x]["center"], "reg", "reg")
    /\ \A s, t \in CallTags : Never(wire["center"][h], s, t)
    /\ Never(wire[h][x], "success", "success")
    /\ Never(wire[h]["db"], "load", "load") /\ Never(wire["db"][h], "record", "record")
    /\ "load" \in Tags(wire[h]["db"]) => "record" \notin Tags(wire["db"][h])

\* Center and the game know of it, and a player in a scene is online.
Noted(x, h) ==
    /\ Call(h) \/ Load(h) \/ Win(h, x) \/ In(x) \/ Ent(h) => user # None /\ user.gate = x
    /\ Load(h) => Loading(h) /\ role[h].gate = x
    /\ Win(h, x) \/ In(x) => /\ Plays(h) /\ role[h].gate = x
                             /\ user.on = "ONLINE" \/ Ent(h)
    /\ In(x) => h \in listed[x]

\* Nobody told it to go, or will without telling it.
Welcome(x, h) ==
    /\ gate[x] # "WAIT"
    /\ ~Somewhere({"LOGOUT"})
    /\ \A q \in Peers[x] : "ERROR" \notin Tags(wire[x][q])
    /\ \A k \in Kills : Never(wire[h]["center"], k, "entered")
    /\ "OFFLINE" \notin Tags(wire[h]["center"]) /\ "OFFLINE" \notin Tags(wire["center"][h])
    /\ Call(h) \/ Load(h) \/ Win(h, x) \/ In(x) => "OFFLINE" \notin Tags(wire[x]["center"])
    /\ Never(wire[x]["center"], "reg", "OFFLINE")

LoggedIn(x, h) == OnePlace(x, h) /\ OneLetter(x, h) /\ Noted(x, h) /\ Welcome(x, h)

Turns == \A x \in Gates, h \in Games : gate[x] # "NONE" /\ h = home => LoggedIn(x, h)

\* Somebody sends.
LEMMA SomewhereFlow ==
    ASSUME NEW p, NEW out, NEW K,
           \A r \in Processes : \A s \in Peers[r] :
             Tags(wire'[r][s]) \subseteq Tags(wire[r][s]) \cup TagPut(p, out, r, s),
           Somewhere(K)'
    PROVE  Somewhere(K) \/ \E s \in Peers[p] \ {"db"} : Gets(out, s) \cap K # {}
  <1>1. PICK r \in Processes : \E s \in Peers[r] \ {"db"} : Tags(wire'[r][s]) \cap K # {}
    BY DEF Somewhere
  <1>2. PICK s \in Peers[r] \ {"db"} : Tags(wire'[r][s]) \cap K # {}
    BY <1>1
  <1>3. PICK t \in K : t \in Tags(wire'[r][s])
    BY <1>2
  <1>4. t \in Tags(wire[r][s]) \/ t \in TagPut(p, out, r, s)
    BY <1>3
  <1>5. CASE t \in Tags(wire[r][s])
    BY <1>3, <1>5 DEF Somewhere
  <1>6. CASE t \in TagPut(p, out, r, s)
    BY <1>3, <1>6 DEF TagPut
  <1> QED
    BY <1>4, <1>5, <1>6

\* Letters and their tags.
LEMMA TagLetters ==
    ASSUME NEW c \in Seq(Msgs)
    PROVE  /\ \A t \in Tags(c) : \E m \in Letters(c) : Tag(m) = t /\ m \in Msgs
           /\ \A m \in Letters(c) : Tag(m) \in Tags(c) /\ m \in Msgs
  <1>1. \A i \in 1..Len(c) : c[i] \in Msgs
    OBVIOUS
  <1> QED
    BY <1>1 DEF Tags, Letters

LEMMA Channels ==
    ASSUME TypeOK
    PROVE  \A p \in Processes : \A q \in Peers[p] : wire[p][q] \in Seq(Msgs)
  BY DEF TypeOK

LEMMA AskedTags ==
    ASSUME TypeOK
    PROVE  \A g \in Games : Asked(g) <=> "load" \in Tags(wire[g]["db"]) \/ "record" \in Tags(wire["db"][g])
  <1> TAKE g \in Games
  <1>1. wire[g]["db"] \in Seq(Msgs) /\ wire["db"][g] \in Seq(Msgs)
    BY Channels, Connections
  <1>2. \A m \in Msgs : (m.kind = "load" <=> Tag(m) = "load") /\ (m.kind = "record" <=> Tag(m) = "record")
    BY TagMeans
  <1> QED
    BY <1>1, <1>2, TagLetters DEF Asked

\* No login is under way.
LEMMA NotUnderWay ==
    ASSUME TypeOK, ~UnderWay
    PROVE  /\ \A g \in Games : ~Loading(g)
           /\ \A p \in Processes : \A q \in Peers[p] :
                Tags(wire[p][q]) \cap {"reg", "reg_scene", "reg_jump", "relogin", "success", "ERROR"} = {}
  <1>1. ASSUME NEW p \in Processes, NEW q \in Peers[p], NEW i \in 1..Len(wire[p][q]),
               Tag(wire[p][q][i]) \in {"reg", "reg_scene", "reg_jump", "relogin", "success", "ERROR"}
        PROVE  FALSE
    <2> DEFINE m == wire[p][q][i]
    <2>1. wire[p][q] \in Seq(Msgs)
      BY Channels
    <2>2. m \in Msgs /\ i \in DOMAIN wire[p][q]
      BY <2>1
    <2>3. m.kind \in {"reg", "reg_scene", "relogin", "success"} \/ (m.kind = "unreg" /\ m.code = "ERROR")
      BY <1>1, <2>2, TagMeans DEF Codes
    <2>4. m.kind = "unreg" /\ m.code = "ERROR" => m = UnregMsg("ERROR")
      BY <2>2 DEF Msgs, UnregMsg
    <2> QED
      BY <2>2, <2>3, <2>4 DEF UnderWay
  <1>2. \A g \in Games : ~Loading(g)
    BY DEF UnderWay, Loading
  <1> QED
    BY <1>1, <1>2 DEF Tags

\* What a session at gate x means for the other gates, in tags.
LEMMA SessionTags ==
    ASSUME TypeOK, Answerable, NEW x \in Gates, gate[x] # "NONE"
    PROVE  /\ \A b \in Gates \ {x} :
                /\ gate[b] = "NONE"
                /\ \A q \in Peers[b] : Tags(wire[b][q]) = {}
                /\ \A g \in Games : "success" \notin Tags(wire[g][b])
           /\ user # None /\ user.gate # x =>
                /\ gate[x] \notin {"SCENE", "WAIT"}
                /\ "cross" \notin Tags(wire[x]["center"])
                /\ \A g \in Games :
                     /\ "success" \notin Tags(wire[g][x])
                     /\ Tags(wire["center"][g]) \cap {"reg_scene", "reg_jump", "relogin"} = {}
                     /\ ~Asked(g)
           /\ \A g \in Games : Loading(g) => Asked(g) /\ role[g].gate = x
           /\ \A g \in Games : Hears(g, "center") /\
                Tag(Incoming("center", g)) \in {"reg_scene", "reg_jump", "relogin"}
                  => Incoming("center", g).gate = x
  <1>1. Session(x)
    BY DEF Answerable
  <1>2. /\ x \in Processes /\ "center" \in Processes /\ "center" \in Peers[x]
        /\ \A b \in Gates : b \in Processes
        /\ \A g \in Games : /\ g \in Processes /\ g \in Peers["center"] /\ "center" \in Peers[g]
                            /\ \A b \in Gates : b \in Peers[g]
    BY Connections
  <1>3. \A p \in Processes : \A q \in Peers[p] : wire[p][q] \in Seq(Msgs)
    BY Channels
  <1>4. ASSUME NEW p \in Processes, NEW q \in Peers[p], NEW K,
               \A m \in Letters(wire[p][q]) : m \in Msgs => Tag(m) \notin K
        PROVE  Tags(wire[p][q]) \cap K = {}
    <2>1. \A t \in Tags(wire[p][q]) : \E m \in Letters(wire[p][q]) : Tag(m) = t /\ m \in Msgs
      BY <1>3, TagLetters
    <2> QED
      BY <1>4, <2>1
  <1>5. \A m \in Msgs : /\ m.kind = "success" <=> Tag(m) = "success"
                        /\ m.kind = "cross" <=> Tag(m) = "cross"
                        /\ m.kind \in {"reg_scene", "relogin"} <=> Tag(m) \in {"reg_scene", "reg_jump", "relogin"}
    BY TagMeans
  <1>6. ASSUME NEW b \in Gates \ {x}
        PROVE  /\ gate[b] = "NONE"
               /\ \A q \in Peers[b] : Tags(wire[b][q]) = {}
               /\ \A g \in Games : "success" \notin Tags(wire[g][b])
    <2>1. gate[b] = "NONE" /\ \A q \in Peers[b] : wire[b][q] = <<>>
      BY <1>1 DEF Session
    <2>2. ASSUME NEW g \in Games
          PROVE  "success" \notin Tags(wire[g][b])
      <3>1. \A m \in Letters(wire[g][b]) : m \in Msgs => Tag(m) \notin {"success"}
        BY <1>1, <1>5 DEF Session
      <3>2. Tags(wire[g][b]) \cap {"success"} = {}
        BY <1>2, <1>4, <3>1
      <3> QED
        BY <3>2
    <2> QED
      BY <2>1, <2>2, TagsEmpty
  <1>7. ASSUME user # None, user.gate # x
        PROVE  /\ gate[x] \notin {"SCENE", "WAIT"}
               /\ "cross" \notin Tags(wire[x]["center"])
               /\ \A g \in Games :
                     /\ "success" \notin Tags(wire[g][x])
                     /\ Tags(wire["center"][g]) \cap {"reg_scene", "reg_jump", "relogin"} = {}
                     /\ ~Asked(g)
    <2>1. Elsewhere(x)
      BY <1>1, <1>7 DEF Session
    <2>2. Tags(wire[x]["center"]) \cap {"cross"} = {}
      <3>1. \A m \in Letters(wire[x]["center"]) : m \in Msgs => Tag(m) \notin {"cross"}
        BY <1>5, <2>1 DEF Elsewhere
      <3> QED
        BY <1>2, <1>4, <3>1
    <2>3. ASSUME NEW g \in Games
          PROVE  /\ Tags(wire[g][x]) \cap {"success"} = {}
                 /\ Tags(wire["center"][g]) \cap {"reg_scene", "reg_jump", "relogin"} = {}
      <3>1. \A m \in Letters(wire[g][x]) : m \in Msgs => Tag(m) \notin {"success"}
        BY <1>5, <2>1 DEF Elsewhere
      <3>2. \A m \in Letters(wire["center"][g]) : m \in Msgs => Tag(m) \notin {"reg_scene", "reg_jump", "relogin"}
        BY <1>5, <2>1 DEF Elsewhere
      <3> QED
        BY <1>2, <1>4, <3>1, <3>2
    <2> QED
      BY <2>1, <2>2, <2>3 DEF Elsewhere
  <1>8. \A g \in Games : Loading(g) => Asked(g) /\ role[g].gate = x
    BY <1>1 DEF Answerable, Session, Loading
  <1>9. ASSUME NEW g \in Games, Hears(g, "center"),
               Tag(Incoming("center", g)) \in {"reg_scene", "reg_jump", "relogin"}
        PROVE  Incoming("center", g).gate = x
    <2>1. Incoming("center", g) \in Msgs
      BY <1>2, <1>9, WireTypes, HearTypes DEF TypeOK
    <2>2. wire["center"][g] \in Seq(Msgs) /\ wire["center"][g] # <<>>
          /\ Incoming("center", g) = Head(wire["center"][g])
      BY <1>2, <1>3, <1>9 DEF Hears, Incoming
    <2>3. Incoming("center", g) \in Letters(wire["center"][g])
      BY <2>2, LettersTail
    <2> QED
      BY <1>1, <1>5, <1>9, <2>1, <2>3 DEF Session
  <1> QED
    BY <1>6, <1>7, <1>8, <1>9

\* Who says what at home, in tags.
LEMMA HomeTags ==
    ASSUME TypeOK, AtHome
    PROVE  /\ home \in Games
           /\ \A a \in Gates : /\ Tags(wire[a]["center"]) \subseteq {"reg"} \cup Codes
                               /\ Tags(wire["center"][a]) \subseteq Codes
                               /\ \A g \in Games : Tags(wire[a][g]) \subseteq {"ready"} \cup Codes
                               /\ \A g \in Games : Tags(wire[g][a]) \subseteq {"success"} \cup Codes
           /\ \A g \in Games : /\ Tags(wire["center"][g]) \subseteq CallTags \cup Codes
                               /\ Tags(wire[g]["center"]) \subseteq {"entered"} \cup Codes
                               /\ Tags(wire[g]["db"]) \subseteq {"save", "load"}
                               /\ Tags(wire["db"][g]) \subseteq {"record"}
           /\ \A g \in Games \ {home} :
                /\ Tags(wire["center"][g]) = {} /\ Tags(wire[g]["center"]) = {}
                /\ Tags(wire[g]["db"]) = {} /\ Tags(wire["db"][g]) = {}
                /\ \A a \in Gates : Tags(wire[a][g]) = {} /\ Tags(wire[g][a]) = {}
  <1>1. home \in Games
    BY DEF TypeOK
  <1>2. /\ \A a \in Gates : a \in Processes /\ "center" \in Peers[a] /\ a \in Peers["center"]
        /\ \A g \in Games : /\ g \in Processes /\ "center" \in Peers[g] /\ "db" \in Peers[g]
                            /\ g \in Peers["center"] /\ g \in Peers["db"]
                            /\ \A a \in Gates : a \in Peers[g] /\ g \in Peers[a]
        /\ "center" \in Processes /\ "db" \in Processes
    BY Connections
  <1>3. ASSUME NEW p \in Processes, NEW q \in Peers[p], NEW K,
               \A m \in Msgs : Says(home, p, q, m) => Tag(m) \in K
        PROVE  Tags(wire[p][q]) \subseteq K
    <2>1. wire[p][q] \in Seq(Said(home)[p][q]) /\ q \in Processes
      BY Ends DEF AtHome, Fits
    <2>2. \A i \in 1..Len(wire[p][q]) : wire[p][q][i] \in Said(home)[p][q]
      BY <2>1
    <2>3. \A m \in Said(home)[p][q] : m \in Msgs /\ Says(home, p, q, m)
      BY <2>1, SaidThen
    <2> QED
      BY <1>3, <2>2, <2>3 DEF Tags
  <1>4. \A m \in Msgs :
          /\ m.kind = "unreg" <=> Tag(m) \in Codes
          /\ \A k \in {"reg", "success", "ready", "load", "relogin", "save", "record"} : m.kind = k <=> Tag(m) = k
          /\ m.kind = "reg_scene" /\ m.type = "login" => Tag(m) = "reg_scene"
          /\ m.kind = "entered" /\ m.type # "jump" => Tag(m) = "entered"
    BY TagMeans
  <1>5. ASSUME NEW a \in Gates
        PROVE  /\ Tags(wire[a]["center"]) \subseteq {"reg"} \cup Codes
               /\ Tags(wire["center"][a]) \subseteq Codes
               /\ \A g \in Games : Tags(wire[a][g]) \subseteq IF g = home THEN {"ready"} \cup Codes ELSE {}
               /\ \A g \in Games : Tags(wire[g][a]) \subseteq IF g = home THEN {"success"} \cup Codes ELSE {}
    <2>1. \A m \in Msgs : Says(home, a, "center", m) => Tag(m) \in {"reg"} \cup Codes
      BY <1>1, <1>4, WhoSays
    <2>2. \A m \in Msgs : Says(home, "center", a, m) => Tag(m) \in Codes
      BY <1>1, <1>4, WhoSays
    <2>3. \A g \in Games : \A m \in Msgs : Says(home, a, g, m)
            => Tag(m) \in IF g = home THEN {"ready"} \cup Codes ELSE {}
      BY <1>1, <1>4, WhoSays
    <2>4. \A g \in Games : \A m \in Msgs : Says(home, g, a, m)
            => Tag(m) \in IF g = home THEN {"success"} \cup Codes ELSE {}
      BY <1>1, <1>4, WhoSays
    <2>5. Tags(wire[a]["center"]) \subseteq {"reg"} \cup Codes /\ Tags(wire["center"][a]) \subseteq Codes
      BY <1>2, <1>3, <2>1, <2>2
    <2>6. ASSUME NEW g \in Games
          PROVE  /\ Tags(wire[a][g]) \subseteq IF g = home THEN {"ready"} \cup Codes ELSE {}
                 /\ Tags(wire[g][a]) \subseteq IF g = home THEN {"success"} \cup Codes ELSE {}
      <3> DEFINE K1 == IF g = home THEN {"ready"} \cup Codes ELSE {}
                 K2 == IF g = home THEN {"success"} \cup Codes ELSE {}
      <3>1. \A m \in Msgs : (Says(home, a, g, m) => Tag(m) \in K1) /\ (Says(home, g, a, m) => Tag(m) \in K2)
        BY <2>3, <2>4
      <3>2. a \in Processes /\ g \in Peers[a] /\ g \in Processes /\ a \in Peers[g]
        BY <1>2
      <3> HIDE DEF K1, K2
      <3>3. Tags(wire[a][g]) \subseteq K1
        BY <1>3, <3>1, <3>2
      <3>4. Tags(wire[g][a]) \subseteq K2
        BY <1>3, <3>1, <3>2
      <3> QED
        BY <3>3, <3>4 DEF K1, K2
    <2> QED
      BY <2>5, <2>6
  <1>6. ASSUME NEW g \in Games
        PROVE  /\ Tags(wire["center"][g]) \subseteq IF g = home THEN CallTags \cup Codes ELSE {}
               /\ Tags(wire[g]["center"]) \subseteq IF g = home THEN {"entered"} \cup Codes ELSE {}
               /\ Tags(wire[g]["db"]) \subseteq IF g = home THEN {"save", "load"} ELSE {}
               /\ Tags(wire["db"][g]) \subseteq IF g = home THEN {"record"} ELSE {}
    <2>1. \A m \in Msgs : Says(home, "center", g, m) => Tag(m) \in IF g = home THEN CallTags \cup Codes ELSE {}
      BY <1>1, <1>4, WhoSays DEF CallTags
    <2>2. \A m \in Msgs : Says(home, g, "center", m) => Tag(m) \in IF g = home THEN {"entered"} \cup Codes ELSE {}
      BY <1>1, <1>4, WhoSays
    <2>3. \A m \in Msgs : Says(home, g, "db", m) => Tag(m) \in IF g = home THEN {"save", "load"} ELSE {}
      BY <1>1, <1>4, WhoSays
    <2>4. \A m \in Msgs : Says(home, "db", g, m) => Tag(m) \in IF g = home THEN {"record"} ELSE {}
      BY <1>1, <1>4, WhoSays
    <2> DEFINE K1 == IF g = home THEN CallTags \cup Codes ELSE {}
               K2 == IF g = home THEN {"entered"} \cup Codes ELSE {}
               K3 == IF g = home THEN {"save", "load"} ELSE {}
               K4 == IF g = home THEN {"record"} ELSE {}
    <2>5. \A m \in Msgs : /\ Says(home, "center", g, m) => Tag(m) \in K1
                          /\ Says(home, g, "center", m) => Tag(m) \in K2
                          /\ Says(home, g, "db", m) => Tag(m) \in K3
                          /\ Says(home, "db", g, m) => Tag(m) \in K4
      BY <2>1, <2>2, <2>3, <2>4
    <2>6. /\ "db" \in Processes /\ "center" \in Processes /\ g \in Processes
          /\ "center" \in Peers[g] /\ "db" \in Peers[g] /\ g \in Peers["center"] /\ g \in Peers["db"]
      BY <1>2
    <2> HIDE DEF K1, K2, K3, K4
    <2>7. Tags(wire["center"][g]) \subseteq K1
      BY <1>3, <2>5, <2>6
    <2>8. Tags(wire[g]["center"]) \subseteq K2
      BY <1>3, <2>5, <2>6
    <2>9. Tags(wire[g]["db"]) \subseteq K3
      BY <1>3, <2>5, <2>6
    <2>10. Tags(wire["db"][g]) \subseteq K4
      BY <1>3, <2>5, <2>6
    <2> QED
      BY <2>7, <2>8, <2>9, <2>10 DEF K1, K2, K3, K4
  <1> QED
    BY <1>1, <1>5, <1>6

\* Process p takes a letter from q, or acts on its own account (q = p), and sends "out".
Moves(p, q, out) ==
    \A r \in Processes : \A s \in Peers[r] :
      Flow(wire[r][s], wire'[r][s], TagTaken(p, q, r, s), TagPut(p, out, r, s))

LEMMA SendMoves ==
    ASSUME TypeOK, NEW p \in Processes, NEW out, Send(p, out)
    PROVE  Moves(p, p, out)
  <1>1. \A r \in Processes : \A s \in Peers[r] : TagTaken(p, p, r, s) = {}
    BY Ends DEF TagTaken
  <1> QED
    BY <1>1, SendFlow DEF Moves

LEMMA HandleMoves ==
    ASSUME TypeOK, NEW p \in Processes, NEW q \in Peers[p], NEW out, Hears(p, q), Handle(q, p, out)
    PROVE  Moves(p, q, out) /\ Tag(Incoming(q, p)) \in Tags(wire[q][p]) /\ Incoming(q, p) \in Msgs
  BY HandleFlow DEF Moves

\* One letter, of a channel that is connected.
LEMMA MovesTag ==
    ASSUME up = Links, NEW p, NEW q, NEW out, Moves(p, q, out), NEW r \in Processes, NEW s \in Peers[r]
    PROVE  /\ \A t : t \in Tags(wire'[r][s]) => t \in Tags(wire[r][s]) \/ (r = p /\ t \in Gets(out, s))
           /\ \A t : /\ t \in Tags(wire[r][s])
                     /\ ~(r = q /\ s = p /\ t = Tag(Incoming(q, p)))
                     => t \in Tags(wire'[r][s])
           /\ \A t : r = p /\ t \in Gets(out, s) => t \in Tags(wire'[r][s])
           /\ \A t, u : /\ Never(wire[r][s], t, u)
                        /\ ~(r = p /\ t \in Tags(wire[r][s]) /\ u \in Gets(out, s))
                        => Never(wire'[r][s], t, u)
           /\ \A t, u : Never(wire[r][s], t, u) /\ r = q /\ s = p /\ t = Tag(Incoming(q, p))
                          => u \notin Tags(wire'[r][s])
  <1>1. Flow(wire[r][s], wire'[r][s], TagTaken(p, q, r, s), TagPut(p, out, r, s))
    BY DEF Moves
  <1>2. TagPut(p, out, r, s) = IF r = p THEN Gets(out, s) ELSE {}
    BY Ends DEF TagPut
  <1>3. TagTaken(p, q, r, s) = IF r = q /\ s = p THEN {Tag(Incoming(q, p))} ELSE {}
    BY DEF TagTaken
  <1> QED
    BY <1>1, <1>2, <1>3 DEF Flow

LEMMA MovesSomewhere ==
    ASSUME NEW p, NEW q, NEW out, NEW K, Moves(p, q, out), Somewhere(K)'
    PROVE  Somewhere(K) \/ \E s \in Peers[p] \ {"db"} : Gets(out, s) \cap K # {}
  <1>1. \A r \in Processes : \A s \in Peers[r] :
          Tags(wire'[r][s]) \subseteq Tags(wire[r][s]) \cup TagPut(p, out, r, s)
    BY DEF Moves, Flow
  <1> QED
    BY <1>1, SomewhereFlow

\* How a login gets from place to place.
LEMMA PlacesMove ==
    ASSUME up = Links, NEW x \in Gates, NEW h \in Games, NEW p, NEW q, NEW out,
           Moves(p, q, out), OneLetter(x, h),
           p = "db" /\ "record" \in Gets(out, h) => q = h /\ Tag(Incoming(q, p)) = "load"
                                                    /\ "load" \in Tags(wire[h]["db"])
    PROVE  /\ Reg(x)' => \/ Reg(x) /\ ~(p = "center" /\ q = x /\ Tag(Incoming(q, p)) = "reg")
                         \/ p = x /\ "reg" \in Gets(out, "center")
           /\ Call(h)' => \/ Call(h) /\ ~(p = h /\ q = "center" /\ Tag(Incoming(q, p)) \in CallTags)
                          \/ p = "center" /\ Gets(out, h) \cap CallTags # {}
           /\ Win(h, x)' => \/ Win(h, x) /\ ~(p = x /\ q = h /\ Tag(Incoming(q, p)) = "success")
                            \/ p = h /\ "success" \in Gets(out, x)
           /\ Rec(h)' => \/ Rec(h) /\ ~(p = h /\ q = "db" /\ Tag(Incoming(q, p)) = "record"
                                          /\ "record" \in Tags(wire["db"][h]))
                         \/ p = h /\ "load" \in Gets(out, "db")
           /\ Ent(h)' => Ent(h) \/ (p = h /\ "entered" \in Gets(out, "center"))
           /\ Ent(h) /\ ~(p = "center" /\ q = h /\ Tag(Incoming(q, p)) = "entered") => Ent(h)'
           /\ p = h /\ "entered" \in Gets(out, "center") => Ent(h)'
           /\ Err' => Err \/ \E s \in Peers[p] \ {"db"} : Gets(out, s) \cap Kills # {}
  <1>1. /\ x \in Processes /\ "center" \in Processes /\ h \in Processes /\ "db" \in Processes
        /\ "center" \in Peers[x] /\ h \in Peers["center"] /\ x \in Peers[h] /\ "db" \in Peers[h]
        /\ h \in Peers["db"] /\ "center" \in Peers[h]
        /\ x # "center" /\ h # "center" /\ x # h /\ h # "db" /\ x # "db" /\ "db" # "center"
    BY Connections
  <1>2. Reg(x)' => \/ Reg(x) /\ ~(p = "center" /\ q = x /\ Tag(Incoming(q, p)) = "reg")
                   \/ p = x /\ "reg" \in Gets(out, "center")
    BY <1>1, MovesTag DEF Reg, OneLetter
  <1>3. Call(h)' => \/ Call(h) /\ ~(p = h /\ q = "center" /\ Tag(Incoming(q, p)) \in CallTags)
                    \/ p = "center" /\ Gets(out, h) \cap CallTags # {}
    BY <1>1, MovesTag DEF Call, OneLetter
  <1>4. Win(h, x)' => \/ Win(h, x) /\ ~(p = x /\ q = h /\ Tag(Incoming(q, p)) = "success")
                      \/ p = h /\ "success" \in Gets(out, x)
    BY <1>1, MovesTag DEF Win, OneLetter
  <1>5. Rec(h)' => \/ Rec(h) /\ ~(p = h /\ q = "db" /\ Tag(Incoming(q, p)) = "record"
                                    /\ "record" \in Tags(wire["db"][h]))
                   \/ p = h /\ "load" \in Gets(out, "db")
    <2>1. "load" \in Tags(wire'[h]["db"]) =>
             "load" \in Tags(wire[h]["db"]) \/ (p = h /\ "load" \in Gets(out, "db"))
      BY <1>1, MovesTag
    <2>2. "record" \in Tags(wire'["db"][h]) =>
             \/ "record" \in Tags(wire["db"][h]) /\ ~(p = h /\ q = "db" /\ Tag(Incoming(q, p)) = "record")
             \/ p = "db" /\ "record" \in Gets(out, h)
      BY <1>1, MovesTag DEF OneLetter
    <2> QED
      BY <1>1, <2>1, <2>2 DEF Rec, OneLetter
  <1>6. /\ Ent(h)' => Ent(h) \/ (p = h /\ "entered" \in Gets(out, "center"))
        /\ Ent(h) /\ ~(p = "center" /\ q = h /\ Tag(Incoming(q, p)) = "entered") => Ent(h)'
        /\ p = h /\ "entered" \in Gets(out, "center") => Ent(h)'
    BY <1>1, MovesTag DEF Ent
  <1>7. Err' => Err \/ \E s \in Peers[p] \ {"db"} : Gets(out, s) \cap Kills # {}
    BY MovesSomewhere DEF Err
  <1> QED
    BY <1>2, <1>3, <1>4, <1>5, <1>6, <1>7

\* Nothing is sent to where it is already.
LEMMA LettersMove ==
    ASSUME up = Links, NEW x \in Gates, NEW h \in Games, NEW p, NEW q, NEW out,
           Moves(p, q, out), OneLetter(x, h),
           p = x /\ "reg" \in Gets(out, "center") => ~Reg(x),
           p = "center" /\ Gets(out, h) \cap CallTags # {} => ~Call(h),
           p = h /\ "success" \in Gets(out, x) => ~Win(h, x),
           p = h /\ "load" \in Gets(out, "db") => ~Rec(h),
           p = "db" /\ "record" \in Gets(out, h) => q = h /\ Tag(Incoming(q, p)) = "load"
                                                    /\ "load" \in Tags(wire[h]["db"])
    PROVE  OneLetter(x, h)'
  <1>1. /\ x \in Processes /\ "center" \in Processes /\ h \in Processes /\ "db" \in Processes
        /\ "center" \in Peers[x] /\ h \in Peers["center"] /\ x \in Peers[h] /\ "db" \in Peers[h]
        /\ h \in Peers["db"] /\ "center" \in Peers[h]
        /\ x # "center" /\ h # "center" /\ x # h /\ h # "db" /\ x # "db" /\ "db" # "center"
    BY Connections
  <1>2. Never(wire'[x]["center"], "reg", "reg")
    BY <1>1, MovesTag DEF Reg, OneLetter
  <1>3. ASSUME NEW s \in CallTags, NEW t \in CallTags
        PROVE  Never(wire'["center"][h], s, t)
    BY <1>1, <1>3, MovesTag DEF Call, OneLetter
  <1>4. Never(wire'[h][x], "success", "success")
    BY <1>1, MovesTag DEF Win, OneLetter
  <1>5. Never(wire'[h]["db"], "load", "load")
    BY <1>1, MovesTag DEF Rec, OneLetter
  <1>6. Never(wire'["db"][h], "record", "record")
    BY <1>1, MovesTag DEF Rec, OneLetter
  <1>7. "load" \in Tags(wire'[h]["db"]) => "record" \notin Tags(wire'["db"][h])
    <2>1. "load" \in Tags(wire'[h]["db"]) =>
             \/ "load" \in Tags(wire[h]["db"]) /\ ~(p = "db" /\ q = h /\ Tag(Incoming(q, p)) = "load")
             \/ p = h /\ "load" \in Gets(out, "db")
      BY <1>1, MovesTag DEF OneLetter
    <2>2. "record" \in Tags(wire'["db"][h]) =>
             "record" \in Tags(wire["db"][h]) \/ (p = "db" /\ "record" \in Gets(out, h))
      BY <1>1, MovesTag
    <2> QED
      BY <1>1, <2>1, <2>2 DEF OneLetter, Rec
  <1> QED
    BY <1>2, <1>3, <1>4, <1>5, <1>6, <1>7 DEF OneLetter

\* Nothing is on its way, and nobody is in a scene.
LEMMA QuietTurn ==
    ASSUME NEW x \in Gates, NEW h \in Games,
           \A p \in Processes : \A q \in Peers[p] : Tags(wire'[p][q]) = {},
           ~Loading(h)', gate'[x] \notin {"SCENE", "WAIT"}
    PROVE  LoggedIn(x, h)'
  <1>1. /\ x \in Processes /\ "center" \in Processes /\ h \in Processes /\ "db" \in Processes
        /\ "center" \in Peers[x] /\ h \in Peers["center"] /\ x \in Peers[h] /\ "db" \in Peers[h]
        /\ h \in Peers["db"] /\ "center" \in Peers[h]
    BY Connections
  <1>2. /\ ~Reg(x)' /\ ~Call(h)' /\ ~Win(h, x)' /\ ~Load(h)' /\ ~Ent(h)' /\ ~In(x)'
    BY <1>1 DEF Reg, Call, Win, Load, Rec, Ent, In
  <1>3. \A K : ~Somewhere(K)'
    BY DEF Somewhere
  <1>4. \A p \in Processes : \A q \in Peers[p] : \A s, t : Never(wire'[p][q], s, t)
    BY TagsEmpty
  <1>5. OnePlace(x, h)'
    BY <1>2 DEF OnePlace
  <1>6. OneLetter(x, h)'
    BY <1>1, <1>4 DEF OneLetter
  <1>7. Noted(x, h)'
    BY <1>2 DEF Noted
  <1>8. Welcome(x, h)'
    BY <1>1, <1>2, <1>3, <1>4 DEF Welcome
  <1> QED
    BY <1>5, <1>6, <1>7, <1>8 DEF LoggedIn

LEMMA PlayerTurns ==
    ASSUME TypeOK, Answerable, AtHome, Turns, NEW a \in Gates, PlayerStep(a),
           hurries' = hurries, ~repeated'
    PROVE  Turns'
  <1>1. PICK st, out : PlayerDeed(a, st, out)
    BY PlayerDoes
  <1>2. /\ a \in Processes /\ Send(a, out) /\ UNCHANGED <<user, home, role, up>>
        /\ gate' = [gate EXCEPT ![a] = st]
    BY <1>1, Connections DEF PlayerDeed, GateMoves, centerVars, dataVars
  <1>3. Moves(a, a, out) /\ up = Links /\ gate \in [Gates -> States]
    BY <1>2, SendMoves DEF AtHome, TypeOK, States
  <1>0. SUFFICES ASSUME NEW x \in Gates, NEW h \in Games, gate'[x] # "NONE", h = home
                 PROVE  LoggedIn(x, h)'
    BY <1>2 DEF Turns
  <1>4. /\ x \in Processes /\ "center" \in Processes /\ h \in Processes /\ "db" \in Processes
        /\ "center" \in Peers[x] /\ h \in Peers["center"] /\ x \in Peers[h] /\ "db" \in Peers[h]
        /\ h \in Peers["db"] /\ "center" \in Peers[h]
        /\ x # "center" /\ h # "center" /\ x # h /\ h # "db" /\ x # "db" /\ "db" # "center"
    BY Connections
  <1>5. CASE gate[a] = "NONE"
    <2>1. Arrive(a) /\ Mute(out) /\ st = "GATE"
      BY <1>1, <1>5 DEF PlayerDeed, GateStates, LoginStates
    <2>2. Quiet /\ \A b \in Gates \ {a} : gate[b] = "NONE"
      BY <1>5, <2>1 DEF Arrive, Hasty, TypeOK
    <2>3. x = a
      BY <1>0, <1>2, <1>3, <2>2
    <2>4. \A p \in Processes : \A q \in Peers[p] : wire[p][q] = <<>> /\ Tags(wire[p][q]) = {}
      BY <2>2, TagsEmpty DEF Quiet
    <2>5. \A p \in Processes : \A q \in Peers[p] : Tags(wire'[p][q]) = {}
      BY <1>3, <2>1, <2>4, ZenonT(60) DEF Moves, Flow, TagPut, Mute
    <2>6. ~Loading(h)
      BY <1>4, <2>4, AskedTags DEF Answerable
    <2>7. ~Loading(h)'
      BY <1>2, <2>6 DEF Loading
    <2> QED
      BY <1>2, <1>3, <2>1, <2>3, <2>5, <2>7, QuietTurn
  <1>6. CASE gate[a] # "NONE"
    <2>1. x = a
      <3>1. Session(a)
        BY <1>6 DEF Answerable
      <3> QED
        BY <1>0, <1>2, <1>3, <3>1 DEF Session
    <2>2. LoggedIn(x, h)
      BY <1>0, <1>6, <2>1 DEF Turns
    <2>3. /\ \A s : Gets(out, s) \subseteq {"reg", "ready", "OFFLINE"}
          /\ \A s : "reg" \in Gets(out, s) => LoginGame(a) /\ gate[a] \in GateStates /\ st = "LOGIN"
          /\ \A s : "OFFLINE" \in Gets(out, s) => gate[a] = "SCENE" /\ st = "OFFLINE"
          /\ st = "SCENE" => gate[a] = "SCENE"
          /\ st # "WAIT" /\ listed' = listed
      <3>1. st # "NONE"
        BY <1>0, <1>2, <1>3, <2>1
      <3>2. /\ listed' = listed
            /\ \/ st \in {"GATE", "REGATE", "OFFLINE"} /\ Mute(out)
               \/ gate[a] \in GateStates /\ st = "LOGIN" /\ Only(out, {"center"}, "reg") /\ LoginGame(a)
               \/ gate[a] = "SCENE" /\ st = "SCENE" /\ \E g \in listed[a] : Only(out, {g}, "ready")
               \/ /\ gate[a] = "SCENE" /\ st = "OFFLINE"
                  /\ \E T \in Told(a) : Only(out, T \cup {"center"}, "OFFLINE")
        BY <1>1, <3>1 DEF PlayerDeed
      <3>3. CASE st \in {"GATE", "REGATE", "OFFLINE"} /\ Mute(out)
        BY <3>2, <3>3 DEF Mute
      <3>4. CASE gate[a] \in GateStates /\ st = "LOGIN" /\ Only(out, {"center"}, "reg") /\ LoginGame(a)
        BY <3>2, <3>4 DEF Only
      <3>5. CASE gate[a] = "SCENE" /\ st = "SCENE" /\ \E g \in listed[a] : Only(out, {g}, "ready")
        <4>1. PICK T : Only(out, T, "ready")
          BY <3>5
        <4> QED
          BY <3>2, <3>5, <4>1 DEF Only
      <3>6. CASE /\ gate[a] = "SCENE" /\ st = "OFFLINE"
                 /\ \E T \in Told(a) : Only(out, T \cup {"center"}, "OFFLINE")
        <4>1. PICK T : Only(out, T, "OFFLINE")
          BY <3>6
        <4> QED
          BY <3>2, <3>6, <4>1 DEF Only
      <3> QED
        BY <3>2, <3>3, <3>4, <3>5, <3>6
    <2>4. (\E s : "reg" \in Gets(out, s)) =>
             ~Reg(x) /\ ~Call(h) /\ ~Load(h) /\ ~Win(h, x) /\ ~In(x) /\ ~Err
      <3> SUFFICES ASSUME LoginGame(a), gate[a] \in GateStates
                   PROVE  ~Reg(x) /\ ~Call(h) /\ ~Load(h) /\ ~Win(h, x) /\ ~In(x) /\ ~Err
        BY <2>3
      <3>1. ~UnderWay
        BY DEF LoginGame
      <3>2. ~Loading(h) /\ \A p \in Processes : \A q \in Peers[p] :
               Tags(wire[p][q]) \cap {"reg", "reg_scene", "reg_jump", "relogin", "success", "ERROR"} = {}
        BY <3>1, NotUnderWay
      <3>3. ~Reg(x) /\ ~Call(h) /\ ~Win(h, x)
        BY <1>4, <3>2 DEF Reg, Call, Win, CallTags
      <3>4. ~Load(h)
        BY <2>2, <3>2 DEF LoggedIn, Noted
      <3>5. ~Err
        <4>1. ~Somewhere({"LOGOUT"})
          BY <2>2 DEF LoggedIn, Welcome
        <4> QED
          BY <3>2, <4>1 DEF Err, Somewhere, Kills
      <3>6. ~In(x)
        BY <2>1 DEF In, GateStates
      <3> QED
        BY <3>3, <3>4, <3>5, <3>6
    <2>5. /\ Reg(x)' => Reg(x) \/ "reg" \in Gets(out, "center")
          /\ (Call(h)' => Call(h)) /\ (Win(h, x)' => Win(h, x)) /\ (Rec(h)' => Rec(h))
          /\ Ent(h)' <=> Ent(h)
          /\ Err' => Err
      <3>1. /\ Reg(x)' => Reg(x) \/ "reg" \in Gets(out, "center")
            /\ Call(h)' => Call(h)
            /\ Win(h, x)' => Win(h, x)
            /\ Rec(h)' => Rec(h)
            /\ Ent(h)' <=> Ent(h)
            /\ Err' => Err \/ \E s : Gets(out, s) \cap Kills # {}
        BY <1>3, <1>4, <2>1, <2>2, PlacesMove DEF LoggedIn
      <3>2. \A s : Gets(out, s) \cap Kills = {}
        BY <2>3 DEF Kills
      <3> QED
        BY <3>1, <3>2
    <2>6. In(x)' => In(x)
      BY <1>2, <1>3, <2>1, <2>3 DEF In
    <2>7. (Loading(h)' <=> Loading(h)) /\ (Load(h)' => Load(h)) /\ (Plays(h)' <=> Plays(h))
      <3>1. role' = role
        BY <1>2
      <3>2. (Loading(h)' <=> Loading(h)) /\ (Plays(h)' <=> Plays(h))
        BY <3>1 DEF Loading, Plays
      <3> QED
        BY <2>5, <3>2 DEF Load
    <2>8. OnePlace(x, h)'
      <3>1. CASE "reg" \in Gets(out, "center")
        BY <2>2, <2>4, <2>5, <2>6, <2>7, <3>1 DEF LoggedIn, OnePlace
      <3>2. CASE "reg" \notin Gets(out, "center")
        BY <2>2, <2>5, <2>6, <2>7, <3>2 DEF LoggedIn, OnePlace
      <3> QED
        BY <3>1, <3>2
    <2>9. OneLetter(x, h)'
      BY <1>3, <1>4, <2>1, <2>2, <2>4, LettersMove DEF LoggedIn
    <2>10. Noted(x, h)'
      BY <1>2, <2>2, <2>3, <2>5, <2>6, <2>7 DEF LoggedIn, Noted
    <2>11. Welcome(x, h)'
      <3>1. gate'[x] # "WAIT"
        BY <1>2, <1>3, <2>1, <2>3
      <3>2. ~Somewhere({"LOGOUT"})'
        BY <1>3, <2>2, <2>3, MovesSomewhere DEF LoggedIn, Welcome
      <3>3. ASSUME NEW q \in Peers[x]
            PROVE  "ERROR" \notin Tags(wire'[x][q])
        BY <1>3, <1>4, <2>2, <2>3, MovesTag DEF LoggedIn, Welcome
      <3>4. /\ \A k \in Kills : Never(wire'[h]["center"], k, "entered")
            /\ "OFFLINE" \notin Tags(wire'[h]["center"]) /\ "OFFLINE" \notin Tags(wire'["center"][h])
        BY <1>3, <1>4, <2>1, <2>2, MovesTag DEF LoggedIn, Welcome
      <3>5. "OFFLINE" \in Gets(out, "center") => In(x) /\ ~In(x)'
        BY <1>2, <1>3, <2>1, <2>3 DEF In
      <3>6. Call(h)' \/ Load(h)' \/ Win(h, x)' \/ In(x)' => "OFFLINE" \notin Tags(wire'[x]["center"])
        <4>1. Call(h)' \/ Load(h)' \/ Win(h, x)' \/ In(x)' => "OFFLINE" \notin Gets(out, "center")
          BY <2>2, <2>5, <2>6, <2>7, <3>5 DEF LoggedIn, OnePlace
        <4>2. Call(h)' \/ Load(h)' \/ Win(h, x)' \/ In(x)' => "OFFLINE" \notin Tags(wire[x]["center"])
          BY <2>2, <2>5, <2>6, <2>7 DEF LoggedIn, Welcome
        <4> QED
          BY <1>3, <1>4, <4>1, <4>2, MovesTag
      <3>7. Never(wire'[x]["center"], "reg", "OFFLINE")
        <4>1. ~(Reg(x) /\ "OFFLINE" \in Gets(out, "center"))
          BY <2>2, <3>5 DEF LoggedIn, OnePlace
        <4> QED
          BY <1>3, <1>4, <2>2, <4>1, MovesTag DEF LoggedIn, Welcome, Reg
      <3> QED
        BY <3>1, <3>2, <3>3, <3>4, <3>6, <3>7 DEF Welcome
    <2> QED
      BY <2>8, <2>9, <2>10, <2>11 DEF LoggedIn
  <1> QED
    BY <1>5, <1>6

\* What says nothing about a login, or that the player is away once it is over,
\* leaves it where it is.
LEMMA StillTurn ==
    ASSUME up = Links, NEW x \in Gates, NEW h \in Games, LoggedIn(x, h),
           NEW p, NEW q, NEW out, Moves(p, q, out),
           gate'[x] # "WAIT", In(x)' => In(x) /\ h \in listed'[x],
           user' = user, Loading(h)' <=> Loading(h), Plays(h)' <=> Plays(h),
           role'[h] # None => role'[h].gate = role[h].gate,
           \A s \in Peers[p] \ {"db"} : Gets(out, s) \subseteq {"ready", "OFFLINE", "record"},
           "OFFLINE" \in Gets(out, "center") => p = x /\ ~Reg(x) /\ ~Call(h) /\ ~Load(h) /\ ~Win(h, x)' /\ ~In(x)',
           ~Asks(out),
           p = "center" => Mute(out) /\ Tag(Incoming(q, p)) # "entered",
           p = "db" /\ "record" \in Gets(out, h) => q = h /\ Tag(Incoming(q, p)) = "load"
                                                    /\ "load" \in Tags(wire[h]["db"])
    PROVE  LoggedIn(x, h)'
  <1>1. /\ x \in Processes /\ "center" \in Processes /\ h \in Processes /\ "db" \in Processes
        /\ "center" \in Peers[x] /\ h \in Peers["center"] /\ x \in Peers[h] /\ "db" \in Peers[h]
        /\ h \in Peers["db"] /\ "center" \in Peers[h]
        /\ x # "center" /\ h # "center" /\ x # h /\ h # "db" /\ x # "db" /\ "db" # "center"
    BY Connections
  <1>2. /\ p = x => "reg" \notin Gets(out, "center")
        /\ p = "center" => Gets(out, h) \cap CallTags = {}
        /\ p = h => "success" \notin Gets(out, x) /\ "load" \notin Gets(out, "db")
                    /\ "entered" \notin Gets(out, "center") /\ "OFFLINE" \notin Gets(out, "center")
        /\ \A s \in Peers[p] \ {"db"} : Gets(out, s) \cap Kills = {}
    BY <1>1 DEF Asks, Mute, CallTags, Kills
  <1>3. OneLetter(x, h)
    BY DEF LoggedIn
  <1>4. /\ Reg(x)' => Reg(x)
        /\ Call(h)' => Call(h)
        /\ Win(h, x)' => Win(h, x)
        /\ Rec(h)' => Rec(h)
        /\ Ent(h)' <=> Ent(h)
        /\ Err' => Err
    BY <1>2, <1>3, PlacesMove
  <1>5. Load(h)' => Load(h)
    BY <1>4 DEF Load
  <1>6. OnePlace(x, h)'
    <2>1. OnePlace(x, h)
      BY DEF LoggedIn
    <2> QED
      BY <1>4, <1>5, <2>1 DEF OnePlace
  <1>7. OneLetter(x, h)'
    BY <1>2, <1>3, LettersMove
  <1>8. Noted(x, h)'
    <2>1. Noted(x, h)
      BY DEF LoggedIn
    <2>2. role'[h] # None /\ role[h].gate = x => role'[h].gate = x
      OBVIOUS
    <2>3. Loading(h)' \/ Plays(h)' => role'[h] # None
      BY DEF Loading, Plays
    <2> QED
      BY <1>4, <1>5, <2>1, <2>2, <2>3 DEF Noted
  <1>9. Welcome(x, h)'
    <2>1. Welcome(x, h)
      BY DEF LoggedIn
    <2>2. ~Somewhere({"LOGOUT"})'
      BY <1>2, <2>1, MovesSomewhere DEF Welcome, Kills
    <2>3. ASSUME NEW s \in Peers[x]
          PROVE  "ERROR" \notin Tags(wire'[x][s])
      <3>1. s # "db" /\ "ERROR" \notin Tags(wire[x][s])
        BY <2>1, Connections DEF Welcome
      <3>2. p = x => "ERROR" \notin Gets(out, s)
        BY <3>1
      <3> QED
        BY <1>1, <3>1, <3>2, MovesTag
    <2>4. \A k \in Kills : Never(wire'[h]["center"], k, "entered")
      BY <1>1, <1>2, <2>1, MovesTag, SMTT(60) DEF Welcome
    <2>5. "OFFLINE" \notin Tags(wire'[h]["center"]) /\ "OFFLINE" \notin Tags(wire'["center"][h])
      BY <1>1, <1>2, <2>1, MovesTag, SMTT(60) DEF Welcome, Mute
    <2>6. Call(h)' \/ Load(h)' \/ Win(h, x)' \/ In(x)' => "OFFLINE" \notin Tags(wire'[x]["center"])
      <3>1. Call(h)' \/ Load(h)' \/ Win(h, x)' \/ In(x)' => "OFFLINE" \notin Gets(out, "center")
        BY <1>4, <1>5
      <3>2. Call(h)' \/ Load(h)' \/ Win(h, x)' \/ In(x)' => "OFFLINE" \notin Tags(wire[x]["center"])
        BY <1>4, <1>5, <2>1 DEF Welcome
      <3> QED
        BY <1>1, <3>1, <3>2, MovesTag
    <2>7. Never(wire'[x]["center"], "reg", "OFFLINE")
      <3>1. Never(wire[x]["center"], "reg", "OFFLINE")
        BY <2>1 DEF Welcome
      <3>2. ~("reg" \in Tags(wire[x]["center"]) /\ "OFFLINE" \in Gets(out, "center"))
        BY DEF Reg
      <3> QED
        BY <1>1, <3>1, <3>2, MovesTag
    <2> QED
      BY <2>2, <2>3, <2>4, <2>5, <2>6, <2>7 DEF Welcome
  <1> QED
    BY <1>6, <1>7, <1>8, <1>9 DEF LoggedIn

LEMMA GateTurns ==
    ASSUME TypeOK, Answerable, AtHome, Turns, NEW a \in Gates, GateStep(a)
    PROVE  Turns'
  <1>1. PICK q \in Peers[a] : \E st, lst, out : GateDeed(q, a, st, lst, out)
    BY GateDoes
  <1>2. PICK st, lst, out : GateDeed(q, a, st, lst, out)
    BY <1>1
  <1>3. /\ a \in Processes /\ Hears(a, q) /\ Handle(q, a, out) /\ UNCHANGED <<user, home, role, up>>
        /\ gate' = [gate EXCEPT ![a] = st] /\ listed' = [listed EXCEPT ![a] = lst]
    BY <1>2, Connections DEF GateDeed, GateHandles, centerVars, dataVars
  <1>4. /\ Moves(a, q, out) /\ up = Links /\ gate \in [Gates -> States] /\ listed \in [Gates -> SUBSET Games]
        /\ Tag(Incoming(q, a)) \in Tags(wire[q][a])
    BY <1>3, HandleMoves DEF AtHome, TypeOK, States
  <1>0. SUFFICES ASSUME NEW x \in Gates, NEW h \in Games, gate'[x] # "NONE", h = home
                 PROVE  LoggedIn(x, h)'
    BY <1>3 DEF Turns
  <1>5. /\ x \in Processes /\ "center" \in Processes /\ h \in Processes /\ "db" \in Processes
        /\ "center" \in Peers[x] /\ h \in Peers["center"] /\ x \in Peers[h] /\ "db" \in Peers[h]
        /\ h \in Peers["db"] /\ "center" \in Peers[h]
        /\ x # "center" /\ h # "center" /\ x # h /\ h # "db" /\ x # "db" /\ "db" # "center"
    BY Connections
  <1>6. /\ q = "center" \/ q \in Games
        /\ Tags(wire["center"][a]) \subseteq Codes
        /\ \A g \in Games : Tags(wire[g][a]) \subseteq {"success"} \cup Codes
        /\ \A g \in Games : g # h => Tags(wire[g][a]) = {}
    BY <1>0, Connections, HomeTags
  <1>7. Tag(Incoming(q, a)) \in Codes \/ (q = h /\ Tag(Incoming(q, a)) = "success")
    BY <1>4, <1>6
  <1>8. /\ (Loading(h)' <=> Loading(h)) /\ (Plays(h)' <=> Plays(h)) /\ role' = role /\ user' = user
    <2>1. role' = role /\ user' = user
      BY <1>3
    <2> QED
      BY <2>1 DEF Loading, Plays
  <1>9. ASSUME gate[x] # "NONE", gate'[x] = gate[x], listed'[x] = listed[x], Mute(out)
        PROVE  LoggedIn(x, h)'
    <2>1. LoggedIn(x, h)
      BY <1>0, <1>9 DEF Turns
    <2>2. gate'[x] # "WAIT" /\ (In(x)' => In(x) /\ h \in listed'[x])
      BY <1>9, <2>1 DEF LoggedIn, Welcome, Noted, In
    <2>3. (\A s : Gets(out, s) = {}) /\ ~Asks(out)
      BY <1>9 DEF Mute, Asks
    <2>4. a # "center" /\ a # "db"
      BY Connections
    <2> QED
      BY <1>4, <1>8, <1>9, <2>1, <2>2, <2>3, <2>4, StillTurn
  <1>10. CASE x # a
    <2>1. gate'[x] = gate[x] /\ listed'[x] = listed[x] /\ gate[x] # "NONE"
      BY <1>0, <1>3, <1>4, <1>10
    <2>2. gate[a] = "NONE" /\ "success" \notin Tags(wire[h][a])
      BY <1>10, <2>1, SessionTags
    <2>3. Tag(Incoming(q, a)) \in Codes
      BY <1>4, <1>7, <2>2
    <2>4. Mute(out)
      BY <1>2, <2>2, <2>3 DEF GateDeed, Codes
    <2> QED
      BY <1>9, <2>1, <2>4
  <1>11. CASE x = a /\ Tag(Incoming(q, a)) \in Codes
    <2>1. gate'[x] = st /\ listed'[x] = lst /\ st # "NONE"
      BY <1>0, <1>3, <1>4, <1>11
    <2>2. st = gate[a] /\ lst = listed[a] /\ Mute(out)
      BY <1>2, <1>11, <2>1 DEF GateDeed, Codes
    <2> QED
      BY <1>9, <1>11, <2>1, <2>2
  <1>12. CASE x = a /\ q = h /\ Tag(Incoming(q, a)) = "success"
    <2>1. gate'[x] = st /\ listed'[x] = lst /\ st # "NONE"
      BY <1>0, <1>3, <1>4, <1>12
    <2>2. \/ gate[a] \in {"LOGIN", "WAIT"} /\ st = "SCENE" /\ lst = listed[a] \cup {q} /\ Mute(out)
          \/ /\ gate[a] = "OFFLINE" /\ st = "OFFLINE" /\ lst = listed[a]
             /\ \E T \in Told(a) : Only(out, T \cup {"center"}, "OFFLINE")
      BY <1>2, <1>12, <2>1 DEF GateDeed, Codes
    <2>3. LoggedIn(x, h)
      BY <1>0, <1>12, <2>2 DEF Turns
    <2>4. Win(h, x) /\ ~Win(h, x)'
      <3>1. Win(h, x)
        BY <1>4, <1>12 DEF Win
      <3>2. OneLetter(x, h)
        BY <2>3 DEF LoggedIn
      <3>3. a # h /\ a # "db"
        BY Connections
      <3> QED
        BY <1>4, <1>12, <3>1, <3>2, <3>3, PlacesMove
    <2>5. OnePlace(x, h) /\ OneLetter(x, h) /\ Noted(x, h) /\ Welcome(x, h)
      BY <2>3 DEF LoggedIn
    <2>6. ~Reg(x) /\ ~Call(h) /\ ~Load(h) /\ ~In(x) /\ ~Err
      BY <2>4, <2>5 DEF OnePlace
    <2>7. CASE /\ gate[a] = "OFFLINE" /\ st = "OFFLINE" /\ lst = listed[a]
               /\ \E T \in Told(a) : Only(out, T \cup {"center"}, "OFFLINE")
      <3>1. gate'[x] # "WAIT" /\ ~In(x)'
        BY <2>1, <2>7 DEF In
      <3>2. \A s : Gets(out, s) \subseteq {"OFFLINE"}
        <4>1. PICK T : Only(out, T, "OFFLINE")
          BY <2>7
        <4> QED
          BY <4>1 DEF Only
      <3>3. a # "center" /\ a # "db" /\ ~Asks(out)
        BY <3>2, Connections DEF Asks
      <3> QED
        BY <1>4, <1>8, <1>12, <2>3, <2>4, <2>6, <3>1, <3>2, <3>3, StillTurn
    <2>8. CASE gate[a] \in {"LOGIN", "WAIT"} /\ st = "SCENE" /\ lst = listed[a] \cup {q} /\ Mute(out)
      <3>1. In(x)' /\ gate'[x] # "WAIT" /\ h \in listed'[x]
        BY <1>12, <2>1, <2>8 DEF In
      <3>2. (\A s : Gets(out, s) = {}) /\ a # "center" /\ a # "db" /\ a # h
        BY <2>8, Connections DEF Mute
      <3>3. /\ Reg(x)' => Reg(x)
            /\ Call(h)' => Call(h)
            /\ Rec(h)' => Rec(h)
            /\ Ent(h)' <=> Ent(h)
            /\ Err' => Err
        BY <1>4, <2>5, <3>2, PlacesMove
      <3>4. Load(h)' => Load(h)
        BY <1>8, <3>3 DEF Load
      <3>5. OnePlace(x, h)'
        BY <2>4, <2>6, <3>3, <3>4 DEF OnePlace
      <3>6. OneLetter(x, h)'
        BY <1>4, <2>5, <3>2, LettersMove
      <3>7. Noted(x, h)'
        BY <1>8, <2>4, <2>5, <2>6, <3>1, <3>3, <3>4 DEF Noted
      <3>8. Welcome(x, h)'
        <4>1. ~Somewhere({"LOGOUT"})'
          BY <1>4, <2>5, <3>2, MovesSomewhere DEF Welcome
        <4>2. \A s \in Peers[x] : "ERROR" \notin Tags(wire'[x][s])
          BY <1>4, <1>5, <2>5, <3>2, MovesTag DEF Welcome
        <4>3. /\ \A k \in Kills : Never(wire'[h]["center"], k, "entered")
              /\ "OFFLINE" \notin Tags(wire'[h]["center"]) /\ "OFFLINE" \notin Tags(wire'["center"][h])
              /\ "OFFLINE" \notin Tags(wire'[x]["center"])
              /\ Never(wire'[x]["center"], "reg", "OFFLINE")
          <5>1. /\ \A k \in Kills : Never(wire[h]["center"], k, "entered")
                /\ "OFFLINE" \notin Tags(wire[h]["center"]) /\ "OFFLINE" \notin Tags(wire["center"][h])
                /\ "OFFLINE" \notin Tags(wire[x]["center"])
                /\ Never(wire[x]["center"], "reg", "OFFLINE")
            BY <2>4, <2>5 DEF Welcome
          <5>2. \A k \in Kills : Never(wire'[h]["center"], k, "entered")
            BY <1>4, <1>5, <3>2, <5>1, MovesTag
          <5> QED
            BY <1>4, <1>5, <3>2, <5>1, <5>2, MovesTag, SMTT(60)
        <4> QED
          BY <3>1, <4>1, <4>2, <4>3 DEF Welcome
      <3> QED
        BY <3>5, <3>6, <3>7, <3>8 DEF LoggedIn
    <2> QED
      BY <2>2, <2>7, <2>8
  <1> QED
    BY <1>7, <1>10, <1>11, <1>12

\* Who is not the gate keeps it so.
LEMMA WelcomeMoves ==
    ASSUME up = Links, NEW x \in Gates, NEW h \in Games, Welcome(x, h),
           NEW p, NEW q, NEW out, Moves(p, q, out), gate'[x] = gate[x], p # x,
           \A s \in Peers[p] \ {"db"} : "LOGOUT" \notin Gets(out, s) /\ "OFFLINE" \notin Gets(out, s),
           p = h /\ "entered" \in Gets(out, "center") => ~Err /\ Gets(out, "center") = {"entered"},
           Call(h)' \/ Load(h)' \/ Win(h, x)' \/ In(x)' =>
             \/ Call(h) \/ Load(h) \/ Win(h, x) \/ In(x)
             \/ "OFFLINE" \notin Tags(wire'[x]["center"])
    PROVE  Welcome(x, h)'
  <1>1. /\ x \in Processes /\ "center" \in Processes /\ h \in Processes
        /\ "center" \in Peers[x] /\ h \in Peers["center"] /\ "center" \in Peers[h]
        /\ x # "center" /\ h # "center" /\ x # h /\ "db" # "center" /\ h # "db"
    BY Connections
  <1>2. ~Somewhere({"LOGOUT"})'
    BY MovesSomewhere DEF Welcome
  <1>3. ASSUME NEW s \in Peers[x]
        PROVE  "ERROR" \notin Tags(wire'[x][s])
    BY <1>1, <1>3, MovesTag DEF Welcome
  <1>4. ASSUME NEW k \in Kills
        PROVE  Never(wire'[h]["center"], k, "entered")
    <2>1. Never(wire[h]["center"], k, "entered")
      BY <1>4 DEF Welcome
    <2>2. k \in Tags(wire[h]["center"]) => Err
      BY <1>1, <1>4 DEF Err, Somewhere
    <2> QED
      BY <1>1, <2>1, <2>2, MovesTag
  <1>5. "OFFLINE" \notin Tags(wire'[h]["center"]) /\ "OFFLINE" \notin Tags(wire'["center"][h])
    BY <1>1, MovesTag DEF Welcome
  <1>6. "OFFLINE" \notin Tags(wire[x]["center"]) => "OFFLINE" \notin Tags(wire'[x]["center"])
    BY <1>1, MovesTag
  <1>7. Never(wire'[x]["center"], "reg", "OFFLINE")
    BY <1>1, MovesTag DEF Welcome
  <1>8. Call(h)' \/ Load(h)' \/ Win(h, x)' \/ In(x)' => "OFFLINE" \notin Tags(wire'[x]["center"])
    BY <1>6 DEF Welcome
  <1> QED
    BY <1>2, <1>3, <1>4, <1>5, <1>7, <1>8 DEF Welcome

LEMMA CenterTurns ==
    ASSUME TypeOK, Answerable, AtHome, Turns, CenterStep
    PROVE  Turns'
  <1>1. PICK q \in Peers["center"] : \E u, k0, k, out : CenterDeed(q, u, k0, k, out)
    BY CenterDoes
  <1>2. PICK u, k0, k, out : CenterDeed(q, u, k0, k, out)
    BY <1>1
  <1>3. /\ "center" \in Processes /\ Hears("center", q) /\ Handle(q, "center", out)
        /\ UNCHANGED <<gate, listed, role, up>> /\ user' = u /\ home' = k0
    BY <1>2, Connections DEF CenterDeed, CenterHandles, gateVars, dataVars
  <1>4. /\ Moves("center", q, out) /\ up = Links /\ Tag(Incoming(q, "center")) \in Tags(wire[q]["center"])
    BY <1>3, HandleMoves DEF AtHome
  <1>5. home \in Games /\ LoginScenes = {home} /\ (user # None => user.game = home)
        /\ (user # None => user \in Users) /\ None \notin Users
    BY NoneAssumption DEF TypeOK, AtHome, LoginScenes
  <1>6. /\ q \in Gates => Tags(wire[q]["center"]) \subseteq {"reg"} \cup Codes
        /\ q \in Games => Tags(wire[q]["center"]) \subseteq {"entered"} \cup Codes
        /\ q \in Games /\ q # home => Tags(wire[q]["center"]) = {}
        /\ q \in Gates \/ q \in Games
    BY Connections, HomeTags
  <1>7. k0 = home
    BY <1>2, <1>4, <1>5, <1>6 DEF CenterDeed, Codes
  <1>0. SUFFICES ASSUME NEW x \in Gates, NEW h \in Games, gate'[x] # "NONE", h = home
                 PROVE  LoggedIn(x, h)'
    BY <1>3, <1>7 DEF Turns
  <1>8. /\ x \in Processes /\ h \in Processes /\ "db" \in Processes
        /\ "center" \in Peers[x] /\ h \in Peers["center"] /\ x \in Peers[h] /\ "db" \in Peers[h]
        /\ h \in Peers["db"] /\ "center" \in Peers[h]
        /\ x # "center" /\ h # "center" /\ x # h /\ h # "db" /\ x # "db" /\ "db" # "center"
        /\ x \notin Games /\ h \notin Gates
    BY Connections
  <1>9. gate[x] # "NONE" /\ gate'[x] = gate[x] /\ listed'[x] = listed[x] /\ LoggedIn(x, h)
    BY <1>0, <1>3 DEF Turns
  <1>10. OnePlace(x, h) /\ OneLetter(x, h) /\ Noted(x, h) /\ Welcome(x, h)
    BY <1>9 DEF LoggedIn
  <1>11. q \in Gates => q = x
    BY <1>4, <1>9, Connections, SessionTags
  <1>12. q \in Games => q = h
    BY <1>0, <1>4, <1>6
  <1>13. \/ q = x /\ Tag(Incoming(q, "center")) \in {"reg", "OFFLINE"}
         \/ q = h /\ Tag(Incoming(q, "center")) \in {"entered", "ERROR"}
    <2>1. "LOGOUT" \notin Tags(wire[q]["center"])
      BY <1>8, <1>10, <1>11, <1>12, <1>6 DEF Welcome, Somewhere
    <2>2. /\ "ERROR" \notin Tags(wire[x]["center"])
          /\ "OFFLINE" \notin Tags(wire[h]["center"])
      BY <1>8, <1>10 DEF Welcome
    <2> QED
      BY <1>4, <1>6, <1>11, <1>12, <2>1, <2>2 DEF Codes
  <1>14. /\ (Loading(h)' <=> Loading(h)) /\ (Plays(h)' <=> Plays(h)) /\ (In(x)' <=> In(x))
         /\ role'[h] = role[h]
    <2>1. role' = role
      BY <1>3
    <2> QED
      BY <1>9, <2>1 DEF Loading, Plays, In
  <1>15. CASE q = x /\ Tag(Incoming(q, "center")) = "reg"
    <2>1. Reg(x) /\ ~Call(h) /\ ~Load(h) /\ ~Win(h, x) /\ ~In(x) /\ ~Err
      BY <1>4, <1>10, <1>15 DEF Reg, OnePlace
    <2>2. "OFFLINE" \notin Tags(wire'[x]["center"])
      <3>1. Never(wire[x]["center"], "reg", "OFFLINE")
        BY <1>10 DEF Welcome
      <3> QED
        BY <1>4, <1>8, <1>15, <3>1, MovesTag
    <2>3. \/ user # None /\ user.gate = x /\ u = user /\ Sends(out, h, "relogin", x)
          \/ user # None /\ user.gate # x /\ u = None /\ Only(out, {x, h}, "ERROR")
          \/ user = None /\ u = [gate |-> x, game |-> h, on |-> "LOGOUT"] /\ Sends(out, h, "reg_scene", x)
          \/ user = None /\ u = None /\ Only(out, {x}, "ERROR")
      BY <1>0, <1>2, <1>5, <1>7, <1>8, <1>15 DEF CenterDeed, Codes
    <2>4. PICK T, t : Only(out, T, t) /\ t \in {"relogin", "reg_scene", "ERROR"}
                      /\ (t # "ERROR" => T = {h} /\ u # None /\ u.gate = x)
                      /\ (t = "ERROR" => u = None /\ (user = None \/ user.gate # x))
      <3>1. [gate |-> x, game |-> h, on |-> "LOGOUT"] \in Users
        BY <1>0 DEF Users
      <3> QED
        BY <1>5, <2>3, <3>1 DEF Sends
    <2>5. \A s : Gets(out, s) \subseteq {t}
      BY <2>4 DEF Only
    <2>6. /\ ~Reg(x)'
          /\ Call(h)' => t # "ERROR"
          /\ ~Win(h, x)'
          /\ ~Rec(h)'
          /\ Ent(h)' => Ent(h)
          /\ Err' => t = "ERROR"
      <3>1. ~Rec(h)
        BY <2>1 DEF Load
      <3>2. "ERROR" \notin CallTags /\ (t # "ERROR" => t \notin Kills)
        BY <2>4 DEF CallTags, Kills
      <3>3. /\ Reg(x)' => \/ Reg(x) /\ ~(q = x /\ Tag(Incoming(q, "center")) = "reg")
                          \/ "center" = x
            /\ Call(h)' => Call(h) \/ Gets(out, h) \cap CallTags # {}
            /\ Win(h, x)' => Win(h, x) \/ "center" = h
            /\ Rec(h)' => Rec(h) \/ "center" = h
            /\ Ent(h)' => Ent(h) \/ "center" = h
            /\ Err' => Err \/ \E s : Gets(out, s) \cap Kills # {}
        BY <1>4, <1>8, <1>10, PlacesMove
      <3> QED
        BY <1>8, <1>15, <2>1, <2>5, <3>1, <3>2, <3>3
    <2>7. ~Load(h)' /\ ~In(x)'
      BY <1>14, <2>1, <2>6 DEF Load
    <2>8. OnePlace(x, h)'
      BY <2>6, <2>7 DEF OnePlace
    <2>9. OneLetter(x, h)'
      BY <1>4, <1>8, <1>10, <2>1, LettersMove
    <2>10. Noted(x, h)'
      <3>1. Ent(h)' => user # None /\ user.gate = x
        BY <1>10, <2>6 DEF Noted
      <3>2. Call(h)' \/ Ent(h)' => user' # None /\ (user').gate = x
        BY <1>3, <2>3, <2>4, <2>6, <3>1
      <3> QED
        BY <2>6, <2>7, <3>2 DEF Noted
    <2>11. Welcome(x, h)'
      <3>1. \A s : "LOGOUT" \notin Gets(out, s) /\ "OFFLINE" \notin Gets(out, s)
        BY <2>4, <2>5
      <3> QED
        BY <1>4, <1>8, <1>9, <1>10, <2>2, <3>1, WelcomeMoves
    <2> QED
      BY <2>8, <2>9, <2>10, <2>11 DEF LoggedIn
  <1>16. ASSUME Tag(Incoming(q, "center")) # "reg", Mute(out), user' # None => (user # None /\ user'.gate = user.gate),
                Call(h)' \/ Load(h)' \/ Win(h, x)' \/ In(x)' \/ Ent(h)' => user' # None,
                Win(h, x)' \/ In(x)' => user'.on = "ONLINE" \/ (Ent(h)' /\ Ent(h))
         PROVE  LoggedIn(x, h)'
    <2>1. \A s : Gets(out, s) = {}
      BY <1>16 DEF Mute
    <2>2. /\ Reg(x)' => Reg(x)
          /\ Call(h)' => Call(h)
          /\ Win(h, x)' => Win(h, x)
          /\ Rec(h)' => Rec(h)
          /\ Ent(h)' => Ent(h)
          /\ Err' => Err
      BY <1>4, <1>8, <1>10, <2>1, PlacesMove
    <2>3. Load(h)' => Load(h)
      BY <1>14, <2>2 DEF Load
    <2>4. OnePlace(x, h)'
      BY <1>10, <1>14, <2>2, <2>3 DEF OnePlace
    <2>5. OneLetter(x, h)'
      BY <1>4, <1>8, <1>10, <2>1, LettersMove
    <2>6. Noted(x, h)'
      BY <1>9, <1>10, <1>14, <1>16, <2>2, <2>3 DEF Noted
    <2>7. Welcome(x, h)'
      BY <1>4, <1>8, <1>9, <1>10, <1>14, <2>1, <2>2, <2>3, WelcomeMoves
    <2> QED
      BY <2>4, <2>5, <2>6, <2>7 DEF LoggedIn
  <1>17. CASE q = x /\ Tag(Incoming(q, "center")) = "OFFLINE"
    <2>1. Mute(out) /\ u = IF user = None THEN None ELSE [user EXCEPT !.on = "OFFLINE"]
      BY <1>2, <1>8, <1>17 DEF CenterDeed, Codes
    <2>2. ~Call(h) /\ ~Load(h) /\ ~Win(h, x) /\ ~In(x)
      BY <1>4, <1>10, <1>17 DEF Welcome
    <2>3. user # None => u # None /\ u.gate = user.gate
      <3>1. user \in Users => [user EXCEPT !.on = "OFFLINE"] \in Users
        BY DEF Users
      <3>2. user \in Users => [user EXCEPT !.on = "OFFLINE"].gate = user.gate
        BY DEF Users
      <3> QED
        BY <1>5, <2>1, <3>1, <3>2
    <2>4. /\ Call(h)' => Call(h)
          /\ Win(h, x)' => Win(h, x)
          /\ Rec(h)' => Rec(h)
          /\ Ent(h)' => Ent(h)
      <3>1. \A s : Gets(out, s) = {}
        BY <2>1 DEF Mute
      <3> QED
        BY <1>4, <1>8, <1>10, <3>1, PlacesMove
    <2>5. Load(h)' => Load(h)
      BY <1>14, <2>4 DEF Load
    <2>6. Ent(h)' => user # None
      BY <1>10, <2>4 DEF Noted
    <2> QED
      BY <1>3, <1>14, <1>16, <1>17, <2>1, <2>2, <2>3, <2>4, <2>5, <2>6
  <1>18. CASE q = h /\ Tag(Incoming(q, "center")) = "entered"
    <2>1. Ent(h) /\ user # None
      BY <1>4, <1>10, <1>18 DEF Ent, Noted
    <2>2. Mute(out) /\ u = [user EXCEPT !.on = "ONLINE"]
      BY <1>2, <1>8, <1>18, <2>1 DEF CenterDeed, Codes
    <2>3. u # None /\ u.gate = user.gate /\ u.on = "ONLINE"
      <3>1. user \in Users => [user EXCEPT !.on = "ONLINE"] \in Users
        BY DEF Users
      <3>2. user \in Users => [user EXCEPT !.on = "ONLINE"].gate = user.gate
                              /\ [user EXCEPT !.on = "ONLINE"].on = "ONLINE"
        BY DEF Users
      <3> QED
        BY <1>5, <2>1, <2>2, <3>1, <3>2
    <2> QED
      BY <1>3, <1>16, <1>18, <2>1, <2>2, <2>3
  <1>19. CASE q = h /\ Tag(Incoming(q, "center")) = "ERROR"
    <2>1. Mute(out) /\ u = None
      BY <1>2, <1>8, <1>19 DEF CenterDeed, Codes
    <2>2. Err
      BY <1>4, <1>8, <1>19 DEF Err, Somewhere, Kills
    <2>3. ~Call(h) /\ ~Load(h) /\ ~Win(h, x) /\ ~In(x)
      BY <1>10, <2>2 DEF OnePlace
    <2>4. /\ Call(h)' => Call(h)
          /\ Win(h, x)' => Win(h, x)
          /\ Rec(h)' => Rec(h)
      <3>1. \A s : Gets(out, s) = {}
        BY <2>1 DEF Mute
      <3> QED
        BY <1>4, <1>8, <1>10, <3>1, PlacesMove
    <2>5. Load(h)' => Load(h)
      BY <1>14, <2>4 DEF Load
    <2>6. ~Ent(h)'
      <3>1. Never(wire[h]["center"], "ERROR", "entered")
        BY <1>10 DEF Welcome, Kills
      <3> QED
        BY <1>4, <1>8, <1>19, <3>1, MovesTag DEF Ent
    <2> QED
      BY <1>3, <1>14, <1>16, <1>19, <2>1, <2>3, <2>4, <2>5, <2>6
  <1> QED
    BY <1>13, <1>15, <1>17, <1>18, <1>19

LEMMA GameTurns ==
    ASSUME TypeOK, Answerable, AtHome, Turns, NEW g \in Games, GameStep(g)
    PROVE  Turns'
  <1>1. CASE Hears("db", g) /\ DbHandles(g)
    <2>1. PICK out : /\ Handle(g, "db", out)
                     /\ \/ Tag(Incoming(g, "db")) \in {"save", "closed"} /\ Mute(out)
                        \/ Tag(Incoming(g, "db")) = "load" /\ Only(out, {g}, "record")
                     /\ UNCHANGED <<gate, listed, user, home, known, role, up, jumps, faults, hurries, repeated>>
      BY <1>1, DbDoes
    <2>2. "db" \in Processes /\ g \in Peers["db"]
      BY Connections
    <2>3. Moves("db", g, out) /\ up = Links /\ Tag(Incoming(g, "db")) \in Tags(wire[g]["db"])
      BY <1>1, <2>1, <2>2, HandleMoves DEF AtHome
    <2>4. ASSUME NEW x \in Gates, NEW h \in Games, gate[x] # "NONE", h = home
          PROVE  LoggedIn(x, h)'
      <3>1. LoggedIn(x, h)
        BY <2>4 DEF Turns
      <3>2. gate' = gate /\ listed' = listed /\ user' = user /\ role' = role
        BY <2>1
      <3>3. /\ gate'[x] # "WAIT" /\ (In(x)' => In(x) /\ h \in listed'[x])
            /\ (Loading(h)' <=> Loading(h)) /\ (Plays(h)' <=> Plays(h)) /\ role'[h] = role[h]
        BY <3>1, <3>2 DEF LoggedIn, Welcome, Noted, In, Loading, Plays
      <3>4. (\A s : Gets(out, s) \subseteq {"record"}) /\ ~Asks(out) /\ (\A s : Gets(out, s) # {} => s = g)
        BY <2>1 DEF Mute, Only, Asks
      <3>5. "db" # "center" /\ "db" # x
        BY Connections
      <3>6. "record" \in Gets(out, h) => g = h /\ Tag(Incoming(g, "db")) = "load" /\ "load" \in Tags(wire[h]["db"])
        BY <2>1, <2>3, <3>4 DEF Mute
      <3> QED
        BY <2>3, <3>1, <3>2, <3>3, <3>4, <3>5, <3>6, StillTurn
    <2> QED
      BY <2>1, <2>4 DEF Turns
  <1>2. ASSUME NEW q \in Peers[g], NEW r, NEW out, GameDeed(q, g, r, out)
        PROVE  Turns'
    <2>1. /\ g \in Processes /\ Hears(g, q) /\ Handle(q, g, out)
          /\ gate' = gate /\ listed' = listed /\ user' = user /\ home' = home /\ up' = up
          /\ role' = [role EXCEPT ![g] = r]
      BY <1>2, Connections DEF GameDeed, GameHandles, gateVars, centerVars
    <2>2. /\ Moves(g, q, out) /\ up = Links /\ Tag(Incoming(q, g)) \in Tags(wire[q][g])
          /\ role \in [Games -> Roles \cup {None}] /\ home \in Games
          /\ (role[g] # None => role[g].type # "jump")
      BY <2>1, HandleMoves DEF AtHome, TypeOK
    <2>0. SUFFICES ASSUME NEW x \in Gates, NEW h \in Games, gate'[x] # "NONE", h = home
                   PROVE  LoggedIn(x, h)'
      BY <2>1 DEF Turns
    <2>3. /\ x \in Processes /\ "center" \in Processes /\ h \in Processes /\ "db" \in Processes
          /\ "center" \in Peers[x] /\ h \in Peers["center"] /\ x \in Peers[h] /\ "db" \in Peers[h]
          /\ h \in Peers["db"] /\ "center" \in Peers[h]
          /\ x # "center" /\ h # "center" /\ x # h /\ h # "db" /\ x # "db" /\ "db" # "center"
          /\ "center" \notin Gates /\ "db" \notin Gates
      BY Connections
    <2>4. /\ g = h
          /\ \/ q = "center" /\ Tag(Incoming(q, g)) \in CallTags \cup Codes
             \/ q \in Gates /\ Tag(Incoming(q, g)) \in {"ready"} \cup Codes
             \/ q = "db" /\ Tag(Incoming(q, g)) = "record"
      <3>1. q = "center" \/ q = "db" \/ q \in Gates
        BY Connections
      <3>2. Tags(wire[q][g]) # {}
        BY <2>2
      <3>3. g = h
        BY <2>0, <3>1, <3>2, HomeTags
      <3>4. /\ Tags(wire["center"][g]) \subseteq CallTags \cup Codes
            /\ Tags(wire["db"][g]) \subseteq {"record"}
            /\ \A b \in Gates : Tags(wire[b][g]) \subseteq {"ready"} \cup Codes
        BY HomeTags
      <3>5. Tag(Incoming(q, g)) \in Tags(wire[q][g])
        BY <2>2
      <3> QED
        BY <3>1, <3>3, <3>4, <3>5
    <2>5. gate[x] # "NONE" /\ gate'[x] = gate[x] /\ listed'[x] = listed[x] /\ LoggedIn(x, h)
      BY <2>0, <2>1 DEF Turns
    <2>6. OnePlace(x, h) /\ OneLetter(x, h) /\ Noted(x, h) /\ Welcome(x, h)
      BY <2>5 DEF LoggedIn
    <2>7. q \in Gates => q = x
      <3>1. ASSUME q \in Gates, q # x
            PROVE  FALSE
        <4>1. q \in Gates \ {x} /\ g \in Peers[q]
          BY <3>1, Connections
        <4>2. Tags(wire[q][g]) = {}
          BY <2>5, <4>1, SessionTags
        <4> QED
          BY <2>2, <4>2
      <3> QED
        BY <3>1
    <2>8. \/ q = "center" /\ Tag(Incoming(q, g)) \in CallTags \cup {"ERROR"}
          \/ q = x /\ Tag(Incoming(q, g)) \in {"ready", "OFFLINE"}
          \/ q = "db" /\ Tag(Incoming(q, g)) = "record"
      <3>1. q # "db" => "LOGOUT" \notin Tags(wire[q][g])
        <4>1. q # "db" => q \in Processes /\ g \in Peers[q] \ {"db"}
          BY <2>3, <2>4, <2>7, Connections
        <4> QED
          BY <2>6, <4>1 DEF Welcome, Somewhere
      <3>2. "OFFLINE" \notin Tags(wire["center"][h]) /\ "ERROR" \notin Tags(wire[x][h])
        BY <2>3, <2>6, Connections DEF Welcome
      <3> QED
        BY <2>2, <2>3, <2>4, <2>7, <3>1, <3>2 DEF Codes
    <2>9. role'[h] = r /\ (In(x)' <=> In(x))
      BY <2>1, <2>2, <2>4, <2>5 DEF In
    <2>10. /\ r = None => ~Loading(h)' /\ ~Plays(h)'
           /\ r # None => (Loading(h)' <=> r.st = "LOADING") /\ (Plays(h)' <=> r.st = "OK")
      BY <2>9 DEF Loading, Plays
    \* A letter of the gate.
    <2>11. CASE q = x
      <3>1. /\ Tag(Incoming(q, g)) \in {"ready", "OFFLINE"} /\ q \in Gates
        BY <2>3, <2>8, <2>11
      <3>2. Answers(out, {}, {}, "ERROR") /\ IF role[g] = None THEN r = None
              ELSE r # None /\ r.st = role[g].st /\ r.gate = role[g].gate
        BY <1>2, <2>3, <3>1 DEF GameDeed, Goes, Codes
      <3>3. /\ (Loading(h)' <=> Loading(h)) /\ (Plays(h)' <=> Plays(h))
            /\ role'[h] # None => role'[h].gate = role[h].gate
        BY <2>4, <2>9, <2>10, <3>2 DEF Loading, Plays
      <3>4. gate'[x] # "WAIT" /\ (In(x)' => In(x) /\ h \in listed'[x])
        BY <2>5, <2>6, <2>9 DEF Welcome, Noted
      <3>5. (\A s \in Peers[g] \ {"db"} : Gets(out, s) = {}) /\ ~Asks(out)
        BY <3>2, Connections DEF Answers
      <3> QED
        BY <2>1, <2>2, <2>3, <2>4, <2>5, <3>3, <3>4, <3>5, StillTurn
    \* The game refuses, or center sends the player away.
    <2>12. ASSUME q # x, r = None, \A s \in Peers[g] \ {"db"} : Gets(out, s) \subseteq {"ERROR"},
                  ~Asks(out), ~Call(h)', ~Load(h)', ~Win(h, x)', ~In(x), ~Reg(x)
           PROVE  LoggedIn(x, h)'
      <3>1. "center" \in Peers[g] \ {"db"} /\ x \in Peers[g] \ {"db"}
        BY <2>3, <2>4
      <3>2. /\ "success" \notin Gets(out, x) /\ "load" \notin Gets(out, "db")
            /\ "entered" \notin Gets(out, "center") /\ "OFFLINE" \notin Gets(out, "center")
        BY <2>12, <3>1 DEF Asks
      <3>3. (Reg(x)' => Reg(x)) /\ (Ent(h)' => Ent(h))
        BY <2>2, <2>3, <2>4, <2>6, <3>2, PlacesMove
      <3>4. OnePlace(x, h)'
        BY <2>9, <2>12, <3>3 DEF OnePlace
      <3>5. OneLetter(x, h)'
        BY <2>2, <2>3, <2>4, <2>6, <3>2, LettersMove
      <3>6. Noted(x, h)'
        BY <2>1, <2>6, <2>9, <2>12, <3>3 DEF Noted
      <3>7. ~Somewhere({"LOGOUT"})'
        BY <2>2, <2>6, <2>12, MovesSomewhere DEF Welcome
      <3>8. \A s \in Peers[x] : "ERROR" \notin Tags(wire'[x][s])
        BY <2>2, <2>3, <2>4, <2>6, MovesTag, SMTT(60) DEF Welcome
      <3>9. \A k \in Kills : Never(wire'[h]["center"], k, "entered")
        BY <2>2, <2>3, <2>6, <3>2, MovesTag DEF Welcome
      <3>10. "OFFLINE" \notin Tags(wire'[h]["center"]) /\ "OFFLINE" \notin Tags(wire'["center"][h])
        BY <2>2, <2>3, <2>4, <2>6, <3>2, MovesTag DEF Welcome
      <3>11. Never(wire'[x]["center"], "reg", "OFFLINE")
        BY <2>2, <2>3, <2>4, <2>6, MovesTag DEF Welcome
      <3>12. Welcome(x, h)'
        BY <2>5, <2>6, <2>9, <2>12, <3>7, <3>8, <3>9, <3>10, <3>11 DEF Welcome
      <3> QED
        BY <3>4, <3>5, <3>6, <3>12 DEF LoggedIn
    \* Center's letter.
    <2>13. CASE q = "center" /\ Tag(Incoming(q, g)) = "ERROR"
      <3>1. r = None /\ Answers(out, {}, {}, "ERROR")
        BY <1>2, <2>3, <2>13 DEF GameDeed, Codes
      <3>2. Err
        BY <2>2, <2>3, <2>4, <2>13 DEF Err, Somewhere, Kills
      <3>3. ~Reg(x) /\ ~Call(h) /\ ~Load(h) /\ ~Win(h, x) /\ ~In(x)
        BY <2>6, <3>2 DEF OnePlace
      <3>4. (\A s \in Peers[g] \ {"db"} : Gets(out, s) = {}) /\ ~Asks(out)
        BY <3>1, Connections DEF Answers
      <3>5. "success" \notin Gets(out, x) /\ "load" \notin Gets(out, "db")
        BY <2>3, <2>4, <3>4 DEF Asks
      <3>6. (Call(h)' => Call(h)) /\ (Win(h, x)' => Win(h, x)) /\ (Rec(h)' => Rec(h))
        BY <2>2, <2>3, <2>4, <2>6, <3>5, PlacesMove
      <3>7. ~Load(h)'
        BY <2>10, <3>1, <3>3, <3>6 DEF Load
      <3> QED
        BY <2>3, <2>12, <2>13, <3>1, <3>3, <3>4, <3>6, <3>7
    <2>14. CASE q = "center" /\ Tag(Incoming(q, g)) \in CallTags
      <3>1. Call(h) /\ ~Reg(x) /\ ~Load(h) /\ ~Win(h, x) /\ ~In(x) /\ ~Err
        BY <2>2, <2>4, <2>6, <2>14 DEF Call, OnePlace
      <3>2. Incoming(q, g).gate = x
        BY <2>1, <2>4, <2>5, <2>14, SessionTags DEF CallTags
      <3>3. user # None /\ user.gate = x /\ "OFFLINE" \notin Tags(wire[x]["center"])
        BY <2>6, <3>1 DEF Noted, Welcome
      <3>4. ~Call(h)'
        BY <2>2, <2>3, <2>4, <2>6, <2>14, PlacesMove
      <3>5. \/ Goes(r, "LOADING", x, "login") /\ Only(out, {"db"}, "load")
            \/ r = None /\ Answers(out, {"ERROR"}, Gates, "ERROR")
            \/ Goes(r, "OK", x, "relogin") /\ Answers(out, {"entered"}, {x}, "success")
        BY <1>2, <2>3, <2>4, <2>14, <3>2 DEF GameDeed, CallTags, Codes
      <3>6. CASE Goes(r, "LOADING", x, "login") /\ Only(out, {"db"}, "load")
        <4>1. Loading(h)' /\ Load(h)' /\ role'[h].gate = x
          BY <2>9, <2>10, <3>6 DEF Goes, Load
        <4>2. \A s : s # "db" => Gets(out, s) = {}
          BY <3>6 DEF Only
        <4>3. (Reg(x)' => Reg(x)) /\ (Win(h, x)' => Win(h, x)) /\ (Err' => Err)
          BY <2>2, <2>3, <2>4, <2>6, <4>2, PlacesMove
        <4>4. OnePlace(x, h)'
          BY <2>9, <3>1, <3>4, <4>3 DEF OnePlace
        <4>5. OneLetter(x, h)'
          <5>1. ~Rec(h)
            BY <3>1 DEF Load
          <5> QED
            BY <2>2, <2>3, <2>4, <2>6, <4>2, <5>1, LettersMove
        <4>6. Noted(x, h)'
          BY <2>1, <2>9, <3>1, <3>3, <3>4, <4>1, <4>3 DEF Noted
        <4>7. Welcome(x, h)'
          <5>1. \A s : Gets(out, s) \subseteq {"load"}
            BY <3>6 DEF Only
          <5> QED
            BY <2>2, <2>3, <2>4, <2>5, <2>6, <3>1, <5>1, WelcomeMoves
        <4> QED
          BY <4>4, <4>5, <4>6, <4>7 DEF LoggedIn
      <3>7. CASE r = None /\ Answers(out, {"ERROR"}, Gates, "ERROR")
        <4>1. (\A s \in Peers[g] \ {"db"} : Gets(out, s) \subseteq {"ERROR"}) /\ ~Asks(out)
          BY <3>7, Connections DEF Answers
        <4>2. "success" \notin Gets(out, x) /\ "load" \notin Gets(out, "db")
          BY <2>3, <2>4, <4>1 DEF Asks
        <4>3. (Win(h, x)' => Win(h, x)) /\ (Rec(h)' => Rec(h))
          BY <2>2, <2>3, <2>4, <2>6, <4>2, PlacesMove
        <4>4. ~Load(h)'
          BY <2>10, <3>1, <3>7, <4>3 DEF Load
        <4> QED
          BY <2>3, <2>12, <2>14, <3>1, <3>4, <3>7, <4>1, <4>3, <4>4
      <3>8. CASE Goes(r, "OK", x, "relogin") /\ Answers(out, {"entered"}, {x}, "success")
        <4>1. ~Loading(h)' /\ Plays(h)' /\ role'[h].gate = x
          BY <2>9, <2>10, <3>8 DEF Goes
        <4>2. /\ \A s \in Peers[g] \ {"db"} : Gets(out, s) \subseteq {"entered", "success"}
              /\ Gets(out, "center") = {"entered"} /\ Gets(out, x) = {"success"} /\ ~Asks(out)
              /\ \A s \in Peers[g] \ {"db"} : Gets(out, s) \cap Kills = {}
          BY <3>8, Connections DEF Answers, Kills
        <4>3. /\ Reg(x)' => Reg(x)
              /\ Rec(h)' => Rec(h)
              /\ Err' => Err
              /\ Ent(h)'
          BY <2>2, <2>3, <2>4, <2>6, <4>2, PlacesMove DEF Asks
        <4>4. ~Load(h)'
          BY <3>1, <4>1, <4>3 DEF Load
        <4>5. OnePlace(x, h)'
          BY <2>9, <3>1, <3>4, <4>3, <4>4 DEF OnePlace
        <4>6. OneLetter(x, h)'
          BY <2>2, <2>3, <2>4, <2>6, <3>1, <4>2, LettersMove DEF Asks
        <4>7. Noted(x, h)'
          BY <2>1, <2>9, <3>1, <3>3, <3>4, <4>1, <4>3, <4>4 DEF Noted
        <4>8. Welcome(x, h)'
          <5>1. "OFFLINE" \notin Tags(wire'[x]["center"])
            BY <2>2, <2>3, <2>4, <3>3, MovesTag
          <5>2. \A s \in Peers[g] \ {"db"} : "LOGOUT" \notin Gets(out, s) /\ "OFFLINE" \notin Gets(out, s)
            BY <4>2
          <5> QED
            BY <2>2, <2>3, <2>4, <2>5, <2>6, <3>1, <4>2, <5>1, <5>2, WelcomeMoves
        <4> QED
          BY <4>5, <4>6, <4>7, <4>8 DEF LoggedIn
      <3> QED
        BY <3>5, <3>6, <3>7, <3>8
    \* The record.
    <2>15. CASE q = "db" /\ Tag(Incoming(q, g)) = "record"
      <3>1. Rec(h) /\ Load(h)
        BY <2>2, <2>4, <2>15 DEF Rec, Load
      <3>2. /\ ~Reg(x) /\ ~Call(h) /\ ~Win(h, x) /\ ~In(x) /\ ~Err
            /\ Loading(h) /\ role[h].gate = x /\ user # None /\ user.gate = x
            /\ "OFFLINE" \notin Tags(wire[x]["center"])
        BY <2>6, <3>1 DEF OnePlace, Noted, Welcome
      <3>3. \/ Goes(r, "OK", x, role[g].type) /\ Answers(out, {"entered"}, {x}, "success")
            \/ r = None /\ Answers(out, {"ERROR"}, {x}, "ERROR")
        BY <1>2, <2>2, <2>3, <2>4, <2>15, <3>2 DEF GameDeed, Codes, Loading
      <3>4. /\ \A s \in Peers[g] \ {"db"} : Gets(out, s) \subseteq {"entered", "success", "ERROR"}
            /\ ~Asks(out)
        BY <3>3, Connections DEF Answers
      <3>5. (Call(h)' => Call(h)) /\ ~Rec(h)' /\ (Reg(x)' => Reg(x))
        <4>1. "record" \in Tags(wire["db"][h])
          BY <2>2, <2>4, <2>15
        <4> QED
          BY <2>2, <2>3, <2>4, <2>6, <2>15, <3>4, <4>1, PlacesMove DEF Asks
      <3>6. CASE Goes(r, "OK", x, role[g].type) /\ Answers(out, {"entered"}, {x}, "success")
        <4>1. ~Loading(h)' /\ Plays(h)' /\ role'[h].gate = x /\ ~Load(h)'
          BY <2>9, <2>10, <3>5, <3>6 DEF Goes, Load
        <4>2. /\ Gets(out, "center") = {"entered"} /\ Gets(out, x) = {"success"}
              /\ \A s \in Peers[g] \ {"db"} : Gets(out, s) \subseteq {"entered", "success"}
              /\ \A s \in Peers[g] \ {"db"} : Gets(out, s) \cap Kills = {}
          BY <3>6, Connections DEF Answers, Kills
        <4>3. (Err' => Err) /\ Ent(h)'
          BY <2>2, <2>3, <2>4, <2>6, <4>2, PlacesMove
        <4>4. OnePlace(x, h)'
          BY <2>9, <3>2, <3>5, <4>1, <4>3 DEF OnePlace
        <4>5. OneLetter(x, h)'
          BY <2>2, <2>3, <2>4, <2>6, <3>2, <3>4, <4>2, LettersMove DEF Asks
        <4>6. Noted(x, h)'
          BY <2>1, <2>9, <3>2, <3>5, <4>1, <4>3 DEF Noted
        <4>7. Welcome(x, h)'
          <5>1. \A s \in Peers[g] \ {"db"} : "LOGOUT" \notin Gets(out, s) /\ "OFFLINE" \notin Gets(out, s)
            BY <4>2
          <5> QED
            BY <2>2, <2>3, <2>4, <2>5, <2>6, <3>1, <3>2, <4>2, <5>1, WelcomeMoves
        <4> QED
          BY <4>4, <4>5, <4>6, <4>7 DEF LoggedIn
      <3>7. CASE r = None /\ Answers(out, {"ERROR"}, {x}, "ERROR")
        <4>1. \A s \in Peers[g] \ {"db"} : Gets(out, s) \subseteq {"ERROR"}
          BY <3>7, Connections DEF Answers
        <4>2. "success" \notin Gets(out, x)
          BY <2>3, <2>4, <4>1
        <4>3. Win(h, x)' => Win(h, x)
          BY <2>2, <2>3, <2>4, <2>6, <4>2, PlacesMove
        <4>4. ~Load(h)'
          BY <2>10, <3>5, <3>7 DEF Load
        <4> QED
          BY <2>3, <2>12, <2>15, <3>2, <3>4, <3>5, <3>7, <4>1, <4>3, <4>4
      <3> QED
        BY <3>3, <3>6, <3>7
    <2> QED
      BY <2>8, <2>11, <2>13, <2>14, <2>15
  <1> QED
    BY <1>1, <1>2, GameDoes

LEMMA OwnTurns ==
    ASSUME TypeOK, AtHome, Turns, NEW g \in Games, Jump(g) \/ Play(g) \/ Autosave(g), jumps' = 0
    PROVE  Turns'
  <1>1. /\ g \in Processes /\ up = Links /\ role \in [Games -> Roles \cup {None}]
        /\ jumps \in Nat /\ g # "center" /\ g # "db" /\ g \notin Gates
    BY Connections DEF AtHome, TypeOK
  <1>2. CASE Play(g)
    <2>1. /\ UNCHANGED <<gate, listed, user, home, known, wire, up, jumps, faults, hurries, repeated>>
          /\ Plays(g) /\ Goes(role'[g], role[g].st, role[g].gate, role[g].type)
          /\ \A h \in Games \ {g} : role'[h] = role[h]
      BY <1>2, PlayDoes
    <2>2. \A h \in Games : /\ Loading(h)' <=> Loading(h)
                           /\ Plays(h)' <=> Plays(h)
                           /\ role'[h] # None => role'[h].gate = role[h].gate
      BY <2>1 DEF Goes, Loading, Plays
    <2>3. ASSUME NEW x \in Gates, NEW h \in Games, gate[x] # "NONE", h = home
          PROVE  LoggedIn(x, h)'
      <3>1. LoggedIn(x, h)
        BY <2>3 DEF Turns
      <3>2. wire' = wire /\ gate' = gate /\ user' = user /\ listed' = listed
        BY <2>1
      <3>3. /\ Reg(x)' <=> Reg(x)
            /\ Call(h)' <=> Call(h)
            /\ Rec(h)' <=> Rec(h)
            /\ Win(h, x)' <=> Win(h, x)
            /\ In(x)' <=> In(x)
            /\ Ent(h)' <=> Ent(h)
            /\ Err' <=> Err
            /\ Somewhere({"LOGOUT"})' <=> Somewhere({"LOGOUT"})
        BY <3>2 DEF Reg, Call, Rec, Win, In, Ent, Err, Somewhere
      <3>4. Load(h)' <=> Load(h)
        BY <2>2, <3>3 DEF Load
      <3>5. OnePlace(x, h)'
        BY <3>1, <3>3, <3>4 DEF LoggedIn, OnePlace
      <3>6. OneLetter(x, h)'
        BY <3>1, <3>2 DEF LoggedIn, OneLetter
      <3>7. Noted(x, h)'
        <4>1. Plays(h)' \/ Loading(h)' => role'[h] # None
          BY DEF Plays, Loading
        <4> QED
          BY <2>2, <3>1, <3>2, <3>3, <3>4, <4>1 DEF LoggedIn, Noted
      <3>8. Welcome(x, h)'
        <4>1. Welcome(x, h)
          BY <3>1 DEF LoggedIn
        <4>2. /\ Tags(wire'[x]["center"]) = Tags(wire[x]["center"])
              /\ Tags(wire'[h]["center"]) = Tags(wire[h]["center"])
              /\ Tags(wire'["center"][h]) = Tags(wire["center"][h])
              /\ \A q : Tags(wire'[x][q]) = Tags(wire[x][q])
              /\ \A k : Never(wire'[h]["center"], k, "entered") <=> Never(wire[h]["center"], k, "entered")
              /\ Never(wire'[x]["center"], "reg", "OFFLINE") <=> Never(wire[x]["center"], "reg", "OFFLINE")
          BY <3>2
        <4> QED
          BY <3>2, <3>3, <3>4, <4>1, <4>2 DEF Welcome
      <3> QED
        BY <3>5, <3>6, <3>7, <3>8 DEF LoggedIn
    <2> QED
      BY <2>1, <2>3 DEF Turns
  <1>3. CASE Jump(g) \/ Autosave(g)
    <2>1. PICK out : OwnDeed(g, out)
      BY <1>3, OwnDoes
    <2>2. /\ Send(g, out) /\ Answers(out, {}, {}, "ERROR") /\ role' = role
          /\ gate' = gate /\ listed' = listed /\ user' = user /\ home' = home
      BY <1>1, <2>1 DEF OwnDeed
    <2>3. Moves(g, g, out)
      BY <1>1, <2>2, SendMoves
    <2>4. (\A s \in Peers[g] \ {"db"} : Gets(out, s) = {}) /\ ~Asks(out)
      BY <2>2, Connections DEF Answers
    <2>5. ASSUME NEW x \in Gates, NEW h \in Games, gate[x] # "NONE", h = home
          PROVE  LoggedIn(x, h)'
      <3>1. LoggedIn(x, h)
        BY <2>5 DEF Turns
      <3>2. /\ gate'[x] # "WAIT" /\ (In(x)' => In(x) /\ h \in listed'[x])
            /\ (Loading(h)' <=> Loading(h)) /\ (Plays(h)' <=> Plays(h)) /\ role'[h] = role[h] /\ user' = user
        BY <2>2, <3>1 DEF LoggedIn, Welcome, Noted, In, Loading, Plays
      <3>3. "center" \in Peers[g] \ {"db"}
        BY Connections
      <3> QED
        BY <1>1, <2>3, <2>4, <3>1, <3>2, <3>3, StillTurn
    <2> QED
      BY <2>2, <2>5 DEF Turns
  <1> QED
    BY <1>2, <1>3

\* Nothing but what the player and its roles do, and no login that overtakes another.
Tame == Clean /\ ~repeated

LEMMA RepeatedStays ==
    ASSUME [Next]_vars, repeated
    PROVE  repeated'
  <1>1. ASSUME NEW a \in Gates, PlayerStep(a)
        PROVE  repeated' = repeated \/ repeated' = (repeated \/ UnderWay)
    BY <1>1 DEF PlayerStep, Arrive, LoginGame, Ready, Leave, Expire, MsgBomb, GateDrops, GateMoves
  <1>2. \A a \in Gates : GateStep(a) => repeated' = repeated
    BY ZenonT(60) DEF GateStep, GateCleared, GateHearsError, GateHearsSuccess, GateHearsCross, GateLosesGame,
       GateHandles, counters, histories
  <1>3. CenterStep => repeated' = repeated
    BY DEF CenterStep, CenterRegs, CenterCrosses, CenterLosesGate, CenterUnregs, CenterEntered,
       CenterLosesGame, CenterLearns, CenterHandles, counters, histories
  <1>4. \A g \in Games : GameStep(g) => repeated' = repeated
    <2>1. \A q, g, r, out : GameHandles(q, g, r, out) => repeated' = repeated
      BY DEF GameHandles
    <2>2. \A g : DbHandles(g) => repeated' = repeated
      BY DEF DbHandles, counters, histories
    <2> QED
      BY <2>1, <2>2, ZenonT(60) DEF GameStep, GameRegs, GameRelogs, GameClears, GameLoads, GameLosesDb, GameUnregs,
         GameReady, GameLosesGate, Refuse
  <1>5. \A g \in Games : Jump(g) \/ Play(g) \/ Autosave(g) => repeated' = repeated
    BY DEF Jump, Play, Autosave, counters, histories
  <1>6. Fault => repeated' = repeated
    BY DEF Fault, CenterLosesDb, LinkFails, Crash, histories
  <1>7. \A l \in Links : LinkReturns(l) => repeated' = repeated
    BY DEF LinkReturns, counters, histories
  <1>8. UNCHANGED vars => repeated' = repeated
    BY DEF vars, counters, histories
  <1> QED
    BY <1>1, <1>2, <1>3, <1>4, <1>5, <1>6, <1>7, <1>8 DEF Next

LEMMA InitTurns == Init => Turns
  BY DEF Init, Turns

LEMMA NextTurns ==
    ASSUME TypeOK, Clean => Answerable, Calm => AtHome, Calm /\ Tame => Turns,
           [Next]_vars, Calm', Tame'
    PROVE  Turns'
  <1>1. /\ Answerable /\ hurries' = hurries /\ AtHome /\ ~repeated /\ jumps' = 0
        /\ \/ \E a \in Gates : PlayerStep(a) \/ GateStep(a)
           \/ CenterStep
           \/ \E g \in Games : GameStep(g) \/ Jump(g) \/ Play(g) \/ Autosave(g)
           \/ UNCHANGED vars
    BY CleanBefore, NextHome, RepeatedStays DEF Tame, Calm
  <1>2. Turns
    BY <1>1, Incidents DEF Tame, Clean, Calm
  <1>3. CASE UNCHANGED vars
    BY <1>2, <1>3 DEF vars, gateVars, centerVars, dataVars, Turns, LoggedIn, OnePlace, OneLetter,
       Noted, Welcome, Reg, Call, Load, Rec, Loading, Plays, Win, In, Ent, Err, Somewhere
  <1> QED
    BY <1>1, <1>2, <1>3, PlayerTurns, GateTurns, CenterTurns, GameTurns, OwnTurns DEF Tame

----------------------------------------------------------------------------
(* A jump, as long as nothing else happens.  The old game has deleted the  *)
(* role before it tells the gate; then the news travels through the gate   *)
(* (Crossing) and center (Moving) to the new game, which loads the role,   *)
(* and center hears that it did (Moved).  Along the way the player may     *)
(* leave, return and log in again, and center may forget it; when the news *)
(* has arrived, or cannot be taken any more, the role has a home (Settled).*)

\* Whom the gate deleted is in no game's list.
Unlisted == \A a \in Gates : gate[a] = "NONE" => listed[a] = {}

\* The other gates do not have the player, and said all they had to say.
Alone(x) == \A b \in Gates \ {x} : gate[b] = "NONE" /\ \A q \in Peers[b] : Tags(wire[b][q]) = {}

\* Game g has no trace of the role, and center will not hear that it came by a jump.
Empty(g) == Vacant(g) /\ "entered_jump" \notin Tags(wire[g]["center"])

\* The news of a jump will not be taken: gate a is not in a scene when it comes.
Doomed(a) ==
    /\ gate[a] \notin {"SCENE", "WAIT"}
    /\ gate[a] = "LOGIN" => Never(wire[home][a], "success", "cross")
    /\ \A g \in Games \ {home} : "success" \notin Tags(wire[g][a])

\* The jump is over, it arrived or it never will: every trace of the role is at home.
Settled ==
    /\ \A g \in Games \ {home} : Empty(g) /\ \A a \in Gates : "cross" \notin Tags(wire[g][a])
    /\ \A a \in Gates : /\ "cross" \notin Tags(wire[a]["center"])
                        /\ "cross" \in Tags(wire[home][a]) => Doomed(a)

\* No game has the role or is asked for it, or will hear of an error.
Between ==
    /\ \A g \in Games : role[g] = None
    /\ ~Somewhere({"reg_scene", "reg_jump", "relogin", "entered_jump", "ERROR"})

\* The old game told gate a of the jump, which will take it.
Crossing(a) ==
    /\ Between /\ ~Somewhere({"reg", "LOGOUT"})
    /\ "cross" \in Tags(wire[home][a]) /\ Never(wire[home][a], "cross", "cross")
    /\ \A b \in Gates, g \in Games : b # a \/ g # home => Tags(wire[g][b]) \cap {"cross", "success"} = {}
    /\ \A b \in Gates : "cross" \notin Tags(wire[b]["center"])
    /\ \/ gate[a] = "SCENE" /\ "success" \notin Tags(wire[home][a])
       \/ /\ gate[a] = "LOGIN" /\ "success" \in Tags(wire[home][a])
          /\ Never(wire[home][a], "success", "success") /\ Never(wire[home][a], "cross", "success")
    /\ user # None /\ user.gate = a

\* Gate a told center of the jump.
Moving(a) ==
    /\ Between /\ Alone(a)
    /\ "cross" \in Tags(wire[a]["center"]) /\ Never(wire[a]["center"], "cross", "cross")
    /\ Never(wire[a]["center"], "reg", "cross") /\ Never(wire[a]["center"], "LOGOUT", "cross")
    /\ Never(wire[a]["center"], "LOGOUT", "reg")
    /\ \A b \in Gates, g \in Games : Tags(wire[g][b]) \cap {"cross", "success"} = {}
    /\ \A p \in Processes : \A q \in Peers[p] \ {"db"} :
         "LOGOUT" \in Tags(wire[p][q]) => p = a /\ q = "center" /\ gate[a] = "NONE"
    /\ listed[a] = {} /\ gate[a] # "SCENE"
    /\ user # None /\ user.gate = a

\* Gate x has the player, or its last login has yet to be heard.
Live(x) == gate[x] # "NONE" \/ Reg(x)

\* Then the role that jumped to game t is for gate x, and center knows its user as
\* long as there is a trace of it.
Owner(t, x) ==
    /\ Alone(x) /\ \A b \in Gates \ {x} : "success" \notin Tags(wire[t][b])
    /\ listed[x] \subseteq {t}
    /\ user = None \/ user.gate # x => Empty(t)
    /\ \A g \in Games \ {t} : Tags(wire[g]["center"]) \cap Kills = {} /\ Tags(wire[x][g]) \cap Kills = {}
    /\ \A k \in Kills : Never(wire[x]["center"], k, "reg")
    /\ gate[x] # "NONE" => Tags(wire[x]["center"]) \cap Kills = {}
    /\ role[t] # None => role[t].gate = x
    /\ \A m \in Letters(wire["center"][t]) : m.kind \in {"reg_scene", "relogin"} => m.gate = x

\* What came to game t with a jump.
Landed(t) ==
    /\ Loading(t) => role[t].type \in {"jump", "none"}
    /\ Plays(t) => "entered_jump" \in Tags(wire[t]["center"]) \/ Tags(wire["center"][t]) \cap Kills # {}
    /\ Tags(wire[t]["center"]) \cap Kills # {} => Vacant(t)
    /\ \A k \in Kills : Never(wire[t]["center"], k, "entered_jump")

\* Game t has yet to hear of the jump.
Landing(t) ==
    /\ "reg_scene" \notin Tags(wire["center"][t])
    /\ Never(wire["center"][t], "reg_jump", "reg_jump") /\ Never(wire["center"][t], "relogin", "reg_jump")
    /\ "reg_jump" \in Tags(wire["center"][t]) =>
         /\ role[t] = None
         /\ \A b \in Gates : /\ "success" \notin Tags(wire[t][b]) /\ t \notin listed[b]
                             /\ Tags(wire[b][t]) \cap Kills = {}

\* No other game than t has a trace of the role.
Left(t) ==
    /\ \A g \in Games \ {t} : /\ Empty(g) /\ "relogin" \notin Tags(wire["center"][g])
                              /\ \A b \in Gates : "success" \notin Tags(wire[g][b])
    /\ \A b \in Gates : /\ "cross" \notin Tags(wire[b]["center"])
                        /\ \A g \in Games : "cross" \notin Tags(wire[g][b])

\* Center sent the player on to game t, and has not heard that it came there.
Moved(t) ==
    /\ Left(t)
    /\ user # None => user.game = t
    /\ Landed(t) /\ Landing(t)
    /\ \A x \in Gates : Live(x) => Owner(t, x)

Jumped ==
    \/ Settled
    \/ \E a \in Gates : Crossing(a) \/ Moving(a)
    \/ \E t \in Games : Moved(t)

LEMMA NextUnlisted ==
    ASSUME TypeOK, Unlisted, [Next]_vars
    PROVE  Unlisted'
  <1>1. gate \in [Gates -> States] /\ listed \in [Gates -> SUBSET Games]
    BY DEF TypeOK, States
  <1>2. ASSUME NEW a \in Gates, PlayerStep(a)
        PROVE  Unlisted'
    <2>1. PICK st, out : PlayerDeed(a, st, out)
      BY <1>2, PlayerDoes
    <2>2. gate' = [gate EXCEPT ![a] = st]
      BY <2>1 DEF PlayerDeed, GateMoves
    <2>3. (listed' = listed /\ st # "NONE") \/ listed' = [listed EXCEPT ![a] = {}]
      BY <2>1 DEF PlayerDeed
    <2> QED
      BY <1>1, <2>2, <2>3 DEF Unlisted
  <1>3. ASSUME NEW a \in Gates, NEW q, NEW st, NEW lst, NEW out, GateHandles(q, a, st, lst, out),
               st = "NONE" => lst = {} \/ (gate[a] = "NONE" /\ lst = listed[a])
        PROVE  Unlisted'
    <2>1. gate' = [gate EXCEPT ![a] = st] /\ listed' = [listed EXCEPT ![a] = lst]
      BY <1>3 DEF GateHandles
    <2> QED
      BY <1>1, <1>3, <2>1 DEF Unlisted
  <1>4. ASSUME NEW a \in Gates, GateStep(a)
        PROVE  Unlisted'
    <2>1. \A q : GateHearsError(q, a) => Unlisted'
      BY <1>3 DEF GateHearsError
    <2>2. \A g : GateHearsSuccess(g, a) => Unlisted'
      BY <1>3 DEF GateHearsSuccess
    <2>3. \A g : GateHearsCross(g, a) => Unlisted'
      BY <1>3 DEF GateHearsCross
    <2>4. GateCleared(a) => Unlisted'
      BY <1>3 DEF GateCleared
    <2>5. \A g : GateLosesGame(g, a) => Unlisted'
      BY <1>3 DEF GateLosesGame
    <2> QED
      BY <1>4, <2>1, <2>2, <2>3, <2>4, <2>5 DEF GateStep
  <1>5. ASSUME UNCHANGED <<gate, listed>>
        PROVE  Unlisted'
    BY <1>5 DEF Unlisted
  <1>6. CenterStep => UNCHANGED <<gate, listed>>
    BY DEF CenterStep, CenterRegs, CenterCrosses, CenterLosesGate, CenterUnregs, CenterEntered,
       CenterLosesGame, CenterLearns, CenterHandles, gateVars
  <1>7. \A g \in Games : GameStep(g) => UNCHANGED <<gate, listed>>
    <2>1. \A q, g, r, out : GameHandles(q, g, r, out) => UNCHANGED <<gate, listed>>
      BY DEF GameHandles, gateVars
    <2>2. \A g : DbHandles(g) => UNCHANGED <<gate, listed>>
      BY DEF DbHandles, gateVars
    <2> QED
      BY <2>1, <2>2 DEF GameStep, GameRegs, GameRelogs, GameClears, GameLoads, GameLosesDb, GameUnregs,
         GameReady, GameLosesGate, Refuse
  <1>8. \A g \in Games : Jump(g) \/ Play(g) \/ Autosave(g) => UNCHANGED <<gate, listed>>
    BY DEF Jump, Play, Autosave, gateVars
  <1>9. CenterLosesDb \/ (\E l \in Links : LinkFails(l) \/ LinkReturns(l)) => UNCHANGED <<gate, listed>>
    BY DEF CenterLosesDb, LinkFails, LinkReturns, gateVars
  <1>10. ASSUME NEW p, Crash(p)
         PROVE  Unlisted'
    <2>1. /\ gate' = [a \in Gates |-> IF a = p THEN "NONE" ELSE gate[a]]
          /\ listed' = [a \in Gates |-> IF a = p THEN {} ELSE listed[a]]
      BY <1>10 DEF Crash
    <2> QED
      BY <2>1 DEF Unlisted
  <1>11. UNCHANGED vars => UNCHANGED <<gate, listed>>
    BY DEF vars, gateVars
  <1> QED
    BY <1>2, <1>4, <1>5, <1>6, <1>7, <1>8, <1>9, <1>10, <1>11 DEF Next, Fault

LEMMA WholeTags ==
    ASSUME TypeOK, Whole
    PROVE  /\ up = Links /\ known = Games
           /\ \A p \in Processes : \A q \in Peers[p] : Tags(wire[p][q]) \cap {"closed", "kick_all", "syn"} = {}
  <1>1. ASSUME NEW p \in Processes, NEW q \in Peers[p], NEW t \in Tags(wire[p][q]),
               t \in {"closed", "kick_all", "syn"}
        PROVE  FALSE
    <2>1. PICK m \in Letters(wire[p][q]) : Tag(m) = t /\ m \in Msgs
      BY Channels, TagLetters
    <2>2. m.kind \in {"closed", "kick_all", "syn"}
      BY <1>1, <2>1, TagMeans
    <2> QED
      BY <2>2 DEF Whole
  <1> QED
    BY <1>1 DEF Whole

----------------------------------------------------------------------------
(* The jump is over.                                                       *)

LEMMA DoomedMoves ==
    ASSUME up = Links, NEW a \in Gates, Doomed(a), home \in Games, home' = home,
           NEW p, NEW q, NEW out, Moves(p, q, out),
           gate'[a] \notin {"SCENE", "WAIT"},
           gate'[a] = "LOGIN" => gate[a] = "LOGIN" \/ "success" \notin Tags(wire[home][a]),
           p \in Games => "cross" \notin Gets(out, a) /\ (p # home => "success" \notin Gets(out, a))
    PROVE  Doomed(a)'
  <1>1. \A g \in Games : g \in Processes /\ a \in Peers[g]
    BY Connections
  <1>2. \A g \in Games \ {home} : "success" \notin Tags(wire'[g][a])
    BY <1>1, MovesTag DEF Doomed
  <1>3. gate'[a] = "LOGIN" => Never(wire'[home][a], "success", "cross")
    <2>1. gate'[a] = "LOGIN" => Never(wire[home][a], "success", "cross")
      BY TagsEmpty DEF Doomed
    <2> QED
      BY <1>1, <2>1, MovesTag
  <1> QED
    BY <1>2, <1>3 DEF Doomed

LEMMA SettledMoves ==
    ASSUME up = Links, Settled, home \in Games, home' = home,
           NEW p, NEW q, NEW out, Moves(p, q, out),
           \A g \in Games \ {home} : role'[g] = role[g] \/ role'[g] = None,
           p = "center" => \A g \in Games \ {home} : Gets(out, g) \cap {"reg_scene", "reg_jump"} = {},
           p \in Games /\ p # home => "entered_jump" \notin Gets(out, "center"),
           p \in Games => \A a \in Gates : "cross" \notin Gets(out, a),
           p \in Gates => "cross" \notin Gets(out, "center"),
           \A a \in Gates : "cross" \in Tags(wire'[home][a]) /\ Doomed(a) => Doomed(a)'
    PROVE  Settled'
  <1>1. /\ "center" \in Processes
        /\ \A g \in Games : /\ g \in Processes /\ g \in Peers["center"] /\ "center" \in Peers[g]
                            /\ \A a \in Gates : a \in Peers[g] /\ a \in Processes
        /\ \A a \in Gates : a \in Processes /\ "center" \in Peers[a]
    BY Connections
  <1>2. ASSUME NEW g \in Games \ {home}
        PROVE  Empty(g)' /\ \A a \in Gates : "cross" \notin Tags(wire'[g][a])
    <2>1. role'[g] = None /\ Tags(wire'["center"][g]) \cap {"reg_scene", "reg_jump"} = {}
      BY <1>1, MovesTag DEF Settled, Empty, Vacant
    <2>2. "entered_jump" \notin Tags(wire'[g]["center"])
      BY <1>1, MovesTag DEF Settled, Empty
    <2>3. \A a \in Gates : "cross" \notin Tags(wire'[g][a])
      BY <1>1, MovesTag DEF Settled
    <2> QED
      BY <2>1, <2>2, <2>3 DEF Empty, Vacant
  <1>3. ASSUME NEW a \in Gates
        PROVE  "cross" \notin Tags(wire'[a]["center"])
    BY <1>1, MovesTag DEF Settled
  <1>4. ASSUME NEW a \in Gates, "cross" \in Tags(wire'[home][a])
        PROVE  Doomed(a)'
    <2>1. "cross" \in Tags(wire[home][a])
      BY <1>1, <1>4, MovesTag
    <2> QED
      BY <1>4, <2>1 DEF Settled
  <1> QED
    BY <1>2, <1>3, <1>4 DEF Settled

LEMMA PlayerSettled ==
    ASSUME TypeOK, Whole, Settled, NEW a \in Gates, PlayerStep(a), ~repeated'
    PROVE  Settled'
  <1>1. PICK st, out : PlayerDeed(a, st, out)
    BY PlayerDoes
  <1>2. /\ a \in Processes /\ a \notin Games /\ a # "center" /\ Send(a, out)
        /\ UNCHANGED <<home, role>> /\ gate' = [gate EXCEPT ![a] = st]
        /\ gate \in [Gates -> States] /\ home \in Games /\ up = Links
    BY <1>1, Connections DEF PlayerDeed, GateMoves, centerVars, dataVars, TypeOK, States, Whole
  <1>3. Moves(a, a, out)
    BY <1>2, SendMoves
  <1>4. /\ "cross" \notin Gets(out, "center")
        /\ st # "WAIT" /\ (st = "SCENE" => gate[a] = "SCENE") /\ (st = "LOGIN" => LoginGame(a))
    <2>1. PICK T, t : (Mute(out) \/ Only(out, T, t)) /\ t \in {"reg", "ready", "OFFLINE", "LOGOUT"}
      BY <1>1 DEF PlayerDeed
    <2>2. "cross" \notin Gets(out, "center")
      BY <2>1 DEF Mute, Only
    <2> QED
      BY <1>1, <2>2 DEF PlayerDeed
  <1>5. ASSUME NEW b \in Gates, Doomed(b)
        PROVE  Doomed(b)'
    <2>1. CASE b # a
      <3>1. gate'[b] = gate[b]
        BY <1>2, <2>1
      <3> QED
        BY <1>2, <1>3, <1>5, <3>1, DoomedMoves DEF Doomed
    <2>2. CASE b = a
      <3>1. gate'[b] = st
        BY <1>2, <2>2
      <3>2. st = "LOGIN" => "success" \notin Tags(wire[home][b])
        <4>1. SUFFICES ASSUME st = "LOGIN"
                       PROVE  "success" \notin Tags(wire[home][b])
          OBVIOUS
        <4>2. ~UnderWay
          BY <1>4, <4>1 DEF LoginGame
        <4>3. home \in Processes /\ b \in Peers[home]
          BY <1>2, Connections
        <4> QED
          BY <4>2, <4>3, NotUnderWay
      <3>3. gate'[b] \notin {"SCENE", "WAIT"}
        BY <1>4, <1>5, <2>2, <3>1 DEF Doomed
      <3> QED
        BY <1>2, <1>3, <1>5, <3>1, <3>2, <3>3, DoomedMoves
    <2> QED
      BY <2>1, <2>2
  <1> QED
    BY <1>2, <1>3, <1>4, <1>5, SettledMoves

LEMMA GateSettled ==
    ASSUME TypeOK, Whole, Settled, NEW a \in Gates, GateStep(a)
    PROVE  Settled'
  <1>1. PICK q \in Peers[a] : \E st, lst, out : GateDeed(q, a, st, lst, out)
    BY GateDoes
  <1>2. PICK st, lst, out : GateDeed(q, a, st, lst, out)
    BY <1>1
  <1>3. /\ a \in Processes /\ a \notin Games /\ a # "center" /\ q \in Processes /\ a \in Peers[q]
        /\ Hears(a, q) /\ Handle(q, a, out)
        /\ UNCHANGED <<home, role>> /\ gate' = [gate EXCEPT ![a] = st]
        /\ gate \in [Gates -> States] /\ home \in Games /\ up = Links
    BY <1>2, Connections DEF GateDeed, GateHandles, centerVars, dataVars, TypeOK, States, Whole
  <1>4. Moves(a, q, out) /\ Tag(Incoming(q, a)) \in Tags(wire[q][a])
    BY <1>3, HandleMoves
  <1>5. Tag(Incoming(q, a)) \notin {"closed", "kick_all"}
    BY <1>3, <1>4, WholeTags
  <1>6. ~(q \in Games /\ Tag(Incoming(q, a)) = "cross" /\ gate[a] = "SCENE")
    BY <1>4 DEF Settled, Doomed
  <1>7. "cross" \notin Gets(out, "center")
    <2>1. PICK T, t : (Mute(out) \/ Only(out, T, t)) /\ t \in {"OFFLINE", "ERROR"}
      BY <1>2, <1>5, <1>6 DEF GateDeed
    <2> QED
      BY <2>1 DEF Mute, Only
  <1>8. ASSUME NEW b \in Gates, Doomed(b), "cross" \in Tags(wire'[home][b])
        PROVE  Doomed(b)'
    <2>1. CASE b # a
      <3>1. gate'[b] = gate[b]
        BY <1>3, <2>1
      <3> QED
        BY <1>3, <1>4, <1>8, <3>1, DoomedMoves DEF Doomed
    <2>2. CASE b = a
      <3>1. gate'[b] = st
        BY <1>3, <2>2
      <3>2. ~(q \in Games /\ Tag(Incoming(q, a)) = "success" /\ gate[a] \in {"LOGIN", "WAIT"})
        <4>1. SUFFICES ASSUME q \in Games, Tag(Incoming(q, a)) = "success", gate[a] = "LOGIN"
                       PROVE  FALSE
          BY <1>8, <2>2 DEF Doomed
        <4>2. q = home /\ Never(wire[home][a], "success", "cross")
          BY <1>4, <1>8, <2>2, <4>1 DEF Doomed
        <4> QED
          BY <1>3, <1>4, <1>8, <2>2, <4>1, <4>2, MovesTag
      <3>3. st \in {gate[a], "NONE", "OFFLINE"}
        BY <1>2, <1>5, <1>6, <3>2 DEF GateDeed
      <3>4. gate'[b] \notin {"SCENE", "WAIT"} /\ (gate'[b] = "LOGIN" => gate[b] = "LOGIN")
        BY <1>8, <2>2, <3>1, <3>3 DEF Doomed
      <3> QED
        BY <1>3, <1>4, <1>8, <3>4, DoomedMoves
    <2> QED
      BY <2>1, <2>2
  <1> QED
    BY <1>3, <1>4, <1>7, <1>8, SettledMoves

LEMMA CenterSettled ==
    ASSUME TypeOK, Whole, Settled, CenterStep
    PROVE  Settled'
  <1>1. PICK q \in Peers["center"] : \E u, h, k, out : CenterDeed(q, u, h, k, out)
    BY CenterDoes
  <1>2. PICK u, h, k, out : CenterDeed(q, u, h, k, out)
    BY <1>1
  <1>3. /\ "center" \in Processes /\ "center" \notin Games /\ "center" \notin Gates
        /\ q \in Processes /\ "center" \in Peers[q]
        /\ Hears("center", q) /\ Handle(q, "center", out)
        /\ UNCHANGED <<gate, role>> /\ home' = h /\ home \in Games /\ up = Links /\ known = Games
    BY <1>2, Connections DEF CenterDeed, CenterHandles, gateVars, dataVars, TypeOK, Whole
  <1>4. Moves("center", q, out) /\ Tag(Incoming(q, "center")) \in Tags(wire[q]["center"])
    BY <1>3, HandleMoves
  <1>5. /\ Tag(Incoming(q, "center")) \notin {"closed", "syn"}
        /\ ~(q \in Gates /\ Tag(Incoming(q, "center")) = "cross")
        /\ (q \in Games /\ Tag(Incoming(q, "center")) = "entered_jump" => q = home)
    BY <1>3, <1>4, WholeTags DEF Settled, Empty
  <1>6. home' = home /\ \A g \in Games \ {home} : Gets(out, g) \cap {"reg_scene", "reg_jump"} = {}
    <2>1. LoginScenes = {home}
      BY <1>3 DEF LoginScenes
    <2>2. h = home
      BY <1>2, <1>5, <2>1 DEF CenterDeed
    <2>3. PICK T, t : (Mute(out) \/ Only(out, T, t)) /\ (t \in {"relogin", "ERROR"} \/ T = {home})
      BY <1>2, <1>5, <2>2 DEF CenterDeed, Sends
    <2> QED
      BY <1>3, <2>2, <2>3 DEF Mute, Only
  <1>7. ASSUME NEW b \in Gates, Doomed(b)
        PROVE  Doomed(b)'
    BY <1>3, <1>4, <1>6, <1>7, DoomedMoves DEF Doomed
  <1> QED
    BY <1>3, <1>4, <1>6, <1>7, SettledMoves

LEMMA GameSettled ==
    ASSUME TypeOK, Whole, Settled, NEW g \in Games, GameStep(g)
    PROVE  Settled'
  <1>1. CASE Hears("db", g) /\ DbHandles(g)
    <2>1. PICK out : /\ Handle(g, "db", out)
                     /\ \/ Tag(Incoming(g, "db")) \in {"save", "closed"} /\ Mute(out)
                        \/ Tag(Incoming(g, "db")) = "load" /\ Only(out, {g}, "record")
                     /\ UNCHANGED <<gate, listed, user, home, known, role, up, jumps, faults, hurries, repeated>>
      BY <1>1, DbDoes
    <2>2. /\ "db" \in Processes /\ g \in Peers["db"] /\ "db" \notin Games /\ "db" \notin Gates /\ "db" # "center"
          /\ up = Links /\ home \in Games
      BY Connections DEF Whole, TypeOK
    <2>3. Moves("db", g, out)
      BY <1>1, <2>1, <2>2, HandleMoves
    <2>4. ASSUME NEW b \in Gates, Doomed(b)
          PROVE  Doomed(b)'
      BY <2>1, <2>2, <2>3, <2>4, DoomedMoves DEF Doomed
    <2> QED
      BY <2>1, <2>2, <2>3, <2>4, SettledMoves
  <1>2. ASSUME NEW q \in Peers[g], NEW r, NEW out, GameDeed(q, g, r, out)
        PROVE  Settled'
    <2>1. /\ g \in Processes /\ g \notin Gates /\ g # "center" /\ q \in Processes /\ g \in Peers[q]
          /\ Hears(g, q) /\ Handle(q, g, out)
          /\ UNCHANGED <<gate, home>> /\ role' = [role EXCEPT ![g] = r]
          /\ home \in Games /\ up = Links /\ role \in [Games -> Roles \cup {None}]
      BY <1>2, Connections DEF GameDeed, GameHandles, gateVars, centerVars, TypeOK, Whole
    <2>2. Moves(g, q, out) /\ Tag(Incoming(q, g)) \in Tags(wire[q][g])
      BY <2>1, HandleMoves
    <2>3. \A b \in Gates : "cross" \notin Gets(out, b)
      <3>1. PICK C, T, k : (Only(out, {"db"}, "load") \/ Answers(out, C, T, k)) /\ k \in {"ERROR", "success"}
        BY <1>2 DEF GameDeed
      <3> QED
        BY <3>1, Connections DEF Only, Answers
    <2>4. ASSUME g # home
          PROVE  /\ r = None /\ "entered_jump" \notin Gets(out, "center")
                 /\ \A b \in Gates : "success" \notin Gets(out, b)
      <3>1. role[g] = None /\ Tags(wire["center"][g]) \cap {"reg_scene", "reg_jump"} = {}
        BY <2>4 DEF Settled, Empty, Vacant
      <3>2. ~Plays(g) /\ (q = "center" => Tag(Incoming(q, g)) \notin {"reg_scene", "reg_jump"})
        BY <2>2, <3>1 DEF Plays
      <3>3. PICK C, T : /\ Answers(out, C, T, "ERROR") /\ C \subseteq {"ERROR", "LOGOUT"}
                        /\ r = None
        BY <1>2, <3>1, <3>2 DEF GameDeed
      <3> QED
        BY <3>3 DEF Answers
    <2>5. \A k \in Games \ {home} : role'[k] = role[k] \/ role'[k] = None
      BY <2>1, <2>4
    <2>6. ASSUME NEW b \in Gates, Doomed(b)
          PROVE  Doomed(b)'
      BY <2>1, <2>2, <2>3, <2>4, <2>6, DoomedMoves DEF Doomed
    <2> QED
      BY <2>1, <2>2, <2>3, <2>4, <2>5, <2>6, SettledMoves
  <1> QED
    BY <1>1, <1>2, GameDoes

LEMMA OwnSettled ==
    ASSUME TypeOK, Whole, Settled, NEW g \in Games, Jump(g) \/ Play(g) \/ Autosave(g), jumps' = jumps
    PROVE  Settled'
  <1>1. /\ g \in Processes /\ up = Links /\ role \in [Games -> Roles \cup {None}] /\ home \in Games
        /\ jumps \in Nat /\ g # "center" /\ g # "db" /\ g \notin Gates
    BY Connections DEF Whole, TypeOK
  <1>2. CASE Play(g)
    <2>1. /\ UNCHANGED <<gate, listed, user, home, known, wire, up, jumps, faults, hurries, repeated>>
          /\ Plays(g) /\ Goes(role'[g], role[g].st, role[g].gate, role[g].type)
          /\ \A h \in Games \ {g} : role'[h] = role[h]
      BY <1>2, PlayDoes
    <2>2. g = home
      BY <2>1 DEF Settled, Empty, Vacant, Plays
    <2> QED
      BY <2>1, <2>2 DEF Settled, Empty, Vacant, Doomed
  <1>3. CASE Jump(g) \/ Autosave(g)
    <2>1. PICK out : OwnDeed(g, out)
      BY <1>3, OwnDoes
    <2>2. /\ Send(g, out) /\ Answers(out, {}, {}, "ERROR") /\ role' = role
          /\ gate' = gate /\ home' = home
      BY <1>1, <2>1 DEF OwnDeed
    <2>3. Moves(g, g, out)
      BY <1>1, <2>2, SendMoves
    <2>4. Gets(out, "center") = {} /\ \A b \in Gates : Gets(out, b) = {}
      BY <2>2 DEF Answers
    <2>5. ASSUME NEW b \in Gates, Doomed(b)
          PROVE  Doomed(b)'
      BY <1>1, <2>2, <2>3, <2>4, <2>5, DoomedMoves DEF Doomed
    <2> QED
      BY <1>1, <2>2, <2>3, <2>4, <2>5, SettledMoves
  <1> QED
    BY <1>2, <1>3

----------------------------------------------------------------------------
(* The news of the jump travels: no game has the role.                     *)

\* MovesTag, channel by channel: one on which nothing is sent,
LEMMA MovesLess ==
    ASSUME up = Links, NEW p, NEW q, NEW out, Moves(p, q, out), NEW r \in Processes, NEW s \in Peers[r],
           r = p => Gets(out, s) = {}
    PROVE  /\ Tags(wire'[r][s]) \subseteq Tags(wire[r][s])
           /\ \A t, u : Never(wire[r][s], t, u) => Never(wire'[r][s], t, u)
  <1>1. \A t : t \in Tags(wire'[r][s]) => t \in Tags(wire[r][s])
    BY MovesTag
  <1>2. ASSUME NEW t, NEW u, Never(wire[r][s], t, u)
        PROVE  Never(wire'[r][s], t, u)
    BY <1>2, MovesTag
  <1> QED
    BY <1>1, <1>2

\* one on which p sends,
LEMMA MovesPut ==
    ASSUME up = Links, NEW p \in Processes, NEW q, NEW out, Moves(p, q, out), NEW s \in Peers[p]
    PROVE  /\ Tags(wire'[p][s]) \subseteq Tags(wire[p][s]) \cup Gets(out, s)
           /\ Gets(out, s) \subseteq Tags(wire'[p][s])
           /\ \A t, u : Never(wire[p][s], t, u) /\ ~(t \in Tags(wire[p][s]) /\ u \in Gets(out, s))
                          => Never(wire'[p][s], t, u)
  <1>1. \A t : t \in Tags(wire'[p][s]) => t \in Tags(wire[p][s]) \/ t \in Gets(out, s)
    BY MovesTag
  <1>2. \A t : t \in Gets(out, s) => t \in Tags(wire'[p][s])
    BY MovesTag
  <1>3. ASSUME NEW t, NEW u, Never(wire[p][s], t, u), ~(t \in Tags(wire[p][s]) /\ u \in Gets(out, s))
        PROVE  Never(wire'[p][s], t, u)
    BY <1>3, MovesTag
  <1> QED
    BY <1>1, <1>2, <1>3

\* a letter that is not taken,
LEMMA MovesKeep ==
    ASSUME up = Links, NEW p, NEW q, NEW out, Moves(p, q, out), NEW r \in Processes, NEW s \in Peers[r],
           NEW t \in Tags(wire[r][s]), ~(r = q /\ s = p /\ t = Tag(Incoming(q, p)))
    PROVE  t \in Tags(wire'[r][s])
  BY MovesTag

\* and what does not come behind the one that is.
LEMMA MovesHead ==
    ASSUME up = Links, NEW p, NEW q \in Processes, p \in Peers[q], NEW out, Moves(p, q, out),
           NEW t, Never(wire[q][p], Tag(Incoming(q, p)), t)
    PROVE  t \notin Tags(wire'[q][p])
  BY MovesTag

\* The letters on the wire are those that were there, and those that p sends.
Carried(p, out) == \A r \in Processes : \A s \in Peers[r] : \A m \in Letters(wire'[r][s]) :
    m \in Letters(wire[r][s]) \/ (r = p /\ s \in DOMAIN out /\ m = out[s])

LEMMA SendCarries ==
    ASSUME TypeOK, up = Links, NEW p \in Processes, NEW out, Send(p, out)
    PROVE  Carried(p, out)
  <1>1. Fits(wire, Any)
    BY WireTypes DEF TypeOK
  <1>2. \A r \in Processes : \A s \in Peers[r] : After(wire[r][s], wire'[r][s], {}, Put(p, out, r, s))
    BY <1>1, SendLetters
  <1> QED
    BY <1>2 DEF After, Put, Carried

LEMMA HandleCarries ==
    ASSUME TypeOK, up = Links, NEW p \in Processes, NEW q \in Peers[p], NEW out, Hears(p, q), Handle(q, p, out)
    PROVE  Carried(p, out)
  <1>1. Fits(wire, Any)
    BY WireTypes DEF TypeOK
  <1>2. \A r \in Processes : \A s \in Peers[r] :
          After(wire[r][s], wire'[r][s], Taken(p, q, r, s), Put(p, out, r, s))
    BY <1>1, HandleLetters
  <1> QED
    BY <1>2, ZenonT(60) DEF After, Put, Carried

\* A game without a role that is not asked for one says nothing.
LEMMA IdleGame ==
    ASSUME TypeOK, up = Links, NEW g \in Games, GameStep(g), role[g] = None,
           Tags(wire["center"][g]) \cap {"reg_scene", "reg_jump", "relogin"} = {},
           \A b \in Gates : "LOGOUT" \notin Tags(wire[b][g])
    PROVE  \E p, q, out : /\ p \in Processes /\ Moves(p, q, out) /\ p \notin Gates /\ p # "center"
                          /\ Carried(p, out)
                          /\ \A s \in Peers[p] \ {"db"} : Gets(out, s) \subseteq {"record"}
                          /\ UNCHANGED <<gate, listed, user, home, role>>
  <1>1. CASE Hears("db", g) /\ DbHandles(g)
    <2>1. PICK out : /\ Handle(g, "db", out)
                     /\ \/ Tag(Incoming(g, "db")) \in {"save", "closed"} /\ Mute(out)
                        \/ Tag(Incoming(g, "db")) = "load" /\ Only(out, {g}, "record")
                     /\ UNCHANGED <<gate, listed, user, home, known, role, up, jumps, faults, hurries, repeated>>
      BY <1>1, DbDoes
    <2>2. "db" \in Processes /\ g \in Peers["db"] /\ "db" \notin Gates /\ "db" # "center"
      BY Connections
    <2>3. Moves("db", g, out) /\ Carried("db", out)
      BY <1>1, <2>1, <2>2, HandleMoves, HandleCarries
    <2>4. \A s : Gets(out, s) \subseteq {"record"}
      BY <2>1 DEF Mute, Only
    <2> QED
      BY <2>1, <2>2, <2>3, <2>4
  <1>2. ASSUME NEW q \in Peers[g], NEW r, NEW out, GameDeed(q, g, r, out)
        PROVE  \E o : /\ Moves(g, q, o) /\ Carried(g, o)
                      /\ \A s \in Peers[g] \ {"db"} : Gets(o, s) \subseteq {"record"}
                      /\ UNCHANGED <<gate, listed, user, home, role>>
    <2>1. /\ g \in Processes /\ Hears(g, q) /\ Handle(q, g, out)
          /\ UNCHANGED <<gate, listed, user, home>> /\ role' = [role EXCEPT ![g] = r]
          /\ role \in [Games -> Roles \cup {None}]
      BY <1>2, Connections DEF GameDeed, GameHandles, gateVars, centerVars, TypeOK
    <2>2. Moves(g, q, out) /\ Tag(Incoming(q, g)) \in Tags(wire[q][g]) /\ Carried(g, out)
      BY <2>1, HandleMoves, HandleCarries
    <2>3. ~Plays(g) /\ (q = "center" => Tag(Incoming(q, g)) \notin {"reg_scene", "reg_jump", "relogin"})
          /\ (q \in Gates => Tag(Incoming(q, g)) # "LOGOUT")
      BY <2>2 DEF Plays
    <2>4. r = None /\ Answers(out, {}, {}, "ERROR")
      BY <1>2, <2>3 DEF GameDeed
    <2>5. role' = role
      BY <2>1, <2>4
    <2>6. \A s \in Peers[g] \ {"db"} : Gets(out, s) = {}
      BY <2>4, Connections DEF Answers
    <2> QED
      BY <2>1, <2>2, <2>5, <2>6
  <1>3. g \in Processes /\ g \notin Gates /\ g # "center"
    BY Connections
  <1> QED
    BY <1>1, <1>2, <1>3, GameDoes

LEMMA BetweenMoves ==
    ASSUME Between, NEW p, NEW q, NEW out, Moves(p, q, out), role' = role,
           \A s \in Peers[p] \ {"db"} :
             Gets(out, s) \cap {"reg_scene", "reg_jump", "relogin", "entered_jump", "ERROR"} = {}
    PROVE  Between'
  <1>1. ~Somewhere({"reg_scene", "reg_jump", "relogin", "entered_jump", "ERROR"})'
    BY MovesSomewhere DEF Between
  <1> QED
    BY <1>1 DEF Between

\* The channels where nothing of a kind is.
LEMMA Nowhere ==
    ASSUME NEW K, ~Somewhere(K)
    PROVE  /\ \A a \in Gates : Tags(wire[a]["center"]) \cap K = {} /\ Tags(wire["center"][a]) \cap K = {}
           /\ \A g \in Games : Tags(wire[g]["center"]) \cap K = {} /\ Tags(wire["center"][g]) \cap K = {}
           /\ \A a \in Gates, g \in Games : Tags(wire[a][g]) \cap K = {} /\ Tags(wire[g][a]) \cap K = {}
  <1>1. /\ "center" \in Processes /\ "db" \notin Games /\ "db" \notin Gates /\ "center" # "db"
        /\ \A g \in Games : /\ g \in Processes /\ g \in Peers["center"] /\ "center" \in Peers[g]
                            /\ \A a \in Gates : a \in Peers[g] /\ g \in Peers[a]
        /\ \A a \in Gates : a \in Processes /\ "center" \in Peers[a] /\ a \in Peers["center"]
    BY Connections
  <1> QED
    BY <1>1 DEF Somewhere

\* Games that do not have the role and are not asked for it do nothing of their own.
LEMMA BetweenIdle ==
    ASSUME Between, NEW g \in Games
    PROVE  /\ ~Jump(g) /\ ~Play(g) /\ ~Autosave(g) /\ role[g] = None
           /\ Tags(wire["center"][g]) \cap {"reg_scene", "reg_jump", "relogin"} = {}
  <1>1. Tags(wire["center"][g]) \cap {"reg_scene", "reg_jump", "relogin", "entered_jump", "ERROR"} = {}
    BY Nowhere DEF Between
  <1> QED
    BY <1>1 DEF Between, Jump, Play, Autosave

LEMMA CrossingMoves ==
    ASSUME up = Links, home \in Games, home' = home, NEW a \in Gates, Crossing(a),
           NEW p, NEW q, NEW out, Moves(p, q, out), role' = role,
           user' # None /\ user'.gate = a, gate'[a] = gate[a],
           \A s \in Peers[p] \ {"db"} : Gets(out, s) \subseteq {"ready", "OFFLINE", "record"},
           p = a /\ q = home => Tag(Incoming(q, p)) \notin {"success", "cross"}
    PROVE  Crossing(a)'
  <1>1. /\ "db" \notin Games /\ "db" \notin Gates /\ "center" # "db"
        /\ \A g \in Games : g \in Processes /\ \A b \in Gates : b \in Peers[g] /\ b # "db"
        /\ \A b \in Gates : b \in Processes /\ "center" \in Peers[b]
    BY Connections
  <1>2. Between'
    BY BetweenMoves DEF Crossing
  <1>3. ~Somewhere({"reg", "LOGOUT"})'
    BY MovesSomewhere DEF Crossing
  <1>4. "cross" \in Tags(wire'[home][a]) /\ Never(wire'[home][a], "cross", "cross")
    <2>1. home \in Processes /\ a \in Peers[home] \ {"db"}
      BY <1>1
    <2>2. "cross" \in Tags(wire[home][a]) /\ Never(wire[home][a], "cross", "cross")
      BY DEF Crossing
    <2>3. p = home => "cross" \notin Gets(out, a)
      BY <2>1
    <2>4. "cross" \in Tags(wire'[home][a])
      BY <2>1, <2>2, MovesTag
    <2>5. Never(wire'[home][a], "cross", "cross")
      BY <2>1, <2>2, <2>3, MovesTag
    <2> QED
      BY <2>4, <2>5
  <1>5. ASSUME NEW b \in Gates, NEW g \in Games, b # a \/ g # home
        PROVE  Tags(wire'[g][b]) \cap {"cross", "success"} = {}
    <2>1. g \in Processes /\ b \in Peers[g] \ {"db"}
      BY <1>1
    <2>2. Tags(wire[g][b]) \cap {"cross", "success"} = {}
      BY <1>5 DEF Crossing
    <2>3. p = g => Gets(out, b) \cap {"cross", "success"} = {}
      BY <2>1
    <2> QED
      BY <2>1, <2>2, <2>3, MovesTag
  <1>6. \A b \in Gates : "cross" \notin Tags(wire'[b]["center"])
    BY <1>1, MovesTag, SMTT(60) DEF Crossing
  <1>7. CASE gate[a] = "SCENE" /\ "success" \notin Tags(wire[home][a])
    <2>1. "success" \notin Tags(wire'[home][a])
      BY <1>1, <1>7, MovesTag
    <2> QED
      BY <1>2, <1>3, <1>4, <1>5, <1>6, <1>7, <2>1 DEF Crossing
  <1>8. CASE /\ gate[a] = "LOGIN" /\ "success" \in Tags(wire[home][a])
             /\ Never(wire[home][a], "success", "success") /\ Never(wire[home][a], "cross", "success")
    <2>1. "success" \in Tags(wire'[home][a])
      BY <1>1, <1>8, MovesTag
    <2>2. Never(wire'[home][a], "success", "success") /\ Never(wire'[home][a], "cross", "success")
      BY <1>1, <1>8, MovesTag
    <2> QED
      BY <1>2, <1>3, <1>4, <1>5, <1>6, <1>8, <2>1, <2>2 DEF Crossing
  <1> QED
    BY <1>7, <1>8 DEF Crossing

\* The gate turned away before the news came.
LEMMA CrossingEnds ==
    ASSUME up = Links, home \in Games, home' = home, NEW a \in Gates, Crossing(a),
           NEW p \in Gates, NEW q, NEW out, Moves(p, q, out), role' = role,
           gate'[a] \notin {"SCENE", "WAIT", "LOGIN"}, "cross" \notin Gets(out, "center")
    PROVE  Settled'
  <1>1. /\ p \notin Games /\ p # "center" /\ "center" \in Processes
        /\ \A g \in Games : /\ g \in Processes /\ g \in Peers["center"] /\ "center" \in Peers[g]
                            /\ \A b \in Gates : b \in Peers[g]
        /\ \A b \in Gates : b \in Processes /\ "center" \in Peers[b]
    BY Connections
  <1>2. ASSUME NEW g \in Games
        PROVE  Empty(g)'
    <2>1. /\ role[g] = None
          /\ Tags(wire["center"][g]) \cap {"reg_scene", "reg_jump"} = {}
          /\ "entered_jump" \notin Tags(wire[g]["center"])
      BY Nowhere DEF Crossing, Between
    <2>2. Tags(wire'["center"][g]) \cap {"reg_scene", "reg_jump"} = {}
      BY <1>1, <2>1, MovesTag, SMTT(60)
    <2>3. "entered_jump" \notin Tags(wire'[g]["center"])
      BY <1>1, <2>1, MovesTag
    <2> QED
      BY <2>1, <2>2, <2>3 DEF Empty, Vacant
  <1>3. ASSUME NEW b \in Gates, NEW g \in Games, b # a \/ g # home
        PROVE  Tags(wire'[g][b]) \cap {"cross", "success"} = {}
    <2>1. g \in Processes /\ b \in Peers[g] /\ p # g
      BY <1>1
    <2>2. Tags(wire[g][b]) \cap {"cross", "success"} = {}
      BY <1>3 DEF Crossing
    <2> QED
      BY <2>1, <2>2, MovesTag
  <1>4. \A b \in Gates : "cross" \notin Tags(wire'[b]["center"])
    BY <1>1, MovesTag DEF Crossing
  <1>5. Doomed(a)'
    BY <1>3 DEF Doomed
  <1> QED
    BY <1>2, <1>3, <1>4, <1>5 DEF Settled

LEMMA PlayerCrossing ==
    ASSUME TypeOK, Answerable, NEW a \in Gates, Crossing(a), NEW b \in Gates, PlayerStep(b),
           hurries' = hurries
    PROVE  Crossing(a)' \/ Settled'
  <1>1. PICK st, out : PlayerDeed(b, st, out)
    BY PlayerDoes
  <1>2. /\ b \in Processes /\ b \notin Games /\ Send(b, out)
        /\ UNCHANGED <<home, role, user>> /\ gate' = [gate EXCEPT ![b] = st]
        /\ gate \in [Gates -> States] /\ home \in Games /\ up = Links
    BY <1>1, Connections DEF PlayerDeed, GateMoves, centerVars, dataVars, TypeOK, States, Answerable, Whole
  <1>3. Moves(b, b, out)
    BY <1>2, SendMoves
  <1>4. gate[a] \in {"SCENE", "LOGIN"}
    BY DEF Crossing
  <1>5. b = a
    <2>1. SUFFICES ASSUME b # a PROVE FALSE
      OBVIOUS
    <2>2. gate[b] = "NONE"
      BY <1>4, <2>1, SessionTags
    <2>3. Arrive(b)
      BY <1>1, <2>2 DEF PlayerDeed, GateStates, LoginStates
    <2> QED
      BY <1>4, <2>1, <2>2, <2>3 DEF Arrive, Hasty, TypeOK
  <1>6. CASE st = "SCENE"
    <2>1. gate[a] = "SCENE" /\ \A s : Gets(out, s) \subseteq {"ready"}
      BY <1>1, <1>4, <1>5, <1>6 DEF PlayerDeed, Only
    <2>2. gate'[a] = gate[a]
      BY <1>2, <1>5, <1>6, <2>1
    <2>3. user # None /\ user.gate = a
      BY DEF Crossing
    <2> QED
      BY <1>2, <1>3, <1>5, <2>1, <2>2, <2>3, CrossingMoves
  <1>7. CASE st # "SCENE"
    <2>1. st \in {"OFFLINE", "NONE"}
      BY <1>1, <1>4, <1>5, <1>7 DEF PlayerDeed, GateStates
    <2>2. PICK T, t : (Mute(out) \/ Only(out, T, t)) /\ t \in {"OFFLINE", "LOGOUT"}
      BY <1>1, <1>4, <1>5, <1>7 DEF PlayerDeed, GateStates
    <2>3. "cross" \notin Gets(out, "center")
      BY <2>2 DEF Mute, Only
    <2>4. gate'[a] \notin {"SCENE", "WAIT", "LOGIN"}
      BY <1>2, <1>5, <2>1
    <2> QED
      BY <1>2, <1>3, <2>3, <2>4, CrossingEnds
  <1> QED
    BY <1>6, <1>7

LEMMA GateCrossing ==
    ASSUME TypeOK, Answerable, NEW a \in Gates, Crossing(a), NEW b \in Gates, GateStep(b)
    PROVE  Crossing(a)' \/ Settled' \/ Moving(a)'
  <1>1. PICK q \in Peers[b] : \E st, lst, out : GateDeed(q, b, st, lst, out)
    BY GateDoes
  <1>2. PICK st, lst, out : GateDeed(q, b, st, lst, out)
    BY <1>1
  <1> DEFINE t == Tag(Incoming(q, b))
  <1>3. /\ b \in Processes /\ b \notin Games /\ b # "center" /\ q \in Processes /\ b \in Peers[q]
        /\ Hears(b, q) /\ Handle(q, b, out)
        /\ UNCHANGED <<home, role, user>>
        /\ gate' = [gate EXCEPT ![b] = st] /\ listed' = [listed EXCEPT ![b] = lst]
        /\ gate \in [Gates -> States] /\ listed \in [Gates -> SUBSET Games] /\ home \in Games /\ up = Links
    BY <1>2, Connections DEF GateDeed, GateHandles, centerVars, dataVars, TypeOK, States, Answerable, Whole
  <1>4. Moves(b, q, out) /\ t \in Tags(wire[q][b])
    BY <1>3, HandleMoves
  <1>5. t \notin {"closed", "kick_all"}
    BY <1>3, <1>4, WholeTags DEF Answerable
  <1>6. gate[a] \in {"SCENE", "LOGIN"} /\ user # None /\ user.gate = a
    BY DEF Crossing
  <1>7. q \in Games /\ t \in {"success", "cross"} => b = a /\ q = home
    BY <1>4 DEF Crossing
  <1> HIDE DEF t
  <1>8. CASE b # a
    <2>1. gate[b] = "NONE"
      BY <1>6, <1>8, SessionTags
    <2>2. Mute(out)
      BY <1>2, <1>5, <1>7, <1>8, <2>1 DEF GateDeed, t
    <2>3. gate'[a] = gate[a]
      BY <1>3, <1>8
    <2>4. \A s : Gets(out, s) = {}
      BY <2>2 DEF Mute
    <2> QED
      BY <1>3, <1>4, <1>6, <1>8, <2>3, <2>4, CrossingMoves
  <1>9. CASE b = a /\ t \in Codes
    <2>1. st = "NONE" /\ Mute(out)
      BY <1>2, <1>6, <1>9 DEF GateDeed, t, Codes
    <2>2. gate'[a] = "NONE" /\ "cross" \notin Gets(out, "center")
      BY <1>3, <1>9, <2>1 DEF Mute
    <2> QED
      BY <1>3, <1>4, <2>2, CrossingEnds
  <1>10. CASE b = a /\ t = "success"
    <2>1. q \in Games
      BY <1>2, <1>10 DEF GateDeed, t, Codes
    <2>2. q = home /\ gate[a] = "LOGIN" /\ Never(wire[home][a], "success", "success")
      BY <1>4, <1>7, <1>10, <2>1 DEF Crossing
    <2>3. st = "SCENE" /\ \A s : Gets(out, s) = {}
      BY <1>2, <1>10, <2>2 DEF GateDeed, t, Codes, Mute
    <2>4. /\ home \in Processes /\ a \in Peers[home] /\ a # "db" /\ "db" \notin Games
          /\ \A g \in Games : g \in Processes /\ \A c \in Gates : c \in Peers[g]
          /\ \A c \in Gates : c \in Processes /\ "center" \in Peers[c]
      BY <1>3, Connections
    <2>5. Between'
      BY <1>3, <1>4, <2>3, BetweenMoves DEF Crossing
    <2>6. ~Somewhere({"reg", "LOGOUT"})'
      BY <1>4, <2>3, MovesSomewhere DEF Crossing
    <2>7. "cross" \in Tags(wire'[home][a]) /\ Never(wire'[home][a], "cross", "cross")
          /\ "success" \notin Tags(wire'[home][a])
      <3>1. "cross" \in Tags(wire[home][a]) /\ Never(wire[home][a], "cross", "cross")
        BY DEF Crossing
      <3>2. "cross" \in Tags(wire'[home][a])
        BY <1>3, <1>4, <1>10, <2>2, <2>4, <3>1, MovesKeep DEF t
      <3>3. Never(wire'[home][a], "cross", "cross")
        BY <1>3, <1>4, <2>3, <2>4, <3>1, MovesLess
      <3>4. "success" \notin Tags(wire'[home][a])
        BY <1>3, <1>4, <1>10, <2>2, <2>4, MovesHead DEF t
      <3> QED
        BY <3>2, <3>3, <3>4
    <2>8. ASSUME NEW c \in Gates, NEW g \in Games, c # a \/ g # home
          PROVE  Tags(wire'[g][c]) \cap {"cross", "success"} = {}
      <3>1. Tags(wire'[g][c]) \subseteq Tags(wire[g][c])
        BY <1>3, <1>4, <2>3, <2>4, MovesLess
      <3> QED
        BY <2>8, <3>1 DEF Crossing
    <2>9. \A c \in Gates : "cross" \notin Tags(wire'[c]["center"])
      BY <1>3, <1>4, <2>3, <2>4, MovesTag, SMTT(60) DEF Crossing
    <2>10. gate'[a] = "SCENE"
      BY <1>3, <1>10, <2>3
    <2> QED
      BY <1>3, <1>6, <2>5, <2>6, <2>7, <2>8, <2>9, <2>10 DEF Crossing
  <1>11. CASE b = a /\ t = "cross"
    <2>1. q \in Games
      BY <1>2, <1>11 DEF GateDeed, t, Codes
    <2>2. q = home /\ Never(wire[home][a], "cross", "cross")
      BY <1>7, <1>11, <2>1 DEF Crossing
    <2>3. /\ home \in Processes /\ a \in Peers[home] /\ a \in Processes /\ "center" \in Peers[a]
          /\ "db" \notin Games /\ a # "db" /\ "center" # "db" /\ "center" \notin Games
          /\ \A g \in Games : g \in Processes /\ (\A c \in Gates : c \in Peers[g]) /\ a # g
          /\ \A c \in Gates : c \in Processes /\ "center" \in Peers[c]
      BY <1>3, Connections
    <2>4. gate[a] = "SCENE" /\ "success" \notin Tags(wire[home][a])
      <3>1. SUFFICES ASSUME "success" \in Tags(wire[home][a]), Never(wire[home][a], "cross", "success")
                     PROVE  FALSE
        BY DEF Crossing
      <3>2. "success" \in Tags(wire'[home][a])
        BY <1>3, <1>4, <1>11, <2>2, <2>3, <3>1, MovesTag DEF t
      <3>3. "success" \notin Tags(wire'[home][a])
        BY <1>3, <1>4, <1>11, <2>2, <2>3, <3>1, MovesTag DEF t
      <3> QED
        BY <3>2, <3>3
    <2>5. st = "WAIT" /\ lst = {} /\ Only(out, {"center"}, "cross")
      BY <1>2, <1>11, <2>4 DEF GateDeed, t, Codes
    <2>6. Between'
      BY <1>3, <1>4, <2>5, BetweenMoves DEF Crossing, Only
    <2>7. ~Somewhere({"reg", "LOGOUT"}) /\ ~Somewhere({"reg", "LOGOUT"})'
      BY <1>4, <2>5, MovesSomewhere DEF Crossing, Only
    <2>8. Alone(a)'
      <3>1. SUFFICES ASSUME NEW c \in Gates \ {a}
                     PROVE  gate'[c] = "NONE" /\ \A r \in Peers[c] : Tags(wire'[c][r]) = {}
        BY DEF Alone
      <3>2. gate[c] = "NONE" /\ \A r \in Peers[c] : Tags(wire[c][r]) = {}
        BY <1>6, SessionTags
      <3>3. \A r \in Peers[c] : Tags(wire'[c][r]) = {}
        <4> SUFFICES ASSUME NEW r \in Peers[c] PROVE Tags(wire'[c][r]) = {}
          OBVIOUS
        <4> QED
          BY <1>3, <1>4, <1>11, <2>3, <3>2, MovesLess
      <3> QED
        BY <1>3, <1>11, <3>2, <3>3
    <2>9. "cross" \notin Tags(wire[a]["center"]) /\ Tags(wire[a]["center"]) \cap {"reg", "LOGOUT"} = {}
      BY <2>7, Nowhere DEF Crossing
    <2>10. /\ Never(wire[a]["center"], "cross", "cross") /\ Never(wire[a]["center"], "reg", "cross")
           /\ Never(wire[a]["center"], "LOGOUT", "cross") /\ Never(wire[a]["center"], "LOGOUT", "reg")
      BY <2>9, TagsEmpty
    <2>11. Gets(out, "center") = {"cross"}
      BY <2>5 DEF Only
    <2>12. /\ "cross" \in Tags(wire'[a]["center"]) /\ Never(wire'[a]["center"], "cross", "cross")
           /\ Never(wire'[a]["center"], "reg", "cross") /\ Never(wire'[a]["center"], "LOGOUT", "cross")
           /\ Never(wire'[a]["center"], "LOGOUT", "reg")
      BY <1>3, <1>4, <1>11, <2>3, <2>9, <2>10, <2>11, MovesPut
    <2>13. ASSUME NEW c \in Gates, NEW g \in Games
           PROVE  Tags(wire'[g][c]) \cap {"cross", "success"} = {}
      <3>0. Tags(wire'[g][c]) \subseteq Tags(wire[g][c])
        BY <1>3, <1>4, <2>3, MovesLess
      <3>1. CASE c = a /\ g = home
        <4>1. "cross" \notin Tags(wire'[home][a])
          BY <1>3, <1>4, <1>11, <2>2, <2>3, MovesHead DEF t
        <4> QED
          BY <2>4, <3>0, <3>1, <4>1
      <3>2. CASE c # a \/ g # home
        BY <3>0, <3>2 DEF Crossing
      <3> QED
        BY <3>1, <3>2
    <2>14. \A p \in Processes : \A r \in Peers[p] \ {"db"} : "LOGOUT" \notin Tags(wire'[p][r])
      BY <2>7 DEF Somewhere
    <2>15. listed'[a] = {} /\ gate'[a] # "SCENE"
      BY <1>3, <1>11, <2>5
    <2> QED
      BY <1>3, <1>6, <2>6, <2>8, <2>12, <2>13, <2>14, <2>15 DEF Moving
  <1>12. t \in Codes \cup {"success", "cross"}
    BY <1>2, <1>5 DEF GateDeed, t
  <1> QED
    BY <1>8, <1>9, <1>10, <1>11, <1>12

LEMMA CenterCrossing ==
    ASSUME TypeOK, Answerable, NEW a \in Gates, Crossing(a), CenterStep
    PROVE  Crossing(a)'
  <1>1. PICK q \in Peers["center"] : \E u, h, k, out : CenterDeed(q, u, h, k, out)
    BY CenterDoes
  <1>2. PICK u, h, k, out : CenterDeed(q, u, h, k, out)
    BY <1>1
  <1> DEFINE t == Tag(Incoming(q, "center"))
  <1>3. /\ "center" \in Processes /\ "center" # a
        /\ q \in Processes /\ "center" \in Peers[q] /\ "center" # "db"
        /\ Hears("center", q) /\ Handle(q, "center", out)
        /\ UNCHANGED <<gate, role>> /\ home' = h /\ user' = u /\ home \in Games /\ up = Links
        /\ user \in Users \cup {None}
    BY <1>2, Connections DEF CenterDeed, CenterHandles, gateVars, dataVars, TypeOK, Answerable, Whole
  <1>4. Moves("center", q, out) /\ t \in Tags(wire[q]["center"])
    BY <1>3, HandleMoves
  <1>5. t \notin {"closed", "syn", "reg", "ERROR", "LOGOUT", "entered_jump"}
        /\ (q \in Gates => t # "cross")
    BY <1>3, <1>4, WholeTags DEF Answerable, Crossing, Between, Somewhere
  <1>6. user # None /\ user.gate = a
    BY DEF Crossing
  <1> HIDE DEF t
  <1>7. h = home /\ Mute(out) /\ \/ u = [user EXCEPT !.on = "OFFLINE"]
                                 \/ u = [user EXCEPT !.on = "ONLINE"]
    BY <1>2, <1>5, <1>6 DEF CenterDeed, t, Codes
  <1>8. u # None /\ u.gate = a
    BY <1>3, <1>6, <1>7, NoneAssumption DEF Users
  <1> QED
    BY <1>3, <1>4, <1>6, <1>7, <1>8, CrossingMoves DEF Mute

LEMMA GameCrossing ==
    ASSUME TypeOK, Answerable, NEW a \in Gates, Crossing(a), NEW g \in Games, GameStep(g)
    PROVE  Crossing(a)'
  <1>1. role[g] = None /\ Tags(wire["center"][g]) \cap {"reg_scene", "reg_jump", "relogin"} = {}
    BY BetweenIdle DEF Crossing
  <1>2. \A b \in Gates : "LOGOUT" \notin Tags(wire[b][g])
    BY Nowhere DEF Crossing
  <1>3. PICK p, q, out : /\ Moves(p, q, out) /\ p \notin Gates /\ p # "center"
                         /\ \A s \in Peers[p] \ {"db"} : Gets(out, s) \subseteq {"record"}
                         /\ UNCHANGED <<gate, listed, user, home, role>>
    BY <1>1, <1>2, IdleGame DEF Answerable, Whole
  <1>4. up = Links /\ home \in Games /\ user # None /\ user.gate = a
    BY DEF TypeOK, Answerable, Whole, Crossing
  <1> QED
    BY <1>3, <1>4, CrossingMoves

\* A player that is nowhere comes when all is quiet.
LEMMA ArriveQuiet ==
    ASSUME TypeOK, NEW a \in Gates, PlayerStep(a), gate[a] = "NONE", hurries' = hurries
    PROVE  /\ \A p \in Processes : \A q \in Peers[p] : wire[p][q] = <<>> /\ Tags(wire[p][q]) = {}
           /\ \A b \in Gates \ {a} : gate[b] = "NONE"
           /\ gate' = [gate EXCEPT ![a] = "GATE"] /\ UNCHANGED <<listed, user, home, role>>
           /\ \E out : Send(a, out) /\ Mute(out)
  <1>1. PICK st, out : PlayerDeed(a, st, out)
    BY PlayerDoes
  <1>2. Arrive(a) /\ Mute(out) /\ st = "GATE" /\ listed' = listed
    BY <1>1 DEF PlayerDeed, GateStates, LoginStates
  <1>3. Quiet /\ \A b \in Gates \ {a} : gate[b] = "NONE"
    BY <1>2 DEF Arrive, Hasty, TypeOK
  <1>4. gate' = [gate EXCEPT ![a] = "GATE"] /\ UNCHANGED <<user, home, role>> /\ Send(a, out)
    BY <1>1, <1>2 DEF PlayerDeed, GateMoves, centerVars, dataVars
  <1>5. \A p \in Processes : \A q \in Peers[p] : wire[p][q] = <<>> /\ Tags(wire[p][q]) = {}
    BY <1>3, TagsEmpty DEF Quiet
  <1> QED
    BY <1>2, <1>3, <1>4, <1>5

LEMMA MovingMoves ==
    ASSUME up = Links, NEW a \in Gates, Moving(a),
           NEW p \in Processes, NEW q, NEW out, Moves(p, q, out), role' = role,
           user' # None /\ user'.gate = a, listed'[a] = {}, gate'[a] # "SCENE",
           gate[a] = "NONE" => gate'[a] = "NONE", \A b \in Gates \ {a} : gate'[b] = "NONE",
           \A s \in Peers[p] \ {"db"} : Gets(out, s) \subseteq {"ready", "OFFLINE", "record", "reg", "LOGOUT"},
           p \in Gates /\ p # a => Mute(out),
           \A s \in Peers[p] \ {"db"} : "LOGOUT" \in Gets(out, s) => p = a /\ s = "center" /\ gate'[a] = "NONE",
           p = a /\ "reg" \in Gets(out, "center") => gate[a] # "NONE",
           p = "center" /\ q = a => Tag(Incoming(q, p)) # "cross"
    PROVE  Moving(a)'
  <1>1. /\ "db" \notin Games /\ "db" \notin Gates /\ "center" # "db" /\ a \in Processes
        /\ "center" \in Peers[a] \ {"db"}
        /\ \A g \in Games : g \in Processes /\ \A b \in Gates : b \in Peers[g] \ {"db"}
        /\ \A b \in Gates : b \in Processes
    BY Connections
  <1>2. Between'
    BY BetweenMoves DEF Moving
  <1>3. Alone(a)'
    <2>1. SUFFICES ASSUME NEW b \in Gates \ {a}, NEW s \in Peers[b]
                   PROVE  Tags(wire'[b][s]) = {}
      BY DEF Alone
    <2>2. Tags(wire[b][s]) = {} /\ (p = b => Gets(out, s) = {})
      BY DEF Moving, Alone, Mute
    <2> QED
      BY <1>1, <2>2, MovesLess
  <1>4. "cross" \in Tags(wire'[a]["center"])
    BY <1>1, MovesKeep DEF Moving
  <1>5. /\ Never(wire'[a]["center"], "cross", "cross") /\ Never(wire'[a]["center"], "reg", "cross")
        /\ Never(wire'[a]["center"], "LOGOUT", "cross") /\ Never(wire'[a]["center"], "LOGOUT", "reg")
    <2>1. /\ Never(wire[a]["center"], "cross", "cross") /\ Never(wire[a]["center"], "reg", "cross")
          /\ Never(wire[a]["center"], "LOGOUT", "cross") /\ Never(wire[a]["center"], "LOGOUT", "reg")
      BY DEF Moving
    <2>2. CASE p = a
      <3>1. "cross" \notin Gets(out, "center")
        BY <1>1, <2>2
      <3>2. ~("LOGOUT" \in Tags(wire[a]["center"]) /\ "reg" \in Gets(out, "center"))
        BY <1>1, <2>2 DEF Moving
      <3> QED
        BY <1>1, <2>1, <2>2, <3>1, <3>2, MovesPut
    <2>3. CASE p # a
      BY <1>1, <2>1, <2>3, MovesLess
    <2> QED
      BY <2>2, <2>3
  <1>6. ASSUME NEW b \in Gates, NEW g \in Games
        PROVE  Tags(wire'[g][b]) \cap {"cross", "success"} = {}
    <2>1. Tags(wire[g][b]) \cap {"cross", "success"} = {}
      BY DEF Moving
    <2>2. CASE p = g
      <3>1. Tags(wire'[g][b]) \subseteq Tags(wire[g][b]) \cup Gets(out, b)
        BY <1>1, <2>2, MovesPut
      <3>2. Gets(out, b) \cap {"cross", "success"} = {}
        BY <1>1, <2>2
      <3> QED
        BY <2>1, <3>1, <3>2
    <2>3. CASE p # g
      <3>1. Tags(wire'[g][b]) \subseteq Tags(wire[g][b])
        BY <1>1, <2>3, MovesLess
      <3> QED
        BY <2>1, <3>1
    <2> QED
      BY <2>2, <2>3
  <1>7. ASSUME NEW r \in Processes, NEW s \in Peers[r] \ {"db"}, "LOGOUT" \in Tags(wire'[r][s])
        PROVE  r = a /\ s = "center" /\ gate'[a] = "NONE"
    <2>1. CASE "LOGOUT" \in Tags(wire[r][s])
      BY <2>1 DEF Moving
    <2>2. CASE "LOGOUT" \notin Tags(wire[r][s])
      <3>1. r = p /\ "LOGOUT" \in Gets(out, s)
        BY <1>7, <2>2, MovesTag
      <3> QED
        BY <3>1
    <2> QED
      BY <2>1, <2>2
  <1> QED
    BY <1>2, <1>3, <1>4, <1>5, <1>6, <1>7 DEF Moving

LEMMA PlayerMoving ==
    ASSUME TypeOK, Answerable, NEW a \in Gates, Moving(a), NEW b \in Gates, PlayerStep(b), hurries' = hurries
    PROVE  Moving(a)'
  <1>1. PICK st, out : PlayerDeed(b, st, out)
    BY PlayerDoes
  <1>2. /\ b \in Processes /\ b \notin Games /\ b # "center" /\ Send(b, out) /\ "center" # "db"
        /\ "center" \in Peers[b] /\ "center" \notin Gates
        /\ UNCHANGED <<home, role, user>> /\ gate' = [gate EXCEPT ![b] = st]
        /\ listed' \in {listed, [listed EXCEPT ![b] = {}]}
        /\ gate \in [Gates -> States] /\ listed \in [Gates -> SUBSET Games] /\ up = Links
    BY <1>1, Connections DEF PlayerDeed, GateMoves, centerVars, dataVars, TypeOK, States, Answerable, Whole
  <1>3. Moves(b, b, out)
    BY <1>2, SendMoves
  <1>4. gate[b] # "NONE"
    <2>1. SUFFICES ASSUME gate[b] = "NONE" PROVE FALSE
      OBVIOUS
    <2>2. a \in Processes /\ "center" \in Peers[a]
      BY Connections
    <2>3. Tags(wire[a]["center"]) = {}
      BY <2>1, <2>2, ArriveQuiet
    <2> QED
      BY <2>3 DEF Moving
  <1>5. b = a
    BY <1>4 DEF Moving, Alone
  <1>6. user # None /\ user.gate = a /\ listed[a] = {} /\ gate[a] # "SCENE"
        /\ \A c \in Gates \ {a} : gate[c] = "NONE"
    BY DEF Moving, Alone
  <1>7. st # "SCENE"
    BY <1>1, <1>4, <1>5, <1>6 DEF PlayerDeed, GateStates
  <1>8. PICK t : (Mute(out) \/ Only(out, {"center"}, t)) /\ t \in {"reg", "LOGOUT"} /\ (t = "LOGOUT" => st = "NONE")
    <2>1. \A T \in Told(b) : T = {} /\ T \cup {"center"} = {"center"}
      BY <1>5, <1>6 DEF Told
    <2>2. \/ Mute(out) \/ Only(out, {"center"}, "reg")
          \/ /\ st = "NONE"
             /\ \E T \in Told(b) : Only(out, IF T = {} THEN {"center"} ELSE T, "LOGOUT")
      BY <1>1, <1>4, <1>5, <1>6, <1>7 DEF PlayerDeed
    <2>3. CASE Mute(out)
      BY <2>3
    <2>4. CASE Only(out, {"center"}, "reg")
      BY <2>4
    <2>5. CASE /\ st = "NONE"
               /\ \E T \in Told(b) : Only(out, IF T = {} THEN {"center"} ELSE T, "LOGOUT")
      <3>1. Only(out, {"center"}, "LOGOUT")
        BY <2>1, <2>5
      <3> QED
        BY <2>5, <3>1
    <2> QED
      BY <2>2, <2>3, <2>4, <2>5
  <1>9. /\ \A s \in Peers[b] \ {"db"} : Gets(out, s) \subseteq {"ready", "OFFLINE", "record", "reg", "LOGOUT"}
        /\ \A s \in Peers[b] \ {"db"} : "LOGOUT" \in Gets(out, s) => s = "center" /\ st = "NONE"
    BY <1>8 DEF Mute, Only
  <1>10. listed'[a] = {} /\ gate'[a] = st /\ \A c \in Gates \ {a} : gate'[c] = "NONE"
    BY <1>2, <1>5, <1>6
  <1> QED
    BY <1>2, <1>3, <1>4, <1>5, <1>6, <1>7, <1>9, <1>10, MovingMoves

LEMMA GateMoving ==
    ASSUME TypeOK, Answerable, NEW a \in Gates, Moving(a), NEW b \in Gates, GateStep(b)
    PROVE  Moving(a)'
  <1>1. PICK q \in Peers[b] : \E st, lst, out : GateDeed(q, b, st, lst, out)
    BY GateDoes
  <1>2. PICK st, lst, out : GateDeed(q, b, st, lst, out)
    BY <1>1
  <1> DEFINE t == Tag(Incoming(q, b))
  <1>3. /\ b \in Processes /\ b \notin Games /\ b # "center" /\ q \in Processes /\ b \in Peers[q]
        /\ Hears(b, q) /\ Handle(q, b, out)
        /\ UNCHANGED <<home, role, user>>
        /\ gate' = [gate EXCEPT ![b] = st] /\ listed' = [listed EXCEPT ![b] = lst]
        /\ gate \in [Gates -> States] /\ listed \in [Gates -> SUBSET Games] /\ up = Links
    BY <1>2, Connections DEF GateDeed, GateHandles, centerVars, dataVars, TypeOK, States, Answerable, Whole
  <1>4. Moves(b, q, out) /\ t \in Tags(wire[q][b])
    BY <1>3, HandleMoves
  <1>5. t \notin {"closed", "kick_all"}
    BY <1>3, <1>4, WholeTags DEF Answerable
  <1>6. ~(q \in Games /\ t \in {"success", "cross"})
    BY <1>4 DEF Moving
  <1>7. user # None /\ user.gate = a /\ listed[a] = {} /\ gate[a] # "SCENE"
        /\ \A c \in Gates \ {a} : gate[c] = "NONE"
    BY DEF Moving, Alone
  <1> HIDE DEF t
  <1>8. Mute(out) /\ ((st = gate[b] /\ lst = listed[b]) \/ (st = "NONE" /\ lst = {}))
    BY <1>2, <1>5, <1>6 DEF GateDeed, t
  <1>9. /\ listed'[a] = {} /\ gate'[a] \in {gate[a], "NONE"} /\ \A c \in Gates \ {a} : gate'[c] = "NONE"
    BY <1>3, <1>7, <1>8
  <1>10. \A s : Gets(out, s) = {}
    BY <1>8 DEF Mute
  <1> QED
    BY <1>3, <1>4, <1>7, <1>8, <1>9, <1>10, MovingMoves

LEMMA GameMoving ==
    ASSUME TypeOK, Answerable, NEW a \in Gates, Moving(a), NEW g \in Games, GameStep(g)
    PROVE  Moving(a)'
  <1>1. role[g] = None /\ Tags(wire["center"][g]) \cap {"reg_scene", "reg_jump", "relogin"} = {}
    BY BetweenIdle DEF Moving
  <1>2. \A b \in Gates : "LOGOUT" \notin Tags(wire[b][g])
    BY Connections DEF Moving
  <1>3. PICK p, q, out : /\ p \in Processes /\ Moves(p, q, out) /\ p \notin Gates /\ p # "center"
                         /\ \A s \in Peers[p] \ {"db"} : Gets(out, s) \subseteq {"record"}
                         /\ UNCHANGED <<gate, listed, user, home, role>>
    BY <1>1, <1>2, IdleGame DEF Answerable, Whole
  <1>4. /\ up = Links /\ user # None /\ user.gate = a /\ listed[a] = {} /\ gate[a] # "SCENE"
        /\ \A c \in Gates \ {a} : gate[c] = "NONE"
    BY DEF Answerable, Whole, Moving, Alone
  <1> QED
    BY <1>3, <1>4, MovingMoves

\* Center sends the player on.
LEMMA MovingEnds ==
    ASSUME TypeOK, Answerable, Unlisted, NEW a \in Gates, Moving(a), NEW out, NEW t \in Games,
           Moves("center", a, out), Carried("center", out), Tag(Incoming(a, "center")) = "cross",
           Sends(out, t, "reg_jump", a), UNCHANGED <<gate, listed, role>>,
           user' # None /\ user'.gate = a /\ user'.game = t
    PROVE  Moved(t)'
  <1>1. /\ "center" \in Processes /\ "db" \notin Games /\ "db" \notin Gates /\ "center" # "db"
        /\ \A g \in Games : /\ g \in Processes /\ g # "center" /\ g \in Peers["center"] /\ "center" \in Peers[g]
                            /\ \A b \in Gates : b \in Peers[g] /\ g \in Peers[b]
        /\ \A b \in Gates : b \in Processes /\ b # "center" /\ "center" \in Peers[b]
    BY Connections
  <1>2. up = Links /\ role \in [Games -> Roles \cup {None}]
    BY DEF Answerable, Whole, TypeOK
  <1>3. \A s : Gets(out, s) = IF s = t THEN {"reg_jump"} ELSE {}
    BY DEF Sends, Only
  <1>4. \A g \in Games : /\ role[g] = None
                         /\ Tags(wire["center"][g]) \cap {"reg_scene", "reg_jump", "relogin"} = {}
                         /\ Tags(wire[g]["center"]) \cap {"entered_jump", "ERROR", "LOGOUT"} = {}
                         /\ \A b \in Gates : Tags(wire[b][g]) \cap Kills = {}
    <2> SUFFICES ASSUME NEW g \in Games
                 PROVE  /\ role[g] = None
                        /\ Tags(wire["center"][g]) \cap {"reg_scene", "reg_jump", "relogin"} = {}
                        /\ Tags(wire[g]["center"]) \cap {"entered_jump", "ERROR", "LOGOUT"} = {}
                        /\ \A b \in Gates : Tags(wire[b][g]) \cap Kills = {}
      OBVIOUS
    <2>1. /\ role[g] = None
          /\ Tags(wire["center"][g]) \cap {"reg_scene", "reg_jump", "relogin", "entered_jump", "ERROR"} = {}
          /\ Tags(wire[g]["center"]) \cap {"reg_scene", "reg_jump", "relogin", "entered_jump", "ERROR"} = {}
          /\ \A b \in Gates : Tags(wire[b][g]) \cap {"reg_scene", "reg_jump", "relogin", "entered_jump", "ERROR"} = {}
      BY Nowhere DEF Moving, Between
    <2>2. "LOGOUT" \notin Tags(wire[g]["center"])
      <3>1. g # a /\ "center" \in Peers[g] \ {"db"} /\ g \in Processes
        BY <1>1, Connections
      <3> QED
        BY <3>1 DEF Moving
    <2>3. ASSUME NEW b \in Gates
          PROVE  "LOGOUT" \notin Tags(wire[b][g])
      <3>1. g # "center" /\ g \in Peers[b] \ {"db"} /\ b \in Processes
        BY <1>1
      <3> QED
        BY <3>1 DEF Moving
    <2> QED
      BY <2>1, <2>2, <2>3 DEF Kills
  <1>5. \A r \in Processes \ {"center"} : \A s \in Peers[r] : Tags(wire'[r][s]) \subseteq Tags(wire[r][s])
    BY <1>2, MovesLess
  <1>6. ASSUME NEW g \in Games \ {t}
        PROVE  /\ Empty(g)' /\ "relogin" \notin Tags(wire'["center"][g])
               /\ \A b \in Gates : "success" \notin Tags(wire'[g][b])
    <2>1. Tags(wire'["center"][g]) \subseteq Tags(wire["center"][g])
      BY <1>1, <1>2, <1>3, MovesLess
    <2>2. "entered_jump" \notin Tags(wire'[g]["center"]) /\ \A b \in Gates : "success" \notin Tags(wire'[g][b])
      BY <1>1, <1>4, <1>5 DEF Moving
    <2> QED
      BY <1>4, <2>1, <2>2 DEF Empty, Vacant
  <1>7. ASSUME NEW b \in Gates
        PROVE  /\ "cross" \notin Tags(wire'[b]["center"])
               /\ \A g \in Games : Tags(wire'[g][b]) \cap {"cross", "success"} = {}
    <2>1. "cross" \notin Tags(wire'[b]["center"])
      <3>1. CASE b = a
        BY <1>1, <1>2, <3>1, MovesHead DEF Moving
      <3>2. CASE b # a
        BY <1>1, <1>5, <3>2 DEF Moving, Alone
      <3> QED
        BY <3>1, <3>2
    <2> QED
      BY <1>1, <1>5, <2>1 DEF Moving
  <1>8. Landed(t)'
    <2>1. ~Loading(t)' /\ ~Plays(t)'
      BY <1>4 DEF Loading, Plays
    <2>2. Tags(wire'[t]["center"]) \cap {"entered_jump", "ERROR", "LOGOUT"} = {}
      BY <1>1, <1>4, <1>5
    <2>3. \A k \in Kills : Never(wire'[t]["center"], k, "entered_jump")
      BY <2>2, TagsEmpty
    <2> QED
      BY <2>1, <2>2, <2>3 DEF Landed, Kills
  <1>9. Landing(t)'
    <2>1. Tags(wire'["center"][t]) \subseteq Tags(wire["center"][t]) \cup {"reg_jump"}
      BY <1>1, <1>2, <1>3, MovesPut
    <2>2. Never(wire["center"][t], "reg_jump", "reg_jump") /\ Never(wire["center"][t], "relogin", "reg_jump")
      BY <1>4, TagsEmpty
    <2>3. Never(wire'["center"][t], "reg_jump", "reg_jump") /\ Never(wire'["center"][t], "relogin", "reg_jump")
      BY <1>1, <1>2, <1>4, <2>2, MovesPut
    <2>4. \A b \in Gates : t \notin listed[b]
      BY DEF Moving, Alone, Unlisted
    <2>5. \A b \in Gates : "success" \notin Tags(wire'[t][b]) /\ Tags(wire'[b][t]) \cap Kills = {}
      BY <1>1, <1>4, <1>5, <1>7
    <2> QED
      BY <1>4, <2>1, <2>3, <2>4, <2>5 DEF Landing
  <1>10. ASSUME NEW x \in Gates, Live(x)'
         PROVE  Owner(t, x)'
    <2>1. Alone(a)'
      <3>1. \A b \in Gates \ {a} : gate[b] = "NONE" /\ \A s \in Peers[b] : Tags(wire[b][s]) = {}
        BY DEF Moving, Alone
      <3>2. \A b \in Gates \ {a} : \A s \in Peers[b] : Tags(wire'[b][s]) = {}
        BY <1>1, <1>5, <3>1
      <3> QED
        BY <3>1, <3>2 DEF Alone
    <2>2. x = a
      <3>1. SUFFICES ASSUME x # a PROVE FALSE
        OBVIOUS
      <3>2. gate'[x] = "NONE" /\ Tags(wire'[x]["center"]) = {}
        BY <1>1, <2>1, <3>1 DEF Alone
      <3> QED
        BY <1>10, <3>2 DEF Live, Reg
    <2>3. \A g \in Games : Tags(wire'[g]["center"]) \cap Kills = {} /\ Tags(wire'[x][g]) \cap Kills = {}
      BY <1>1, <1>4, <1>5, SMTT(60) DEF Kills
    <2>4. \A k \in Kills : Never(wire'[a]["center"], k, "reg")
      <3>1. Never(wire[a]["center"], "LOGOUT", "reg") /\ "ERROR" \notin Tags(wire[a]["center"])
        BY Nowhere DEF Moving, Between
      <3>2. Never(wire[a]["center"], "ERROR", "reg")
        BY <3>1, TagsEmpty
      <3> QED
        BY <1>1, <1>2, <3>1, <3>2, MovesLess DEF Kills
    <2>5. gate[a] # "NONE" => Tags(wire'[a]["center"]) \cap Kills = {}
      <3>1. "ERROR" \notin Tags(wire[a]["center"])
        BY Nowhere DEF Moving, Between
      <3>2. gate[a] # "NONE" => "LOGOUT" \notin Tags(wire[a]["center"])
        BY <1>1 DEF Moving
      <3> QED
        BY <1>1, <1>5, <3>1, <3>2 DEF Kills
    <2>6. ASSUME NEW m \in Letters(wire'["center"][t]), m.kind \in {"reg_scene", "relogin"}
          PROVE  m.gate = a
      <3>1. CASE m \in Letters(wire["center"][t])
        <4>1. Tag(m) \in Tags(wire["center"][t]) /\ m \in Msgs
          BY <1>1, <3>1, Channels, TagLetters
        <4>2. Tag(m) \in {"reg_scene", "reg_jump", "relogin"}
          BY <2>6, <4>1, TagMeans
        <4> QED
          BY <1>4, <4>1, <4>2
      <3>2. CASE m = out[t]
        BY <3>2 DEF Sends
      <3> QED
        BY <1>1, <2>6, <3>1, <3>2 DEF Carried
    <2>7. role'[t] = None /\ listed'[a] = {} /\ user' # None /\ user'.gate = a
      BY <1>4 DEF Moving
    <2> QED
      BY <1>7, <2>1, <2>2, <2>3, <2>4, <2>5, <2>6, <2>7 DEF Owner
  <1>11. Left(t)'
    BY <1>6, <1>7 DEF Left
  <1> QED
    BY <1>8, <1>9, <1>10, <1>11 DEF Moved

LEMMA CenterMoving ==
    ASSUME TypeOK, Answerable, Unlisted, NEW a \in Gates, Moving(a), CenterStep
    PROVE  Moving(a)' \/ Settled' \/ \E t \in Games : Moved(t)'
  <1>1. PICK q \in Peers["center"] : \E u, h, k, out : CenterDeed(q, u, h, k, out)
    BY CenterDoes
  <1>2. PICK u, h, k, out : CenterDeed(q, u, h, k, out)
    BY <1>1
  <1> DEFINE m == Incoming(q, "center")
             t == Tag(m)
  <1>3. /\ "center" \in Processes /\ "center" \notin Gates
        /\ q \in Processes /\ q \in Gates \cup Games /\ "center" \in Peers[q] /\ "center" # "db"
        /\ Hears("center", q) /\ Handle(q, "center", out)
        /\ UNCHANGED <<gate, listed, role>> /\ home' = h /\ user' = u /\ home \in Games /\ up = Links
        /\ user \in Users \cup {None} /\ a \in Processes /\ "center" \in Peers[a] /\ a \notin Games
    BY <1>2, Connections DEF CenterDeed, CenterHandles, gateVars, dataVars, TypeOK, Answerable, Whole
  <1>4. Moves("center", q, out) /\ t \in Tags(wire[q]["center"]) /\ m \in Msgs /\ Carried("center", out)
    BY <1>3, HandleMoves, HandleCarries
  <1>5. q \in Gates => q = a
    BY <1>3, <1>4 DEF Moving, Alone
  <1>6. t \notin {"closed", "syn", "ERROR", "entered_jump"}
    BY <1>3, <1>4, WholeTags DEF Answerable, Moving, Between, Somewhere
  <1>7. "cross" \in Tags(wire[a]["center"])
    BY DEF Moving
  <1>8. t \notin {"reg", "LOGOUT"} \/ q # a
    <2>1. SUFFICES ASSUME q = a, t \in {"reg", "LOGOUT"} PROVE FALSE
      OBVIOUS
    <2>2. "cross" \in Tags(wire'[a]["center"])
      BY <1>3, <1>4, <1>7, <2>1, MovesKeep
    <2>3. Never(wire[a]["center"], t, "cross")
      BY <2>1 DEF Moving
    <2> QED
      BY <1>3, <1>4, <2>1, <2>2, <2>3, MovesHead
  <1>9. t = "LOGOUT" => q = a
    BY <1>3, <1>4 DEF Moving
  <1>10. user # None /\ user.gate = a /\ listed[a] = {} /\ gate[a] # "SCENE"
         /\ \A c \in Gates \ {a} : gate[c] = "NONE"
    BY DEF Moving, Alone
  <1>11. CASE ~(q = a /\ t = "cross")
    <2> HIDE DEF t, m
    <2>1. Mute(out) /\ \/ u = [user EXCEPT !.on = "OFFLINE"]
                       \/ u = [user EXCEPT !.on = "ONLINE"]
      BY <1>2, <1>3, <1>5, <1>6, <1>8, <1>9, <1>10, <1>11 DEF CenterDeed, t, m, Codes
    <2>2. u # None /\ u.gate = a
      BY <1>3, <1>10, <2>1, NoneAssumption DEF Users
    <2>3. \A s : Gets(out, s) = {}
      BY <2>1 DEF Mute
    <2>4. q = a => Tag(Incoming(q, "center")) # "cross"
      BY <1>11 DEF t, m
    <2> QED
      BY <1>3, <1>4, <1>10, <2>2, <2>3, <2>4, MovingMoves
  <1>12. CASE q = a /\ t = "cross"
    <2>1. \/ /\ h = home /\ m.to \in Games
             /\ u = [user EXCEPT !.game = m.to] /\ Sends(out, m.to, "reg_jump", a)
          \/ h = home /\ Only(out, Gates, "ERROR")
      <3>1. m.kind = "cross"
        BY <1>4, <1>12, TagMeans
      <3>2. m.to \in Games
        BY <1>4, <3>1, Carries
      <3> QED
        BY <1>2, <1>3, <1>10, <1>12, <3>2 DEF CenterDeed, Codes
    <2>2. CASE /\ m.to \in Games
               /\ u = [user EXCEPT !.game = m.to] /\ Sends(out, m.to, "reg_jump", a)
      <3>1. u # None /\ u.gate = a /\ u.game = m.to
        BY <1>3, <1>10, <2>2, NoneAssumption DEF Users
      <3> QED
        BY <1>3, <1>4, <1>12, <2>2, <3>1, MovingEnds
    <2>3. CASE h = home /\ Only(out, Gates, "ERROR")
      <3>1. \A s : Gets(out, s) \subseteq {"ERROR"}
        BY <2>3 DEF Only
      <3>2. /\ \A g \in Games : /\ g \in Processes /\ g # "center" /\ g \in Peers["center"] /\ "center" \in Peers[g]
                                /\ \A b \in Gates : b \in Peers[g]
            /\ \A b \in Gates : b \in Processes /\ b # "center" /\ "center" \in Peers[b]
        BY Connections
      <3>3. ASSUME NEW g \in Games
            PROVE  Empty(g)'
        <4>1. /\ role[g] = None /\ Tags(wire["center"][g]) \cap {"reg_scene", "reg_jump"} = {}
          BY BetweenIdle DEF Moving
        <4>2. "entered_jump" \notin Tags(wire[g]["center"])
          BY Nowhere DEF Moving, Between
        <4>3. "entered_jump" \notin Tags(wire'[g]["center"])
          BY <1>3, <1>4, <3>2, <4>2, MovesLess
        <4>4. Tags(wire'["center"][g]) \subseteq Tags(wire["center"][g]) \cup {"ERROR"}
          BY <1>3, <1>4, <3>1, <3>2, MovesPut
        <4> QED
          BY <1>3, <4>1, <4>3, <4>4 DEF Empty, Vacant
      <3>4. ASSUME NEW b \in Gates
            PROVE  "cross" \notin Tags(wire'[b]["center"]) /\ \A g \in Games : "cross" \notin Tags(wire'[g][b])
        <4>1. \A g \in Games : "cross" \notin Tags(wire'[g][b])
          <5> SUFFICES ASSUME NEW g \in Games PROVE "cross" \notin Tags(wire'[g][b])
            OBVIOUS
          <5>1. Tags(wire'[g][b]) \subseteq Tags(wire[g][b])
            BY <1>3, <1>4, <3>2, MovesLess
          <5> QED
            BY <5>1 DEF Moving
        <4>2. CASE b = a
          BY <1>3, <1>4, <1>12, <4>1, <4>2, MovesHead DEF Moving
        <4>3. CASE b # a
          <5>1. Tags(wire'[b]["center"]) \subseteq Tags(wire[b]["center"])
            BY <1>3, <1>4, <3>2, MovesLess
          <5> QED
            BY <3>2, <4>1, <4>3, <5>1 DEF Moving, Alone
        <4> QED
          BY <4>2, <4>3
      <3>5. home' = home
        BY <1>3, <2>3
      <3> QED
        BY <1>3, <3>3, <3>4, <3>5 DEF Settled
    <2> QED
      BY <2>1, <2>2, <2>3
  <1> QED
    BY <1>11, <1>12

----------------------------------------------------------------------------
(* Center sent the player on to game t.  First, what keeps the parts of    *)
(* Moved; p takes a letter from q, or acts on its own account, and sends   *)
(* "out".                                                                  *)

LEMMA LeftMoves ==
    ASSUME up = Links, NEW t \in Games, Left(t), NEW p, NEW q, NEW out, Moves(p, q, out),
           \A g \in Games \ {t} : role'[g] = None,
           p = "center" => \A g \in Games \ {t} : Gets(out, g) \cap {"reg_scene", "reg_jump", "relogin"} = {},
           p \in Games /\ p # t => /\ "entered_jump" \notin Gets(out, "center")
                                   /\ \A b \in Gates : "success" \notin Gets(out, b),
           p \in Games => \A b \in Gates : "cross" \notin Gets(out, b),
           p \in Gates => "cross" \notin Gets(out, "center")
    PROVE  Left(t)'
  <1>1. /\ "center" \in Processes
        /\ \A g \in Games : /\ g \in Processes /\ g \in Peers["center"] /\ "center" \in Peers[g]
                            /\ \A b \in Gates : b \in Peers[g]
        /\ \A b \in Gates : b \in Processes /\ "center" \in Peers[b]
    BY Connections
  <1>2. ASSUME NEW g \in Games \ {t}
        PROVE  /\ Empty(g)' /\ "relogin" \notin Tags(wire'["center"][g])
               /\ \A b \in Gates : "success" \notin Tags(wire'[g][b])
    <2>1. /\ Tags(wire["center"][g]) \cap {"reg_scene", "reg_jump", "relogin"} = {}
          /\ "entered_jump" \notin Tags(wire[g]["center"])
          /\ \A b \in Gates : "success" \notin Tags(wire[g][b])
      BY DEF Left, Empty, Vacant
    <2>2. Tags(wire'["center"][g]) \cap {"reg_scene", "reg_jump", "relogin"} = {}
      BY <1>1, <2>1, MovesTag
    <2>3. "entered_jump" \notin Tags(wire'[g]["center"])
      BY <1>1, <2>1, MovesTag
    <2>4. \A b \in Gates : "success" \notin Tags(wire'[g][b])
      BY <1>1, <2>1, MovesTag
    <2> QED
      BY <2>2, <2>3, <2>4 DEF Empty, Vacant
  <1>3. \A b \in Gates : "cross" \notin Tags(wire'[b]["center"])
    BY <1>1, MovesTag DEF Left
  <1>4. \A b \in Gates, g \in Games : "cross" \notin Tags(wire'[g][b])
    BY <1>1, MovesTag DEF Left
  <1> QED
    BY <1>2, <1>3, <1>4 DEF Left

LEMMA VacantMoves ==
    ASSUME up = Links, NEW t \in Games, Vacant(t), NEW p, NEW q, NEW out, Moves(p, q, out), role'[t] = None,
           p = "center" => Gets(out, t) \cap {"reg_scene", "reg_jump"} = {}
    PROVE  Vacant(t)'
  <1>1. "center" \in Processes /\ t \in Peers["center"]
    BY Connections
  <1>2. Tags(wire'["center"][t]) \cap {"reg_scene", "reg_jump"} = {}
    BY <1>1, MovesTag DEF Vacant
  <1> QED
    BY <1>2 DEF Vacant

LEMMA EmptyMoves ==
    ASSUME up = Links, NEW t \in Games, Empty(t), NEW p, NEW q, NEW out, Moves(p, q, out), role'[t] = None,
           p = "center" => Gets(out, t) \cap {"reg_scene", "reg_jump"} = {},
           p = t => "entered_jump" \notin Gets(out, "center")
    PROVE  Empty(t)'
  <1>1. t \in Processes /\ "center" \in Peers[t]
    BY Connections
  <1>2. "entered_jump" \notin Tags(wire'[t]["center"])
    BY <1>1, MovesTag DEF Empty
  <1> QED
    BY <1>2, VacantMoves DEF Empty

\* Who plays is announced, or will be told to go.
LEMMA PlaysMoves ==
    ASSUME up = Links, NEW t \in Games, Landed(t), Plays(t), NEW p, NEW q, NEW out, Moves(p, q, out),
           p = "center" /\ q = t => Tag(Incoming(q, p)) # "entered_jump" \/ Gets(out, t) \cap Kills # {},
           p = t /\ q = "center" => Tag(Incoming(q, p)) \notin Kills
    PROVE  "entered_jump" \in Tags(wire'[t]["center"]) \/ Tags(wire'["center"][t]) \cap Kills # {}
  <1>1. "center" \in Processes /\ t \in Peers["center"] /\ t \in Processes /\ "center" \in Peers[t]
        /\ t # "center"
    BY Connections
  <1>2. CASE "entered_jump" \in Tags(wire[t]["center"])
    <2>1. CASE p = "center" /\ Gets(out, t) \cap Kills # {}
      BY <1>1, <2>1, MovesPut
    <2>2. CASE ~(p = "center" /\ Gets(out, t) \cap Kills # {})
      BY <1>1, <1>2, <2>2, MovesKeep
    <2> QED
      BY <2>1, <2>2
  <1>3. CASE Tags(wire["center"][t]) \cap Kills # {}
    <2>1. PICK k \in Kills : k \in Tags(wire["center"][t])
      BY <1>3
    <2>2. k \in Tags(wire'["center"][t])
      BY <1>1, <2>1, MovesKeep
    <2> QED
      BY <2>1, <2>2
  <1> QED
    BY <1>2, <1>3 DEF Landed

LEMMA LandedMoves ==
    ASSUME up = Links, NEW t \in Games, Landed(t), NEW p, NEW q, NEW out, Moves(p, q, out),
           Loading(t)' => role'[t].type \in {"jump", "none"},
           Plays(t)' => "entered_jump" \in Tags(wire'[t]["center"]) \/ Tags(wire'["center"][t]) \cap Kills # {},
           p = t /\ Gets(out, "center") \cap Kills # {} => Vacant(t)',
           Vacant(t) /\ Tags(wire[t]["center"]) \cap Kills # {} => Vacant(t)',
           p = t /\ "entered_jump" \in Gets(out, "center") => Tags(wire[t]["center"]) \cap Kills = {}
    PROVE  Landed(t)'
  <1>1. t \in Processes /\ "center" \in Peers[t]
    BY Connections
  <1>2. ASSUME Tags(wire'[t]["center"]) \cap Kills # {}
        PROVE  Vacant(t)'
    <2>1. PICK k \in Kills : k \in Tags(wire'[t]["center"])
      BY <1>2
    <2>2. k \in Tags(wire[t]["center"]) \/ (t = p /\ k \in Gets(out, "center"))
      BY <1>1, <2>1, MovesTag
    <2> QED
      BY <2>1, <2>2 DEF Landed
  <1>3. ASSUME NEW k \in Kills
        PROVE  Never(wire'[t]["center"], k, "entered_jump")
    <2>1. Never(wire[t]["center"], k, "entered_jump")
      BY DEF Landed
    <2> QED
      BY <1>1, <1>3, <2>1, MovesTag
  <1> QED
    BY <1>2, <1>3 DEF Landed

LEMMA LandingMoves ==
    ASSUME up = Links, NEW t \in Games, Landing(t), NEW p, NEW q, NEW out, Moves(p, q, out),
           p = "center" => Gets(out, t) \cap {"reg_scene", "reg_jump"} = {},
           "reg_jump" \in Tags(wire'["center"][t]) /\ "reg_jump" \in Tags(wire["center"][t]) =>
             /\ role'[t] = None
             /\ \A b \in Gates : /\ t \notin listed'[b]
                                 /\ p = t => "success" \notin Gets(out, b)
                                 /\ p = b => Gets(out, t) \cap Kills = {}
    PROVE  Landing(t)'
  <1>1. /\ "center" \in Processes /\ t \in Peers["center"] /\ t \in Processes
        /\ \A b \in Gates : b \in Peers[t] /\ b \in Processes /\ t \in Peers[b]
    BY Connections
  <1>2. "reg_scene" \notin Tags(wire'["center"][t])
    BY <1>1, MovesTag DEF Landing
  <1>3. ASSUME NEW s \in {"reg_jump", "relogin"}
        PROVE  Never(wire'["center"][t], s, "reg_jump")
    <2>1. Never(wire["center"][t], s, "reg_jump")
      BY DEF Landing
    <2> QED
      BY <1>1, <2>1, MovesTag
  <1>4. ASSUME "reg_jump" \in Tags(wire'["center"][t]), NEW b \in Gates
        PROVE  /\ role'[t] = None /\ t \notin listed'[b]
               /\ "success" \notin Tags(wire'[t][b]) /\ Tags(wire'[b][t]) \cap Kills = {}
    <2>1. "reg_jump" \in Tags(wire["center"][t])
      BY <1>1, <1>4, MovesTag
    <2>2. "success" \notin Tags(wire[t][b]) /\ Tags(wire[b][t]) \cap Kills = {}
      BY <2>1 DEF Landing
    <2>3. "success" \notin Tags(wire'[t][b])
      BY <1>1, <1>4, <2>1, <2>2, MovesTag
    <2>4. Tags(wire'[b][t]) \cap Kills = {}
      BY <1>1, <1>4, <2>1, <2>2, MovesTag
    <2> QED
      BY <1>4, <2>1, <2>3, <2>4
  <1>5. "reg_jump" \in Tags(wire'["center"][t]) => role'[t] = None
    BY <1>1, MovesTag
  <1> QED
    BY <1>2, <1>3, <1>4, <1>5 DEF Landing

LEMMA OwnerMoves ==
    ASSUME up = Links, NEW t \in Games, NEW x \in Gates, Owner(t, x),
           NEW p, NEW q, NEW out, Moves(p, q, out), Carried(p, out),
           \A b \in Gates \ {x} : gate'[b] = "NONE", p \in Gates /\ p # x => Mute(out),
           listed'[x] \subseteq {t},
           user' = None \/ user'.gate # x => Empty(t)',
           role'[t] # None => role'[t].gate = x,
           p \in Games /\ p # t => Gets(out, "center") \cap Kills = {},
           p = t => \A b \in Gates \ {x} : "success" \notin Gets(out, b),
           p = x => /\ \A g \in Games \ {t} : Gets(out, g) \cap Kills = {}
                    /\ "reg" \in Gets(out, "center") => gate[x] # "NONE",
           gate'[x] # "NONE" => gate[x] # "NONE" /\ (p = x => Gets(out, "center") \cap Kills = {}),
           p = "center" /\ t \in DOMAIN out /\ out[t].kind \in {"reg_scene", "relogin"} => out[t].gate = x
    PROVE  Owner(t, x)'
  <1>1. /\ "center" \in Processes /\ t \in Peers["center"] /\ t \in Processes /\ x \in Processes
        /\ "center" \in Peers[x]
        /\ \A b \in Gates : b \in Processes
        /\ \A g \in Games : g \in Processes /\ "center" \in Peers[g] /\ g \in Peers[x] /\ \A b \in Gates : b \in Peers[g]
    BY Connections
  <1>2. Alone(x)'
    <2>1. SUFFICES ASSUME NEW b \in Gates \ {x}, NEW s \in Peers[b]
                   PROVE  Tags(wire'[b][s]) = {}
      BY DEF Alone
    <2>2. Tags(wire[b][s]) = {} /\ (b = p => Gets(out, s) = {})
      BY DEF Owner, Alone, Mute
    <2>3. Tags(wire'[b][s]) \subseteq Tags(wire[b][s])
      BY <1>1, <2>2, MovesLess
    <2> QED
      BY <2>2, <2>3
  <1>3. \A b \in Gates \ {x} : "success" \notin Tags(wire'[t][b])
    BY <1>1, MovesTag DEF Owner
  <1>4. \A g \in Games \ {t} : Tags(wire'[g]["center"]) \cap Kills = {}
    BY <1>1, MovesTag DEF Owner
  <1>5. \A g \in Games \ {t} : Tags(wire'[x][g]) \cap Kills = {}
    BY <1>1, MovesTag DEF Owner
  <1>6. ASSUME NEW k \in Kills
        PROVE  Never(wire'[x]["center"], k, "reg")
    <2>1. Never(wire[x]["center"], k, "reg") /\ (gate[x] # "NONE" => k \notin Tags(wire[x]["center"]))
      BY DEF Owner
    <2> QED
      BY <1>1, <2>1, MovesTag
  <1>7. ASSUME gate'[x] # "NONE"
        PROVE  Tags(wire'[x]["center"]) \cap Kills = {}
    <2>1. Tags(wire[x]["center"]) \cap Kills = {}
      BY <1>7 DEF Owner
    <2> QED
      BY <1>1, <1>7, <2>1, MovesTag
  <1>8. ASSUME NEW m \in Letters(wire'["center"][t]), m.kind \in {"reg_scene", "relogin"}
        PROVE  m.gate = x
    <2>1. CASE m \in Letters(wire["center"][t])
      BY <1>8, <2>1 DEF Owner
    <2>2. CASE p = "center" /\ t \in DOMAIN out /\ m = out[t]
      BY <1>8, <2>2
    <2> QED
      BY <1>1, <2>1, <2>2 DEF Carried
  <1> QED
    BY <1>2, <1>3, <1>4, <1>5, <1>6, <1>7, <1>8 DEF Owner

\* Who lives at a gate is alone there.
LEMMA OwnerAlone ==
    ASSUME NEW t \in Games, Moved(t), NEW x \in Gates, Live(x)
    PROVE  /\ Owner(t, x)
           /\ \A b \in Gates \ {x} : gate[b] = "NONE" /\ (\A s \in Peers[b] : Tags(wire[b][s]) = {}) /\ ~Live(b)
  <1>1. Owner(t, x)
    BY DEF Moved
  <1>2. ASSUME NEW b \in Gates \ {x}
        PROVE  gate[b] = "NONE" /\ (\A s \in Peers[b] : Tags(wire[b][s]) = {}) /\ ~Live(b)
    <2>1. gate[b] = "NONE" /\ \A s \in Peers[b] : Tags(wire[b][s]) = {}
      BY <1>1 DEF Owner, Alone
    <2>2. "center" \in Peers[b]
      BY Connections
    <2> QED
      BY <2>1, <2>2 DEF Live, Reg
  <1> QED
    BY <1>1, <1>2

\* A step of a gate: its part is done when the gates that live have their owner.
LEMMA GateSideMoves ==
    ASSUME TypeOK, up = Links, NEW t \in Games, Moved(t), NEW b \in Gates, NEW q, NEW out, Moves(b, q, out),
           UNCHANGED <<user, role>>, "cross" \notin Gets(out, "center"),
           "reg_jump" \in Tags(wire["center"][t]) =>
             /\ \A c \in Gates : t \notin listed'[c]
             /\ Gets(out, t) \cap Kills = {},
           \A x \in Gates : Live(x)' => Owner(t, x)'
    PROVE  Moved(t)'
  <1>1. b \notin Games /\ b # "center" /\ b # t
    BY Connections
  <1>2. Left(t) /\ Landed(t) /\ Landing(t) /\ (user # None => user.game = t)
    BY DEF Moved
  <1>3. Left(t)'
    <2>1. \A g \in Games \ {t} : role[g] = None
      BY <1>2 DEF Left, Empty, Vacant
    <2> QED
      BY <1>1, <1>2, <2>1, LeftMoves
  <1>4. Landed(t)'
    <2>1. Loading(t)' => role'[t].type \in {"jump", "none"}
      BY <1>2 DEF Landed, Loading
    <2>2. Plays(t)' => "entered_jump" \in Tags(wire'[t]["center"]) \/ Tags(wire'["center"][t]) \cap Kills # {}
      <3>1. Plays(t)' => Plays(t)
        BY DEF Plays
      <3> QED
        BY <1>1, <1>2, <3>1, PlaysMoves
    <2>3. Vacant(t) => Vacant(t)'
      <3>1. SUFFICES ASSUME Vacant(t) PROVE Vacant(t)'
        OBVIOUS
      <3>2. role'[t] = None
        BY <3>1 DEF Vacant
      <3> QED
        BY <1>1, <3>1, <3>2, VacantMoves
    <2> QED
      BY <1>1, <1>2, <2>1, <2>2, <2>3, LandedMoves
  <1>5. Landing(t)'
    <2>1. "reg_jump" \in Tags(wire["center"][t]) => role'[t] = None
      BY <1>2 DEF Landing
    <2> QED
      BY <1>1, <1>2, <2>1, LandingMoves
  <1> QED
    BY <1>2, <1>3, <1>4, <1>5 DEF Moved

LEMMA PlayerMoved ==
    ASSUME TypeOK, Answerable, Unlisted, NEW t \in Games, Moved(t), NEW b \in Gates, PlayerStep(b),
           hurries' = hurries
    PROVE  Moved(t)'
  <1>1. up = Links /\ b \in Processes /\ "center" \in Peers[b] /\ "center" # "db" /\ "center" \notin Games
        /\ gate \in [Gates -> States] /\ listed \in [Gates -> SUBSET Games] /\ b # "center"
        /\ "center" \in Processes /\ t \in Peers["center"] /\ t \in Processes /\ b \notin Games
        /\ \A g \in Games : g \in Peers[b]
    BY Connections DEF Answerable, Whole, TypeOK, States
  <1>2. CASE gate[b] = "NONE"
    <2>1. /\ \A p \in Processes : \A s \in Peers[p] : wire[p][s] = <<>> /\ Tags(wire[p][s]) = {}
          /\ \A c \in Gates \ {b} : gate[c] = "NONE"
          /\ gate' = [gate EXCEPT ![b] = "GATE"] /\ UNCHANGED <<listed, user, home, role>>
      BY <1>2, ArriveQuiet
    <2>2. PICK out : Send(b, out) /\ Mute(out)
      BY <1>2, ArriveQuiet
    <2>3. Moves(b, b, out) /\ Carried(b, out) /\ \A s : Gets(out, s) = {}
      BY <1>1, <2>2, SendMoves, SendCarries DEF Mute
    <2>4. \A p \in Processes : \A s \in Peers[p] : Tags(wire'[p][s]) = {}
      <3> SUFFICES ASSUME NEW p \in Processes, NEW s \in Peers[p] PROVE Tags(wire'[p][s]) = {}
        OBVIOUS
      <3>1. Tags(wire'[p][s]) \subseteq Tags(wire[p][s])
        BY <1>1, <2>3, MovesLess
      <3> QED
        BY <2>1, <3>1
    <2>5. role[t] = None
      <3>1. ~Plays(t)
        <4>1. "center" \in Peers[t]
          BY Connections
        <4>2. Tags(wire[t]["center"]) = {} /\ Tags(wire["center"][t]) = {}
          BY <1>1, <2>1, <4>1
        <4>3. Plays(t) => "entered_jump" \in Tags(wire[t]["center"]) \/ Tags(wire["center"][t]) \cap Kills # {}
          BY DEF Moved, Landed
        <4> QED
          BY <4>2, <4>3
      <3>2. ~Loading(t)
        <4>1. "db" \in Peers[t] /\ "db" \in Processes /\ t \in Peers["db"]
          BY Connections
        <4>2. ~Asked(t)
          BY <1>1, <2>1, <4>1, AskedTags
        <4> QED
          BY <4>2 DEF Answerable
      <3> QED
        BY <3>1, <3>2 DEF Plays, Loading, TypeOK, Roles
    <2>6. ASSUME NEW x \in Gates, Live(x)'
          PROVE  Owner(t, x)'
      <3>1. x = b
        <4>1. SUFFICES ASSUME x # b PROVE FALSE
          OBVIOUS
        <4>2. gate'[x] = "NONE" /\ x \in Processes /\ "center" \in Peers[x]
          BY <1>1, <2>1, <4>1, Connections
        <4> QED
          BY <2>4, <2>6, <4>2 DEF Live, Reg
      <3>2. Alone(b)'
        <4>1. \A c \in Gates : c \in Processes
          BY Connections
        <4> QED
          BY <1>1, <2>1, <2>4, <4>1 DEF Alone
      <3>3. Empty(t)'
        <4>1. "center" \in Peers[t]
          BY Connections
        <4>2. Tags(wire'[t]["center"]) = {} /\ Tags(wire'["center"][t]) = {}
          BY <1>1, <2>4, <4>1
        <4>3. role'[t] = None
          BY <2>1, <2>5
        <4> QED
          BY <4>2, <4>3 DEF Empty, Vacant
      <3>4. listed'[b] = {} /\ role'[t] = None
        BY <1>2, <2>1, <2>5 DEF Unlisted
      <3>5. /\ \A g \in Games : Tags(wire'[g]["center"]) = {} /\ Tags(wire'[b][g]) = {}
            /\ \A c \in Gates : Tags(wire'[t][c]) = {}
            /\ Tags(wire'[b]["center"]) = {}
        BY <1>1, <2>4, Connections, ZenonT(60)
      <3>6. \A k : Never(wire'[b]["center"], k, "reg")
        BY <3>5, TagsEmpty
      <3>7. Letters(wire'["center"][t]) = {}
        <4>1. Letters(wire["center"][t]) = {}
          BY <1>1, <2>1, LettersEmpty
        <4> QED
          BY <1>1, <2>3, <4>1 DEF Carried
      <3> QED
        BY <3>1, <3>2, <3>3, <3>4, <3>5, <3>6, <3>7 DEF Owner
    <2>7. "reg_jump" \notin Tags(wire["center"][t])
      BY <1>1, <2>1
    <2> QED
      BY <1>1, <2>1, <2>3, <2>6, <2>7, GateSideMoves
  <1>3. CASE gate[b] # "NONE"
    <2>1. PICK st, out : PlayerDeed(b, st, out)
      BY PlayerDoes
    <2>2. /\ Send(b, out) /\ UNCHANGED <<user, role>> /\ gate' = [gate EXCEPT ![b] = st]
          /\ listed' \in {listed, [listed EXCEPT ![b] = {}]}
      BY <2>1 DEF PlayerDeed, GateMoves, centerVars, dataVars
    <2>3. Moves(b, b, out) /\ Carried(b, out)
      BY <1>1, <2>2, SendMoves, SendCarries
    <2>4. Live(b)
      BY <1>3 DEF Live
    <2>5. Owner(t, b) /\ \A c \in Gates \ {b} : gate[c] = "NONE" /\ ~Live(c)
      BY <2>4, OwnerAlone
    <2>6. /\ "cross" \notin Gets(out, "center")
          /\ \A g \in Games : g \notin listed[b] => Gets(out, g) \cap Kills = {}
          /\ st # "NONE" => Gets(out, "center") \cap Kills = {}
      <3>1. \/ Mute(out)
            \/ \E T : Only(out, T, "reg") \/ Only(out, T, "ready") \/ Only(out, T, "OFFLINE")
            \/ /\ st = "NONE"
               /\ \E T \in Told(b) : Only(out, IF T = {} THEN {"center"} ELSE T, "LOGOUT")
        BY <2>1 DEF PlayerDeed
      <3>2. CASE Mute(out)
        BY <3>2 DEF Mute
      <3>3. ASSUME NEW T, Only(out, T, "reg") \/ Only(out, T, "ready") \/ Only(out, T, "OFFLINE")
            PROVE  \A s : Gets(out, s) \cap Kills = {} /\ "cross" \notin Gets(out, s)
        BY <3>3 DEF Only, Kills
      <3>4. CASE /\ st = "NONE"
                 /\ \E T \in Told(b) : Only(out, IF T = {} THEN {"center"} ELSE T, "LOGOUT")
        <4>1. PICK T \in SUBSET listed[b] : Only(out, IF T = {} THEN {"center"} ELSE T, "LOGOUT")
          BY <3>4 DEF Told
        <4> QED
          BY <1>1, <3>4, <4>1 DEF Only
      <3> QED
        BY <3>1, <3>2, <3>3, <3>4
    <2>7. ASSUME NEW x \in Gates, Live(x)'
          PROVE  Owner(t, x)'
      <3>1. x = b
        <4>1. SUFFICES ASSUME x # b PROVE FALSE
          OBVIOUS
        <4>2. gate'[x] = "NONE" /\ x \in Processes /\ "center" \in Peers[x]
          BY <1>1, <2>2, <2>5, <4>1, Connections
        <4>3. Reg(x)' => Reg(x)
          BY <1>1, <2>3, <4>1, <4>2, MovesLess DEF Reg
        <4> QED
          BY <2>5, <2>7, <4>1, <4>2, <4>3 DEF Live
      <3>2. listed[b] \subseteq {t} /\ listed'[b] \subseteq {t}
        BY <1>1, <2>2, <2>5 DEF Owner
      <3>3. gate'[b] = st /\ \A c \in Gates \ {b} : gate'[c] = "NONE"
        BY <1>1, <2>2, <2>5
      <3>4. user' = None \/ user'.gate # b => Empty(t)'
        <4>1. SUFFICES ASSUME user = None \/ user.gate # b PROVE Empty(t)'
          BY <2>2
        <4>2. Empty(t) /\ role'[t] = None
          BY <2>2, <2>5, <4>1 DEF Owner, Empty, Vacant
        <4> QED
          BY <1>1, <2>3, <4>2, EmptyMoves
      <3>5. role'[t] # None => role'[t].gate = b
        BY <2>2, <2>5 DEF Owner
      <3>6. \A g \in Games \ {t} : Gets(out, g) \cap Kills = {}
        BY <2>6, <3>2
      <3> QED
        BY <1>1, <1>3, <2>3, <2>5, <2>6, <3>1, <3>2, <3>3, <3>4, <3>5, <3>6, OwnerMoves
    <2>8. ASSUME "reg_jump" \in Tags(wire["center"][t])
          PROVE  (\A c \in Gates : t \notin listed'[c]) /\ Gets(out, t) \cap Kills = {}
      <3>1. \A c \in Gates : t \notin listed[c]
        BY <2>8 DEF Moved, Landing
      <3> QED
        BY <1>1, <2>2, <2>6, <3>1
    <2> QED
      BY <1>1, <2>2, <2>3, <2>6, <2>7, <2>8, GateSideMoves
  <1> QED
    BY <1>2, <1>3

LEMMA GateMoved ==
    ASSUME TypeOK, Answerable, NEW t \in Games, Moved(t), NEW b \in Gates, GateStep(b)
    PROVE  Moved(t)'
  <1>1. PICK q \in Peers[b] : \E st, lst, out : GateDeed(q, b, st, lst, out)
    BY GateDoes
  <1>2. PICK st, lst, out : GateDeed(q, b, st, lst, out)
    BY <1>1
  <1> DEFINE k == Tag(Incoming(q, b))
  <1>3. /\ b \in Processes /\ b \notin Games /\ b # "center" /\ q \in Processes /\ b \in Peers[q] /\ b # t
        /\ "center" \in Peers[b] /\ Hears(b, q) /\ Handle(q, b, out)
        /\ UNCHANGED <<user, role>>
        /\ gate' = [gate EXCEPT ![b] = st] /\ listed' = [listed EXCEPT ![b] = lst]
        /\ gate \in [Gates -> States] /\ listed \in [Gates -> SUBSET Games] /\ up = Links
    BY <1>2, Connections DEF GateDeed, GateHandles, centerVars, dataVars, TypeOK, States, Answerable, Whole
  <1>4. Moves(b, q, out) /\ Carried(b, out) /\ k \in Tags(wire[q][b])
    BY <1>3, HandleMoves, HandleCarries
  <1>5. k \notin {"closed", "kick_all"}
    BY <1>3, <1>4, WholeTags DEF Answerable
  <1>6. (q \in Games => k # "cross") /\ (q \in Games /\ k = "success" => q = t)
    BY <1>4 DEF Moved, Left
  <1> HIDE DEF k
  <1>7. \/ Mute(out) /\ ((st = gate[b] /\ lst = listed[b]) \/ (st = "NONE" /\ lst = {}))
        \/ /\ q = t /\ k = "success" /\ gate[b] \in {"LOGIN", "WAIT"}
           /\ st = "SCENE" /\ lst = listed[b] \cup {t} /\ Mute(out)
        \/ /\ q = t /\ k = "success" /\ gate[b] = "OFFLINE"
           /\ st = "OFFLINE" /\ lst = listed[b] /\ \E T : Only(out, T, "OFFLINE")
        \/ q = t /\ k = "success" /\ st = "NONE" /\ lst = {} /\ Only(out, {"center", t}, "ERROR")
    BY <1>2, <1>5, <1>6 DEF GateDeed, k
  <1>8. \A s : Gets(out, s) \subseteq {"OFFLINE", "ERROR"}
    BY <1>7 DEF Only, Mute
  <1>9. ASSUME NEW c \in Gates, Live(c)'
        PROVE  Live(c)
    <2>1. gate'[c] # "NONE" => gate[c] # "NONE"
      BY <1>3, <1>7
    <2>2. c \in Processes /\ "center" \in Peers[c]
      BY Connections
    <2>3. Reg(c)' => Reg(c)
      <3>1. CASE c = b
        BY <1>3, <1>4, <1>8, <3>1, MovesPut DEF Reg
      <3>2. CASE c # b
        BY <1>3, <1>4, <2>2, <3>2, MovesLess DEF Reg
      <3> QED
        BY <3>1, <3>2
    <2> QED
      BY <1>9, <2>1, <2>3 DEF Live
  <1>10. ASSUME "reg_jump" \in Tags(wire["center"][t])
         PROVE  (\A c \in Gates : t \notin listed'[c]) /\ Gets(out, t) \cap Kills = {}
    <2>1. \A c \in Gates : t \notin listed[c] /\ "success" \notin Tags(wire[t][c])
      BY <1>10 DEF Moved, Landing
    <2>2. ~(q = t /\ k = "success")
      BY <1>4, <2>1
    <2> QED
      BY <1>3, <1>7, <2>1, <2>2 DEF Mute
  <1>11. ASSUME NEW x \in Gates, Live(x)'
         PROVE  Owner(t, x)'
    <2>1. Owner(t, x) /\ \A c \in Gates \ {x} : gate[c] = "NONE"
      BY <1>9, <1>11, OwnerAlone
    <2>2. listed[x] \subseteq {t} /\ (role[t] # None => role[t].gate = x)
          /\ (user = None \/ user.gate # x => Empty(t))
          /\ \A c \in Gates \ {x} : "success" \notin Tags(wire[t][c])
      BY <2>1 DEF Owner
    <2>3. user' = None \/ user'.gate # x => Empty(t)'
      <3>1. SUFFICES ASSUME user = None \/ user.gate # x PROVE Empty(t)'
        BY <1>3
      <3>2. Empty(t) /\ role'[t] = None
        BY <1>3, <2>2, <3>1 DEF Empty, Vacant
      <3> QED
        BY <1>3, <1>4, <3>2, EmptyMoves
    <2>4. role'[t] # None => role'[t].gate = x
      BY <1>3, <2>2
    <2>5. CASE b # x
      <3>1. Mute(out) /\ st = "NONE" /\ lst \in {listed[b], {}}
        BY <1>4, <1>7, <2>1, <2>2, <2>5
      <3>2. \A s : Gets(out, s) = {}
        BY <3>1 DEF Mute
      <3>3. listed'[x] \subseteq {t} /\ gate'[x] = gate[x] /\ \A c \in Gates \ {x} : gate'[c] = "NONE"
        BY <1>3, <2>1, <2>2, <2>5, <3>1
      <3> QED
        BY <1>3, <1>4, <2>1, <2>3, <2>4, <2>5, <3>1, <3>2, <3>3, OwnerMoves
    <2>6. CASE b = x
      <3>1. listed'[x] \subseteq {t} /\ gate'[x] = st /\ \A c \in Gates \ {x} : gate'[c] = "NONE"
        BY <1>3, <1>7, <2>1, <2>2, <2>6
      <3>2. st # "NONE" => gate[x] # "NONE" /\ Gets(out, "center") \cap Kills = {}
        <4>1. st # "NONE" => \/ Mute(out) /\ st = gate[b]
                             \/ gate[b] # "NONE" /\ Mute(out)
                             \/ gate[b] # "NONE" /\ \E T : Only(out, T, "OFFLINE")
          BY <1>7
        <4> QED
          BY <2>6, <4>1 DEF Mute, Only, Kills
      <3>3. \A g \in Games \ {t} : Gets(out, g) \cap Kills = {}
        <4> SUFFICES ASSUME NEW g \in Games \ {t} PROVE Gets(out, g) \cap Kills = {}
          OBVIOUS
        <4>1. g # "center"
          BY Connections
        <4> QED
          BY <1>7, <4>1 DEF Mute, Only, Kills
      <3> QED
        BY <1>3, <1>4, <1>8, <2>1, <2>3, <2>4, <2>6, <3>1, <3>2, <3>3, OwnerMoves
    <2> QED
      BY <2>5, <2>6
  <1> QED
    BY <1>3, <1>4, <1>8, <1>10, <1>11, GateSideMoves

\* A step of center that leaves the player with game t, or forgets it.
LEMMA CenterSideMoves ==
    ASSUME TypeOK, up = Links, NEW t \in Games, Moved(t), NEW q, NEW out,
           Moves("center", q, out), Carried("center", out), UNCHANGED <<gate, listed, role>>,
           user' # None => user # None /\ user'.game = t /\ user'.gate = user.gate,
           \A g \in Games : Gets(out, g) \cap {"reg_scene", "reg_jump"} = {},
           \A g \in Games \ {t} : "relogin" \notin Gets(out, g),
           \A x \in Gates : Live(x) /\ "relogin" \in Gets(out, t) => out[t].gate = x,
           q = t => Tag(Incoming(q, "center")) # "entered_jump" \/ Gets(out, t) \cap Kills # {},
           user' = None /\ user # None => \A x \in Gates : Live(x)' => Empty(t)'
    PROVE  Moved(t)'
  <1>1. Left(t) /\ Landed(t) /\ Landing(t) /\ "center" \notin Gates /\ "center" \notin Games /\ "center" # t
    BY Connections DEF Moved
  <1>2. \A g \in Games \ {t} : role[g] = None
    BY <1>1 DEF Left, Empty, Vacant
  <1>3. Left(t)'
    BY <1>1, <1>2, LeftMoves
  <1>4. Landed(t)'
    <2>1. Loading(t)' => role'[t].type \in {"jump", "none"}
      BY <1>1 DEF Landed, Loading
    <2>2. Plays(t)' => "entered_jump" \in Tags(wire'[t]["center"]) \/ Tags(wire'["center"][t]) \cap Kills # {}
      <3>1. Plays(t)' => Plays(t)
        BY DEF Plays
      <3> QED
        BY <1>1, <3>1, PlaysMoves
    <2>3. Vacant(t) => Vacant(t)'
      <3>1. SUFFICES ASSUME Vacant(t) PROVE Vacant(t)'
        OBVIOUS
      <3>2. role'[t] = None
        BY <3>1 DEF Vacant
      <3> QED
        BY <3>1, <3>2, VacantMoves
    <2> QED
      BY <1>1, <2>1, <2>2, <2>3, LandedMoves
  <1>5. Landing(t)'
    <2>1. "reg_jump" \in Tags(wire["center"][t]) => role'[t] = None /\ \A b \in Gates : t \notin listed'[b]
      BY <1>1 DEF Landing
    <2> QED
      BY <1>1, <2>1, LandingMoves
  <1>6. ASSUME NEW x \in Gates, Live(x)'
        PROVE  Owner(t, x)'
    <2>1. x \in Processes /\ "center" \in Peers[x] /\ x # "center"
      BY Connections
    <2>2. Live(x)
      <3>1. Tags(wire'[x]["center"]) \subseteq Tags(wire[x]["center"])
        BY <2>1, MovesLess
      <3> QED
        BY <1>6, <3>1 DEF Live, Reg
    <2>3. Owner(t, x) /\ \A b \in Gates \ {x} : gate[b] = "NONE"
      BY <2>2, OwnerAlone
    <2>4. Empty(t) => Empty(t)'
      <3>1. SUFFICES ASSUME Empty(t) PROVE Empty(t)'
        OBVIOUS
      <3>2. role'[t] = None
        BY <3>1 DEF Empty, Vacant
      <3> QED
        BY <1>1, <3>1, <3>2, EmptyMoves
    <2>5. user' = None \/ user'.gate # x => Empty(t)'
      BY <1>6, <2>3, <2>4 DEF Owner
    <2>6. listed'[x] \subseteq {t} /\ (role'[t] # None => role'[t].gate = x)
      BY <2>3 DEF Owner
    <2>7. t \in DOMAIN out /\ out[t].kind \in {"reg_scene", "relogin"} => out[t].gate = x
      <3>1. SUFFICES ASSUME t \in DOMAIN out, out[t].kind \in {"reg_scene", "relogin"} PROVE out[t].gate = x
        OBVIOUS
      <3>2. Gets(out, t) = {Tag(out[t])}
        BY <3>1 DEF Gets
      <3>3. Tag(out[t]) \in {"reg_scene", "reg_jump", "relogin"}
        BY <3>1 DEF Tag
      <3> QED
        BY <2>2, <3>2, <3>3
    <2> QED
      BY <1>1, <2>1, <2>3, <2>5, <2>6, <2>7, OwnerMoves
  <1> QED
    BY <1>3, <1>4, <1>5, <1>6 DEF Moved

\* A step of center after which the role is at home.
LEMMA MovedEnds ==
    ASSUME up = Links, NEW t \in Games, Moved(t), NEW q, NEW out, Moves("center", q, out), role' = role,
           home' \in Games, \A g \in Games \ {home'} : Empty(g) /\ Gets(out, g) \cap {"reg_scene", "reg_jump"} = {}
    PROVE  Settled'
  <1>1. /\ \A g \in Games : /\ g \in Processes /\ g # "center" /\ "center" \in Peers[g]
                            /\ \A b \in Gates : b \in Peers[g]
        /\ \A b \in Gates : b \in Processes /\ b # "center" /\ "center" \in Peers[b]
    BY Connections
  <1>2. ASSUME NEW g \in Games \ {home'}
        PROVE  Empty(g)'
    <2>1. Empty(g) /\ role'[g] = None
      BY DEF Empty, Vacant
    <2> QED
      BY <1>1, <2>1, EmptyMoves
  <1>3. ASSUME NEW b \in Gates
        PROVE  "cross" \notin Tags(wire'[b]["center"]) /\ \A g \in Games : "cross" \notin Tags(wire'[g][b])
    <2>1. Tags(wire'[b]["center"]) \subseteq Tags(wire[b]["center"])
      BY <1>1, MovesLess
    <2>2. ASSUME NEW g \in Games
          PROVE  Tags(wire'[g][b]) \subseteq Tags(wire[g][b])
      BY <1>1, MovesLess
    <2> QED
      BY <2>1, <2>2 DEF Moved, Left
  <1> QED
    BY <1>2, <1>3 DEF Settled

LEMMA CenterMoved ==
    ASSUME TypeOK, Answerable, NEW t \in Games, Moved(t), CenterStep
    PROVE  Moved(t)' \/ Settled'
  <1>1. PICK q \in Peers["center"] : \E u, h, k, out : CenterDeed(q, u, h, k, out)
    BY CenterDoes
  <1>2. PICK u, h, k, out : CenterDeed(q, u, h, k, out)
    BY <1>1
  <1> DEFINE m == Incoming(q, "center")
             r == Tag(m)
  <1>3. /\ "center" \in Processes /\ "center" \notin Gates /\ "center" \notin Games
        /\ q \in Processes /\ q \in Gates \cup Games /\ "center" \in Peers[q] /\ "center" # "db"
        /\ Hears("center", q) /\ Handle(q, "center", out)
        /\ UNCHANGED <<gate, listed, role>> /\ home' = h /\ user' = u /\ home \in Games /\ up = Links
        /\ user \in Users \cup {None} /\ known = Games /\ (q \in Gates => q \notin Games) /\ t \notin Gates
    BY <1>2, Connections DEF CenterDeed, CenterHandles, gateVars, dataVars, TypeOK, Answerable, Whole
  <1>4. Moves("center", q, out) /\ r \in Tags(wire[q]["center"]) /\ m \in Msgs /\ Carried("center", out)
    BY <1>3, HandleMoves, HandleCarries
  <1>5. r \notin {"closed", "syn"} /\ (q \in Gates => r # "cross") /\ (r = "entered_jump" /\ q \in Games => q = t)
    BY <1>3, <1>4, WholeTags DEF Answerable, Moved, Left, Empty
  <1>6. user # None => user.game = t
    BY DEF Moved
  <1>7. \A g \in Games \ {t} : Empty(g)
    BY DEF Moved, Left
  <1>8. Tag(Incoming(q, "center")) = r
    OBVIOUS
  <1> HIDE DEF r, m
  <1>9. ASSUME q \in Gates, r = "reg"
        PROVE  Owner(t, q) /\ \A x \in Gates : Live(x) => x = q
    <2>1. Live(q)
      BY <1>4, <1>9 DEF Live, Reg
    <2>2. Owner(t, q)
      BY <1>9, <2>1, OwnerAlone
    <2>3. \A x \in Gates : Live(x) => x = q
      BY <1>9, <2>1, OwnerAlone
    <2> QED
      BY <2>2, <2>3
  <1>10. \/ /\ q \in Gates /\ r = "reg" /\ user # None
            /\ \/ user.gate = q /\ u = user /\ Sends(out, t, "relogin", q)
               \/ user.gate # q /\ u = None /\ Only(out, {q, t}, "ERROR")
         \/ q \in Gates /\ r = "reg" /\ user = None /\ h = home /\ Sends(out, h, "reg_scene", q)
         \/ q \in Gates /\ r = "reg" /\ user = None /\ u = None /\ Only(out, {q}, "ERROR")
         \/ /\ r \in Codes /\ Mute(out)
            /\ u = IF user = None \/ r # "OFFLINE" THEN None ELSE [user EXCEPT !.on = "OFFLINE"]
         \/ r = "entered" /\ Mute(out) /\ user # None /\ u = [user EXCEPT !.on = "ONLINE"]
         \/ q = t /\ r = "entered_jump" /\ h = t /\ Mute(out) /\ user # None /\ u = user
         \/ q \in Games /\ user = None /\ u = None /\ Only(out, Gates \cup {q}, "ERROR")
    BY <1>2, <1>3, <1>5, <1>6 DEF CenterDeed, LoginScenes, m, r
  <1>11. CASE q \in Gates /\ r = "reg" /\ user # None /\ user.gate = q /\ u = user /\ Sends(out, t, "relogin", q)
    <2>1. Owner(t, q) /\ \A x \in Gates : Live(x) => x = q
      BY <1>9, <1>11
    <2>2. out[t].gate = q /\ \A s : Gets(out, s) = IF s = t THEN {"relogin"} ELSE {}
      BY <1>11 DEF Sends, Only
    <2>3. user' # None => user # None /\ user'.game = t /\ user'.gate = user.gate
      BY <1>3, <1>6, <1>11
    <2> QED
      BY <1>3, <1>4, <1>8, <1>11, <2>1, <2>2, <2>3, CenterSideMoves
  <1>12. CASE q \in Gates /\ r = "reg" /\ user # None /\ user.gate # q /\ u = None /\ Only(out, {q, t}, "ERROR")
    <2>1. Empty(t)
      BY <1>9, <1>12 DEF Owner
    <2>2. \A s : Gets(out, s) \subseteq {"ERROR"}
      BY <1>12 DEF Only
    <2>3. Empty(t)'
      <3>1. role'[t] = None
        BY <1>3, <2>1 DEF Empty, Vacant
      <3> QED
        BY <1>3, <1>4, <2>1, <2>2, <3>1, EmptyMoves
    <2> QED
      BY <1>3, <1>4, <1>8, <1>12, <2>2, <2>3, CenterSideMoves
  <1>13. CASE q \in Gates /\ r = "reg" /\ user = None /\ h = home /\ Sends(out, h, "reg_scene", q)
    <2>1. Empty(t)
      BY <1>9, <1>13 DEF Owner
    <2>2. \A s : s # home => Gets(out, s) = {}
      BY <1>13 DEF Sends, Only
    <2> QED
      BY <1>3, <1>4, <1>7, <1>13, <2>1, <2>2, MovedEnds
  <1>14. CASE /\ r \in Codes /\ Mute(out)
              /\ u = IF user = None \/ r # "OFFLINE" THEN None ELSE [user EXCEPT !.on = "OFFLINE"]
    <2>1. \A s : Gets(out, s) = {}
      BY <1>14 DEF Mute
    <2>2. user' # None => user # None /\ user'.game = t /\ user'.gate = user.gate
      BY <1>3, <1>6, <1>14 DEF Users
    <2>3. r # "entered_jump"
      BY <1>14 DEF Codes
    <2>4. ASSUME user' = None, user # None, NEW x \in Gates, Live(x)'
          PROVE  Empty(t)'
      <3>1. r \in Kills
        BY <1>3, <1>14, <2>4, NoneAssumption DEF Users, Codes, Kills
      <3>2. x \in Processes /\ "center" \in Peers[x] /\ x # "center"
        BY Connections
      <3>3. Tags(wire'[x]["center"]) \subseteq Tags(wire[x]["center"])
        BY <1>3, <1>4, <3>2, MovesLess
      <3>4. Live(x)
        BY <1>3, <2>4, <3>3 DEF Live, Reg
      <3>5. Owner(t, x) /\ \A b \in Gates \ {x} : \A s \in Peers[b] : Tags(wire[b][s]) = {}
        BY <3>4, OwnerAlone
      <3>6. q \notin Gates
        <4>1. SUFFICES ASSUME q \in Gates PROVE FALSE
          OBVIOUS
        <4>2. q = x
          BY <1>3, <1>4, <3>5, <4>1
        <4>3. gate[x] = "NONE" /\ Never(wire[x]["center"], r, "reg")
          BY <1>4, <3>1, <3>5, <4>2 DEF Owner
        <4>4. "reg" \notin Tags(wire'[x]["center"])
          BY <1>3, <1>4, <1>8, <4>2, <4>3, MovesHead
        <4> QED
          BY <1>3, <2>4, <4>3, <4>4 DEF Live, Reg
      <3>7. q = t
        BY <1>3, <1>4, <3>1, <3>5, <3>6 DEF Owner
      <3>8. Vacant(t) /\ Never(wire[t]["center"], r, "entered_jump")
        BY <1>4, <3>1, <3>7 DEF Moved, Landed
      <3>9. "entered_jump" \notin Tags(wire'[t]["center"])
        BY <1>3, <1>4, <1>8, <3>7, <3>8, MovesHead
      <3>10. Vacant(t)'
        <4>1. role'[t] = None
          BY <1>3, <3>8 DEF Vacant
        <4> QED
          BY <1>3, <1>4, <2>1, <3>8, <4>1, VacantMoves
      <3> QED
        BY <3>9, <3>10 DEF Empty
    <2> QED
      BY <1>3, <1>4, <1>8, <2>1, <2>2, <2>3, <2>4, CenterSideMoves
  <1>15. CASE r = "entered" /\ Mute(out) /\ user # None /\ u = [user EXCEPT !.on = "ONLINE"]
    <2>1. \A s : Gets(out, s) = {}
      BY <1>15 DEF Mute
    <2>2. user' # None /\ user'.game = t /\ user'.gate = user.gate
      BY <1>3, <1>6, <1>15, NoneAssumption DEF Users
    <2> QED
      BY <1>3, <1>4, <1>8, <1>15, <2>1, <2>2, CenterSideMoves
  <1>16. CASE q = t /\ r = "entered_jump" /\ h = t /\ Mute(out) /\ user # None /\ u = user
    <2>1. \A s : Gets(out, s) = {}
      BY <1>16 DEF Mute
    <2> QED
      BY <1>3, <1>4, <1>7, <1>16, <2>1, MovedEnds
  <1>17. CASE q \in Games /\ user = None /\ u = None /\ Only(out, Gates \cup {q}, "ERROR")
    <2>1. \A s : Gets(out, s) \subseteq {"ERROR"}
      BY <1>17 DEF Only
    <2>2. q = t => Gets(out, t) \cap Kills # {}
      BY <1>17 DEF Only, Kills
    <2> QED
      BY <1>3, <1>4, <1>17, <2>1, <2>2, CenterSideMoves
  <1>18. CASE q \in Gates /\ r = "reg" /\ user = None /\ u = None /\ Only(out, {q}, "ERROR")
    <2>1. Empty(t)
      BY <1>9, <1>18 DEF Owner
    <2>2. \A s : Gets(out, s) \subseteq {"ERROR"}
      BY <1>18 DEF Only
    <2>3. Empty(t)'
      <3>1. role'[t] = None
        BY <1>3, <2>1 DEF Empty, Vacant
      <3> QED
        BY <1>3, <1>4, <2>1, <2>2, <3>1, EmptyMoves
    <2> QED
      BY <1>3, <1>4, <1>8, <1>18, <2>2, <2>3, CenterSideMoves
  <1> QED
    BY <1>10, <1>11, <1>12, <1>13, <1>14, <1>15, <1>16, <1>17, <1>18

\* A step of a game, or of the database.
LEMMA GameSideMoves ==
    ASSUME TypeOK, up = Links, NEW t \in Games, Moved(t), NEW p \in Processes, p \notin Gates, p # "center",
           NEW q, NEW out, Moves(p, q, out), Carried(p, out), UNCHANGED <<gate, listed, user>>,
           \A g \in Games \ {t} : role'[g] = None,
           p = t => \A b \in Gates : Gets(out, b) \subseteq {"success", "ERROR"},
           p \in Games \ {t} => /\ Gets(out, "center") \subseteq {"LOGOUT"}
                                /\ \A b \in Gates : Gets(out, b) = {},
           \A x \in Gates : Live(x) =>
             /\ p \in Games \ {t} => Gets(out, "center") = {}
             /\ p = t => \A b \in Gates \ {x} : "success" \notin Gets(out, b)
             /\ role'[t] # None => role'[t].gate = x,
           Empty(t) => role'[t] = None /\ (p = t => "entered_jump" \notin Gets(out, "center")),
           Landed(t)',
           "reg_jump" \in Tags(wire'["center"][t]) =>
             role'[t] = None /\ (p = t => \A b \in Gates : "success" \notin Gets(out, b))
    PROVE  Moved(t)'
  <1>1. Left(t) /\ Landing(t) /\ (user # None => user.game = t)
    BY DEF Moved
  <1>2. Left(t)'
    BY <1>1, LeftMoves
  <1>3. Landing(t)'
    <2>1. "reg_jump" \in Tags(wire["center"][t]) => \A b \in Gates : t \notin listed'[b]
      BY <1>1 DEF Landing
    <2> QED
      BY <1>1, <2>1, LandingMoves
  <1>4. ASSUME NEW x \in Gates, Live(x)'
        PROVE  Owner(t, x)'
    <2>1. x \in Processes /\ "center" \in Peers[x] /\ x # p
      BY Connections
    <2>2. Live(x)
      <3>1. Tags(wire'[x]["center"]) \subseteq Tags(wire[x]["center"])
        BY <2>1, MovesLess
      <3> QED
        BY <1>4, <3>1 DEF Live, Reg
    <2>3. Owner(t, x) /\ \A b \in Gates \ {x} : gate[b] = "NONE"
      BY <2>2, OwnerAlone
    <2>4. Empty(t) => Empty(t)'
      BY EmptyMoves
    <2>5. user' = None \/ user'.gate # x => Empty(t)'
      BY <2>3, <2>4 DEF Owner
    <2>6. listed'[x] \subseteq {t}
      BY <2>3 DEF Owner
    <2> QED
      BY <2>1, <2>2, <2>3, <2>5, <2>6, OwnerMoves
  <1> QED
    BY <1>1, <1>2, <1>3, <1>4 DEF Moved

\* One that leaves the roles alone, and is not of game t.
LEMMA AsideMoves ==
    ASSUME TypeOK, up = Links, NEW t \in Games, Moved(t),
           NEW p \in Processes, p \notin Gates, p # "center", p # t,
           NEW q, NEW out, Moves(p, q, out), Carried(p, out), UNCHANGED <<gate, listed, user, role>>,
           p \in Games => /\ Gets(out, "center") \subseteq {"LOGOUT"}
                          /\ \A b \in Gates : Gets(out, b) = {},
           \A x \in Gates : Live(x) /\ p \in Games => Gets(out, "center") = {}
    PROVE  Moved(t)'
  <1>1. Left(t) /\ Landed(t) /\ Landing(t)
    BY DEF Moved
  <1>2. \A g \in Games \ {t} : role'[g] = None
    BY <1>1 DEF Left, Empty, Vacant
  <1>3. Empty(t) => role'[t] = None
    BY DEF Empty, Vacant
  <1>4. Landed(t)'
    <2>1. Loading(t)' => role'[t].type \in {"jump", "none"}
      BY <1>1 DEF Landed, Loading
    <2>2. Plays(t)' => "entered_jump" \in Tags(wire'[t]["center"]) \/ Tags(wire'["center"][t]) \cap Kills # {}
      <3>1. Plays(t)' => Plays(t)
        BY DEF Plays
      <3> QED
        BY <1>1, <3>1, PlaysMoves
    <2>3. Vacant(t) => Vacant(t)'
      <3>1. SUFFICES ASSUME Vacant(t) PROVE Vacant(t)'
        OBVIOUS
      <3>2. role'[t] = None
        BY <3>1 DEF Vacant
      <3> QED
        BY <3>1, <3>2, VacantMoves
    <2> QED
      BY <1>1, <2>1, <2>2, <2>3, LandedMoves
  <1>5. "reg_jump" \in Tags(wire'["center"][t]) => role'[t] = None
    <2>1. "center" \in Processes /\ t \in Peers["center"]
      BY Connections
    <2>2. Tags(wire'["center"][t]) \subseteq Tags(wire["center"][t])
      BY <2>1, MovesLess
    <2> QED
      BY <1>1, <2>2 DEF Landing
  <1>6. ASSUME NEW x \in Gates, Live(x), role'[t] # None
        PROVE  role'[t].gate = x
    BY <1>6 DEF Moved, Owner
  <1> QED
    BY <1>1, <1>2, <1>3, <1>4, <1>5, <1>6, GameSideMoves

\* The other games, and the database.
LEMMA OtherMoved ==
    ASSUME TypeOK, Answerable, NEW t \in Games, Moved(t), NEW g \in Games, GameStep(g),
           g # t \/ (Hears("db", g) /\ DbHandles(g))
    PROVE  Moved(t)'
  <1>1. CASE Hears("db", g) /\ DbHandles(g)
    <2>1. PICK out : /\ Handle(g, "db", out)
                     /\ UNCHANGED <<gate, listed, user, home, known, role, up, jumps, faults, hurries, repeated>>
      BY <1>1, DbDoes
    <2>2. /\ "db" \in Processes /\ g \in Peers["db"] /\ "db" \notin Games /\ "db" \notin Gates /\ "db" # "center"
          /\ up = Links /\ "db" # t
      BY Connections DEF Answerable, Whole
    <2>3. Moves("db", g, out) /\ Carried("db", out)
      BY <1>1, <2>1, <2>2, HandleMoves, HandleCarries
    <2> QED
      BY <2>1, <2>2, <2>3, AsideMoves
  <1>2. ASSUME g # t, NEW q \in Peers[g], NEW r, NEW out, GameDeed(q, g, r, out)
        PROVE  Moved(t)'
    <2>1. /\ g \in Processes /\ g \notin Gates /\ g # "center" /\ q \in Processes /\ g \in Peers[q]
          /\ Hears(g, q) /\ Handle(q, g, out)
          /\ UNCHANGED <<gate, listed, user>> /\ role' = [role EXCEPT ![g] = r]
          /\ up = Links /\ role \in [Games -> Roles \cup {None}]
      BY <1>2, Connections DEF GameDeed, GameHandles, gateVars, centerVars, TypeOK, Answerable, Whole
    <2>2. Moves(g, q, out) /\ Carried(g, out) /\ Tag(Incoming(q, g)) \in Tags(wire[q][g])
      BY <2>1, HandleMoves, HandleCarries
    <2>3. role[g] = None /\ Tags(wire["center"][g]) \cap {"reg_scene", "reg_jump", "relogin"} = {}
      BY <1>2 DEF Moved, Left, Empty, Vacant
    <2>4. ~Plays(g) /\ (q = "center" => Tag(Incoming(q, g)) \notin {"reg_scene", "reg_jump", "relogin"})
      BY <2>2, <2>3 DEF Plays
    <2>5. PICK C : /\ Answers(out, C, {}, "ERROR") /\ r = None
                   /\ C = {} \/ (C = {"LOGOUT"} /\ q \in Gates /\ Tag(Incoming(q, g)) = "LOGOUT")
      BY <1>2, <2>3, <2>4 DEF GameDeed
    <2>6. Gets(out, "center") = C /\ \A b \in Gates : Gets(out, b) = {}
      BY <2>5 DEF Answers
    <2>7. role' = role
      BY <2>1, <2>3, <2>5
    <2>8. ASSUME NEW x \in Gates, Live(x)
          PROVE  C = {}
      <3>1. Owner(t, x) /\ \A b \in Gates \ {x} : \A s \in Peers[b] : Tags(wire[b][s]) = {}
        BY <2>8, OwnerAlone
      <3>2. Tags(wire[x][g]) \cap Kills = {}
        BY <1>2, <3>1 DEF Owner
      <3>3. q \in Gates => Tag(Incoming(q, g)) # "LOGOUT"
        BY <2>1, <2>2, <3>1, <3>2 DEF Kills
      <3> QED
        BY <2>5, <3>3
    <2> QED
      BY <1>2, <2>1, <2>2, <2>5, <2>6, <2>7, <2>8, AsideMoves
  <1> QED
    BY <1>1, <1>2, GameDoes

\* Game t itself.
LEMMA GameMoved ==
    ASSUME TypeOK, Answerable, NEW t \in Games, Moved(t), NEW g \in Games, GameStep(g)
    PROVE  Moved(t)'
  <1>1. CASE g # t \/ (Hears("db", g) /\ DbHandles(g))
    BY <1>1, OtherMoved
  <1>2. ASSUME g = t, NEW q \in Peers[t], NEW r, NEW out, GameDeed(q, t, r, out)
        PROVE  Moved(t)'
    <2> DEFINE m == Incoming(q, t)
               k == Tag(m)
               old == role[t]
    <2>1. /\ t \in Processes /\ t \notin Gates /\ t # "center" /\ q \in Processes /\ t \in Peers[q] /\ t # "db"
          /\ "center" \in Processes /\ t \in Peers["center"] /\ "center" \in Peers[t] /\ "center" \notin Gates
          /\ Hears(t, q) /\ Handle(q, t, out) /\ "center" # "db" /\ "db" \notin Gates
          /\ UNCHANGED <<gate, listed, user>> /\ role' = [role EXCEPT ![t] = r]
          /\ up = Links /\ role \in [Games -> Roles \cup {None}]
      BY <1>2, Connections DEF GameDeed, GameHandles, gateVars, centerVars, TypeOK, Answerable, Whole
    <2>2. Moves(t, q, out) /\ Carried(t, out) /\ k \in Tags(wire[q][t]) /\ m \in Msgs
      BY <2>1, HandleMoves, HandleCarries
    <2>3. role'[t] = r /\ \A h \in Games \ {t} : role'[h] = None
      BY <2>1 DEF Moved, Left, Empty, Vacant
    <2>4. Landed(t) /\ Landing(t) /\ (old # None => old \in Roles)
      BY <2>1 DEF Moved
    <2>5. (q = "center" => k # "reg_scene") /\ k \notin {"closed", "kick_all"}
      BY <2>1, <2>2, <2>4, WholeTags DEF Landing, Answerable
    <2>6. Tag(Incoming(q, t)) = k
      OBVIOUS
    <2>7. q = "center" /\ m.kind \in {"reg_scene", "relogin"} => m \in Letters(wire["center"][t])
      BY <2>1, HeardLetter, WireTypes DEF TypeOK
    <2>8. q = "center" /\ k \in {"reg_jump", "relogin"} => m.kind \in {"reg_scene", "relogin"}
      BY <2>2, TagMeans
    <2> HIDE DEF m, k
    <2>9. old # None => "reg_jump" \notin Tags(wire["center"][t])
      BY <2>4 DEF Landing
    <2>10. Tags(wire'["center"][t]) \subseteq Tags(wire["center"][t])
      BY <2>1, <2>2, MovesLess
    <2>11. ASSUME NEW x \in Gates, Live(x)
           PROVE  /\ old # None => old.gate = x
                  /\ q = "center" /\ k \in {"reg_jump", "relogin"} => m.gate = x
      <3>1. Owner(t, x)
        BY <2>11 DEF Moved
      <3> QED
        BY <2>7, <2>8, <3>1 DEF Owner
    <2>12. "reg_scene" \notin Tags(wire["center"][t])
           /\ (Empty(t) => old = None /\ "reg_jump" \notin Tags(wire["center"][t]))
      BY <2>4 DEF Landing, Empty, Vacant
    <2>13. q = "center" /\ k \in {"reg_jump", "relogin"} => "reg_jump" \notin Tags(wire'["center"][t])
      <3>1. SUFFICES ASSUME q = "center", k \in {"reg_jump", "relogin"} PROVE "reg_jump" \notin Tags(wire'["center"][t])
        OBVIOUS
      <3>2. Never(wire["center"][t], k, "reg_jump")
        BY <2>4, <3>1 DEF Landing
      <3> QED
        BY <2>1, <2>2, <2>6, <3>1, <3>2, MovesHead
    <2>14. \/ /\ r = None /\ (\A b \in Gates : Gets(out, b) \subseteq {"ERROR"}) /\ Gets(out, "center") \subseteq Kills
              /\ \/ Gets(out, "center") = {}
                 \/ q = "center" /\ k \in {"reg_jump", "relogin"}
                 \/ q \in Gates /\ k \in Kills
                 \/ old # None
           \/ /\ q \in Gates /\ old # None /\ r # None /\ r.st = old.st /\ r.gate = old.gate /\ r.type \in {"none", old.type}
              /\ Gets(out, "center") = {} /\ \A b \in Gates : Gets(out, b) = {}
           \/ /\ q = "center" /\ k = "reg_jump" /\ old = None /\ Goes(r, "LOADING", m.gate, "jump")
              /\ Only(out, {"db"}, "load")
           \/ /\ q = "center" /\ k = "relogin" /\ Plays(t) /\ Goes(r, "OK", m.gate, "relogin")
              /\ Answers(out, {"entered"}, {m.gate}, "success")
           \/ /\ q = "db" /\ old # None /\ old.type # "none" /\ Goes(r, "OK", old.gate, old.type)
              /\ Answers(out, {IF old.type = "jump" THEN "entered_jump" ELSE "entered"}, {old.gate}, "success")
      <3>1. CASE /\ q = "center" /\ k \in {"reg_scene", "reg_jump", "relogin"}
                 /\ r = None /\ Answers(out, {"ERROR"}, Gates, "ERROR")
        BY <2>5, <3>1 DEF Answers, Kills
      <3>2. CASE r = None /\ Answers(out, {}, {}, "ERROR")
        BY <3>2 DEF Answers
      <3>3. CASE /\ q \in Gates /\ k \in {"LOGOUT", "ERROR"} /\ r = None
                 /\ Answers(out, IF k = "LOGOUT" THEN {"LOGOUT"} ELSE {}, {}, "ERROR")
        BY <3>3 DEF Answers, Kills
      <3>4. CASE /\ q \in Gates /\ k \in {"OFFLINE", "ready"} /\ Answers(out, {}, {}, "ERROR")
                 /\ IF old = None THEN r = None
                    ELSE Goes(r, old.st, old.gate, IF k = "ready" THEN "none" ELSE old.type)
        BY <3>4 DEF Answers, Goes
      <3>5. CASE old # None /\ r = None /\ Answers(out, {"ERROR"}, {old.gate}, "ERROR")
        BY <3>5 DEF Answers, Kills
      <3> QED
        BY <1>2, <2>5, <3>1, <3>2, <3>3, <3>4, <3>5 DEF GameDeed, m, k
    <2>15. CASE /\ r = None /\ (\A b \in Gates : Gets(out, b) \subseteq {"ERROR"}) /\ Gets(out, "center") \subseteq Kills
                /\ \/ Gets(out, "center") = {}
                   \/ q = "center" /\ k \in {"reg_jump", "relogin"}
                   \/ q \in Gates /\ k \in Kills
                   \/ old # None
      <3>1. ~Loading(t)' /\ ~Plays(t)'
        BY <2>3, <2>15 DEF Loading, Plays
      <3>2. Gets(out, "center") # {} => Vacant(t)'
        <4>1. SUFFICES ASSUME Gets(out, "center") # {} PROVE "reg_jump" \notin Tags(wire'["center"][t])
          BY <2>3, <2>10, <2>12, <2>15 DEF Vacant
        <4>2. CASE q = "center" /\ k \in {"reg_jump", "relogin"}
          BY <2>13, <4>2
        <4>3. CASE q \in Gates /\ k \in Kills
          BY <2>2, <2>4, <2>10, <4>3 DEF Landing
        <4>4. CASE old # None
          BY <2>9, <2>10, <4>4
        <4> QED
          BY <2>15, <4>1, <4>2, <4>3, <4>4
      <3>3. Vacant(t) => Vacant(t)'
        BY <2>1, <2>2, <2>3, <2>15, VacantMoves
      <3>4. "entered_jump" \notin Gets(out, "center")
        BY <2>15 DEF Kills
      <3>5. Landed(t)'
        BY <2>1, <2>2, <2>4, <3>1, <3>2, <3>3, <3>4, LandedMoves
      <3> QED
        BY <2>1, <2>2, <2>3, <2>15, <3>4, <3>5, GameSideMoves
    <2>16. CASE /\ q \in Gates /\ old # None /\ r # None /\ r.st = old.st /\ r.gate = old.gate /\ r.type \in {"none", old.type}
                /\ Gets(out, "center") = {} /\ \A b \in Gates : Gets(out, b) = {}
      <3>1. ~Vacant(t) /\ ~Empty(t)
        BY <2>16 DEF Vacant, Empty
      <3>2. Loading(t)' => role'[t].type \in {"jump", "none"}
        BY <2>3, <2>4, <2>16 DEF Landed, Loading
      <3>3. Plays(t)' => "entered_jump" \in Tags(wire'[t]["center"]) \/ Tags(wire'["center"][t]) \cap Kills # {}
        <4>1. Plays(t)' => Plays(t)
          BY <2>3, <2>16 DEF Plays
        <4>2. q # "center"
          BY <2>1, <2>16
        <4> QED
          BY <2>1, <2>2, <2>4, <4>1, <4>2, PlaysMoves
      <3>4. Landed(t)'
        BY <2>1, <2>2, <2>4, <2>16, <3>1, <3>2, <3>3, LandedMoves
      <3>5. \A x \in Gates : Live(x) => role'[t].gate = x
        BY <2>3, <2>11, <2>16
      <3>6. "reg_jump" \notin Tags(wire'["center"][t])
        BY <2>9, <2>10, <2>16
      <3> QED
        BY <2>1, <2>2, <2>3, <2>16, <3>1, <3>4, <3>5, <3>6, GameSideMoves
    <2>17. CASE /\ q = "center" /\ k = "reg_jump" /\ old = None /\ Goes(r, "LOADING", m.gate, "jump")
                /\ Only(out, {"db"}, "load")
      <3>1. ~Vacant(t) /\ ~Empty(t)
        BY <2>2, <2>17 DEF Vacant, Empty
      <3>2. role'[t].type = "jump" /\ ~Plays(t)'
        BY <2>3, <2>17 DEF Plays, Goes
      <3>3. Gets(out, "center") = {} /\ \A b \in Gates : Gets(out, b) = {}
        BY <2>1, <2>17 DEF Only
      <3>4. Landed(t)'
        BY <2>1, <2>2, <2>4, <3>1, <3>2, <3>3, LandedMoves
      <3>5. \A x \in Gates : Live(x) => role'[t].gate = x
        BY <2>3, <2>11, <2>17 DEF Goes
      <3>6. "reg_jump" \notin Tags(wire'["center"][t])
        BY <2>13, <2>17
      <3> QED
        BY <2>1, <2>2, <2>3, <3>1, <3>3, <3>4, <3>5, <3>6, GameSideMoves
    <2>18. CASE /\ q = "center" /\ k = "relogin" /\ Plays(t) /\ Goes(r, "OK", m.gate, "relogin")
                /\ Answers(out, {"entered"}, {m.gate}, "success")
      <3>1. ~Vacant(t) /\ ~Empty(t) /\ old # None
        BY <2>18 DEF Vacant, Empty, Plays
      <3>2. Gets(out, "center") = {"entered"} /\ \A b \in Gates : Gets(out, b) = IF b = m.gate THEN {"success"} ELSE {}
        BY <2>18 DEF Answers
      <3>3. k \notin Kills /\ ~Loading(t)'
        BY <2>3, <2>18 DEF Kills, Loading, Goes
      <3>4. "entered_jump" \in Tags(wire'[t]["center"]) \/ Tags(wire'["center"][t]) \cap Kills # {}
        BY <2>1, <2>2, <2>4, <2>6, <2>18, <3>3, PlaysMoves
      <3>5. Landed(t)'
        BY <2>1, <2>2, <2>4, <3>1, <3>2, <3>3, <3>4, LandedMoves DEF Kills
      <3>6. \A x \in Gates : Live(x) => m.gate = x /\ role'[t].gate = x
        BY <2>3, <2>11, <2>18 DEF Goes
      <3>7. "reg_jump" \notin Tags(wire'["center"][t])
        BY <2>13, <2>18
      <3> QED
        BY <2>1, <2>2, <2>3, <3>1, <3>2, <3>5, <3>6, <3>7, GameSideMoves
    <2>19. CASE /\ q = "db" /\ old # None /\ old.type # "none" /\ Goes(r, "OK", old.gate, old.type)
                /\ Answers(out, {IF old.type = "jump" THEN "entered_jump" ELSE "entered"}, {old.gate}, "success")
      <3>1. ~Vacant(t) /\ ~Empty(t)
        BY <2>19 DEF Vacant, Empty
      <3>2. /\ Gets(out, "center") = {IF old.type = "jump" THEN "entered_jump" ELSE "entered"}
            /\ \A b \in Gates : Gets(out, b) = IF b = old.gate THEN {"success"} ELSE {}
        BY <2>19 DEF Answers
      <3>3. ~Loading(t)' /\ Gets(out, "center") \cap Kills = {}
        BY <2>3, <2>19, <3>2 DEF Kills, Loading, Goes
      <3>4. "entered_jump" \in Tags(wire'[t]["center"]) \/ Tags(wire'["center"][t]) \cap Kills # {}
        <4>1. CASE Plays(t)
          BY <2>1, <2>2, <2>4, <2>19, <4>1, PlaysMoves
        <4>2. CASE Loading(t)
          <5>1. old.type = "jump"
            BY <2>4, <2>19, <4>2 DEF Landed
          <5> QED
            BY <2>1, <2>2, <3>2, <5>1, MovesPut
        <4> QED
          BY <2>4, <2>19, <4>1, <4>2 DEF Plays, Loading, Roles
      <3>5. Tags(wire[t]["center"]) \cap Kills = {}
        BY <2>4, <3>1 DEF Landed
      <3>6. Landed(t)'
        BY <2>1, <2>2, <2>4, <3>1, <3>3, <3>4, <3>5, LandedMoves
      <3>7. \A x \in Gates : Live(x) => old.gate = x /\ role'[t].gate = x
        BY <2>3, <2>11, <2>19 DEF Goes
      <3>8. "reg_jump" \notin Tags(wire'["center"][t])
        BY <2>9, <2>10, <2>19
      <3> QED
        BY <2>1, <2>2, <2>3, <3>1, <3>2, <3>6, <3>7, <3>8, GameSideMoves
    <2> QED
      BY <2>14, <2>15, <2>16, <2>17, <2>18, <2>19
  <1> QED
    BY <1>1, <1>2, GameDoes

LEMMA OwnMoved ==
    ASSUME TypeOK, Answerable, NEW t \in Games, Moved(t), NEW g \in Games,
           Jump(g) \/ Play(g) \/ Autosave(g), jumps' = jumps
    PROVE  Moved(t)'
  <1>1. /\ g \in Processes /\ up = Links /\ role \in [Games -> Roles \cup {None}]
        /\ jumps \in Nat /\ g # "center" /\ g # "db" /\ g \notin Gates
    BY Connections DEF Answerable, Whole, TypeOK
  <1>2. \A h \in Games \ {t} : role[h] = None /\ ~Plays(h)
    BY DEF Moved, Left, Empty, Vacant, Plays
  <1>3. CASE Play(g)
    <2>1. /\ UNCHANGED <<gate, listed, user, home, known, wire, up, jumps, faults, hurries, repeated>>
          /\ Plays(g) /\ Goes(role'[g], role[g].st, role[g].gate, role[g].type)
          /\ \A h \in Games \ {g} : role'[h] = role[h]
      BY <1>3, PlayDoes
    <2>2. /\ g = t /\ role[t] # None /\ role'[t] # None /\ role'[t].st = role[t].st /\ role'[t].gate = role[t].gate
          /\ role'[t].type = role[t].type /\ \A h \in Games \ {t} : role'[h] = role[h]
      BY <1>2, <2>1 DEF Plays, Goes
    <2>3. Vacant(t)' = Vacant(t) /\ Empty(t)' = Empty(t) /\ Loading(t)' = Loading(t) /\ Plays(t)' = Plays(t)
      BY <2>1, <2>2 DEF Vacant, Empty, Loading, Plays
    <2>4. Left(t)'
      BY <2>1, <2>2 DEF Moved, Left, Empty, Vacant
    <2>5. Landed(t)'
      BY <2>1, <2>2, <2>3 DEF Moved, Landed
    <2>6. Landing(t)'
      BY <2>1, <2>2 DEF Moved, Landing
    <2>7. ASSUME NEW x \in Gates, Live(x)'
          PROVE  Owner(t, x)'
      <3>1. Owner(t, x)
        BY <2>1, <2>7 DEF Moved, Live, Reg
      <3> QED
        BY <2>1, <2>2, <2>3, <3>1 DEF Owner, Alone
    <2> QED
      BY <2>1, <2>4, <2>5, <2>6, <2>7 DEF Moved
  <1>4. CASE Jump(g) \/ Autosave(g)
    <2>1. PICK out : OwnDeed(g, out)
      BY <1>4, OwnDoes
    <2>2. /\ Send(g, out) /\ Answers(out, {}, {}, "ERROR") /\ role' = role
          /\ UNCHANGED <<gate, listed, user>>
      BY <1>1, <2>1 DEF OwnDeed
    <2>3. Moves(g, g, out) /\ Carried(g, out)
      BY <1>1, <2>2, SendMoves, SendCarries
    <2>4. Gets(out, "center") = {} /\ \A b \in Gates : Gets(out, b) = {}
      BY <2>2 DEF Answers
    <2>5. CASE g # t
      BY <1>1, <2>2, <2>3, <2>4, <2>5, AsideMoves
    <2>6. CASE g = t
      <3>1. Landed(t) /\ Landing(t) /\ (Empty(t) => role'[t] = None)
        BY <2>2 DEF Moved, Empty, Vacant
      <3>2. Landed(t)'
        <4>1. Loading(t)' => role'[t].type \in {"jump", "none"}
          BY <2>2, <3>1 DEF Landed, Loading
        <4>2. Plays(t)' => "entered_jump" \in Tags(wire'[t]["center"]) \/ Tags(wire'["center"][t]) \cap Kills # {}
          <5>1. Plays(t)' => Plays(t)
            BY <2>2 DEF Plays
          <5>2. g # "center" /\ t # "center"
            BY <1>1, <2>6
          <5> QED
            BY <1>1, <2>3, <2>6, <3>1, <5>1, <5>2, PlaysMoves
        <4>3. Vacant(t) => Vacant(t)'
          <5>1. SUFFICES ASSUME Vacant(t) PROVE Vacant(t)'
            OBVIOUS
          <5>2. role'[t] = None
            BY <2>2, <5>1 DEF Vacant
          <5> QED
            BY <1>1, <2>3, <5>1, <5>2, VacantMoves
        <4> QED
          BY <1>1, <2>3, <2>4, <3>1, <4>1, <4>2, <4>3, LandedMoves
      <3>3. "reg_jump" \in Tags(wire'["center"][t]) => role'[t] = None
        <4>1. "center" \in Processes /\ t \in Peers["center"]
          BY Connections
        <4>2. Tags(wire'["center"][t]) \subseteq Tags(wire["center"][t])
          BY <1>1, <2>3, <4>1, MovesLess
        <4> QED
          BY <2>2, <3>1, <4>2 DEF Landing
      <3>4. \A x \in Gates : Live(x) /\ role'[t] # None => role'[t].gate = x
        BY <2>2 DEF Moved, Owner
      <3>5. \A h \in Games \ {t} : role'[h] = None
        BY <1>2, <2>2
      <3> QED
        BY <1>1, <2>2, <2>3, <2>4, <2>6, <3>1, <3>2, <3>3, <3>4, <3>5, GameSideMoves
    <2> QED
      BY <2>5, <2>6
  <1> QED
    BY <1>3, <1>4

----------------------------------------------------------------------------
(* The player jumps.                                                       *)

\* A player in a scene, or about to be: its login is over, and nobody has anything
\* to say that could stop the news.
LEMMA NowhereBefore ==
    ASSUME TypeOK, Answerable, AtHome, NEW y \in Gates, gate[y] # "NONE", LoggedIn(y, home),
           In(y) \/ Win(home, y)
    PROVE  /\ ~Somewhere({"reg_scene", "reg_jump", "relogin", "entered_jump", "ERROR"})
           /\ ~Somewhere({"reg", "LOGOUT"})
  <1>1. home \in Games
    BY DEF TypeOK
  <1>2. ~Err /\ ~Call(home) /\ ~Reg(y)
    BY DEF LoggedIn, OnePlace
  <1>3. ~Somewhere({"LOGOUT"})
    BY DEF LoggedIn, Welcome
  <1>4. ASSUME NEW p \in Processes, NEW q \in Peers[p] \ {"db"}
        PROVE  Tags(wire[p][q]) \cap {"reg_scene", "reg_jump", "relogin", "entered_jump", "reg"} = {}
    <2>1. CASE p \in Gates /\ q = "center"
      <3>1. Tags(wire[p]["center"]) \subseteq {"reg"} \cup Codes
        BY <2>1, HomeTags
      <3>2. p # y => Tags(wire[p]["center"]) = {}
        BY <2>1, Connections, SessionTags
      <3> QED
        BY <1>2, <2>1, <3>1, <3>2 DEF Reg, Codes
    <2>2. CASE p \in Gates /\ q \in Games
      BY <2>2, HomeTags DEF Codes
    <2>3. CASE p = "center" /\ q \in Gates
      BY <2>3, HomeTags DEF Codes
    <2>4. CASE p = "center" /\ q \in Games
      <3>1. Tags(wire["center"][q]) \subseteq CallTags \cup Codes
        BY <2>4, HomeTags
      <3>2. q # home => Tags(wire["center"][q]) = {}
        BY <2>4, HomeTags
      <3> QED
        BY <1>2, <2>4, <3>1, <3>2 DEF Call, CallTags, Codes
    <2>5. CASE p \in Games /\ q = "center"
      BY <2>5, HomeTags DEF Codes
    <2>6. CASE p \in Games /\ q \in Gates
      BY <2>6, HomeTags DEF Codes
    <2>7. CASE p = "db" /\ q \in Games
      BY <2>7, HomeTags
    <2> QED
      BY <2>1, <2>2, <2>3, <2>4, <2>5, <2>6, <2>7, Connections
  <1> QED
    BY <1>2, <1>3, <1>4 DEF Somewhere, Err, Kills

LEMMA JumpStarts ==
    ASSUME TypeOK, AtRoot, Answerable, AtHome, Turns, NEW g \in Games, Jump(g)
    PROVE  Jumped'
  <1>1. PICK out : OwnDeed(g, out)
    BY OwnDoes
  <1>2. /\ Send(g, out) /\ UNCHANGED <<gate, listed, user, home>>
        /\ Plays(g) /\ Answers(out, {}, {role[g].gate}, "cross") /\ role' = [role EXCEPT ![g] = None]
    BY <1>1 DEF OwnDeed, Jump, TypeOK
  <1>3. g = home /\ \A h \in Games \ {home} : role[h] = None
    BY <1>2 DEF AtHome, Plays
  <1>4. /\ home \in Games /\ up = Links /\ home \in Processes /\ home # "center" /\ home # "db" /\ home \notin Gates
        /\ "center" \in Processes /\ "center" \in Peers[home] /\ home \in Peers["center"]
        /\ \A b \in Gates : b \in Processes /\ b \in Peers[home] /\ b # home /\ "center" \in Peers[b] /\ home \in Peers[b]
    BY Connections DEF TypeOK, Answerable, Whole
  <1>5. PICK y \in Gates : y = role[home].gate
    BY <1>2, <1>3 DEF TypeOK, Plays, Roles
  <1>6. Moves(home, home, out) /\ Gets(out, "center") = {} /\ \A b \in Gates : Gets(out, b) = IF b = y THEN {"cross"} ELSE {}
    BY <1>2, <1>3, <1>4, <1>5, SendMoves DEF Answers
  <1>7. \A h \in Games : role'[h] = None
    BY <1>2, <1>3 DEF TypeOK
  <1>8. \A h \in Games \ {home} : /\ Tags(wire["center"][h]) = {} /\ Tags(wire[h]["center"]) = {}
                                  /\ \A b \in Gates : Tags(wire[h][b]) = {}
    BY HomeTags
  <1>9. \A b \in Gates : /\ "cross" \notin Tags(wire[b]["center"]) /\ "cross" \notin Tags(wire[home][b])
    BY <1>4, HomeTags DEF Codes
  <1>10. \A h \in Games \ {home} : /\ Tags(wire'["center"][h]) = {} /\ Tags(wire'[h]["center"]) = {}
                                   /\ \A b \in Gates : Tags(wire'[h][b]) = {}
    <2> SUFFICES ASSUME NEW h \in Games \ {home}
                 PROVE  /\ Tags(wire'["center"][h]) = {} /\ Tags(wire'[h]["center"]) = {}
                        /\ \A b \in Gates : Tags(wire'[h][b]) = {}
      OBVIOUS
    <2>1. /\ h \in Processes /\ "center" \in Peers[h] /\ h \in Peers["center"] /\ h # home
          /\ \A b \in Gates : b \in Peers[h]
      BY Connections
    <2>2. Tags(wire'["center"][h]) \subseteq Tags(wire["center"][h])
      BY <1>4, <1>6, <2>1, MovesLess
    <2>3. Tags(wire'[h]["center"]) \subseteq Tags(wire[h]["center"])
      BY <1>4, <1>6, <2>1, MovesLess
    <2>4. ASSUME NEW b \in Gates
          PROVE  Tags(wire'[h][b]) \subseteq Tags(wire[h][b])
      BY <1>4, <1>6, <2>1, MovesLess
    <2> QED
      BY <1>8, <2>2, <2>3, <2>4
  <1>11. ASSUME NEW b \in Gates
         PROVE  /\ "cross" \notin Tags(wire'[b]["center"])
                /\ b # y => Tags(wire'[home][b]) \subseteq Tags(wire[home][b])
    <2>1. Tags(wire'[b]["center"]) \subseteq Tags(wire[b]["center"])
      BY <1>4, <1>6, MovesLess
    <2>2. b # y => Tags(wire'[home][b]) \subseteq Tags(wire[home][b])
      BY <1>4, <1>6, MovesLess
    <2> QED
      BY <1>9, <2>1, <2>2
  <1>12. gate[y] # "NONE" => LoggedIn(y, home)
    BY <1>4, <1>5 DEF Turns
  <1>13. CASE gate[y] = "SCENE" \/ (gate[y] = "LOGIN" /\ Win(home, y))
    <2>1. LoggedIn(y, home) /\ gate[y] # "NONE" /\ (In(y) \/ Win(home, y))
      BY <1>12, <1>13 DEF In
    <2>2. /\ ~Somewhere({"reg_scene", "reg_jump", "relogin", "entered_jump", "ERROR"})
          /\ ~Somewhere({"reg", "LOGOUT"})
      BY <1>5, <2>1, NowhereBefore
    <2>3. /\ ~Somewhere({"reg_scene", "reg_jump", "relogin", "entered_jump", "ERROR"})'
          /\ ~Somewhere({"reg", "LOGOUT"})'
      <3>1. \A s \in Peers[home] \ {"db"} : Gets(out, s) \subseteq {"cross"}
        BY <1>4, <1>6, Connections
      <3>2. \A K : K \cap {"cross"} = {} /\ ~Somewhere(K) => ~Somewhere(K)'
        <4> SUFFICES ASSUME NEW K, K \cap {"cross"} = {}, ~Somewhere(K), Somewhere(K)' PROVE FALSE
          OBVIOUS
        <4>1. Somewhere(K) \/ \E s \in Peers[home] \ {"db"} : Gets(out, s) \cap K # {}
          BY <1>6, MovesSomewhere
        <4> QED
          BY <3>1, <4>1
      <3> QED
        BY <2>2, <3>2
    <2>4. Between'
      BY <1>7, <2>3 DEF Between
    <2>5. "cross" \in Tags(wire'[home][y])
      BY <1>4, <1>5, <1>6, MovesPut
    <2>6. Never(wire'[home][y], "cross", "cross")
      <3>1. Never(wire[home][y], "cross", "cross")
        BY <1>5, <1>9, TagsEmpty
      <3> QED
        BY <1>4, <1>5, <1>6, <1>9, <3>1, MovesPut
    <2>7. \A b \in Gates, h \in Games : b # y \/ h # home => Tags(wire'[h][b]) \cap {"cross", "success"} = {}
      <3> SUFFICES ASSUME NEW b \in Gates, NEW h \in Games, b # y \/ h # home
                   PROVE  Tags(wire'[h][b]) \cap {"cross", "success"} = {}
        OBVIOUS
      <3>1. CASE h # home
        BY <1>10, <3>1
      <3>2. CASE h = home
        <4>1. "success" \notin Tags(wire[home][b])
          BY <1>4, <1>5, <2>1, <3>2, SessionTags
        <4> QED
          BY <1>9, <1>11, <3>2, <4>1
      <3> QED
        BY <3>1, <3>2
    <2>8. \/ gate'[y] = "SCENE" /\ "success" \notin Tags(wire'[home][y])
          \/ /\ gate'[y] = "LOGIN" /\ "success" \in Tags(wire'[home][y])
             /\ Never(wire'[home][y], "success", "success") /\ Never(wire'[home][y], "cross", "success")
      <3>1. CASE gate[y] = "SCENE"
        <4>1. "success" \notin Tags(wire[home][y])
          BY <2>1, <3>1 DEF LoggedIn, OnePlace, Win, In
        <4>2. Tags(wire'[home][y]) \subseteq Tags(wire[home][y]) \cup {"cross"}
          BY <1>4, <1>5, <1>6, MovesPut
        <4> QED
          BY <1>2, <3>1, <4>1, <4>2
      <3>2. CASE gate[y] = "LOGIN" /\ Win(home, y)
        <4>1. "success" \in Tags(wire[home][y]) /\ Never(wire[home][y], "success", "success")
          BY <2>1, <3>2 DEF LoggedIn, OneLetter, Win
        <4>2. Never(wire[home][y], "cross", "success")
          BY <1>5, <1>9, TagsEmpty
        <4>3. "success" \in Tags(wire'[home][y])
          BY <1>4, <1>5, <1>6, <4>1, MovesKeep
        <4>4. Never(wire'[home][y], "success", "success") /\ Never(wire'[home][y], "cross", "success")
          BY <1>4, <1>5, <1>6, <4>1, <4>2, MovesPut
        <4> QED
          BY <1>2, <3>2, <4>3, <4>4
      <3> QED
        BY <1>13, <3>1, <3>2
    <2>9. user' # None /\ user'.gate = y
      BY <1>2, <2>1 DEF LoggedIn, Noted
    <2>10. Crossing(y)'
      BY <1>2, <1>11, <2>3, <2>4, <2>5, <2>6, <2>7, <2>8, <2>9 DEF Crossing
    <2> QED
      BY <1>5, <2>10 DEF Jumped
  <1>14. CASE ~(gate[y] = "SCENE" \/ (gate[y] = "LOGIN" /\ Win(home, y)))
    <2>1. \A h \in Games \ {home} : Empty(h)' /\ \A b \in Gates : "cross" \notin Tags(wire'[h][b])
      BY <1>7, <1>10 DEF Empty, Vacant
    <2>2. Doomed(y)'
      <3>1. gate[y] \notin {"SCENE", "WAIT"}
        BY <1>12, <1>14 DEF LoggedIn, Welcome
      <3>2. gate[y] = "LOGIN" => Never(wire'[home][y], "success", "cross")
        <4>1. SUFFICES ASSUME gate[y] = "LOGIN" PROVE Never(wire'[home][y], "success", "cross")
          OBVIOUS
        <4>2. "success" \notin Tags(wire[home][y])
          BY <1>14, <4>1 DEF Win
        <4>3. Tags(wire'[home][y]) \subseteq Tags(wire[home][y]) \cup {"cross"}
          BY <1>4, <1>5, <1>6, MovesPut
        <4> QED
          BY <4>2, <4>3, TagsEmpty
      <3> QED
        BY <1>2, <1>5, <1>10, <3>1, <3>2 DEF Doomed
    <2>3. \A b \in Gates : "cross" \in Tags(wire'[home][b]) => Doomed(b)'
      BY <1>9, <1>11, <2>2
    <2>4. Settled'
      BY <1>2, <1>11, <2>1, <2>3 DEF Settled
    <2> QED
      BY <2>4 DEF Jumped
  <1> QED
    BY <1>13, <1>14

----------------------------------------------------------------------------
(* All of it together.                                                     *)

\* As long as nothing else happens, a jump that began is somewhere on its way.
LEMMA JumpGoesOn ==
    ASSUME TypeOK, Clean => Answerable, Unlisted, Jumped, [Next]_vars, Clean', ~repeated', jumps' = jumps
    PROVE  Jumped'
  <1>1. /\ Answerable /\ hurries' = hurries /\ Whole /\ jumps \in Nat
        /\ \/ \E a \in Gates : PlayerStep(a) \/ GateStep(a)
           \/ CenterStep
           \/ \E g \in Games : GameStep(g) \/ Jump(g) \/ Play(g) \/ Autosave(g)
           \/ UNCHANGED vars
    BY CleanBefore DEF Answerable, TypeOK
  <1>2. ASSUME NEW g \in Games
        PROVE  ~Jump(g)
    BY <1>1 DEF Jump
  <1>3. CASE UNCHANGED vars
    <2>1. UNCHANGED <<gate, listed, user, home, role, wire>>
      BY <1>3 DEF vars, gateVars, centerVars, dataVars
    <2>2. Settled => Settled'
      BY <2>1 DEF Settled, Empty, Vacant, Doomed
    <2>3. Between => Between'
      BY <2>1 DEF Between, Somewhere
    <2>4. ASSUME NEW a \in Gates
          PROVE  (Crossing(a) => Crossing(a)') /\ (Moving(a) => Moving(a)')
      BY <2>1, <2>3 DEF Crossing, Moving, Alone, Somewhere
    <2>5. ASSUME NEW t \in Games, Moved(t)
          PROVE  Moved(t)'
      <3>1. Left(t)' /\ Landed(t)' /\ Landing(t)' /\ (Empty(t) => Empty(t)')
        BY <2>1, <2>5 DEF Moved, Left, Landed, Landing, Empty, Vacant, Loading, Plays
      <3>2. ASSUME NEW x \in Gates, Live(x)'
            PROVE  Owner(t, x)'
        <4>1. Owner(t, x)
          BY <2>1, <2>5, <3>2 DEF Moved, Live, Reg
        <4> QED
          BY <2>1, <3>1, <4>1 DEF Owner, Alone
      <3> QED
        BY <2>1, <2>5, <3>1, <3>2 DEF Moved
    <2> QED
      BY <2>2, <2>4, <2>5 DEF Jumped
  <1>4. CASE Settled
    BY <1>1, <1>3, <1>4, PlayerSettled, GateSettled, CenterSettled, GameSettled, OwnSettled DEF Jumped
  <1>5. ASSUME NEW a \in Gates, Crossing(a)
        PROVE  Jumped'
    <2>1. \A g \in Games : ~Jump(g) /\ ~Play(g) /\ ~Autosave(g)
      BY <1>5, BetweenIdle DEF Crossing
    <2> QED
      BY <1>1, <1>3, <1>5, <2>1, PlayerCrossing, GateCrossing, CenterCrossing, GameCrossing DEF Jumped
  <1>6. ASSUME NEW a \in Gates, Moving(a)
        PROVE  Jumped'
    <2>1. \A g \in Games : ~Jump(g) /\ ~Play(g) /\ ~Autosave(g)
      BY <1>6, BetweenIdle DEF Moving
    <2> QED
      BY <1>1, <1>3, <1>6, <2>1, PlayerMoving, GateMoving, CenterMoving, GameMoving DEF Jumped
  <1>7. ASSUME NEW t \in Games, Moved(t)
        PROVE  Jumped'
    BY <1>1, <1>3, <1>7, PlayerMoved, GateMoved, CenterMoved, GameMoved, OwnMoved DEF Jumped
  <1> QED
    BY <1>4, <1>5, <1>6, <1>7 DEF Jumped

\* The inductive invariant: the types; without a jump the role at home, whatever
\* fails; as long as nothing fails, the logins and the jump on their way.
Trace ==
    /\ TypeOK /\ Unlisted
    /\ jumps = 0 => AtRoot
    /\ Calm => AtHome
    /\ Clean => Answerable
    /\ Calm /\ Tame => Turns
    /\ Tame /\ jumps = 1 => Jumped

LEMMA InitTrace == Init => Trace
  <1> SUFFICES ASSUME Init PROVE Trace
    OBVIOUS
  <1>1. jumps = 0 /\ Unlisted
    BY DEF Init, Unlisted
  <1> QED
    BY <1>1, InitTypes, InitRoot, InitHome, InitAnswers, InitTurns DEF Trace

LEMMA NextTrace ==
    ASSUME Steady, Trace, [Next]_vars
    PROVE  Trace'
  <1>1. TypeOK /\ jumps \in Nat
    BY DEF Trace, TypeOK
  <1>2. TypeOK' /\ Unlisted'
    BY NextTypes, NextUnlisted DEF Trace
  <1>3. jumps' = 0 => AtRoot'
    BY NextRoot DEF Trace
  <1>4. Calm' => AtHome'
    BY NextHome DEF Trace
  <1>5. Clean' => Answerable'
    BY NextAnswers DEF Trace
  <1>6. Calm' /\ Tame' => Turns'
    BY NextTurns DEF Trace
  <1>7. ASSUME Tame', jumps' = 1
        PROVE  Jumped'
    <2>1. Clean' /\ ~repeated'
      BY <1>7 DEF Tame
    <2>2. Clean /\ Answerable /\ ~repeated
      BY <2>1, CleanBefore, RepeatedStays DEF Trace
    <2>3. jumps' \in {jumps, jumps + 1} /\ (jumps' = jumps + 1 => \E g \in Games : Jump(g))
      BY <1>1, JumpsRise
    <2>5. CASE jumps = 1
      BY <1>7, <2>1, <2>2, <2>5, JumpGoesOn DEF Trace, Tame
    <2>6. CASE jumps # 1
      <3>1. jumps = 0 /\ \E g \in Games : Jump(g)
        BY <1>1, <1>7, <2>3, <2>6
      <3>2. AtRoot /\ AtHome /\ Turns
        BY <2>2, <3>1 DEF Trace, Calm, Clean, Tame
      <3> QED
        BY <1>1, <2>2, <3>1, <3>2, JumpStarts
    <2> QED
      BY <2>5, <2>6
  <1> QED
    BY <1>2, <1>3, <1>4, <1>5, <1>6, <1>7 DEF Trace

LEMMA TraceOneRole ==
    ASSUME Trace
    PROVE  OneRole
  <1> SUFFICES ASSUME Orderly, NEW g \in Games, NEW h \in Games, Plays(g), Plays(h)
               PROVE  g = h
    BY DEF OneRole
  <1>1. jumps \in Nat /\ faults \in Nat /\ hurries \in Nat
    BY DEF Trace, TypeOK
  <1>2. role[g] # None /\ role[h] # None /\ ~Vacant(g) /\ ~Vacant(h)
    BY DEF Plays, Vacant
  <1>3. CASE jumps = 0
    BY <1>2, <1>3 DEF Trace, AtRoot, Rooted
  <1>4. CASE jumps # 0
    <2>1. jumps = 1 /\ Tame
      BY <1>1, <1>4 DEF Orderly, Tame, Clean
    <2>2. Jumped
      BY <2>1 DEF Trace
    <2>3. CASE Settled
      BY <1>2, <2>3 DEF Settled, Empty
    <2>4. CASE Between
      BY <1>2, <2>4 DEF Between
    <2>5. ASSUME NEW t \in Games, Moved(t)
          PROVE  g = h
      BY <1>2, <2>5 DEF Moved, Left, Empty
    <2> QED
      BY <2>2, <2>3, <2>4, <2>5 DEF Jumped, Crossing, Moving
  <1> QED
    BY <1>3, <1>4

\* A player's role is never played by two games at once, whichever single incident
\* happens: a jump, the loss of a connection other than a game's to center, a crash
\* of a gate or a game, the loss of the database, or a hasty login.  Without a jump
\* every trace of the role is at the game that center has for the player; with one
\* the old game has deleted the role before it told anyone.
THEOREM ClusterOneRole ==
    ASSUME Steady
    PROVE  Spec => []OneRole
  <1>1. Init => Trace
    BY InitTrace
  <1>2. Trace /\ [Next]_vars => Trace'
    BY NextTrace
  <1>3. Trace => OneRole
    BY TraceOneRole
  <1> QED
    BY <1>1, <1>2, <1>3, PTL DEF Spec

\* The next login of the player finds its role.  As long as nobody jumped, the role is
\* at the game of the scene that center keeps for the player, however many processes
\* crash, connections break and logins are hasty; and so it is after a single
\* jump, once all messages are handled.
THEOREM ClusterRoleFound ==
    ASSUME Steady
    PROVE  Spec => [](jumps = 0 \/ (Orderly /\ Quiet) => \A g \in Games : role[g] # None => g = home)
  <1>1. Init => Trace
    BY InitTrace
  <1>2. Trace /\ [Next]_vars => Trace'
    BY NextTrace
  <1>3. ASSUME Trace
        PROVE  jumps = 0 \/ (Orderly /\ Quiet) => \A g \in Games : role[g] # None => g = home
    <2> SUFFICES ASSUME jumps = 0 \/ (Orderly /\ Quiet), NEW g \in Games, role[g] # None
                 PROVE  g = home
      OBVIOUS
    <2>1. ~Vacant(g)
      BY DEF Vacant
    <2>2. CASE jumps = 0
      BY <1>3, <2>1, <2>2 DEF Trace, AtRoot, Rooted
    <2>3. CASE jumps # 0
      <3>1. jumps = 1 /\ Tame /\ Quiet
        <4>1. jumps \in Nat /\ faults \in Nat /\ hurries \in Nat
          BY <1>3 DEF Trace, TypeOK
        <4> QED
          BY <2>3, <4>1 DEF Orderly, Tame, Clean
      <3>2. Jumped /\ Answerable /\ TypeOK
        BY <1>3, <3>1 DEF Trace, Tame
      <3>3. /\ \A p \in Processes : \A q \in Peers[p] : Tags(wire[p][q]) = {}
            /\ \A a \in Gates : a \in Processes /\ "center" \in Peers[a]
            /\ \A h \in Games : /\ h \in Processes /\ "center" \in Processes /\ "db" \in Processes
                              /\ "center" \in Peers[h] /\ "db" \in Peers[h]
                              /\ h \in Peers["center"] /\ h \in Peers["db"]
        BY <3>1, TagsEmpty, Connections DEF Quiet
      <3>4. CASE Settled
        BY <2>1, <3>4 DEF Settled, Empty
      <3>5. CASE Between
        BY <3>5 DEF Between
      <3>6. ASSUME NEW t \in Games, Moved(t)
            PROVE  g = home
        <4>1. g = t
          BY <2>1, <3>6 DEF Moved, Left, Empty
        <4>2. ~Plays(t)
          BY <3>3, <3>6 DEF Moved, Landed
        <4>3. ~Loading(t)
          <5>1. ~Asked(t)
            BY <3>2, <3>3, AskedTags
          <5> QED
            BY <3>2, <5>1 DEF Answerable
        <4>4. role[t] \in Roles
          BY <3>2, <4>1 DEF TypeOK
        <4> QED
          BY <4>1, <4>2, <4>3, <4>4 DEF Plays, Loading, Roles
      <3> QED
        BY <3>2, <3>4, <3>5, <3>6 DEF Jumped, Crossing, Moving
    <2> QED
      BY <2>2, <2>3
  <1> QED
    BY <1>1, <1>2, <1>3, PTL DEF Spec

\* As long as there was neither a jump nor a fault, and no login that overtook an
\* earlier one, a gate whose user is in a scene is right about it once all messages
\* are handled: center has the user online at this gate, the game it names plays the
\* role for this gate, and the gate forwards to that game.
THEOREM CalmSceneIsBacked ==
    Spec => [](jumps = 0 /\ faults = 0 => SceneIsBacked)
  <1>1. Init => TypeOK /\ (Calm => AtHome) /\ (Clean => Answerable) /\ (Calm /\ Tame => Turns)
    BY InitTypes, InitHome, InitAnswers, InitTurns
  <1>2. /\ TypeOK /\ (Calm => AtHome) /\ (Clean => Answerable) /\ (Calm /\ Tame => Turns)
        /\ [Next]_vars
        => (TypeOK /\ (Calm => AtHome) /\ (Clean => Answerable) /\ (Calm /\ Tame => Turns))'
    BY NextTypes, NextHome, NextAnswers, NextTurns
  <1>3. ASSUME TypeOK, Calm => AtHome, Calm /\ Tame => Turns
        PROVE  jumps = 0 /\ faults = 0 => SceneIsBacked
    <2> SUFFICES ASSUME jumps = 0, faults = 0, Quiet, hurries = 0, Orderly,
                        NEW a \in Gates, gate[a] = "SCENE"
                 PROVE  /\ user # None /\ user.gate = a /\ user.on = "ONLINE"
                        /\ Plays(user.game) /\ role[user.game].gate = a
                        /\ user.game \in listed[a]
      BY DEF SceneIsBacked
    <2>1. AtHome /\ Turns
      BY <1>3 DEF Calm, Tame, Clean, Orderly
    <2>2. home \in Games /\ home \in Processes /\ "center" \in Peers[home]
      BY <1>3, Connections DEF TypeOK
    <2>3. LoggedIn(a, home) /\ In(a)
      BY <2>1, <2>2 DEF Turns, In
    <2>4. ~Ent(home)
      <3>1. wire[home]["center"] = <<>>
        BY <2>2 DEF Quiet
      <3> QED
        BY <3>1, TagsEmpty DEF Ent
    <2>5. user # None /\ user.game = home
      BY <2>1, <2>3 DEF LoggedIn, Noted, AtHome
    <2> QED
      BY <2>3, <2>4, <2>5 DEF LoggedIn, Noted
  <1> QED
    BY <1>1, <1>2, <1>3, PTL DEF Spec

=============================================================================
