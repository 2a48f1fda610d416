------------------------- MODULE ClusterSession_proofs -------------------------
(***************************************************************************)
(* What holds of a player's session for any number of gates, games and     *)
(* logins: the types, and that the database has what the player did when   *)
(* no game plays the role any more.                                        *)
(***************************************************************************)
EXTENDS ClusterSession, SequenceTheorems, TLAPS

----------------------------------------------------------------------------
(* Who talks to whom.                                                      *)

\* The processes are different, and these are their connections.
LEMMA Connections ==
    /\ Processes = Gates \cup Games \cup {"center", "db"}
    /\ \A a \in Gates : a \notin Games /\ a # "center" /\ a # "db"
    /\ \A g \in Games : g \notin Gates /\ g # "center" /\ g # "db"
    /\ \A a \in Gates : Peers[a] = Games \cup {"center"}
    /\ \A g \in Games : Peers[g] = Gates \cup {"center", "db"}
    /\ Peers["center"] = Gates \cup Games
    /\ Peers["db"] = Games
    /\ "center" # "db"
  BY ProcessAssumption DEF Processes, Peers

\* Connections have two ends.
LEMMA Ends ==
    /\ \A p \in Processes : Peers[p] \subseteq Processes
    /\ \A p \in Processes : \A q \in Peers[p] : p \in Peers[q] /\ p # q /\ {p, q} \in Links
    /\ \A l \in Links : \E p \in Processes : \E q \in Peers[p] : l = {p, q}
  <1>1. \A p \in Processes : Peers[p] \subseteq Processes
    BY Connections
  <1>2. \A p \in Processes : \A q \in Peers[p] : p \in Peers[q] /\ p # q
    BY Connections
  <1>3. \A p \in Processes : \A q \in Peers[p] : {p, q} \in Links
    <2> TAKE p \in Processes
    <2> TAKE q \in Peers[p]
    <2>1. {p, q} \in {{p, x} : x \in Peers[p]}
      OBVIOUS
    <2>2. {{p, x} : x \in Peers[p]} \in {{{r, x} : x \in Peers[r]} : r \in Processes}
      OBVIOUS
    <2> QED
      BY <2>1, <2>2 DEF Links
  <1>4. \A l \in Links : \E p \in Processes : \E q \in Peers[p] : l = {p, q}
    <2> TAKE l \in Links
    <2>1. PICK p \in Processes : l \in {{p, q} : q \in Peers[p]}
      BY Zenon DEF Links
    <2> QED
      BY <2>1
  <1> QED
    BY <1>1, <1>2, <1>3, <1>4

----------------------------------------------------------------------------
(* What is on the wire.  A[p][q] is what p may say to q.                   *)

\* Taking from a channel and appending to it.
LEMMA SeqStep ==
    ASSUME NEW S, NEW c \in Seq(S)
    PROVE  /\ c # <<>> => Head(c) \in S /\ Head(c) = c[1] /\ Tail(c) \in Seq(S)
           /\ \A e \in S : Append(c, e) \in Seq(S)
  OBVIOUS

Fits(w, A) ==
    /\ DOMAIN w = Processes
    /\ \A p \in Processes : w[p] = [q \in Peers[p] |-> w[p][q]]
    /\ \A p \in Processes : \A q \in Peers[p] : w[p][q] \in Seq(A[p][q])

\* What p sends is what p may say.
Proper(p, out, A) == \A q \in DOMAIN out \cap Peers[p] : out[q] \in A[p][q]

\* The channel from r to s after p has sent "out".
Sent(c, p, out, r, s) ==
    IF r = p /\ s \in DOMAIN out /\ {r, s} \in up THEN Append(c, out[s]) ELSE c

\* Sending appends to the channels of the addressees.
LEMMA PostChannels ==
    ASSUME NEW A, NEW w, Fits(w, A), NEW p \in Processes, NEW out
    PROVE  /\ DOMAIN Post(w, p, out) = Processes
           /\ \A r \in Processes :
                Post(w, p, out)[r] = [s \in Peers[r] |-> Post(w, p, out)[r][s]]
           /\ \A r \in Processes : \A s \in Peers[r] :
                Post(w, p, out)[r][s] = Sent(w[r][s], p, out, r, s)
  <1> DEFINE new == [q \in Peers[p] |->
                IF q \in DOMAIN out /\ {p, q} \in up THEN Append(w[p][q], out[q]) ELSE w[p][q]]
  <1>1. Post(w, p, out) = [w EXCEPT ![p] = new]
    BY DEF Post
  <1>2. /\ DOMAIN Post(w, p, out) = Processes
        /\ Post(w, p, out)[p] = new
        /\ \A r \in Processes \ {p} : Post(w, p, out)[r] = w[r]
    BY <1>1 DEF Fits
  <1> HIDE DEF new
  <1>3. new = [s \in Peers[p] |-> new[s]]
    BY DEF new
  <1>4. \A s \in Peers[p] : new[s] = Sent(w[p][s], p, out, p, s)
    BY DEF new, Sent
  <1>5. ASSUME NEW r \in Processes
        PROVE  /\ Post(w, p, out)[r] = [s \in Peers[r] |-> Post(w, p, out)[r][s]]
               /\ \A s \in Peers[r] : Post(w, p, out)[r][s] = Sent(w[r][s], p, out, r, s)
    <2>1. CASE r = p
      BY <1>2, <1>3, <1>4, <2>1
    <2>2. CASE r # p
      BY <1>2, <2>2 DEF Fits, Sent
    <2> QED
      BY <2>1, <2>2
  <1> QED
    BY <1>2, <1>5

\* What is proper to say keeps to what may be said.
LEMMA PostFits ==
    ASSUME NEW A, NEW w, Fits(w, A), NEW p \in Processes, NEW out, Proper(p, out, A)
    PROVE  Fits(Post(w, p, out), A)
  <1>1. ASSUME NEW r \in Processes, NEW s \in Peers[r]
        PROVE  Post(w, p, out)[r][s] \in Seq(A[r][s])
    <2>1. w[r][s] \in Seq(A[r][s])
      BY DEF Fits
    <2>2. r = p /\ s \in DOMAIN out => out[s] \in A[r][s]
      BY DEF Proper
    <2>3. Post(w, p, out)[r][s] = Sent(w[r][s], p, out, r, s)
      BY PostChannels
    <2>4. r = p /\ s \in DOMAIN out => Append(w[r][s], out[s]) \in Seq(A[r][s])
      BY <2>1, <2>2, SeqStep
    <2> QED
      BY <2>1, <2>3, <2>4 DEF Sent
  <1>2. /\ DOMAIN Post(w, p, out) = Processes
        /\ \A r \in Processes : Post(w, p, out)[r] = [s \in Peers[r] |-> Post(w, p, out)[r][s]]
    BY PostChannels
  <1> HIDE DEF Post
  <1> QED
    BY <1>1, <1>2 DEF Fits

\* The channel from r to s after p has taken a message from q.
Took(c, p, q, r, s) == IF r = q /\ s = p THEN Tail(c) ELSE c

\* Handling takes a message and sends the answers.
LEMMA HandleChannels ==
    ASSUME NEW A, Fits(wire, A), NEW p \in Processes, NEW q \in Peers[p], NEW out,
           Hears(p, q), Handle(q, p, out)
    PROVE  /\ DOMAIN wire' = Processes
           /\ \A r \in Processes : wire'[r] = [s \in Peers[r] |-> wire'[r][s]]
           /\ \A r \in Processes : \A s \in Peers[r] :
                wire'[r][s] = Sent(Took(wire[r][s], p, q, r, s), p, out, r, s)
           /\ Incoming(q, p) \in A[q][p] /\ Incoming(q, p) = wire[q][p][1]
           /\ Proper(p, out, A) => Fits(wire', A)
  <1> DEFINE w == [wire EXCEPT ![q][p] = Tail(@)]
  <1>1. q \in Processes /\ p \in Peers[q]
    BY Ends
  <1>2. /\ DOMAIN w = Processes
        /\ w[q] = [wire[q] EXCEPT ![p] = Tail(wire[q][p])]
        /\ \A r \in Processes \ {q} : w[r] = wire[r]
    BY <1>1 DEF Fits
  <1>3. wire' = Post(w, p, out)
    BY DEF Handle
  <1> HIDE DEF w
  <1>4. \A r \in Processes : w[r] = [s \in Peers[r] |-> w[r][s]]
    BY <1>1, <1>2 DEF Fits
  <1>5. \A r \in Processes : \A s \in Peers[r] : w[r][s] = Took(wire[r][s], p, q, r, s)
    BY <1>1, <1>2 DEF Fits, Took
  <1>6. wire[q][p] \in Seq(A[q][p]) /\ wire[q][p] # <<>>
    BY <1>1 DEF Fits, Hears
  <1>7. Tail(wire[q][p]) \in Seq(A[q][p])
    BY <1>6, SeqStep
  <1>8. Fits(w, A)
    <2>1. \A r \in Processes : \A s \in Peers[r] : w[r][s] \in Seq(A[r][s])
      BY <1>5, <1>7 DEF Fits, Took
    <2> QED
      BY <2>1, <1>2, <1>4 DEF Fits
  <1>9. Incoming(q, p) \in A[q][p] /\ Incoming(q, p) = wire[q][p][1]
    BY <1>6, SeqStep DEF Incoming
  <1> QED
    BY <1>3, <1>5, <1>8, <1>9, PostChannels, PostFits

\* Mail to nobody, to one, to many, and put together.
LEMMA MailProper ==
    ASSUME NEW A, NEW p \in Processes
    PROVE  /\ Proper(p, Nothing, A)
           /\ \A S, m : (\A q \in S \cap Peers[p] : m \in A[p][q]) => Proper(p, Each(S, m), A)
           /\ \A q, m : (q \in Peers[p] => m \in A[p][q]) => Proper(p, To(q, m), A)
           /\ \A out1, out2 : Proper(p, out1, A) /\ Proper(p, out2, A)
                => Proper(p, out1 ++ out2, A)
  BY DEF Proper, Nothing, Each, To, ++

----------------------------------------------------------------------------
(* The types.                                                              *)

\* Anybody may say any message to anybody.
Any == [p \in Processes |-> [q \in Processes |-> Msgs]]

States == {"NONE", "OFFLINE"} \cup GateStates \cup LoginStates

\* The messages, and what they carry.
LEMMA Messages ==
    /\ \A k \in {"closed", "reg", "kick_all", "success", "ready", "load", "syn"} : Say(k) \in Msgs
    /\ \A c \in Codes : UnregMsg(c) \in Msgs
    /\ \A g \in Games : [kind |-> "cross", to |-> g] \in Msgs
    /\ \A a \in Gates, t \in {"login", "jump"} :
         [kind |-> "reg_scene", gate |-> a, type |-> t] \in Msgs
    /\ \A a \in Gates : [kind |-> "relogin", gate |-> a] \in Msgs
    /\ \A t \in LoginTypes : [kind |-> "entered", type |-> t] \in Msgs
    /\ \A k \in {"save", "record"}, v \in Nat : [kind |-> k, ver |-> v] \in Msgs
  BY DEF Msgs, Say, UnregMsg, Codes

LEMMA Carries ==
    ASSUME NEW m \in Msgs
    PROVE  /\ m.kind = "unreg" => m.code \in Codes
           /\ m.kind = "cross" => m.to \in Games
           /\ m.kind = "reg_scene" => m.gate \in Gates /\ m.type \in {"login", "jump"}
           /\ m.kind = "relogin" => m.gate \in Gates
           /\ m.kind = "entered" => m.type \in LoginTypes
           /\ m.kind \in {"save", "record"} => m.ver \in Nat
  BY DEF Msgs

\* TypeOK's clause about the wire.
LEMMA WireTypes ==
    \A w : (DOMAIN w = Processes /\ \A p \in Processes : w[p] \in [Peers[p] -> Seq(Msgs)])
             <=> Fits(w, Any)
  <1>1. \A p \in Processes : \A q \in Peers[p] : Any[p][q] = Msgs
    BY Ends DEF Any
  <1> QED
    BY <1>1 DEF Fits

\* In Any, mail is proper when its letters are messages.
LEMMA AnyMail ==
    ASSUME NEW p \in Processes
    PROVE  /\ Proper(p, Nothing, Any)
           /\ \A S, m : m \in Msgs => Proper(p, Each(S, m), Any)
           /\ \A q, m : m \in Msgs => Proper(p, To(q, m), Any)
           /\ \A out1, out2 : Proper(p, out1, Any) /\ Proper(p, out2, Any)
                => Proper(p, out1 ++ out2, Any)
  <1>1. \A q \in Peers[p] : Any[p][q] = Msgs
    BY Ends DEF Any
  <1> QED
    BY <1>1, MailProper

\* Handling and sending keep the types of the wire.
LEMMA HandleTypes ==
    ASSUME Fits(wire, Any), NEW p \in Processes, NEW q \in Peers[p], NEW out,
           Hears(p, q), Handle(q, p, out)
    PROVE  /\ Incoming(q, p) \in Msgs
           /\ Proper(p, out, Any) => Fits(wire', Any)
  <1>1. q \in Processes /\ Any[q][p] = Msgs
    BY Ends DEF Any
  <1> QED
    BY <1>1, HandleChannels

LEMMA HearTypes ==
    ASSUME Fits(wire, Any), NEW p \in Processes, NEW q \in Peers[p], Hears(p, q)
    PROVE  Incoming(q, p) \in Msgs
  <1>1. p \in Peers[q] /\ q \in Processes /\ Any[q][p] = Msgs
    BY Ends DEF Any
  <1>2. wire[q][p] \in Seq(Msgs) /\ wire[q][p] # <<>>
    BY <1>1 DEF Fits, Hears
  <1> QED
    BY <1>2 DEF Incoming

LEMMA SendTypes ==
    ASSUME Fits(wire, Any), NEW p \in Processes, NEW out, Proper(p, out, Any), Send(p, out)
    PROVE  Fits(wire', Any)
  BY PostFits DEF Send

\* The gates: the player.
LEMMA GateMovesTypes ==
    ASSUME TypeOK, NEW a \in Gates, NEW st \in States, NEW out, Proper(a, out, Any),
           GateMoves(a, st, out), listed' \in [Gates -> SUBSET Games],
           logins' \in 0..MaxLogins, hurries' \in Nat, repeated' \in BOOLEAN,
           jumps + faults + hurries' <= MaxIncidents
    PROVE  TypeOK'
  <1>1. a \in Processes
    BY Connections
  <1>2. Fits(wire, Any)
    BY WireTypes DEF TypeOK
  <1>3. Fits(wire', Any)
    BY <1>1, <1>2, SendTypes DEF GateMoves
  <1>4. DOMAIN wire' = Processes /\ \A p \in Processes : wire'[p] \in [Peers[p] -> Seq(Msgs)]
    BY <1>3, WireTypes
  <1>5. gate' \in [Gates -> States]
    BY DEF GateMoves, TypeOK, States
  <1> QED
    BY <1>4, <1>5 DEF GateMoves, TypeOK, centerVars, dataVars, States

\* The news of a user that leaves are messages.
LEMMA UnregMail ==
    ASSUME TypeOK, NEW a \in Gates, NEW code \in Codes, NEW out \in Unregs(a, code)
    PROVE  Proper(a, out, Any)
  <1>1. a \in Processes /\ UnregMsg(code) \in Msgs
    BY Connections, Messages
  <1>2. /\ Proper(a, To("center", UnregMsg(code)), Any)
        /\ Proper(a, Nothing, Any)
        /\ \A g \in listed[a] : Proper(a, To(g, UnregMsg(code)), Any)
    BY <1>1, AnyMail
  <1>3. \/ out = To("center", UnregMsg(code))
        \/ \E g \in listed[a] :
             out = To(g, UnregMsg(code))
                     ++ (IF code # "LOGOUT" THEN To("center", UnregMsg(code)) ELSE Nothing)
    BY DEF Unregs
  <1> QED
    BY <1>1, <1>2, <1>3, AnyMail

LEMMA PlayerTypes ==
    ASSUME TypeOK, NEW a \in Gates, PlayerStep(a)
    PROVE  TypeOK'
  <1> USE DEF States, GateStates, LoginStates
  <1>1. /\ a \in Processes /\ gate[a] \in States /\ Proper(a, Nothing, Any)
        /\ listed \in [Gates -> SUBSET Games] /\ [listed EXCEPT ![a] = {}] \in [Gates -> SUBSET Games]
        /\ logins \in 0..MaxLogins /\ hurries \in Nat /\ repeated \in BOOLEAN
        /\ jumps \in Nat /\ faults \in Nat /\ MaxIncidents \in Nat
        /\ jumps + faults + hurries <= MaxIncidents
    BY Connections, AnyMail, BoundsAssumption DEF TypeOK
  <1>2. \A c \in Codes : \A out \in Unregs(a, c) : Proper(a, out, Any)
    BY UnregMail
  <1>3. \A k \in {"reg", "ready"} : \A q : Proper(a, To(q, Say(k)), Any)
    BY <1>1, Messages, AnyMail
  <1>4. CASE Arrive(a)
    <2>1. \E st \in {"GATE", "REGATE"} : GateMoves(a, st, Nothing)
      BY <1>4 DEF Arrive
    <2>2. hurries' \in Nat /\ jumps + faults + hurries' <= MaxIncidents
      BY <1>1, <1>4 DEF Arrive, MayHurry
    <2>3. logins' \in 0..MaxLogins /\ listed' = listed /\ repeated' = repeated
      BY <1>1, <1>4, BoundsAssumption DEF Arrive
    <2> QED
      BY <1>1, <2>1, <2>2, <2>3, GateMovesTypes
  <1>5. CASE LoginGame(a)
    <2>1. repeated' \in BOOLEAN /\ listed' = listed /\ logins' = logins /\ hurries' = hurries
      BY <1>5 DEF LoginGame
    <2> QED
      BY <1>1, <1>3, <1>5, <2>1, GateMovesTypes DEF LoginGame
  <1>6. CASE Ready(a)
    <2>1. \E g \in listed[a] : GateMoves(a, "SCENE", To(g, Say("ready")))
      BY <1>6 DEF Ready
    <2>2. listed' = listed /\ logins' = logins /\ hurries' = hurries /\ repeated' = repeated
      BY <1>6 DEF Ready
    <2> QED
      BY <1>1, <1>3, <2>1, <2>2, GateMovesTypes
  <1>7. ASSUME NEW out, Proper(a, out, Any), GateDrops(a, out)
        PROVE  TypeOK'
    BY <1>1, <1>7, GateMovesTypes DEF GateDrops
  <1>8. CASE Leave(a)
    <2>1. CASE GateDrops(a, Nothing)
      BY <1>1, <1>7, <2>1
    <2>2. CASE /\ \E out \in Unregs(a, "OFFLINE") \cup {Nothing} : GateMoves(a, "OFFLINE", out)
               /\ UNCHANGED <<listed, logins, hurries, repeated>>
      <3>1. PICK out : Proper(a, out, Any) /\ GateMoves(a, "OFFLINE", out)
        BY <1>1, <1>2, <2>2 DEF Codes
      <3> QED
        BY <1>1, <2>2, <3>1, GateMovesTypes
    <2> QED
      BY <1>8, <2>1, <2>2 DEF Leave
  <1>9. CASE Expire(a)
    BY <1>2, <1>7, <1>9 DEF Expire, Codes
  <1>10. CASE MsgBomb(a)
    <2>1. \E out \in Unregs(a, "LOGOUT") \cup {Nothing} : GateDrops(a, out)
      BY <1>10 DEF MsgBomb
    <2> QED
      BY <1>1, <1>2, <1>7, <2>1 DEF Codes
  <1> QED
    BY <1>4, <1>5, <1>6, <1>8, <1>9, <1>10 DEF PlayerStep

\* The gates: messages.
LEMMA GateHandlesTypes ==
    ASSUME TypeOK, NEW a \in Gates, NEW q \in Peers[a], Hears(a, q), NEW st \in States,
           NEW lst \in SUBSET Games, NEW out, Proper(a, out, Any), GateHandles(q, a, st, lst, out)
    PROVE  TypeOK'
  <1>1. a \in Processes
    BY Connections
  <1>2. Fits(wire, Any)
    BY WireTypes DEF TypeOK
  <1>3. Fits(wire', Any)
    BY <1>1, <1>2, HandleTypes DEF GateHandles
  <1>4. DOMAIN wire' = Processes /\ \A p \in Processes : wire'[p] \in [Peers[p] -> Seq(Msgs)]
    BY <1>3, WireTypes
  <1>5. gate' \in [Gates -> States] /\ listed' \in [Gates -> SUBSET Games]
    BY DEF GateHandles, TypeOK, States
  <1> QED
    BY <1>4, <1>5 DEF GateHandles, TypeOK, centerVars, dataVars, counters, incidentVars,
       histories, States

LEMMA GateTypes ==
    ASSUME TypeOK, NEW a \in Gates, GateStep(a)
    PROVE  TypeOK'
  <1> USE DEF States, GateStates, LoginStates
  <1>1. /\ a \in Processes /\ gate[a] \in States /\ Proper(a, Nothing, Any)
        /\ listed[a] \in SUBSET Games /\ {} \in SUBSET Games
        /\ \A q, c : c \in Codes => Proper(a, To(q, UnregMsg(c)), Any)
        /\ Fits(wire, Any)
    BY Connections, Messages, AnyMail, WireTypes DEF TypeOK
  <1>2. ASSUME NEW q \in Peers[a], Hears(a, q), GateHearsError(q, a)
        PROVE  TypeOK'
    <2>1. GateHandles(q, a, gate[a], listed[a], Nothing) \/ GateHandles(q, a, "NONE", {}, Nothing)
      BY <1>2 DEF GateHearsError
    <2> QED
      BY <1>1, <1>2, <2>1, GateHandlesTypes
  <1>3. CASE Hears(a, "center") /\ GateCleared(a)
    <2>1. "center" \in Peers[a] /\ GateHandles("center", a, "NONE", {}, Nothing)
      BY <1>3, Connections DEF GateCleared
    <2> QED
      BY <1>1, <1>3, <2>1, GateHandlesTypes
  <1>4. ASSUME NEW g \in Games, Hears(a, g), GateHearsSuccess(g, a)
        PROVE  TypeOK'
    <2>1. g \in Peers[a] /\ listed[a] \cup {g} \in SUBSET Games
      BY <1>1, Connections
    <2>2. /\ \A out \in Unregs(a, "OFFLINE") : Proper(a, out, Any)
          /\ Proper(a, To("center", UnregMsg("ERROR")) ++ To(g, UnregMsg("ERROR")), Any)
      BY <1>1, UnregMail, AnyMail DEF Codes
    <2> QED
      BY <1>1, <1>4, <2>1, <2>2, GateHandlesTypes DEF GateHearsSuccess
  <1>5. ASSUME NEW g \in Games, Hears(a, g), GateHearsCross(g, a)
        PROVE  TypeOK'
    <2>1. g \in Peers[a]
      BY Connections
    <2>2. Incoming(g, a) \in Msgs
      BY <1>1, <1>5, <2>1, HearTypes
    <2>3. Proper(a, To("center", Incoming(g, a)), Any)
      BY <1>1, <2>2, AnyMail
    <2> QED
      BY <1>1, <1>5, <2>1, <2>3, GateHandlesTypes DEF GateHearsCross
  <1>6. ASSUME NEW g \in Games, Hears(a, g), GateLosesGame(g, a)
        PROVE  TypeOK'
    <2>1. g \in Peers[a]
      BY Connections
    <2> QED
      BY <1>1, <1>6, <2>1, GateHandlesTypes DEF GateLosesGame
  <1> QED
    BY <1>2, <1>3, <1>4, <1>5, <1>6, Connections DEF GateStep

\* Center.
LEMMA CenterHandlesTypes ==
    ASSUME TypeOK, NEW q \in Gates \cup Games, Hears("center", q), NEW u \in Users \cup {None},
           NEW h \in Games, NEW k \in SUBSET Games, NEW out, Proper("center", out, Any),
           CenterHandles(q, u, h, k, out)
    PROVE  TypeOK'
  <1>1. "center" \in Processes /\ q \in Peers["center"]
    BY Connections
  <1>2. Fits(wire, Any)
    BY WireTypes DEF TypeOK
  <1>3. Fits(wire', Any)
    BY <1>1, <1>2, HandleTypes DEF CenterHandles
  <1>4. DOMAIN wire' = Processes /\ \A p \in Processes : wire'[p] \in [Peers[p] -> Seq(Msgs)]
    BY <1>3, WireTypes
  <1> QED
    BY <1>4 DEF CenterHandles, TypeOK, gateVars, dataVars, counters, incidentVars, histories

LEMMA CenterTypes ==
    ASSUME TypeOK, CenterStep
    PROVE  TypeOK'
  <1>1. /\ "center" \in Processes /\ Proper("center", Nothing, Any)
        /\ user \in Users \cup {None} /\ home \in Games /\ known \in SUBSET Games
        /\ \A q, c : c \in Codes => Proper("center", To(q, UnregMsg(c)), Any)
        /\ \A S, c : c \in Codes => Proper("center", Each(S, UnregMsg(c)), Any)
        /\ Fits(wire, Any)
    BY Connections, Messages, AnyMail, WireTypes DEF TypeOK
  <1>2. \A q \in Gates \cup Games : Hears("center", q) => Incoming(q, "center") \in Msgs
    BY <1>1, Connections, HearTypes
  <1>3. \A on \in {"LOGOUT", "ONLINE", "OFFLINE"} :
           user # None => [user EXCEPT !.on = on] \in Users /\ user.gate \in Gates /\ user.game \in Games
    BY <1>1 DEF Users
  <1>4. ASSUME NEW a \in Gates, Hears("center", a), CenterRegs(a)
        PROVE  TypeOK'
    <2>1. \A q, x : x \in Gates => Proper("center", To(q, [kind |-> "relogin", gate |-> x]), Any)
      BY <1>1, Messages, AnyMail
    <2>2. \A q : Proper("center", To(q, [kind |-> "reg_scene", gate |-> a, type |-> "login"]), Any)
      BY <1>1, Messages, AnyMail
    <2>3. CASE CenterHandles(a, user, home, known,
                 To(user.game, [kind |-> "relogin", gate |-> a]))
      BY <1>1, <1>4, <2>1, <2>3, CenterHandlesTypes
    <2>4. CASE CenterHandles(a, None, home, known,
                 To(a, UnregMsg("ERROR")) ++ To(user.game, UnregMsg("ERROR")))
      <3>1. Proper("center", To(a, UnregMsg("ERROR")) ++ To(user.game, UnregMsg("ERROR")), Any)
        BY <1>1, AnyMail DEF Codes
      <3> QED
        BY <1>1, <1>4, <2>4, <3>1, CenterHandlesTypes
    <2>5. CASE \E g \in LoginScenes :
                 CenterHandles(a, [gate |-> a, game |-> g, on |-> "LOGOUT"], g, known,
                   To(g, [kind |-> "reg_scene", gate |-> a, type |-> "login"]))
      <3>1. PICK g \in LoginScenes :
                 CenterHandles(a, [gate |-> a, game |-> g, on |-> "LOGOUT"], g, known,
                   To(g, [kind |-> "reg_scene", gate |-> a, type |-> "login"]))
        BY <2>5
      <3>2. g \in Games /\ [gate |-> a, game |-> g, on |-> "LOGOUT"] \in Users
        BY <1>1 DEF LoginScenes, Users
      <3> QED
        BY <1>1, <1>4, <2>2, <3>1, <3>2, CenterHandlesTypes
    <2>6. CASE CenterHandles(a, None, home, known, To(a, UnregMsg("ERROR")))
      BY <1>1, <1>4, <2>6, CenterHandlesTypes DEF Codes
    <2> QED
      BY <1>4, <2>3, <2>4, <2>5, <2>6 DEF CenterRegs
  <1>5. ASSUME NEW q \in Gates \cup Games, Hears("center", q), CenterUnregs(q)
        PROVE  TypeOK'
    <2>1. \E u \in Users \cup {None} : CenterHandles(q, u, home, known, Nothing)
      BY <1>3, <1>5 DEF CenterUnregs
    <2> QED
      BY <1>1, <1>5, <2>1, CenterHandlesTypes
  <1>6. ASSUME NEW g \in Games, Hears("center", g), CenterEntered(g)
        PROVE  TypeOK'
    <2>1. CASE \E u \in Users \cup {None}, h \in Games : CenterHandles(g, u, h, known, Nothing)
      BY <1>1, <1>6, <2>1, CenterHandlesTypes
    <2>2. CASE CenterHandles(g, None, home, known,
                 Each(Gates, UnregMsg("ERROR")) ++ To(g, UnregMsg("ERROR")))
      <3>1. Proper("center", Each(Gates, UnregMsg("ERROR")) ++ To(g, UnregMsg("ERROR")), Any)
        BY <1>1, AnyMail DEF Codes
      <3> QED
        BY <1>1, <1>6, <2>2, <3>1, CenterHandlesTypes
    <2> QED
      BY <1>1, <1>3, <1>6, <2>1, <2>2 DEF CenterEntered
  <1>7. ASSUME NEW a \in Gates, Hears("center", a), CenterCrosses(a)
        PROVE  TypeOK'
    <2>1. Incoming(a, "center").to \in Games
      BY <1>2, <1>7, Carries DEF CenterCrosses
    <2>2. CASE /\ user # None
               /\ CenterHandles(a, [user EXCEPT !.game = Incoming(a, "center").to], home, known,
                    To(Incoming(a, "center").to,
                       [kind |-> "reg_scene", gate |-> user.gate, type |-> "jump"]))
      <3>1. [user EXCEPT !.game = Incoming(a, "center").to] \in Users
        BY <1>1, <2>1, <2>2 DEF Users
      <3>2. Proper("center", To(Incoming(a, "center").to,
                       [kind |-> "reg_scene", gate |-> user.gate, type |-> "jump"]), Any)
        BY <1>1, <1>3, <2>2, Messages, AnyMail
      <3> QED
        BY <1>1, <1>7, <2>2, <3>1, <3>2, CenterHandlesTypes
    <2>3. CASE CenterHandles(a, None, home, known, Each(Gates, UnregMsg("ERROR")))
      BY <1>1, <1>7, <2>3, CenterHandlesTypes DEF Codes
    <2> QED
      BY <1>7, <2>2, <2>3 DEF CenterCrosses
  <1>8. ASSUME NEW a \in Gates, Hears("center", a), CenterLosesGate(a)
        PROVE  TypeOK'
    <2>1. \E u \in Users \cup {None} : CenterHandles(a, u, home, known, Nothing)
      BY <1>1, <1>8 DEF CenterLosesGate
    <2> QED
      BY <1>1, <1>8, <2>1, CenterHandlesTypes
  <1>9. ASSUME NEW g \in Games, Hears("center", g), CenterLosesGame(g) \/ CenterLearns(g)
        PROVE  TypeOK'
    <2>1. \E u \in Users \cup {None}, k \in SUBSET Games : CenterHandles(g, u, home, k, Nothing)
      BY <1>1, <1>9 DEF CenterLosesGame, CenterLearns
    <2> QED
      BY <1>1, <1>9, <2>1, CenterHandlesTypes
  <1> QED
    BY <1>4, <1>5, <1>6, <1>7, <1>8, <1>9 DEF CenterStep

\* Games and database.
LEMMA GameHandlesTypes ==
    ASSUME TypeOK, NEW g \in Games, NEW q \in Peers[g], Hears(g, q), NEW r \in Roles \cup {None},
           NEW out, Proper(g, out, Any), GameHandles(q, g, r, out)
    PROVE  TypeOK'
  <1>1. g \in Processes
    BY Connections
  <1>2. Fits(wire, Any)
    BY WireTypes DEF TypeOK
  <1>3. Fits(wire', Any)
    BY <1>1, <1>2, HandleTypes DEF GameHandles
  <1>4. DOMAIN wire' = Processes /\ \A p \in Processes : wire'[p] \in [Peers[p] -> Seq(Msgs)]
    BY <1>3, WireTypes
  <1>5. role' \in [Games -> Roles \cup {None}] /\ reloaded' \in BOOLEAN
    BY DEF GameHandles, TypeOK
  <1> QED
    BY <1>4, <1>5 DEF GameHandles, TypeOK, gateVars, centerVars, incidentVars

\* What is saved of a role is a message.
LEMMA SaveMail ==
    ASSUME NEW g \in Games, NEW r \in Roles \cup {None}
    PROVE  Proper(g, Save(r), Any)
  <1>1. g \in Processes
    BY Connections
  <1>2. CASE r # None
    <2>1. [kind |-> "save", ver |-> r.ver] \in Msgs
      BY <1>2, Messages DEF Roles
    <2> QED
      BY <1>1, <2>1, AnyMail DEF Save
  <1>3. CASE r = None
    BY <1>1, <1>3, AnyMail DEF Save
  <1> QED
    BY <1>2, <1>3

LEMMA GameTypes ==
    ASSUME TypeOK, NEW g \in Games, GameStep(g)
    PROVE  TypeOK'
  <1>1. /\ g \in Processes /\ Proper(g, Nothing, Any)
        /\ role[g] \in Roles \cup {None} /\ None \in Roles \cup {None}
        /\ \A q, c : c \in Codes => Proper(g, To(q, UnregMsg(c)), Any)
        /\ \A S, c : c \in Codes => Proper(g, Each(S, UnregMsg(c)), Any)
        /\ \A q : Proper(g, To(q, Say("success")), Any) /\ Proper(g, To(q, Say("load")), Any)
        /\ \A q, t : t \in LoginTypes => Proper(g, To(q, [kind |-> "entered", type |-> t]), Any)
        /\ Fits(wire, Any)
    BY Connections, Messages, AnyMail, WireTypes DEF TypeOK
  <1>2. Proper(g, SaveOf(g), Any)
    BY <1>1, SaveMail DEF SaveOf
  <1>3. \A q \in Peers[g] : Hears(g, q) => Incoming(q, g) \in Msgs
    BY <1>1, HearTypes
  <1>4. /\ "center" \in Peers[g] /\ "db" \in Peers[g] /\ \A a \in Gates : a \in Peers[g]
        /\ g \in Peers["db"] /\ "db" \in Processes
    BY Connections
  <1>5. role[g] # None =>
           /\ \A on \in {"ONLINE", "OFFLINE"} : [role[g] EXCEPT !.on = on] \in Roles
           /\ [role[g] EXCEPT !.type = "none"] \in Roles
           /\ \A a \in Gates :
                [role[g] EXCEPT !.gate = a, !.type = "relogin", !.on = "ONLINE"] \in Roles
           /\ role[g].type \in LoginTypes /\ role[g].ver \in Nat
    BY <1>1 DEF Roles, LoginTypes
  <1>6. ASSUME NEW q \in Peers[g], Hears(g, q), Refuse(q, g)
        PROVE  TypeOK'
    <2>1. Proper(g, SaveOf(g) ++ To("center", UnregMsg("ERROR")) ++ Each(Gates, UnregMsg("ERROR")), Any)
      BY <1>1, <1>2, AnyMail DEF Codes
    <2> QED
      BY <1>1, <1>6, <2>1, GameHandlesTypes DEF Refuse
  <1>7. CASE Hears(g, "center") /\ GameRegs(g)
    <2> DEFINE r == [st |-> "LOADING", gate |-> Incoming("center", g).gate, on |-> "OFFLINE",
                     type |-> Incoming("center", g).type, ver |-> 0]
    <2>1. CASE GameHandles("center", g, r, To("db", Say("load")))
      <3>1. r \in Roles
        BY <1>3, <1>4, <1>7, Carries DEF GameRegs, Roles, LoginTypes
      <3> QED
        BY <1>1, <1>4, <1>7, <2>1, <3>1, GameHandlesTypes
    <2>2. CASE Refuse("center", g)
      BY <1>4, <1>6, <1>7, <2>2
    <2> QED
      BY <1>7, <2>1, <2>2 DEF GameRegs
  <1>8. CASE Hears(g, "center") /\ GameRelogs(g)
    <2> DEFINE m == Incoming("center", g)
               r == [role[g] EXCEPT !.gate = m.gate, !.type = "relogin", !.on = "ONLINE"]
               out == To(m.gate, Say("success"))
                        ++ To("center", [kind |-> "entered", type |-> "relogin"])
    <2>1. CASE role[g] # None /\ GameHandles("center", g, r, out)
      <3>1. r \in Roles
        BY <1>3, <1>4, <1>5, <1>8, <2>1, Carries DEF GameRelogs
      <3>2. Proper(g, out, Any)
        BY <1>1, AnyMail DEF LoginTypes
      <3> QED
        BY <1>1, <1>4, <1>8, <2>1, <3>1, <3>2, GameHandlesTypes
    <2>2. CASE Refuse("center", g)
      BY <1>4, <1>6, <1>8, <2>2
    <2> QED
      BY <1>8, <2>1, <2>2 DEF GameRelogs
  <1>9. CASE Hears(g, "center") /\ GameClears(g)
    BY <1>1, <1>2, <1>4, <1>9, GameHandlesTypes DEF GameClears
  <1>10. CASE Hears(g, "db") /\ GameLoads(g)
    <2> DEFINE m == Incoming("db", g)
               loaded == IF role[g] = None THEN None ELSE
                  [role[g] EXCEPT !.st = "OK", !.on = "ONLINE",
                     !.ver = IF role[g].st = "LOADING" THEN m.ver ELSE role[g].ver]
               entered == To(role[g].gate, Say("success"))
                            ++ To("center", [kind |-> "entered", type |-> role[g].type])
               failed(last) == To(role[g].gate, UnregMsg("ERROR"))
                            ++ To("center", UnregMsg("ERROR")) ++ Save(last)
    <2>1. loaded \in Roles \cup {None}
      <3>1. m.ver \in Nat
        BY <1>3, <1>4, <1>10, Carries DEF GameLoads
      <3> QED
        BY <1>1, <3>1 DEF Roles
    <2>2. CASE GameHandles("db", g, None, Nothing)
      BY <1>1, <1>4, <1>10, <2>2, GameHandlesTypes
    <2>3. CASE role[g] # None /\ GameHandles("db", g, loaded, entered)
      <3>1. Proper(g, entered, Any)
        BY <1>1, <1>5, <2>3, AnyMail
      <3> QED
        BY <1>1, <1>4, <1>10, <2>1, <2>3, <3>1, GameHandlesTypes
    <2>4. CASE \E last \in {role[g], loaded} : GameHandles("db", g, None, failed(last))
      <3>1. PICK last \in {role[g], loaded} : GameHandles("db", g, None, failed(last))
        BY <2>4
      <3>2. Proper(g, Save(last), Any)
        BY <1>1, <2>1, SaveMail
      <3>3. Proper(g, failed(last), Any)
        BY <1>1, <3>2, AnyMail DEF Codes
      <3> QED
        BY <1>1, <1>4, <1>10, <3>1, <3>3, GameHandlesTypes
    <2> QED
      BY <1>10, <2>2, <2>3, <2>4 DEF GameLoads
  <1>11. CASE Hears(g, "db") /\ GameLosesDb(g)
    BY <1>1, <1>4, <1>11, GameHandlesTypes DEF GameLosesDb
  <1>12. ASSUME NEW a \in Gates, Hears(g, a), GameUnregs(a, g)
         PROVE  TypeOK'
    <2>1. CASE GameHandles(a, g, IF role[g] = None THEN None
                             ELSE [role[g] EXCEPT !.on = "OFFLINE"], Nothing)
      <3>1. (IF role[g] = None THEN None ELSE [role[g] EXCEPT !.on = "OFFLINE"]) \in Roles \cup {None}
        BY <1>5
      <3> QED
        BY <1>1, <1>4, <1>12, <2>1, <3>1, GameHandlesTypes
    <2>2. CASE GameHandles(a, g, None, SaveOf(g) ++ To("center", UnregMsg("LOGOUT")))
      <3>1. Proper(g, SaveOf(g) ++ To("center", UnregMsg("LOGOUT")), Any)
        BY <1>1, <1>2, AnyMail DEF Codes
      <3> QED
        BY <1>1, <1>4, <1>12, <2>2, <3>1, GameHandlesTypes
    <2>3. CASE GameHandles(a, g, None, SaveOf(g))
      BY <1>1, <1>2, <1>4, <1>12, <2>3, GameHandlesTypes
    <2> QED
      BY <1>12, <2>1, <2>2, <2>3 DEF GameUnregs
  <1>13. ASSUME NEW a \in Gates, Hears(g, a), GameReady(a, g)
         PROVE  TypeOK'
    <2>1. (IF role[g] = None THEN None ELSE [role[g] EXCEPT !.type = "none"]) \in Roles \cup {None}
      BY <1>5
    <2> QED
      BY <1>1, <1>4, <1>13, <2>1, GameHandlesTypes DEF GameReady
  <1>14. ASSUME NEW a \in Gates, Hears(g, a), GameLosesGate(a, g)
         PROVE  TypeOK'
    BY <1>1, <1>2, <1>4, <1>14, GameHandlesTypes DEF GameLosesGate
  <1>15. CASE Hears("db", g) /\ DbHandles(g)
    <2> DEFINE m == Incoming(g, "db")
               out == IF m.kind = "load" THEN To(g, [kind |-> "record", ver |-> stored]) ELSE Nothing
    <2>1. m \in Msgs /\ stored \in Nat
      BY <1>1, <1>4, <1>15, HearTypes DEF TypeOK
    <2>2. Proper("db", out, Any)
      BY <1>4, <2>1, Messages, AnyMail
    <2>3. Fits(wire', Any)
      BY <1>1, <1>4, <1>15, <2>2, HandleTypes DEF DbHandles
    <2>4. DOMAIN wire' = Processes /\ \A p \in Processes : wire'[p] \in [Peers[p] -> Seq(Msgs)]
      BY <2>3, WireTypes
    <2>5. stored' \in Nat
      BY <1>15, <2>1, Carries DEF DbHandles
    <2> QED
      BY <1>15, <2>4, <2>5 DEF DbHandles, TypeOK, gateVars, centerVars, counters, incidentVars, histories
  <1> QED
    BY <1>7, <1>8, <1>9, <1>10, <1>11, <1>12, <1>13, <1>14, <1>15 DEF GameStep

LEMMA PlayTypes ==
    ASSUME TypeOK, NEW g \in Games, Jump(g) \/ Play(g) \/ Autosave(g)
    PROVE  TypeOK'
  <1>1. /\ g \in Processes /\ role[g] \in Roles \cup {None} /\ Fits(wire, Any)
        /\ Proper(g, SaveOf(g), Any)
        /\ jumps \in Nat /\ faults \in Nat /\ hurries \in Nat /\ MaxIncidents \in Nat
    BY Connections, WireTypes, SaveMail, BoundsAssumption DEF TypeOK, SaveOf
  <1>2. CASE Jump(g)
    <2>1. PICK to \in Games :
             Send(g, SaveOf(g) ++ To(role[g].gate, [kind |-> "cross", to |-> to]))
      BY <1>2 DEF Jump
    <2>2. Proper(g, SaveOf(g) ++ To(role[g].gate, [kind |-> "cross", to |-> to]), Any)
      BY <1>1, Messages, AnyMail
    <2>3. Fits(wire', Any)
      BY <1>1, <2>1, <2>2, SendTypes
    <2>4. DOMAIN wire' = Processes /\ \A p \in Processes : wire'[p] \in [Peers[p] -> Seq(Msgs)]
      BY <2>3, WireTypes
    <2>5. role' \in [Games -> Roles \cup {None}] /\ jumps' \in Nat
          /\ jumps' + faults + hurries <= MaxIncidents
      BY <1>1, <1>2 DEF Jump, TypeOK, MayHappen, MayHurry
    <2> QED
      BY <1>2, <2>4, <2>5 DEF Jump, TypeOK, gateVars, centerVars, histories
  <1>3. CASE Play(g)
    <2>1. role' \in [Games -> Roles \cup {None}]
      <3>1. [role[g] EXCEPT !.ver = @ + 1] \in Roles
        BY <1>1, <1>3 DEF Play, Roles
      <3>2. role' = [role EXCEPT ![g] = [role[g] EXCEPT !.ver = @ + 1]]
        BY <1>3 DEF Play
      <3> QED
        BY <3>1, <3>2 DEF TypeOK
    <2>2. version' \in 0..MaxVer
      BY <1>3, BoundsAssumption DEF Play, MayChange, TypeOK
    <2> QED
      BY <1>3, <2>1, <2>2 DEF Play, TypeOK, gateVars, centerVars, incidentVars, histories
  <1>4. CASE Autosave(g)
    <2>1. Fits(wire', Any)
      BY <1>1, <1>4, SendTypes DEF Autosave
    <2>2. DOMAIN wire' = Processes /\ \A p \in Processes : wire'[p] \in [Peers[p] -> Seq(Msgs)]
      BY <2>1, WireTypes
    <2> QED
      BY <1>4, <2>2 DEF Autosave, TypeOK, gateVars, centerVars, dataVars, counters,
         incidentVars, histories
  <1> QED
    BY <1>2, <1>3, <1>4

\* Faults.
LEMMA BrokenTypes ==
    \A c \in Seq(Msgs) : \A k \in 0..Len(c) : Broken(c, k) \in Seq(Msgs)
  <1>1. Say("closed") \in Msgs
    BY Messages
  <1> QED
    BY <1>1 DEF Broken

LEMMA FaultTypes ==
    ASSUME TypeOK, Fault \/ \E l \in Links \ up : LinkReturns(l)
    PROVE  TypeOK'
  <1>1. /\ Fits(wire, Any) /\ "center" \in Processes
        /\ jumps \in Nat /\ faults \in Nat /\ hurries \in Nat /\ MaxIncidents \in Nat
    BY WireTypes, BoundsAssumption, Connections DEF TypeOK
  <1>2. \A r \in Processes : \A s \in Peers[r] : wire[r][s] \in Seq(Msgs)
    BY DEF TypeOK
  <1>3. CASE CenterLosesDb
    <2>1. Proper("center", Each(Gates \cup Games, Say("kick_all")), Any)
      BY <1>1, Messages, AnyMail
    <2>2. Fits(wire', Any)
      BY <1>1, <1>3, <2>1, SendTypes DEF CenterLosesDb
    <2>3. DOMAIN wire' = Processes /\ \A p \in Processes : wire'[p] \in [Peers[p] -> Seq(Msgs)]
      BY <2>2, WireTypes
    <2>4. faults' \in Nat /\ jumps + faults' + hurries <= MaxIncidents
      BY <1>1, <1>3 DEF CenterLosesDb, MayHappen, MayHurry
    <2> QED
      BY <1>3, <2>3, <2>4 DEF CenterLosesDb, TypeOK, gateVars, dataVars, histories
  <1>4. ASSUME NEW l \in Links, LinkFails(l)
        PROVE  TypeOK'
    <2>1. PICK x \in Processes : \E y \in Peers[x] : l = {x, y}
      BY Ends
    <2>2. PICK y \in Peers[x] : l = {x, y}
      BY <2>1
    <2> DEFINE p == CHOOSE z \in l : TRUE
               q == CHOOSE z \in l : z # p
    <2>3. x # y /\ y \in Processes /\ x \in Peers[y]
      BY Ends
    <2>4. p \in l
      BY <2>2
    <2>5. q \in l /\ q # p
      <3>1. \E z \in l : z # p
        BY <2>2, <2>3, <2>4
      <3> QED
        BY <3>1
    <2>6. p \in Processes /\ q \in Processes /\ q \in Peers[p] /\ p \in Peers[q]
      BY <2>2, <2>3, <2>4, <2>5
    <2>7. \E i \in 0..Len(wire[p][q]), j \in 0..Len(wire[q][p]) :
            wire' = [wire EXCEPT ![p][q] = Broken(wire[p][q], i), ![q][p] = Broken(wire[q][p], j)]
      BY <1>4, <2>5 DEF LinkFails
    <2> HIDE DEF p, q
    <2>8. PICK i \in 0..Len(wire[p][q]), j \in 0..Len(wire[q][p]) :
            wire' = [wire EXCEPT ![p][q] = Broken(wire[p][q], i), ![q][p] = Broken(wire[q][p], j)]
      BY <2>7
    <2>9. Broken(wire[p][q], i) \in Seq(Msgs) /\ Broken(wire[q][p], j) \in Seq(Msgs)
      BY <1>2, <2>6, BrokenTypes
    <2>10. DOMAIN wire' = Processes /\ \A r \in Processes : wire'[r] \in [Peers[r] -> Seq(Msgs)]
      BY <2>5, <2>6, <2>8, <2>9 DEF TypeOK
    <2>11. faults' \in Nat /\ jumps + faults' + hurries <= MaxIncidents
      <3>1. MayHappen /\ faults' = faults + 1
        BY <1>4, Zenon DEF LinkFails
      <3> QED
        BY <1>1, <3>1 DEF MayHappen, MayHurry
    <2>12. up' \subseteq Links
      BY <1>4 DEF LinkFails, TypeOK
    <2> QED
      BY <1>4, <2>10, <2>11, <2>12 DEF LinkFails, TypeOK, gateVars, centerVars, dataVars, histories
  <1>5. ASSUME NEW p \in Gates \cup Games, Crash(p)
        PROVE  TypeOK'
    <2>7. PICK sent \in Cuts(p) :
            wire' = [r \in Processes |-> [s \in Peers[r] |->
                      IF {r, s} \notin up THEN wire[r][s]
                      ELSE IF r = p THEN Broken(wire[r][s], sent[s])
                      ELSE IF s = p THEN <<>> ELSE wire[r][s]]]
      BY <1>5 DEF Crash
    <2>1. ASSUME NEW r \in Processes, NEW s \in Peers[r]
          PROVE  /\ wire[r][s] \in Seq(Msgs) /\ <<>> \in Seq(Msgs)
                 /\ r = p => Broken(wire[r][s], sent[s]) \in Seq(Msgs)
      <3>1. wire[r][s] \in Seq(Msgs)
        BY <1>2
      <3>2. r = p => sent[s] \in 0..Len(wire[r][s])
        BY <2>7, <3>1 DEF Cuts
      <3> QED
        BY <3>1, <3>2, BrokenTypes
    <2> DEFINE c(r, s) == IF {r, s} \notin up THEN wire[r][s]
                ELSE IF r = p THEN Broken(wire[r][s], sent[s])
                ELSE IF s = p THEN <<>> ELSE wire[r][s]
    <2>2. \A r \in Processes : \A s \in Peers[r] : c(r, s) \in Seq(Msgs)
      BY <2>1
    <2>3. wire' = [r \in Processes |-> [s \in Peers[r] |-> c(r, s)]]
      BY <2>7
    <2> HIDE DEF c
    <2>4. DOMAIN wire' = Processes /\ \A r \in Processes : wire'[r] \in [Peers[r] -> Seq(Msgs)]
      BY <2>2, <2>3
    <2>5. faults' \in Nat /\ jumps + faults' + hurries <= MaxIncidents
      BY <1>1, <1>5 DEF Crash, MayHappen, MayHurry
    <2>6. /\ gate' \in [Gates -> {"NONE", "OFFLINE"} \cup GateStates \cup LoginStates]
          /\ listed' \in [Gates -> SUBSET Games] /\ role' \in [Games -> Roles \cup {None}]
          /\ up' \subseteq Links
      BY <1>5 DEF Crash, TypeOK
    <2> QED
      BY <1>5, <2>4, <2>5, <2>6 DEF Crash, TypeOK, centerVars, histories
  <1>6. ASSUME NEW l \in Links \ up, LinkReturns(l)
        PROVE  TypeOK'
    <2>1. <<Say("syn")>> \in Seq(Msgs)
      BY Messages
    <2> DEFINE c(r, s) == IF {r, s} = l /\ r \in Games /\ s = "center" THEN <<Say("syn")>>
                          ELSE wire[r][s]
    <2>2. \A r \in Processes : \A s \in Peers[r] : c(r, s) \in Seq(Msgs)
      BY <1>2, <2>1
    <2>3. wire' = [r \in Processes |-> [s \in Peers[r] |-> c(r, s)]]
      BY <1>6 DEF LinkReturns
    <2> HIDE DEF c
    <2>4. DOMAIN wire' = Processes /\ \A r \in Processes : wire'[r] \in [Peers[r] -> Seq(Msgs)]
      BY <2>2, <2>3
    <2>5. up' \subseteq Links
      BY <1>6 DEF LinkReturns, TypeOK
    <2> QED
      BY <1>6, <2>4, <2>5 DEF LinkReturns, TypeOK, gateVars, centerVars, dataVars, counters,
         incidentVars, histories
  <1> QED
    BY <1>3, <1>4, <1>5, <1>6 DEF Fault

\* Every process starts without the player.
LEMMA InitTypes == Init => TypeOK
  <1> SUFFICES ASSUME Init PROVE TypeOK
    OBVIOUS
  <1>1. DOMAIN wire = Processes /\ \A p \in Processes : wire[p] \in [Peers[p] -> Seq(Msgs)]
    BY DEF Init
  <1>2. /\ gate \in [Gates -> {"NONE", "OFFLINE"} \cup GateStates \cup LoginStates]
        /\ listed \in [Gates -> SUBSET Games] /\ role \in [Games -> Roles \cup {None}]
        /\ user \in Users \cup {None} /\ home \in Games /\ known \subseteq Games /\ up \subseteq Links
        /\ repeated \in BOOLEAN /\ reloaded \in BOOLEAN
    BY DEF Init
  <1>3. /\ stored \in Nat /\ logins \in 0..MaxLogins /\ version \in 0..MaxVer
        /\ jumps \in Nat /\ faults \in Nat /\ hurries \in Nat
        /\ jumps + faults + hurries <= MaxIncidents
    BY BoundsAssumption DEF Init
  <1> QED
    BY <1>1, <1>2, <1>3 DEF TypeOK

LEMMA NextTypes ==
    ASSUME TypeOK, [Next]_vars
    PROVE  TypeOK'
  <1>1. CASE Next
    BY <1>1, PlayerTypes, GateTypes, CenterTypes, GameTypes, PlayTypes, FaultTypes DEF Next
  <1>2. CASE UNCHANGED vars
    BY <1>2 DEF TypeOK, vars, gateVars, centerVars, dataVars, counters, incidentVars, histories
  <1> QED
    BY <1>1, <1>2

\* The states of gates, center, games and database keep their types, and no
\* process hears anything but the messages that the handlers know.
THEOREM ClusterTypes == Spec => []TypeOK
  BY InitTypes, NextTypes, PTL DEF Spec

----------------------------------------------------------------------------
(* Without jumps and faults the player stays at home: one game knows it.   *)

Calm == jumps = 0 /\ faults = 0

\* What p then says to q when the player's game is h.
Says(h, p, q, m) ==
    \/ p \in Gates /\ q = "center" /\ m.kind \in {"reg", "unreg"}
    \/ p \in Gates /\ q = h /\ m.kind \in {"unreg", "ready"}
    \/ p = "center" /\ q \in Gates /\ m.kind = "unreg"
    \/ p = "center" /\ q = h /\ m.kind \in {"relogin", "unreg", "reg_scene"}
         /\ (m.kind = "reg_scene" => m.type = "login")
    \/ p = h /\ q \in Gates /\ m.kind \in {"success", "unreg"}
    \/ p = h /\ q = "center" /\ m.kind \in {"entered", "unreg"}
         /\ (m.kind = "entered" => m.type # "jump")
    \/ p = h /\ q = "db" /\ m.kind \in {"save", "load"}
    \/ p = "db" /\ q = h /\ m.kind = "record"

Said(h) == [p \in Processes |-> [q \in Processes |-> {m \in Msgs : Says(h, p, q, m)}]]

AtHome ==
    /\ known = Games /\ up = Links
    /\ user # None => user.game = home
    /\ \A a \in Gates : listed[a] \subseteq {home}
    /\ \A g \in Games : role[g] # None => g = home /\ role[g].type # "jump"
    /\ Fits(wire, Said(home))

\* What each process says, one by one.
LEMMA WhoSays ==
    ASSUME NEW h \in Games, NEW m
    PROVE  /\ \A a \in Gates : Says(h, a, "center", m) <=> m.kind \in {"reg", "unreg"}
           /\ \A a \in Gates, g \in Games :
                Says(h, a, g, m) <=> g = h /\ m.kind \in {"unreg", "ready"}
           /\ \A a \in Gates : Says(h, "center", a, m) <=> m.kind = "unreg"
           /\ \A g \in Games : Says(h, "center", g, m) <=>
                /\ g = h /\ m.kind \in {"relogin", "unreg", "reg_scene"}
                /\ m.kind = "reg_scene" => m.type = "login"
           /\ \A g \in Games, a \in Gates :
                Says(h, g, a, m) <=> g = h /\ m.kind \in {"success", "unreg"}
           /\ \A g \in Games : Says(h, g, "center", m) <=>
                /\ g = h /\ m.kind \in {"entered", "unreg"}
                /\ m.kind = "entered" => m.type # "jump"
           /\ \A g \in Games : Says(h, g, "db", m) <=> g = h /\ m.kind \in {"save", "load"}
           /\ \A g \in Games : Says(h, "db", g, m) <=> g = h /\ m.kind = "record"
  BY Connections DEF Says

LEMMA SaidThen ==
    \A p, q \in Processes : Said(home)[p][q] = {m \in Msgs : Says(home, p, q, m)}
  BY DEF Said

\* What is heard was said.
LEMMA HeardSaid ==
    ASSUME AtHome, NEW p \in Processes, NEW q \in Peers[p], Hears(p, q)
    PROVE  Incoming(q, p) \in Msgs /\ Says(home, q, p, Incoming(q, p))
  <1>1. q \in Processes /\ p \in Peers[q]
    BY Ends
  <1>2. wire[q][p] \in Seq(Said(home)[q][p]) /\ wire[q][p] # <<>>
    BY <1>1 DEF AtHome, Fits, Hears
  <1>3. Incoming(q, p) \in Said(home)[q][p]
    BY <1>2, SeqStep DEF Incoming
  <1> QED
    BY <1>1, <1>3, SaidThen

\* Mail at home.
LEMMA HomeMail ==
    ASSUME NEW p \in Processes
    PROVE  /\ Proper(p, Nothing, Said(home))
           /\ \A S, m : m \in Msgs /\ (\A q \in S \cap Peers[p] : Says(home, p, q, m))
                => Proper(p, Each(S, m), Said(home))
           /\ \A q, m : m \in Msgs /\ (q \in Peers[p] => Says(home, p, q, m))
                => Proper(p, To(q, m), Said(home))
           /\ \A out1, out2 : Proper(p, out1, Said(home)) /\ Proper(p, out2, Said(home))
                => Proper(p, out1 ++ out2, Said(home))
  <1>1. \A q \in Peers[p] : \A m : m \in Said(home)[p][q] <=> m \in Msgs /\ Says(home, p, q, m)
    BY SaidThen, Ends
  <1> QED
    BY <1>1, MailProper

\* A process handles a message, or sends, and the wire stays as it is at home.
LEMMA HandleHome ==
    ASSUME AtHome, NEW p \in Processes, NEW q \in Peers[p], NEW out, Hears(p, q),
           Handle(q, p, out), Proper(p, out, Said(home)), home' = home
    PROVE  Fits(wire', Said(home'))
  BY HandleChannels DEF AtHome

LEMMA SendHome ==
    ASSUME AtHome, NEW p \in Processes, NEW out,
           Send(p, out), Proper(p, out, Said(home)), home' = home
    PROVE  Fits(wire', Said(home'))
  BY PostFits DEF AtHome, Send

\* The player and the gates.
LEMMA UnregHome ==
    ASSUME TypeOK, AtHome, NEW a \in Gates, NEW code \in Codes, NEW out \in Unregs(a, code)
    PROVE  Proper(a, out, Said(home))
  <1>1. a \in Processes /\ UnregMsg(code) \in Msgs /\ UnregMsg(code).kind = "unreg" /\ home \in Games
    BY Connections, Messages DEF UnregMsg, TypeOK
  <1>2. \A q \in listed[a] \cup {"center"} : Says(home, a, q, UnregMsg(code))
    BY <1>1, WhoSays DEF AtHome
  <1>3. /\ Proper(a, To("center", UnregMsg(code)), Said(home))
        /\ Proper(a, Nothing, Said(home))
        /\ \A g \in listed[a] : Proper(a, To(g, UnregMsg(code)), Said(home))
    BY <1>1, <1>2, HomeMail
  <1>4. \/ out = To("center", UnregMsg(code))
        \/ \E g \in listed[a] :
             out = To(g, UnregMsg(code))
                     ++ (IF code # "LOGOUT" THEN To("center", UnregMsg(code)) ELSE Nothing)
    BY DEF Unregs
  <1> QED
    BY <1>1, <1>3, <1>4, HomeMail

LEMMA PlayerHome ==
    ASSUME TypeOK, AtHome, NEW a \in Gates, PlayerStep(a)
    PROVE  AtHome' /\ UNCHANGED <<home, role, stored, version, reloaded>>
           /\ \E out : Send(a, out)
  <1>1. a \in Processes /\ home \in Games /\ Proper(a, Nothing, Said(home))
    BY Connections, HomeMail DEF TypeOK
  <1>2. \A c \in Codes : \A out \in Unregs(a, c) : Proper(a, out, Said(home))
    BY UnregHome
  <1>3. ASSUME NEW st, NEW out, Proper(a, out, Said(home)), GateMoves(a, st, out),
               \A b \in Gates : listed'[b] \subseteq listed[b]
        PROVE  AtHome' /\ UNCHANGED <<home, role, stored, version, reloaded>> /\ Send(a, out)
    <2>1. UNCHANGED <<user, home, known, role, stored, version, reloaded, up>> /\ Send(a, out)
      BY <1>3 DEF GateMoves, centerVars, dataVars
    <2>2. Fits(wire', Said(home'))
      BY <1>1, <1>3, <2>1, SendHome
    <2> QED
      BY <1>3, <2>1, <2>2 DEF AtHome
  <1>4. \A b \in Gates : listed[b] \subseteq listed[b] /\ [listed EXCEPT ![a] = {}][b] \subseteq listed[b]
    BY DEF TypeOK
  <1>5. \E st, out : /\ GateMoves(a, st, out) /\ Proper(a, out, Said(home))
                     /\ \A b \in Gates : listed'[b] \subseteq listed[b]
    <2>1. CASE Arrive(a)
      <3>1. \E st : GateMoves(a, st, Nothing)
        BY <2>1 DEF Arrive
      <3> QED
        BY <1>1, <1>4, <2>1, <3>1 DEF Arrive
    <2>2. CASE LoginGame(a)
      <3>1. Proper(a, To("center", Say("reg")), Said(home))
        <4>1. Say("reg") \in Msgs /\ Say("reg").kind = "reg"
          BY Messages DEF Say
        <4> QED
          BY <1>1, <4>1, WhoSays, HomeMail
      <3> QED
        BY <1>4, <2>2, <3>1 DEF LoginGame
    <2>3. CASE Ready(a)
      <3>1. PICK g \in listed[a] : GateMoves(a, "SCENE", To(g, Say("ready")))
        BY <2>3 DEF Ready
      <3>2. Proper(a, To(g, Say("ready")), Said(home))
        <4>1. Say("ready") \in Msgs /\ Say("ready").kind = "ready" /\ g = home
          BY Messages DEF Say, AtHome
        <4> QED
          BY <1>1, <4>1, WhoSays, HomeMail
      <3> QED
        BY <1>4, <2>3, <3>1, <3>2 DEF Ready
    <2>4. CASE Leave(a)
      <3>1. CASE GateDrops(a, Nothing)
        BY <1>1, <1>4, <3>1 DEF GateDrops
      <3>2. CASE UNCHANGED listed /\ \E out \in Unregs(a, "OFFLINE") \cup {Nothing} :
                                       GateMoves(a, "OFFLINE", out)
        BY <1>1, <1>2, <1>4, <3>2 DEF Codes
      <3> QED
        BY <2>4, <3>1, <3>2 DEF Leave
    <2>5. CASE Expire(a)
      BY <1>2, <1>4, <2>5 DEF Expire, GateDrops, Codes
    <2>6. CASE MsgBomb(a)
      BY <1>1, <1>2, <1>4, <2>6 DEF MsgBomb, GateDrops, Codes
    <2> QED
      BY <2>1, <2>2, <2>3, <2>4, <2>5, <2>6 DEF PlayerStep
  <1> QED
    BY <1>3, <1>5

LEMMA GateHome ==
    ASSUME TypeOK, AtHome, NEW a \in Gates, GateStep(a)
    PROVE  AtHome' /\ UNCHANGED <<home, role, stored, version, reloaded>>
           /\ \E q \in Peers[a] : \E out : Hears(a, q) /\ Handle(q, a, out)
  <1>1. a \in Processes /\ home \in Games /\ Proper(a, Nothing, Said(home))
        /\ listed[a] \subseteq {home} /\ {} \subseteq {home}
    BY Connections, HomeMail DEF TypeOK, AtHome
  <1>2. ASSUME NEW q \in Peers[a], Hears(a, q), NEW st, NEW lst, lst \subseteq {home}, NEW out,
               Proper(a, out, Said(home)), GateHandles(q, a, st, lst, out)
        PROVE  AtHome' /\ UNCHANGED <<home, role, stored, version, reloaded>>
               /\ \E x \in Peers[a] : \E o : Hears(a, x) /\ Handle(x, a, o)
    <2>1. UNCHANGED <<user, home, known, role, stored, version, reloaded, up>> /\ Handle(q, a, out)
      BY <1>2 DEF GateHandles, centerVars, dataVars, counters, histories
    <2>2. Fits(wire', Said(home'))
      BY <1>1, <1>2, <2>1, HandleHome
    <2>3. \A b \in Gates : listed'[b] \subseteq {home}
      BY <1>2 DEF GateHandles, AtHome, TypeOK
    <2> QED
      BY <1>2, <2>1, <2>2, <2>3 DEF AtHome
  <1>3. ASSUME NEW q \in Peers[a], Hears(a, q)
        PROVE  Says(home, q, a, Incoming(q, a)) /\ Incoming(q, a) \in Msgs
    BY <1>1, <1>3, HeardSaid
  <1>4. "center" \in Peers[a] /\ \A g \in Games : g \in Peers[a]
    BY Connections
  <1>5. ASSUME NEW q \in Peers[a], Hears(a, q), GateHearsError(q, a)
        PROVE  \E st, lst, out : /\ lst \subseteq {home} /\ Proper(a, out, Said(home))
                                 /\ GateHandles(q, a, st, lst, out)
    BY <1>1, <1>5 DEF GateHearsError
  <1>6. ~(Hears(a, "center") /\ GateCleared(a))
    BY <1>1, <1>3, <1>4, WhoSays DEF GateCleared
  <1>7. ASSUME NEW g \in Games, Hears(a, g)
        PROVE  ~GateHearsCross(g, a) /\ ~GateLosesGame(g, a)
    BY <1>1, <1>3, <1>4, <1>7, WhoSays DEF GateHearsCross, GateLosesGame
  <1>8. ASSUME NEW g \in Games, Hears(a, g), GateHearsSuccess(g, a)
        PROVE  \E st, lst, out : /\ lst \subseteq {home} /\ Proper(a, out, Said(home))
                                 /\ GateHandles(g, a, st, lst, out)
    <2>1. g = home
      BY <1>1, <1>3, <1>4, <1>8, WhoSays
    <2>2. listed[a] \cup {g} \subseteq {home}
      BY <1>1, <2>1
    <2>3. \A out \in Unregs(a, "OFFLINE") : Proper(a, out, Said(home))
      BY UnregHome DEF Codes
    <2>4. Proper(a, To("center", UnregMsg("ERROR")) ++ To(g, UnregMsg("ERROR")), Said(home))
      <3>1. UnregMsg("ERROR") \in Msgs /\ UnregMsg("ERROR").kind = "unreg"
        BY Messages DEF UnregMsg, Codes
      <3>2. Says(home, a, "center", UnregMsg("ERROR")) /\ Says(home, a, g, UnregMsg("ERROR"))
        BY <1>1, <2>1, <3>1, WhoSays
      <3> QED
        BY <1>1, <3>1, <3>2, HomeMail
    <2> QED
      BY <1>1, <1>8, <2>2, <2>3, <2>4 DEF GateHearsSuccess
  <1> QED
    BY <1>2, <1>4, <1>5, <1>6, <1>7, <1>8 DEF GateStep

\* Center sends the player nowhere else.
LEMMA CenterHome ==
    ASSUME TypeOK, AtHome, CenterStep
    PROVE  AtHome' /\ UNCHANGED <<home, role, stored, version, reloaded>>
           /\ \E q \in Peers["center"] : \E out : Hears("center", q) /\ Handle(q, "center", out)
  <1>1. "center" \in Processes /\ home \in Games /\ Proper("center", Nothing, Said(home))
        /\ known = Games /\ (user # None => user.game = home /\ user \in Users)
    BY Connections, HomeMail DEF TypeOK, AtHome
  <1>2. ASSUME NEW q \in Peers["center"], Hears("center", q), NEW u,
               u # None => u.game = home, NEW out, Proper("center", out, Said(home)),
               CenterHandles(q, u, home, known, out)
        PROVE  AtHome' /\ UNCHANGED <<home, role, stored, version, reloaded>>
               /\ \E x \in Peers["center"] : \E o : Hears("center", x) /\ Handle(x, "center", o)
    <2>1. UNCHANGED <<listed, home, known, role, stored, version, reloaded, up>>
          /\ user' = u /\ Handle(q, "center", out)
      BY <1>2 DEF CenterHandles, gateVars, dataVars, counters, histories
    <2>2. Fits(wire', Said(home'))
      BY <1>1, <1>2, <2>1, HandleHome
    <2> QED
      BY <1>2, <2>1, <2>2 DEF AtHome
  <1>3. ASSUME NEW q \in Peers["center"], Hears("center", q)
        PROVE  Says(home, q, "center", Incoming(q, "center")) /\ Incoming(q, "center") \in Msgs
    BY <1>1, <1>3, HeardSaid
  <1>4. \A q \in Gates \cup Games : q \in Peers["center"]
    BY Connections
  <1>5. UnregMsg("ERROR") \in Msgs /\ UnregMsg("ERROR").kind = "unreg"
    BY Messages DEF UnregMsg, Codes
  <1>6. /\ \A a \in Gates : Says(home, "center", a, UnregMsg("ERROR"))
        /\ Says(home, "center", home, UnregMsg("ERROR"))
    BY <1>1, <1>5, WhoSays
  <1>7. ASSUME NEW a \in Gates, Hears("center", a), CenterRegs(a)
        PROVE  \E u, out : /\ u # None => u.game = home
                           /\ Proper("center", out, Said(home)) /\ CenterHandles(a, u, home, known, out)
    <2>1. CASE user # None /\ CenterHandles(a, user, home, known,
                 To(user.game, [kind |-> "relogin", gate |-> a]))
      <3>1. Says(home, "center", home, [kind |-> "relogin", gate |-> a])
        BY <1>1, WhoSays
      <3>2. Proper("center", To(user.game, [kind |-> "relogin", gate |-> a]), Said(home))
        BY <1>1, <2>1, <3>1, Messages, HomeMail
      <3> QED
        BY <1>1, <2>1, <3>2
    <2>2. CASE user # None /\ CenterHandles(a, None, home, known,
                 To(a, UnregMsg("ERROR")) ++ To(user.game, UnregMsg("ERROR")))
      <3>1. Proper("center", To(a, UnregMsg("ERROR")) ++ To(user.game, UnregMsg("ERROR")), Said(home))
        BY <1>1, <1>5, <1>6, <2>2, HomeMail
      <3> QED
        BY <2>2, <3>1
    <2>3. CASE \E g \in LoginScenes :
                 CenterHandles(a, [gate |-> a, game |-> g, on |-> "LOGOUT"], g, known,
                   To(g, [kind |-> "reg_scene", gate |-> a, type |-> "login"]))
      <3>1. LoginScenes = {home}
        BY <1>1 DEF LoginScenes
      <3>2. CenterHandles(a, [gate |-> a, game |-> home, on |-> "LOGOUT"], home, known,
                   To(home, [kind |-> "reg_scene", gate |-> a, type |-> "login"]))
        BY <2>3, <3>1
      <3>3. Says(home, "center", home, [kind |-> "reg_scene", gate |-> a, type |-> "login"])
        BY <1>1, WhoSays
      <3>4. Proper("center", To(home, [kind |-> "reg_scene", gate |-> a, type |-> "login"]), Said(home))
        BY <1>1, <3>3, Messages, HomeMail
      <3> QED
        BY <3>2, <3>4
    <2>4. CASE CenterHandles(a, None, home, known, To(a, UnregMsg("ERROR")))
      <3>1. Proper("center", To(a, UnregMsg("ERROR")), Said(home))
        BY <1>1, <1>5, <1>6, HomeMail
      <3> QED
        BY <2>4, <3>1
    <2> QED
      BY <1>7, <2>1, <2>2, <2>3, <2>4 DEF CenterRegs
  <1>8. ASSUME NEW q \in Gates \cup Games, Hears("center", q), CenterUnregs(q)
        PROVE  \E u, out : /\ u # None => u.game = home
                           /\ Proper("center", out, Said(home)) /\ CenterHandles(q, u, home, known, out)
    <2>1. user # None => [user EXCEPT !.on = "OFFLINE"].game = home
      BY <1>1 DEF Users
    <2> QED
      BY <1>1, <1>8, <2>1 DEF CenterUnregs
  <1>9. ASSUME NEW g \in Games, Hears("center", g), CenterEntered(g)
        PROVE  \E u, out : /\ u # None => u.game = home
                           /\ Proper("center", out, Said(home)) /\ CenterHandles(g, u, home, known, out)
    <2>1. g = home /\ Incoming(g, "center").type # "jump"
      BY <1>1, <1>3, <1>4, <1>9, WhoSays DEF CenterEntered
    <2>2. user # None => [user EXCEPT !.on = "ONLINE"].game = home
      BY <1>1 DEF Users
    <2>3. Proper("center", Each(Gates, UnregMsg("ERROR")) ++ To(g, UnregMsg("ERROR")), Said(home))
      BY <1>1, <1>5, <1>6, <2>1, HomeMail
    <2> QED
      BY <1>1, <1>9, <2>1, <2>2, <2>3 DEF CenterEntered
  <1>10. ASSUME NEW a \in Gates, Hears("center", a)
         PROVE  ~CenterCrosses(a) /\ ~CenterLosesGate(a)
    BY <1>1, <1>3, <1>4, <1>10, WhoSays DEF CenterCrosses, CenterLosesGate
  <1>11. ASSUME NEW g \in Games, Hears("center", g)
         PROVE  ~CenterLosesGame(g) /\ ~CenterLearns(g)
    BY <1>1, <1>3, <1>4, <1>11, WhoSays DEF CenterLosesGame, CenterLearns
  <1> QED
    BY <1>2, <1>4, <1>7, <1>8, <1>9, <1>10, <1>11 DEF CenterStep

\* The games and the database.
LEMMA GameHandlesHome ==
    ASSUME TypeOK, AtHome, NEW g \in Games, g = home, NEW q \in Peers[g], Hears(g, q),
           NEW r, r # None => r.type # "jump", NEW out, Proper(g, out, Said(home)),
           GameHandles(q, g, r, out)
    PROVE  AtHome'
  <1>1. g \in Processes
    BY Connections
  <1>2. UNCHANGED <<user, home, known, listed, up>> /\ Handle(q, g, out)
    BY DEF GameHandles, gateVars, centerVars
  <1>3. Fits(wire', Said(home'))
    BY <1>1, <1>2, HandleHome
  <1>4. \A h \in Games : role'[h] # None => h = home /\ role'[h].type # "jump"
    BY DEF GameHandles, AtHome, TypeOK
  <1> QED
    BY <1>2, <1>3, <1>4 DEF AtHome

\* Only the player's game hears anything, and this is what it may hear.
LEMMA OnlyHome ==
    ASSUME TypeOK, AtHome, NEW g \in Games
    PROVE  /\ \A q \in Peers[g] : Hears(g, q) => g = home /\ Incoming(q, g) \in Msgs
           /\ Hears(g, "center") =>
                /\ Incoming("center", g).kind \in {"relogin", "unreg", "reg_scene"}
                /\ Incoming("center", g).kind = "reg_scene" => Incoming("center", g).type = "login"
           /\ Hears(g, "db") => Incoming("db", g).kind = "record"
           /\ \A a \in Gates : Hears(g, a) => Incoming(a, g).kind \in {"unreg", "ready"}
           /\ Hears("db", g) => g = home /\ Incoming(g, "db").kind \in {"save", "load"}
  <1>1. /\ g \in Processes /\ "db" \in Processes /\ home \in Games /\ g \in Peers["db"]
        /\ Peers[g] = Gates \cup {"center", "db"}
    BY Connections DEF TypeOK
  <1>2. \A q \in Peers[g] : Hears(g, q) => Incoming(q, g) \in Msgs /\ Says(home, q, g, Incoming(q, g))
    BY <1>1, HeardSaid
  <1>3. Hears("db", g) => g = home /\ Incoming(g, "db").kind \in {"save", "load"}
    BY <1>1, HeardSaid, WhoSays
  <1>4. Hears(g, "center") =>
           /\ g = home
           /\ Incoming("center", g).kind \in {"relogin", "unreg", "reg_scene"}
           /\ Incoming("center", g).kind = "reg_scene" => Incoming("center", g).type = "login"
    BY <1>1, <1>2, WhoSays
  <1>5. Hears(g, "db") => g = home /\ Incoming("db", g).kind = "record"
    BY <1>1, <1>2, WhoSays
  <1>6. \A a \in Gates : Hears(g, a) => g = home /\ Incoming(a, g).kind \in {"unreg", "ready"}
    BY <1>1, <1>2, WhoSays
  <1>7. ASSUME NEW q \in Peers[g], Hears(g, q)
        PROVE  g = home /\ Incoming(q, g) \in Msgs
    <2>1. q \in Gates \/ q = "center" \/ q = "db"
      BY <1>1
    <2> QED
      BY <1>2, <1>4, <1>5, <1>6, <1>7, <2>1
  <1> QED
    BY <1>3, <1>4, <1>5, <1>6, <1>7

LEMMA GameHome ==
    ASSUME TypeOK, AtHome, NEW g \in Games, GameStep(g)
    PROVE  AtHome' /\ UNCHANGED <<home, version>>
  <1>1. /\ g \in Processes /\ "db" \in Processes /\ home \in Games
        /\ "center" \in Peers[g] /\ "db" \in Peers[g] /\ g \in Peers["db"]
        /\ \A a \in Gates : a \in Peers[g]
        /\ role[g] \in Roles \cup {None} /\ (role[g] # None => role[g].type # "jump")
        /\ Proper(g, Nothing, Said(home))
    BY Connections, HomeMail DEF TypeOK, AtHome
  <1>2. ASSUME g = home
        PROVE  /\ Proper(g, To("db", Say("load")), Said(home))
               /\ \A r \in Roles \cup {None} : Proper(g, Save(r), Said(home))
               /\ \A c \in Codes : Proper(g, To("center", UnregMsg(c)), Said(home))
               /\ \A c \in Codes : Proper(g, Each(Gates, UnregMsg(c)), Said(home))
               /\ \A c \in Codes, a \in Gates : Proper(g, To(a, UnregMsg(c)), Said(home))
               /\ \A a \in Gates : Proper(g, To(a, Say("success")), Said(home))
               /\ \A t \in LoginTypes \ {"jump"} :
                    Proper(g, To("center", [kind |-> "entered", type |-> t]), Said(home))
    <2>1. /\ \A a \in Gates : Says(home, g, a, Say("success"))
          /\ \A a \in Gates, c \in Codes : Says(home, g, a, UnregMsg(c))
          /\ \A c \in Codes : Says(home, g, "center", UnregMsg(c))
          /\ \A t \in LoginTypes \ {"jump"} : Says(home, g, "center", [kind |-> "entered", type |-> t])
          /\ Says(home, g, "db", Say("load"))
          /\ \A v \in Nat : Says(home, g, "db", [kind |-> "save", ver |-> v])
      BY <1>1, <1>2, WhoSays DEF Say, UnregMsg
    <2>2. \A r \in Roles \cup {None} : Proper(g, Save(r), Said(home))
      <3> TAKE r \in Roles \cup {None}
      <3>1. CASE r # None
        <4>1. r.ver \in Nat
          BY <3>1 DEF Roles
        <4>2. Proper(g, To("db", [kind |-> "save", ver |-> r.ver]), Said(home))
          BY <1>1, <2>1, <4>1, Messages, HomeMail
        <4> QED
          BY <1>1, <4>2 DEF Save
      <3>2. CASE r = None
        BY <1>1, <3>2 DEF Save
      <3> QED
        BY <3>1, <3>2
    <2> QED
      BY <1>1, <2>1, <2>2, Messages, HomeMail
  <1>3. ASSUME NEW q \in Peers[g], Hears(g, q), NEW r, r # None => r.type # "jump", NEW out,
               g = home => Proper(g, out, Said(home)), GameHandles(q, g, r, out)
        PROVE  AtHome' /\ UNCHANGED <<home, version>>
    <2>1. g = home /\ UNCHANGED <<home, version>>
      BY <1>3, OnlyHome DEF GameHandles, centerVars
    <2> QED
      BY <1>3, <2>1, GameHandlesHome
  <1>4. g = home => Proper(g, SaveOf(g), Said(home))
    BY <1>1, <1>2 DEF SaveOf
  <1>5. ASSUME NEW q \in Peers[g], Hears(g, q), Refuse(q, g)
        PROVE  AtHome' /\ UNCHANGED <<home, version>>
    <2>1. g = home => Proper(g, SaveOf(g) ++ To("center", UnregMsg("ERROR"))
                                  ++ Each(Gates, UnregMsg("ERROR")), Said(home))
      BY <1>1, <1>2, <1>4, HomeMail DEF Codes
    <2> QED
      BY <1>3, <1>5, <2>1 DEF Refuse
  <1>6. CASE Hears(g, "center") /\ GameRegs(g)
    <2> DEFINE r == [st |-> "LOADING", gate |-> Incoming("center", g).gate, on |-> "OFFLINE",
                     type |-> Incoming("center", g).type, ver |-> 0]
    <2>1. CASE GameHandles("center", g, r, To("db", Say("load")))
      <3>1. r.type # "jump"
        BY <1>6, OnlyHome DEF GameRegs
      <3> QED
        BY <1>1, <1>2, <1>3, <1>6, <2>1, <3>1
    <2>2. CASE Refuse("center", g)
      BY <1>1, <1>5, <1>6, <2>2
    <2> QED
      BY <1>6, <2>1, <2>2 DEF GameRegs
  <1>7. CASE Hears(g, "center") /\ GameRelogs(g)
    <2> DEFINE m == Incoming("center", g)
               r == [role[g] EXCEPT !.gate = m.gate, !.type = "relogin", !.on = "ONLINE"]
               out == To(m.gate, Say("success"))
                        ++ To("center", [kind |-> "entered", type |-> "relogin"])
    <2>1. CASE role[g] # None /\ GameHandles("center", g, r, out)
      <3>1. r.type # "jump"
        BY <1>1, <2>1 DEF Roles
      <3>2. m.gate \in Gates
        BY <1>1, <1>7, OnlyHome, Carries DEF GameRelogs
      <3>3. g = home => Proper(g, out, Said(home))
        BY <1>1, <1>2, <3>2, HomeMail DEF LoginTypes
      <3> QED
        BY <1>1, <1>3, <1>7, <2>1, <3>1, <3>3
    <2>2. CASE Refuse("center", g)
      BY <1>1, <1>5, <1>7, <2>2
    <2> QED
      BY <1>7, <2>1, <2>2 DEF GameRelogs
  <1>8. CASE Hears(g, "center") /\ GameClears(g)
    BY <1>1, <1>3, <1>4, <1>8 DEF GameClears
  <1>9. CASE Hears(g, "db") /\ GameLoads(g)
    <2> DEFINE m == Incoming("db", g)
               loaded == IF role[g] = None THEN None ELSE
                  [role[g] EXCEPT !.st = "OK", !.on = "ONLINE",
                     !.ver = IF role[g].st = "LOADING" THEN m.ver ELSE role[g].ver]
               entered == To(role[g].gate, Say("success"))
                            ++ To("center", [kind |-> "entered", type |-> role[g].type])
               failed(last) == To(role[g].gate, UnregMsg("ERROR"))
                            ++ To("center", UnregMsg("ERROR")) ++ Save(last)
    <2>1. loaded \in Roles \cup {None} /\ (loaded # None => loaded.type # "jump")
      <3>1. m.ver \in Nat
        BY <1>1, <1>9, OnlyHome, Carries DEF GameLoads
      <3> QED
        BY <1>1, <3>1 DEF Roles
    <2>2. CASE GameHandles("db", g, None, Nothing)
      BY <1>1, <1>3, <1>9, <2>2
    <2>3. CASE role[g] # None /\ GameHandles("db", g, loaded, entered)
      <3>1. role[g].gate \in Gates /\ role[g].type \in LoginTypes \ {"jump"}
        BY <1>1, <2>3 DEF Roles
      <3>2. g = home => Proper(g, entered, Said(home))
        BY <1>1, <1>2, <3>1, HomeMail
      <3> QED
        BY <1>1, <1>3, <1>9, <2>1, <2>3, <3>2
    <2>4. CASE role[g] # None /\ \E last \in {role[g], loaded} : GameHandles("db", g, None, failed(last))
      <3>1. PICK last \in {role[g], loaded} : GameHandles("db", g, None, failed(last))
        BY <2>4
      <3>2. role[g].gate \in Gates /\ last \in Roles \cup {None}
        BY <1>1, <2>1, <2>4 DEF Roles
      <3>3. g = home => Proper(g, failed(last), Said(home))
        BY <1>1, <1>2, <3>2, HomeMail DEF Codes
      <3> QED
        BY <1>1, <1>3, <1>9, <3>1, <3>3
    <2> QED
      BY <1>9, <2>2, <2>3, <2>4 DEF GameLoads
  <1>10. ~(Hears(g, "db") /\ GameLosesDb(g))
    BY OnlyHome DEF GameLosesDb
  <1>11. ASSUME NEW a \in Gates, Hears(g, a), GameUnregs(a, g)
         PROVE  AtHome' /\ UNCHANGED <<home, version>>
    <2>1. CASE GameHandles(a, g, IF role[g] = None THEN None
                             ELSE [role[g] EXCEPT !.on = "OFFLINE"], Nothing)
      <3>1. role[g] # None => [role[g] EXCEPT !.on = "OFFLINE"].type # "jump"
        BY <1>1 DEF Roles
      <3> QED
        BY <1>1, <1>3, <1>11, <2>1, <3>1
    <2>2. CASE GameHandles(a, g, None, SaveOf(g) ++ To("center", UnregMsg("LOGOUT")))
      <3>1. g = home => Proper(g, SaveOf(g) ++ To("center", UnregMsg("LOGOUT")), Said(home))
        BY <1>1, <1>2, <1>4, HomeMail DEF Codes
      <3> QED
        BY <1>1, <1>3, <1>11, <2>2, <3>1
    <2>3. CASE GameHandles(a, g, None, SaveOf(g))
      BY <1>1, <1>3, <1>4, <1>11, <2>3
    <2> QED
      BY <1>11, <2>1, <2>2, <2>3 DEF GameUnregs
  <1>12. ASSUME NEW a \in Gates, Hears(g, a), GameReady(a, g)
         PROVE  AtHome' /\ UNCHANGED <<home, version>>
    <2>1. role[g] # None => [role[g] EXCEPT !.type = "none"].type # "jump"
      BY <1>1 DEF Roles
    <2> QED
      BY <1>1, <1>3, <1>12, <2>1 DEF GameReady
  <1>13. ASSUME NEW a \in Gates, Hears(g, a)
         PROVE  ~GameLosesGate(a, g)
    BY <1>13, OnlyHome DEF GameLosesGate
  <1>14. CASE Hears("db", g) /\ DbHandles(g)
    <2> DEFINE m == Incoming(g, "db")
               out == IF m.kind = "load" THEN To(g, [kind |-> "record", ver |-> stored]) ELSE Nothing
    <2>1. g = home /\ UNCHANGED <<user, home, known, listed, role, up, version>>
      BY <1>14, OnlyHome DEF DbHandles, gateVars, centerVars, counters
    <2>2. Proper("db", out, Said(home))
      <3>1. [kind |-> "record", ver |-> stored] \in Msgs
        BY Messages DEF TypeOK
      <3>2. Says(home, "db", g, [kind |-> "record", ver |-> stored])
        BY <1>1, <2>1, WhoSays
      <3> QED
        BY <1>1, <3>1, <3>2, HomeMail
    <2>3. Handle(g, "db", out)
      BY <1>14 DEF DbHandles
    <2>4. Fits(wire', Said(home'))
      BY <1>1, <1>14, <2>1, <2>2, <2>3, HandleHome
    <2> QED
      BY <2>1, <2>4 DEF AtHome
  <1> QED
    BY <1>6, <1>7, <1>8, <1>9, <1>10, <1>11, <1>12, <1>13, <1>14 DEF GameStep

LEMMA PlayHome ==
    ASSUME TypeOK, AtHome, NEW g \in Games, Play(g) \/ Autosave(g)
    PROVE  AtHome' /\ home' = home
  <1>1. g \in Processes /\ home \in Games
    BY Connections DEF TypeOK
  <1>2. CASE Play(g)
    <2>1. UNCHANGED <<user, home, known, listed, wire, up>> /\ role' = [role EXCEPT ![g].ver = @ + 1]
      BY <1>2 DEF Play, gateVars, centerVars
    <2>2. \A h \in Games : role'[h] # None => h = home /\ role'[h].type # "jump"
      <3> TAKE h \in Games
      <3>1. CASE h = g
        <4>1. role[g] \in Roles /\ role'[g] = [role[g] EXCEPT !.ver = @ + 1]
          BY <1>2, <2>1 DEF TypeOK, Play
        <4> QED
          BY <1>2, <3>1, <4>1 DEF AtHome, Play, Roles
      <3>2. CASE h # g
        BY <2>1, <3>2 DEF AtHome, TypeOK
      <3> QED
        BY <3>1, <3>2
    <2> QED
      BY <2>1, <2>2 DEF AtHome
  <1>3. CASE Autosave(g)
    <2>1. UNCHANGED <<user, home, known, listed, role, up>> /\ Send(g, SaveOf(g))
      BY <1>3 DEF Autosave, gateVars, centerVars, dataVars
    <2>2. g = home /\ role[g] \in Roles
      BY <1>3 DEF Autosave, AtHome, TypeOK
    <2>3. [kind |-> "save", ver |-> role[g].ver] \in Msgs
      BY <2>2, Messages DEF Roles
    <2>4. Says(home, g, "db", [kind |-> "save", ver |-> role[g].ver])
      BY <1>1, <2>2, WhoSays
    <2>5. Proper(g, SaveOf(g), Said(home))
      BY <1>1, <2>3, <2>4, HomeMail DEF SaveOf, Save
    <2> QED
      BY <1>1, <2>1, <2>5, SendHome DEF AtHome
  <1> QED
    BY <1>2, <1>3

\* Jumps and faults are counted, and nothing else changes their counts.
LEMMA Incidents ==
    ASSUME TypeOK, [Next]_vars, Calm'
    PROVE  /\ Calm
           /\ \/ \E a \in Gates : PlayerStep(a) \/ GateStep(a)
              \/ CenterStep
              \/ \E g \in Games : GameStep(g) \/ Play(g) \/ Autosave(g)
              \/ \E l \in Links \ up : LinkReturns(l)
              \/ UNCHANGED vars
  <1>1. jumps \in Nat /\ faults \in Nat
    BY DEF TypeOK
  <1>2. \A a \in Gates : PlayerStep(a) => UNCHANGED <<jumps, faults>>
    BY DEF PlayerStep, Arrive, LoginGame, Ready, Leave, Expire, MsgBomb, GateDrops, GateMoves
  <1>3. \A a \in Gates : GateStep(a) => UNCHANGED <<jumps, faults>>
    BY DEF GateStep, GateCleared, GateHearsError, GateHearsSuccess, GateHearsCross, GateLosesGame,
       GateHandles, counters, incidentVars
  <1>4. CenterStep => UNCHANGED <<jumps, faults>>
    BY DEF CenterStep, CenterRegs, CenterCrosses, CenterLosesGate, CenterUnregs, CenterEntered,
       CenterLosesGame, CenterLearns, CenterHandles, counters, incidentVars
  <1>5. \A g \in Games : GameStep(g) => UNCHANGED <<jumps, faults>>
    BY DEF GameStep, GameRegs, GameRelogs, GameClears, GameLoads, GameLosesDb, GameUnregs,
       GameReady, GameLosesGate, DbHandles, Refuse, GameHandles, counters, incidentVars
  <1>6. \A g \in Games : Play(g) \/ Autosave(g) => UNCHANGED <<jumps, faults>>
    BY DEF Play, Autosave, counters, incidentVars
  <1>7. \A l \in Links : LinkReturns(l) => UNCHANGED <<jumps, faults>>
    BY DEF LinkReturns, counters, incidentVars
  <1>8. \A g \in Games : ~Jump(g)
    BY <1>1 DEF Jump, Calm
  <1>9. ~Fault
    <2>1. Fault => faults' = faults + 1
      BY DEF Fault, CenterLosesDb, LinkFails, Crash
    <2> QED
      BY <1>1, <2>1 DEF Calm
  <1>10. UNCHANGED vars => UNCHANGED <<jumps, faults>>
    BY DEF vars, counters, incidentVars
  <1> QED
    BY <1>2, <1>3, <1>4, <1>5, <1>6, <1>7, <1>8, <1>9, <1>10 DEF Next, Calm

LEMMA InitHome == Init => AtHome
  <1> SUFFICES ASSUME Init PROVE AtHome
    OBVIOUS
  <1>1. wire = [p \in Processes |-> [q \in Peers[p] |-> <<>>]]
    BY DEF Init
  <1>2. \A p \in Processes : \A q \in Peers[p] : wire[p][q] = <<>>
    BY <1>1
  <1>3. /\ DOMAIN wire = Processes
        /\ \A p \in Processes : wire[p] = [q \in Peers[p] |-> wire[p][q]]
    BY <1>1
  <1>4. \A S : <<>> \in Seq(S)
    OBVIOUS
  <1>5. Fits(wire, Said(home))
    BY <1>2, <1>3, <1>4 DEF Fits
  <1> QED
    BY <1>5 DEF Init, AtHome

LEMMA NextHome ==
    ASSUME TypeOK, Calm => AtHome, [Next]_vars, Calm'
    PROVE  AtHome /\ AtHome'
  <1>1. AtHome
    BY Incidents
  <1>2. ~ \E l \in Links \ up : LinkReturns(l)
    BY <1>1 DEF AtHome
  <1>3. UNCHANGED vars => AtHome'
    BY <1>1 DEF AtHome, Fits, vars, gateVars, centerVars, dataVars
  <1> QED
    BY <1>1, <1>2, <1>3, Incidents, PlayerHome, GateHome, CenterHome, GameHome, PlayHome

----------------------------------------------------------------------------
(* What the player did is in the database, on its way there or in memory.  *)

\* The database, once it has the saves of q, has version v.
Kept(q, st, v) ==
    /\ (\A i \in 1..Len(q) : q[i].kind # "save") => st = v
    /\ \A i \in 1..Len(q) :
         q[i].kind = "save" /\ (\A j \in 1..Len(q) : j > i => q[j].kind # "save") => q[i].ver = v

InMemory(r) == r # None /\ r.st = "OK"

\* q is on its way from the player's game to the database, a comes back, r is the
\* game's role, st is stored and v is the latest version.
DataSafe(q, a, r, st, v) ==
    /\ \A i \in 1..Len(q) : q[i].kind = "load" => i = Len(q)
    /\ a # <<>> => q = <<>> /\ Len(a) = 1 /\ a[1].ver = v
    /\ InMemory(r) => /\ r.ver = v /\ a = <<>>
                      /\ \A i \in 1..Len(q) : q[i].kind = "save"
    /\ ~InMemory(r) => Kept(q, st, v)

LEMMA AppendSave ==
    ASSUME NEW S, NEW q \in Seq(S), NEW m \in S, NEW st, NEW v, m.kind = "save", m.ver = v
    PROVE  Kept(Append(q, m), st, v)
  <1>1. /\ Len(Append(q, m)) = Len(q) + 1 /\ Append(q, m)[Len(q) + 1] = m /\ Len(q) \in Nat
        /\ \A i \in 1..Len(q) : Append(q, m)[i] = q[i]
    OBVIOUS
  <1> QED
    BY <1>1 DEF Kept

LEMMA AppendOther ==
    ASSUME NEW S, NEW q \in Seq(S), NEW m \in S, NEW st, NEW v, m.kind # "save", Kept(q, st, v)
    PROVE  Kept(Append(q, m), st, v)
  <1>1. /\ Len(Append(q, m)) = Len(q) + 1 /\ Append(q, m)[Len(q) + 1] = m /\ Len(q) \in Nat
        /\ \A i \in 1..Len(q) : Append(q, m)[i] = q[i]
    OBVIOUS
  <1> QED
    BY <1>1 DEF Kept

LEMMA TailSave ==
    ASSUME NEW S, NEW q \in Seq(S), NEW st, NEW v, q # <<>>, q[1].kind = "save", Kept(q, st, v)
    PROVE  Kept(Tail(q), q[1].ver, v)
  <1>1. /\ Len(q) \in Nat \ {0} /\ Len(Tail(q)) = Len(q) - 1
        /\ \A i \in 1..(Len(q) - 1) : Tail(q)[i] = q[i + 1]
    OBVIOUS
  <1>2. ASSUME \A i \in 1..(Len(q) - 1) : q[i + 1].kind # "save"
        PROVE  q[1].ver = v
    <2>1. \A j \in 1..Len(q) : j > 1 => q[j].kind # "save"
      <3> SUFFICES ASSUME NEW j \in 1..Len(q), j > 1 PROVE q[j].kind # "save"
        OBVIOUS
      <3>1. j - 1 \in 1..(Len(q) - 1) /\ (j - 1) + 1 = j
        BY <1>1
      <3> QED
        BY <1>2, <3>1
    <2>2. 1 \in 1..Len(q)
      BY <1>1
    <2> QED
      BY <2>1, <2>2 DEF Kept
  <1>3. ASSUME NEW i \in 1..(Len(q) - 1), q[i + 1].kind = "save",
               \A j \in 1..(Len(q) - 1) : j > i => q[j + 1].kind # "save"
        PROVE  q[i + 1].ver = v
    <2>1. \A j \in 1..Len(q) : j > i + 1 => q[j].kind # "save"
      <3> SUFFICES ASSUME NEW j \in 1..Len(q), j > i + 1 PROVE q[j].kind # "save"
        OBVIOUS
      <3>1. j - 1 \in 1..(Len(q) - 1) /\ (j - 1) + 1 = j /\ j - 1 > i
        BY <1>1
      <3> QED
        BY <1>3, <3>1
    <2>2. i + 1 \in 1..Len(q)
      BY <1>1
    <2> QED
      BY <1>3, <2>1, <2>2 DEF Kept
  <1>4. ASSUME \A i \in 1..Len(Tail(q)) : Tail(q)[i].kind # "save"
        PROVE  q[1].ver = v
    <2>1. \A i \in 1..(Len(q) - 1) : q[i + 1].kind # "save"
      BY <1>1, <1>4
    <2> QED
      BY <1>2, <2>1
  <1>5. ASSUME NEW i \in 1..Len(Tail(q)), Tail(q)[i].kind = "save",
               \A j \in 1..Len(Tail(q)) : j > i => Tail(q)[j].kind # "save"
        PROVE  Tail(q)[i].ver = v
    <2>1. i \in 1..(Len(q) - 1) /\ Tail(q)[i] = q[i + 1]
      BY <1>1
    <2>2. \A j \in 1..(Len(q) - 1) : j > i => q[j + 1].kind # "save"
      BY <1>1, <1>5
    <2> QED
      BY <1>3, <1>5, <2>1, <2>2
  <1> QED
    BY <1>4, <1>5 DEF Kept

\* The role is saved and leaves the game's memory, or goes on as it was.
LEMMA DataLeaves ==
    ASSUME NEW S, NEW q \in Seq(S), NEW m \in S, NEW a, NEW r, NEW st, NEW v,
           DataSafe(q, a, r, st, v), InMemory(r), m.kind = "save", m.ver = r.ver
    PROVE  DataSafe(Append(q, m), a, None, st, v) /\ DataSafe(Append(q, m), a, r, st, v)
  <1>1. /\ Len(Append(q, m)) = Len(q) + 1 /\ Append(q, m)[Len(q) + 1] = m /\ Len(q) \in Nat
        /\ \A i \in 1..Len(q) : Append(q, m)[i] = q[i]
    OBVIOUS
  <1>2. r.ver = v /\ a = <<>> /\ \A i \in 1..Len(q) : q[i].kind = "save"
    BY DEF DataSafe
  <1>3. \A i \in 1..Len(Append(q, m)) : Append(q, m)[i].kind = "save"
    BY <1>1, <1>2
  <1>4. Kept(Append(q, m), st, v)
    BY <1>2, AppendSave
  <1> QED
    BY <1>2, <1>3, <1>4 DEF DataSafe, InMemory

\* A record is asked for.
LEMMA DataAsked ==
    ASSUME NEW S, NEW q \in Seq(S), NEW m \in S, NEW r, NEW st, NEW v,
           DataSafe(q, <<>>, None, st, v), ~InMemory(r), m.kind = "load",
           \A i \in 1..Len(q) : q[i].kind # "load"
    PROVE  DataSafe(Append(q, m), <<>>, r, st, v)
  <1>1. /\ Len(Append(q, m)) = Len(q) + 1 /\ Append(q, m)[Len(q) + 1] = m /\ Len(q) \in Nat
        /\ \A i \in 1..Len(q) : Append(q, m)[i] = q[i]
    OBVIOUS
  <1>2. Kept(q, st, v)
    BY DEF DataSafe, InMemory
  <1>3. Kept(Append(q, m), st, v)
    BY <1>2, AppendOther
  <1> QED
    BY <1>1, <1>3 DEF DataSafe

\* A record arrives: for nobody, for a role that takes it, or for one that is
\* deleted, whether it took it or not.
LEMMA DataArrives ==
    ASSUME NEW S, NEW q \in Seq(S), NEW R, NEW a \in Seq(R), NEW m \in S, NEW r, NEW st, NEW v,
           DataSafe(q, a, r, st, v), a # <<>>
    PROVE  /\ ~InMemory(r) /\ q = <<>>
           /\ DataSafe(q, Tail(a), None, st, v)
           /\ \A n : InMemory(n) /\ n.ver = a[1].ver => DataSafe(q, Tail(a), n, st, v)
           /\ m.kind = "save" /\ m.ver = a[1].ver => DataSafe(Append(q, m), Tail(a), None, st, v)
  <1>1. q = <<>> /\ Len(a) = 1 /\ a[1].ver = v /\ ~InMemory(r) /\ Kept(q, st, v)
    BY DEF DataSafe
  <1>2. Tail(a) = <<>>
    BY <1>1
  <1>3. Len(q) = 0
    BY <1>1
  <1>4. Append(q, m) = <<m>>
    BY <1>1
  <1>5. ASSUME m.kind = "save", m.ver = a[1].ver
        PROVE  DataSafe(Append(q, m), <<>>, None, st, v)
    <2>1. Kept(Append(q, m), st, v)
      BY <1>1, <1>5, AppendSave
    <2>2. Len(<<m>>) = 1 /\ <<m>>[1] = m
      OBVIOUS
    <2> QED
      BY <1>4, <1>5, <2>1, <2>2 DEF DataSafe, InMemory
  <1> QED
    BY <1>1, <1>2, <1>3, <1>5 DEF DataSafe, InMemory

\* The database takes a save, or answers.
LEMMA DataStored ==
    ASSUME NEW S, NEW q \in Seq(S), NEW a, NEW r, NEW st, NEW v,
           DataSafe(q, a, r, st, v), q # <<>>, q[1].kind = "save"
    PROVE  DataSafe(Tail(q), a, r, q[1].ver, v)
  <1>1. /\ Len(q) \in Nat \ {0} /\ Len(Tail(q)) = Len(q) - 1
        /\ \A i \in 1..(Len(q) - 1) : Tail(q)[i] = q[i + 1] /\ i + 1 \in 1..Len(q)
    OBVIOUS
  <1>2. Kept(q, st, v) => Kept(Tail(q), q[1].ver, v)
    BY TailSave
  <1>3. a = <<>>
    BY DEF DataSafe
  <1>4. ASSUME NEW i \in 1..Len(Tail(q))
        PROVE  /\ Tail(q)[i].kind = "load" => i = Len(Tail(q))
               /\ InMemory(r) => Tail(q)[i].kind = "save"
    <2>1. Tail(q)[i] = q[i + 1] /\ i + 1 \in 1..Len(q)
      BY <1>1
    <2>2. q[i + 1].kind = "load" => i + 1 = Len(q)
      BY <2>1 DEF DataSafe
    <2>3. InMemory(r) => q[i + 1].kind = "save"
      BY <2>1 DEF DataSafe
    <2> QED
      BY <1>1, <2>1, <2>2, <2>3
  <1> QED
    BY <1>2, <1>3, <1>4 DEF DataSafe

LEMMA DataAnswered ==
    ASSUME NEW S, NEW q \in Seq(S), NEW R, NEW a \in Seq(R), NEW m \in R, NEW r, NEW st, NEW v,
           DataSafe(q, a, r, st, v), q # <<>>, q[1].kind = "load", m.ver = st
    PROVE  DataSafe(Tail(q), Append(a, m), r, st, v)
  <1>1. Len(q) \in Nat \ {0} /\ 1 \in 1..Len(q)
    OBVIOUS
  <1>2. Len(q) = 1 /\ a = <<>> /\ ~InMemory(r)
    <2>1. q[1].kind # "save"
      OBVIOUS
    <2> QED
      BY <1>1, <2>1 DEF DataSafe
  <1>3. Kept(q, st, v)
    BY <1>2 DEF DataSafe
  <1>4. st = v
    BY <1>2, <1>3 DEF Kept
  <1>5. Tail(q) = <<>> /\ Append(a, m) = <<m>>
    <2>1. Tail(q) = <<>>
      <3>1. Tail(q) \in Seq(S) /\ Len(Tail(q)) = 0
        BY <1>2
      <3> QED
        BY <3>1, EmptySeq
    <2>2. Append(a, m) = <<m>>
      BY <1>2
    <2> QED
      BY <2>1, <2>2
  <1>6. Len(<<m>>) = 1 /\ <<m>>[1] = m /\ <<m>> # <<>>
    OBVIOUS
  <1>7. Kept(<<>>, st, v) /\ Len(<<>>) = 0
    BY <1>4 DEF Kept
  <1>8. DataSafe(<<>>, <<m>>, r, st, v)
    BY <1>2, <1>4, <1>6, <1>7 DEF DataSafe
  <1> QED
    BY <1>5, <1>8

\* The data of the player, as long as no answer is mixed up with another.
DataInv ==
    Calm /\ ~reloaded =>
      DataSafe(wire[home]["db"], wire["db"][home], role[home], stored, version)

\* A game sends the database nothing, or what it saves of a role.
Silent(out) == "db" \notin DOMAIN out

Saves(out, r) ==
    /\ InMemory(r) => "db" \in DOMAIN out /\ out["db"] = [kind |-> "save", ver |-> r.ver]
    /\ ~InMemory(r) => Silent(out)

LEMMA SavingMail ==
    /\ \A r : Saves(Save(r), r)
    /\ Silent(Nothing) /\ \A m : Silent(Each(Gates, m))
    /\ \A q, m : q # "db" => Silent(To(q, m))
    /\ \A out1, out2 : Silent(out1) /\ Silent(out2) => Silent(out1 ++ out2)
    /\ \A out1, out2, r : Saves(out1, r) /\ Silent(out2) => Saves(out1 ++ out2, r)
    /\ \A out1, out2, r : Silent(out1) /\ Saves(out2, r) => Saves(out1 ++ out2, r)
  <1>1. "db" \notin Gates
    BY ProcessAssumption
  <1>2. \A r : Saves(Save(r), r)
    BY DEF Saves, Silent, Save, InMemory, To, Each, Nothing
  <1>3. \A out1, out2, r : Saves(out1, r) /\ Silent(out2) => Saves(out1 ++ out2, r)
    BY DEF Saves, Silent, ++
  <1>4. \A out1, out2, r : Silent(out1) /\ Saves(out2, r) => Saves(out1 ++ out2, r)
    BY DEF Saves, Silent, ++
  <1> QED
    BY <1>1, <1>2, <1>3, <1>4 DEF Silent, To, Each, Nothing, ++

\* Gates and center do not touch the two channels.
LEMMA DataChannels ==
    ASSUME TypeOK, AtHome, NEW p \in Gates \cup {"center"}, NEW out,
           \/ Send(p, out)
           \/ \E q \in Peers[p] : Hears(p, q) /\ Handle(q, p, out)
    PROVE  wire'[home]["db"] = wire[home]["db"] /\ wire'["db"][home] = wire["db"][home]
  <1>1. /\ p \in Processes /\ home \in Processes /\ "db" \in Processes
        /\ "db" \in Peers[home] /\ home \in Peers["db"] /\ p # home /\ p # "db"
        /\ Fits(wire, Said(home))
    BY Connections DEF TypeOK, AtHome
  <1>2. CASE Send(p, out)
    <2>1. /\ wire'["db"][home] = Sent(wire["db"][home], p, out, "db", home)
          /\ wire'[home]["db"] = Sent(wire[home]["db"], p, out, home, "db")
      <3>1. wire' = Post(wire, p, out)
        BY <1>2 DEF Send
      <3> QED
        BY <1>1, <3>1, PostChannels
    <2> QED
      BY <1>1, <2>1 DEF Sent
  <1>3. CASE \E q \in Peers[p] : Hears(p, q) /\ Handle(q, p, out)
    <2>1. PICK q \in Peers[p] : Hears(p, q) /\ Handle(q, p, out)
      BY <1>3
    <2>2. /\ wire'["db"][home] = Sent(Took(wire["db"][home], p, q, "db", home), p, out, "db", home)
          /\ wire'[home]["db"] = Sent(Took(wire[home]["db"], p, q, home, "db"), p, out, home, "db")
      BY <1>1, <2>1, HandleChannels
    <2> QED
      BY <1>1, <2>2 DEF Sent, Took
  <1> QED
    BY <1>2, <1>3

\* What the player's game does to them.
LEMMA GameChannels ==
    ASSUME TypeOK, AtHome, NEW q \in Peers[home], Hears(home, q), NEW out, Handle(q, home, out)
    PROVE  /\ wire'["db"][home] =
                IF q = "db" THEN Tail(wire["db"][home]) ELSE wire["db"][home]
           /\ wire'[home]["db"] =
                IF Silent(out) THEN wire[home]["db"] ELSE Append(wire[home]["db"], out["db"])
  <1>1. /\ home \in Processes /\ "db" \in Processes /\ home # "db"
        /\ "db" \in Peers[home] /\ home \in Peers["db"] /\ {home, "db"} \in up
        /\ Fits(wire, Said(home))
    BY Connections, Ends DEF TypeOK, AtHome
  <1>2. /\ wire'["db"][home] = Sent(Took(wire["db"][home], home, q, "db", home), home, out, "db", home)
        /\ wire'[home]["db"] = Sent(Took(wire[home]["db"], home, q, home, "db"), home, out, home, "db")
    BY <1>1, HandleChannels
  <1> QED
    BY <1>1, <1>2 DEF Sent, Took, Silent

\* What is on the two channels.
LEMMA DataTypes ==
    ASSUME TypeOK, AtHome
    PROVE  /\ wire[home]["db"] \in Seq({m \in Msgs : m.kind \in {"save", "load"}})
           /\ wire["db"][home] \in Seq({m \in Msgs : m.kind = "record"})
           /\ \A v \in Nat : [kind |-> "save", ver |-> v] \in {m \in Msgs : m.kind \in {"save", "load"}}
           /\ \A v \in Nat : [kind |-> "record", ver |-> v] \in {m \in Msgs : m.kind = "record"}
           /\ Say("load") \in {m \in Msgs : m.kind \in {"save", "load"}}
  <1>1. /\ home \in Games /\ home \in Processes /\ "db" \in Processes
        /\ "db" \in Peers[home] /\ home \in Peers["db"]
    BY Connections DEF TypeOK
  <1>2. /\ wire[home]["db"] \in Seq(Said(home)[home]["db"])
        /\ wire["db"][home] \in Seq(Said(home)["db"][home])
    BY <1>1 DEF AtHome, Fits
  <1>3. Said(home)[home]["db"] = {m \in Msgs : m.kind \in {"save", "load"}}
    BY <1>1, SaidThen, WhoSays
  <1>4. Said(home)["db"][home] = {m \in Msgs : m.kind = "record"}
    BY <1>1, SaidThen, WhoSays
  <1>5. Say("load").kind = "load"
    BY DEF Say
  <1> QED
    BY <1>2, <1>3, <1>4, <1>5, Messages

\* A game handles a message: what becomes of the data.
LEMMA DataHandled ==
    ASSUME TypeOK, AtHome, NEW q \in Peers[home], Hears(home, q), NEW r, NEW out,
           GameHandles(q, home, r, out), ~reloaded',
           DataSafe(wire[home]["db"], wire["db"][home], role[home], stored, version),
           \/ q # "db" /\ r = None /\ Saves(out, role[home])
           \/ q # "db" /\ role[home] = None /\ ~InMemory(r) /\ out = To("db", Say("load"))
           \/ /\ q # "db" /\ Silent(out) /\ (InMemory(r) <=> InMemory(role[home]))
              /\ InMemory(r) => r.ver = role[home].ver
           \/ q = "db" /\ r = None /\ Silent(out)
           \/ q = "db" /\ InMemory(r) /\ r.ver = Incoming("db", home).ver /\ Silent(out)
           \/ /\ q = "db" /\ r = None
              /\ \E n \in Roles \cup {None} :
                   Saves(out, n) /\ (InMemory(n) => n.ver = Incoming("db", home).ver)
    PROVE  DataSafe(wire[home]["db"], wire["db"][home], role[home], stored, version)'
  <1> DEFINE c == wire[home]["db"]
             a == wire["db"][home]
             S == {m \in Msgs : m.kind \in {"save", "load"}}
             R == {m \in Msgs : m.kind = "record"}
  <1>1. /\ home \in Games /\ home' = home /\ stored' = stored /\ version' = version
        /\ role[home] \in Roles \cup {None} /\ role'[home] = r /\ Handle(q, home, out)
    BY DEF TypeOK, GameHandles, centerVars
  <1>2. c \in Seq(S) /\ a \in Seq(R)
    BY DataTypes
  <1>3. /\ wire'["db"][home] = IF q = "db" THEN Tail(a) ELSE a
        /\ wire'[home]["db"] = IF Silent(out) THEN c ELSE Append(c, out["db"])
    BY <1>1, GameChannels
  <1>4. \A n \in Roles : [kind |-> "save", ver |-> n.ver] \in S
    BY DataTypes DEF Roles
  <1> HIDE DEF c, a, S, R
  <1>5. DataSafe(c, a, role[home], stored, version)
    BY DEF c, a
  <1>6. SUFFICES DataSafe(wire'[home]["db"], wire'["db"][home], r, stored, version)
    BY <1>1
  <1>7. \A x, y : ~InMemory(x) /\ ~InMemory(y) /\ DataSafe(c, a, x, stored, version)
                    => DataSafe(c, a, y, stored, version)
    BY DEF DataSafe
  <1>8. ~InMemory(None)
    BY DEF InMemory
  <1>9. CASE q # "db" /\ r = None /\ Saves(out, role[home])
    <2>1. CASE InMemory(role[home])
      <3>1. /\ wire'[home]["db"] = Append(c, [kind |-> "save", ver |-> role[home].ver])
            /\ wire'["db"][home] = a
        BY <1>3, <1>9, <2>1 DEF Saves, Silent
      <3>2. [kind |-> "save", ver |-> role[home].ver] \in S
        BY <1>1, <1>4, <2>1 DEF InMemory
      <3> QED
        BY <1>2, <1>5, <1>9, <2>1, <3>1, <3>2, DataLeaves
    <2>2. CASE ~InMemory(role[home])
      BY <1>3, <1>5, <1>7, <1>8, <1>9, <2>2 DEF Saves
    <2> QED
      BY <2>1, <2>2
  <1>10. CASE q # "db" /\ role[home] = None /\ ~InMemory(r) /\ out = To("db", Say("load"))
    <2>1. ~Silent(out) /\ "db" \in DOMAIN out /\ out["db"] = Say("load") /\ Say("load").kind = "load"
      BY <1>10 DEF Silent, To, Each, Say
    <2>2. ~Owed(home)
      BY <2>1 DEF GameHandles
    <2>3. \A i \in 1..Len(c) : c[i].kind # "load"
      BY <1>2, <2>2 DEF Owed, c
    <2>4. a = <<>>
      <3>1. \A i \in 1..Len(a) : a[i].kind # "record"
        BY <1>2, <2>2 DEF Owed, a
      <3>2. a # <<>> => 1 \in 1..Len(a) /\ a[1] \in R
        BY <1>2
      <3> QED
        BY <3>1, <3>2 DEF R
    <2>5. DataSafe(c, <<>>, None, stored, version)
      BY <1>5, <1>10, <2>4
    <2>6. Say("load") \in S
      BY DataTypes DEF S
    <2>7. DataSafe(Append(c, Say("load")), <<>>, r, stored, version)
      BY <1>2, <1>10, <2>1, <2>3, <2>5, <2>6, DataAsked
    <2> QED
      BY <1>3, <1>10, <2>1, <2>4, <2>7
  <1>11. CASE /\ q # "db" /\ Silent(out) /\ (InMemory(r) <=> InMemory(role[home]))
              /\ InMemory(r) => r.ver = role[home].ver
    BY <1>3, <1>5, <1>11 DEF DataSafe
  <1>12. ASSUME q = "db"
         PROVE  a # <<>> /\ Incoming("db", home) = a[1]
    BY <1>2, <1>12, SeqStep DEF a, Hears, Incoming
  <1>13. CASE q = "db" /\ Silent(out) /\ (r = None \/ (InMemory(r) /\ r.ver = Incoming("db", home).ver))
    <2>1. Say("load") \in S
      BY DataTypes DEF S
    <2> QED
      BY <1>2, <1>3, <1>5, <1>12, <1>13, <2>1, DataArrives
  <1>14. CASE /\ q = "db" /\ r = None
              /\ \E n \in Roles \cup {None} :
                   Saves(out, n) /\ (InMemory(n) => n.ver = Incoming("db", home).ver)
    <2>1. PICK n \in Roles \cup {None} :
                   Saves(out, n) /\ (InMemory(n) => n.ver = Incoming("db", home).ver)
      BY <1>14
    <2>2. CASE InMemory(n)
      <3>1. /\ wire'[home]["db"] = Append(c, [kind |-> "save", ver |-> n.ver])
            /\ wire'["db"][home] = Tail(a)
        BY <1>3, <1>14, <2>1, <2>2 DEF Saves, Silent
      <3>2. [kind |-> "save", ver |-> n.ver] \in S
        BY <1>4, <2>2 DEF InMemory
      <3> QED
        BY <1>2, <1>5, <1>12, <1>14, <2>1, <2>2, <3>1, <3>2, DataArrives
    <2>3. CASE ~InMemory(n)
      <3>1. Silent(out)
        BY <2>1, <2>3 DEF Saves
      <3> QED
        BY <1>13, <1>14, <3>1
    <2> QED
      BY <2>2, <2>3
  <1> QED
    BY <1>9, <1>10, <1>11, <1>13, <1>14

LEMMA GameData ==
    ASSUME TypeOK, AtHome, DataInv, Calm, NEW g \in Games, GameStep(g), ~reloaded'
    PROVE  DataSafe(wire[home]["db"], wire["db"][home], role[home], stored, version)'
  <1>1. /\ home \in Games /\ role[home] \in Roles \cup {None} /\ None \in Roles \cup {None}
        /\ home \in Processes /\ "db" \in Processes
        /\ "center" \in Peers[home] /\ "db" \in Peers[home] /\ home \in Peers["db"]
        /\ "center" # "db" /\ \A a \in Gates : a \in Peers[home] /\ a # "db"
    BY Connections DEF TypeOK
  <1>2. g = home
    <2>1. \E q \in Peers[g] : Hears(g, q) \/ Hears("db", g)
      BY Connections DEF GameStep
    <2> QED
      BY <2>1, OnlyHome
  <1>3. /\ ~reloaded
        /\ DataSafe(wire[home]["db"], wire["db"][home], role[home], stored, version)
    <2>1. reloaded => reloaded'
      BY DEF GameStep, GameRegs, GameRelogs, GameClears, GameLoads, GameLosesDb, GameUnregs,
         GameReady, GameLosesGate, DbHandles, Refuse, GameHandles, counters, histories
    <2> QED
      BY <2>1 DEF DataInv
  <1> DEFINE Goal == DataSafe(wire[home]["db"], wire["db"][home], role[home], stored, version)'
  <1>4. ASSUME NEW q \in Peers[home], q # "db", Hears(home, q), NEW out, Saves(out, role[home]),
               GameHandles(q, home, None, out)
        PROVE  Goal
    BY <1>3, <1>4, DataHandled
  <1>5. Saves(SaveOf(home), role[home])
    BY SavingMail DEF SaveOf
  <1>6. ASSUME NEW q \in Peers[home], q # "db", Hears(home, q), Refuse(q, home)
        PROVE  Goal
    <2>1. Saves(SaveOf(home) ++ To("center", UnregMsg("ERROR")) ++ Each(Gates, UnregMsg("ERROR")),
                role[home])
      BY <1>5, SavingMail
    <2> QED
      BY <1>4, <1>6, <2>1 DEF Refuse
  <1>7. ASSUME NEW q \in Peers[home], q # "db", Hears(home, q), NEW out, Silent(out), NEW r,
               InMemory(r) <=> InMemory(role[home]), InMemory(r) => r.ver = role[home].ver,
               GameHandles(q, home, r, out)
        PROVE  Goal
    BY <1>3, <1>7, DataHandled
  <1>8. CASE Hears(home, "center") /\ GameRegs(home)
    <2> DEFINE r == [st |-> "LOADING", gate |-> Incoming("center", home).gate, on |-> "OFFLINE",
                     type |-> Incoming("center", home).type, ver |-> 0]
    <2>1. CASE role[home] = None /\ GameHandles("center", home, r, To("db", Say("load")))
      <3>1. ~InMemory(r)
        BY DEF InMemory
      <3> QED
        BY <1>1, <1>3, <1>8, <2>1, <3>1, DataHandled
    <2>2. CASE Refuse("center", home)
      BY <1>1, <1>6, <1>8, <2>2
    <2> QED
      BY <1>8, <2>1, <2>2 DEF GameRegs
  <1>9. CASE Hears(home, "center") /\ GameRelogs(home)
    <2> DEFINE m == Incoming("center", home)
               r == [role[home] EXCEPT !.gate = m.gate, !.type = "relogin", !.on = "ONLINE"]
               out == To(m.gate, Say("success"))
                        ++ To("center", [kind |-> "entered", type |-> "relogin"])
    <2>1. CASE InMemory(role[home]) /\ GameHandles("center", home, r, out)
      <3>1. InMemory(r) /\ r.ver = role[home].ver
        <4>1. role[home] \in Roles /\ role[home].st = "OK"
          BY <1>1, <2>1 DEF InMemory
        <4>2. m.gate \in Gates
          BY <1>1, <1>9, OnlyHome, Carries DEF GameRelogs
        <4>3. r \in Roles /\ r.st = "OK" /\ r.ver = role[home].ver
          BY <4>1, <4>2 DEF Roles, LoginTypes
        <4> QED
          BY <4>3, NoneAssumption DEF InMemory
      <3>2. m.gate # "db"
        <4>1. m \in Msgs /\ m.kind = "relogin"
          BY <1>1, <1>9, OnlyHome DEF GameRelogs
        <4> QED
          BY <1>1, <4>1, Carries
      <3>3. Silent(out)
        BY <1>1, <3>2, SavingMail
      <3> QED
        BY <1>1, <1>7, <1>9, <2>1, <3>1, <3>3
    <2>2. CASE Refuse("center", home)
      BY <1>1, <1>6, <1>9, <2>2
    <2> QED
      BY <1>9, <2>1, <2>2 DEF GameRelogs, InMemory
  <1>10. CASE Hears(home, "center") /\ GameClears(home)
    BY <1>1, <1>4, <1>5, <1>10 DEF GameClears
  <1>11. CASE Hears(home, "db") /\ GameLoads(home)
    <2> DEFINE m == Incoming("db", home)
               loaded == IF role[home] = None THEN None ELSE
                  [role[home] EXCEPT !.st = "OK", !.on = "ONLINE",
                     !.ver = IF role[home].st = "LOADING" THEN m.ver ELSE role[home].ver]
               entered == To(role[home].gate, Say("success"))
                            ++ To("center", [kind |-> "entered", type |-> role[home].type])
               failed(last) == To(role[home].gate, UnregMsg("ERROR"))
                            ++ To("center", UnregMsg("ERROR")) ++ Save(last)
    <2>1. ~InMemory(role[home])
      <3>1. wire["db"][home] # <<>>
        BY <1>11 DEF Hears
      <3> QED
        BY <1>3, <3>1 DEF DataSafe
    <2>2. role[home] # None =>
             /\ loaded \in Roles /\ InMemory(loaded) /\ loaded.ver = m.ver
             /\ role[home].gate # "db"
      <3>1. m.ver \in Nat
        BY <1>1, <1>11, OnlyHome, Carries DEF GameLoads
      <3>2. ASSUME role[home] # None
            PROVE  /\ loaded \in Roles /\ loaded.st = "OK" /\ loaded.ver = m.ver
                   /\ role[home].gate # "db"
        <4>1. role[home] \in Roles /\ role[home].st = "LOADING"
          BY <1>1, <2>1, <3>2 DEF Roles, InMemory
        <4> QED
          BY <1>1, <3>1, <3>2, <4>1 DEF Roles
      <3> QED
        BY <3>2, NoneAssumption DEF InMemory
    <2>3. CASE GameHandles("db", home, None, Nothing)
      BY <1>1, <1>3, <1>11, <2>3, SavingMail, DataHandled
    <2>4. CASE role[home] # None /\ GameHandles("db", home, loaded, entered)
      <3>1. Silent(entered)
        BY <1>1, <2>2, <2>4, SavingMail
      <3> QED
        BY <1>1, <1>3, <1>11, <2>2, <2>4, <3>1, DataHandled
    <2>5. CASE role[home] # None /\ \E last \in {role[home], loaded} :
                 GameHandles("db", home, None, failed(last))
      <3>1. PICK last \in {role[home], loaded} : GameHandles("db", home, None, failed(last))
        BY <2>5
      <3>2. Saves(failed(last), last)
        BY <1>1, <2>2, <2>5, SavingMail
      <3>3. last \in Roles \cup {None} /\ (InMemory(last) => last.ver = m.ver)
        BY <1>1, <2>1, <2>2, <2>5
      <3> QED
        BY <1>1, <1>3, <1>11, <3>1, <3>2, <3>3, DataHandled
    <2> QED
      BY <1>11, <2>3, <2>4, <2>5 DEF GameLoads
  <1>12. ~(Hears(home, "db") /\ GameLosesDb(home))
    BY <1>1, OnlyHome DEF GameLosesDb
  <1>13. ASSUME NEW a \in Gates, Hears(home, a), GameUnregs(a, home)
         PROVE  Goal
    <2>1. CASE GameHandles(a, home, IF role[home] = None THEN None
                             ELSE [role[home] EXCEPT !.on = "OFFLINE"], Nothing)
      <3>1. ASSUME role[home] # None
            PROVE  LET r == [role[home] EXCEPT !.on = "OFFLINE"]
                   IN (InMemory(r) <=> InMemory(role[home])) /\ r.ver = role[home].ver
        <4> DEFINE r == [role[home] EXCEPT !.on = "OFFLINE"]
        <4>1. r \in Roles /\ r.st = role[home].st /\ r.ver = role[home].ver
          BY <1>1, <3>1 DEF Roles
        <4> QED
          BY <3>1, <4>1, NoneAssumption DEF InMemory
      <3> QED
        BY <1>1, <1>7, <1>13, <2>1, <3>1, SavingMail
    <2>2. CASE GameHandles(a, home, None, SaveOf(home) ++ To("center", UnregMsg("LOGOUT")))
      <3>1. Saves(SaveOf(home) ++ To("center", UnregMsg("LOGOUT")), role[home])
        BY <1>1, <1>5, SavingMail
      <3> QED
        BY <1>1, <1>4, <1>13, <2>2, <3>1
    <2>3. CASE GameHandles(a, home, None, SaveOf(home))
      BY <1>1, <1>4, <1>5, <1>13, <2>3
    <2> QED
      BY <1>13, <2>1, <2>2, <2>3 DEF GameUnregs
  <1>14. ASSUME NEW a \in Gates, Hears(home, a), GameReady(a, home)
         PROVE  Goal
    <2>1. ASSUME role[home] # None
          PROVE  LET r == [role[home] EXCEPT !.type = "none"]
                 IN (InMemory(r) <=> InMemory(role[home])) /\ r.ver = role[home].ver
      <3> DEFINE r == [role[home] EXCEPT !.type = "none"]
      <3>1. r \in Roles /\ r.st = role[home].st /\ r.ver = role[home].ver
        BY <1>1, <2>1 DEF Roles, LoginTypes
      <3> QED
        BY <2>1, <3>1, NoneAssumption DEF InMemory
    <2> QED
      BY <1>1, <1>7, <1>14, <2>1, SavingMail DEF GameReady
  <1>15. ASSUME NEW a \in Gates, Hears(home, a)
         PROVE  ~GameLosesGate(a, home)
    BY <1>1, <1>15, OnlyHome DEF GameLosesGate
  <1>16. CASE Hears("db", home) /\ DbHandles(home)
    <2> DEFINE m == Incoming(home, "db")
               c == wire[home]["db"]
               a == wire["db"][home]
               S == {x \in Msgs : x.kind \in {"save", "load"}}
               R == {x \in Msgs : x.kind = "record"}
               reply == [kind |-> "record", ver |-> stored]
               out == IF m.kind = "load" THEN To(home, reply) ELSE Nothing
    <2>1. /\ Handle(home, "db", out) /\ stored' = (IF m.kind = "save" THEN m.ver ELSE stored)
          /\ UNCHANGED <<home, role, version>>
      BY <1>16 DEF DbHandles, centerVars, counters
    <2>2. c \in Seq(S) /\ a \in Seq(R) /\ reply \in R
      BY DataTypes DEF TypeOK
    <2>3. /\ c # <<>> /\ m = c[1] /\ m \in S
      BY <1>16, <2>2, SeqStep DEF Hears, Incoming
    <2>4. /\ wire'[home]["db"] = Sent(Took(c, "db", home, home, "db"), "db", out, home, "db")
          /\ wire'["db"][home] = Sent(Took(a, "db", home, "db", home), "db", out, "db", home)
      BY <1>1, <1>16, <2>1, HandleChannels DEF AtHome
    <2>5. home # "db" /\ {"db", home} \in up
      BY <1>1, Ends, Connections DEF AtHome
    <2>6. /\ wire'[home]["db"] = Tail(c)
          /\ wire'["db"][home] = IF m.kind = "load" THEN Append(a, reply) ELSE a
      BY <2>4, <2>5 DEF Sent, Took, To, Each, Nothing
    <2>7. DataSafe(c, a, role[home], stored, version)
      BY <1>3
    <2> HIDE DEF m, c, a, reply, out
    <2>8. CASE m.kind = "save"
      <3>1. DataSafe(Tail(c), a, role[home], m.ver, version)
        BY <2>2, <2>3, <2>7, <2>8, DataStored
      <3> QED
        BY <2>1, <2>6, <2>8, <3>1
    <2>9. CASE m.kind = "load"
      <3>1. reply.ver = stored
        BY DEF reply
      <3>2. DataSafe(Tail(c), Append(a, reply), role[home], stored, version)
        BY <2>2, <2>3, <2>7, <2>9, <3>1, DataAnswered
      <3> QED
        BY <2>1, <2>6, <2>9, <3>2
    <2> QED
      BY <2>3, <2>8, <2>9
  <1> QED
    BY <1>2, <1>8, <1>9, <1>10, <1>11, <1>12, <1>13, <1>14, <1>15, <1>16 DEF GameStep

LEMMA PlayData ==
    ASSUME TypeOK, AtHome, NEW g \in Games, Play(g) \/ Autosave(g),
           DataSafe(wire[home]["db"], wire["db"][home], role[home], stored, version)
    PROVE  DataSafe(wire[home]["db"], wire["db"][home], role[home], stored, version)'
  <1> DEFINE c == wire[home]["db"]
             a == wire["db"][home]
             r == role[home]
             S == {m \in Msgs : m.kind \in {"save", "load"}}
  <1>1. /\ g = home /\ r \in Roles /\ InMemory(r) /\ version \in Nat /\ home \in Processes
        /\ home # "db" /\ "db" \in Processes /\ "db" \in Peers[home] /\ home \in Peers["db"]
        /\ {home, "db"} \in up
    <2>1. g = home /\ r \in Roles /\ InMemory(r)
      BY DEF Play, Autosave, AtHome, TypeOK, InMemory
    <2>2. /\ home \in Processes /\ home # "db" /\ "db" \in Processes
          /\ "db" \in Peers[home] /\ home \in Peers["db"]
      BY Connections DEF TypeOK
    <2>3. {home, "db"} \in up
      BY <2>2, Ends DEF AtHome
    <2>4. version \in Nat
      BY DEF TypeOK
    <2> QED
      BY <2>1, <2>2, <2>3, <2>4
  <1>2. CASE Play(g)
    <2>1. /\ UNCHANGED <<wire, home, stored>> /\ version' = version + 1
          /\ role' = [role EXCEPT ![home] = [r EXCEPT !.ver = @ + 1]]
      BY <1>1, <1>2 DEF Play, centerVars
    <2>2. role'[home] = [r EXCEPT !.ver = @ + 1]
      BY <1>1, <2>1 DEF TypeOK
    <2>3. role'[home] \in Roles /\ role'[home].st = "OK" /\ role'[home].ver = r.ver + 1
      BY <1>1, <2>2 DEF Roles, InMemory
    <2>4. InMemory(role'[home])
      BY <2>3, NoneAssumption DEF InMemory
    <2>5. DataSafe(c, a, role'[home], stored, version + 1)
      BY <1>1, <2>3, <2>4 DEF DataSafe
    <2> QED
      BY <2>1, <2>5
  <1>3. CASE Autosave(g)
    <2>1. UNCHANGED <<home, role, stored, version>> /\ wire' = Post(wire, home, SaveOf(home))
      BY <1>1, <1>3 DEF Autosave, Send, centerVars, dataVars, counters
    <2>2. /\ wire'["db"][home] = Sent(a, home, SaveOf(home), "db", home)
          /\ wire'[home]["db"] = Sent(c, home, SaveOf(home), home, "db")
      BY <1>1, <2>1, PostChannels DEF AtHome
    <2>3. "db" \in DOMAIN SaveOf(home) /\ SaveOf(home)["db"] = [kind |-> "save", ver |-> r.ver]
      BY <1>1 DEF SaveOf, Save, InMemory, To, Each
    <2>4. /\ wire'["db"][home] = a
          /\ wire'[home]["db"] = Append(c, [kind |-> "save", ver |-> r.ver])
      BY <1>1, <2>2, <2>3 DEF Sent
    <2>5. c \in Seq(S) /\ [kind |-> "save", ver |-> r.ver] \in S
      BY <1>1, DataTypes DEF Roles
    <2> HIDE DEF c, a, r, S
    <2>6. DataSafe(c, a, r, stored, version)
      BY DEF c, a, r
    <2>7. DataSafe(Append(c, [kind |-> "save", ver |-> r.ver]), a, r, stored, version)
      BY <1>1, <2>5, <2>6, DataLeaves
    <2> QED
      BY <2>1, <2>4, <2>7 DEF r
  <1> QED
    BY <1>2, <1>3

LEMMA InitData == Init => DataInv
  <1> SUFFICES ASSUME Init PROVE DataInv
    OBVIOUS
  <1>1. /\ home \in Processes /\ "db" \in Processes /\ "db" \in Peers[home] /\ home \in Peers["db"]
        /\ home \in Games
    BY Connections DEF Init
  <1>2. wire[home]["db"] = <<>> /\ wire["db"][home] = <<>> /\ role[home] = None
    BY <1>1 DEF Init
  <1>3. stored = version
    BY DEF Init
  <1>4. DataSafe(<<>>, <<>>, None, stored, version)
    BY <1>3 DEF DataSafe, Kept, InMemory
  <1> QED
    BY <1>2, <1>4 DEF DataInv

LEMMA NextData ==
    ASSUME TypeOK, Calm => AtHome, DataInv, [Next]_vars
    PROVE  DataInv'
  <1> SUFFICES ASSUME Calm', ~reloaded'
               PROVE  DataSafe(wire[home]["db"], wire["db"][home], role[home], stored, version)'
    BY DEF DataInv
  <1>1. AtHome /\ Calm
    BY NextHome, Incidents
  <1>2. ASSUME UNCHANGED <<home, role, stored, version, reloaded>>,
               NEW p \in Gates \cup {"center"}, NEW out,
               \/ Send(p, out)
               \/ \E q \in Peers[p] : Hears(p, q) /\ Handle(q, p, out)
        PROVE  DataSafe(wire[home]["db"], wire["db"][home], role[home], stored, version)'
    <2>1. wire'[home]["db"] = wire[home]["db"] /\ wire'["db"][home] = wire["db"][home]
      BY <1>1, <1>2, DataChannels
    <2> QED
      BY <1>1, <1>2, <2>1 DEF DataInv
  <1>3. ASSUME NEW a \in Gates, PlayerStep(a)
        PROVE  DataSafe(wire[home]["db"], wire["db"][home], role[home], stored, version)'
    <2>1. UNCHANGED <<home, role, stored, version, reloaded>> /\ \E out : Send(a, out)
      BY <1>1, <1>3, PlayerHome
    <2> QED
      BY <1>2, <2>1
  <1>4. ASSUME NEW a \in Gates, GateStep(a)
        PROVE  DataSafe(wire[home]["db"], wire["db"][home], role[home], stored, version)'
    <2>1. /\ UNCHANGED <<home, role, stored, version, reloaded>>
          /\ \E q \in Peers[a] : \E out : Hears(a, q) /\ Handle(q, a, out)
      BY <1>1, <1>4, GateHome
    <2> QED
      BY <1>2, <2>1
  <1>5. CASE CenterStep
    <2>1. /\ UNCHANGED <<home, role, stored, version, reloaded>>
          /\ \E q \in Peers["center"] : \E out : Hears("center", q) /\ Handle(q, "center", out)
      BY <1>1, <1>5, CenterHome
    <2> QED
      BY <1>2, <2>1
  <1>6. ASSUME NEW g \in Games, GameStep(g)
        PROVE  DataSafe(wire[home]["db"], wire["db"][home], role[home], stored, version)'
    BY <1>1, <1>6, GameData
  <1>7. ASSUME NEW g \in Games, Play(g) \/ Autosave(g)
        PROVE  DataSafe(wire[home]["db"], wire["db"][home], role[home], stored, version)'
    <2>1. ~reloaded
      BY <1>7 DEF Play, Autosave, counters, histories
    <2> QED
      BY <1>1, <1>7, <2>1, PlayData DEF DataInv
  <1>8. ~ \E l \in Links \ up : LinkReturns(l)
    BY <1>1 DEF AtHome
  <1>9. CASE UNCHANGED vars
    BY <1>1, <1>9 DEF DataInv, vars, gateVars, centerVars, dataVars, counters, histories
  <1> QED
    BY <1>3, <1>4, <1>5, <1>6, <1>7, <1>8, <1>9, Incidents

LEMMA ClusterInvariant == Spec => [](TypeOK /\ (Calm => AtHome) /\ DataInv)
  <1> DEFINE Inv == TypeOK /\ (Calm => AtHome) /\ DataInv
  <1>1. Init => Inv
    BY InitTypes, InitHome, InitData
  <1>2. Inv /\ [Next]_vars => Inv'
    BY NextTypes, NextHome, NextData
  <1> QED
    BY <1>1, <1>2, PTL DEF Spec

\* As long as nobody jumped and nothing failed, only one game knows the player,
\* the one whose scene center keeps for the user: there the role is loaded, there
\* it plays, and no gate forwards to another.
THEOREM ClusterAtHome ==
    Spec => [](jumps = 0 /\ faults = 0 =>
                 /\ user # None => user.game = home
                 /\ \A a \in Gates : listed[a] \subseteq {home}
                 /\ \A g \in Games : role[g] # None => g = home)
  <1>1. TypeOK /\ (Calm => AtHome) /\ DataInv =>
          (jumps = 0 /\ faults = 0 =>
                 /\ user # None => user.game = home
                 /\ \A a \in Gates : listed[a] \subseteq {home}
                 /\ \A g \in Games : role[g] # None => g = home)
    BY DEF Calm, AtHome
  <1> QED
    BY <1>1, ClusterInvariant, PTL

\* What the player did is in the database when no game plays the role any more,
\* for any number of gates, games and logins, refused and repeated ones included.
THEOREM ClusterDataKept == Spec => []DataKept
  <1>1. ASSUME TypeOK, Calm => AtHome, DataInv
        PROVE  DataKept
    <2> SUFFICES ASSUME Quiet, faults = 0, jumps = 0, ~reloaded, \A g \in Games : role[g] = None
                 PROVE  stored = version
      BY DEF DataKept
    <2>1. home \in Games /\ home \in Processes /\ "db" \in Peers[home]
      BY <1>1, Connections DEF TypeOK
    <2>2. wire[home]["db"] = <<>> /\ role[home] = None
      BY <2>1 DEF Quiet
    <2>3. DataSafe(<<>>, wire["db"][home], None, stored, version)
      BY <1>1, <2>2 DEF DataInv, Calm
    <2> QED
      BY <2>3 DEF DataSafe, Kept, InMemory
  <1> QED
    BY <1>1, ClusterInvariant, PTL

=============================================================================
