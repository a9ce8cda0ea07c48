------------------------- MODULE TableClient_proof -------------------------
(***************************************************************************)
(* Proofs about TableClient, for any number of hands, decisions, actions   *)
(* under way and lost connections: its five invariants.                    *)
(*                                                                         *)
(* None is inductive, for each speaks of what the client has taken and the *)
(* messages under way are still to come.  A message sets a part of the     *)
(* room or keeps it, so that the last one to set a part decides what the   *)
(* room comes to (SettleInv); which decisions the messages may still ask,  *)
(* and in which order, is what the pre-action rests on (AskInv, GapInv);   *)
(* an action under way is for what the actor asks (PendingInv).            *)
(***************************************************************************)
EXTENDS TableClient, TLAPS

Phases == {"idle", "betting", "reveal"}
Questions == [id : Decisions, toCall : {0, 1}]

Messages ==
  {Connected, HandResult}
    \cup {TableState(ph, t) : ph \in Phases, t \in Turns}
    \cup {YourHoleCards(h) : h \in 0 .. MaxHands}
    \cup {ShowdownReveal(h) : h \in 0 .. MaxHands}
    \cup {ActionRequired(t, d) : t \in {"me", "other"}, d \in Questions}

(* What a message sets, of each part of the room: << >> if it keeps it.    *)
StateIn == [m \in Messages |->
  IF m.type = "TableState" THEN <<<<m.inProgress, m.turn>>>> ELSE << >>]
HoleIn == [m \in Messages |->
  IF m.type = "YourHoleCards" THEN <<m.hand>>
  ELSE IF m.type = "HandResult" THEN <<0>> ELSE << >>]
RevealIn == [m \in Messages |->
  IF m.type = "ShowdownReveal" THEN <<m.hand>>
  ELSE IF m.type = "HandResult" THEN <<0>> ELSE << >>]
AskedIn == [m \in Messages |->
  IF m.type = "ActionRequired" /\ m.player = "me" THEN <<m.asked>>
  ELSE IF \/ m.type \in {"ActionRequired", "ShowdownReveal", "HandResult"}
          \/ m.type = "TableState" /\ ~(m.inProgress /\ m.turn = "me")
  THEN <<NoDecision>> ELSE << >>]

(* A part that is r comes to v with the messages q.                        *)
Settles(f, q, r, v) ==
  \/ (\A k \in 1 .. Len(q) : f[q[k]] = << >>) /\ r = v
  \/ \E k \in 1 .. Len(q) :
       f[q[k]] = <<v>> /\ \A j \in 1 .. Len(q) : j > k => f[q[j]] = << >>

(* What the actor would show.                                              *)
ShownState  == <<phase # "idle", turn>>
ShownHole   == IF phase = "idle" THEN 0 ELSE hand
ShownReveal == IF phase = "reveal" THEN hand ELSE 0
ShownAsked  == IF turn = "me" THEN decision ELSE NoDecision

SettleInv ==
  link = "up" =>
    /\ Settles(StateIn, down, <<room.inProgress, room.turn>>, ShownState)
    /\ Settles(AskedIn, down, room.asked, ShownAsked)
    /\ phase # "idle" \/ drops = 0 => Settles(HoleIn, down, room.hole, ShownHole)
    /\ drops = 0 => Settles(RevealIn, down, room.reveal, ShownReveal)

TypeInv == TypeOK /\ down \in Seq(Messages)

(* The actor asks while it bets, and a link that is down carries nothing.  *)
ServerInv ==
  /\ phase = "betting" <=> turn # "nobody"
  /\ turn # "nobody" => decision # NoDecision
  /\ link = "down" => down = << >> /\ up = << >> /\ drops > 0
  /\ link = "up" => known \/ (down # << >> /\ Head(down) = Connected)

-----------------------------------------------------------------------------
(* Message k of q asks me for d, or keeps what is asked.                   *)
Asks(q, k, d) == AskedIn[q[k]] = <<d>>
Keeps(q, k)   == AskedIn[q[k]] = << >>

(* Questions come in order, and none is ahead of the actor.                *)
Ordered(q) ==
  \A j, k \in 1 .. Len(q) : \A c, d \in Questions :
    j < k /\ Asks(q, j, c) /\ Asks(q, k, d) => c.id < d.id

(* What the client has been asked, has answered or is about to.            *)
Seen == answered \cup {timer.id, room.asked.id}

AskInv ==
  /\ Ordered(down)
  /\ \A k \in 1 .. Len(down) : \A d \in Questions : Asks(down, k, d) =>
       /\ d.id <= decision.id
       /\ d.id = decision.id => d = decision
       \* Fresh: it was not seen before, or it is what the room shows
       /\ \/ \A x \in Seen : x < d.id
          \/ room.asked = d /\ \A i \in 1 .. k - 1 : Keeps(down, i)
  /\ \A x \in Seen : x <= decision.id
  \* Held: what was seen of the current decision stays
  /\ turn = "me" /\ decision.id \in Seen =>
       /\ room.asked = decision
       /\ \A k \in 1 .. Len(down) : Keeps(down, k) \/ Asks(down, k, decision)

TimerInv ==
  /\ auto \subseteq answered
  /\ timer # Nothing =>
       /\ MyTurn /\ pre # "none" /\ timer.id \notin auto
       /\ timer.id \notin answered \/ impatient

(* A decision the client may act on is the current one, or was acted on.   *)
Due(n) == n = 0 \/ (turn = "me" /\ n = decision.id) \/ n \in late \cup answered

PendingInv ==
  ~Muddled =>
    /\ Due(room.asked.id) /\ Due(timer.id)
    /\ \A k \in 1 .. Len(down) : \A d \in Questions : Asks(down, k, d) => Due(d.id)
    /\ up # << >> => /\ Len(up) = 1 /\ turn = "me"
                     /\ up[1].id = decision.id /\ decision.id \in answered

(* Two questions with no break between them: the first was answered, or    *)
(* was lost to the clock while the client was not connected.               *)
GapInv ==
  ~Muddled =>
    /\ \A j, k \in 1 .. Len(down) : \A c, d \in Questions :
         /\ j < k /\ Asks(down, j, c) /\ Asks(down, k, d)
         /\ \A i \in j + 1 .. k - 1 : Keeps(down, i)
         => c.id \in answered
    /\ timer # Nothing /\ ~impatient =>
         \A k \in 1 .. Len(down) : \A d \in Questions :
           /\ Asks(down, k, d) /\ d # room.asked
           /\ \A i \in 1 .. k - 1 : Keeps(down, i)
           => room.asked.id \in answered \/ Overtaken

IInv == /\ TypeInv /\ ServerInv /\ SettleInv /\ AskInv /\ TimerInv
        /\ PendingInv /\ GapInv /\ PreActionIsForThisDecision

-----------------------------------------------------------------------------
(* Sequences.                                                              *)
LEMMA Behind ==
  ASSUME NEW S, NEW q \in Seq(S), q # << >>
  PROVE  /\ Len(q) \in Nat /\ Len(q) >= 1
         /\ Tail(q) \in Seq(S) /\ Len(Tail(q)) = Len(q) - 1
         /\ Head(q) = q[1] /\ Head(q) \in S
         /\ \A k \in 1 .. Len(q) - 1 : Tail(q)[k] = q[k + 1]
OBVIOUS

LEMMA Joined ==
  ASSUME NEW S, NEW q \in Seq(S), NEW s \in Seq(S)
  PROVE  /\ Len(q) \in Nat /\ Len(s) \in Nat
         /\ q \o s \in Seq(S) /\ Len(q \o s) = Len(q) + Len(s)
         /\ \A k \in 1 .. Len(q) : (q \o s)[k] = q[k]
         /\ \A k \in 1 .. Len(s) : (q \o s)[Len(q) + k] = s[k]
OBVIOUS

LEMMA JoinedThree ==
  ASSUME NEW S, NEW q \in Seq(S), NEW x \in S, NEW y \in S, NEW z \in S
  PROVE  /\ q \o <<x, y, z>> \in Seq(S) /\ Len(q \o <<x, y, z>>) = Len(q) + 3
         /\ \A k \in 1 .. Len(q) : (q \o <<x, y, z>>)[k] = q[k]
         /\ (q \o <<x, y, z>>)[Len(q) + 1] = x
         /\ (q \o <<x, y, z>>)[Len(q) + 2] = y
         /\ (q \o <<x, y, z>>)[Len(q) + 3] = z
<1>1. ASSUME NEW s \in Seq(S), Len(s) = 3
      PROVE  /\ q \o s \in Seq(S) /\ Len(q \o s) = Len(q) + 3
             /\ \A k \in 1 .. Len(q) : (q \o s)[k] = q[k]
             /\ (q \o s)[Len(q) + 1] = s[1]
             /\ (q \o s)[Len(q) + 2] = s[2]
             /\ (q \o s)[Len(q) + 3] = s[3]
  <2>1. /\ q \o s \in Seq(S) /\ Len(q \o s) = Len(q) + Len(s)
        /\ \A k \in 1 .. Len(q) : (q \o s)[k] = q[k]
        /\ \A k \in 1 .. Len(s) : (q \o s)[Len(q) + k] = s[k]
    BY Joined
  <2> QED
    BY <1>1, <2>1
<1>2. /\ <<x, y, z>> \in Seq(S) /\ Len(<<x, y, z>>) = 3
      /\ <<x, y, z>>[1] = x /\ <<x, y, z>>[2] = y /\ <<x, y, z>>[3] = z
  OBVIOUS
<1> QED
  BY <1>1, <1>2

LEMMA JoinedOne ==
  ASSUME NEW S, NEW q \in Seq(S), NEW x \in S
  PROVE  /\ q \o <<x>> \in Seq(S) /\ Len(q \o <<x>>) = Len(q) + 1 /\ Len(q) \in Nat
         /\ \A k \in 1 .. Len(q) : (q \o <<x>>)[k] = q[k]
         /\ (q \o <<x>>)[Len(q) + 1] = x
<1>1. ASSUME NEW s \in Seq(S), Len(s) = 1
      PROVE  /\ q \o s \in Seq(S) /\ Len(q \o s) = Len(q) + 1 /\ Len(q) \in Nat
             /\ \A k \in 1 .. Len(q) : (q \o s)[k] = q[k]
             /\ (q \o s)[Len(q) + 1] = s[1]
  <2>1. /\ q \o s \in Seq(S) /\ Len(q \o s) = Len(q) + Len(s) /\ Len(q) \in Nat
        /\ \A k \in 1 .. Len(q) : (q \o s)[k] = q[k]
        /\ \A k \in 1 .. Len(s) : (q \o s)[Len(q) + k] = s[k]
    BY Joined
  <2> QED
    BY <1>1, <2>1
<1>2. <<x>> \in Seq(S) /\ Len(<<x>>) = 1 /\ <<x>>[1] = x
  OBVIOUS
<1> QED
  BY <1>1, <1>2

(* Two, and one more, and one more.                                        *)
LEMMA JoinedOnes ==
  ASSUME NEW S, NEW w \in S, NEW x \in S, NEW y \in S
  PROVE  LET q == <<w, x>> \o <<y>> IN
         /\ q \in Seq(S) /\ Len(q) = 3 /\ q # << >> /\ Head(q) = w
         /\ q[1] = w /\ q[2] = x /\ q[3] = y /\ q \o << >> = q
         /\ \A z \in S :
              /\ q \o <<z>> \in Seq(S) /\ Len(q \o <<z>>) = 4 /\ q \o <<z>> # << >>
              /\ Head(q \o <<z>>) = w /\ (q \o <<z>>)[1] = w /\ (q \o <<z>>)[2] = x
              /\ (q \o <<z>>)[3] = y /\ (q \o <<z>>)[4] = z
<1>1. ASSUME NEW q \in Seq(S), Len(q) = 3, NEW z \in S
      PROVE  /\ q \o <<z>> \in Seq(S) /\ Len(q \o <<z>>) = 4 /\ q \o <<z>> # << >>
             /\ Head(q \o <<z>>) = q[1] /\ (q \o <<z>>)[1] = q[1] /\ (q \o <<z>>)[2] = q[2]
             /\ (q \o <<z>>)[3] = q[3] /\ (q \o <<z>>)[4] = z
  <2>1. /\ q \o <<z>> \in Seq(S) /\ Len(q \o <<z>>) = Len(q) + 1
        /\ \A k \in 1 .. Len(q) : (q \o <<z>>)[k] = q[k]
        /\ (q \o <<z>>)[Len(q) + 1] = z
    BY JoinedOne
  <2>2. q \o <<z>> # << >>
    BY <1>1, <2>1
  <2>3. Head(q \o <<z>>) = (q \o <<z>>)[1]
    BY <2>1, <2>2, Behind
  <2> QED
    BY <1>1, <2>1, <2>2, <2>3
<1>2. ASSUME NEW p \in Seq(S), Len(p) = 2
      PROVE  /\ p \o <<y>> \in Seq(S) /\ Len(p \o <<y>>) = 3 /\ p \o <<y>> # << >>
             /\ Head(p \o <<y>>) = p[1] /\ (p \o <<y>>)[1] = p[1] /\ (p \o <<y>>)[2] = p[2]
             /\ (p \o <<y>>)[3] = y /\ (p \o <<y>>) \o << >> = p \o <<y>>
  <2>1. /\ p \o <<y>> \in Seq(S) /\ Len(p \o <<y>>) = Len(p) + 1
        /\ \A k \in 1 .. Len(p) : (p \o <<y>>)[k] = p[k]
        /\ (p \o <<y>>)[Len(p) + 1] = y
    BY JoinedOne
  <2>2. p \o <<y>> # << >>
    BY <1>2, <2>1
  <2>3. Head(p \o <<y>>) = (p \o <<y>>)[1]
    BY <2>1, <2>2, Behind
  <2>4. \A r \in Seq(S) : r \o << >> = r
    OBVIOUS
  <2> QED
    BY <1>2, <2>1, <2>2, <2>3, <2>4
<1>3. <<w, x>> \in Seq(S) /\ Len(<<w, x>>) = 2 /\ <<w, x>>[1] = w /\ <<w, x>>[2] = x
  OBVIOUS
<1>4. LET q == <<w, x>> \o <<y>> IN
      /\ q \in Seq(S) /\ Len(q) = 3 /\ q # << >> /\ Head(q) = w
      /\ q[1] = w /\ q[2] = x /\ q[3] = y /\ q \o << >> = q
  BY <1>2, <1>3
<1> QED
  BY <1>1, <1>4

(* An index of the joined sequence is one of either part.                  *)
LEMMA JoinedIndex ==
  ASSUME NEW S, NEW q \in Seq(S), NEW s \in Seq(S), NEW k \in 1 .. Len(q \o s)
  PROVE  \/ k \in 1 .. Len(q) /\ (q \o s)[k] = q[k]
         \/ /\ k > Len(q) /\ k - Len(q) \in 1 .. Len(s)
            /\ (q \o s)[k] = s[k - Len(q)]
<1>1. Len(q) \in Nat /\ Len(s) \in Nat /\ Len(q \o s) = Len(q) + Len(s)
  BY Joined
<1>2. CASE k <= Len(q)
  BY <1>1, <1>2, Joined
<1>3. CASE k > Len(q)
  <2>1. k - Len(q) \in 1 .. Len(s) /\ Len(q) + (k - Len(q)) = k
    BY <1>1, <1>3
  <2> QED
    BY <1>3, <2>1, Joined
<1> QED
  BY <1>1, <1>2, <1>3

(* Taking the first message that keeps the part, or sets it.               *)
LEMMA ReadKeeps ==
  ASSUME NEW f, NEW S, NEW q \in Seq(S), q # << >>, NEW r, NEW v,
         Settles(f, q, r, v), f[Head(q)] = << >>
  PROVE  Settles(f, Tail(q), r, v)
<1>1. /\ Len(q) \in Nat /\ Len(q) >= 1 /\ Len(Tail(q)) = Len(q) - 1 /\ Head(q) = q[1]
      /\ \A k \in 1 .. Len(q) - 1 : Tail(q)[k] = q[k + 1]
  BY Behind
<1>2. CASE (\A k \in 1 .. Len(q) : f[q[k]] = << >>) /\ r = v
  <2>1. \A k \in 1 .. Len(Tail(q)) : f[Tail(q)[k]] = << >>
    BY <1>1, <1>2
  <2> QED
    BY <1>2, <2>1 DEF Settles
<1>3. CASE \E k \in 1 .. Len(q) :
             f[q[k]] = <<v>> /\ \A j \in 1 .. Len(q) : j > k => f[q[j]] = << >>
  <2>1. PICK k \in 1 .. Len(q) :
          f[q[k]] = <<v>> /\ \A j \in 1 .. Len(q) : j > k => f[q[j]] = << >>
    BY <1>3
  <2>2. <<v>> # << >>
    OBVIOUS
  <2>3. k # 1
    BY <1>1, <2>1, <2>2
  <2>4. k - 1 \in 1 .. Len(Tail(q)) /\ Tail(q)[k - 1] = q[k]
    BY <1>1, <2>3
  <2>5. \A j \in 1 .. Len(Tail(q)) : j > k - 1 => f[Tail(q)[j]] = << >>
    BY <1>1, <2>1
  <2> QED
    BY <2>1, <2>4, <2>5 DEF Settles
<1> QED
  BY <1>2, <1>3 DEF Settles

LEMMA ReadSets ==
  ASSUME NEW f, NEW S, NEW q \in Seq(S), q # << >>, NEW r, NEW v, NEW x,
         Settles(f, q, r, v), f[Head(q)] = <<x>>
  PROVE  Settles(f, Tail(q), x, v)
<1>1. /\ Len(q) \in Nat /\ Len(q) >= 1 /\ Len(Tail(q)) = Len(q) - 1 /\ Head(q) = q[1]
      /\ \A k \in 1 .. Len(q) - 1 : Tail(q)[k] = q[k + 1]
  BY Behind
<1>2. <<x>> # << >>
  OBVIOUS
<1>3. PICK k \in 1 .. Len(q) :
        f[q[k]] = <<v>> /\ \A j \in 1 .. Len(q) : j > k => f[q[j]] = << >>
  <2>1. 1 \in 1 .. Len(q)
    BY <1>1
  <2>2. f[q[1]] = <<x>>
    BY <1>1, Zenon
  <2>3. f[q[1]] # << >>
    BY <1>2, <2>2, Zenon
  <2> QED
    BY <2>1, <2>3 DEF Settles
<1>4. CASE k = 1
  <2>1. <<x>> = <<v>>
    BY <1>1, <1>3, <1>4
  <2>2. x = v
    BY <2>1
  <2>3. \A j \in 1 .. Len(Tail(q)) : f[Tail(q)[j]] = << >>
    BY <1>1, <1>3, <1>4
  <2> QED
    BY <2>2, <2>3 DEF Settles
<1>5. CASE k # 1
  <2>1. k - 1 \in 1 .. Len(Tail(q)) /\ Tail(q)[k - 1] = q[k]
    BY <1>1, <1>5
  <2>2. \A j \in 1 .. Len(Tail(q)) : j > k - 1 => f[Tail(q)[j]] = << >>
    BY <1>1, <1>3
  <2> QED
    BY <1>3, <2>1, <2>2 DEF Settles
<1> QED
  BY <1>4, <1>5

(* Messages sent after others: they set the part, or bring it from what    *)
(* the others left.                                                        *)
LEMMA SentSets ==
  ASSUME NEW f, NEW S, NEW q \in Seq(S), NEW s \in Seq(S), NEW r, NEW v,
         NEW n \in 1 .. Len(s), f[s[n]] = <<v>>,
         \A j \in 1 .. Len(s) : j > n => f[s[j]] = << >>
  PROVE  Settles(f, q \o s, r, v)
<1>1. /\ Len(q) \in Nat /\ Len(s) \in Nat /\ Len(q \o s) = Len(q) + Len(s)
      /\ \A k \in 1 .. Len(s) : (q \o s)[Len(q) + k] = s[k]
  BY Joined
<1>2. Len(q) + n \in 1 .. Len(q \o s) /\ (q \o s)[Len(q) + n] = s[n]
  BY <1>1
<1>3. ASSUME NEW j \in 1 .. Len(q \o s), j > Len(q) + n
      PROVE  f[(q \o s)[j]] = << >>
  <2>1. j - Len(q) \in 1 .. Len(s) /\ j - Len(q) > n /\ (q \o s)[j] = s[j - Len(q)]
    BY <1>1, <1>3, JoinedIndex
  <2> QED
    BY <2>1
<1> QED
  BY <1>2, <1>3 DEF Settles

LEMMA SentKeeps ==
  ASSUME NEW f, NEW S, NEW q \in Seq(S), NEW s \in Seq(S), NEW r, NEW v,
         Settles(f, q, r, v), \A j \in 1 .. Len(s) : f[s[j]] = << >>
  PROVE  Settles(f, q \o s, r, v)
<1>1. /\ Len(q) \in Nat /\ Len(s) \in Nat /\ Len(q \o s) = Len(q) + Len(s)
      /\ \A k \in 1 .. Len(q) : (q \o s)[k] = q[k]
  BY Joined
<1>2. CASE (\A k \in 1 .. Len(q) : f[q[k]] = << >>) /\ r = v
  <2>1. \A k \in 1 .. Len(q \o s) : f[(q \o s)[k]] = << >>
    BY <1>2, JoinedIndex
  <2> QED
    BY <1>2, <2>1 DEF Settles
<1>3. CASE \E k \in 1 .. Len(q) :
             f[q[k]] = <<v>> /\ \A j \in 1 .. Len(q) : j > k => f[q[j]] = << >>
  <2>1. PICK k \in 1 .. Len(q) :
          f[q[k]] = <<v>> /\ \A j \in 1 .. Len(q) : j > k => f[q[j]] = << >>
    BY <1>3
  <2>2. k \in 1 .. Len(q \o s) /\ (q \o s)[k] = q[k]
    BY <1>1
  <2>3. \A j \in 1 .. Len(q \o s) : j > k => f[(q \o s)[j]] = << >>
    BY <2>1, JoinedIndex
  <2> QED
    BY <2>1, <2>2, <2>3 DEF Settles
<1> QED
  BY <1>2, <1>3 DEF Settles

-----------------------------------------------------------------------------
(* The messages.                                                           *)
LEMMA Kinds ==
  ASSUME NEW m \in Messages
  PROVE  \/ m = Connected
         \/ m = HandResult
         \/ \E ph \in Phases, t \in Turns : m = TableState(ph, t)
         \/ \E h \in 0 .. MaxHands : m = YourHoleCards(h)
         \/ \E h \in 0 .. MaxHands : m = ShowdownReveal(h)
         \/ \E t \in {"me", "other"}, d \in Questions : m = ActionRequired(t, d)
BY DEF Messages

LEMMA Questioned ==
  ASSUME NEW d \in Questions
  PROVE  /\ d \in Asked /\ d # NoDecision /\ d.id \in Decisions /\ d.id \in Nat /\ d.id >= 1
         /\ d.toCall \in {0, 1}
BY BoundsAssumption DEF Questions, Asked, NoDecision, Decisions

LEMMA AskedIs ==
  ASSUME NEW d \in Asked
  PROVE  /\ d.id \in Nat /\ (d # NoDecision => d \in Questions) /\ (d.id = 0 <=> d = NoDecision)
BY BoundsAssumption DEF Questions, Asked, NoDecision, Decisions

(* What each message sets.                                                 *)
LEMMA ConnectedSets ==
  /\ Connected \in Messages /\ StateIn[Connected] = << >> /\ HoleIn[Connected] = << >>
  /\ RevealIn[Connected] = << >> /\ AskedIn[Connected] = << >>
BY DEF Messages, Connected, StateIn, HoleIn, RevealIn, AskedIn

LEMMA HandResultSets ==
  /\ HandResult \in Messages /\ StateIn[HandResult] = << >> /\ HoleIn[HandResult] = <<0>>
  /\ RevealIn[HandResult] = <<0>> /\ AskedIn[HandResult] = <<NoDecision>>
BY DEF Messages, HandResult, StateIn, HoleIn, RevealIn, AskedIn

LEMMA TableStateSets ==
  ASSUME NEW ph \in Phases, NEW t \in Turns
  PROVE  LET m == TableState(ph, t) IN
         /\ m \in Messages
         /\ StateIn[m] = <<<<ph # "idle", t>>>> /\ HoleIn[m] = << >> /\ RevealIn[m] = << >>
         /\ AskedIn[m] = IF ph # "idle" /\ t = "me" THEN << >> ELSE <<NoDecision>>
<1> DEFINE m == TableState(ph, t)
<1>1. m \in Messages
  BY DEF Messages
<1>2. m.type = "TableState" /\ m.inProgress = (ph # "idle") /\ m.turn = t
  BY DEF TableState
<1> QED
  BY <1>1, <1>2 DEF StateIn, HoleIn, RevealIn, AskedIn

LEMMA YourHoleCardsSets ==
  ASSUME NEW h \in 0 .. MaxHands
  PROVE  LET m == YourHoleCards(h) IN
         /\ m \in Messages
         /\ StateIn[m] = << >> /\ HoleIn[m] = <<h>> /\ RevealIn[m] = << >>
         /\ AskedIn[m] = << >>
<1> DEFINE m == YourHoleCards(h)
<1>1. m \in Messages
  BY DEF Messages
<1>2. m.type = "YourHoleCards" /\ m.hand = h
  BY DEF YourHoleCards
<1> QED
  BY <1>1, <1>2 DEF StateIn, HoleIn, RevealIn, AskedIn

LEMMA ShowdownRevealSets ==
  ASSUME NEW h \in 0 .. MaxHands
  PROVE  LET m == ShowdownReveal(h) IN
         /\ m \in Messages
         /\ StateIn[m] = << >> /\ HoleIn[m] = << >> /\ RevealIn[m] = <<h>>
         /\ AskedIn[m] = <<NoDecision>>
<1> DEFINE m == ShowdownReveal(h)
<1>1. m \in Messages
  BY DEF Messages
<1>2. m.type = "ShowdownReveal" /\ m.hand = h
  BY DEF ShowdownReveal
<1> QED
  BY <1>1, <1>2 DEF StateIn, HoleIn, RevealIn, AskedIn

LEMMA ActionRequiredSets ==
  ASSUME NEW t \in {"me", "other"}, NEW d \in Questions
  PROVE  LET m == ActionRequired(t, d) IN
         /\ m \in Messages
         /\ StateIn[m] = << >> /\ HoleIn[m] = << >> /\ RevealIn[m] = << >>
         /\ AskedIn[m] = <<IF t = "me" THEN d ELSE NoDecision>>
<1> DEFINE m == ActionRequired(t, d)
<1>1. m \in Messages
  BY DEF Messages
<1>2. m.type = "ActionRequired" /\ m.player = t /\ m.asked = d
  BY DEF ActionRequired
<1> QED
  BY <1>1, <1>2 DEF StateIn, HoleIn, RevealIn, AskedIn

(* A handler sets the parts its message sets and keeps the others: what    *)
(* follows is the only fact about Take that the proofs use.                *)
Effected(f, m, old, new) == (f[m] = << >> /\ new = old) \/ f[m] = <<new>>

EffectedRoom(m, r, n) ==
  /\ n \in Rooms
  /\ Effected(StateIn, m, <<r.inProgress, r.turn>>, <<n.inProgress, n.turn>>)
  /\ Effected(HoleIn, m, r.hole, n.hole)
  /\ Effected(RevealIn, m, r.reveal, n.reveal)
  /\ Effected(AskedIn, m, r.asked, n.asked)

LEMMA Taken ==
  ASSUME NEW m \in Messages, NEW r \in Rooms, known \/ m = Connected
  PROVE  EffectedRoom(m, r, Take(m, r))
<1> USE DEF Effected, EffectedRoom
<1>0. 0 \in 0 .. MaxHands /\ NoDecision \in Asked
  BY BoundsAssumption DEF Asked
<1>1. CASE m = Connected
  <2>1. Take(m, r) = r
    BY <1>1 DEF Connected, Take
  <2> QED
    BY <1>1, <2>1, ConnectedSets
<1>2. CASE m = HandResult
  <2>1. Take(m, r) = [r EXCEPT !.reveal = 0, !.hole = 0, !.asked = NoDecision]
    BY <1>2 DEF HandResult, Take, TakeHandResult
  <2> QED
    BY <1>0, <1>2, <2>1, HandResultSets DEF Rooms
<1>3. ASSUME NEW ph \in Phases, NEW t \in Turns, m = TableState(ph, t) PROVE EffectedRoom(m, r, Take(m, r))
  <2>1. known
    BY <1>3 DEF Connected, TableState
  <2>2. Take(m, r) = [r EXCEPT !.inProgress = (ph # "idle"), !.turn = t,
                               !.asked = IF ph # "idle" /\ t = "me" THEN @ ELSE NoDecision]
    BY <1>3, <2>1 DEF TableState, Take, TakeTableState
  <2> DEFINE n == Take(m, r)
  <2>3. /\ n \in Rooms /\ n.inProgress = (ph # "idle") /\ n.turn = t
        /\ n.hole = r.hole /\ n.reveal = r.reveal
        /\ n.asked = IF ph # "idle" /\ t = "me" THEN r.asked ELSE NoDecision
    BY <1>0, <2>2 DEF Rooms
  <2>4. /\ StateIn[m] = <<<<ph # "idle", t>>>> /\ HoleIn[m] = << >> /\ RevealIn[m] = << >>
        /\ AskedIn[m] = IF ph # "idle" /\ t = "me" THEN << >> ELSE <<NoDecision>>
    BY <1>3, TableStateSets
  <2> HIDE DEF n
  <2>5. EffectedRoom(m, r, n)
    BY <2>3, <2>4
  <2> QED
    BY <2>5 DEF n
<1>4. ASSUME NEW h \in 0 .. MaxHands, m = YourHoleCards(h) PROVE EffectedRoom(m, r, Take(m, r))
  <2>1. Take(m, r) = [r EXCEPT !.hole = h]
    BY <1>4 DEF YourHoleCards, Take
  <2> QED
    BY <1>4, <2>1, YourHoleCardsSets DEF Rooms
<1>5. ASSUME NEW h \in 0 .. MaxHands, m = ShowdownReveal(h) PROVE EffectedRoom(m, r, Take(m, r))
  <2>1. Take(m, r) = [r EXCEPT !.reveal = h, !.asked = NoDecision]
    BY <1>5 DEF ShowdownReveal, Take
  <2> QED
    BY <1>0, <1>5, <2>1, ShowdownRevealSets DEF Rooms
<1>6. ASSUME NEW t \in {"me", "other"}, NEW d \in Questions, m = ActionRequired(t, d)
      PROVE  EffectedRoom(m, r, Take(m, r))
  <2>1. known
    BY <1>6 DEF Connected, ActionRequired
  <2>2. Take(m, r) = [r EXCEPT !.asked = IF t = "me" THEN d ELSE NoDecision]
    BY <1>6, <2>1 DEF ActionRequired, Take, TakeActionRequired
  <2>3. d \in Asked
    BY Questioned
  <2> QED
    BY <1>0, <1>6, <2>2, <2>3, ActionRequiredSets DEF Rooms
<1> QED
  BY <1>1, <1>2, <1>3, <1>4, <1>5, <1>6, Kinds

-----------------------------------------------------------------------------
(* What a command of the actor broadcasts.                                 *)
LastSets(f, ms, v) ==
  \E n \in 1 .. Len(ms) :
    f[ms[n]] = <<v>> /\ \A j \in 1 .. Len(ms) : j > n => f[ms[j]] = << >>

AllKeep(f, ms) == \A n \in 1 .. Len(ms) : f[ms[n]] = << >>

(* They bring the client to what the actor shows now; they ask me at most  *)
(* once, for a new decision; and if nothing comes between that and the     *)
(* question before, the latter was answered.                               *)
Tells(ms) ==
  /\ ms \in Seq(Messages) /\ Broadcast(ms)
  /\ LastSets(StateIn, ms, ShownState') /\ LastSets(AskedIn, ms, ShownAsked')
  /\ \/ LastSets(HoleIn, ms, ShownHole')
     \/ AllKeep(HoleIn, ms) /\ ShownHole' = ShownHole /\ phase # "idle"
  /\ \/ LastSets(RevealIn, ms, ShownReveal')
     \/ AllKeep(RevealIn, ms) /\ ShownReveal' = ShownReveal
  /\ \A i \in 1 .. Len(ms) : \A d \in Questions : Asks(ms, i, d) =>
       /\ d = decision' /\ turn' = "me" /\ decision'.id = decision.id + 1
       /\ \A j \in 1 .. Len(ms) : \A c \in Questions : Asks(ms, j, c) => i = j
       /\ (\A j \in 1 .. i - 1 : Keeps(ms, j)) =>
            turn # "me" \/ Muddled \/ decision.id \in answered

(* The actor after a command: it has its types, and its numbers grow.      *)
Served ==
  /\ phase' \in Phases /\ hand' \in 0 .. MaxHands /\ turn' \in Turns
  /\ decision' \in Asked /\ live' \in BOOLEAN
  /\ phase' = "betting" <=> turn' # "nobody"
  /\ turn' # "nobody" => decision' # NoDecision
  /\ \/ decision' = decision /\ turn' = "nobody"
     \/ decision'.id = decision.id + 1
  /\ phase = "idle" => phase' # "idle"
  /\ \E ms : Tells(ms)

LEMMA Asking ==
  ASSUME TypeInv, NEW t \in {"me", "other"}, NEW c \in {0, 1}, Ask(t, c)
  PROVE  /\ decision' \in Questions /\ decision'.id = decision.id + 1
         /\ turn' = t /\ phase' = "betting"
<1>1. decision.id \in Nat /\ MaxDecisions \in Nat /\ decision.id < MaxDecisions
  BY BoundsAssumption, AskedIs DEF TypeInv, TypeOK, Ask
<1>2. decision.id + 1 \in Decisions
  BY <1>1 DEF Decisions
<1> QED
  BY <1>2 DEF Ask, Questions

(* The next question and the state after it.                               *)
LEMMA AskTells ==
  ASSUME TypeInv, ServerInv, NEW t \in {"me", "other"}, NEW c \in {0, 1}, Ask(t, c),
         phase = "betting", hand' = hand,
         t = "me" => turn # "me" \/ Muddled \/ decision.id \in answered,
         Broadcast(<<ActionRequired(turn', decision'), TableState(phase', turn')>>)
  PROVE  \E ms : Tells(ms)
<1>1. /\ decision' \in Questions /\ decision'.id = decision.id + 1
      /\ turn' = t /\ phase' = "betting"
  BY Asking
<1> DEFINE a == ActionRequired(turn', decision')
           s == TableState(phase', turn')
           ms == <<a, s>>
<1>2. /\ a \in Messages /\ StateIn[a] = << >> /\ HoleIn[a] = << >> /\ RevealIn[a] = << >>
      /\ AskedIn[a] = <<IF t = "me" THEN decision' ELSE NoDecision>>
  BY <1>1, ActionRequiredSets
<1>3. /\ s \in Messages
      /\ StateIn[s] = <<<<phase' # "idle", turn'>>>> /\ HoleIn[s] = << >> /\ RevealIn[s] = << >>
      /\ AskedIn[s] = IF t = "me" THEN << >> ELSE <<NoDecision>>
  BY <1>1, TableStateSets DEF Phases, Turns
<1> HIDE DEF a, s
<1>4. ms \in Seq(Messages) /\ Len(ms) = 2 /\ ms[1] = a /\ ms[2] = s
  BY <1>2, <1>3
<1>5. Broadcast(ms)
  BY DEF a, s
<1> HIDE DEF ms
<1>6. LastSets(StateIn, ms, ShownState')
  BY <1>3, <1>4 DEF LastSets, ShownState
<1>7. LastSets(AskedIn, ms, ShownAsked')
  <2>1. CASE t = "me"
    <3>1. AskedIn[ms[1]] = <<ShownAsked'>> /\ AskedIn[ms[2]] = << >>
      BY <1>1, <1>2, <1>3, <1>4, <2>1 DEF ShownAsked
    <3> QED
      BY <3>1, <1>4 DEF LastSets
  <2>2. CASE t # "me"
    <3>1. AskedIn[ms[2]] = <<ShownAsked'>>
      BY <1>1, <1>3, <1>4, <2>2 DEF ShownAsked
    <3> QED
      BY <3>1, <1>4 DEF LastSets
  <2> QED
    BY <2>1, <2>2
<1>8. AllKeep(HoleIn, ms) /\ ShownHole' = ShownHole
  BY <1>1, <1>2, <1>3, <1>4 DEF AllKeep, ShownHole
<1>9. AllKeep(RevealIn, ms) /\ ShownReveal' = ShownReveal
  BY <1>1, <1>2, <1>3, <1>4 DEF AllKeep, ShownReveal
<1>10. ASSUME NEW i \in 1 .. Len(ms), NEW d \in Questions, Asks(ms, i, d)
       PROVE  i = 1 /\ t = "me" /\ d = decision'
  <2>1. d # NoDecision
    BY Questioned
  <2> QED
    BY <1>2, <1>3, <1>4, <1>10, <2>1 DEF Asks
<1>11. Tells(ms)
  BY <1>1, <1>4, <1>5, <1>6, <1>7, <1>8, <1>9, <1>10 DEF Tells
<1> QED
  BY <1>11

(* The reveal.                                                             *)
LEMMA RevealTells ==
  ASSUME TypeInv, phase = "betting", hand' = hand, phase' = "reveal", turn' = "nobody",
         Broadcast(<<ShowdownReveal(hand), TableState(phase', turn')>>)
  PROVE  \E ms : Tells(ms)
<1>1. hand \in 0 .. MaxHands
  BY DEF TypeInv, TypeOK
<1> DEFINE a == ShowdownReveal(hand)
           s == TableState(phase', turn')
           ms == <<a, s>>
<1>2. /\ a \in Messages /\ StateIn[a] = << >> /\ HoleIn[a] = << >> /\ RevealIn[a] = <<hand>>
      /\ AskedIn[a] = <<NoDecision>>
  BY <1>1, ShowdownRevealSets
<1>3. /\ s \in Messages
      /\ StateIn[s] = <<<<phase' # "idle", turn'>>>> /\ HoleIn[s] = << >> /\ RevealIn[s] = << >>
      /\ AskedIn[s] = <<NoDecision>>
  BY TableStateSets DEF Phases, Turns
<1> HIDE DEF a, s
<1>4. ms \in Seq(Messages) /\ Len(ms) = 2 /\ ms[1] = a /\ ms[2] = s
  BY <1>2, <1>3
<1>5. Broadcast(ms)
  BY DEF a, s
<1> HIDE DEF ms
<1>6. LastSets(StateIn, ms, ShownState')
  BY <1>3, <1>4 DEF LastSets, ShownState
<1>7. LastSets(AskedIn, ms, ShownAsked')
  BY <1>3, <1>4 DEF LastSets, ShownAsked
<1>8. AllKeep(HoleIn, ms) /\ ShownHole' = ShownHole
  BY <1>2, <1>3, <1>4 DEF AllKeep, ShownHole
<1>9. LastSets(RevealIn, ms, ShownReveal')
  <2>1. RevealIn[ms[1]] = <<ShownReveal'>> /\ RevealIn[ms[2]] = << >>
    BY <1>2, <1>3, <1>4 DEF ShownReveal
  <2> QED
    BY <1>4, <2>1 DEF LastSets
<1>10. ASSUME NEW i \in 1 .. Len(ms), NEW d \in Questions, Asks(ms, i, d)
       PROVE  FALSE
  BY <1>2, <1>3, <1>4, <1>10, Questioned DEF Asks
<1>11. Tells(ms)
  BY <1>4, <1>5, <1>6, <1>7, <1>8, <1>9, <1>10 DEF Tells
<1> QED
  BY <1>11

(* A result and no next hand.                                              *)
LEMMA EndTells ==
  ASSUME TypeInv, hand' = hand, phase' = "idle", turn' = "nobody",
         Broadcast(<<HandResult, TableState("idle", "nobody")>>)
  PROVE  \E ms : Tells(ms)
<1> DEFINE s == TableState("idle", "nobody")
           ms == <<HandResult, s>>
<1>2. /\ HandResult \in Messages /\ StateIn[HandResult] = << >> /\ HoleIn[HandResult] = <<0>>
      /\ RevealIn[HandResult] = <<0>> /\ AskedIn[HandResult] = <<NoDecision>>
  BY HandResultSets
<1>3. /\ s \in Messages
      /\ StateIn[s] = <<<<phase' # "idle", turn'>>>> /\ HoleIn[s] = << >> /\ RevealIn[s] = << >>
      /\ AskedIn[s] = <<NoDecision>>
  BY TableStateSets DEF Phases, Turns
<1> HIDE DEF s
<1>4. ms \in Seq(Messages) /\ Len(ms) = 2 /\ ms[1] = HandResult /\ ms[2] = s
  BY <1>2, <1>3
<1>5. Broadcast(ms)
  BY DEF s
<1> HIDE DEF ms
<1>6. LastSets(StateIn, ms, ShownState')
  BY <1>3, <1>4 DEF LastSets, ShownState
<1>7. LastSets(AskedIn, ms, ShownAsked')
  BY <1>3, <1>4 DEF LastSets, ShownAsked
<1>8. LastSets(HoleIn, ms, ShownHole')
  <2>1. HoleIn[ms[1]] = <<ShownHole'>> /\ HoleIn[ms[2]] = << >>
    BY <1>2, <1>3, <1>4 DEF ShownHole
  <2> QED
    BY <1>4, <2>1 DEF LastSets
<1>9. LastSets(RevealIn, ms, ShownReveal')
  <2>1. RevealIn[ms[1]] = <<ShownReveal'>> /\ RevealIn[ms[2]] = << >>
    BY <1>2, <1>3, <1>4 DEF ShownReveal
  <2> QED
    BY <1>4, <2>1 DEF LastSets
<1>10. ASSUME NEW i \in 1 .. Len(ms), NEW d \in Questions, Asks(ms, i, d)
       PROVE  FALSE
  BY <1>2, <1>3, <1>4, <1>10, Questioned DEF Asks
<1>11. Tells(ms)
  BY <1>4, <1>5, <1>6, <1>7, <1>8, <1>9, <1>10 DEF Tells
<1> QED
  BY <1>11

(* The next hand, behind nothing or behind the result of the last one.     *)
LEMMA DealTells ==
  ASSUME TypeInv, NEW t \in {"me", "other"}, NEW c \in {0, 1}, Ask(t, c),
         turn = "nobody", hand' \in 0 .. MaxHands, NEW before,
         \/ before = << >> /\ phase = "idle"
         \/ before = <<HandResult, TableState("idle", "nobody")>>,
         Broadcast(before \o <<YourHoleCards(hand'), ActionRequired(turn', decision'),
                               TableState(phase', turn')>>)
  PROVE  \E ms : Tells(ms)
<1>1. /\ decision' \in Questions /\ decision'.id = decision.id + 1
      /\ turn' = t /\ phase' = "betting"
  BY Asking
<1> DEFINE e == TableState("idle", "nobody")
           h == YourHoleCards(hand')
           a == ActionRequired(turn', decision')
           s == TableState(phase', turn')
           ms == before \o <<h, a, s>>
           b == Len(before)
<1>2. /\ a \in Messages /\ StateIn[a] = << >> /\ HoleIn[a] = << >> /\ RevealIn[a] = << >>
      /\ AskedIn[a] = <<IF t = "me" THEN decision' ELSE NoDecision>>
  BY <1>1, ActionRequiredSets
<1>3. /\ s \in Messages
      /\ StateIn[s] = <<<<phase' # "idle", turn'>>>> /\ HoleIn[s] = << >> /\ RevealIn[s] = << >>
      /\ AskedIn[s] = IF t = "me" THEN << >> ELSE <<NoDecision>>
  BY <1>1, TableStateSets DEF Phases, Turns
<1>4. /\ h \in Messages /\ StateIn[h] = << >> /\ HoleIn[h] = <<hand'>> /\ RevealIn[h] = << >>
      /\ AskedIn[h] = << >>
  BY YourHoleCardsSets
<1>5. /\ e \in Messages /\ RevealIn[e] = << >> /\ AskedIn[e] = <<NoDecision>>
  BY TableStateSets DEF Phases, Turns
<1>6. /\ HandResult \in Messages /\ RevealIn[HandResult] = <<0>>
      /\ AskedIn[HandResult] = <<NoDecision>>
  BY HandResultSets
<1>7. /\ before = << >> /\ phase = "idle"
      \/ before = <<HandResult, e>>
  OBVIOUS
<1>8. Broadcast(ms)
  OBVIOUS
<1> HIDE DEF a, s, h, e
<1>9. b \in {0, 2} /\ before \in Seq(Messages)
  <2>1. CASE before = << >>
    BY <2>1
  <2>2. CASE before = <<HandResult, e>>
    <3>1. <<HandResult, e>> \in Seq(Messages) /\ Len(<<HandResult, e>>) = 2
      BY <1>5, <1>6
    <3> QED
      BY <2>2, <3>1
  <2> QED
    BY <1>7, <2>1, <2>2
<1>10. /\ ms \in Seq(Messages) /\ Len(ms) = b + 3
       /\ ms[b + 1] = h /\ ms[b + 2] = a /\ ms[b + 3] = s
       /\ b = 2 => ms[1] = HandResult /\ ms[2] = e
       /\ b = 0 => phase = "idle"
  <2>2. /\ ms \in Seq(Messages) /\ Len(ms) = b + 3
        /\ \A k \in 1 .. b : ms[k] = before[k]
        /\ ms[b + 1] = h /\ ms[b + 2] = a /\ ms[b + 3] = s
    BY <1>2, <1>3, <1>4, <1>9, JoinedThree
  <2>3. b = 2 => 1 \in 1 .. b /\ 2 \in 1 .. b /\ before[1] = HandResult /\ before[2] = e
    BY <1>7
  <2>8. b = 0 => phase = "idle"
    BY <1>7
  <2>4. b = 2 => ms[1] = HandResult /\ ms[2] = e
    BY <2>2, <2>3
  <2> HIDE DEF ms, b
  <2> QED
    BY <2>2, <2>4, <2>8
<1> HIDE DEF ms, b
<1>11. LastSets(StateIn, ms, ShownState')
  <2>1. b + 3 \in 1 .. Len(ms) /\ StateIn[ms[b + 3]] = <<ShownState'>>
    BY <1>3, <1>9, <1>10 DEF ShownState
  <2> QED
    BY <1>9, <1>10, <2>1 DEF LastSets
<1>12. LastSets(AskedIn, ms, ShownAsked')
  <2>1. CASE t = "me"
    <3>1. AskedIn[ms[b + 2]] = <<ShownAsked'>> /\ AskedIn[ms[b + 3]] = << >>
      BY <1>1, <1>2, <1>3, <1>10, <2>1 DEF ShownAsked
    <3> QED
      BY <3>1, <1>9, <1>10 DEF LastSets
  <2>2. CASE t # "me"
    <3>1. AskedIn[ms[b + 3]] = <<ShownAsked'>>
      BY <1>1, <1>3, <1>10, <2>2 DEF ShownAsked
    <3> QED
      BY <3>1, <1>9, <1>10 DEF LastSets
  <2> QED
    BY <2>1, <2>2
<1>13. LastSets(HoleIn, ms, ShownHole')
  <2>1. /\ HoleIn[ms[b + 1]] = <<ShownHole'>> /\ HoleIn[ms[b + 2]] = << >>
        /\ HoleIn[ms[b + 3]] = << >>
    BY <1>1, <1>2, <1>3, <1>4, <1>10 DEF ShownHole
  <2> QED
    BY <2>1, <1>9, <1>10 DEF LastSets
<1>14. \/ LastSets(RevealIn, ms, ShownReveal')
       \/ AllKeep(RevealIn, ms) /\ ShownReveal' = ShownReveal
  <2>1. CASE b = 0
    BY <1>1, <1>2, <1>3, <1>4, <1>10, <2>1 DEF AllKeep, ShownReveal
  <2>2. CASE b = 2
    <3>1. /\ RevealIn[ms[1]] = <<ShownReveal'>> /\ RevealIn[ms[2]] = << >>
          /\ RevealIn[ms[3]] = << >> /\ RevealIn[ms[4]] = << >> /\ RevealIn[ms[5]] = << >>
      BY <1>1, <1>2, <1>3, <1>4, <1>5, <1>6, <1>10, <2>2 DEF ShownReveal
    <3> QED
      BY <1>10, <2>2, <3>1 DEF LastSets
  <2> QED
    BY <1>9, <2>1, <2>2
<1>15. ASSUME NEW i \in 1 .. Len(ms), NEW d \in Questions, Asks(ms, i, d)
       PROVE  i = b + 2 /\ t = "me" /\ d = decision'
  <2>1. d # NoDecision
    BY Questioned
  <2>2. i \in {1, 2, b + 1, b + 2, b + 3} /\ (i \in {1, 2} => i > b \/ b = 2)
    BY <1>9, <1>10
  <2>3. i # b + 1 /\ i # b + 3
    BY <1>3, <1>4, <1>10, <1>15, <2>1 DEF Asks
  <2>4. i > b
    BY <1>5, <1>6, <1>9, <1>10, <1>15, <2>1 DEF Asks
  <2>5. i = b + 2
    BY <1>9, <1>10, <2>3, <2>4
  <2> QED
    BY <1>2, <1>10, <1>15, <2>1, <2>5 DEF Asks
<1>16. Tells(ms)
  BY <1>1, <1>8, <1>9, <1>10, <1>11, <1>12, <1>13, <1>14, <1>15 DEF Tells
<1> QED
  BY <1>16

LEMMA ProceedServed ==
  ASSUME TypeInv, ServerInv, turn # "nobody", Proceed, live' \in BOOLEAN, hand' = hand,
         live' => turn # "me" \/ Muddled \/ decision.id \in answered
  PROVE  Served
<1>1. phase = "betting" /\ hand \in 0 .. MaxHands
  BY DEF ServerInv, TypeInv, TypeOK
<1>2. ASSUME NEW t \in {"me", "other"}, NEW c \in {0, 1}, t = "me" => live', Ask(t, c),
             Broadcast(<<ActionRequired(turn', decision'), TableState(phase', turn')>>)
      PROVE  Served
  <2>1. /\ decision' \in Questions /\ decision'.id = decision.id + 1
        /\ turn' = t /\ phase' = "betting"
    BY <1>2, Asking
  <2>2. \E ms : Tells(ms)
    BY <1>1, <1>2, AskTells
  <2>3. decision' \in Asked /\ decision' # NoDecision
    BY <2>1, Questioned
  <2> QED
    BY <1>1, <2>1, <2>2, <2>3 DEF Served, Phases, Turns
<1>3. ASSUME phase' = "reveal", turn' = "nobody", UNCHANGED decision,
             Broadcast(<<ShowdownReveal(hand), TableState(phase', turn')>>)
      PROVE  Served
  <2>1. \E ms : Tells(ms)
    BY <1>1, <1>3, RevealTells
  <2> QED
    BY <1>1, <1>3, <2>1 DEF Served, Phases, Turns, TypeInv, TypeOK
<1> QED
  BY <1>2, <1>3 DEF Proceed

LEMMA DealServed ==
  ASSUME TypeInv, ServerInv, turn = "nobody", NEW before, Deal(before),
         \/ before = << >> /\ phase = "idle"
         \/ before = <<HandResult, TableState("idle", "nobody")>>
  PROVE  Served
<1>1. hand' \in 0 .. MaxHands /\ live' \in BOOLEAN
  BY BoundsAssumption DEF Deal, TypeInv, TypeOK
<1>2. PICK t \in {"me", "other"}, c \in {0, 1} : Ask(t, c)
  BY DEF Deal
<1>3. Broadcast(before \o <<YourHoleCards(hand'), ActionRequired(turn', decision'),
                            TableState(phase', turn')>>)
  BY DEF Deal
<1>4. /\ decision' \in Questions /\ decision'.id = decision.id + 1
      /\ turn' = t /\ phase' = "betting"
  BY <1>2, Asking
<1>5. \E ms : Tells(ms)
  BY <1>1, <1>2, <1>3, DealTells
<1>6. decision' \in Asked /\ decision' # NoDecision
  BY <1>4, Questioned
<1> QED
  BY <1>1, <1>4, <1>5, <1>6 DEF Served, Phases, Turns

LEMMA StartServed == ASSUME TypeInv, ServerInv, StartHand PROVE Served
<1>1. phase = "idle" /\ turn = "nobody" /\ Deal(<< >>)
  BY DEF StartHand, ServerInv
<1> QED
  BY <1>1, DealServed

LEMMA FinishServed == ASSUME TypeInv, ServerInv, FinishHand PROVE Served
<1>1. phase = "reveal" /\ turn = "nobody"
  BY DEF FinishHand, ServerInv
<1>2. CASE Deal(<<HandResult, TableState("idle", "nobody")>>)
  BY <1>1, <1>2, DealServed
<1>3. ASSUME phase' = "idle", Broadcast(<<HandResult, TableState("idle", "nobody")>>),
             UNCHANGED <<hand, turn, decision, live>>
      PROVE  Served
  <2>1. \E ms : Tells(ms)
    BY <1>1, <1>3, EndTells
  <2> QED
    BY <1>1, <1>3, <2>1 DEF Served, Phases, Turns, TypeInv, TypeOK
<1> QED
  BY <1>2, <1>3 DEF FinishHand

-----------------------------------------------------------------------------
(* What a command leaves alone on the client: everything but down.         *)
clientVars == <<link, known, room, preVars, answered, twice, auto, impatient, drops>>

(* The messages of a command keep the types and what the messages under    *)
(* way will come to.                                                       *)
LEMMA ServedType ==
  ASSUME TypeInv, ServerInv, Served, UNCHANGED clientVars,
         up' \in Seq(Commands), late' \subseteq Decisions, link = "down" => up' = up
  PROVE  TypeInv' /\ ServerInv'
<1>1. PICK ms : Tells(ms)
  BY DEF Served
<1>2. ms \in Seq(Messages) /\ down \in Seq(Messages) /\ Broadcast(ms)
  BY <1>1 DEF Tells, TypeInv
<1>3. down' \in Seq(Messages)
  <2>1. down \o ms \in Seq(Messages)
    BY <1>2, Joined
  <2> QED
    BY <1>2, <2>1 DEF Broadcast
<1>4. TypeInv'
  BY <1>3 DEF TypeInv, TypeOK, Served, Phases, clientVars, preVars
<1>5. link' = "up" => known' \/ (down' # << >> /\ Head(down') = Connected)
  <2>1. ASSUME link = "up", ~known
        PROVE  down' # << >> /\ Head(down') = Connected
    <3>1. down # << >> /\ Head(down) = Connected /\ down' = down \o ms
      BY <1>2, <2>1 DEF ServerInv, Broadcast
    <3>2. Len(down) \in Nat /\ Len(down) >= 1 /\ down[1] = Connected
      BY <1>2, <3>1, Behind
    <3>3. Len(ms) \in Nat /\ Len(down \o ms) = Len(down) + Len(ms) /\ down'[1] = down[1]
      BY <1>2, <3>1, <3>2, Joined
    <3>4. down' # << >>
      BY <3>1, <3>2, <3>3
    <3> QED
      BY <1>3, <3>2, <3>3, <3>4, Behind
  <2> QED
    BY <2>1 DEF clientVars
<1>6. link' = "down" => down' = << >> /\ up' = << >> /\ drops' > 0
  BY <1>2, TypeInv DEF ServerInv, Broadcast, clientVars
<1> QED
  BY <1>4, <1>5, <1>6 DEF ServerInv, Served

LEMMA ServedSettles ==
  ASSUME TypeInv, ServerInv, SettleInv, Served, UNCHANGED clientVars
  PROVE  SettleInv'
<1>1. SUFFICES ASSUME link = "up" PROVE SettleInv'
  BY DEF SettleInv, clientVars
<1>2. PICK ms : Tells(ms)
  BY DEF Served
<1>3. ms \in Seq(Messages) /\ down \in Seq(Messages) /\ down' = down \o ms
  BY <1>1, <1>2 DEF Tells, TypeInv, Broadcast
<1>4. UNCHANGED <<room, drops>>
  BY DEF clientVars
<1>5. ASSUME NEW f, NEW r, NEW v, LastSets(f, ms, v)
      PROVE  Settles(f, down', r, v)
  BY <1>3, <1>5, SentSets DEF LastSets
<1>6. ASSUME NEW f, NEW r, NEW v, AllKeep(f, ms), Settles(f, down, r, v)
      PROVE  Settles(f, down', r, v)
  BY <1>3, <1>6, SentKeeps DEF AllKeep
<1>7. Settles(StateIn, down', <<room'.inProgress, room'.turn>>, ShownState')
  BY <1>2, <1>5 DEF Tells
<1>8. Settles(AskedIn, down', room'.asked, ShownAsked')
  BY <1>2, <1>5 DEF Tells
<1>9. Settles(HoleIn, down', room'.hole, ShownHole')
  <2>1. CASE LastSets(HoleIn, ms, ShownHole')
    BY <1>5, <2>1
  <2>2. CASE AllKeep(HoleIn, ms) /\ ShownHole' = ShownHole /\ phase # "idle"
    <3>1. Settles(HoleIn, down, room.hole, ShownHole)
      BY <1>1, <2>2 DEF SettleInv
    <3> QED
      BY <1>4, <1>6, <2>2, <3>1
  <2> QED
    BY <1>2, <2>1, <2>2 DEF Tells
<1>10. ASSUME drops' = 0
       PROVE  Settles(RevealIn, down', room'.reveal, ShownReveal')
  <2>1. CASE LastSets(RevealIn, ms, ShownReveal')
    BY <1>5, <2>1
  <2>2. CASE AllKeep(RevealIn, ms) /\ ShownReveal' = ShownReveal
    <3>1. Settles(RevealIn, down, room.reveal, ShownReveal)
      BY <1>1, <1>4, <1>10 DEF SettleInv
    <3> QED
      BY <1>4, <1>6, <2>2, <3>1
  <2> QED
    BY <1>2, <2>1, <2>2 DEF Tells
<1> QED
  BY <1>7, <1>8, <1>9, <1>10 DEF SettleInv

(* The questions under way after a command.                                *)
LEMMA ServedQuestions ==
  ASSUME TypeInv, ServerInv, NEW ms, Tells(ms), NEW k \in 1 .. Len(down')
  PROVE  \/ /\ k \in 1 .. Len(down) /\ down'[k] = down[k]
            /\ \A i \in 1 .. k : i \in 1 .. Len(down) /\ down'[i] = down[i]
         \/ /\ link = "up" /\ k > Len(down)
            /\ k - Len(down) \in 1 .. Len(ms) /\ down'[k] = ms[k - Len(down)]
            /\ \A i \in 1 .. Len(down) : i < k /\ down'[i] = down[i]
            /\ \A i \in 1 .. k - Len(down) - 1 :
                 /\ i \in 1 .. Len(ms) /\ Len(down) + i \in Len(down) + 1 .. k - 1
                 /\ down'[Len(down) + i] = ms[i]
<1>1. ms \in Seq(Messages) /\ down \in Seq(Messages) /\ Broadcast(ms)
  BY DEF Tells, TypeInv
<1>2. CASE link = "up"
  <2>1. /\ Len(down) \in Nat /\ Len(ms) \in Nat /\ Len(down') = Len(down) + Len(ms)
        /\ \A i \in 1 .. Len(down) : down'[i] = down[i]
        /\ \A i \in 1 .. Len(ms) : down'[Len(down) + i] = ms[i]
    BY <1>1, <1>2, Joined DEF Broadcast
  <2>2. CASE k <= Len(down)
    BY <2>1, <2>2
  <2>3. CASE k > Len(down)
    <3>1. k - Len(down) \in 1 .. Len(ms) /\ Len(down) + (k - Len(down)) = k
      BY <2>1, <2>3
    <3>2. down'[k] = ms[k - Len(down)]
      BY <2>1, <3>1
    <3>3. \A i \in 1 .. k - Len(down) - 1 :
            /\ i \in 1 .. Len(ms) /\ Len(down) + i \in Len(down) + 1 .. k - 1
            /\ down'[Len(down) + i] = ms[i]
      BY <2>1, <2>3
    <3>4. \A i \in 1 .. Len(down) : i < k /\ down'[i] = down[i]
      BY <2>1, <2>3
    <3> QED
      BY <1>2, <2>3, <3>1, <3>2, <3>3, <3>4
  <2> QED
    BY <2>1, <2>2, <2>3
<1>3. CASE link # "up"
  <2>1. down' = down /\ Len(down) \in Nat
    BY <1>1, <1>3 DEF Broadcast
  <2> QED
    BY <2>1
<1> QED
  BY <1>2, <1>3

LEMMA SeenType ==
  ASSUME TypeInv
  PROVE  \A x \in Seen : x \in Nat
<1>1. room.asked \in Asked /\ answered \subseteq Decisions /\ timer \in Commands \cup {Nothing}
  BY DEF TypeInv, TypeOK, Rooms
<1>2. room.asked.id \in Nat /\ Decisions \subseteq Nat
  BY <1>1, AskedIs, BoundsAssumption DEF Decisions
<1>3. timer.id \in Nat
  <2>1. CASE timer \in Commands
    <3>1. timer.id \in Decisions
      BY <2>1 DEF Commands
    <3> QED
      BY <1>2, <3>1
  <2>2. CASE timer = Nothing
    BY <2>2 DEF Nothing
  <2> QED
    BY <1>1, <2>1, <2>2
<1> QED
  BY <1>1, <1>2, <1>3 DEF Seen

LEMMA ServedAsks ==
  ASSUME TypeInv, ServerInv, AskInv, Served, UNCHANGED clientVars
  PROVE  AskInv'
<1>1. PICK ms : Tells(ms)
  BY DEF Served
<1>2. Seen' = Seen /\ room' = room /\ Len(down) \in Nat
  BY DEF Seen, clientVars, preVars, TypeInv
<1>3. /\ decision.id \in Nat /\ decision'.id \in Nat /\ decision.id <= decision'.id
      /\ decision'.id = decision.id => decision' = decision /\ turn' = "nobody"
  BY AskedIs DEF Served, TypeInv, TypeOK
<1>4. \A x \in Seen : x \in Nat /\ x <= decision.id
  BY SeenType DEF AskInv
<1>5. ASSUME NEW k \in 1 .. Len(down'), NEW d \in Questions, Asks(down', k, d)
      PROVE  \/ k \in 1 .. Len(down) /\ Asks(down, k, d) /\ d.id <= decision.id
             \/ /\ k > Len(down) /\ k - Len(down) \in 1 .. Len(ms) /\ d = decision'
                /\ Asks(ms, k - Len(down), d) /\ decision'.id = decision.id + 1
  <2>1. CASE k \in 1 .. Len(down) /\ down'[k] = down[k]
    <3>1. Asks(down, k, d)
      BY <1>5, <2>1 DEF Asks
    <3> QED
      BY <2>1, <3>1 DEF AskInv
  <2>2. CASE /\ k > Len(down) /\ k - Len(down) \in 1 .. Len(ms)
             /\ down'[k] = ms[k - Len(down)]
    <3>1. Asks(ms, k - Len(down), d)
      BY <1>5, <2>2 DEF Asks
    <3> QED
      BY <1>1, <2>2, <3>1 DEF Tells
  <2> QED
    BY <1>1, <2>1, <2>2, ServedQuestions
<1>6. Ordered(down')
  <2>1. SUFFICES ASSUME NEW j \in 1 .. Len(down'), NEW k \in 1 .. Len(down'), j < k,
                        NEW c \in Questions, NEW d \in Questions,
                        Asks(down', j, c), Asks(down', k, d)
                 PROVE  c.id < d.id
    BY DEF Ordered
  <2>2. c.id \in Nat /\ d.id \in Nat
    BY Questioned
  <2>3. CASE j \in 1 .. Len(down) /\ k \in 1 .. Len(down)
    BY <1>2, <1>5, <2>1, <2>3 DEF AskInv, Ordered
  <2>4. CASE j \in 1 .. Len(down) /\ k > Len(down)
    <3>1. c.id <= decision.id
      BY <1>2, <1>5, <2>1, <2>4
    <3>2. d.id = decision.id + 1
      BY <1>2, <1>5, <2>1, <2>4
    <3> QED
      BY <1>3, <2>2, <3>1, <3>2
  <2>5. CASE j > Len(down) /\ k > Len(down)
    <3>1. /\ j - Len(down) \in 1 .. Len(ms) /\ Asks(ms, j - Len(down), c)
          /\ k - Len(down) \in 1 .. Len(ms) /\ Asks(ms, k - Len(down), d)
      BY <1>2, <1>5, <2>1, <2>5
    <3>2. j - Len(down) = k - Len(down)
      BY <1>1, <3>1 DEF Tells
    <3> QED
      BY <1>2, <2>1, <3>2
  <2> QED
    BY <1>2, <1>5, <2>1, <2>3, <2>4, <2>5
<1>7. ASSUME NEW k \in 1 .. Len(down'), NEW d \in Questions, Asks(down', k, d)
      PROVE  /\ d.id <= decision'.id
             /\ d.id = decision'.id => d = decision'
             /\ \/ \A x \in Seen' : x < d.id
                \/ room'.asked = d /\ \A i \in 1 .. k - 1 : Keeps(down', i)
  <2>1. d.id \in Nat
    BY Questioned
  <2>2. CASE k \in 1 .. Len(down)
    <3>1. Asks(down, k, d) /\ d.id <= decision.id
      BY <1>2, <1>5, <1>7, <2>2
    <3>2. /\ d.id = decision.id => d = decision
          /\ \/ \A x \in Seen : x < d.id
             \/ room.asked = d /\ \A i \in 1 .. k - 1 : Keeps(down, i)
      BY <2>2, <3>1 DEF AskInv
    <3>3. \A i \in 1 .. k - 1 : i \in 1 .. Len(down) /\ down'[i] = down[i]
      BY <1>1, <1>2, <2>2, ServedQuestions
    <3>4. (\A i \in 1 .. k - 1 : Keeps(down, i)) => \A i \in 1 .. k - 1 : Keeps(down', i)
      BY <3>3 DEF Keeps
    <3>5. d.id <= decision'.id /\ (d.id = decision'.id => d = decision')
      BY <1>3, <2>1, <3>1, <3>2
    <3> QED
      BY <1>2, <3>2, <3>4, <3>5
  <2>3. CASE k > Len(down)
    <3>1. d = decision' /\ decision'.id = decision.id + 1
      BY <1>2, <1>5, <1>7, <2>3
    <3>2. \A x \in Seen : x < d.id
      BY <1>3, <1>4, <3>1
    <3> QED
      BY <1>2, <1>3, <3>1, <3>2
  <2> QED
    BY <1>2, <2>2, <2>3
<1>8. \A x \in Seen' : x <= decision'.id
  BY <1>2, <1>3, <1>4
<1>9. ~(turn' = "me" /\ decision'.id \in Seen')
  <2>1. turn' = "me" => decision'.id = decision.id + 1
    BY DEF Served
  <2> QED
    BY <1>2, <1>3, <1>4, <2>1
<1> QED
  BY <1>6, <1>7, <1>8, <1>9 DEF AskInv

(* The last word of the messages under way on what is asked.               *)
LEMMA LastAsked ==
  ASSUME TypeInv, SettleInv, link = "up"
  PROVE  /\ \A j \in 1 .. Len(down) : \A c \in Questions :
              (Asks(down, j, c) /\ \A i \in 1 .. Len(down) : i > j => Keeps(down, i))
              => turn = "me" /\ c = decision
         /\ (\A i \in 1 .. Len(down) : Keeps(down, i)) => room.asked = ShownAsked
<1>1. Settles(AskedIn, down, room.asked, ShownAsked) /\ Len(down) \in Nat
  BY DEF SettleInv, TypeInv
<1>2. (\A i \in 1 .. Len(down) : Keeps(down, i)) => room.asked = ShownAsked
  <2>1. <<ShownAsked>> # << >>
    OBVIOUS
  <2> QED
    BY <1>1, <2>1 DEF Settles, Keeps
<1>3. ASSUME NEW j \in 1 .. Len(down), NEW c \in Questions, Asks(down, j, c),
             \A i \in 1 .. Len(down) : i > j => Keeps(down, i)
      PROVE  turn = "me" /\ c = decision
  <2>1. <<c>> # << >> /\ <<ShownAsked>> # << >> /\ c # NoDecision
    BY Questioned
  <2>2. PICK k \in 1 .. Len(down) :
          /\ AskedIn[down[k]] = <<ShownAsked>>
          /\ \A i \in 1 .. Len(down) : i > k => AskedIn[down[i]] = << >>
    BY <1>1, <1>3, <2>1 DEF Settles, Asks
  <2>6. ~ (k > j)
    <3>1. k > j => AskedIn[down[k]] = << >>
      BY <1>3 DEF Keeps
    <3> QED
      BY <2>1, <2>2, <3>1, Zenon
  <2>7. ~ (j > k)
    <3>1. j > k => AskedIn[down[j]] = << >>
      BY <2>2
    <3>2. AskedIn[down[j]] = <<c>>
      BY <1>3 DEF Asks
    <3> QED
      BY <2>1, <3>1, <3>2, Zenon
  <2>3. k = j
    BY <1>1, <2>6, <2>7
  <2>4. <<c>> = <<ShownAsked>>
    BY <1>3, <2>2, <2>3 DEF Asks
  <2>5. c = ShownAsked
    BY <2>4
  <2> QED
    BY <2>1, <2>5 DEF ShownAsked
<1> QED
  BY <1>2, <1>3

LEMMA ServedGaps ==
  ASSUME TypeInv, ServerInv, SettleInv, TimerInv, GapInv, Served, UNCHANGED clientVars,
         late \subseteq late'
  PROVE  GapInv'
<1>1. SUFFICES ASSUME ~Muddled' PROVE GapInv'
  BY DEF GapInv
<1>2. ~Muddled /\ UNCHANGED <<room, timer, answered>>
  BY <1>1 DEF Muddled, clientVars, preVars
<1>3. PICK ms : Tells(ms)
  BY DEF Served
<1>4. Len(down) \in Nat
  BY DEF TypeInv
<1>5. ASSUME NEW k \in 1 .. Len(down'), NEW d \in Questions, Asks(down', k, d),
             k \notin 1 .. Len(down)
      PROVE  /\ link = "up" /\ k > Len(down)
             /\ k - Len(down) \in 1 .. Len(ms) /\ Asks(ms, k - Len(down), d)
             /\ \A i \in 1 .. Len(down) : i < k /\ down'[i] = down[i]
             /\ \A i \in 1 .. k - Len(down) - 1 :
                  /\ i \in 1 .. Len(ms) /\ Len(down) + i \in Len(down) + 1 .. k - 1
                  /\ down'[Len(down) + i] = ms[i]
  <2>1. /\ link = "up" /\ k > Len(down)
        /\ k - Len(down) \in 1 .. Len(ms) /\ down'[k] = ms[k - Len(down)]
        /\ \A i \in 1 .. Len(down) : i < k /\ down'[i] = down[i]
        /\ \A i \in 1 .. k - Len(down) - 1 :
             /\ i \in 1 .. Len(ms) /\ Len(down) + i \in Len(down) + 1 .. k - 1
             /\ down'[Len(down) + i] = ms[i]
    BY <1>3, <1>5, ServedQuestions
  <2>2. Asks(ms, k - Len(down), d)
    BY <1>5, <2>1 DEF Asks
  <2> QED
    BY <2>1, <2>2
<1>6. ASSUME NEW k \in 1 .. Len(down'), NEW d \in Questions, Asks(down', k, d),
             k \in 1 .. Len(down)
      PROVE  /\ Asks(down, k, d) /\ \A i \in 1 .. k : i \in 1 .. Len(down) /\ down'[i] = down[i]
  BY <1>3, <1>4, <1>6, ServedQuestions DEF Asks
<1>7. ASSUME NEW j \in 1 .. Len(down'), NEW k \in 1 .. Len(down'),
             NEW c \in Questions, NEW d \in Questions,
             j < k, Asks(down', j, c), Asks(down', k, d),
             \A i \in j + 1 .. k - 1 : Keeps(down', i)
      PROVE  c.id \in answered'
  <2>1. CASE k \in 1 .. Len(down)
    <3>1. Asks(down, k, d) /\ \A i \in 1 .. k : i \in 1 .. Len(down) /\ down'[i] = down[i]
      BY <1>6, <1>7, <2>1
    <3>2. j \in 1 .. k /\ (\A i \in j + 1 .. k - 1 : i \in 1 .. k)
      BY <1>7
    <3>3. j \in 1 .. Len(down) /\ Asks(down, j, c) /\ \A i \in j + 1 .. k - 1 : Keeps(down, i)
      BY <1>7, <3>1, <3>2 DEF Asks, Keeps
    <3> QED
      BY <1>2, <1>7, <2>1, <3>1, <3>3 DEF GapInv
  <2>2. CASE k \notin 1 .. Len(down) /\ j \in 1 .. Len(down)
    <3>1. Asks(down, j, c)
      BY <1>6, <1>7, <2>2
    <3>2. /\ link = "up" /\ k > Len(down)
          /\ k - Len(down) \in 1 .. Len(ms) /\ Asks(ms, k - Len(down), d)
          /\ \A i \in 1 .. Len(down) : i < k /\ down'[i] = down[i]
          /\ \A i \in 1 .. k - Len(down) - 1 :
               /\ i \in 1 .. Len(ms) /\ Len(down) + i \in Len(down) + 1 .. k - 1
               /\ down'[Len(down) + i] = ms[i]
      BY <1>5, <1>7, <2>2
    <3>3. \A i \in 1 .. Len(down) : i > j => Keeps(down, i)
      BY <1>4, <1>7, <3>2 DEF Keeps
    <3>4. turn = "me" /\ c = decision
      BY <2>2, <3>1, <3>2, <3>3, LastAsked
    <3>5. ASSUME NEW i \in 1 .. k - Len(down) - 1 PROVE Keeps(ms, i)
      <4>1. Len(down) + i \in j + 1 .. k - 1
        BY <1>4, <2>2, <3>2
      <4> QED
        BY <1>7, <3>2, <4>1 DEF Keeps
    <3>6. turn # "me" \/ Muddled \/ decision.id \in answered
      BY <1>3, <3>2, <3>5 DEF Tells
    <3> QED
      BY <1>2, <3>4, <3>6
  <2>3. CASE k \notin 1 .. Len(down) /\ j \notin 1 .. Len(down)
    <3>1. /\ j - Len(down) \in 1 .. Len(ms) /\ Asks(ms, j - Len(down), c)
          /\ k - Len(down) \in 1 .. Len(ms) /\ Asks(ms, k - Len(down), d)
      BY <1>5, <1>7, <2>3
    <3>2. j - Len(down) = k - Len(down)
      BY <1>3, <3>1 DEF Tells
    <3> QED
      BY <1>4, <1>7, <3>2
  <2> QED
    BY <2>1, <2>2, <2>3
<1>9. UNCHANGED impatient /\ (Overtaken => Overtaken')
  BY <1>2 DEF Overtaken, clientVars
<1>8. ASSUME timer' # Nothing, ~impatient', NEW k \in 1 .. Len(down'), NEW d \in Questions,
             Asks(down', k, d), d # room'.asked, \A i \in 1 .. k - 1 : Keeps(down', i)
      PROVE  room'.asked.id \in answered' \/ Overtaken'
  <2>1. CASE k \in 1 .. Len(down)
    <3>1. Asks(down, k, d) /\ \A i \in 1 .. k : i \in 1 .. Len(down) /\ down'[i] = down[i]
      BY <1>6, <1>8, <2>1
    <3>2. \A i \in 1 .. k - 1 : Keeps(down, i)
      BY <1>8, <3>1 DEF Keeps
    <3> QED
      BY <1>2, <1>8, <1>9, <2>1, <3>1, <3>2 DEF GapInv
  <2>2. CASE k \notin 1 .. Len(down)
    <3>2. /\ link = "up" /\ k > Len(down)
          /\ k - Len(down) \in 1 .. Len(ms) /\ Asks(ms, k - Len(down), d)
          /\ \A i \in 1 .. Len(down) : i < k /\ down'[i] = down[i]
          /\ \A i \in 1 .. k - Len(down) - 1 :
               /\ i \in 1 .. Len(ms) /\ Len(down) + i \in Len(down) + 1 .. k - 1
               /\ down'[Len(down) + i] = ms[i]
      BY <1>5, <1>8, <2>2
    <3>3. \A i \in 1 .. Len(down) : Keeps(down, i)
      <4>1. \A i \in 1 .. Len(down) : i \in 1 .. k - 1
        BY <1>4, <3>2
      <4> QED
        BY <1>8, <3>2, <4>1 DEF Keeps
    <3>4. room.asked = ShownAsked
      BY <3>2, <3>3, LastAsked
    <3>5. turn = "me" /\ room.asked = decision
      BY <1>2, <1>8, <3>4 DEF TimerInv, MyTurn, ShownAsked
    <3>6. ASSUME NEW i \in 1 .. k - Len(down) - 1 PROVE Keeps(ms, i)
      <4>1. Len(down) + i \in 1 .. k - 1
        BY <1>4, <3>2
      <4> QED
        BY <1>8, <3>2, <4>1 DEF Keeps
    <3>7. turn # "me" \/ Muddled \/ decision.id \in answered
      BY <1>3, <3>2, <3>6 DEF Tells
    <3> QED
      BY <1>2, <3>5, <3>7
  <2> QED
    BY <2>1, <2>2
<1> QED
  BY <1>7, <1>8 DEF GapInv

(* What was due is still due, if the decision the actor took from me was   *)
(* answered or is late.                                                    *)
LEMMA ServedPends ==
  ASSUME TypeInv, ServerInv, PendingInv, Served, UNCHANGED clientVars,
         late \subseteq late',
         turn = "me" => Muddled' \/ decision.id \in late' \cup answered,
         Muddled' \/ up' = << >>
  PROVE  PendingInv'
<1>1. SUFFICES ASSUME ~Muddled' PROVE PendingInv'
  BY DEF PendingInv
<1>2. ~Muddled /\ UNCHANGED <<room, timer, answered>> /\ up' = << >>
  BY <1>1 DEF Muddled, clientVars, preVars
<1>3. PICK ms : Tells(ms)
  BY DEF Served
<1>5. Due(room.asked.id) /\ Due(timer.id)
  BY <1>2 DEF PendingInv
<1>6. Due(room.asked.id)' /\ Due(timer.id)'
  BY <1>1, <1>2, <1>5 DEF Due
<1>7. ASSUME NEW k \in 1 .. Len(down'), NEW d \in Questions, Asks(down', k, d)
      PROVE  Due(d.id)'
  <2>1. CASE k \in 1 .. Len(down) /\ down'[k] = down[k]
    <3>1. Asks(down, k, d)
      BY <1>7, <2>1 DEF Asks
    <3>2. Due(d.id)
      BY <1>2, <2>1, <3>1 DEF PendingInv
    <3> QED
      BY <1>1, <1>2, <3>2 DEF Due
  <2>2. CASE k - Len(down) \in 1 .. Len(ms) /\ down'[k] = ms[k - Len(down)]
    <3>1. Asks(ms, k - Len(down), d)
      BY <1>7, <2>2 DEF Asks
    <3>2. d = decision' /\ turn' = "me"
      BY <1>3, <2>2, <3>1 DEF Tells
    <3> QED
      BY <3>2 DEF Due
  <2> QED
    BY <1>3, <2>1, <2>2, ServedQuestions
<1> QED
  BY <1>2, <1>6, <1>7 DEF PendingInv

LEMMA ServedKeeps ==
  ASSUME IInv, Served, UNCHANGED clientVars,
         up' \in Seq(Commands), link = "down" => up' = up,
         late \subseteq late', late' \subseteq Decisions,
         turn = "me" => Muddled' \/ decision.id \in late' \cup answered,
         Muddled' \/ up' = << >>
  PROVE  IInv'
<1>1. TypeInv /\ ServerInv /\ SettleInv /\ AskInv /\ TimerInv /\ PendingInv /\ GapInv
  BY DEF IInv
<1>2. TypeInv' /\ ServerInv' /\ SettleInv' /\ AskInv' /\ PendingInv' /\ GapInv'
  BY <1>1, ServedType, ServedSettles, ServedAsks, ServedPends, ServedGaps
<1>3. TimerInv'
  BY <1>1 DEF TimerInv, clientVars, preVars, MyTurn
<1>4. Muddled => Muddled'
  BY DEF Muddled, clientVars
<1>5. PreActionIsForThisDecision'
  BY <1>4 DEF IInv, PreActionIsForThisDecision, Overtaken, clientVars, preVars
<1> QED
  BY <1>2, <1>3, <1>5 DEF IInv

LEMMA StartHandKeeps == ASSUME IInv, StartHand PROVE IInv'
<1>1. Served /\ turn = "nobody"
  BY StartServed DEF IInv, StartHand, ServerInv
<1>2. UNCHANGED clientVars /\ UNCHANGED <<up, late>>
  BY DEF StartHand, Deal, clientVars, tapVars
<1>3. up \in Seq(Commands) /\ late \subseteq Decisions
  BY DEF IInv, TypeInv, TypeOK
<1>4. Muddled' \/ up' = << >>
  BY <1>1, <1>2 DEF IInv, PendingInv, Muddled, clientVars
<1> QED
  BY <1>1, <1>2, <1>3, <1>4, ServedKeeps

LEMMA FinishHandKeeps == ASSUME IInv, FinishHand PROVE IInv'
<1>1. Served /\ turn = "nobody"
  BY FinishServed DEF IInv, FinishHand, ServerInv
<1>2. UNCHANGED clientVars /\ UNCHANGED <<up, late>>
  BY DEF FinishHand, clientVars, tapVars
<1>3. up \in Seq(Commands) /\ late \subseteq Decisions
  BY DEF IInv, TypeInv, TypeOK
<1>4. Muddled' \/ up' = << >>
  BY <1>1, <1>2 DEF IInv, PendingInv, Muddled, clientVars
<1> QED
  BY <1>1, <1>2, <1>3, <1>4, ServedKeeps

LEMMA OtherActsKeeps == ASSUME IInv, OtherActs PROVE IInv'
<1>1. UNCHANGED clientVars /\ UNCHANGED <<up, late, hand>> /\ turn = "other" /\ Proceed
  BY DEF OtherActs, clientVars, tapVars
<1>2. up \in Seq(Commands) /\ late \subseteq Decisions /\ live' \in BOOLEAN
  BY DEF IInv, TypeInv, TypeOK, OtherActs
<1>3. Served
  BY <1>1, <1>2, ProceedServed DEF IInv
<1>4. Muddled' \/ up' = << >>
  BY <1>1 DEF IInv, PendingInv, Muddled, clientVars
<1> QED
  BY <1>1, <1>2, <1>3, <1>4, ServedKeeps

LEMMA TimeoutKeeps == ASSUME IInv, Timeout PROVE IInv'
<1>1. /\ UNCHANGED clientVars /\ UNCHANGED <<up, hand>> /\ turn = "me" /\ Proceed
      /\ late' = late \cup {decision.id} /\ live' = FALSE
  BY DEF Timeout, clientVars, tapVars
<1>2. up \in Seq(Commands) /\ late \subseteq Decisions /\ decision \in Asked
  BY DEF IInv, TypeInv, TypeOK
<1>3. decision.id \in Decisions
  BY <1>1, <1>2, AskedIs, Questioned DEF IInv, ServerInv
<1>4. Served
  BY <1>1, ProceedServed DEF IInv
<1>5. Muddled' \/ up' = << >>
  BY <1>1 DEF IInv, PendingInv, Muddled, clientVars
<1> QED
  BY <1>1, <1>2, <1>3, <1>4, <1>5, ServedKeeps

(* An action the actor applies is for the decision it asks, and the only   *)
(* one under way; one it refuses is gone.                                  *)
LEMMA ServeKeeps == ASSUME IInv, Serve PROVE IInv'
<1>1. /\ UNCHANGED clientVars /\ UNCHANGED <<late, hand>> /\ up # << >> /\ up' = Tail(up)
  BY DEF Serve, clientVars, tapVars
<1>2. up \in Seq(Commands) /\ late \subseteq Decisions
  BY DEF IInv, TypeInv, TypeOK
<1>3. Tail(up) \in Seq(Commands) /\ Len(Tail(up)) = Len(up) - 1 /\ Len(up) \in Nat
  BY <1>1, <1>2, Behind
<1>4. ASSUME ~Muddled'
      PROVE  ~Muddled /\ up' = << >> /\ decision.id \in answered /\ turn = "me"
  <2>1. ~Muddled
    BY <1>1, <1>4 DEF Muddled, clientVars
  <2>2. Len(up) = 1 /\ decision.id \in answered /\ turn = "me"
    BY <1>1, <2>1 DEF IInv, PendingInv
  <2>3. Len(Tail(up)) = 0
    BY <1>3, <2>2
  <2> QED
    BY <1>1, <1>3, <2>1, <2>2, <2>3
<1>5. CASE Legal(Head(up).action)
  <2>1. live' \in BOOLEAN /\ Proceed /\ turn = "me"
    BY <1>5 DEF Serve, Legal
  <2>2. Muddled \/ decision.id \in answered
    BY <1>1 DEF IInv, PendingInv
  <2>3. Served
    BY <1>1, <2>1, <2>2, ProceedServed DEF IInv
  <2>4. link = "down" => up' = up
    BY <1>1 DEF IInv, ServerInv
  <2> QED
    BY <1>1, <1>2, <1>3, <1>4, <2>3, <2>4, ServedKeeps
<1>6. CASE ~Legal(Head(up).action)
  <2>1. UNCHANGED <<phase, turn, decision, live, down>>
    BY <1>6 DEF Serve
  <2>2. UNCHANGED <<serverVars, link, down, known, room, preVars, tapVars, late, drops>>
    BY <1>1, <2>1 DEF serverVars, clientVars, preVars, tapVars
  <2>3. TypeInv' /\ AskInv' /\ TimerInv' /\ GapInv' /\ PreActionIsForThisDecision' /\ SettleInv'
    BY <1>1, <1>3, <2>2 DEF IInv, TypeInv, TypeOK, AskInv, Seen, TimerInv, MyTurn, GapInv, Muddled,
         Overtaken, PreActionIsForThisDecision, serverVars, preVars, tapVars, SettleInv,
         ShownState, ShownAsked, ShownHole, ShownReveal
  <2>4. ServerInv'
    BY <1>1, <2>2 DEF IInv, ServerInv, serverVars
  <2>5. PendingInv'
    BY <1>4, <2>2 DEF IInv, PendingInv, Muddled, Due, serverVars, preVars, tapVars
  <2> QED
    BY <2>3, <2>4, <2>5 DEF IInv
<1> QED
  BY <1>5, <1>6

-----------------------------------------------------------------------------
(* What handling a message comes to: the rest of the messages, the room it *)
(* sets, and what becomes of the timer.                                    *)
Handled ==
  /\ link = "up" /\ down # << >> /\ down' = Tail(down)
  /\ Len(down) \in Nat /\ Len(down) >= 1 /\ Len(down') = Len(down) - 1
  /\ \A k \in 1 .. Len(down') : k + 1 \in 1 .. Len(down) /\ down'[k] = down[k + 1]
  /\ EffectedRoom(Head(down), room, room')
  /\ \/ Keeps(down, 1) /\ room'.asked = room.asked
     \/ AskedIn[down[1]] = <<room'.asked>>
  /\ \/ timer' = timer /\ MyTurn' = MyTurn
     \/ timer' = Nothing
     \/ /\ timer' = Resolved(pre, room'.asked) /\ MyTurn' /\ pre # "none"
        /\ room'.asked # room.asked
  /\ UNCHANGED <<serverVars, link, up, pre, tapVars, late, drops>>

LEMMA ReceiveHandles == ASSUME IInv, Receive PROVE Handled
<1>1. link = "up" /\ down # << >> /\ down' = Tail(down) /\ down \in Seq(Messages)
  BY DEF Receive, IInv, TypeInv
<1>2. /\ Len(down) \in Nat /\ Len(down) >= 1 /\ Len(Tail(down)) = Len(down) - 1
      /\ Head(down) = down[1] /\ Head(down) \in Messages
      /\ \A k \in 1 .. Len(down) - 1 : Tail(down)[k] = down[k + 1]
  BY <1>1, Behind
<1>3. \A k \in 1 .. Len(down') : k + 1 \in 1 .. Len(down) /\ down'[k] = down[k + 1]
  BY <1>1, <1>2
<1>4. EffectedRoom(Head(down), room, room')
  <2>1. known \/ Head(down) = Connected
    BY <1>1 DEF IInv, ServerInv
  <2>2. room \in Rooms /\ room' = Take(Head(down), room)
    BY DEF Receive, IInv, TypeInv, TypeOK
  <2> QED
    BY <1>2, <2>1, <2>2, Taken
<1>5. \/ Keeps(down, 1) /\ room'.asked = room.asked
      \/ AskedIn[down[1]] = <<room'.asked>>
  BY <1>2, <1>4 DEF EffectedRoom, Effected, Keeps
<1>6. \/ timer' = timer /\ MyTurn' = MyTurn
      \/ timer' = Nothing
      \/ /\ timer' = Resolved(pre, room'.asked) /\ MyTurn' /\ pre # "none"
         /\ room'.asked # room.asked
  BY DEF Receive, Effect, MyTurn
<1>7. UNCHANGED <<serverVars, link, up, pre, tapVars, late, drops>>
  BY DEF Receive
<1> QED
  BY <1>1, <1>2, <1>3, <1>4, <1>5, <1>6, <1>7 DEF Handled

LEMMA ReceiveType == ASSUME IInv, Receive, Handled PROVE TypeInv' /\ ServerInv'
<1>1. TypeOK /\ down \in Seq(Messages) /\ ServerInv
  BY DEF IInv, TypeInv
<1>2. room' \in Rooms
  BY DEF Handled, EffectedRoom
<1>3. known' = TRUE
  BY <1>1 DEF Receive, Handled, ServerInv, TypeOK
<1>4. down' \in Seq(Messages)
  BY <1>1, Behind DEF Handled
<1>5. executed' \in BOOLEAN
  BY <1>1 DEF Receive, Effect, TypeOK
<1>6. timer' \in Commands \cup {Nothing}
  <2>1. CASE timer' = Resolved(pre, room'.asked) /\ MyTurn'
    <3>1. room'.asked \in Questions
      BY <1>2, <2>1, AskedIs DEF Rooms, MyTurn
    <3>2. room'.asked.id \in Decisions
      BY <3>1, Questioned
    <3> QED
      BY <2>1, <3>2 DEF Resolved, Commands, Actions
  <2> QED
    BY <1>1, <2>1 DEF Handled, TypeOK
<1>7. TypeOK'
  BY <1>1, <1>2, <1>3, <1>5, <1>6 DEF Handled, TypeOK, serverVars, tapVars
<1> QED
  BY <1>1, <1>3, <1>4, <1>7 DEF TypeInv, ServerInv, Handled, serverVars

LEMMA ReceiveSettles == ASSUME IInv, Handled PROVE SettleInv'
<1>1. /\ down \in Seq(Messages) /\ down # << >> /\ down' = Tail(down)
      /\ EffectedRoom(Head(down), room, room') /\ SettleInv /\ link = "up"
  BY DEF Handled, IInv, TypeInv
<1>2. ASSUME NEW f, NEW r, NEW n, NEW v, Effected(f, Head(down), r, n), Settles(f, down, r, v)
      PROVE  Settles(f, down', n, v)
  <2>1. CASE f[Head(down)] = << >> /\ n = r
    BY <1>1, <1>2, <2>1, ReadKeeps
  <2>2. CASE f[Head(down)] = <<n>>
    BY <1>1, <1>2, <2>2, ReadSets
  <2> QED
    BY <1>2, <2>1, <2>2 DEF Effected
<1>3. /\ ShownState' = ShownState /\ ShownAsked' = ShownAsked
      /\ ShownHole' = ShownHole /\ ShownReveal' = ShownReveal
      /\ UNCHANGED <<link, phase, drops>>
  BY DEF Handled, serverVars, ShownState, ShownAsked, ShownHole, ShownReveal
<1> QED
  BY <1>1, <1>2, <1>3 DEF SettleInv, EffectedRoom

(* What the first message asks, if it asks.                                *)
LEMMA FirstAsked ==
  ASSUME IInv, Handled
  PROVE  /\ room'.asked \in Asked /\ room'.asked.id \in Nat
         /\ \/ room'.asked = NoDecision
            \/ room'.asked = room.asked /\ Keeps(down, 1)
            \/ room'.asked \in Questions /\ Asks(down, 1, room'.asked)
         /\ Seen' \subseteq Seen \cup {0, room'.asked.id}
<1>1. room'.asked \in Asked
  BY DEF Handled, EffectedRoom, Rooms
<1>2. room'.asked.id \in Nat /\ (room'.asked # NoDecision => room'.asked \in Questions)
  BY <1>1, AskedIs
<1>3. timer'.id \in {timer.id, 0, room'.asked.id}
  BY DEF Handled, Resolved, Nothing
<1>4. answered' = answered
  BY DEF Handled, tapVars
<1>5. Seen' \subseteq Seen \cup {0, room'.asked.id}
  BY <1>3, <1>4 DEF Seen
<1> QED
  BY <1>1, <1>2, <1>5 DEF Handled, Asks

LEMMA ReceiveAsks == ASSUME IInv, Handled PROVE AskInv'
<1> DEFINE d == room'.asked
<1>1. /\ d \in Asked /\ d.id \in Nat
      /\ \/ d = NoDecision
         \/ d = room.asked /\ Keeps(down, 1)
         \/ d \in Questions /\ Asks(down, 1, d)
      /\ Seen' \subseteq Seen \cup {0, d.id}
  BY FirstAsked
<1>2. /\ Len(down) \in Nat /\ Len(down) >= 1 /\ Len(down') = Len(down) - 1
      /\ \A k \in 1 .. Len(down') : k + 1 \in 1 .. Len(down) /\ down'[k] = down[k + 1]
      /\ Keeps(down, 1) \/ AskedIn[down[1]] = <<d>>
      /\ UNCHANGED <<turn, decision>>
  BY DEF Handled, serverVars
<1>3. TypeInv /\ ServerInv /\ SettleInv /\ AskInv /\ link = "up"
  BY DEF IInv, Handled
<1>4. room.asked.id \in Seen /\ decision.id \in Nat /\ \A x \in Seen : x \in Nat
  BY <1>3, SeenType, AskedIs DEF Seen, TypeInv, TypeOK
<1> HIDE DEF d
<1>5. ASSUME NEW k \in 1 .. Len(down'), NEW e \in Questions, Asks(down', k, e)
      PROVE  /\ k + 1 \in 1 .. Len(down) /\ Asks(down, k + 1, e) /\ 1 < k + 1
             /\ e.id \in Nat /\ 0 < e.id /\ (d \in Questions /\ Asks(down, 1, d) => d.id < e.id)
  <2>1. k + 1 \in 1 .. Len(down) /\ Asks(down, k + 1, e) /\ 1 \in 1 .. Len(down) /\ 1 < k + 1
    BY <1>2, <1>5 DEF Asks
  <2>2. e.id \in Nat /\ 0 < e.id
    BY Questioned
  <2>3. ASSUME d \in Questions, Asks(down, 1, d) PROVE d.id < e.id
    BY <1>3, <2>1, <2>3 DEF AskInv, Ordered
  <2> QED
    BY <2>1, <2>2, <2>3
<1>6. Ordered(down')
  <2>1. SUFFICES ASSUME NEW j \in 1 .. Len(down'), NEW k \in 1 .. Len(down'), j < k,
                        NEW c \in Questions, NEW e \in Questions,
                        Asks(down', j, c), Asks(down', k, e)
                 PROVE  c.id < e.id
    BY DEF Ordered
  <2>2. /\ j + 1 \in 1 .. Len(down) /\ Asks(down, j + 1, c)
        /\ k + 1 \in 1 .. Len(down) /\ Asks(down, k + 1, e) /\ j + 1 < k + 1
    BY <1>2, <1>5, <2>1
  <2> QED
    BY <1>3, <2>2 DEF AskInv, Ordered
<1>7. ASSUME NEW k \in 1 .. Len(down'), NEW e \in Questions, Asks(down', k, e)
      PROVE  /\ e.id <= decision.id /\ (e.id = decision.id => e = decision)
             /\ \/ \A x \in Seen' : x < e.id
                \/ d = e /\ \A i \in 1 .. k - 1 : Keeps(down', i)
  <2>1. /\ k + 1 \in 1 .. Len(down) /\ Asks(down, k + 1, e) /\ e.id \in Nat /\ 0 < e.id
        /\ (d \in Questions /\ Asks(down, 1, d) => d.id < e.id)
    BY <1>5, <1>7
  <2>2. /\ e.id <= decision.id /\ (e.id = decision.id => e = decision)
        /\ \/ \A x \in Seen : x < e.id
           \/ room.asked = e /\ \A i \in 1 .. (k + 1) - 1 : Keeps(down, i)
    BY <1>3, <2>1 DEF AskInv
  <2>3. CASE \A x \in Seen : x < e.id
    <3>1. d.id < e.id
      BY <1>1, <1>4, <2>1, <2>3 DEF NoDecision
    <3> QED
      BY <1>1, <2>1, <2>2, <2>3, <3>1
  <2>4. CASE room.asked = e /\ \A i \in 1 .. (k + 1) - 1 : Keeps(down, i)
    <3>1. 1 \in 1 .. (k + 1) - 1 /\ \A i \in 1 .. k - 1 : /\ i + 1 \in 1 .. (k + 1) - 1
                                                          /\ down'[i] = down[i + 1]
      BY <1>2, <1>7
    <3>2. Keeps(down, 1) /\ \A i \in 1 .. k - 1 : Keeps(down', i)
      BY <2>4, <3>1 DEF Keeps
    <3>3. d = room.asked
      <4>1. <<d>> # << >>
        OBVIOUS
      <4> QED
        BY <3>2, <4>1 DEF Handled, Keeps, d
    <3> QED
      BY <2>2, <2>4, <3>2, <3>3
  <2> QED
    BY <2>2, <2>3, <2>4
<1>8. \A x \in Seen' : x <= decision.id
  <2>1. d.id <= decision.id
    <3>1. CASE d = NoDecision
      BY <1>4, <3>1 DEF NoDecision
    <3>2. CASE d = room.asked
      BY <1>3, <1>4, <3>2 DEF AskInv
    <3>3. CASE d \in Questions /\ Asks(down, 1, d)
      <4>1. 1 \in 1 .. Len(down)
        BY <1>2
      <4> QED
        BY <1>3, <3>3, <4>1 DEF AskInv
    <3> QED
      BY <1>1, <3>1, <3>2, <3>3
  <2> QED
    BY <1>1, <1>3, <1>4, <2>1 DEF AskInv
<1>9. ASSUME turn = "me", decision.id \in Seen'
      PROVE  /\ d = decision
             /\ \A k \in 1 .. Len(down') : Keeps(down', k) \/ Asks(down', k, decision)
  <2>1. decision \in Questions /\ decision.id > 0 /\ decision # NoDecision
    BY <1>3, <1>9, AskedIs, Questioned DEF ServerInv, TypeInv, TypeOK
  <2>2. CASE decision.id \in Seen
    <3>1. /\ room.asked = decision
          /\ \A k \in 1 .. Len(down) : Keeps(down, k) \/ Asks(down, k, decision)
      BY <1>3, <1>9, <2>2 DEF AskInv
    <3>2. \A k \in 1 .. Len(down') : Keeps(down', k) \/ Asks(down', k, decision)
      BY <1>2, <3>1 DEF Keeps, Asks
    <3>3. d = decision
      <4>1. <<d>> # << >> /\ (<<d>> = <<decision>> => d = decision) /\ 1 \in 1 .. Len(down)
        BY <1>2
      <4>2. Keeps(down, 1) \/ Asks(down, 1, decision)
        BY <3>1, <4>1
      <4>3. (Keeps(down, 1) /\ d = room.asked) \/ AskedIn[down[1]] = <<d>>
        BY DEF Handled, d
      <4> QED
        BY <3>1, <4>1, <4>2, <4>3 DEF Keeps, Asks
    <3> QED
      BY <3>2, <3>3
  <2>3. CASE decision.id \notin Seen
    <3>1. decision.id = d.id /\ d # room.asked /\ d # NoDecision
      BY <1>1, <1>4, <1>9, <2>1, <2>3 DEF NoDecision
    <3>2. d \in Questions /\ Asks(down, 1, d) /\ 1 \in 1 .. Len(down)
      BY <1>1, <1>2, <3>1
    <3>3. d = decision
      BY <1>3, <3>1, <3>2 DEF AskInv
    <3>4. PICK k \in 1 .. Len(down) :
            /\ AskedIn[down[k]] = <<decision>>
            /\ \A j \in 1 .. Len(down) : j > k => AskedIn[down[j]] = << >>
      <4>1. ShownAsked = decision
        BY <1>9 DEF ShownAsked
      <4>2. <<d>> # << >>
        OBVIOUS
      <4>3. ~ \A k \in 1 .. Len(down) : AskedIn[down[k]] = << >>
        BY <3>2, <4>2 DEF Asks
      <4>4. Settles(AskedIn, down, room.asked, decision)
        BY <1>3, <4>1 DEF SettleInv
      <4> QED
        BY <4>3, <4>4 DEF Settles
    <3>5. k = 1
      <4>1. Asks(down, k, decision)
        BY <3>4 DEF Asks
      <4>2. ~ (1 < k)
        BY <1>3, <1>4, <2>1, <3>2, <3>3, <4>1 DEF AskInv, Ordered
      <4> QED
        BY <1>2, <4>2
    <3>6. \A i \in 1 .. Len(down') : Keeps(down', i)
      BY <1>2, <3>4, <3>5 DEF Keeps
    <3> QED
      BY <3>3, <3>6
  <2> QED
    BY <2>2, <2>3
<1> QED
  BY <1>2, <1>6, <1>7, <1>8, <1>9 DEF AskInv, d

LEMMA ReceiveTimer == ASSUME IInv, Handled PROVE TimerInv'
<1> DEFINE d == room'.asked
<1>1. /\ d = NoDecision \/ (d = room.asked /\ Keeps(down, 1)) \/ (d \in Questions /\ Asks(down, 1, d))
      /\ d.id \in Nat
  BY FirstAsked
<1>2. /\ Len(down) \in Nat /\ Len(down) >= 1
      /\ UNCHANGED <<pre, answered, auto, impatient>>
  BY DEF Handled, tapVars
<1>3. TimerInv /\ AskInv /\ TypeInv
  BY DEF IInv
<1>4. CASE timer' = timer /\ MyTurn' = MyTurn
  BY <1>2, <1>3, <1>4 DEF TimerInv
<1>5. CASE timer' = Nothing
  BY <1>2, <1>3, <1>5 DEF TimerInv
<1>6. CASE timer' = Resolved(pre, d) /\ MyTurn' /\ pre # "none" /\ d # room.asked
  <2>1. d # NoDecision /\ timer'.id = d.id
    BY <1>6 DEF MyTurn, Resolved
  <2>2. d \in Questions /\ Asks(down, 1, d) /\ 1 \in 1 .. Len(down)
    BY <1>1, <1>2, <1>6, <2>1
  <2>3. \A x \in Seen : x < d.id
    BY <1>3, <1>6, <2>2 DEF AskInv
  <2>4. d.id \notin Seen
    BY <1>1, <2>3
  <2>5. d.id \notin answered /\ d.id \notin auto
    BY <1>3, <2>4 DEF Seen, TimerInv
  <2> QED
    BY <1>2, <1>3, <1>6, <2>1, <2>5 DEF TimerInv
<1> QED
  BY <1>4, <1>5, <1>6 DEF Handled

LEMMA ReceivePends == ASSUME IInv, Handled PROVE PendingInv'
<1> DEFINE d == room'.asked
<1>1. /\ d = NoDecision \/ (d = room.asked /\ Keeps(down, 1)) \/ (d \in Questions /\ Asks(down, 1, d))
      /\ d.id \in Nat
  BY FirstAsked
<1>2. /\ Len(down) \in Nat /\ Len(down) >= 1
      /\ \A k \in 1 .. Len(down') : k + 1 \in 1 .. Len(down) /\ down'[k] = down[k + 1]
      /\ UNCHANGED <<turn, decision, late, answered, twice, up>>
  BY DEF Handled, tapVars, serverVars
<1>3. SUFFICES ASSUME ~Muddled' PROVE PendingInv'
  BY DEF PendingInv
<1>4. ~Muddled /\ PendingInv
  BY <1>2, <1>3 DEF IInv, Muddled
<1>5. Due(d.id)
  <2>1. CASE d = NoDecision
    BY <2>1 DEF Due, NoDecision
  <2>2. CASE d = room.asked
    BY <1>4, <2>2 DEF PendingInv
  <2>3. CASE d \in Questions /\ Asks(down, 1, d)
    <3>1. 1 \in 1 .. Len(down)
      BY <1>2
    <3> QED
      BY <1>4, <2>3, <3>1 DEF PendingInv
  <2> QED
    BY <1>1, <2>1, <2>2, <2>3
<1>6. Due(timer'.id)
  <2>1. timer'.id \in {timer.id, 0, d.id}
    BY DEF Handled, Resolved, Nothing
  <2>2. Due(0) /\ Due(timer.id)
    BY <1>4 DEF PendingInv, Due
  <2> QED
    BY <1>5, <2>1, <2>2
<1>7. ASSUME NEW k \in 1 .. Len(down'), NEW e \in Questions, Asks(down', k, e)
      PROVE  Due(e.id)
  <2>1. k + 1 \in 1 .. Len(down) /\ Asks(down, k + 1, e)
    BY <1>2, <1>7 DEF Asks
  <2> QED
    BY <1>4, <2>1 DEF PendingInv
<1>8. /\ Due(room.asked.id)' /\ Due(timer.id)'
      /\ \A k \in 1 .. Len(down') : \A e \in Questions : Asks(down', k, e) => Due(e.id)'
  BY <1>2, <1>5, <1>6, <1>7 DEF Due
<1> QED
  BY <1>2, <1>4, <1>8 DEF PendingInv

LEMMA ReceiveGaps == ASSUME IInv, Handled, TimerInv' PROVE GapInv'
<1> DEFINE d == room'.asked
<1>1. d = NoDecision \/ (d = room.asked /\ Keeps(down, 1)) \/ (d \in Questions /\ Asks(down, 1, d))
  BY FirstAsked
<1>2. /\ Len(down) \in Nat /\ Len(down) >= 1
      /\ \A k \in 1 .. Len(down') : k + 1 \in 1 .. Len(down) /\ down'[k] = down[k + 1]
      /\ UNCHANGED <<late, answered, twice, impatient, drops>> /\ 1 \in 1 .. Len(down)
  BY DEF Handled, tapVars
<1>3. SUFFICES ASSUME ~Muddled' PROVE GapInv'
  BY DEF GapInv
<1>4. ~Muddled /\ GapInv
  BY <1>2, <1>3 DEF IInv, Muddled
<1>5. ASSUME NEW j \in 1 .. Len(down'), NEW k \in 1 .. Len(down'),
             NEW c \in Questions, NEW e \in Questions,
             j < k, Asks(down', j, c), Asks(down', k, e),
             \A i \in j + 1 .. k - 1 : Keeps(down', i)
      PROVE  c.id \in answered'
  <2>1. /\ j + 1 \in 1 .. Len(down) /\ Asks(down, j + 1, c)
        /\ k + 1 \in 1 .. Len(down) /\ Asks(down, k + 1, e) /\ j + 1 < k + 1
    BY <1>2, <1>5 DEF Asks
  <2>2. ASSUME NEW i \in (j + 1) + 1 .. (k + 1) - 1 PROVE Keeps(down, i)
    <3>1. i - 1 \in j + 1 .. k - 1 /\ i - 1 \in 1 .. Len(down') /\ (i - 1) + 1 = i
      BY <1>2
    <3>2. Keeps(down', i - 1) /\ down'[i - 1] = down[i]
      BY <1>2, <1>5, <3>1
    <3> QED
      BY <3>2 DEF Keeps
  <2> QED
    BY <1>2, <1>4, <2>1, <2>2 DEF GapInv
<1>6. ASSUME timer' # Nothing, ~impatient', NEW k \in 1 .. Len(down'), NEW e \in Questions,
             Asks(down', k, e), e # d, \A i \in 1 .. k - 1 : Keeps(down', i)
      PROVE  d.id \in answered' \/ Overtaken'
  <2>1. k + 1 \in 1 .. Len(down) /\ Asks(down, k + 1, e) /\ 1 < k + 1
    BY <1>2, <1>6 DEF Asks
  <2>2. ASSUME NEW i \in 2 .. k PROVE Keeps(down, i)
    <3>1. i - 1 \in 1 .. k - 1 /\ i - 1 \in 1 .. Len(down') /\ (i - 1) + 1 = i
      BY <1>2
    <3>2. Keeps(down', i - 1) /\ down'[i - 1] = down[i]
      BY <1>2, <1>6, <3>1
    <3> QED
      BY <3>2 DEF Keeps
  <2>3. d # NoDecision
    BY <1>6 DEF TimerInv, MyTurn
  <2>4. CASE d = room.asked /\ Keeps(down, 1)
    <3>1. timer' = timer /\ timer # Nothing
      BY <1>6, <2>4 DEF Handled
    <3>3. Overtaken => Overtaken'
      BY <1>2, <3>1 DEF Overtaken
    <3>2. \A i \in 1 .. (k + 1) - 1 : Keeps(down, i)
      BY <2>2, <2>4
    <3> QED
      BY <1>2, <1>4, <1>6, <2>1, <2>4, <3>1, <3>2, <3>3 DEF GapInv
  <2>5. CASE d \in Questions /\ Asks(down, 1, d)
    <3>1. \A i \in 1 + 1 .. (k + 1) - 1 : Keeps(down, i)
      BY <2>2
    <3> QED
      BY <1>2, <1>4, <2>1, <2>5, <3>1 DEF GapInv
  <2> QED
    BY <1>1, <2>3, <2>4, <2>5
<1> QED
  BY <1>5, <1>6 DEF GapInv

(* A timer that stays although another decision is asked: the player acted *)
(* on the one it is for.                                                   *)
LEMMA ReceiveIsForThis == ASSUME IInv, Handled, TimerInv' PROVE PreActionIsForThisDecision'
<1> DEFINE d == room'.asked
<1>1. d = NoDecision \/ (d = room.asked /\ Keeps(down, 1)) \/ (d \in Questions /\ Asks(down, 1, d))
  BY FirstAsked
<1>2. /\ 1 \in 1 .. Len(down)
      /\ UNCHANGED <<late, answered, twice, impatient, drops>>
  BY DEF Handled, tapVars
<1>3. SUFFICES ASSUME timer' # Nothing, ~Muddled', ~impatient', ~Overtaken'
               PROVE  d.id = timer'.id
  BY DEF PreActionIsForThisDecision
<1>4. ~Muddled /\ GapInv /\ TimerInv /\ PreActionIsForThisDecision /\ ~impatient
  BY <1>2, <1>3 DEF IInv, Muddled
<1>5. d # NoDecision
  BY <1>3 DEF TimerInv, MyTurn
<1>6. CASE timer' = Resolved(pre, d)
  BY <1>6 DEF Resolved
<1>7. CASE timer' = timer
  <2>4. ~Overtaken
    BY <1>2, <1>3, <1>7 DEF Overtaken
  <2>1. room.asked.id = timer.id /\ timer.id \notin answered
    BY <1>3, <1>4, <1>7, <2>4 DEF PreActionIsForThisDecision, TimerInv
  <2>2. CASE d = room.asked
    BY <1>7, <2>1, <2>2
  <2>3. CASE d # room.asked /\ d \in Questions /\ Asks(down, 1, d)
    <3>1. \A i \in 1 .. 1 - 1 : Keeps(down, i)
      OBVIOUS
    <3>2. room.asked.id \in answered
      BY <1>2, <1>3, <1>4, <1>7, <2>3, <2>4, <3>1 DEF GapInv
    <3> QED
      BY <2>1, <3>2
  <2> QED
    BY <1>1, <1>5, <2>2, <2>3
<1> QED
  BY <1>3, <1>6, <1>7 DEF Handled

LEMMA ReceiveKeeps == ASSUME IInv, Receive PROVE IInv'
<1>1. Handled
  BY ReceiveHandles
<1>2. TimerInv'
  BY <1>1, ReceiveTimer
<1> QED
  BY <1>1, <1>2, ReceiveType, ReceiveSettles, ReceiveAsks, ReceivePends, ReceiveGaps,
     ReceiveIsForThis DEF IInv

-----------------------------------------------------------------------------
(* Sending an action for what the room shows or the timer waits to send.   *)
LEMMA SendKeeps ==
  ASSUME IInv, NEW c \in Commands, c.id \in {timer.id, room.asked.id}, SendAction(c),
         UNCHANGED <<serverVars, link, down, known, room, late, drops>>,
         timer' \in {timer, Nothing}, impatient => impatient'
  PROVE  /\ up' \in Seq(Commands) /\ answered' \subseteq Decisions /\ twice' \in BOOLEAN
         /\ answered \subseteq answered' /\ answered' \subseteq answered \cup {c.id}
         /\ Muddled => Muddled'
         /\ ServerInv' /\ SettleInv' /\ AskInv' /\ PendingInv' /\ GapInv'
<1>1. TypeInv /\ ServerInv /\ SettleInv /\ AskInv /\ PendingInv /\ GapInv
  BY DEF IInv
<1>2. c.id \in Decisions /\ Decisions \subseteq Nat /\ 0 \notin Decisions
  BY BoundsAssumption DEF Commands, Decisions
<1>3. /\ link = "up" => /\ up' = Append(up, c) /\ answered' = answered \cup {c.id}
                        /\ twice' = (twice \/ c.id \in answered)
      /\ link # "up" => UNCHANGED <<up, answered, twice>>
      /\ up \in Seq(Commands) /\ answered \subseteq Decisions /\ twice \in BOOLEAN
  BY <1>1 DEF SendAction, TypeInv, TypeOK
<1>4. Append(up, c) \in Seq(Commands) /\ Len(Append(up, c)) = Len(up) + 1
      /\ (up = << >> => Append(up, c)[1] = c /\ Len(up) = 0) /\ Len(up) \in Nat
  BY <1>3
<1>5. /\ up' \in Seq(Commands) /\ answered' \subseteq Decisions /\ twice' \in BOOLEAN
      /\ answered \subseteq answered' /\ answered' \subseteq answered \cup {c.id}
      /\ Muddled => Muddled'
  <2>1. CASE link = "up"
    <3>1. up' \in Seq(Commands) /\ answered' = answered \cup {c.id}
      BY <1>3, <1>4, <2>1
    <3>2. twice' \in BOOLEAN /\ (twice => twice')
      BY <1>3, <2>1, Zenon
    <3>3. Muddled => Muddled'
      <4>1. late \cap answered # {} => late' \cap answered' # {}
        BY <3>1
      <4> QED
        BY <3>2, <4>1, Zenon DEF Muddled
    <3> QED
      BY <1>2, <1>3, <3>1, <3>2, <3>3
  <2>2. CASE link # "up"
    BY <1>3, <2>2 DEF Muddled
  <2> QED
    BY <2>1, <2>2
<1>6. ServerInv'
  BY <1>1, <1>3 DEF ServerInv, serverVars, TypeInv, TypeOK
<1>7. SettleInv'
  BY <1>1 DEF SettleInv, serverVars, ShownState, ShownHole, ShownReveal, ShownAsked
<1>8. AskInv'
  <2>1. Seen' \subseteq Seen \cup {0}
    BY <1>5 DEF Seen, Nothing
  <2>2. UNCHANGED <<down, decision, turn, room>> /\ decision.id \in Nat
    BY <1>1, AskedIs DEF serverVars, TypeInv, TypeOK
  <2>3. ASSUME NEW k \in 1 .. Len(down), NEW d \in Questions, Asks(down, k, d)
        PROVE  /\ d.id <= decision.id
               /\ d.id = decision.id => d = decision
               /\ \/ \A x \in Seen' : x < d.id
                  \/ room.asked = d /\ \A i \in 1 .. k - 1 : Keeps(down, i)
    <3>1. 0 < d.id
      BY Questioned
    <3> QED
      BY <1>1, <2>1, <2>3, <3>1 DEF AskInv
  <2>4. \A x \in Seen' : x <= decision.id
    BY <1>1, <2>1, <2>2 DEF AskInv
  <2>5. turn = "me" /\ decision.id \in Seen' => decision.id \in Seen
    BY <1>1, <2>1, AskedIs DEF ServerInv, TypeInv, TypeOK
  <2>6. turn = "me" /\ decision.id \in Seen' =>
          /\ room.asked = decision
          /\ \A k \in 1 .. Len(down) : Keeps(down, k) \/ Asks(down, k, decision)
    BY <1>1, <2>5 DEF AskInv
  <2>7. Ordered(down')
    BY <1>1, <2>2 DEF AskInv
  <2> QED
    BY <2>2, <2>3, <2>4, <2>6, <2>7 DEF AskInv
<1>9. PendingInv'
  <2>1. SUFFICES ASSUME ~Muddled' PROVE PendingInv'
    BY DEF PendingInv
  <2>2. ~Muddled /\ UNCHANGED <<down, turn, decision, room, late>>
    BY <1>5, <2>1 DEF serverVars
  <2>3. /\ Due(room.asked.id) /\ Due(timer.id) /\ Due(0)
        /\ \A k \in 1 .. Len(down) : \A d \in Questions : Asks(down, k, d) => Due(d.id)
    BY <1>1, <2>2 DEF PendingInv, Due
  <2>4. timer'.id \in {timer.id, 0}
    BY DEF Nothing
  <2>5. /\ Due(room.asked.id)' /\ Due(timer.id)'
        /\ \A k \in 1 .. Len(down') : \A d \in Questions : Asks(down', k, d) => Due(d.id)'
    BY <1>5, <2>2, <2>3, <2>4 DEF Due
  <2>6. CASE link # "up"
    BY <1>1, <1>3, <2>2, <2>5, <2>6 DEF PendingInv
  <2>7. CASE link = "up"
    <3>1. c.id \notin answered /\ c.id \notin late /\ c.id # 0
      BY <1>2, <1>3, <2>1, <2>2, <2>7 DEF Muddled
    <3>2. turn = "me" /\ c.id = decision.id
      BY <2>3, <3>1 DEF Due
    <3>3. up = << >>
      BY <1>1, <2>2, <3>1, <3>2 DEF PendingInv
    <3>4. Len(up') = 1 /\ up'[1].id = decision.id /\ decision.id \in answered'
      BY <1>3, <1>4, <2>7, <3>2, <3>3
    <3> QED
      BY <2>2, <2>5, <3>2, <3>4 DEF PendingInv
  <2> QED
    BY <2>6, <2>7
<1>10. GapInv'
  <2>1. Muddled' \/ ~Muddled
    BY <1>5
  <2>2. timer' # Nothing => timer # Nothing /\ (Overtaken => Overtaken')
    BY DEF Overtaken
  <2> QED
    BY <1>1, <1>5, <2>1, <2>2 DEF GapInv
<1> QED
  BY <1>5, <1>6, <1>7, <1>8, <1>9, <1>10

LEMMA TimerFiresKeeps == ASSUME IInv, TimerFires PROVE IInv'
<1>1. /\ timer \in Commands /\ SendAction(timer) /\ timer' = Nothing /\ pre' = "none"
      /\ UNCHANGED <<serverVars, link, down, known, room, executed, impatient, late, drops>>
  BY DEF TimerFires, IInv, TypeInv, TypeOK
<1>2. /\ up' \in Seq(Commands) /\ answered' \subseteq Decisions /\ twice' \in BOOLEAN
      /\ answered \subseteq answered'
      /\ ServerInv' /\ SettleInv' /\ AskInv' /\ PendingInv' /\ GapInv'
  BY <1>1, SendKeeps
<1>3. auto' \subseteq answered'
  BY <1>2 DEF TimerFires, SendAction, IInv, TimerInv
<1>4. TypeInv'
  BY <1>1, <1>2, <1>3 DEF IInv, TypeInv, TypeOK, serverVars, PreActions
<1>5. TimerInv' /\ PreActionIsForThisDecision'
  BY <1>1, <1>3 DEF TimerInv, PreActionIsForThisDecision
<1> QED
  BY <1>2, <1>4, <1>5 DEF IInv

LEMMA PressKeeps == ASSUME IInv, NEW a \in Actions, Press(a) PROVE IInv'
<1> DEFINE c == [action |-> a, id |-> room.asked.id]
<1>1. /\ MyTurn /\ SendAction(c) /\ impatient' = (impatient \/ pre # "none")
      /\ UNCHANGED <<serverVars, link, down, known, room, preVars, auto, late, drops>>
  BY DEF Press
<1>2. room.asked \in Questions
  BY <1>1, AskedIs DEF IInv, TypeInv, TypeOK, Rooms, MyTurn
<1>3. c \in Commands /\ c.id = room.asked.id
  BY <1>2, Questioned DEF Commands
<1> HIDE DEF c
<1>4. UNCHANGED <<timer, pre, executed>>
  BY <1>1 DEF preVars
<1>5. /\ up' \in Seq(Commands) /\ answered' \subseteq Decisions /\ twice' \in BOOLEAN
      /\ answered \subseteq answered' /\ (Muddled => Muddled')
      /\ ServerInv' /\ SettleInv' /\ AskInv' /\ PendingInv' /\ GapInv'
  BY <1>1, <1>3, <1>4, SendKeeps
<1>6. TypeInv'
  BY <1>1, <1>4, <1>5 DEF IInv, TypeInv, TypeOK, serverVars
<1>7. TimerInv'
  BY <1>1, <1>4, <1>5 DEF IInv, TimerInv, MyTurn
<1>8. PreActionIsForThisDecision'
  BY <1>1, <1>4, <1>5 DEF IInv, PreActionIsForThisDecision, Overtaken
<1> QED
  BY <1>5, <1>6, <1>7, <1>8 DEF IInv

LEMMA TogglePreActionKeeps == ASSUME IInv, NEW p \in Offered, TogglePreAction(p) PROVE IInv'
<1>1. /\ ~MyTurn /\ pre' = p /\ executed' = FALSE /\ impatient' = FALSE
      /\ UNCHANGED <<serverVars, netVars, known, room, timer, answered, twice, auto, late, drops>>
  BY DEF TogglePreAction
<1>2. p \in PreActions
  BY OfferedAssumption
<1>3. timer = Nothing
  BY <1>1 DEF IInv, TimerInv
<1>4. TypeInv' /\ ServerInv'
  BY <1>1, <1>2 DEF IInv, TypeInv, TypeOK, ServerInv, serverVars, netVars
<1>7. GapInv'
  BY <1>1, <1>3 DEF IInv, GapInv, Muddled, netVars
<1>5. SettleInv' /\ AskInv' /\ PendingInv'
  BY <1>1 DEF IInv, SettleInv, AskInv, PendingInv, Seen, Due, Muddled, serverVars, netVars,
              ShownState, ShownHole, ShownReveal, ShownAsked
<1>6. TimerInv' /\ PreActionIsForThisDecision'
  BY <1>1, <1>3 DEF IInv, TimerInv, PreActionIsForThisDecision
<1> QED
  BY <1>4, <1>5, <1>6, <1>7 DEF IInv

-----------------------------------------------------------------------------
LEMMA DropKeeps == ASSUME IInv, Drop PROVE IInv'
<1>1. /\ link' = "down" /\ down' = << >> /\ up' = << >> /\ drops' = drops + 1
      /\ UNCHANGED <<serverVars, known, room, preVars, tapVars, late>>
      /\ drops \in Nat /\ drops < MaxDrops /\ MaxDrops \in Nat
  BY BoundsAssumption DEF Drop, IInv, TypeInv, TypeOK
<1>2. TypeInv'
  BY <1>1 DEF IInv, TypeInv, TypeOK, serverVars, preVars, tapVars
<1>3. ServerInv' /\ SettleInv'
  BY <1>1 DEF IInv, ServerInv, SettleInv, serverVars
<1>4. AskInv'
  BY <1>1 DEF IInv, AskInv, Ordered, Seen, serverVars, preVars, tapVars
<1>5. TimerInv' /\ PreActionIsForThisDecision'
  BY <1>1 DEF IInv, TimerInv, MyTurn, PreActionIsForThisDecision, Muddled, Overtaken, preVars, tapVars
<1>6. PendingInv' /\ GapInv'
  BY <1>1 DEF IInv, PendingInv, GapInv, Muddled, Due, serverVars, preVars, tapVars
<1> QED
  BY <1>2, <1>3, <1>4, <1>5, <1>6 DEF IInv

(* What handle_reconnect sends.                                            *)
LEMMA Rejoined ==
  ASSUME TypeInv, ServerInv, Reconnect
  PROVE  /\ down' \in Seq(Messages) /\ down' # << >> /\ Head(down') = Connected
         /\ LastSets(StateIn, down', ShownState) /\ LastSets(AskedIn, down', ShownAsked)
         /\ phase # "idle" => LastSets(HoleIn, down', ShownHole)
         /\ \A k \in 1 .. Len(down') : \A d \in Questions : Asks(down', k, d) =>
              /\ turn = "me" /\ d = decision /\ k = Len(down')
              /\ \A i \in 1 .. k - 1 : Keeps(down', i)
         /\ turn = "me" =>
              \A k \in 1 .. Len(down') : Keeps(down', k) \/ Asks(down', k, decision)
<1> DEFINE s == TableState(phase, turn)
           h == YourHoleCards(hand)
           a == ActionRequired("me", decision)
<1>1. /\ phase \in Phases /\ turn \in Turns /\ hand \in 0 .. MaxHands /\ decision \in Asked
      /\ phase = "betting" <=> turn # "nobody"
  BY DEF TypeInv, TypeOK, Phases, ServerInv
<1>2. /\ Connected \in Messages /\ StateIn[Connected] = << >> /\ HoleIn[Connected] = << >>
      /\ AskedIn[Connected] = << >>
  BY ConnectedSets
<1>3. /\ s \in Messages
      /\ StateIn[s] = <<ShownState>> /\ HoleIn[s] = << >>
      /\ AskedIn[s] = IF phase # "idle" /\ turn = "me" THEN << >> ELSE <<NoDecision>>
  BY <1>1, TableStateSets DEF ShownState
<1>4. /\ h \in Messages /\ StateIn[h] = << >> /\ HoleIn[h] = <<hand>> /\ AskedIn[h] = << >>
  BY <1>1, YourHoleCardsSets
<1>5. turn = "me" => /\ a \in Messages /\ StateIn[a] = << >> /\ HoleIn[a] = << >>
                     /\ AskedIn[a] = <<decision>> /\ decision \in Questions
  <2>1. turn = "me" => decision \in Questions
    BY <1>1, AskedIs DEF ServerInv
  <2> QED
    BY <2>1, ActionRequiredSets
<1>6. down' = <<Connected, s>> \o (IF phase # "idle" THEN <<h>> ELSE << >>)
                               \o (IF turn = "me" THEN <<a>> ELSE << >>)
  BY DEF Reconnect
<1> HIDE DEF s, h, a
<1>10. LET q == <<Connected, s>> \o <<h>> IN
       /\ q \in Seq(Messages) /\ Len(q) = 3 /\ q # << >> /\ Head(q) = Connected
       /\ q[1] = Connected /\ q[2] = s /\ q[3] = h /\ q \o << >> = q
       /\ \A z \in Messages :
            /\ q \o <<z>> \in Seq(Messages) /\ Len(q \o <<z>>) = 4 /\ q \o <<z>> # << >>
            /\ Head(q \o <<z>>) = Connected
            /\ (q \o <<z>>)[1] = Connected /\ (q \o <<z>>)[2] = s
            /\ (q \o <<z>>)[3] = h /\ (q \o <<z>>)[4] = z
  BY <1>2, <1>3, <1>4, JoinedOnes
<1>7. CASE phase = "idle"
  <2>1. down' = <<Connected, s>>
    BY <1>1, <1>6, <1>7
  <2>2. /\ down' \in Seq(Messages) /\ down' # << >> /\ Len(down') = 2
        /\ down'[1] = Connected /\ down'[2] = s /\ Head(down') = Connected
    BY <1>2, <1>3, <2>1
  <2>3. AskedIn[down'[2]] = <<NoDecision>> /\ ShownAsked = NoDecision
    BY <1>1, <1>3, <1>7, <2>2 DEF ShownAsked
  <2>4. LastSets(StateIn, down', ShownState) /\ LastSets(AskedIn, down', ShownAsked)
    BY <1>3, <2>2, <2>3 DEF LastSets
  <2>5. \A k \in 1 .. Len(down') : \A d \in Questions : ~Asks(down', k, d)
    BY <1>2, <2>2, <2>3, Questioned DEF Asks
  <2> QED
    BY <1>1, <1>7, <2>2, <2>4, <2>5
<1>8. CASE phase # "idle" /\ turn # "me"
  <2>1. down' = <<Connected, s>> \o <<h>> \o << >>
    BY <1>6, <1>8
  <2>2. /\ down' \in Seq(Messages) /\ down' # << >> /\ Len(down') = 3
        /\ down'[1] = Connected /\ down'[2] = s /\ down'[3] = h /\ Head(down') = Connected
    BY <1>10, <2>1
  <2>3. AskedIn[down'[2]] = <<NoDecision>> /\ ShownAsked = NoDecision
    BY <1>1, <1>3, <1>8, <2>2 DEF ShownAsked
  <2>4. LastSets(StateIn, down', ShownState) /\ LastSets(AskedIn, down', ShownAsked)
    BY <1>3, <1>4, <2>2, <2>3 DEF LastSets
  <2>5. LastSets(HoleIn, down', ShownHole)
    BY <1>4, <1>8, <2>2 DEF LastSets, ShownHole
  <2>6. \A k \in 1 .. Len(down') : \A d \in Questions : ~Asks(down', k, d)
    BY <1>2, <1>4, <2>2, <2>3, Questioned DEF Asks
  <2> QED
    BY <1>8, <2>2, <2>4, <2>5, <2>6
<1>9. CASE phase # "idle" /\ turn = "me"
  <2>1. down' = <<Connected, s>> \o <<h>> \o <<a>>
    BY <1>6, <1>9
  <2>2. /\ down' \in Seq(Messages) /\ down' # << >> /\ Len(down') = 4
        /\ down'[1] = Connected /\ down'[2] = s /\ down'[3] = h /\ down'[4] = a
        /\ Head(down') = Connected
    BY <1>5, <1>9, <1>10, <2>1
  <2>3. /\ AskedIn[down'[1]] = << >> /\ AskedIn[down'[2]] = << >> /\ AskedIn[down'[3]] = << >>
        /\ AskedIn[down'[4]] = <<decision>> /\ ShownAsked = decision
    BY <1>2, <1>3, <1>4, <1>5, <1>9, <2>2 DEF ShownAsked
  <2>4. LastSets(StateIn, down', ShownState)
    <3>1. /\ StateIn[down'[2]] = <<ShownState>> /\ StateIn[down'[3]] = << >>
          /\ StateIn[down'[4]] = << >>
      BY <1>3, <1>4, <1>5, <1>9, <2>2
    <3> QED
      BY <2>2, <3>1 DEF LastSets
  <2>5. LastSets(AskedIn, down', ShownAsked)
    BY <2>2, <2>3 DEF LastSets
  <2>6. LastSets(HoleIn, down', ShownHole)
    <3>1. HoleIn[down'[3]] = <<ShownHole>> /\ HoleIn[down'[4]] = << >>
      BY <1>4, <1>5, <1>9, <2>2 DEF ShownHole
    <3> QED
      BY <2>2, <3>1 DEF LastSets
  <2>7. ASSUME NEW k \in 1 .. Len(down'), NEW d \in Questions, Asks(down', k, d)
        PROVE  d = decision /\ k = 4
    <3>1. <<d>> # << >> /\ (<<d>> = <<decision>> => d = decision)
      OBVIOUS
    <3>2. AskedIn[down'[k]] = <<d>> /\ k \in {1, 2, 3, 4}
      BY <2>2, <2>7 DEF Asks
    <3> QED
      BY <2>3, <3>1, <3>2
  <2>8. \A i \in 1 .. 3 : Keeps(down', i)
    BY <2>3 DEF Keeps
  <2>9. \A k \in 1 .. Len(down') : Keeps(down', k) \/ Asks(down', k, decision)
    BY <2>2, <2>3 DEF Keeps, Asks
  <2> QED
    BY <1>9, <2>2, <2>4, <2>5, <2>6, <2>7, <2>8, <2>9
<1> QED
  BY <1>7, <1>8, <1>9

LEMMA LastSettles ==
  ASSUME NEW f, NEW q, NEW r, NEW v, LastSets(f, q, v)
  PROVE  Settles(f, q, r, v)
BY DEF LastSets, Settles

LEMMA ReconnectKeeps == ASSUME IInv, Reconnect PROVE IInv'
<1>1. /\ link = "down" /\ link' = "up" /\ known' = FALSE
      /\ UNCHANGED <<serverVars, up, room, preVars, tapVars, late, drops>>
  BY DEF Reconnect
<1>2. UNCHANGED <<phase, turn, decision, room, timer, answered, twice, late, drops, up>>
  BY <1>1 DEF serverVars, preVars, tapVars
<1>3. TypeInv /\ ServerInv /\ AskInv /\ down = << >> /\ up = << >> /\ drops > 0
  BY <1>1 DEF IInv, ServerInv
<1>4. /\ down' \in Seq(Messages) /\ down' # << >> /\ Head(down') = Connected
      /\ LastSets(StateIn, down', ShownState) /\ LastSets(AskedIn, down', ShownAsked)
      /\ phase # "idle" => LastSets(HoleIn, down', ShownHole)
  BY <1>3, Rejoined
<1>5. ASSUME NEW k \in 1 .. Len(down'), NEW d \in Questions, Asks(down', k, d)
      PROVE  /\ turn = "me" /\ d = decision /\ k = Len(down')
             /\ \A i \in 1 .. k - 1 : Keeps(down', i)
  BY <1>3, <1>5, Rejoined
<1>6. turn = "me" =>
        \A k \in 1 .. Len(down') : Keeps(down', k) \/ Asks(down', k, decision)
  BY <1>3, Rejoined
<1>7. TypeInv'
  BY <1>1, <1>3, <1>4 DEF TypeInv, TypeOK, serverVars, preVars, tapVars
<1>8. ServerInv'
  BY <1>1, <1>3, <1>4 DEF ServerInv, serverVars
<1>9. SettleInv'
  <2>1. /\ ShownState' = ShownState /\ ShownAsked' = ShownAsked /\ ShownHole' = ShownHole
    BY <1>1 DEF serverVars, ShownState, ShownAsked, ShownHole
  <2>2. /\ \A r : Settles(StateIn, down', r, ShownState)
        /\ \A r : Settles(AskedIn, down', r, ShownAsked)
        /\ phase # "idle" => \A r : Settles(HoleIn, down', r, ShownHole)
    BY <1>4, LastSettles
  <2>3. drops' # 0
    BY <1>2, <1>3 DEF TypeInv, TypeOK
  <2> QED
    BY <1>2, <2>1, <2>2, <2>3 DEF SettleInv
<1>10. AskInv'
  <2>1. Seen' = Seen /\ \A x \in Seen : x \in Nat /\ x <= decision.id
    BY <1>2, <1>3, SeenType DEF Seen, AskInv
  <2>2. decision.id \in Nat
    BY <1>3, AskedIs DEF TypeInv, TypeOK
  <2>3. Len(down') \in Nat
    BY <1>4
  <2>4. Ordered(down')
    BY <1>5, <2>3 DEF Ordered
  <2>5. ASSUME NEW k \in 1 .. Len(down'), NEW d \in Questions, Asks(down', k, d)
        PROVE  /\ d.id <= decision.id
               /\ d.id = decision.id => d = decision
               /\ \/ \A x \in Seen : x < d.id
                  \/ room.asked = d /\ \A i \in 1 .. k - 1 : Keeps(down', i)
    <3>1. turn = "me" /\ d = decision /\ \A i \in 1 .. k - 1 : Keeps(down', i)
      BY <1>5, <2>5
    <3>2. CASE decision.id \in Seen
      BY <1>3, <2>2, <3>1, <3>2 DEF AskInv
    <3>3. CASE decision.id \notin Seen
      BY <2>1, <2>2, <3>1, <3>3
    <3> QED
      BY <3>2, <3>3
  <2>6. turn = "me" /\ decision.id \in Seen => room.asked = decision
    BY <1>3 DEF AskInv
  <2> QED
    BY <1>2, <1>6, <2>1, <2>4, <2>5, <2>6 DEF AskInv
<1>11. TimerInv' /\ PreActionIsForThisDecision'
  BY <1>1 DEF IInv, TimerInv, PreActionIsForThisDecision, MyTurn, Muddled, Overtaken, preVars, tapVars
<1>12. PendingInv'
  <2>1. SUFFICES ASSUME ~Muddled' PROVE PendingInv'
    BY DEF PendingInv
  <2>2. ~Muddled
    BY <1>2, <2>1 DEF Muddled
  <2>3. Due(room.asked.id) /\ Due(timer.id)
    BY <2>2 DEF IInv, PendingInv
  <2>4. \A k \in 1 .. Len(down') : \A d \in Questions : Asks(down', k, d) => Due(d.id)
    BY <1>5 DEF Due
  <2> QED
    BY <1>2, <1>3, <2>3, <2>4 DEF PendingInv, Due
<1>13. GapInv'
  <2>1. SUFFICES ASSUME ~Muddled' PROVE GapInv'
    BY DEF GapInv
  <2>2. ~Muddled /\ UNCHANGED <<impatient, Overtaken>>
    BY <1>1, <1>2, <2>1 DEF Muddled, Overtaken, tapVars
  <2>3. Len(down') \in Nat
    BY <1>4
  <2>4. ASSUME timer # Nothing, ~impatient, ~Overtaken, turn = "me", decision # room.asked
        PROVE  FALSE
    <3>1. room.asked.id = timer.id /\ timer.id # 0 /\ timer.id \notin answered
      <4>1. timer \in Commands /\ 0 \notin Decisions
        BY <1>3, <2>4, BoundsAssumption DEF TypeInv, TypeOK, Decisions
      <4> QED
        BY <2>2, <2>4, <4>1 DEF IInv, TimerInv, PreActionIsForThisDecision, Commands
    <3>2. timer.id \notin late
      BY <1>2, <1>3, <2>4 DEF Overtaken, TypeInv, TypeOK
    <3>3. timer.id = decision.id
      BY <2>2, <3>1, <3>2 DEF IInv, PendingInv, Due
    <3> QED
      BY <1>3, <2>4, <3>3 DEF AskInv, Seen
  <2>5. ASSUME NEW k \in 1 .. Len(down'), NEW d \in Questions, Asks(down', k, d)
        PROVE  turn = "me" /\ d = decision /\ k = Len(down')
    BY <1>5, <2>5
  <2> QED
    BY <1>2, <2>2, <2>3, <2>4, <2>5 DEF GapInv
<1> QED
  BY <1>7, <1>8, <1>9, <1>10, <1>11, <1>12, <1>13 DEF IInv

-----------------------------------------------------------------------------
LEMMA InitIInv == Init => IInv
<1> SUFFICES ASSUME Init PROVE IInv
  OBVIOUS
<1>1. /\ MaxHands \in Nat /\ MaxDrops \in Nat /\ NoDecision \in Asked /\ 0 \in 0 .. MaxHands
      /\ 0 \in 0 .. MaxDrops
  BY BoundsAssumption DEF Asked
<1>2. TypeInv
  <2>1. room \in Rooms
    BY <1>1 DEF Init, Rooms, Turns
  <2>2. up \in Seq(Commands) /\ down \in Seq(Messages)
    BY DEF Init
  <2>3. turn \in Turns /\ pre \in PreActions
    BY DEF Init, Turns, PreActions
  <2> QED
    BY <1>1, <2>1, <2>2, <2>3 DEF Init, TypeInv, TypeOK
<1>3. ServerInv
  BY DEF Init, ServerInv
<1>4. SettleInv
  <2>1. \A f, r : Settles(f, down, r, r)
    BY DEF Init, Settles
  <2>2. /\ <<room.inProgress, room.turn>> = ShownState /\ room.asked = ShownAsked
        /\ room.hole = ShownHole /\ room.reveal = ShownReveal
    BY DEF Init, ShownState, ShownAsked, ShownHole, ShownReveal
  <2> QED
    BY <2>1, <2>2 DEF SettleInv
<1>5. AskInv
  BY DEF Init, AskInv, Ordered, Seen, Nothing, NoDecision
<1>6. TimerInv /\ PreActionIsForThisDecision
  BY DEF Init, TimerInv, PreActionIsForThisDecision
<1>7. PendingInv /\ GapInv
  BY DEF Init, PendingInv, GapInv, Due, Nothing, NoDecision
<1> QED
  BY <1>2, <1>3, <1>4, <1>5, <1>6, <1>7 DEF IInv

LEMMA NextIInv ==
  ASSUME IInv, [Next]_vars
  PROVE  IInv'
<1>1. CASE UNCHANGED vars
  <2>1. UNCHANGED <<serverVars, netVars, known, room, preVars, tapVars, late, drops>>
    BY <1>1 DEF vars
  <2>2. TypeInv' /\ ServerInv'
    BY <2>1 DEF IInv, TypeInv, TypeOK, ServerInv, serverVars, netVars, preVars, tapVars
  <2>3. SettleInv' /\ AskInv'
    BY <2>1 DEF IInv, SettleInv, AskInv, Seen, serverVars, netVars, preVars, tapVars,
                ShownState, ShownHole, ShownReveal, ShownAsked
  <2>4. TimerInv' /\ PreActionIsForThisDecision'
    BY <2>1 DEF IInv, TimerInv, MyTurn, PreActionIsForThisDecision, Muddled, Overtaken, preVars, tapVars
  <2>5. PendingInv' /\ GapInv'
    BY <2>1 DEF IInv, PendingInv, GapInv, Due, Muddled, Overtaken, serverVars, netVars, preVars, tapVars
  <2> QED
    BY <2>2, <2>3, <2>4, <2>5 DEF IInv
<1>2. CASE StartHand
  BY <1>2, StartHandKeeps
<1>3. CASE OtherActs
  BY <1>3, OtherActsKeeps
<1>4. CASE Timeout
  BY <1>4, TimeoutKeeps
<1>5. CASE Serve
  BY <1>5, ServeKeeps
<1>6. CASE FinishHand
  BY <1>6, FinishHandKeeps
<1>7. CASE Receive
  BY <1>7, ReceiveKeeps
<1>8. CASE TimerFires
  BY <1>8, TimerFiresKeeps
<1>9. CASE Drop
  BY <1>9, DropKeeps
<1>10. CASE Reconnect
  BY <1>10, ReconnectKeeps
<1>11. CASE \E a \in Actions : Press(a)
  BY <1>11, PressKeeps
<1>12. CASE \E p \in Offered : TogglePreAction(p)
  BY <1>12, TogglePreActionKeeps
<1> QED
  BY <1>1, <1>2, <1>3, <1>4, <1>5, <1>6, <1>7, <1>8, <1>9, <1>10, <1>11, <1>12 DEF Next

LEMMA Invariance == Spec => []IInv
BY InitIInv, NextIInv, PTL DEF Spec

-----------------------------------------------------------------------------
(* The variables keep their types.                                         *)
THEOREM ClientTypes == Spec => []TypeOK
<1>1. IInv => TypeOK
  BY DEF IInv, TypeInv
<1> QED
  BY <1>1, Invariance, PTL

(* With every message handled, the client shows the actor's hand and asks  *)
(* exactly what the actor asks, however many connections were lost.        *)
THEOREM ClientShowsTheHand == Spec => []ShowsTheHand
<1>1. IInv => ShowsTheHand
  <2> SUFFICES ASSUME IInv, UpToDate
               PROVE  /\ room.inProgress = (phase # "idle") /\ room.turn = turn
                      /\ room.asked = ShownAsked /\ (phase # "idle" => room.hole = hand)
    BY DEF ShowsTheHand, ShownAsked
  <2>1. \A f, r, v : Settles(f, down, r, v) => r = v
    BY DEF UpToDate, Settles
  <2>2. /\ <<room.inProgress, room.turn>> = ShownState /\ room.asked = ShownAsked
        /\ (phase # "idle" => room.hole = ShownHole)
    BY <2>1 DEF IInv, SettleInv, UpToDate
  <2> QED
    BY <2>2 DEF ShownState, ShownHole
<1> QED
  BY <1>1, Invariance, PTL

(* What a hand revealed and its cards are put away when it is over, on a   *)
(* client that lost no message.                                            *)
THEOREM ClientPutsAwayTheHand == Spec => []PutsAwayTheHand
<1>1. IInv => PutsAwayTheHand
  <2> SUFFICES ASSUME IInv, UpToDate, drops = 0
               PROVE  room.reveal = ShownReveal /\ (phase = "idle" => room.hole = 0)
    BY DEF PutsAwayTheHand, ShownReveal
  <2>1. \A f, r, v : Settles(f, down, r, v) => r = v
    BY DEF UpToDate, Settles
  <2>2. room.reveal = ShownReveal /\ room.hole = ShownHole
    BY <2>1 DEF IInv, SettleInv, UpToDate
  <2> QED
    BY <2>2 DEF ShownHole
<1> QED
  BY <1>1, Invariance, PTL

(* The actor applies an action to the decision it was sent for, unless the *)
(* player answered one decision twice or after his clock.                  *)
THEOREM ActionsAreAppliedAsMeant == Spec => []AppliedAsMeant
<1>1. IInv => AppliedAsMeant
  <2> SUFFICES ASSUME IInv, up # << >>, ~Muddled
               PROVE  Head(up).id = decision.id
    BY DEF AppliedAsMeant
  <2>1. up \in Seq(Commands) /\ up[1].id = decision.id
    BY DEF IInv, TypeInv, TypeOK, PendingInv
  <2>2. Head(up) = up[1]
    BY <2>1, Behind
  <2> QED
    BY <2>1, <2>2
<1> QED
  BY <1>1, Invariance, PTL

(* A pre-action waits to answer only the decision that is asked, unless    *)
(* the player acts himself meanwhile or a reconnect lets the next decision *)
(* overtake it.                                                            *)
THEOREM PreActionsAreForThisDecision == Spec => []PreActionIsForThisDecision
<1>1. IInv => PreActionIsForThisDecision
  BY DEF IInv
<1> QED
  BY <1>1, Invariance, PTL

(* A pre-action answers no decision twice, however often a decision is     *)
(* asked and whatever is lost.                                             *)
THEOREM PreActionsAnswerOnce == Spec => []PreActionAnswersOnce
<1>1. IInv => PreActionAnswersOnce
  BY DEF IInv, TimerInv, PreActionAnswersOnce
<1> QED
  BY <1>1, Invariance, PTL
=============================================================================
