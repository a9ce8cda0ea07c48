---------------------------- MODULE TableClient ----------------------------
(***************************************************************************)
(* A player at a table as his client shows it and acts for him: the game   *)
(* store, the message handler of useGameWebSocket, the buttons of the      *)
(* action bar and the pre-action (usePreAction), over one connection to    *)
(* the actor of the room.                                                  *)
(*                                                                         *)
(* A handler on the client is one step together with the effects React     *)
(* runs after it; a command of the actor is one step with all the messages *)
(* it broadcasts.  Messages of one direction keep their order; a drop      *)
(* loses those under way.                                                  *)
(*                                                                         *)
(* Abstracted: the other players are one (TableActor has them all), cards  *)
(* are the number of their hand, chips whether there is a bet to call.     *)
(* The store's seats, pot and analytics are left out, and so are           *)
(* ActionBroadcast and Analytics, which change nothing else.               *)
(***************************************************************************)
EXTENDS Naturals, Sequences

CONSTANTS MaxHands,      \* bound: hands dealt
          MaxDecisions,  \* bound: decisions the actor asks for
          MaxSends,      \* bound: actions on their way when a button is pressed
          MaxDrops,      \* bound: connections lost
          Offered        \* the pre-actions the player uses

ASSUME BoundsAssumption ==
    {MaxHands, MaxDecisions, MaxSends, MaxDrops} \subseteq Nat \ {0}

VARIABLES
  \* the actor of the room
  phase,     \* "idle", "betting", or "reveal" until ShowdownComplete
  hand,      \* hands dealt so far: the number of the current one
  turn,      \* whom it asks: "me", "other" or "nobody"
  decision,  \* what it asks: the number and toCall of the decision
  live,      \* I have not folded
  \* the connection
  link,      \* "up" or "down"
  down,      \* messages to the client
  up,        \* actions to the actor
  \* the client
  known,     \* myUserIdRef is set
  room,      \* the GameRoomState
  pre,       \* preAction
  executed,  \* executedRef
  timer,     \* the 400 ms timer: what it will send, or Nothing
  \* history
  answered,  \* decisions an action was sent for
  twice,     \* two actions were sent for one decision
  auto,      \* decisions answered by the pre-action
  late,      \* decisions the actor's clock has folded
  impatient, \* a button was pressed while a pre-action waited
  drops

serverVars == <<phase, hand, turn, decision, live>>
netVars    == <<link, down, up>>
preVars    == <<pre, executed, timer>>
tapVars    == <<answered, twice, auto, impatient>>
vars == <<serverVars, netVars, known, room, preVars, tapVars, late, drops>>

Decisions == 1 .. MaxDecisions
NoDecision == [id |-> 0, toCall |-> 0]
Asked   == [id : Decisions, toCall : {0, 1}] \cup {NoDecision}
Actions == {"fold", "check", "call", "raise"}
Nothing == [action |-> "none", id |-> 0]
Commands == [action : Actions, id : Decisions]
PreActions == {"none", "fold", "check_or_fold", "check_or_call_any"}
ASSUME OfferedAssumption == "none" \in Offered /\ Offered \subseteq PreActions
Turns == {"me", "other", "nobody"}

Rooms == [inProgress : BOOLEAN, turn : Turns, hole : 0 .. MaxHands,
          asked : Asked, reveal : 0 .. MaxHands]

MyTurn == room.asked # NoDecision

-----------------------------------------------------------------------------
(* The messages.                                                           *)
Connected            == [type |-> "Connected"]
TableState(ph, t)    == [type |-> "TableState", inProgress |-> ph # "idle", turn |-> t]
YourHoleCards(h)     == [type |-> "YourHoleCards", hand |-> h]
ActionRequired(t, d) == [type |-> "ActionRequired", player |-> t, asked |-> d]
ShowdownReveal(h)    == [type |-> "ShowdownReveal", hand |-> h]
HandResult           == [type |-> "HandResult"]

Broadcast(ms) == down' = IF link = "up" THEN down \o ms ELSE down

Init ==
  /\ phase = "idle" /\ hand = 0 /\ turn = "nobody" /\ decision = NoDecision
  /\ live = FALSE
  /\ link = "up" /\ down = << >> /\ up = << >>
  /\ known = TRUE
  /\ room = [inProgress |-> FALSE, turn |-> "nobody", hole |-> 0,
             asked |-> NoDecision, reveal |-> 0]
  /\ pre = "none" /\ executed = FALSE /\ timer = Nothing
  /\ answered = {} /\ twice = FALSE /\ auto = {} /\ late = {}
  /\ impatient = FALSE /\ drops = 0

-----------------------------------------------------------------------------
(* The actor.                                                              *)

Ask(t, c) ==
  /\ t = "other" => c = 0        \* what the others must call is not looked at
  /\ decision.id < MaxDecisions
  /\ decision' = [id |-> decision.id + 1, toCall |-> c]
  /\ turn' = t /\ phase' = "betting"

(* start_new_hand, which follows what was sent before it.                  *)
Deal(before) ==
  /\ hand < MaxHands /\ hand' = hand + 1 /\ live' = TRUE
  /\ \E t \in {"me", "other"}, c \in {0, 1} : Ask(t, c)
  /\ Broadcast(before \o <<YourHoleCards(hand'), ActionRequired(turn', decision'),
                           TableState(phase', turn')>>)

StartHand ==
  /\ phase = "idle"
  /\ Deal(<< >>)
  /\ UNCHANGED <<link, up, known, room, preVars, tapVars, late, drops>>

(* An action is applied: the next decision, or the reveal when the hand is *)
(* complete.                                                               *)
Proceed ==
  \/ /\ \E t \in {"me", "other"}, c \in {0, 1} : (t = "me" => live') /\ Ask(t, c)
     /\ Broadcast(<<ActionRequired(turn', decision'), TableState(phase', turn')>>)
  \/ /\ phase' = "reveal" /\ turn' = "nobody" /\ UNCHANGED decision
     /\ Broadcast(<<ShowdownReveal(hand), TableState(phase', turn')>>)

OtherActs ==
  /\ turn = "other"
  /\ live' = live /\ Proceed
  /\ UNCHANGED <<hand, link, up, known, room, preVars, tapVars, late, drops>>

(* My clock ran out, or the actor gave up a user who left.                 *)
Timeout ==
  /\ turn = "me"
  /\ live' = FALSE /\ Proceed
  /\ late' = late \cup {decision.id}
  /\ UNCHANGED <<hand, link, up, known, room, preVars, tapVars, drops>>

Legal(a) ==
  /\ turn = "me"
  /\ a = "check" => decision.toCall = 0
  /\ a = "call" => decision.toCall > 0

(* process_action: the message does not say which decision it answers.     *)
Serve ==
  /\ up # << >>
  /\ up' = Tail(up)
  /\ LET a == Head(up).action IN
       IF Legal(a) THEN live' = (a # "fold") /\ Proceed
       ELSE UNCHANGED <<phase, turn, decision, live, down>>
  /\ UNCHANGED <<hand, link, known, room, preVars, tapVars, late, drops>>

(* ShowdownComplete: the result, an empty table, and the next hand if      *)
(* enough players can pay for it.                                          *)
FinishHand ==
  /\ phase = "reveal"
  /\ LET ends == <<HandResult, TableState("idle", "nobody")>> IN
       \/ Deal(ends)
       \/ /\ phase' = "idle" /\ Broadcast(ends)
          /\ UNCHANGED <<hand, turn, decision, live>>
  /\ UNCHANGED <<link, up, known, room, preVars, tapVars, late, drops>>

-----------------------------------------------------------------------------
(* The client.                                                             *)

(* Mistake: a TableState leaves actionRequired alone.                      *)
TakeTableStateOnly(m, r) == [r EXCEPT !.inProgress = m.inProgress, !.turn = m.turn]

(* setRoomState, and clearActionRequired unless it is the hero's turn.     *)
TakeTableState(m, r) ==
  LET mine == m.inProgress /\ m.turn = "me" /\ known IN
  [r EXCEPT !.inProgress = m.inProgress, !.turn = m.turn,
            !.asked = IF mine THEN @ ELSE NoDecision]

(* Mistake: an ActionRequired is the hero's whoever it is for.             *)
TakeAnyActionRequired(m, r) == [r EXCEPT !.asked = m.asked]

TakeActionRequired(m, r) ==
  [r EXCEPT !.asked = IF known /\ m.player = "me" THEN m.asked ELSE NoDecision]

(* Mistake: the hole cards stay on the table (F-2 in the code's comments). *)
TakeHandResultKeepsCards(r) == [r EXCEPT !.reveal = 0, !.asked = NoDecision]

TakeHandResult(r) == [r EXCEPT !.reveal = 0, !.hole = 0, !.asked = NoDecision]

(* What the handler does to the room with message m.                       *)
Take(m, r) ==
  CASE m.type = "TableState"     -> TakeTableState(m, r)
    [] m.type = "ActionRequired" -> TakeActionRequired(m, r)
    [] m.type = "YourHoleCards"  -> [r EXCEPT !.hole = m.hand]
    [] m.type = "ShowdownReveal" -> [r EXCEPT !.reveal = m.hand, !.asked = NoDecision]
    [] m.type = "HandResult"     -> TakeHandResult(r)
    [] OTHER -> r

(* What a pre-action comes to.  (call_up_to is check_or_fold or            *)
(* check_or_call_any, as the bet is above its amount or not.)              *)
Resolved(p, d) ==
  [id     |-> d.id,
   action |-> IF p # "fold" /\ d.toCall = 0 THEN "check"
              ELSE IF p = "check_or_call_any" THEN "call" ELSE "fold"]

(* Mistake: the effect runs at every message (F-1).                        *)
EffectAlways(d) ==
  IF d = NoDecision THEN executed' = FALSE /\ timer' = Nothing
  ELSE IF pre # "none" /\ ~executed
  THEN executed' = TRUE /\ timer' = Resolved(pre, d)
  ELSE UNCHANGED executed /\ timer' = Nothing

(* Mistake: no cleanup: a timer outlives its turn.                         *)
EffectKeepsTimer(d) ==
  IF d = NoDecision THEN executed' = FALSE /\ UNCHANGED timer
  ELSE IF pre # "none" /\ ~executed
  THEN executed' = TRUE /\ timer' = Resolved(pre, d)
  ELSE UNCHANGED <<executed, timer>>

(* The effect of usePreAction, d being what is asked now: it runs when     *)
(* isMyTurn or toCall changed, after the cleanup of its last run.          *)
Effect(d) ==
  IF <<d # NoDecision, d.toCall>> = <<MyTurn, room.asked.toCall>>
  THEN UNCHANGED <<executed, timer>>
  ELSE IF d = NoDecision THEN executed' = FALSE /\ timer' = Nothing
  ELSE IF pre # "none" /\ ~executed
  THEN executed' = TRUE /\ timer' = Resolved(pre, d)
  ELSE UNCHANGED executed /\ timer' = Nothing

Receive ==
  /\ link = "up" /\ down # << >>
  /\ down' = Tail(down)
  /\ room' = Take(Head(down), room)
  /\ known' = (known \/ Head(down) = Connected)
  /\ Effect(room'.asked)
  /\ UNCHANGED <<serverVars, link, up, pre, tapVars, late, drops>>

(* sendAction: into the socket, or nowhere.                                *)
SendAction(c) ==
  IF link = "up"
  THEN /\ up' = Append(up, c)
       /\ answered' = answered \cup {c.id}
       /\ twice' = (twice \/ c.id \in answered)
  ELSE UNCHANGED <<up, answered, twice>>

(* The player has sent two actions for one decision, or one for a decision *)
(* his clock had taken from him.                                           *)
Muddled == twice \/ late \cap answered # {}

(* A button or its key.  Nothing disables it but an answer of the actor.   *)
(* (A bound: he presses nothing more once he is muddled.)                  *)
Press(a) ==
  /\ MyTurn /\ Len(up) < MaxSends /\ ~Muddled
  /\ a = "check" => room.asked.toCall = 0
  /\ a = "call" => room.asked.toCall > 0
  /\ SendAction([action |-> a, id |-> room.asked.id])
  /\ impatient' = (impatient \/ pre # "none")
  /\ UNCHANGED <<serverVars, link, down, known, room, preVars, auto, late, drops>>

(* The panel of pre-actions is offered while it is not my turn.            *)
TogglePreAction(p) ==
  /\ ~MyTurn /\ p # pre
  /\ pre' = p /\ executed' = FALSE /\ impatient' = FALSE
  /\ UNCHANGED <<serverVars, netVars, known, room, timer, answered, twice, auto, late, drops>>

(* Mistake: an interval where a timeout is meant.                          *)
TimerRepeats ==
  /\ timer # Nothing
  /\ SendAction(timer)
  /\ auto' = IF link = "up" THEN auto \cup {timer.id} ELSE auto
  /\ pre' = "none"
  /\ UNCHANGED <<serverVars, link, down, known, room, executed, timer, impatient, late, drops>>

(* The 400 ms are over.                                                    *)
TimerFires ==
  /\ timer # Nothing
  /\ SendAction(timer)
  /\ auto' = IF link = "up" THEN auto \cup {timer.id} ELSE auto
  /\ pre' = "none" /\ timer' = Nothing
  /\ UNCHANGED <<serverVars, link, down, known, room, executed, impatient, late, drops>>

-----------------------------------------------------------------------------
Drop ==
  /\ link = "up" /\ drops < MaxDrops
  /\ drops' = drops + 1
  /\ link' = "down" /\ down' = << >> /\ up' = << >>
  /\ UNCHANGED <<serverVars, known, room, preVars, tapVars, late>>

(* A new socket (Connection says when), and handle_reconnect of the actor. *)
(* After a change of network it comes at once: a pre-action may still be   *)
(* waiting, and go off on the new connection.                              *)
Reconnect ==
  /\ link = "down"
  /\ link' = "up" /\ known' = FALSE
  /\ down' = <<Connected, TableState(phase, turn)>>
             \o (IF phase # "idle" THEN <<YourHoleCards(hand)>> ELSE << >>)
             \o (IF turn = "me" THEN <<ActionRequired("me", decision)>> ELSE << >>)
  /\ UNCHANGED <<serverVars, up, room, preVars, tapVars, late, drops>>

Next ==
  \/ StartHand \/ OtherActs \/ Timeout \/ Serve \/ FinishHand
  \/ Receive \/ TimerFires \/ Drop \/ Reconnect
  \/ \E a \in Actions : Press(a)
  \/ \E p \in Offered : TogglePreAction(p)

(* A browser runs its timers and handles what has arrived.                 *)
Spec == Init /\ [][Next]_vars /\ WF_vars(Receive) /\ WF_vars(TimerFires)

-----------------------------------------------------------------------------
TypeOK ==
  /\ phase \in {"idle", "betting", "reveal"} /\ hand \in 0 .. MaxHands
  /\ turn \in Turns /\ decision \in Asked /\ live \in BOOLEAN
  /\ link \in {"up", "down"} /\ up \in Seq(Commands)
  /\ known \in BOOLEAN /\ room \in Rooms
  /\ pre \in PreActions /\ executed \in BOOLEAN
  /\ timer \in Commands \cup {Nothing}
  /\ answered \subseteq Decisions /\ twice \in BOOLEAN
  /\ auto \subseteq Decisions /\ late \subseteq Decisions
  /\ impatient \in BOOLEAN /\ drops \in 0 .. MaxDrops

UpToDate == link = "up" /\ down = << >>

(* With every message handled the client shows the actor's hand and asks   *)
(* the player exactly what the actor asks him, whatever was lost before    *)
(* (the handlers of TableState and ActionRequired, handle_reconnect).      *)
ShowsTheHand ==
  UpToDate =>
    /\ room.inProgress = (phase # "idle")
    /\ room.turn = turn
    /\ room.asked = IF turn = "me" THEN decision ELSE NoDecision
    /\ phase # "idle" => room.hole = hand

(* The reveal and the hole cards of a hand are put away when it is over,   *)
(* on a client that lost no message (HandResult).                          *)
PutsAwayTheHand ==
  UpToDate /\ drops = 0 =>
    /\ room.reveal = IF phase = "reveal" THEN hand ELSE 0
    /\ phase = "idle" => room.hole = 0

(* The same of a client that reconnected: what it reveals is being         *)
(* revealed.                                                               *)
RevealIsCurrent ==
  UpToDate /\ room.reveal # 0 => phase = "reveal" /\ room.reveal = hand

(* The actor applies an action to the decision it was sent for, though the *)
(* message does not name it, until the player muddles them (process_action *)
(* and the handlers that take the buttons away).                           *)
AppliedAsMeant ==
  up # << >> /\ Legal(Head(up).action) => Head(up).id = decision.id \/ Muddled

(* The pre-action answers a decision once, however often it is asked: what *)
(* the timer waits to send is for none it has answered (executedRef, the   *)
(* timer and its cleanup).                                                 *)
PreActionAnswersOnce == timer # Nothing => timer.id \notin auto

(* The player was reconnected while a pre-action waited and his clock had  *)
(* run out: his next decision takes the place of the first with no message *)
(* between them that clears it.                                            *)
Overtaken == drops > 0 /\ timer.id \in late

(* The pre-action answers only what is still asked: the cleanup of the     *)
(* effect stops a timer whose decision went away.  Only a player who acts  *)
(* himself within the 400 ms, or is overtaken, can keep it for his next    *)
(* decision.                                                               *)
PreActionIsForThisDecision ==
  timer # Nothing => room.asked.id = timer.id \/ impatient \/ Muddled \/ Overtaken

(* A pre-action that waits when the player's turn comes is carried out, if *)
(* he does not act himself (F-1 in the code's comments); after a lost      *)
(* connection it may have been stopped, when the next decision overtook.   *)
PreActionIsSent ==
  (pre # "none" /\ MyTurn)
    ~> (pre = "none" \/ ~MyTurn \/ impatient \/ Muddled
        \/ (drops > 0 /\ executed /\ timer = Nothing))
=============================================================================
