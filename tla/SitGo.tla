------------------------------- MODULE SitGo -------------------------------
(***************************************************************************)
(* One Sit & Go: the director (SitGoTournament, sit_go_tournament.rs) and  *)
(* the tournament-mode table it owns (TableActor, actor.rs), two actors    *)
(* that only exchange messages: the table broadcasts HandCompleted events, *)
(* the director answers each with new blinds and a StartHand command.      *)
(*                                                                         *)
(* Abstracted: the betting of a hand (a hand closes with any bets its      *)
(* stacks allow; SidePots divides them), turns and clocks (TableActor),    *)
(* the time blind levels take (a level may end at any hand), antes, the    *)
(* lag of the event channel (1024 events), what makes the table remove a   *)
(* user.  A start_hand message of a user without a seat, which ends the    *)
(* actor, is not modelled.  Users sit in the order of their numbers: the   *)
(* shuffle only renames them.                                              *)
(***************************************************************************)
EXTENDS SidePots, Sorting

CONSTANTS MaxPlayers,   \* seats of the tournament
          BuyIn,        \* chips of a starting stack, and of the buy-in
          Blinds,       \* sequence of [small, big]: the blind levels
          Percents,     \* sequence: percentage of the pool of each position
          MaxEvents,    \* bound: messages under way with which users start no hand
          MaxReveals    \* bound: ShowdownComplete messages under way

Users == 1..MaxPlayers

ASSUME TournamentAssumption ==
  /\ MaxPlayers \in Nat /\ MaxPlayers >= 2
  /\ BuyIn \in Nat \ {0}
  /\ MaxEvents \in Nat /\ MaxReveals \in Nat \ {0}
  /\ Blinds \in Seq([small : Nat, big : Nat]) /\ Len(Blinds) > 0
  /\ Percents \in Seq(0..100)

VARIABLES status,      \* of the director
          registered,  \* its registered players
          survivors,   \* its players still in; players_remaining is their number
          order,       \* elimination_order
          prize,       \* [Users -> Nat]: prizes paid
          level,       \* index in Blinds, of the scheduler and of the table
          stack,       \* [seated users -> Nat]: the players of the table
          out,         \* seated users who sit out
          leaving,     \* seated users whose leave waits for the end of the hand
          hand,        \* the users dealt in; {} between hands
          complete,    \* the hand is complete, its reveal runs
          reveals,     \* ShowdownComplete messages under way
          dealer,      \* last_dealer_index; -1 = None
          cache,       \* busted_players_cache
          events,      \* HandCompleted events not read yet: their busted players
          starts,      \* StartHand commands of the director not handled yet
          refused,     \* the last StartHand was refused
          removed,     \* history: users removed, but not as busted
          taken,       \* history: chips that left with users
          lost,        \* history: chips of pots nobody was paid
          late         \* history: somebody was removed during a reveal

director == <<status, registered, survivors, order, prize, level>>
seats    == <<stack, out, leaving, removed, taken>>
play     == <<hand, complete, reveals, lost, late>>
table    == <<seats, play, dealer, cache, refused>>
vars     == <<director, table, events, starts>>

Seated == DOMAIN stack

Init == /\ status = "Registering"
        /\ registered = {} /\ survivors = {} /\ order = <<>>
        /\ prize = [u \in Users |-> 0]
        /\ level = 1
        /\ stack = << >>
        /\ out = {} /\ leaving = {} /\ removed = {} /\ taken = 0
        /\ hand = {} /\ complete = FALSE /\ reveals = 0 /\ lost = 0 /\ late = FALSE
        /\ dealer = -1 /\ cache = <<>> /\ refused = FALSE
        /\ events = <<>> /\ starts = 0

-----------------------------------------------------------------------------
(* Registration.  The run loop starts the tournament before it reads the   *)
(* command after the one that filled it.                                   *)
Full == Cardinality(registered) = MaxPlayers

Register(u) ==
  /\ status = "Registering" /\ ~Full /\ u \notin registered
  /\ registered' = registered \cup {u}
  /\ UNCHANGED <<status, survivors, order, prize, level, table, events, starts>>

Unregister(u) ==
  /\ status = "Registering" /\ ~Full /\ u \in registered
  /\ registered' = registered \ {u}
  /\ UNCHANGED <<status, survivors, order, prize, level, table, events, starts>>

(* start_tournament: every player is seated with a full stack, the blinds  *)
(* are set and the first hand is asked for.                                *)
StartTournament ==
  /\ status = "Registering" /\ Full
  /\ status' = "Running"
  /\ stack' = [u \in registered |-> BuyIn]
  /\ survivors' = registered
  /\ starts' = 1
  /\ UNCHANGED <<registered, order, prize, level,
                 out, leaving, removed, taken, play, dealer, cache, refused, events>>

-----------------------------------------------------------------------------
(* start_new_hand: the seated users who can be dealt to, and the seat of   *)
(* the dealer among them.                                                  *)
Eligible == {u \in Seated \ (leaving \cup out) : stack[u] > 0}

InOrder(S) == SetToSortSeq(S, <)

NextDealer == IF dealer = -1 THEN 0 ELSE (dealer + 1) % Cardinality(Eligible)

StackAfter(places) ==
  stack[InOrder(Eligible)[((NextDealer + places) % Cardinality(Eligible)) + 1]]

(* The seats so many places after the dealer can post the blinds.          *)
CanPost(first, second) == /\ StackAfter(first) >= Blinds[level].small
                          /\ StackAfter(second) >= Blinds[level].big

(* The actor always looks at the two seats after the dealer; GameState,    *)
(* which takes the blinds, has the dealer post the small one when two play.*)
ActorDeals  == CanPost(1, 2)
EngineDeals == IF Cardinality(Eligible) = 2 THEN CanPost(0, 1) ELSE CanPost(1, 2)

CanDeal == /\ hand = {}
           /\ Cardinality(Eligible) >= 2
           /\ ActorDeals /\ EngineDeals

StartNewHand ==
  /\ hand' = IF CanDeal THEN Eligible ELSE hand
  /\ dealer' = IF CanDeal THEN NextDealer ELSE dealer
  /\ refused' = (hand = {} /\ ~CanDeal)
  /\ UNCHANGED <<director, seats, complete, reveals, lost, late, cache, events>>

(* The StartHand command of the director; of a seated user.                *)
StartHand == starts > 0 /\ starts' = starts - 1 /\ StartNewHand

StartHandOf(u) == /\ u \in Seated /\ Len(events) + starts < MaxEvents
                  /\ StartNewHand /\ UNCHANGED starts

SitOut(u) ==
  /\ u \in Seated
  /\ out' = IF u \in out THEN out \ {u} ELSE out \cup {u}
  /\ UNCHANGED <<director, stack, leaving, removed, taken, play,
                 dealer, cache, refused, events, starts>>

(* A reconnect calls a leave off and sits the user in.                     *)
Reconnect(u) ==
  /\ u \in Seated
  /\ leaving' = leaving \ {u} /\ out' = out \ {u}
  /\ UNCHANGED <<director, stack, removed, taken, play,
                 dealer, cache, refused, events, starts>>

(* check_hand_completion of a complete hand: its end is scheduled.         *)
Reveal == /\ reveals < MaxReveals
          /\ complete' = TRUE /\ reveals' = reveals + 1

(* leave_player_inner: the forced leave of a kick vote that passed or of a *)
(* connection that closed.  A hand knows every user seated when it was     *)
(* dealt; his leave waits for its end.  He folds, unless he is all-in,     *)
(* which may complete the hand; a hand complete already is revealed again. *)
Leave(u) ==
  /\ u \in Seated \ leaving
  /\ \/ /\ hand = {}
        /\ stack' = [v \in Seated \ {u} |-> stack[v]] /\ out' = out \ {u}
        /\ removed' = removed \cup {u} /\ taken' = taken + stack[u]
        /\ UNCHANGED <<leaving, complete, reveals, late>>
     \/ /\ hand # {}
        /\ leaving' = leaving \cup {u} /\ late' = (late \/ complete)
        /\ \/ (complete \/ u \in hand) /\ Reveal
           \/ ~complete /\ UNCHANGED <<complete, reveals>>
        /\ UNCHANGED <<stack, out, removed, taken>>
  /\ UNCHANGED <<director, hand, lost, dealer, cache, refused, events, starts>>

-----------------------------------------------------------------------------
(* The last action, or the fold of a clock that ran out, completes a hand. *)
CompleteHand ==
  /\ hand # {} /\ ~complete
  /\ Reveal
  /\ UNCHANGED <<director, seats, hand, lost, late, dealer, cache, refused, events, starts>>

(* The bets of a complete hand: those who did not fold matched the highest *)
(* bet or are all-in for less; the others put in less than they had, then  *)
(* folded (nobody all-in folds, not even a user who is removed).           *)
Bets(top, folded) ==
  {bet \in [hand -> 0..top] :
     /\ \A u \in folded : bet[u] < stack[u]
     /\ \A u \in hand \ folded : bet[u] = Min({top, stack[u]})}

(* The bets of a hand that goes on: somebody has chips left to bet.        *)
BetsSoFar ==
  {bet \in [hand -> 0 .. Max({stack[u] : u \in hand})] :
     /\ \A u \in hand : bet[u] <= stack[u]
     /\ \E u \in hand : bet[u] < stack[u]}

(* The strengths of the hands, up to renaming; 0 for a folded one.         *)
Ranks(live) ==
  {[u \in hand |-> IF u \in live THEN place[u] ELSE 0] :
     place \in {rank \in [live -> 1..Cardinality(live)] :
                  Range(rank) = 1..Cardinality(Range(rank))}}

(* get_busted_players: the stacks of the engine, from which the bets are   *)
(* gone and to which no winnings were added; larger starting stacks first. *)
Busted(bet) ==
  LET broke == {u \in hand : bet[u] = stack[u]}
      first == {uv \in broke \X broke :
                  \/ stack[uv[1]] > stack[uv[2]]
                  \/ stack[uv[1]] = stack[uv[2]] /\ uv[1] < uv[2]}
  IN  Sorted(broke, first)

(* Mistake: the list kept from the hand before is not attached to the event.*)
ReportLost(bet) == /\ events' = Append(events, <<>>)
                   /\ cache' = Busted(bet)

(* finalize_hand sends what clear_board_and_start_next left in the cache   *)
(* after the hand before.                                                  *)
Report(bet) == /\ events' = Append(events, cache)
               /\ cache' = Busted(bet)

(* Mistake: the chips of a pot go to every dealt user who did not fold.    *)
PaidToAll(bet, folded, rank) ==
  [u \in Seated |-> IF u \notin hand THEN stack[u]
                    ELSE stack[u] - bet[u] + IF u \in folded THEN 0 ELSE SumFunction(bet)]

(* process_winners: the bets are gone, the pots are paid.                  *)
Paid(bet, folded, rank) ==
  [u \in Seated |-> IF u \notin hand THEN stack[u]
                    ELSE stack[u] - bet[u] + PotWinners(bet, folded, rank)[u]]

(* Before a hand is complete it has no winners.                            *)
Unpaid(bet) == [u \in Seated |-> IF u \in hand THEN stack[u] - bet[u] ELSE stack[u]]

(* finalize_hand and clear_board_and_start_next, with the stacks the hand  *)
(* leaves.  A tournament table does not start the next hand by itself.     *)
Close(bet, after) ==
  LET gone == Range(Busted(bet)) \cup leaving
  IN  /\ Report(bet)
      /\ stack' = [u \in Seated \ gone |-> after[u]]
      /\ out' = out \ gone
      /\ removed' = removed \cup (leaving \ Range(Busted(bet)))
      /\ taken' = taken + SumFunction([u \in gone |-> after[u]])

PayPots ==
  /\ complete
  /\ \E folded \in (SUBSET hand) \ {hand} :
     \E top \in 1 .. Max({stack[u] : u \in hand \ folded}) :
     \E bet \in Bets(top, folded), rank \in Ranks(hand \ folded) :
       Close(bet, Paid(bet, folded, rank))
  /\ UNCHANGED lost

LosePots ==
  /\ ~complete
  /\ \E bet \in BetsSoFar : Close(bet, Unpaid(bet)) /\ lost' = lost + SumFunction(bet)

(* ShowdownComplete closes whatever hand is current.                       *)
FinishHand ==
  /\ reveals > 0 /\ reveals' = reveals - 1
  /\ \/ hand = {} /\ UNCHANGED <<seats, hand, complete, lost, cache, events>>
     \/ /\ hand # {} /\ (PayPots \/ LosePots)
        /\ leaving' = {} /\ hand' = {} /\ complete' = FALSE
  /\ UNCHANGED <<director, late, dealer, refused, starts>>

-----------------------------------------------------------------------------
(* end_tournament: the i-th eliminated user has position MaxPlayers - i + 1*)
(* and a survivor position 1; the rounding remainder goes to the first     *)
(* position of the structure.                                              *)
Pool == MaxPlayers * BuyIn
Share(p) == (Pool * Percents[p]) \div 100
Remainder == Pool - FoldLeft(LAMBDA s, q : s + Share(q), 0, [q \in DOMAIN Percents |-> q])
Prize(p)  == Share(p) + IF p = 1 /\ Remainder > 0 THEN Remainder ELSE 0
Position(u, left, places) ==
  IF u \in left THEN 1
  ELSE MaxPlayers + 1 - (CHOOSE i \in DOMAIN places : places[i] = u)

Prizes(left, places) ==
  [u \in Users |-> LET p == Position(u, left, places)
                   IN  IF p \in DOMAIN Percents THEN Prize(p) ELSE 0]

(* Mistake: the next hand is only asked for when the blinds go up.         *)
GoOnWithLevel(next) == /\ level' = next
                       /\ starts' = starts + (IF next > level THEN 1 ELSE 0)

(* The next hand is asked for, perhaps at the next level.                  *)
GoOn(next) == level' = next /\ starts' = starts + 1

NextLevels == {level} \cup ({level + 1} \cap DOMAIN Blinds)

(* handle_hand_completed.                                                  *)
HandleHandCompleted ==
  /\ status = "Running" /\ events # <<>>
  /\ LET busted == Keeping(Head(events), survivors)
         left   == survivors \ Range(busted)
         places == order \o busted
     IN  /\ survivors' = left /\ order' = places
         /\ IF Cardinality(left) <= 1
            THEN /\ status' = "Completed"
                 /\ prize' = Prizes(left, places)
                 /\ UNCHANGED <<level, starts>>
            ELSE /\ \E next \in NextLevels : GoOn(next)
                 /\ UNCHANGED <<status, prize>>
  /\ events' = Tail(events)
  /\ UNCHANGED <<registered, table>>

-----------------------------------------------------------------------------
Next == \/ StartTournament \/ StartHand \/ CompleteHand \/ FinishHand
        \/ HandleHandCompleted
        \/ \E u \in Users : \/ Register(u) \/ Unregister(u) \/ StartHandOf(u)
                            \/ SitOut(u) \/ Reconnect(u) \/ Leave(u)

(* Both actors keep reading their channels, and every hand ends: turns     *)
(* have clocks (TableActor).                                               *)
Fairness == /\ WF_vars(StartTournament) /\ WF_vars(StartHand)
            /\ WF_vars(CompleteHand) /\ WF_vars(FinishHand)
            /\ WF_vars(HandleHandCompleted)

Spec == Init /\ [][Next]_vars /\ Fairness

-----------------------------------------------------------------------------
Chips == SumFunction(stack)

TypeOK == /\ status \in {"Registering", "Running", "Completed"}
          /\ registered \subseteq Users /\ survivors \subseteq registered
          /\ IsInjective(order) /\ Range(order) \subseteq registered
          /\ prize \in [Users -> Nat]
          /\ level \in DOMAIN Blinds
          /\ Seated \subseteq registered /\ \A u \in Seated : stack[u] \in 0..Pool
          /\ out \subseteq Seated /\ leaving \subseteq Seated
          /\ hand \subseteq Seated /\ Cardinality(hand) # 1
          /\ dealer \in -1 .. MaxPlayers - 1
          /\ complete \in BOOLEAN /\ reveals \in 0..MaxReveals
          /\ refused \in BOOLEAN /\ removed \subseteq registered
          /\ starts \in Nat /\ taken \in 0..Pool /\ lost \in 0..Pool /\ late \in BOOLEAN

(* Busted users the director has not read of: the last hand's are still    *)
(* in the cache of the table.                                              *)
Unreported == Range(cache) \cup UNION {Range(events[i]) : i \in DOMAIN events}

(* The two actors agree on who is in the tournament, up to the messages    *)
(* between them: a survivor of the director has a seat, or his elimination *)
(* is on its way, or he was removed otherwise (which nobody reports); and  *)
(* nobody the director eliminated has a seat (finalize_hand,               *)
(* clear_board_and_start_next against handle_hand_completed).              *)
SurvivorsAccounted ==
  status # "Registering" =>
    /\ survivors = Seated \cup Unreported \cup removed
    /\ Seated \cap (Unreported \cup removed) = {}
    /\ Unreported \cap removed = {}
    /\ registered = survivors \cup Range(order)
    /\ survivors \cap Range(order) = {}

(* Between hands somebody is about to deal: an event the director will     *)
(* answer, or a command of his, unless the table refused the last one      *)
(* (handle_hand_completed, StartHand).                                     *)
SomebodyDeals ==
  status = "Running" /\ hand = {} /\ ~refused => events # <<>> \/ starts > 0

(* Every chip of the tournament is on the table, or left it with a user,   *)
(* or was in the pot of a hand closed before it was complete; and no hand  *)
(* is closed early unless somebody was removed while a hand was revealed:  *)
(* nothing else schedules the end of a hand twice (process_winners,        *)
(* clear_board_and_start_next, check_hand_completion).                     *)
ChipsAccounted ==
  status # "Registering" =>
    /\ Chips + taken + lost = Pool
    /\ ~late => lost = 0

(* A Sit & Go with one player left, the others busted, ends and pays its   *)
(* prizes (docs/spec/mtt-sg.md, 4.1).                                      *)
LastPlayer == status = "Running" /\ removed = {} /\ Cardinality(Seated) <= 1

LastPlayerWins == LastPlayer ~> status = "Completed"
=============================================================================
