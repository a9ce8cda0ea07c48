----------------------------- MODULE HandEngine -----------------------------
(***************************************************************************)
(* One hand of no-limit hold'em: sb-game-engine/src/game_state.rs.         *)
(*                                                                         *)
(* The hand is one record, as GameState is one struct; every method that   *)
(* changes it is an operator from hands to hands, composed in the order    *)
(* the code calls them, and every entry point the table actor uses         *)
(* (apply_action with its four actions, force_fold) is an action.  A call  *)
(* the engine rejects returns Err and changes nothing: no step.            *)
(*                                                                         *)
(* Abstracted: which cards are dealt (only how many are on the board; a    *)
(* deck of 52 cannot run out under SeatsAssumption), identities (a seat is *)
(* its index), bet_this_round (always equal to round_bets),                *)
(* last_aggressor_index (written, never read).                             *)
(***************************************************************************)
EXTENDS SidePots

CONSTANTS N,            \* seats dealt into the hand
          SmallBlind,   \* chips
          BigBlind,     \* chips; also the first min_raise of every street
          Ante,         \* chips; 0 at a cash table
          StartStacks   \* the stacks a seat may sit down to the hand with

ASSUME SeatsAssumption  == N \in Nat /\ N >= 2 /\ 2 * N + 5 <= 52
ASSUME BlindsAssumption == /\ SmallBlind \in Nat \ {0}
                           /\ BigBlind \in Nat /\ SmallBlind < BigBlind
                           /\ Ante \in Nat
ASSUME StacksAssumption == StartStacks \subseteq Nat \ {0}

VARIABLES hand,     \* the GameState
          start     \* [Seats -> Nat]: hand_start_stacks

vars == <<hand, start>>

Seats   == 0 .. N - 1
Streets == {"Preflop", "Flop", "Turn", "River", "Showdown"}

(* BettingRound in the order end_round walks it, and the community cards   *)
(* it deals on the way.                                                    *)
NextStreet == [Preflop |-> "Flop", Flop |-> "Turn", Turn |-> "River"]
Dealt      == [Preflop |-> 3, Flop |-> 1, Turn |-> 1]

Hands == [stack      : [Seats -> Nat],
          totalBet   : [Seats -> Nat],
          roundBet   : [Seats -> Nat],
          folded     : SUBSET Seats,
          allIn      : SUBSET Seats,
          acted      : SUBSET Seats,
          street     : Streets,
          board      : 0 .. 5,
          dealer     : Seats,
          current    : Seats,
          pot        : Nat,
          smallest   : Nat,
          minRaise   : Nat,
          complete   : BOOLEAN,
          raisedPreflop  : SUBSET Seats,
          wentToShowdown : SUBSET Seats,
          wentAllIn      : SUBSET Seats]

-----------------------------------------------------------------------------
(* Whose turn it is.                                                       *)

(* The seat d places clockwise of s: (s + d) % players.len() for d <= N.   *)
After(s, d) == IF s + d < N THEN s + d ELSE s + d - N

InHand(h) == Seats \ h.folded
Active(h) == Seats \ (h.folded \cup h.allIn)

(* Mistake: the turn skips folded seats but stops at all-in ones.          *)
FirstActiveSkipsFolded(h, s) ==
  IF InHand(h) = {} THEN s
  ELSE After(s, CHOOSE d \in Seats :
                  /\ After(s, d) \in InHand(h)
                  /\ \A e \in Seats : e < d => After(s, e) \notin InHand(h))

(* The first seat at or after s that can still act; s when there is none.  *)
FirstActive(h, s) ==
  IF Active(h) = {} THEN s
  ELSE After(s, CHOOSE d \in Seats :
                  /\ After(s, d) \in Active(h)
                  /\ \A e \in Seats : e < d => After(s, e) \notin Active(h))

(* Mistake: only the bets count, so the big blind's option is skipped.     *)
RoundCompleteIgnoresActed(h) ==
  \A s \in Active(h) : h.roundBet[s] = h.smallest

(* Mistake: only who has acted counts.                                     *)
RoundCompleteIgnoresBets(h) == Active(h) \subseteq h.acted

(* Everybody who can act has acted and has matched the bet (vacuously so   *)
(* when nobody can act).                                                   *)
RoundComplete(h) ==
  \A s \in Active(h) : s \in h.acted /\ h.roundBet[s] = h.smallest

ResetRound(h) ==
  [h EXCEPT !.acted    = {},
            !.roundBet = [s \in Seats |-> 0],
            !.smallest = 0,
            !.minRaise = BigBlind,
            !.current  = FirstActive(h, After(h.dealer, 1))]

Showdown(h) ==
  [h EXCEPT !.street = "Showdown",
            !.complete = TRUE,
            !.wentToShowdown = @ \cup InHand(h)]

(* The board is run out and the hand shown down when nobody can act any    *)
(* more, or after the river; otherwise the next street is dealt.  A single *)
(* seat that can act while the others are all-in is still asked, street by *)
(* street.                                                                 *)
EndRound(h) ==
  IF h.street \in {"River", "Showdown"} THEN Showdown(h)
  ELSE IF Active(h) = {} THEN Showdown([h EXCEPT !.board = 5])
  ELSE ResetRound([h EXCEPT !.board  = @ + Dealt[h.street],
                            !.street = NextStreet[h.street]])

(* advance_turn: the next seat that can act, then end_round if that closed *)
(* the round.                                                              *)
AdvanceTurn(h) ==
  LET moved == [h EXCEPT !.current = FirstActive(h, After(h.current, 1))]
  IN  IF RoundComplete(moved) THEN EndRound(moved) ELSE moved

-----------------------------------------------------------------------------
(* Chips.                                                                  *)

AddBet(h, s, amount) ==
  LET broke == h.stack[s] = amount
  IN  [h EXCEPT !.stack[s]    = @ - amount,
                !.roundBet[s] = @ + amount,
                !.totalBet[s] = @ + amount,
                !.pot         = @ + amount,
                !.allIn       = IF broke THEN @ \cup {s} ELSE @,
                !.wentAllIn   = IF broke THEN @ \cup {s} ELSE @]

(* Mistake: the blind is not counted in what the seat put in.              *)
PostBlindNotInTotal(h, s, amount) ==
  [AddBet(h, s, amount) EXCEPT !.wentAllIn = h.wentAllIn, !.totalBet = h.totalBet]

(* post_blind pays like a bet, but the seat it empties is not counted in   *)
(* went_allin, and new_hand sets the pot to the sum of the blinds.         *)
PostBlind(h, s, amount) ==
  [AddBet(h, s, amount) EXCEPT !.wentAllIn = h.wentAllIn]

(* post_ante: what a seat has left of the ante, outside the round's bets.  *)
AnteOf(h, s) == IF h.stack[s] < Ante THEN h.stack[s] ELSE Ante

PostAntes(h) ==
  IF Ante = 0 THEN h
  ELSE [h EXCEPT !.stack    = [s \in Seats |-> h.stack[s] - AnteOf(h, s)],
                 !.totalBet = [s \in Seats |-> h.totalBet[s] + AnteOf(h, s)],
                 !.pot      = @ + SumFunction([s \in Seats |-> AnteOf(h, s)]),
                 !.allIn    = @ \cup {s \in Seats :
                                       h.stack[s] > 0 /\ h.stack[s] <= Ante}]

SmallBlindSeat(dealer) == IF N = 2 THEN dealer ELSE After(dealer, 1)
BigBlindSeat(dealer)   == IF N = 2 THEN After(dealer, 1) ELSE After(dealer, 2)

FirstToAct(dealer) ==
  IF N = 2 THEN SmallBlindSeat(dealer) ELSE After(BigBlindSeat(dealer), 1)

NewHand(stacks, dealer) ==
  LET zeros == [s \in Seats |-> 0]
      blank == [stack |-> stacks, totalBet |-> zeros, roundBet |-> zeros,
                folded |-> {}, allIn |-> {}, acted |-> {},
                street |-> "Preflop", board |-> 0,
                dealer |-> dealer, current |-> FirstToAct(dealer),
                pot |-> 0, smallest |-> BigBlind, minRaise |-> BigBlind,
                complete |-> FALSE,
                raisedPreflop |-> {}, wentToShowdown |-> {}, wentAllIn |-> {}]
  IN  PostBlind(PostBlind(blank, SmallBlindSeat(dealer), SmallBlind),
                BigBlindSeat(dealer), BigBlind)

(* What it takes to start: new_hand refuses a blind that cannot be posted  *)
(* in full, and so does start_new_hand before it, which takes the seats    *)
(* one and two after the dealer for the blinds even heads-up (where the    *)
(* engine's small blind is the dealer, two seats on).                      *)
CanStart(stacks, dealer) ==
  /\ stacks[SmallBlindSeat(dealer)] >= SmallBlind
  /\ stacks[BigBlindSeat(dealer)] >= BigBlind
  /\ stacks[After(dealer, 1)] >= SmallBlind
  /\ stacks[After(dealer, 2)] >= BigBlind

-----------------------------------------------------------------------------

Init == \E stacks \in [Seats -> StartStacks], dealer \in Seats :
          /\ CanStart(stacks, dealer)
          /\ start = stacks
          /\ hand = PostAntes(NewHand(stacks, dealer))

(* The checks apply_action makes before it looks at the action.            *)
MayAct(s) ==
  /\ ~hand.complete
  /\ hand.current = s
  /\ hand.street # "Showdown"
  /\ s \in Active(hand)

(* Mistake: acted_this_round is not set.                                   *)
ActedForgotten(h, s) == h

Acted(h, s) == [h EXCEPT !.acted = @ \cup {s}]

(* Fold: the last one left wins at once, with no further cards dealt.      *)
Fold(s) ==
  /\ MayAct(s)
  /\ LET gone == [Acted(hand, s) EXCEPT !.folded = @ \cup {s}]
     IN  hand' = IF Cardinality(InHand(gone)) = 1
                 THEN [gone EXCEPT !.complete = TRUE]
                 ELSE AdvanceTurn(gone)
  /\ UNCHANGED start

Check(s) ==
  /\ MayAct(s)
  /\ hand.roundBet[s] = hand.smallest
  /\ hand' = AdvanceTurn(Acted(hand, s))
  /\ UNCHANGED start

(* Call: whatever is missing, or the whole stack when it is less.          *)
ToCall(h, s) ==
  LET missing == h.smallest - h.roundBet[s]
  IN  IF h.stack[s] < missing THEN h.stack[s] ELSE missing

Call(s) ==
  /\ MayAct(s)
  /\ hand.roundBet[s] < hand.smallest
  /\ hand' = AdvanceTurn(Acted(AddBet(hand, s, ToCall(hand, s)), s))
  /\ UNCHANGED start

(* Action::Raise(amount): amount is what the seat adds to its own bet.  It *)
(* must reach the current bet plus the last full raise unless it is the    *)
(* whole stack; only a full raise moves min_raise and makes the others act *)
(* again.                                                                  *)
RaiseIsLegal(h, s, amount) ==
  /\ amount <= h.stack[s]
  /\ \/ h.roundBet[s] + amount >= h.smallest + h.minRaise
     \/ amount = h.stack[s]

(* Mistake: the bet level follows the raiser even when an all-in is for    *)
(* less than the current bet (before E-2).                                 *)
RaisedLevelDrops(h, s, amount) ==
  LET paid == AddBet(h, s, amount)
  IN  [paid EXCEPT !.smallest = h.roundBet[s] + amount,
                   !.minRaise = amount,
                   !.acted    = @ \ (Active(paid) \ {s}),
                   !.raisedPreflop = IF h.street = "Preflop" THEN @ \cup {s} ELSE @]

Raised(h, s, amount) ==
  LET total == h.roundBet[s] + amount
      paid  == AddBet(h, s, amount)
      full  == total - h.smallest >= h.minRaise
      level == IF total <= h.smallest THEN paid
               ELSE [paid EXCEPT
                       !.smallest = total,
                       !.minRaise = IF full THEN total - h.smallest ELSE @,
                       !.acted    = IF full THEN @ \ (Active(paid) \ {s}) ELSE @]
  IN  [level EXCEPT !.raisedPreflop = IF h.street = "Preflop" THEN @ \cup {s} ELSE @]

Raise(s, amount) ==
  /\ MayAct(s)
  /\ RaiseIsLegal(hand, s, amount)
  /\ hand' = AdvanceTurn(Acted(Raised(hand, s, amount), s))
  /\ UNCHANGED start

(* force_fold, for a player who leaves in the middle of a hand: any seat,  *)
(* on turn or not, unless folded or all-in.  The turn moves only when it   *)
(* was theirs; the hand ends when one seat is left, after whatever the     *)
(* turn change dealt.                                                      *)
ForceFold(s) ==
  /\ ~hand.complete
  /\ s \in Active(hand)
  /\ LET gone  == [Acted(hand, s) EXCEPT !.folded = @ \cup {s}]
         moved == IF s = hand.current THEN AdvanceTurn(gone)
                  ELSE IF RoundComplete(gone) THEN EndRound(gone)
                  ELSE gone
     IN  hand' = IF Cardinality(InHand(gone)) <= 1
                 THEN [moved EXCEPT !.complete = TRUE]
                 ELSE moved
  /\ UNCHANGED start

Act(s) ==
  \/ Fold(s)
  \/ Check(s)
  \/ Call(s)
  \/ \E amount \in 1 .. hand.stack[s] : Raise(s, amount)

Next == \E s \in Seats : Act(s) \/ ForceFold(s)

Spec == Init /\ [][Next]_vars

(* The actor's turn timer folds a player who does not answer, so the seat  *)
(* on turn always acts in the end.                                         *)
Fairness == WF_vars(\E s \in Seats : Act(s))

FairSpec == Spec /\ Fairness
-----------------------------------------------------------------------------
(* What must hold of a hand.                                               *)

TypeOK == hand \in Hands /\ start \in [Seats -> StartStacks]

(* Chips are neither made nor lost while the hand runs: what a seat has    *)
(* left and what it put in are what it started with (every street's bets,  *)
(* blinds and antes count), and the pot is what the seats put in.          *)
SeatChipsKept == \A s \in Seats : hand.stack[s] + hand.totalBet[s] = start[s]
(* The hand never waits for somebody who cannot answer: while it runs, the *)
(* seat on turn is neither folded nor all-in and has something to decide,  *)
(* because it has not acted on this street or has not matched the bet.     *)
(* (advance_turn, reset_round and force_fold all move the turn.)           *)
Pending(h, s) == s \notin h.acted \/ h.roundBet[s] < h.smallest
TurnIsOpen ==
  ~hand.complete =>
    /\ hand.current \in Active(hand)
    /\ Pending(hand, hand.current)

(* Nobody sees a showdown cheaply or on a short board: when two or more    *)
(* seats are left at the end, all five cards are out, and each of them is  *)
(* all-in or has put in as much as any seat, folded ones included.         *)
ShowdownIsPaidFor ==
  hand.complete /\ Cardinality(InHand(hand)) >= 2 =>
    /\ hand.board = 5
    /\ \A s \in InHand(hand) :
         s \in hand.allIn \/ \A t \in Seats : hand.totalBet[t] <= hand.totalBet[s]

(* Every complete hand can be paid: at least one seat is left to win, and  *)
(* dividing the pot gives out exactly the pot whatever the hands are, with *)
(* nothing for a seat that folded.                                         *)
HandIsPayable ==
  hand.complete =>
    /\ InHand(hand) # {}
    /\ \A rank \in [Seats -> 1 .. 2] :
         LET won == PotWinners(hand.totalBet, hand.folded, rank)
         IN  /\ SumFunction(won) = hand.pot
             /\ \A s \in hand.folded : won[s] = 0

(* No street is closed over the head of a seat that could still act on it: *)
(* each such seat has acted since the street began or the last full raise, *)
(* the big blind before the flop included.                                 *)
NobodySkipped ==
  [][hand'.street # hand.street =>
       Active(hand') \subseteq hand.acted \cup {hand.current}]_vars

(* Within a street the price to stay in and the smallest legal raise never *)
(* go down (the E-2 fix), so no seat is let in cheaper than an earlier one.*)
PriceOnlyRises ==
  [][hand'.street = hand.street =>
       /\ hand'.smallest >= hand.smallest
       /\ hand'.minRaise >= hand.minRaise]_vars

(* Every hand comes to an end, if the seat on turn always acts.            *)
HandEnds == <>(hand.complete)

(* What the comment in apply_action promises: only a full raise lets seats *)
(* that already acted raise again.  A seat that has acted since the last   *)
(* full raise does not put the price up.                                   *)
OnlyFullRaiseReopens ==
  [][hand'.street = hand.street /\ hand'.smallest > hand.smallest
       => hand.current \notin hand.acted]_vars
=============================================================================
