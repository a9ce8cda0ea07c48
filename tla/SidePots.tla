------------------------------ MODULE SidePots ------------------------------
(***************************************************************************)
(* How the chips of one hand are divided: pot.rs (main pot and side pots)  *)
(* and GameState::calculate_pot_winners (who gets them).  Pure operators;  *)
(* no state.                                                               *)
(*                                                                         *)
(*   bet      [Seats -> Nat]  what each seat put in over the whole hand    *)
(*   folded   SUBSET Seats    the seats that gave up their claim           *)
(*   rank     [Seats -> Nat]  strength of a seat's hand; equal = a tie     *)
(*                                                                         *)
(* Seats are the indices of GameState.players, so a smaller number is an   *)
(* earlier index.  Hand evaluation itself (evaluate.rs) is abstracted to   *)
(* the weak order "rank".                                                  *)
(***************************************************************************)
EXTENDS Integers, Sequences, FiniteSets, SequencesExt

(* The distinct positive contributions: the values min_bet takes in the    *)
(* loop over the sorted bets.                                              *)
Levels(bet) == {bet[s] : s \in DOMAIN bet} \ {0}

(* Mistake: the layer nobody left may claim is dropped, instead of rolled  *)
(* into the pot below.                                                     *)
AddLayerDropsDead(bet, folded, acc, level) ==
  LET in       == {s \in DOMAIN bet : bet[s] >= level}
      eligible == in \ folded
  IN  [last |-> level,
       pots |-> IF eligible = {} THEN acc.pots
                ELSE Append(acc.pots,
                            [amount   |-> (level - acc.last) * Cardinality(in),
                             eligible |-> eligible])]

(* Mistake: the layer is sized from the live seats only (before E-1).      *)
AddLayerLiveOnly(bet, folded, acc, level) ==
  LET live == {s \in DOMAIN bet : bet[s] >= level} \ folded
  IN  [last |-> level,
       pots |-> IF live = {} THEN acc.pots
                ELSE Append(acc.pots, [amount   |-> (level - acc.last) * Cardinality(live),
                                       eligible |-> live])]

(* One turn of the loop of compute_side_pots_with_dead_money.  acc carries *)
(* the pots built so far and last_bet.                                     *)
AddLayer(bet, folded, acc, level) ==
  LET in       == {s \in DOMAIN bet : bet[s] >= level}
      amount   == (level - acc.last) * Cardinality(in)
      eligible == in \ folded
      n        == Len(acc.pots)
  IN  [last |-> level,
       pots |-> IF eligible = {} /\ n > 0
                THEN [acc.pots EXCEPT ![n].amount = @ + amount]
                ELSE Append(acc.pots, [amount |-> amount, eligible |-> eligible])]

(* The loop: the levels from the smallest up, the largest one added last.  *)
SidePotsWithDeadMoney(bet, folded) ==
  MapThenFoldSet(LAMBDA level, acc : AddLayer(bet, folded, acc, level),
                 [last |-> 0, pots |-> <<>>],
                 LAMBDA level : level, LAMBDA rest : Max(rest),
                 Levels(bet)).pots

-----------------------------------------------------------------------------

Best(eligible, rank) ==
  {s \in eligible : \A t \in eligible : rank[t] <= rank[s]}

(* Mistake: the hands of all seats are compared, whatever they paid for.   *)
ShareOfWholePot(pot, rank, s) ==
  LET best == Best(DOMAIN rank, rank)
  IN  IF s \in best THEN pot.amount \div Cardinality(best) ELSE 0

(* A pot split among the best hands: share_val each, and one more chip for *)
(* the first `remainder` of them in index order.                           *)
ShareOf(pot, rank, s) ==
  LET best      == Best(pot.eligible, rank)
      n         == Cardinality(best)
      earlier   == Cardinality({t \in best : t < s})
      extra     == IF earlier < pot.amount % n THEN 1 ELSE 0
  IN  IF s \in best THEN pot.amount \div n + extra ELSE 0

(* calculate_pot_winners of a complete hand: the chips each seat receives. *)
(* A single remaining seat takes everything; otherwise each pot goes to    *)
(* its best eligible hands.                                                *)
PotWinners(bet, folded, rank) ==
  LET live == DOMAIN bet \ folded
      pots == SidePotsWithDeadMoney(bet, folded)
  IN  [s \in DOMAIN bet |->
        IF Cardinality(live) = 1
        THEN IF s \in live THEN SumFunction(bet) ELSE 0
        ELSE SumFunction([i \in DOMAIN pots |-> ShareOf(pots[i], rank, s)])]

-----------------------------------------------------------------------------
(* The reference: the rules of table stakes, one chip at a time.           *)

(* Who may win the u-th chip of every contributor: those still in the hand *)
(* who paid that deep, and for chips only folded seats paid, those still   *)
(* in who paid deepest.                                                    *)
Claimants(bet, folded, u) ==
  LET live    == DOMAIN bet \ folded
      deep    == {s \in live : bet[s] >= u}
      deepest == {s \in live : \A t \in live : bet[t] <= bet[s]}
  IN  IF deep # {} THEN deep ELSE deepest

ChipsAt(bet, u) == Cardinality({s \in DOMAIN bet : bet[s] >= u})

(* All the chips the seats of C, and only they, may win.                   *)
ClaimedBy(bet, folded, C, most) ==
  SumFunctionOnSet([u \in 1..most |-> ChipsAt(bet, u)],
                   {u \in 1..most : Claimants(bet, folded, u) = C})
=============================================================================
