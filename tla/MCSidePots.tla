---------------------------- MODULE MCSidePots ----------------------------
(***************************************************************************)
(* Checks SidePots against the one-chip-at-a-time reference, for every     *)
(* pattern of contributions and folds of a small hand.  The behaviours     *)
(* only build the inputs: chips go in one seat at a time, seats fold while *)
(* at least two are left (calculate_pot_winners handles one by itself).    *)
(***************************************************************************)
EXTENDS SidePots

CONSTANTS HandSize,  \* seats in the hand
          MostBet,   \* bound on what a seat puts in
          MostRank   \* hand strengths 1..MostRank

ASSUME MCSidePotsAssumption ==
  HandSize \in Nat /\ HandSize >= 2 /\ MostBet \in Nat \ {0} /\ MostRank \in Nat \ {0}

VARIABLES paidIn, gaveUp
inputs == <<paidIn, gaveUp>>

Contributors == 0..HandSize-1

SidePotsInit == paidIn = [s \in Contributors |-> 0] /\ gaveUp = {}

PutIn(s) ==
  /\ s \notin gaveUp
  /\ paidIn[s] < MostBet
  /\ paidIn' = [paidIn EXCEPT ![s] = @ + 1]
  /\ UNCHANGED gaveUp

GiveUp(s) ==
  /\ s \notin gaveUp
  /\ Cardinality(Contributors \ gaveUp) >= 2
  /\ gaveUp' = gaveUp \cup {s}
  /\ UNCHANGED paidIn

SidePotsNext == \E s \in Contributors : PutIn(s) \/ GiveUp(s)
SidePotsSpec == SidePotsInit /\ [][SidePotsNext]_inputs

StillIn   == Contributors \ gaveUp
Strengths == [Contributors -> 1..MostRank]
Pots      == SidePotsWithDeadMoney(paidIn, gaveUp)

(* The pots are exactly the reference's: for every set C of claimants, the *)
(* chips in the pots only C may win are the chips the reference gives to   *)
(* C.  (At least one seat that may still win has paid something, which the *)
(* blinds guarantee when two seats are left at the end of a hand.)         *)
PotsMatchReference ==
  (\E s \in StillIn : paidIn[s] > 0) =>
    \A C \in SUBSET Contributors :
      SumFunctionOnSet([i \in DOMAIN Pots |-> Pots[i].amount],
                       {i \in DOMAIN Pots : Pots[i].eligible = C})
        = ClaimedBy(paidIn, gaveUp, C, MostBet)

(* Table stakes: a seat beaten by a live seat that paid at least as much   *)
(* wins nothing, a folded seat wins nothing, and whoever paid deepest gets *)
(* back what nobody else matched.                                          *)
TableStakes ==
  (\E s \in StillIn : paidIn[s] > 0) =>
    \A rank \in Strengths :
      LET won == PotWinners(paidIn, gaveUp, rank)
      IN  \A s \in Contributors :
            /\ s \in gaveUp => won[s] = 0
            /\ (\E t \in StillIn : rank[t] > rank[s] /\ paidIn[t] >= paidIn[s]) => won[s] = 0
            /\ s \in StillIn =>
                 \E t \in Contributors \ {s} : won[s] >= paidIn[s] - paidIn[t]
=============================================================================
