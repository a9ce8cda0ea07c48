------------------------------- MODULE Ledger -------------------------------
(***************************************************************************)
(* What a room promises about money: every user has one account, wherever  *)
(* its chips are (wallet, stack, or on their way), and the accounts change *)
(* in three ways only.  TableMoney implements it.                          *)
(***************************************************************************)
EXTENDS Integers, FiniteSetsExt

CONSTANTS Users,
          Wallets    \* [Users -> Nat]: the accounts at the beginning

VARIABLES account,   \* [Users -> Int]
          pot,
          leak       \* chips made (> 0) or lost (< 0) by mistakes so far

ledger == <<account, pot, leak>>

Chips == MapThenSumSet(LAMBDA u : account[u], Users)

Init == account = Wallets /\ pot = 0 /\ leak = 0

(* A user pays into the pot what he has.                                   *)
Bet(u) ==
  /\ pot' > pot
  /\ account' = [account EXCEPT ![u] = @ - (pot' - pot)]
  /\ UNCHANGED leak

(* The pot is given out: nobody pays, and what is given out on top of it,  *)
(* or not given out, is counted.                                           *)
Settle ==
  /\ pot' = 0
  /\ \A u \in Users : account'[u] >= account[u]
  /\ leak' - leak = Chips' - (Chips + pot)

(* A mistake is made with the chips of one user, perhaps as he bets, and   *)
(* counted.                                                                *)
Slip(u) ==
  /\ leak' # leak /\ pot' >= pot
  /\ account' = [account EXCEPT ![u] = @ + (leak' - leak) - (pot' - pot)]

Next == Settle \/ \E u \in Users : Bet(u) \/ Slip(u)

Spec == Init /\ [][Next]_ledger
=============================================================================
