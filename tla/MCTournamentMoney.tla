------------------------- MODULE MCTournamentMoney -------------------------
(* One user has chips for two buy-ins, so that he can pay again before the *)
(* first payment is settled, the others for one.  The second position has  *)
(* a share rounded down, nobody holds the third.                           *)
EXTENDS TournamentMoney

CONSTANT Rich

MCWallets  == [u \in Users |-> IF u = Rich THEN 10 ELSE 5]
MCPercents == <<45, 33, 20>>
=============================================================================
