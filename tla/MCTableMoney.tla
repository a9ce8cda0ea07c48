---------------------------- MODULE MCTableMoney ----------------------------
(***************************************************************************)
(* TableMoney for TLC: a user who can buy in and one who cannot.           *)
(***************************************************************************)
EXTENDS TableMoney

CONSTANTS rich, poor

MCUsers   == {rich, poor}
MCWallets == [u \in MCUsers |-> IF u = rich THEN BuyIn ELSE BuyIn - 1]
=============================================================================
