---------------------------- MODULE MCTablePage ----------------------------
(***************************************************************************)
(* TablePage for TLC: rooms are interchangeable.                           *)
(***************************************************************************)
EXTENDS TablePage

RoomSymmetry == Permutations(Rooms)
=============================================================================
