--------------------------- MODULE MCMttDirector ---------------------------
(* Values for MttDirector.                                                 *)
EXTENDS MttDirector, TLC

(* The director never compares players: the entry order renames them.      *)
Renamings == Permutations(Players)
=============================================================================
