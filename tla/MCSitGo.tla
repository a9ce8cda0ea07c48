------------------------------ MODULE MCSitGo ------------------------------
(* Values for SitGo.                                                       *)
EXTENDS SitGo

(* A seat with one chip cannot post the big blind.                         *)
OneLevel  == <<[small |-> 1, big |-> 2]>>

(* It still can at the first of two levels.                                *)
TwoLevels == <<[small |-> 1, big |-> 1], [small |-> 1, big |-> 2]>>
WinnerTakesMost == <<70, 30>>
=============================================================================
