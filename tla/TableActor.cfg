SPECIFICATION FairSpec
CONSTANTS
  Users  = {a, b, c}
  Movers = {a}
  Nobody = Nobody
  Absent = Absent
  NoHand = NoHand
  MaxCalls    = 2
  MaxReveals  = 2
  MaxConnects = 2
INVARIANTS
  TurnIsTimed
  EndIsScheduled
  WinnersAreSeated
PROPERTIES
  LeavesAreAnswered
CHECK_DEADLOCK FALSE
