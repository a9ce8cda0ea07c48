SPECIFICATION SidePotsSpec
CONSTANTS
  HandSize = 4
  MostBet = 3
  MostRank = 3
INVARIANTS
  PotsMatchReference
  TableStakes
CHECK_DEADLOCK FALSE
