SPECIFICATION Spec
CONSTANTS
  MaxPlayers = 3
  BuyIn = 2
  Blinds <- OneLevel
  Percents <- WinnerTakesMost
  MaxEvents = 2
  MaxReveals = 2
INVARIANTS SurvivorsAccounted SomebodyDeals ChipsAccounted
CHECK_DEADLOCK FALSE
