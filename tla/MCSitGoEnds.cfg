SPECIFICATION Spec
CONSTANTS
  MaxPlayers = 3
  BuyIn = 1
  Blinds <- TwoLevels
  Percents <- WinnerTakesMost
  MaxEvents = 1
  MaxReveals = 2
PROPERTIES LastPlayerWins
CHECK_DEADLOCK FALSE
