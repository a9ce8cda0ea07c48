SPECIFICATION FairBarSpec
CONSTANTS
  N = 3
  SmallBlind = 1
  BigBlind = 2
  Ante = 0
  StartStacks = {1, 2, 4, 7}
  Hero = 0
  Phone = FALSE
  MaxTyped = 7
INVARIANTS
  PanelIsLegal
  EveryRaiseIsOffered
  SeatChipsKept
  TurnIsOpen
  ShowdownIsPaidFor
  HandIsPayable
PROPERTIES
  NobodySkipped
  PriceOnlyRises
  HandEnds
CHECK_DEADLOCK FALSE
