SPECIFICATION DirectorSpec
CONSTANTS
  Players = {p1, p2, p3, p4, p5}
  Nobody = Nobody
  Capacity = 4
  MaxStarts = 1
  MaxKicks = 1
SYMMETRY Renamings
INVARIANTS RostersAreSurvivors SeatsFollowRosters TableIsNotForgotten
CHECK_DEADLOCK FALSE
