SPECIFICATION PageSpec
CONSTANTS
  Rooms = {r1, r2}
  NoRoom = NoRoom
  Modes = {"play"}
  MaxWire = 1
  MaxJoins = 2
  MaxDrops = 1
SYMMETRY RoomSymmetry
INVARIANTS AskedWhenUnseated AddingIsShown
PROPERTIES OneJoinAtATime
CHECK_DEADLOCK FALSE
