SPECIFICATION Spec
CONSTANTS
  Tables = {t1, t2}
  NoTable = NoTable
  Sockets = {1, 2, 3}
  NoSocket = 0
  MaxAttempts = 1
  AsyncTokens = FALSE
  MaxDrops = 2
  MaxJoins = 1
  MaxMoves = 1
INVARIANTS Retried OneSocketPerLoss BuyInSentOnce
PROPERTIES BuyInKept Reconnects
CHECK_DEADLOCK FALSE
