CONSTANTS
  Users = {u1, u2}
  Requests = {r1, r2}
  NoUser = NoUser
  BuyIn = 5
  Rich = u1
  Wallets <- MCWallets
  Quota = 2
  MaxPlayers = 2
  Percents <- MCPercents
  MaxFaults = 1
SPECIFICATION Spec
INVARIANTS Accounted CommittedIsCharged PoolIsPaidOut
PROPERTIES RequestsEnd
