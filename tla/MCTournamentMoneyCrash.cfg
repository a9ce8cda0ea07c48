CONSTANTS
  Users = {u1, u2}
  Requests = {r1, r2}
  NoUser = NoUser
  BuyIn = 5
  Rich = u1
  Wallets <- MCWallets
  Quota = 2
  MaxPlayers = 2
  Percents <- MCPercents
  MaxFaults = 2
SPECIFICATION Spec
PROPERTIES CancelledIsRefunded
