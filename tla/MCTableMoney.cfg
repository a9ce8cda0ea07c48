SPECIFICATION Spec
CONSTANTS
  rich = rich
  poor = poor
  Users   <- MCUsers
  Wallets <- MCWallets
  Absent  = Absent
  BuyIn   = 1
  MaxLeak = 1
  MaxReveals = 2
PROPERTIES ImplementsLedger
CHECK_DEADLOCK FALSE
