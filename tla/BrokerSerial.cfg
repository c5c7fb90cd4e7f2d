CONSTANTS
  Orders = {1, 2, 3, 4}
  Symbols = {"2330"}
  Ticket <- Covers
  Quantities = {1}
  Prices = {1}
  MaxSeq = 3
  MaxDay = 0
  SettlementDays = 2
  SettlementEnforced = FALSE
  InitialCash = 3
  MinCommission = 0
  CommissionPct = 0
  TaxPct = 0
  LocateLimit = 3
  BorrowFee = 0
  Workers = {w1}
  NoOne = NoOne
  MaxCrashes = 1
SPECIFICATION BrokerFairSpec
PROPERTY FollowsLifecycle
PROPERTY FillsReachTheBook
CHECK_DEADLOCK FALSE
