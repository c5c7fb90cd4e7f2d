CONSTANTS
  Orders = {1, 2, 3}
  Symbols = {"2330"}
  Ticket <- TwoSales
  Quantities = {1, 2, 3}
  Prices = {1}
  MaxSeq = 3
  MaxDay = 3
  SettlementDays = 2
  SettlementEnforced = FALSE
  InitialCash = 9
  MinCommission = 0
  CommissionPct = 0
  TaxPct = 0
  LocateLimit = 1
  BorrowFee = 1
SPECIFICATION OmsSpec
INVARIANT PositionMatchesFills
CHECK_DEADLOCK FALSE
