CONSTANTS
  Orders = {1, 2, 3, 4}
  Symbols = {"2330"}
  Ticket <- MCTicket
  Quantities = {1, 2}
  Prices = {2, 3}
  MaxSeq = 2
  MaxDay = 3
  SettlementDays = 2
  SettlementEnforced = TRUE
  InitialCash = 9
  MinCommission = 1
  CommissionPct = 20
  TaxPct = 20
  LocateLimit = 1
  BorrowFee = 1
SPECIFICATION OmsFairSpec
INVARIANT FillsMatchOrders
INVARIANT CommissionIgnoresSplits
INVARIANT CashIsSettledPlusPending
INVARIANT PurchasesAreCovered
INVARIANT ShortsAreBorrowed
PROPERTY TradesSettle
CHECK_DEADLOCK FALSE
