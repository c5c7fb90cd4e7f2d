CONSTANTS
  Plans = {p1}
  Quantity <- Twos
  Lot = 2
  HasPolicy = TRUE
  MaxReplacements = 1
  MaxCancels = 1
  MaxQuotes = 2
  MaxInterrupts = 2
SPECIFICATION PlanFairSpec
PROPERTY DecisionsWithdrawEntries
CHECK_DEADLOCK FALSE
