CONSTANTS
  Plans = {p1, p2}
  Quantity <- Ones
  Lot = 2
  HasPolicy = FALSE
  MaxReplacements = 1
  MaxCancels = 1
  MaxQuotes = 1
  MaxInterrupts = 1
SPECIFICATION PlanSpec
SYMMETRY SamePlans
INVARIANT OneEntryInDoubt
CHECK_DEADLOCK FALSE
