CONSTANTS
  Plans = {p1}
  Quantity <- Threes
  Lot = 2
  HasPolicy = TRUE
  MaxReplacements = 1
  MaxCancels = 2
  MaxQuotes = 3
  MaxInterrupts = 1
SPECIFICATION PlanSpec
INVARIANT PlanTypeOK
INVARIANT SalesAreCovered
INVARIANT EndedIsFlat
INVARIANT RequestsAreCounted
PROPERTY FollowsPlanLifecycle
CHECK_DEADLOCK FALSE
