CONSTANTS
  Runs = {r1}
  Ceiling = 1
  MaxLimit = 1
  MaxStops = 1
SPECIFICATION RunSpec
PROPERTY CancelIsKept
CHECK_DEADLOCK FALSE
