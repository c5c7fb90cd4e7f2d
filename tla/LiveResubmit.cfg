CONSTANTS
  g1 = g1
  g2 = g2
  t1 = t1
  t2 = t2
  Orders = {o1}
  Gateways = {g1}
  Tasks = {t1, t2}
  Home <- OneHome
  Quantity = 2
  Overlapping = FALSE
  MaxPlacements = 2
  MaxRestarts = 0
SPECIFICATION OmsSpec
INVARIANT PlacedOnce
CHECK_DEADLOCK FALSE
