SPECIFICATION Spec
CONSTANTS
  w1 = w1 w2 = w2 alice = alice bob = bob m1 = m1 m2 = m2
  free = free orphan = orphan none = none
  Workers = {w1, w2}
  Customers = {alice}
  Messages = {m1, m2}
  Anonymous = {m2}
  Textless = {}
  SenderOf <- OneSender
  Arrivals <- FirstTwice
  Drainer = w1
  Free = free
  Orphan = orphan
  NoMessage = none
  MayBeSlow = TRUE
  MaxConvs = 2
  MaxMonths = 2
  MaxFaults = 0
  MaxCrashes = 0
INVARIANT NeverTwoWorkers
CHECK_DEADLOCK FALSE
