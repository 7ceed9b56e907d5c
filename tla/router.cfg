SPECIFICATION FairSpec
CONSTANTS
  w1 = w1 w2 = w2 alice = alice bob = bob m1 = m1 m2 = m2
  free = free orphan = orphan none = none
  Workers = {w1, w2}
  Customers = {alice}
  Messages = {m1}
  Anonymous = {}
  Textless = {}
  SenderOf <- OneSender
  Arrivals <- FirstTwice
  Drainer = w1
  Free = free
  Orphan = orphan
  NoMessage = none
  MayBeSlow = FALSE
  MaxConvs = 2
  MaxMonths = 1
  MaxFaults = 1
  MaxCrashes = 1
INVARIANTS NoDeliveryLost PendingIsOwned
PROPERTY EverythingSettles
CHECK_DEADLOCK FALSE
