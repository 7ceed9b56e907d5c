SPECIFICATION FairSpec
CONSTANTS
  w1 = w1 w2 = w2 claimer = claimer m1 = m1 m2 = m2
  k1 = k1 k2 = k2 nokey = nokey none = none
  Workers = {w1}
  Claimer = claimer
  Messages = {m1, m2}
  KeyOf <- OneKeyless
  NoKey = nokey
  NoMessage = none
  MaxRetries = 2
  MaxDispatches = 2
  MaxFaults = 3
  MaxShutdowns = 1
  MaxCrashes = 1
INVARIANTS SentOncePerKey DeadOrSent AckedWithoutKeyMeansSent
PROPERTY EveryEntryAcked
CHECK_DEADLOCK FALSE
