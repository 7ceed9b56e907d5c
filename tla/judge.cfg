SPECIFICATION Spec
CONSTANTS
  shop = shop w1 = w1 w2 = w2 nojob = nojob
  Lines = {shop}
  Configs <- OneConfig
  Default <- SmallDefault
  MaxNow = 1
  Workers = {w1, w2}
  NoJob = nojob
  Inputs <- Enforcing
INVARIANTS EscalationReachesHuman StreakBounded
SYMMETRY Symmetry
