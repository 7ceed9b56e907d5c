SPECIFICATION ConvFairSpec
CONSTANTS
  none = none
  NoConv = none
  MaxConvs = 2
  MaxMessages = 3
  MinMessages = 1
  MaxMishaps = 1
  MaxHandoffs = 1
INVARIANTS SessionFresh RatedOncePerSurvey OpenBesideOnlyIfAsked ClosedMeansAsked
PROPERTIES MachineSpec IdleIsClosed
CHECK_DEADLOCK FALSE
