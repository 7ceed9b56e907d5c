SPECIFICATION ConvSpec
CONSTANTS
  none = none
  NoConv = none
  MaxConvs = 2
  MaxMessages = 4
  MinMessages = 1
  MaxMishaps = 0
  MaxHandoffs = 0
INVARIANT OneOpenConversation
CHECK_DEADLOCK FALSE
