SPECIFICATION BreakerSpec
CONSTANTS
  shop = shop
  Lines = {shop}
  Configs <- TwoConfigs
  Default <- SmallDefault
  MaxNow = 5
INVARIANT SuppressedCounts
PROPERTY SlidingWindow
CHECK_DEADLOCK FALSE
