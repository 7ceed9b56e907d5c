SPECIFICATION Spec
CONSTANTS
  shop = shop w1 = w1 w2 = w2 nojob = nojob
  Lines = {shop}
  Configs <- Touchy
  Default <- SmallDefault
  MaxNow = 0
  Workers = {w1}
  NoJob = nojob
  Inputs <- AnySignals
INVARIANT ShadowRoutesAsOff
