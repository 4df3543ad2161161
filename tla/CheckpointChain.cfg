SPECIFICATION Spec
CONSTANTS
  Group0 <- MCGroup0
  Residual <- MCResidual
  Shards = {1, 2, 3}
  BaseShard <- MCBaseShard
  OverlayShard <- MCOverlayShard
  Together <- MCTogether
  MaxStops = 1
  MaxLost = 1
INVARIANTS
  AcceptedStageIsWhole
  ConfigFitsTensors
