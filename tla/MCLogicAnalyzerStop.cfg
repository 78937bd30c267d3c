SPECIFICATION FairSpec
CONSTANTS
  Sources = {"ground"}
  Channels = {0}
  Modes = {"none", "rising"}
  FastBatch = 2
  SlowBatch = 1
  Capacity = 1
  MaxSamples = 2
  Wrap = 3
PROPERTY StopReturns
