SPECIFICATION Spec
CONSTANTS
  BufCount = 2
  BlockCount = 2
  QueueDepth = 2
  Threads = {"capture", "render", "main"}
  MaxFrames = 4
INVARIANTS
  BlockExclusive
