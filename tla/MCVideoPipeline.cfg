SPECIFICATION Spec
CONSTANTS
  BufCount = 2
  BlockCount = 3
  QueueDepth = 2
  Threads = {"capture", "render", "main"}
  MaxFrames = 4
INVARIANTS
  TypeOK
  NoLostWakeup
  CountIsHolders
  FrameIntact
  FrameAccounting
  RenderWakeup
  FreedAfterUse
  AllReturned
PROPERTIES
  StreamSpec
  StopTerminates
