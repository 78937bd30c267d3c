CONSTANTS
  Threads <- MCThreads
  Paths <- MCPaths
  MaxFds = 3
  Pids = {1, 2}
  ReconnectSec = 64
  MaxRequests = 2
SPECIFICATION Spec
INVARIANTS TypeOK FdsOwned IoOnOpenFd OnePlayer BackoffStartsOver ReleasedAlone
PROPERTIES LossNoticed StopTerminates
