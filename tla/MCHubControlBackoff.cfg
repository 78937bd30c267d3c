CONSTANTS
  Threads <- MCThreads
  Paths <- MCPaths
  MaxFds = 3
  Pids = {1, 2}
  ReconnectSec = 5
  MaxRequests = 2
SPECIFICATION Spec
INVARIANT BackoffGrows
