SPECIFICATION Spec
CONSTANTS
  Requested = 3
  Capacity = 4
  Wrap = 12
  Consumers = {main, sump_client}
  main = main
  sump_client = sump_client
  Lens = {1, 3, 6}
INVARIANT NoByteTakenTwice
