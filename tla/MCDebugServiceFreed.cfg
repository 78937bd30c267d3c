CONSTANTS
  Clients = {"c1", "c2"}
  MaxPolls = 2
  Plugins = {"p1", "p2"}
  SlotCount = 1
SPECIFICATION ToolkitSpec
INVARIANT RingFreedUnused
