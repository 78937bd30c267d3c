CONSTANTS
  Clients = {"c1", "c2"}
  MaxPolls = 1
  Plugins = {"p1", "p2"}
  SlotCount = 1
SPECIFICATION LiveToolkit
INVARIANTS TypeOK ServiceAlone PluginsPaired
PROPERTIES NoLateClient CaptureEnds StopEnds
