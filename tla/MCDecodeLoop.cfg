CONSTANTS
  Wires <- AllWires
  MaxEvents = 2
  Parts = 20
  HoleParts = 6
SPECIFICATION Spec
INVARIANTS ReportsTheBus UartReads I2cReads SpiReads
