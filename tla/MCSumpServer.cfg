SPECIFICATION Spec
CONSTANTS
  a = a
  b = b
  Clients = {a, b}
  Lines = 3
  Word = 16
  Offered <- MCOffered
  MaxRate = 10
  CaptureSamples = 1
  DefaultTarget = 2
  MaxTarget = 2
  Capacity = 2
  BatchSize = 2
  MaxSent = 5
SYMMETRY Symmetry
INVARIANTS
  TypeOK
  AppliesWhatWasSent
  
CHECK_DEADLOCK FALSE
