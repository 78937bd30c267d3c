SPECIFICATION Spec
CONSTANTS
  Requested = 3
  Capacity = 4
  Wrap = 12
  Consumers = {main}
  main = main
  sump_client = sump_client
  Lens = {1, 3, 6}
INVARIANTS
  TypeOK
  NoCellClash
  CopiedInOrder
PROPERTY
  FifoSpec
