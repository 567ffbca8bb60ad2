SPECIFICATION Spec
CONSTANTS
  q0 = q0
  q1 = q1
  q2 = q2
  QubitOrder <- AllQubits
  Ops = {1, 2, 3, 4, 5, 6}
  Operands <- SparseOperands
  Blocks <- SparseBlocks
  Places <- OnWire
  Foreign = {6}
CHECK_DEADLOCK FALSE
INVARIANTS
  MapsAgree
  EveryGateIterated
  WireOrder
  QubitDependenciesMaintained
  SlicesAreParallel
