SPECIFICATION Spec
CONSTANTS
  q0 = q0
  q1 = q1
  q2 = q2
  QubitOrder <- AllQubits
  Ops = {1, 2, 3, 4}
  Operands <- LocalOperands
  Blocks <- LocalBlocks
  Places <- AnyWhere
  Foreign = {}
CHECK_DEADLOCK FALSE
INVARIANTS
  WireOrder
