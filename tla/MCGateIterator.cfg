SPECIFICATION Spec
CONSTANTS
  Iterators = {i1, i2}
  Blocks <- SmallBlocks
  GateTypes = {"B", "C"}
  NumAngles <- NumAnglesOf
  FirstId = 10
  MaxEdits = 2
  End = End
  Lost = Lost
SYMMETRY Symmetric
INVARIANTS
  GateOperandsDefined
  FixedStayFirst
PROPERTY IsACursorOnTheGates
CHECK_DEADLOCK FALSE
