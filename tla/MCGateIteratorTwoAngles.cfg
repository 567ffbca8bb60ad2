SPECIFICATION Spec
CONSTANTS
  Iterators = {i1}
  Blocks <- OneLate
  GateTypes = {"D"}
  NumAngles <- NumAnglesOf
  FirstId = 10
  MaxEdits = 1
  End = End
  Lost = Lost
INVARIANT GateOperandsDefined
CHECK_DEADLOCK FALSE
