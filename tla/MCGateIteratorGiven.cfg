SPECIFICATION Spec
CONSTANTS
  Iterators = {i1}
  Blocks <- OneLate
  GateTypes = {"B"}
  NumAngles <- NumAnglesOf
  FirstId = 10
  MaxEdits = 1
  End = End
  Lost = Lost
INVARIANT GivenAnglesDefined
CHECK_DEADLOCK FALSE
