SPECIFICATION ConditioningSpec
CONSTANTS
  NumBlocks = 4
  Kernels <- Disjunction
  NoBlock = NoBlock
INVARIANT AcceptedAreChains
CHECK_DEADLOCK FALSE
