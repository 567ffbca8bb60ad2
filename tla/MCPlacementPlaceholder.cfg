SPECIFICATION PlacementSpec
CONSTANTS
  Qubits <- SmallQubits
  Registers <- SmallRegisters
  Virtual = Virtual Excluded = Excluded Free = Free
  Array <- SmallArrays
  KeyOrder <- Keys
  NumPlatformQubits = 4
  Inputs <- CustomInputs
INVARIANT CustomValuesFollowed
CHECK_DEADLOCK FALSE
