SPECIFICATION SearchesSpec
CONSTANTS
  Platforms <- SmallAndStar
  NumPhys = 5
  Distance <- PanDistance
  Instances <- SmallCalls
  num_iterations = 3
  num_resets = 2
  NoProgram = NoProgram
  Qubits <- SmallQubits
  Registers <- SmallRegisters
  Virtual = Virtual Excluded = Excluded Free = Free
  Array <- SmallArrays
  KeyOrder <- Keys
  NumPlatformQubits = 4
  Inputs <- SmallInputs
INVARIANTS
  AnswersAsPromised
  PlacementsAgree
  EveryOperandPlaced
  ValuesBeforePlaceholderFollowed
  PlacementsValid
  CostsExact
  TableIsExact
PROPERTY SearchesTerminate
CHECK_DEADLOCK FALSE
