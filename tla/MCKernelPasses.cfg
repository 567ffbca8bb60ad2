SPECIFICATION KernelsSpec
CONSTANTS
  NumFunctions = 4
  AttemptLimit = 2
  LoopIndex = LoopIndex
  Programs <- SmallPrograms
  Lists <- SmallLists
  RegisterSize <- Sizes
  Null = Null
  Absent = Absent
  NumBlocks = 4
  Kernels <- GraphKernels
  NoBlock = NoBlock
  Sources <- SmallSources
INVARIANTS
  FlattenedAsWritten
  CalledAreValid
  ListsAsWritten
  PathsRunSameGates
  RejectedAreNotChains
  NoStageSkipped
  OthersContinue
PROPERTY KernelRoundsTerminate
CHECK_DEADLOCK FALSE
