SPECIFICATION KernelsSpec
CONSTANTS
  NumFunctions = 4
  AttemptLimit = 2
  LoopIndex = LoopIndex
  Programs <- GlobalThenArgument
  Lists <- NoListAtAll
  RegisterSize <- Sizes
  Null = Null
  Absent = Absent
  NumBlocks = 4
  Kernels <- OneKernel
  NoBlock = NoBlock
  Sources <- SmallSources
INVARIANT PickedUpFilesContinue
CHECK_DEADLOCK FALSE
