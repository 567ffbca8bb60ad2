SPECIFICATION Spec
CONSTANTS
  a = a
  b = b
  c = c
  d = d
  Reg = Reg
  Qubits <- ThreeQubits
  Registers = {Reg}
  Virtual = Virtual
  Excluded = Excluded
  Free = Free
  NumPhys = 4
  Links <- KiteLinks
  Available <- LineAvailable
  Duration <- Cycles
  SwapDuration = 2
  Programs <- Scrambling
  InitialMaps <- AnyHole
  BackwardMethod = "sort"
  HamiltonianPath <- LinePath
  CanonicalSchedule = FALSE
  MatchedMeasurement = TRUE
INVARIANTS
  HoldBlocksRestored
  BlockFitsPlatform
  MatchedMeasuredOnce
CHECK_DEADLOCK FALSE
