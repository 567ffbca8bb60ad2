SPECIFICATION Spec
CONSTANTS
  a = a
  b = b
  c = c
  d = d
  Reg = Reg
  Qubits <- FourQubits
  Registers = {Reg}
  Virtual = Virtual
  Excluded = Excluded
  Free = Free
  NumPhys = 4
  Links <- LineLinks
  Available <- LineAvailable
  Duration <- Cycles
  SwapDuration = 2
  Programs <- Generic
  InitialMaps <- NoHole
  BackwardMethod = "retrace"
  HamiltonianPath <- LinePath
  CanonicalSchedule = TRUE
  MatchedMeasurement = FALSE
INVARIANTS
  OperandsConvertToTable
CHECK_DEADLOCK FALSE
