SPECIFICATION FairSpec
CONSTANTS
  a = a
  b = b
  c = c
  d = d
  Reg = Reg
  Qubits <- ThreeQubits
  Registers = {Reg}
  Virtual = Virtual
  Excluded = Excluded
  Free = Free
  NumPhys = 4
  Links <- LineLinks
  Available <- LineAvailable
  Duration <- Cycles
  SwapDuration = 2
  Programs <- Entangling
  InitialMaps <- OneHole
  BackwardMethod = "retrace"
  HamiltonianPath <- LinePath
  CanonicalSchedule = FALSE
  MatchedMeasurement = FALSE
INVARIANTS
  TypeOK
  PlacementsConsistent
  UndoLeadsBack
  HoldBlocksRestored
  UndoIsReduced
  TableIsASchedule
  SequenceFollowsTable
  FinalMapReached
PROPERTIES
  ImplementsLogicalCircuit
  EveryBlockIsFinished
CHECK_DEADLOCK FALSE
