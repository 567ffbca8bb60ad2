SPECIFICATION GatesSpec
CONSTANTS
  Programs <- MCPrograms
  Samples <- MCSamples
  NoCbit = NoCbit
  FieldSize = 7
  Arguments = {"a", "b"}
  Scripts <- MCScripts
  NaN = NaN
INVARIANTS
  SameOperation
  MeasurementsReadBack
PROPERTY SimplifiedKeepsValue
CHECK_DEADLOCK FALSE
