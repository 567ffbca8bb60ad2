SPECIFICATION ParametersSpec
CONSTANTS
  FieldSize = 7
  Arguments = {"a", "b"}
  Scripts <- TwoQuotients
  NaN = NaN
INVARIANT EquivalentThroughout
CHECK_DEADLOCK FALSE
