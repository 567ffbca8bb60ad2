SPECIFICATION ListSpec
CONSTANTS
  Lists <- Distinct
  RegisterSize <- Sizes
  Null = Null
  Absent = Absent
INVARIANTS
  FailedBuildsAreNull
  ElementsAsWritten
CHECK_DEADLOCK FALSE
