SPECIFICATION ListSpec
CONSTANTS
  Lists <- SmallLists
  RegisterSize <- Sizes
  Null = Null
  Absent = Absent
INVARIANT NoQubitTwice
CHECK_DEADLOCK FALSE
