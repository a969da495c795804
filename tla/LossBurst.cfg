SPECIFICATION Spec
CONSTANTS
  MaxId = 11
  MaxInt = 1000
  Limit = 2
  MinStep = 1
  MaxStep = 5
  MaxNumber = 40
  MaxRepeat = 0
INVARIANT RepeatMeansRepeat
CHECK_DEADLOCK FALSE
