SPECIFICATION Spec
CONSTANTS
  MaxId = 11
  MaxInt = 1000
  Limit = 2
  MinStep <- MCMinStep
  MaxStep = 2
  MaxNumber = 20
  MaxRepeat = 1
INVARIANTS TypeOK LossExact
CHECK_DEADLOCK FALSE
