CONSTANTS
  Numbers = {1, 2}
  Requests = {1, 2, 3}
  Sizes = {0, 1, 2, 3}
  MaxBytes = 2
  None = None
  Foreign <- Anything
SPECIFICATION FairSpec
INVARIANTS LimitIsExact DisplayIsFounded AnswersInPlace
PROPERTIES ButtonsReturn
CHECK_DEADLOCK FALSE
