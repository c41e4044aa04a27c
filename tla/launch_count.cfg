SPECIFICATION Spec
CONSTANTS
  Counts <- WideNumbers
  Sizes <- WideNumbers
  HalfRange = 4
  DefaultSize = 3
INVARIANT CountNotNegative
CHECK_DEADLOCK FALSE
