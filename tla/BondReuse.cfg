SPECIFICATION Spec
CONSTANTS
  NoAlt = NoAlt
  NoOne = NoOne
  Cases <- PolicyCases
CHECK_DEADLOCK FALSE
INVARIANTS
  BondsAreFunded
