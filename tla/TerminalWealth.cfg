SPECIFICATION Spec
CONSTANTS
  NoAlt = NoAlt
  NoOne = NoOne
  Cases <- FreshCases
CHECK_DEADLOCK FALSE
INVARIANTS
  OnlyExpectedBranches
  DepositRecovered
  ValueConserved
  CoverageHolds
