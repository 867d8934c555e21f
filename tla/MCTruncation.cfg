SPECIFICATION PSpec
CONSTANTS
  NoPath = NoPath
  Revs <- MCRevs
  N = 3
  MaxFindings = 2
  Inputs <- MCInputs
  Answers <- MCAnswers
  Settings <- MCSettings
CHECK_DEADLOCK FALSE
INVARIANT UnwaivedViolationFails
