SPECIFICATION DSpec
CONSTANTS
  NoPath = NoPath
  Revs <- MCRevs
  N = 3
  Inputs <- MCInputs
  Answers <- MCAnswers
INVARIANT LibrariesHaveATarget
CHECK_DEADLOCK FALSE
