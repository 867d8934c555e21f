SPECIFICATION CSpec
CONSTANTS
  NoPath = NoPath
  Revs <- MCRevs
  N = 2
  MaxFindings = 2
  MaxRuns = 2
  Commands <- Narrow
  Inputs <- NarrowInputs
  Settings <- NarrowSettings
  Answers <- Few
CHECK_DEADLOCK FALSE
INVARIANTS
  BundleStaysWhole
