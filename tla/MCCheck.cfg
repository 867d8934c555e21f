SPECIFICATION CSpec
CONSTANTS
  NoPath = NoPath
  Revs <- MCRevs
  N = 2
  MaxFindings = 2
  MaxRuns = 1
  Commands <- Wide
  Inputs <- WideInputs
  Settings <- WideSettings
  Answers <- MCAnswers
CHECK_DEADLOCK FALSE
INVARIANTS
  CTypeOK
  CockpitIsNeutral
  NoSilentError
  EveryPackageIsReported
  DefaultScopeIsUsable
  ValidConfigRuns
  ScopeIsOfTheComparison
  UncheckedIsNotPass
