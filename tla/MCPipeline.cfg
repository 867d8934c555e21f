SPECIFICATION PSpec
CONSTANTS
  NoPath = NoPath
  Revs <- MCRevs
  N = 3
  MaxFindings = 2
  Inputs <- MCInputs
  Answers <- MCAnswers
  Settings <- MCSettings
CHECK_DEADLOCK FALSE
INVARIANTS
  PTypeOK
  ZeroMeansClean
  ExitCodeHasCause
  FormatsAgree
  LanesAreOrdered
  FailuresAreFindings
  ErrorsSurviveTheCut
  WaivedAsIfPassed
  EveryFormatTells
  SarifsAgree
  PassIsClean
  SummaryAddsUp
  
  DoneLineDiffers
