SPECIFICATION FairDSpec
CONSTANTS
  NoPath = NoPath
  Revs <- MCRevs
  N = 3
  Inputs <- MCInputs
  Answers <- MCAnswers
INVARIANTS
  TypeOK
  ReportedOnce
  OnlyFailFastDrops
  RunFollowsList
  ProgressProtocol
  ChangedScope
  BarCountsReports
PROPERTIES
  ReportsAreFinal
  Terminates
  RefinesContract
CHECK_DEADLOCK FALSE
