SPECIFICATION SSpec
CONSTANTS
  NoPath = NoPath
  Questions <- MCQuestions
INVARIANT MarkedInAnyDirectory
CHECK_DEADLOCK FALSE
