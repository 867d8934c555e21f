SPECIFICATION SSpec
CONSTANTS
  NoPath = NoPath
  Questions <- MCQuestions
INVARIANT NoChangedPackageMissed
INVARIANT NothingElseMarked
INVARIANT BumpMarksSomePackage
CHECK_DEADLOCK FALSE
