SPECIFICATION Spec
CONSTANTS
  Promoters = {p1, p2}
  Rev <- MCRev
  Saves <- MCSaves
  MaxEdits = 1
SYMMETRY Symmetry
CHECK_DEADLOCK FALSE
INVARIANTS
  TypeOK
  PromotionIsExact
  LastEditSurvives
  OneScope
