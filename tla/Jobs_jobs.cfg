SPECIFICATION FairSpec
CONSTANTS
  Cell = {a}
  Hole = Hole
  MaxLen = 2
INVARIANTS VerifyTruthful RunningIsReal
PROPERTIES VerifyAnswered FooterFades
