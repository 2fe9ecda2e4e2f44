SPECIFICATION FairSpec
CONSTANTS
  MaxFails = 2
  MaxPin = 5
INVARIANTS TakeoverClosed PinBudget GraceBelongs
PROPERTIES SingleUse NeverShowsSpent GraceEnds PanelCatchesUp
