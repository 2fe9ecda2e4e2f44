SPECIFICATION PskSpec
CONSTANTS
  OwnerKeys = {1, 2}
  MintedKeys = {3, 4}
INVARIANT SuccessPersists
CHECK_DEADLOCK FALSE
