SPECIFICATION Spec
CONSTANTS
  MaxFails = 2
  MaxPin = 4
INVARIANT RegenerateIsFinal
