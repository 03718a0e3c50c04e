\* Restarts against what was stored (a node whose evm.Start fails stops).
CONSTANTS
  b1 = b1
  b2 = b2
  none = none
  Blocks <- MCBlocks
  NoBlock = none
  MaxHeight = 3
  MaxCrashes = 2
SPECIFICATION Spec
PROPERTY BlocksImmutable
CHECK_DEADLOCK FALSE
