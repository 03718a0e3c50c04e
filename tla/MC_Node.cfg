\* Two crashes, three heights, two possible blocks per height.  A restart
\* after a block changed the EVM state stops: evm.Start fails and main exits.
CONSTANTS
  b1 = b1
  b2 = b2
  none = none
  Blocks <- MCBlocks
  NoBlock = none
  MaxHeight = 3
  MaxCrashes = 2
SPECIFICATION Spec
INVARIANTS TypeOK StoredPrefixComplete
CHECK_DEADLOCK FALSE
