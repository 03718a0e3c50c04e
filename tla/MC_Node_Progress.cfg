\* Whether a node restarted after a crash reaches the last height.
CONSTANTS
  b1 = b1
  b2 = b2
  none = none
  Blocks <- MCBlocks
  NoBlock = none
  MaxHeight = 3
  MaxCrashes = 2
SPECIFICATION Spec
PROPERTY NodeProgress
CHECK_DEADLOCK FALSE
