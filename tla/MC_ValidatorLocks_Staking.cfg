CONSTANTS
  abci = abci
  boot = boot
  rest = rest
  none = none
  NoThread = none
  Threads <- MCThreads
  Program <- StakingProgram

SPECIFICATION Spec


PROPERTY AllCallsReturn
CHECK_DEADLOCK FALSE
