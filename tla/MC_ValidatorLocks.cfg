CONSTANTS
  abci = abci
  boot = boot
  rest = rest
  none = none
  NoThread = none
  Threads <- MCThreads
  Program <- ProductionProgram

SPECIFICATION Spec


PROPERTY AllCallsReturn
