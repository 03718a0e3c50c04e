\* The executor's StateDB pointer after a Commit.
CONSTANTS
  MaxBlocks = 2
  MaxFunds = 0
  MaxCrashes = 0
  StorageFaults = FALSE
SPECIFICATION Spec
PROPERTY AppHashCoversExecution
