\* StateDB.Commit failing inside ABCI Commit.
CONSTANTS
  MaxBlocks = 2
  MaxFunds = 0
  MaxCrashes = 1
  StorageFaults = TRUE
SPECIFICATION Spec
INVARIANT RecordedRootCommitted
