\* Crashes at every step of Commit, no storage faults.  A restart after a
\* block changed the state stops: evm.Start fails and main exits.
CONSTANTS
  MaxBlocks = 3
  MaxFunds = 1
  MaxCrashes = 2
  StorageFaults = FALSE
SPECIFICATION Spec
INVARIANTS TypeOK RecordedRootCommitted
PROPERTY ImplementsCommittedRoots
CHECK_DEADLOCK FALSE
