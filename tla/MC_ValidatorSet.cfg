CONSTANTS
  a1 = a1
  a2 = a2
  a3 = a3
  Addr <- MCAddr
  Genesis <- MCGenesis
  Unit = 2
  MaxPower = 3
  MinStake = 4
  MaxValidators = 2
  Amounts = {1, 4, 5}
  SlashPercents = {10, 50}
  JailDurations = {1, 2}
  MissThreshold = 2
  MaxStake = 9
  MaxTime = 3

SPECIFICATION Spec

INVARIANTS
  TypeOK
  MemberStakeFloor
  SetWithinCapacity
  PowerMatchesStake

