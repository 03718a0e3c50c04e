CONSTANTS
  a1 = a1
  a2 = a2
  a3 = a3
  s1 = s1
  Addr <- MCAddr
  Genesis <- MCGenesis
  Senders <- MCSenders
  Unit = 2
  MaxPower = 3
  MinStake = 4
  MaxValidators = 2
  Amounts = {5}
  SlashPercents = {50}
  JailDurations = {1}
  MissThreshold = 2
  MaxStake = 6
  MaxTime = 1
  MaxNonce = 1
  Forms = {"Wellformed", "Invalid"}
  MaxBlockTxs = 2
  RotationPeriod = 2
  MaxHeight = 3

SPECIFICATION Spec

INVARIANT NonceMatchesBlocks
