SPECIFICATION Spec
CONSTANTS
  Heartbeats <- MCHeartbeats
  Volumes <- MCVolumes
  BatteryLevels <- MCBatteryLevels
  HostCommands <- MCHostCommands
  SoftValues <- MCSoftValues
  Silence = 1
  Timeout = 2
INVARIANTS
  StandbyHidesHeartbeatError
  FlagKnowsSupplyOff
PROPERTIES
  ErrorBitsKeepTheirAuthors
  OnlyTheHostBreaksStandby
  DeadHostCutsSupply
  StandbyEnds
