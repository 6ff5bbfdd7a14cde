SPECIFICATION Spec
CONSTANTS
  Heartbeats <- MCHeartbeats
  Volumes <- MCVolumes
  BatteryLevels <- MCBatteryLevels
  HostCommands <- MCBuzzerCommands
  SoftValues <- MCSoftValues
  EnableValues <- MCEnableValues
  Silence = 0
  Timeout = 1
PROPERTIES
  BuzzerFallsSilent
  NearAlarmPrevails
