SPECIFICATION Spec
CONSTANTS
  Heartbeats <- MCHeartbeats
  Volumes <- MCVolumes
  BatteryLevels <- MCBatteryLevels
  HostCommands <- MCLampCommands
  SoftValues <- MCSoftValues
  EnableValues <- MCEnableValues
  Silence = 0
  Timeout = 1
PROPERTY StatusReportsLamp
