----------------------------- MODULE MCHookPower ----------------------------
(* HookPower with a heartbeat that alternates, the lamp's command and a    *)
(* short timeout.                                                          *)
EXTENDS HookPower

MCHeartbeats    == {0, 1}
MCVolumes       == {30}
MCBatteryLevels == {100}
MCHostCommands  == {"CMD_LED_SWITCH"}
MCSoftValues    == {0, 1, 2}
=============================================================================
