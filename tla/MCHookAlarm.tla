----------------------------- MODULE MCHookAlarm ----------------------------
(* HookAlarm with a heartbeat that alternates and the shortest timeout     *)
(* that still follows a silence; one instance drives the lamp, the other   *)
(* the buzzer.                                                             *)
EXTENDS HookAlarm

MCHeartbeats     == {0, 1}
MCVolumes        == {30}
MCBatteryLevels  == {100}
MCLampCommands   == {"CMD_LED_SWITCH"}
MCBuzzerCommands == {"CMD_BUZZER_7M", "CMD_BUZZER_3M"}
MCSoftValues     == {1}
MCEnableValues   == {1}
=============================================================================
