------------------------------ MODULE AlarmTask -----------------------------
(***************************************************************************)
(* The led_sound_master thread, which drives the sound-light unit over its *)
(* own Modbus line: after the power-on self-test, passes that re-send the  *)
(* volume, the buzzer's mode and the lamp's state whenever the unit is     *)
(* believed to hold something else.  A query's answer ends a wait; what    *)
(* the bank held when the query was sent may have changed by then.         *)
(*                                                                         *)
(* The reads that begin led_logic (and those that begin buzzer_logic) are  *)
(* one step: the relay thread and the host, the only ones to run between   *)
(* them, write the command registers only.  The locals of a pass are back  *)
(* at their initial values when the function they belong to has returned.  *)
(***************************************************************************)
EXTENDS HookBank

VARIABLES
  apc,         (* where the thread stands in modbus_alarm_handle             *)
  nowVolume,   (* now_volume: the volume being sent                          *)
  aMode,       (* raw_target_mode of the buzzer query in flight              *)
  aCmd,        (* cmd_led_switch of the lamp query in flight                 *)
  aErr,        (* current_err & ERR_LED_OFFLINE when it was sent             *)
  ledFails,    (* led_timeout_count                                          *)
  voice,       (* buzzer_logic's state: "busy" while a clip is played        *)
  lamp         (* the unit itself: is the lamp flashing                      *)

alarmVars == <<apc, nowVolume, aMode, aCmd, aErr, ledFails, voice, lamp>>

AlarmTypeOK ==
  /\ apc \in {"post", "rest", "volumeWait", "period", "buzzerWait", "led", "ledWait",
              "recover", "recovering", "raise", "raising"}
  /\ nowVolume \in Volumes \cup {0}
  /\ aMode \in 0 .. 2
  /\ aCmd \in {0, 1}
  /\ aErr \in BOOLEAN
  /\ ledFails \in 0 .. 3
  /\ voice \in {"idle", "busy"}
  /\ lamp \in {0, 1}

AlarmInit ==
  /\ apc = "post"
  /\ nowVolume = 0
  /\ aMode = 0
  /\ aCmd = 0
  /\ aErr = FALSE
  /\ ledFails = 0
  /\ voice = "idle"
  /\ lamp = 0

\* The thread sleeps or waits for an answer, so lower priorities run.
AlarmBlocked == apc \in {"post", "rest", "volumeWait", "buzzerWait", "ledWait"}

Moves(from, to) ==
  /\ Schedulable
  /\ apc = from
  /\ apc' = to

-----------------------------------------------------------------------------
(* The self-test, and the pass with its volume query.                      *)

\* power_on_self_test ends: whatever the unit answered, lamp and buzzer are
\* taken to be off.
SelfTestEnds ==
  /\ Moves("post", "rest")
  /\ reg' = [reg EXCEPT !.STATUS_LED_SWITCH = 0, !.STATUS_BUZZER = 0]
  /\ UNCHANGED <<flash, pwd, standby, lastVolume, crit, copy,
                 nowVolume, aMode, aCmd, aErr, ledFails, voice, lamp>>

\* modbus_alarm_handle does nothing in standby.
PassBegins ==
  /\ ~standby
  /\ Moves("rest", IF reg.CMD_VOLUME # lastVolume THEN "volumeWait" ELSE "period")
  /\ nowVolume' = reg.CMD_VOLUME
  /\ UNCHANGED <<bankVars, aMode, aCmd, aErr, ledFails, voice, lamp>>

\* The unit took the volume, or the query failed.
VolumeReply ==
  /\ Moves("volumeWait", "period")
  /\ \/ flash /\ lastVolume' = nowVolume
     \/ lastVolume' = lastVolume
  /\ UNCHANGED <<reg, flash, pwd, standby, crit, copy,
                 nowVolume, aMode, aCmd, aErr, ledFails, voice, lamp>>

\* Less than 500 ms since the last round of buzzer and lamp.
NotDue ==
  /\ Moves("period", "rest")
  /\ UNCHANGED <<bankVars, nowVolume, aMode, aCmd, aErr, ledFails, voice, lamp>>

-----------------------------------------------------------------------------
(* buzzer_logic                                                            *)

\* TargetMode with the precedence of the alarms swapped.
TargetModeFarFirst ==
  CASE reg.CMD_BUZZER_7M = 1                            -> 1
    [] reg.CMD_BUZZER_7M = 0 /\ reg.CMD_BUZZER_3M = 1   -> 2
    [] OTHER                                            -> 0

\* The near alarm has precedence over the far one.
TargetMode ==
  CASE reg.CMD_BUZZER_3M = 1                            -> 2
    [] reg.CMD_BUZZER_3M = 0 /\ reg.CMD_BUZZER_7M = 1   -> 1
    [] OTHER                                            -> 0

\* BuzzerStarts that never asks the unit to stop.
BuzzerStartsNoStop ==
  /\ LET silent == voice = "busy" \/ TargetMode = 0
     IN /\ Moves("period", IF silent THEN "led" ELSE "buzzerWait")
        /\ aMode' = IF silent THEN 0 ELSE TargetMode
  /\ UNCHANGED <<bankVars, nowVolume, aCmd, aErr, ledFails, voice, lamp>>

\* Nothing to do while a clip plays, nor when nothing is wanted and nothing on.
BuzzerStarts ==
  /\ LET silent == voice = "busy" \/ (TargetMode = 0 /\ reg.STATUS_BUZZER = 0)
     IN /\ Moves("period", IF silent THEN "led" ELSE "buzzerWait")
        /\ aMode' = IF silent THEN 0 ELSE TargetMode
  /\ UNCHANGED <<bankVars, nowVolume, aCmd, aErr, ledFails, voice, lamp>>

\* A clip that is started keeps the buzzer busy; a stop does not.
BuzzerAcked ==
  /\ flash
  /\ Moves("buzzerWait", "led")
  /\ reg' = [reg EXCEPT !.STATUS_BUZZER = aMode]
  /\ voice' = IF aMode = 0 THEN "idle" ELSE "busy"
  /\ aMode' = 0
  /\ UNCHANGED <<flash, pwd, standby, lastVolume, crit, copy,
                 nowVolume, aCmd, aErr, ledFails, lamp>>

BuzzerUnanswered ==
  /\ Moves("buzzerWait", "led")
  /\ aMode' = 0
  /\ UNCHANGED <<bankVars, nowVolume, aCmd, aErr, ledFails, voice, lamp>>

\* VOICE_PLAY_TIME_MS have passed.
VoiceEnds ==
  /\ Schedulable
  /\ voice = "busy"
  /\ voice' = "idle"
  /\ UNCHANGED <<bankVars, apc, nowVolume, aMode, aCmd, aErr, ledFails, lamp>>

-----------------------------------------------------------------------------
(* led_logic                                                               *)

\* After the query: the offline error is raised at the third failure.
AfterLed(fails) == IF fails >= 3 THEN "raise" ELSE "rest"

\* A query in flight remembers the state wanted and the error seen.
AskLamp(asks, offline) ==
  /\ Moves("led", IF asks THEN "ledWait" ELSE AfterLed(ledFails))
  /\ aCmd' = IF asks THEN reg.CMD_LED_SWITCH ELSE 0
  /\ aErr' = (asks /\ offline)
  /\ UNCHANGED <<bankVars, nowVolume, aMode, ledFails, voice, lamp>>

\* LedStarts that does not ask again because of the error alone.
LedStartsOnce ==
  AskLamp(reg.CMD_LED_SWITCH # reg.STATUS_LED_SWITCH, LED_OFFLINE \in reg.REG_ERROR_CODE)

\* The lamp is told when it should change or was offline.
LedStarts ==
  LET offline == LED_OFFLINE \in reg.REG_ERROR_CODE
  IN AskLamp(reg.CMD_LED_SWITCH # reg.STATUS_LED_SWITCH \/ offline, offline)

\* The unit obeyed and said so; `fails` is what the count becomes.
LampObeys(fails) ==
  /\ flash
  /\ lamp' = aCmd
  /\ reg' = [reg EXCEPT !.STATUS_LED_SWITCH = aCmd]
  /\ ledFails' = fails
  /\ Moves("ledWait", IF aErr THEN "recover" ELSE "rest")
  /\ aCmd' = 0
  /\ aErr' = FALSE
  /\ UNCHANGED <<flash, pwd, standby, lastVolume, crit, copy, nowVolume, aMode, voice>>

\* LedAcked that forgets the failures before the error is cleared.
LedAckedEarlyReset == LampObeys(0)

\* The failures are forgotten here, or once the error is cleared.
LedAcked == LampObeys(IF aErr THEN ledFails ELSE 0)

\* LedUnanswered that counts on past the third failure.
LedUnansweredCountsOn ==
  /\ lamp' = lamp \/ (flash /\ lamp' = aCmd)
  /\ ledFails' = (ledFails + 1) % 256
  /\ Moves("ledWait", AfterLed(ledFails'))
  /\ aCmd' = 0
  /\ aErr' = FALSE
  /\ UNCHANGED <<bankVars, nowVolume, aMode, voice>>

\* The unit did not hear the query, or obeyed and its answer was lost.
LedUnanswered ==
  /\ lamp' = lamp \/ (flash /\ lamp' = aCmd)
  /\ ledFails' = IF ledFails < 3 THEN ledFails + 1 ELSE ledFails
  /\ Moves("ledWait", AfterLed(ledFails'))
  /\ aCmd' = 0
  /\ aErr' = FALSE
  /\ UNCHANGED <<bankVars, nowVolume, aMode, voice>>

AlarmReadErrors ==
  /\ \/ apc = "recover" /\ apc' = "recovering"
     \/ apc = "raise" /\ apc' = "raising"
  /\ ReadErrors("alarm")
  /\ UNCHANGED <<nowVolume, aMode, aCmd, aErr, ledFails, voice, lamp>>

AlarmClearsOffline ==
  /\ apc = "recovering"
  /\ apc' = "rest"
  /\ WriteErrors("alarm", copy["alarm"] \ {LED_OFFLINE})
  /\ ledFails' = 0
  /\ UNCHANGED <<nowVolume, aMode, aCmd, aErr, voice, lamp>>

AlarmRaisesOffline ==
  /\ apc = "raising"
  /\ apc' = "rest"
  /\ WriteErrors("alarm", copy["alarm"] \cup {LED_OFFLINE})
  /\ UNCHANGED <<nowVolume, aMode, aCmd, aErr, ledFails, voice, lamp>>

AlarmStep ==
  \/ SelfTestEnds
  \/ PassBegins
  \/ VolumeReply
  \/ NotDue
  \/ BuzzerStarts
  \/ BuzzerAcked
  \/ BuzzerUnanswered
  \/ LedStarts
  \/ LedAcked
  \/ LedUnanswered
  \/ AlarmReadErrors
  \/ AlarmClearsOffline
  \/ AlarmRaisesOffline
=============================================================================
