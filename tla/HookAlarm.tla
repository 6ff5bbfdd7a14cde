------------------------------ MODULE HookAlarm -----------------------------
(***************************************************************************)
(* The sound-light unit and the three threads that decide about it: the    *)
(* alarm thread that talks to it, the relay thread and the standby         *)
(* schedule that cut its supply.                                           *)
(***************************************************************************)
EXTENDS RelayTask, StandbyTask, AlarmTask

CONSTANTS
  HostCommands,  (* the command registers the host writes                    *)
  SoftValues,    (* what the host writes to SOFT_STANDBY_ENABLE              *)
  EnableValues   (* what the host writes to HEARTBEAT_ENABLE                 *)

ASSUME AlarmAssumption ==
  /\ HostCommands \subseteq AlarmCommands
  /\ SoftValues \subseteq {0, 1, 2}
  /\ EnableValues \subseteq {0, 1}

vars == <<bankVars, relayVars, standbyTaskVars, alarmVars>>

Init == BankInit /\ RelayInit /\ StandbyInit /\ AlarmInit

\* A unit without supply is dark; the alarm thread's memory is untouched.
LampFollowsSupply ==
  /\ lamp' = IF flash' THEN lamp ELSE 0
  /\ UNCHANGED <<apc, nowVolume, aMode, aCmd, aErr, ledFails, voice>>

Relay    == RelayPass /\ LampFollowsSupply /\ UNCHANGED standbyTaskVars
Host     == HostWrite(HostCommands, SoftValues, EnableValues)
              /\ UNCHANGED <<relayVars, standbyTaskVars, alarmVars>>
Schedule == (ScheduleMoves \/ GpsSync) /\ UNCHANGED <<relayVars, alarmVars>>

\* The schedule has a lower priority than the alarm thread.
Standby  == AlarmBlocked /\ StandbyStep /\ LampFollowsSupply /\ UNCHANGED relayVars

Alarm    == AlarmStep /\ UNCHANGED <<relayVars, standbyTaskVars>>
Voice    == VoiceEnds /\ UNCHANGED <<relayVars, standbyTaskVars>>

Next == Relay \/ Host \/ Schedule \/ Standby \/ Alarm \/ Voice

\* The alarm thread is scheduled while it can run; time passes, so a clip
\* ends and a round of buzzer and lamp falls due again and again; a powered
\* unit that is asked again and again answers again and again.  The other
\* threads owe the properties below nothing.
Fairness ==
  /\ WF_vars(Alarm)
  /\ WF_vars(Voice)
  /\ SF_vars(Alarm /\ BuzzerStarts)
  /\ SF_vars(Alarm /\ BuzzerAcked)
  /\ SF_vars(Alarm /\ LedAcked)

Spec == Init /\ [][Next]_vars /\ Fairness

-----------------------------------------------------------------------------

\* The variables stay within their types.
TypeOK == BankTypeOK /\ RelayTypeOK /\ StandbyTypeOK /\ AlarmTypeOK

\* ERR_LED_OFFLINE is never shown for less than three unanswered queries in a
\* row: the count outlives every window in which another task may clear the
\* bit, and is reset only after the bit is gone.
OfflineMeansThreeFailures == LED_OFFLINE \in reg.REG_ERROR_CODE => ledFails = 3

\* No read-modify-write of the error word loses or revives another task's bit.
ErrorBitsKeepTheirAuthors ==
  [][/\ (LED_OFFLINE \in reg.REG_ERROR_CODE) # (LED_OFFLINE \in reg'.REG_ERROR_CODE)
          => gpc = "masked" \/ apc \in {"recovering", "raising"}
     /\ (HEARTBEAT_TIMEOUT \in reg.REG_ERROR_CODE) # (HEARTBEAT_TIMEOUT \in reg'.REG_ERROR_CODE)
          => gpc = "masked" \/ (apc' = apc /\ relayVars' # relayVars)]_vars

\* Whatever the supply went through, once the controller is awake, the unit
\* powered and the host's wish settled, the status register reports the wish
\* and no offline error remains.
StatusFollowsCommand ==
  \A wish \in {0, 1} :
    <>[](~standby /\ gpc = "idle" /\ flash /\ reg.CMD_LED_SWITCH = wish)
      => <>[](reg.STATUS_LED_SWITCH = wish /\ LED_OFFLINE \notin reg.REG_ERROR_CODE)

\* A withdrawn alarm is reported off in the end, also when the host withdrew
\* it while the clip was playing.
BuzzerFallsSilent ==
  <>[](~standby /\ gpc = "idle" /\ flash /\ reg.CMD_BUZZER_7M = 0 /\ reg.CMD_BUZZER_3M = 0)
    => <>[](reg.STATUS_BUZZER = 0)

\* A near alarm that stands is what the buzzer reports in the end, also when
\* the far alarm stands with it or its clip was being played.
NearAlarmPrevails ==
  <>[](~standby /\ gpc = "idle" /\ flash /\ reg.CMD_BUZZER_3M = 1)
    => <>[](reg.STATUS_BUZZER = 2)

-----------------------------------------------------------------------------
(* A statement of the repository that the program does not keep.           *)

\* system_def.h: STATUS_LED_SWITCH reports the lamp's present state.  Not so
\* when the answer to "on" is lost and the host withdraws its command before
\* the retry: command and status agree on "off", and nobody asks again.
StatusReportsLamp ==
  <>[](~standby /\ gpc = "idle" /\ flash /\ reg.CMD_LED_SWITCH = 0)
    => <>[](lamp = reg.STATUS_LED_SWITCH)
=============================================================================
