--------------------------- MODULE HookAlarmProofs --------------------------
(***************************************************************************)
(* The safety properties of HookAlarm for every value of its constants.    *)
(* IInv relates the alarm thread's count of unanswered queries and what it *)
(* remembers of the error word to the word itself, which the relay thread  *)
(* and the standby schedule write too.                                     *)
(***************************************************************************)
EXTENDS HookAlarm, TLAPS

USE BankAssumption, RelayAssumption, AlarmAssumption

\* The task inside the critical section is the one whose step says so.
CritHolder ==
  /\ crit = "gps" <=> gpc = "masked"
  /\ crit = "alarm" <=> apc \in {"recovering", "raising"}

\* What a task read inside the critical section is still the error word.
CopiesAreFresh ==
  /\ gpc = "masked" => copy["gps"] = reg.REG_ERROR_CODE
  /\ apc \in {"recovering", "raising"} => copy["alarm"] = reg.REG_ERROR_CODE

\* The error stands, or is about to be raised, only with three failures; and
\* a query that was sent over a word without the error is answered over one.
FailuresCounted ==
  /\ LED_OFFLINE \in reg.REG_ERROR_CODE => ledFails = 3
  /\ apc \in {"raise", "raising"} => ledFails = 3
  /\ apc = "ledWait" /\ ~aErr => LED_OFFLINE \notin reg.REG_ERROR_CODE

IInv ==
  /\ TypeOK
  /\ CritHolder
  /\ CopiesAreFresh
  /\ FailuresCounted

-----------------------------------------------------------------------------
(* The bank.                                                               *)

\* Replacing the error word by a set of errors keeps the bank well-typed.
LEMMA WithErrorsType ==
  ASSUME NEW r \in Banks, NEW errs \in SUBSET Errors
  PROVE  WithErrors(r, errs) \in Banks /\ WithErrors(r, errs).REG_ERROR_CODE = errs
  BY DEF Banks, WithErrors

\* Withdrawing the alarm commands keeps the bank well-typed and its error word.
LEMMA SilencedType ==
  ASSUME NEW r \in Banks
  PROVE  Silenced(r) \in Banks /\ Silenced(r).REG_ERROR_CODE = r.REG_ERROR_CODE
  BY DEF Banks, Silenced

\* So does a new status of lamp or buzzer.
LEMMA StatusType ==
  ASSUME NEW r \in Banks, NEW led \in {0, 1}, NEW buzzer \in 0 .. 2
  PROVE  /\ [r EXCEPT !.STATUS_LED_SWITCH = led] \in Banks
         /\ [r EXCEPT !.STATUS_LED_SWITCH = led].REG_ERROR_CODE = r.REG_ERROR_CODE
         /\ [r EXCEPT !.STATUS_BUZZER = buzzer] \in Banks
         /\ [r EXCEPT !.STATUS_BUZZER = buzzer].REG_ERROR_CODE = r.REG_ERROR_CODE
         /\ [r EXCEPT !.STATUS_LED_SWITCH = led, !.STATUS_BUZZER = buzzer] \in Banks
         /\ [r EXCEPT !.STATUS_LED_SWITCH = led, !.STATUS_BUZZER = buzzer].REG_ERROR_CODE
              = r.REG_ERROR_CODE
<1>1. led \in {0, 1} /\ buzzer \in {0, 1, 2}
  OBVIOUS
<1> QED  BY <1>1 DEF Banks

\* The parts of a bank that the tasks copy.
LEMMA PartsOfBank ==
  ASSUME NEW r \in Banks
  PROVE  /\ r.REG_ERROR_CODE \in SUBSET Errors
         /\ r.STATUS_HEART_BEAT \in Heartbeats
         /\ r.CMD_LED_SWITCH \in {0, 1}
         /\ r.CMD_VOLUME \in Volumes
  BY DEF Banks

\* Reading the error word into a task's copy, inside taskENTER_CRITICAL.
LEMMA ReadErrorsType ==
  ASSUME BankTypeOK, NEW t \in Tasks, ReadErrors(t)
  PROVE  /\ BankTypeOK' /\ reg' = reg
         /\ crit = "none" /\ crit' = t
         /\ copy' = [copy EXCEPT ![t] = reg.REG_ERROR_CODE]
         /\ copy'[t] = reg.REG_ERROR_CODE
  BY PartsOfBank DEF BankTypeOK, ReadErrors, Schedulable

\* Writing the error word back.
LEMMA WriteErrorsType ==
  ASSUME BankTypeOK, NEW t \in Tasks, NEW errs \in SUBSET Errors, WriteErrors(t, errs)
  PROVE  BankTypeOK' /\ reg'.REG_ERROR_CODE = errs /\ crit' = "none"
<1>1. reg' \in Banks /\ reg'.REG_ERROR_CODE = errs
  BY WithErrorsType DEF BankTypeOK, WriteErrors
<1> QED  BY <1>1 DEF BankTypeOK, WriteErrors

\* A host write keeps the bank well-typed and its error word.
LEMMA HostWriteType ==
  ASSUME BankTypeOK, HostWrite(HostCommands, SoftValues, EnableValues)
  PROVE  BankTypeOK' /\ reg'.REG_ERROR_CODE = reg.REG_ERROR_CODE
<1>1. reg \in Banks
  BY DEF BankTypeOK
<1>2. reg' \in Banks /\ reg'.REG_ERROR_CODE = reg.REG_ERROR_CODE
  <2>1. CASE \E v \in Heartbeats : reg' = [reg EXCEPT !.STATUS_HEART_BEAT = v]
    BY <1>1, <2>1 DEF Banks
  <2>2. CASE \E v \in EnableValues : reg' = [reg EXCEPT !.HEARTBEAT_ENABLE = v]
    BY <1>1, <2>2 DEF Banks
  <2>3. CASE \E v \in SoftValues : reg' = [reg EXCEPT !.SOFT_STANDBY_ENABLE = v]
    BY <1>1, <2>3 DEF Banks
  <2>4. CASE \E c \in HostCommands, v \in {0, 1} : reg' = [reg EXCEPT ![c] = v]
    <3>1. PICK c \in HostCommands, v \in {0, 1} : reg' = [reg EXCEPT ![c] = v]
      BY <2>4
    <3>2. CASE c = "CMD_LED_SWITCH"
      BY <1>1, <3>1, <3>2 DEF Banks
    <3>3. CASE c = "CMD_BUZZER_7M"
      BY <1>1, <3>1, <3>3 DEF Banks
    <3>4. CASE c = "CMD_BUZZER_3M"
      BY <1>1, <3>1, <3>4 DEF Banks
    <3> QED  BY <3>2, <3>3, <3>4 DEF AlarmCommands
  <2>5. CASE \E v \in Volumes : reg' = [reg EXCEPT !.CMD_VOLUME = v]
    BY <1>1, <2>5 DEF Banks
  <2> QED  BY <2>1, <2>2, <2>3, <2>4, <2>5 DEF HostWrite
<1> QED  BY <1>2 DEF HostWrite, BankTypeOK

\* A pass of the relay thread keeps its types, and of the error word every bit
\* but its own, which it changes only with its own variables.
LEMMA RelayPassType ==
  ASSUME BankTypeOK, RelayTypeOK, RelayPass
  PROVE  /\ BankTypeOK' /\ RelayTypeOK'
         /\ \/ reg'.REG_ERROR_CODE = reg.REG_ERROR_CODE
            \/ /\ reg'.REG_ERROR_CODE = reg.REG_ERROR_CODE \ {HEARTBEAT_TIMEOUT}
               /\ lastHb' # lastHb
            \/ /\ reg'.REG_ERROR_CODE = reg.REG_ERROR_CODE \cup {HEARTBEAT_TIMEOUT}
               /\ relayOn /\ ~relayOn'
<1>1. reg \in Banks /\ reg.REG_ERROR_CODE \in SUBSET Errors /\ relayOn \in BOOLEAN
  BY PartsOfBank DEF BankTypeOK, RelayTypeOK
<1> USE DEF RelayPass, Refresh
<1>2. CASE MonitoringOff \/ StandbyPass
  <2>1. reg' = reg /\ lastHb' \in Heartbeats /\ hbAge' = 0 /\ relayOn' \in BOOLEAN
    BY <1>1, <1>2, PartsOfBank DEF MonitoringOff, StandbyPass
  <2>2. BankTypeOK'
    BY <1>2 DEF BankTypeOK, MonitoringOff, StandbyPass
  <2>3. RelayTypeOK'
    BY <2>1 DEF RelayTypeOK
  <2> QED  BY <2>1, <2>2, <2>3
<1>3. CASE HeartbeatSeen
  <2>1. [reg EXCEPT !.STATUS_LED_SWITCH = 0] \in Banks
    BY <1>1 DEF Banks
  <2>2. reg' \in Banks /\ reg'.REG_ERROR_CODE = reg.REG_ERROR_CODE \ {HEARTBEAT_TIMEOUT}
    BY <1>1, <1>3, <2>1, WithErrorsType DEF HeartbeatSeen, SupplyOn
  <2>3. BankTypeOK'
    BY <1>3, <2>2 DEF BankTypeOK, HeartbeatSeen, SupplyOn
  <2>4. lastHb' \in Heartbeats /\ lastHb' # lastHb /\ hbAge' = 0 /\ relayOn' = TRUE
    BY <1>1, <1>3, PartsOfBank DEF HeartbeatSeen, SupplyOn
  <2>5. RelayTypeOK'
    BY <2>4 DEF RelayTypeOK
  <2> QED  BY <2>2, <2>3, <2>4, <2>5
<1>4. CASE HeartbeatMissing
  <2>1. Elapsed \in 0 .. Timeout + 1
    BY DEF Elapsed, RelayTypeOK
  <2>2. RelayTypeOK'
    BY <1>4, <2>1 DEF RelayTypeOK, HeartbeatMissing, TimerRuns
  <2>3. reg.REG_ERROR_CODE \cup {HEARTBEAT_TIMEOUT} \in SUBSET Errors
    BY <1>1 DEF Errors
  <2>4. /\ reg' \in Banks
        /\ \/ reg'.REG_ERROR_CODE = reg.REG_ERROR_CODE
           \/ /\ reg'.REG_ERROR_CODE = reg.REG_ERROR_CODE \cup {HEARTBEAT_TIMEOUT}
              /\ relayOn /\ ~relayOn'
    BY <1>1, <1>4, <2>3, SilencedType, WithErrorsType DEF HeartbeatMissing, TimerRuns
  <2>5. BankTypeOK'
    BY <1>4, <2>4 DEF BankTypeOK, HeartbeatMissing, TimerRuns
  <2> QED  BY <2>2, <2>4, <2>5
<1> QED  BY <1>2, <1>3, <1>4

-----------------------------------------------------------------------------
(* The steps.                                                              *)

\* The initial states satisfy the inductive invariant.
LEMMA InitIInv == Init => IInv
<1> SUFFICES ASSUME Init PROVE IInv
  OBVIOUS
<1>1. reg \in Banks /\ reg.REG_ERROR_CODE = {}
  BY DEF Init, BankInit, Banks, Errors
<1>2. copy \in [Tasks -> SUBSET Errors]
  BY DEF Init, BankInit
<1>3. BankTypeOK
  BY <1>1, <1>2 DEF Init, BankInit, BankTypeOK
<1>4. RelayTypeOK
  BY <1>1 DEF Init, RelayInit, RelayTypeOK, Banks
<1>5. StandbyTypeOK /\ AlarmTypeOK
  <2>1. StandbyTypeOK
    BY DEF Init, StandbyInit, StandbyTypeOK
  <2>2. /\ apc = "post" /\ nowVolume = 0 /\ aMode = 0 /\ aCmd = 0 /\ ledFails = 0
        /\ voice = "idle" /\ lamp = 0
    BY DEF Init, AlarmInit
  <2>3. aErr \in BOOLEAN
    BY DEF Init, AlarmInit
  <2>4. AlarmTypeOK
    BY <2>2, <2>3 DEF AlarmTypeOK
  <2> QED  BY <2>1, <2>4
<1> QED
  BY <1>1, <1>3, <1>4, <1>5 DEF IInv, TypeOK, CritHolder, CopiesAreFresh, FailuresCounted,
     Init, BankInit, StandbyInit, AlarmInit

\* A unit without supply is dark; the rest of what the alarm thread has stays.
LEMMA SupplyKeepsAlarm ==
  ASSUME AlarmTypeOK, LampFollowsSupply
  PROVE  AlarmTypeOK' /\ UNCHANGED <<apc, aErr, ledFails>>
  BY DEF AlarmTypeOK, LampFollowsSupply

\* The relay thread runs only when nobody holds the error word, and never
\* raises LED_OFFLINE.
LEMMA RelayKeeps == IInv /\ Relay => IInv'
<1> SUFFICES ASSUME IInv, Relay PROVE IInv'
  OBVIOUS
<1>1. /\ BankTypeOK' /\ RelayTypeOK'
      /\ LED_OFFLINE \in reg'.REG_ERROR_CODE => LED_OFFLINE \in reg.REG_ERROR_CODE
  BY RelayPassType DEF IInv, TypeOK, Relay, LED_OFFLINE, HEARTBEAT_TIMEOUT
<1>2. UNCHANGED <<crit, copy, gpc, synced, inWindow>> /\ crit = "none"
  BY DEF Relay, RelayPass, standbyTaskVars, Schedulable
<1>3. AlarmTypeOK' /\ UNCHANGED <<apc, aErr, ledFails>>
  BY SupplyKeepsAlarm DEF Relay, IInv, TypeOK
<1>4. StandbyTypeOK'
  BY <1>2 DEF StandbyTypeOK, IInv, TypeOK
<1>5. gpc # "masked" /\ apc \notin {"recovering", "raising"}
  BY <1>2 DEF IInv, CritHolder
<1> QED
  BY <1>1, <1>2, <1>3, <1>4, <1>5 DEF IInv, TypeOK, CritHolder, CopiesAreFresh, FailuresCounted

\* The host has no access to the error word.
LEMMA HostKeeps == IInv /\ Host => IInv'
<1> SUFFICES ASSUME IInv, Host PROVE IInv'
  OBVIOUS
<1>1. BankTypeOK' /\ reg'.REG_ERROR_CODE = reg.REG_ERROR_CODE
  BY HostWriteType DEF IInv, TypeOK, Host
<1>2. UNCHANGED <<crit, copy>> /\ UNCHANGED <<relayVars, standbyTaskVars, alarmVars>>
  BY DEF Host, HostWrite
<1>3. RelayTypeOK' /\ StandbyTypeOK' /\ AlarmTypeOK'
  BY <1>2 DEF IInv, TypeOK, RelayTypeOK, StandbyTypeOK, AlarmTypeOK, relayVars,
     standbyTaskVars, alarmVars
<1> QED
  BY <1>1, <1>2, <1>3 DEF IInv, TypeOK, CritHolder, CopiesAreFresh, FailuresCounted,
     standbyTaskVars, alarmVars

\* Time and the satellites change nothing the invariant speaks of.
LEMMA ScheduleKeeps == IInv /\ Schedule => IInv'
<1> SUFFICES ASSUME IInv, Schedule PROVE IInv'
  OBVIOUS
<1>1. UNCHANGED <<bankVars, relayVars, alarmVars, gpc>>
  BY DEF Schedule, ScheduleMoves, GpsSync
<1>2. StandbyTypeOK'
  BY DEF Schedule, ScheduleMoves, GpsSync, IInv, TypeOK, StandbyTypeOK
<1>3. BankTypeOK' /\ RelayTypeOK' /\ AlarmTypeOK'
  BY <1>1 DEF IInv, TypeOK, BankTypeOK, RelayTypeOK, AlarmTypeOK, bankVars, relayVars, alarmVars
<1> QED
  BY <1>1, <1>2, <1>3 DEF IInv, TypeOK, CritHolder, CopiesAreFresh, FailuresCounted,
     bankVars, alarmVars

\* The entry into standby may clear the offline error under the alarm thread:
\* the count stays.
LEMMA StandbyKeeps == IInv /\ Standby => IInv'
<1> SUFFICES ASSUME IInv, Standby PROVE IInv'
  OBVIOUS
<1>1. AlarmTypeOK' /\ UNCHANGED <<apc, aErr, ledFails>>
  BY SupplyKeepsAlarm DEF Standby, IInv, TypeOK
<1>2. RelayTypeOK'
  BY DEF Standby, IInv, TypeOK, RelayTypeOK, relayVars
<1>3. apc \notin {"recovering", "raising"}
  BY DEF Standby, AlarmBlocked
<1>4. BankTypeOK /\ reg \in Banks /\ copy \in [Tasks -> SUBSET Errors] /\ StandbyTypeOK
  BY DEF IInv, TypeOK, BankTypeOK
<1>5. ASSUME StandbyTypeOK', BankTypeOK', CritHolder',
             gpc' = "masked" => copy'["gps"] = reg'.REG_ERROR_CODE,
             LED_OFFLINE \in reg'.REG_ERROR_CODE => LED_OFFLINE \in reg.REG_ERROR_CODE
      PROVE  IInv'
  BY <1>1, <1>2, <1>3, <1>5 DEF IInv, TypeOK, CopiesAreFresh, FailuresCounted
<1> USE DEF Goto
<1>6. CASE ScheduleCheck
  <2>1. StandbyTypeOK' /\ UNCHANGED bankVars /\ gpc # "masked" /\ gpc' # "masked"
    BY <1>4, <1>6 DEF ScheduleCheck, Decision, StandbyTypeOK
  <2> QED
    BY <1>1, <1>4, <1>5, <2>1 DEF BankTypeOK, bankVars, IInv, CritHolder
<1>7. CASE EnterStandby \/ CutSupply \/ ExitStandby \/ RestoreSupply
  <2>1. /\ StandbyTypeOK' /\ BankTypeOK' /\ UNCHANGED <<reg, crit, copy>>
        /\ gpc # "masked" /\ gpc' # "masked"
    BY <1>4, <1>7 DEF EnterStandby, CutSupply, ExitStandby, RestoreSupply, StandbyTypeOK,
       BankTypeOK
  <2> QED
    BY <1>1, <1>5, <2>1 DEF IInv, CritHolder
<1>8. CASE ClearCommands \/ ClearStatuses
  <2>1. reg' \in Banks /\ reg'.REG_ERROR_CODE = reg.REG_ERROR_CODE
    BY <1>4, <1>8, SilencedType DEF ClearCommands, ClearStatuses, Banks
  <2>2. /\ StandbyTypeOK' /\ BankTypeOK' /\ UNCHANGED <<crit, copy>>
        /\ gpc # "masked" /\ gpc' # "masked"
    BY <1>4, <1>8, <2>1 DEF ClearCommands, ClearStatuses, StandbyTypeOK, BankTypeOK
  <2> QED
    BY <1>1, <1>5, <2>1, <2>2 DEF IInv, CritHolder
<1>9. CASE StandbyReadErrors
  <2>1. BankTypeOK' /\ reg' = reg /\ crit' = "gps" /\ copy'["gps"] = reg'.REG_ERROR_CODE
    BY <1>4, <1>9, ReadErrorsType DEF StandbyReadErrors, Tasks
  <2>2. StandbyTypeOK' /\ gpc' = "masked"
    BY <1>4, <1>9 DEF StandbyReadErrors, StandbyTypeOK
  <2> QED
    BY <1>1, <1>3, <1>5, <2>1, <2>2 DEF CritHolder
<1>10. CASE StandbyClearErrors
  <2>1. copy["gps"] = reg.REG_ERROR_CODE /\ copy["gps"] \in SUBSET Errors
    BY <1>4, <1>10 DEF StandbyClearErrors, IInv, CopiesAreFresh, Tasks
  <2>2. /\ BankTypeOK' /\ crit' = "none"
        /\ reg'.REG_ERROR_CODE = copy["gps"] \ {HEARTBEAT_TIMEOUT, LED_OFFLINE}
    BY <1>4, <1>10, <2>1, WriteErrorsType DEF StandbyClearErrors, Tasks
  <2>3. StandbyTypeOK' /\ gpc' = "idle"
    BY <1>4, <1>10 DEF StandbyClearErrors, StandbyTypeOK
  <2> QED
    BY <1>1, <1>3, <1>5, <2>1, <2>2, <2>3 DEF CritHolder
<1> QED
  BY <1>6, <1>7, <1>8, <1>9, <1>10 DEF Standby, StandbyStep

\* What the alarm thread's steps leave alone.
LEMMA AlarmLeaves ==
  ASSUME IInv, Alarm, BankTypeOK', AlarmTypeOK', CritHolder', CopiesAreFresh', FailuresCounted'
  PROVE  IInv'
<1>1. RelayTypeOK' /\ StandbyTypeOK'
  BY DEF Alarm, IInv, TypeOK, RelayTypeOK, StandbyTypeOK, relayVars, standbyTaskVars
<1> QED  BY <1>1 DEF IInv, TypeOK

\* The alarm thread, inside the critical section or outside: the error is
\* raised at three failures, and the failures are forgotten over a word
\* without the error only.
LEMMA AlarmKeeps == IInv /\ Alarm => IInv'
<1> SUFFICES ASSUME IInv, Alarm PROVE IInv'
  OBVIOUS
<1>1. BankTypeOK /\ reg \in Banks /\ copy \in [Tasks -> SUBSET Errors] /\ AlarmTypeOK
  BY DEF IInv, TypeOK, BankTypeOK
<1>2. gpc' = gpc
  BY DEF Alarm, standbyTaskVars
<1> USE DEF Moves, Schedulable
<1>3. CASE SelfTestEnds
  <2>1. reg' \in Banks /\ reg'.REG_ERROR_CODE = reg.REG_ERROR_CODE
    BY <1>1, <1>3 DEF SelfTestEnds, Banks
  <2>2. /\ BankTypeOK' /\ AlarmTypeOK' /\ crit = "none"
        /\ UNCHANGED <<crit, copy, aErr, ledFails>> /\ apc = "post" /\ apc' = "rest"
    BY <1>1, <1>3, <2>1 DEF SelfTestEnds, BankTypeOK, AlarmTypeOK
  <2> QED
    BY <1>2, <2>1, <2>2, AlarmLeaves DEF IInv, CritHolder, CopiesAreFresh, FailuresCounted
<1>4. CASE PassBegins \/ NotDue \/ BuzzerStarts \/ BuzzerUnanswered
  <2>1. TargetMode \in 0 .. 2
    BY DEF TargetMode
  <2>2. /\ AlarmTypeOK' /\ UNCHANGED <<bankVars, aErr, ledFails>> /\ crit = "none"
        /\ apc' \in {"rest", "volumeWait", "period", "buzzerWait", "led"}
    BY <1>1, <1>4, <2>1, PartsOfBank
       DEF PassBegins, NotDue, BuzzerStarts, BuzzerUnanswered, AlarmTypeOK
  <2>3. BankTypeOK'
    BY <1>1, <2>2 DEF BankTypeOK, bankVars
  <2> QED
    BY <1>2, <2>2, <2>3, AlarmLeaves
       DEF IInv, CritHolder, CopiesAreFresh, FailuresCounted, bankVars
<1>5. CASE VolumeReply
  <2>1. /\ AlarmTypeOK' /\ UNCHANGED <<reg, crit, copy, aErr, ledFails>> /\ crit = "none"
        /\ apc' = "period"
    BY <1>1, <1>5 DEF VolumeReply, AlarmTypeOK
  <2>2. BankTypeOK'
    BY <1>1, <1>5 DEF VolumeReply, BankTypeOK, AlarmTypeOK
  <2> QED
    BY <1>2, <2>1, <2>2, AlarmLeaves DEF IInv, CritHolder, CopiesAreFresh, FailuresCounted
<1>6. CASE BuzzerAcked
  <2>1. aMode \in {0, 1, 2}
    BY <1>1 DEF AlarmTypeOK
  <2>2. reg' \in Banks /\ reg'.REG_ERROR_CODE = reg.REG_ERROR_CODE
    BY <1>1, <1>6, <2>1 DEF BuzzerAcked, Banks
  <2>3. /\ BankTypeOK' /\ AlarmTypeOK' /\ crit = "none"
        /\ UNCHANGED <<crit, copy, aErr, ledFails>> /\ apc' = "led"
    BY <1>1, <1>6, <2>2 DEF BuzzerAcked, BankTypeOK, AlarmTypeOK
  <2> QED
    BY <1>2, <2>2, <2>3, AlarmLeaves DEF IInv, CritHolder, CopiesAreFresh, FailuresCounted
<1>7. CASE LedStarts
  <2>1. PICK asks \in BOOLEAN :
          /\ apc = "led" /\ apc' = IF asks THEN "ledWait" ELSE AfterLed(ledFails)
          /\ aErr' = (asks /\ LED_OFFLINE \in reg.REG_ERROR_CODE)
          /\ aCmd' = IF asks THEN reg.CMD_LED_SWITCH ELSE 0
          /\ crit = "none"
          /\ UNCHANGED <<bankVars, nowVolume, aMode, ledFails, voice, lamp>>
    BY <1>7 DEF LedStarts, AskLamp
  <2>2. AlarmTypeOK'
    BY <1>1, <2>1, PartsOfBank DEF AlarmTypeOK, AfterLed
  <2>3. BankTypeOK'
    BY <1>1, <2>1 DEF BankTypeOK, bankVars
  <2>4. FailuresCounted'
    <3>1. ledFails \in 0 .. 3
      BY <1>1 DEF AlarmTypeOK
    <3> QED  BY <2>1, <3>1 DEF IInv, FailuresCounted, AfterLed, bankVars
  <2>5. CritHolder' /\ CopiesAreFresh'
    BY <1>2, <2>1 DEF IInv, CritHolder, CopiesAreFresh, AfterLed, bankVars
  <2> QED  BY <2>2, <2>3, <2>4, <2>5, AlarmLeaves
<1>8. CASE LedAcked
  <2>1. /\ apc = "ledWait" /\ apc' = IF aErr THEN "recover" ELSE "rest"
        /\ ledFails' = IF aErr THEN ledFails ELSE 0
        /\ reg' = [reg EXCEPT !.STATUS_LED_SWITCH = aCmd]
        /\ lamp' = aCmd /\ aCmd' = 0 /\ aErr' = FALSE /\ crit = "none"
        /\ UNCHANGED <<flash, pwd, standby, lastVolume, crit, copy, nowVolume, aMode, voice>>
    BY <1>8 DEF LedAcked, LampObeys
  <2>2. reg' \in Banks /\ reg'.REG_ERROR_CODE = reg.REG_ERROR_CODE
    BY <1>1, <2>1 DEF AlarmTypeOK, Banks
  <2>3. BankTypeOK'
    BY <1>1, <2>1, <2>2 DEF BankTypeOK
  <2>4. /\ aCmd \in {0, 1} /\ ledFails' \in 0 .. 3 /\ aCmd' \in {0, 1}
        /\ lamp' \in {0, 1} /\ apc' \in {"recover", "rest"}
    BY <1>1, <2>1 DEF AlarmTypeOK
  <2>5. AlarmTypeOK'
    BY <1>1, <2>1, <2>4 DEF AlarmTypeOK
  <2> QED
    BY <1>2, <2>1, <2>2, <2>3, <2>5, AlarmLeaves DEF IInv, CritHolder, CopiesAreFresh, FailuresCounted
<1>9. CASE LedUnanswered
  <2>1. /\ apc = "ledWait" /\ apc' = AfterLed(ledFails') /\ crit = "none"
        /\ ledFails' = IF ledFails < 3 THEN ledFails + 1 ELSE ledFails
        /\ lamp' \in {lamp, aCmd} /\ aCmd' = 0 /\ aErr' = FALSE
        /\ UNCHANGED <<bankVars, nowVolume, aMode, voice>>
    BY <1>9 DEF LedUnanswered
  <2>2. ledFails \in 0 .. 3 /\ ledFails' \in 0 .. 3 /\ (ledFails = 3 => ledFails' = 3)
    BY <1>1, <2>1 DEF AlarmTypeOK
  <2>3. AlarmTypeOK'
    BY <1>1, <2>1, <2>2 DEF AlarmTypeOK, AfterLed
  <2>4. BankTypeOK'
    BY <1>1, <2>1 DEF BankTypeOK, bankVars
  <2>5. FailuresCounted'
    BY <2>1, <2>2 DEF IInv, FailuresCounted, AfterLed, bankVars
  <2>6. CritHolder' /\ CopiesAreFresh'
    BY <1>2, <2>1 DEF IInv, CritHolder, CopiesAreFresh, AfterLed, bankVars
  <2> QED  BY <2>3, <2>4, <2>5, <2>6, AlarmLeaves
<1>10. CASE AlarmReadErrors
  <2>1. /\ BankTypeOK' /\ reg' = reg /\ crit = "none" /\ crit' = "alarm"
        /\ copy'["alarm"] = reg'.REG_ERROR_CODE
    BY <1>1, <1>10, ReadErrorsType DEF AlarmReadErrors, Tasks
  <2>2. /\ \/ apc = "recover" /\ apc' = "recovering"
           \/ apc = "raise" /\ apc' = "raising"
        /\ UNCHANGED <<aErr, ledFails>> /\ AlarmTypeOK'
    BY <1>1, <1>10 DEF AlarmReadErrors, AlarmTypeOK
  <2>3. gpc # "masked"
    BY <2>1 DEF IInv, CritHolder
  <2> QED
    BY <1>2, <2>1, <2>2, <2>3, AlarmLeaves DEF IInv, CritHolder, CopiesAreFresh, FailuresCounted
<1>11. CASE AlarmClearsOffline
  <2>1. /\ apc = "recovering" /\ apc' = "rest" /\ ledFails' = 0
        /\ WriteErrors("alarm", copy["alarm"] \ {LED_OFFLINE})
        /\ UNCHANGED <<nowVolume, aMode, aCmd, aErr, voice, lamp>>
    BY <1>11 DEF AlarmClearsOffline
  <2>2. copy["alarm"] \ {LED_OFFLINE} \in SUBSET Errors
    BY <1>1 DEF Tasks
  <2>3. BankTypeOK' /\ LED_OFFLINE \notin reg'.REG_ERROR_CODE /\ crit' = "none"
    BY <1>1, <2>1, <2>2, WriteErrorsType DEF Tasks
  <2>4. AlarmTypeOK'
    BY <1>1, <2>1 DEF AlarmTypeOK
  <2>5. gpc # "masked"
    BY <2>1 DEF IInv, CritHolder
  <2> QED
    BY <1>2, <2>1, <2>3, <2>4, <2>5, AlarmLeaves DEF CritHolder, CopiesAreFresh, FailuresCounted
<1>12. CASE AlarmRaisesOffline
  <2>1. /\ apc = "raising" /\ apc' = "rest"
        /\ WriteErrors("alarm", copy["alarm"] \cup {LED_OFFLINE})
        /\ UNCHANGED <<nowVolume, aMode, aCmd, aErr, ledFails, voice, lamp>>
    BY <1>12 DEF AlarmRaisesOffline
  <2>2. copy["alarm"] \cup {LED_OFFLINE} \in SUBSET Errors
    BY <1>1 DEF Tasks, Errors
  <2>3. BankTypeOK' /\ crit' = "none"
    BY <1>1, <2>1, <2>2, WriteErrorsType DEF Tasks
  <2>4. AlarmTypeOK'
    BY <1>1, <2>1 DEF AlarmTypeOK
  <2>5. gpc # "masked" /\ ledFails' = 3
    BY <2>1 DEF IInv, CritHolder, FailuresCounted
  <2> QED
    BY <1>2, <2>1, <2>3, <2>4, <2>5, AlarmLeaves DEF CritHolder, CopiesAreFresh, FailuresCounted
<1> QED
  BY <1>3, <1>4, <1>5, <1>6, <1>7, <1>8, <1>9, <1>10, <1>11, <1>12 DEF Alarm, AlarmStep

\* The end of a clip, and a stuttering step, change nothing of the invariant.
LEMMA VoiceKeeps == IInv /\ Voice => IInv'
<1> SUFFICES ASSUME IInv, Voice PROVE IInv'
  OBVIOUS
<1>1. UNCHANGED <<bankVars, relayVars, standbyTaskVars, apc, aErr, ledFails>>
  BY DEF Voice, VoiceEnds
<1>2. AlarmTypeOK'
  BY DEF Voice, VoiceEnds, IInv, TypeOK, AlarmTypeOK
<1>3. BankTypeOK' /\ RelayTypeOK' /\ StandbyTypeOK'
  BY <1>1 DEF IInv, TypeOK, BankTypeOK, RelayTypeOK, StandbyTypeOK, bankVars, relayVars,
     standbyTaskVars
<1> QED
  BY <1>1, <1>2, <1>3 DEF IInv, TypeOK, CritHolder, CopiesAreFresh, FailuresCounted,
     bankVars, standbyTaskVars

\* Nothing happens.
LEMMA StutterKeeps == IInv /\ UNCHANGED vars => IInv'
<1> SUFFICES ASSUME IInv, UNCHANGED vars PROVE IInv'
  OBVIOUS
<1>1. UNCHANGED <<bankVars, relayVars, standbyTaskVars, alarmVars>>
  BY DEF vars
<1>2. BankTypeOK' /\ RelayTypeOK' /\ StandbyTypeOK' /\ AlarmTypeOK'
  BY <1>1 DEF IInv, TypeOK, BankTypeOK, RelayTypeOK, StandbyTypeOK, AlarmTypeOK, bankVars,
     relayVars, standbyTaskVars, alarmVars
<1> QED
  BY <1>1, <1>2 DEF IInv, TypeOK, CritHolder, CopiesAreFresh, FailuresCounted,
     bankVars, standbyTaskVars, alarmVars

-----------------------------------------------------------------------------
(* The theorems.                                                           *)

\* The inductive invariant holds in every reachable state.
THEOREM InvariantHolds == Spec => []IInv
<1>1. IInv /\ [Next]_vars => IInv'
  BY RelayKeeps, HostKeeps, ScheduleKeeps, StandbyKeeps, AlarmKeeps, VoiceKeeps, StutterKeeps
     DEF Next
<1> QED  BY <1>1, InitIInv, PTL DEF Spec

\* The variables of the alarm thread and of those that share the bank with it
\* stay within their types, for any host, volumes, silence and timeout.
THEOREM TypeCorrect == Spec => []TypeOK
<1>1. IInv => TypeOK
  BY DEF IInv
<1> QED  BY <1>1, InvariantHolds, PTL

\* ERR_LED_OFFLINE is never shown for less than three unanswered queries,
\* whatever the schedule and the relay thread write between them
\* (app_alarm.c: led_logic).
THEOREM OfflineIsEarned == Spec => []OfflineMeansThreeFailures
<1>1. IInv => OfflineMeansThreeFailures
  BY DEF IInv, FailuresCounted, OfflineMeansThreeFailures
<1> QED  BY <1>1, InvariantHolds, PTL

-----------------------------------------------------------------------------
(* Who writes the error word.                                              *)

\* What a step may do to the error word: each bit has its authors.
OnlyAuthorsWrite ==
  /\ (LED_OFFLINE \in reg.REG_ERROR_CODE) # (LED_OFFLINE \in reg'.REG_ERROR_CODE)
       => gpc = "masked" \/ apc \in {"recovering", "raising"}
  /\ (HEARTBEAT_TIMEOUT \in reg.REG_ERROR_CODE) # (HEARTBEAT_TIMEOUT \in reg'.REG_ERROR_CODE)
       => gpc = "masked" \/ (apc' = apc /\ relayVars' # relayVars)

\* A step that leaves the error word alone has no author.
LEMMA SameWordNoAuthor ==
  reg'.REG_ERROR_CODE = reg.REG_ERROR_CODE => OnlyAuthorsWrite
  BY DEF OnlyAuthorsWrite

\* The relay thread changes its bit with its own variables.
LEMMA RelayIsAuthor == IInv /\ Relay => OnlyAuthorsWrite
<1> SUFFICES ASSUME IInv, Relay PROVE OnlyAuthorsWrite
  OBVIOUS
<1>1. apc' = apc
  BY SupplyKeepsAlarm DEF Relay, IInv, TypeOK
<1>2. \/ reg'.REG_ERROR_CODE = reg.REG_ERROR_CODE
      \/ /\ reg'.REG_ERROR_CODE = reg.REG_ERROR_CODE \ {HEARTBEAT_TIMEOUT}
         /\ lastHb' # lastHb
      \/ /\ reg'.REG_ERROR_CODE = reg.REG_ERROR_CODE \cup {HEARTBEAT_TIMEOUT}
         /\ relayOn /\ ~relayOn'
  BY RelayPassType DEF Relay, IInv, TypeOK
<1>3. CASE reg'.REG_ERROR_CODE = reg.REG_ERROR_CODE
  BY <1>3, SameWordNoAuthor
<1>4. CASE lastHb' # lastHb \/ (relayOn /\ ~relayOn')
  <2>1. relayVars' # relayVars
    BY <1>4 DEF relayVars
  <2>2. LED_OFFLINE \in reg.REG_ERROR_CODE <=> LED_OFFLINE \in reg'.REG_ERROR_CODE
    BY <1>2 DEF LED_OFFLINE, HEARTBEAT_TIMEOUT
  <2> QED  BY <1>1, <2>1, <2>2 DEF OnlyAuthorsWrite
<1> QED  BY <1>2, <1>3, <1>4

\* The entry into standby writes the word once, from a copy that is fresh.
LEMMA StandbyIsAuthor == IInv /\ Standby => OnlyAuthorsWrite
<1> SUFFICES ASSUME IInv, Standby PROVE OnlyAuthorsWrite
  OBVIOUS
<1>1. reg \in Banks
  BY DEF IInv, TypeOK, BankTypeOK
<1>2. CASE StandbyClearErrors
  BY <1>2 DEF StandbyClearErrors, Goto, OnlyAuthorsWrite
<1>3. CASE ClearCommands
  BY <1>1, <1>3, SilencedType, SameWordNoAuthor DEF ClearCommands
<1>4. CASE ClearStatuses
  BY <1>1, <1>4, SameWordNoAuthor DEF ClearStatuses, Banks
<1>5. CASE ~(StandbyClearErrors \/ ClearCommands \/ ClearStatuses)
  BY <1>5, SameWordNoAuthor DEF Standby, StandbyStep, ScheduleCheck, EnterStandby,
     CutSupply, StandbyReadErrors, ReadErrors, ExitStandby, RestoreSupply, bankVars
<1> QED  BY <1>2, <1>3, <1>4, <1>5

\* The alarm thread writes its own bit, from a copy that is fresh.
LEMMA AlarmIsAuthor == IInv /\ Alarm => OnlyAuthorsWrite
<1> SUFFICES ASSUME IInv, Alarm PROVE OnlyAuthorsWrite
  OBVIOUS
<1>1. BankTypeOK /\ reg \in Banks /\ copy["alarm"] \in SUBSET Errors /\ AlarmTypeOK
  BY DEF IInv, TypeOK, BankTypeOK, Tasks
<1>2. CASE AlarmClearsOffline \/ AlarmRaisesOffline
  <2>1. apc \in {"recovering", "raising"} /\ copy["alarm"] = reg.REG_ERROR_CODE
    BY <1>2 DEF AlarmClearsOffline, AlarmRaisesOffline, IInv, CopiesAreFresh
  <2>2. /\ copy["alarm"] \ {LED_OFFLINE} \in SUBSET Errors
        /\ copy["alarm"] \cup {LED_OFFLINE} \in SUBSET Errors
    BY <1>1 DEF Errors
  <2>3. \/ reg'.REG_ERROR_CODE = reg.REG_ERROR_CODE \ {LED_OFFLINE}
        \/ reg'.REG_ERROR_CODE = reg.REG_ERROR_CODE \cup {LED_OFFLINE}
    BY <1>1, <1>2, <2>1, <2>2, WriteErrorsType
       DEF AlarmClearsOffline, AlarmRaisesOffline, Tasks
  <2> QED  BY <2>1, <2>3 DEF OnlyAuthorsWrite, LED_OFFLINE, HEARTBEAT_TIMEOUT
<1>3. CASE SelfTestEnds \/ BuzzerAcked \/ LedAcked
  BY <1>1, <1>3, SameWordNoAuthor DEF SelfTestEnds, BuzzerAcked, LedAcked, LampObeys, Banks
<1>4. CASE ~(AlarmClearsOffline \/ AlarmRaisesOffline \/ SelfTestEnds \/ BuzzerAcked \/ LedAcked)
  BY <1>4, SameWordNoAuthor DEF Alarm, AlarmStep, PassBegins, VolumeReply, NotDue,
     BuzzerStarts, BuzzerUnanswered, LedStarts, AskLamp, LedUnanswered, AlarmReadErrors,
     ReadErrors, bankVars
<1> QED  BY <1>2, <1>3, <1>4

\* No read-modify-write of the error word loses or revives another task's bit:
\* the alarm thread, the relay thread and the schedule.
THEOREM AuthorsKeepTheirBits == Spec => ErrorBitsKeepTheirAuthors
<1>1. IInv /\ [Next]_vars => [OnlyAuthorsWrite]_vars
  <2>1. IInv /\ Host => OnlyAuthorsWrite
    BY HostWriteType, SameWordNoAuthor DEF Host, IInv, TypeOK
  <2>2. IInv /\ (Schedule \/ Voice) => OnlyAuthorsWrite
    BY SameWordNoAuthor DEF Schedule, ScheduleMoves, GpsSync, Voice, VoiceEnds, bankVars
  <2> QED
    BY <2>1, <2>2, RelayIsAuthor, StandbyIsAuthor, AlarmIsAuthor DEF Next
<1>2. Spec => [][OnlyAuthorsWrite]_vars
  BY <1>1, InvariantHolds, PTL DEF Spec
<1> QED  BY <1>2 DEF ErrorBitsKeepTheirAuthors, OnlyAuthorsWrite
=============================================================================
