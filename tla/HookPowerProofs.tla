--------------------------- MODULE HookPowerProofs --------------------------
(***************************************************************************)
(* The safety properties of HookPower for every value of its constants.    *)
(* IInv relates what the threads believe to where they stand: the standby  *)
(* flag to the step of the schedule, the critical section to its holder,   *)
(* a held copy of the error word to the word itself.                       *)
(***************************************************************************)
EXTENDS HookPower, TLAPS

USE BankAssumption, RelayAssumption, PowerAssumption

\* is_soft_standby is set from the second statement of the entry until the
\* first statement of the exit.
FlagFollowsSchedule ==
  /\ gpc \in {"commands", "statuses", "cut", "errors", "masked", "exit"} => standby
  /\ gpc \in {"enter", "restore"} => ~standby

\* The task inside the critical section is the one whose step says so.
CritHolder ==
  /\ crit = "gps" <=> gpc = "masked"
  /\ crit = "bms" <=> bpc \in {"clearing", "raising"}
  /\ crit # "alarm"

\* What a task read inside the critical section is still the error word.
CopiesAreFresh ==
  /\ gpc = "masked" => copy["gps"] = reg.REG_ERROR_CODE
  /\ bpc \in {"clearing", "raising"} => copy["bms"] = reg.REG_ERROR_CODE

\* Standby hides the heartbeat error from the end of the entry on, and until
\* the exit has cleared the flag.
ErrorHidden ==
  standby /\ gpc \in {"idle", "exit"} => HEARTBEAT_TIMEOUT \notin reg.REG_ERROR_CODE

\* The relay thread's belief, outside standby and up to the entry.
SupplyKnown ==
  ~standby /\ gpc \in {"idle", "enter"} /\ ~flash => ~relayOn

IInv ==
  /\ TypeOK
  /\ FlagFollowsSchedule
  /\ CritHolder
  /\ CopiesAreFresh
  /\ ErrorHidden
  /\ SupplyKnown

-----------------------------------------------------------------------------

\* The initial states satisfy the type invariant: app_hook_task.c and
\* gps_app.c initialise every variable the threads share.
LEMMA InitTypeOK == Init => TypeOK
<1> SUFFICES ASSUME Init PROVE TypeOK
  OBVIOUS
<1>1. reg \in Banks
  BY DEF Init, BankInit, Banks, Errors
<1>2. copy \in [Tasks -> SUBSET Errors]
  BY DEF Init, BankInit
<1>3. BankTypeOK
  BY <1>1, <1>2 DEF Init, BankInit, BankTypeOK
<1>4. RelayTypeOK
  BY <1>1 DEF Init, RelayInit, RelayTypeOK, Banks
<1> QED
  BY <1>3, <1>4 DEF Init, TypeOK, StandbyInit, BmsInit, StandbyTypeOK, BmsTypeOK

\* Replacing the error word by a set of errors keeps the bank well-typed.
LEMMA WithErrorsType ==
  ASSUME NEW r \in Banks, NEW errs \in SUBSET Errors
  PROVE  WithErrors(r, errs) \in Banks /\ WithErrors(r, errs).REG_ERROR_CODE = errs
  BY DEF Banks, WithErrors

\* Withdrawing the alarm commands keeps the bank well-typed and its error word.
LEMMA SilencedType ==
  ASSUME NEW r \in Banks
  PROVE  Silenced(r) \in Banks /\ Silenced(r).REG_ERROR_CODE = r.REG_ERROR_CODE
  BY DEF Banks, Silenced

\* The error word of a bank is a set of errors.
LEMMA ErrorsOfBank ==
  ASSUME NEW r \in Banks
  PROVE  r.REG_ERROR_CODE \in SUBSET Errors /\ r.STATUS_HEART_BEAT \in Heartbeats
  BY DEF Banks

\* A pass of the relay thread keeps the types.
LEMMA RelayType == TypeOK /\ Relay => TypeOK'
<1> SUFFICES ASSUME TypeOK, Relay PROVE TypeOK'
  OBVIOUS
<1> USE DEF TypeOK, Relay, RelayPass, Refresh
<1>1. StandbyTypeOK' /\ BmsTypeOK'
  BY DEF StandbyTypeOK, BmsTypeOK, standbyTaskVars
<1>3. reg \in Banks /\ reg.REG_ERROR_CODE \in SUBSET Errors
  BY ErrorsOfBank DEF BankTypeOK
<1>2. RelayTypeOK'
  <2>1. CASE MonitoringOff \/ StandbyPass \/ HeartbeatSeen
    <3>1. Refresh /\ (relayOn' = TRUE \/ relayOn' = FALSE)
      BY <2>1 DEF MonitoringOff, StandbyPass, HeartbeatSeen, SupplyOn
    <3>2. lastHb' \in Heartbeats
      BY <3>1, <1>3, ErrorsOfBank
    <3>3. hbAge' \in 0 .. Timeout + 1
      BY <3>1
    <3> QED
      BY <3>1, <3>2, <3>3 DEF RelayTypeOK
  <2>2. CASE HeartbeatMissing
    <3>1. Elapsed \in 0 .. Timeout + 1
      BY DEF Elapsed, RelayTypeOK
    <3> QED
      BY <2>2, <3>1 DEF RelayTypeOK, HeartbeatMissing, TimerRuns
  <2> QED
    BY <2>1, <2>2
<1>4. BankTypeOK'
  <2>1. CASE MonitoringOff \/ StandbyPass
    BY <2>1 DEF BankTypeOK, MonitoringOff, StandbyPass
  <2>2. CASE HeartbeatSeen
    <3>1. [reg EXCEPT !.STATUS_LED_SWITCH = 0] \in Banks
      BY <1>3 DEF Banks
    <3>2. reg' \in Banks
      BY <2>2, <3>1, <1>3, WithErrorsType DEF HeartbeatSeen, SupplyOn
    <3> QED
      BY <2>2, <3>2 DEF BankTypeOK, HeartbeatSeen, SupplyOn
  <2>3. CASE HeartbeatMissing
    <3>1. reg.REG_ERROR_CODE \cup {HEARTBEAT_TIMEOUT} \in SUBSET Errors
      BY <1>3 DEF Errors
    <3>2. reg' \in Banks
      BY <2>3, <3>1, <1>3, SilencedType, WithErrorsType
         DEF HeartbeatMissing, TimerRuns
    <3> QED
      BY <2>3, <3>2 DEF BankTypeOK, HeartbeatMissing, TimerRuns
  <2> QED
    BY <2>1, <2>2, <2>3
<1> QED
  BY <1>1, <1>2, <1>4

\* A host write keeps the types.
LEMMA HostType == TypeOK /\ Host => TypeOK'
<1> SUFFICES ASSUME TypeOK, Host PROVE TypeOK'
  OBVIOUS
<1>1. reg' \in Banks
  <2>1. reg \in Banks
    BY DEF TypeOK, BankTypeOK
  <2>2. CASE \E v \in Heartbeats : reg' = [reg EXCEPT !.STATUS_HEART_BEAT = v]
    BY <2>1, <2>2 DEF Banks
  <2>3. CASE \E v \in {0, 1} : reg' = [reg EXCEPT !.HEARTBEAT_ENABLE = v]
    BY <2>1, <2>3 DEF Banks
  <2>4. CASE \E v \in SoftValues : reg' = [reg EXCEPT !.SOFT_STANDBY_ENABLE = v]
    BY <2>1, <2>4 DEF Banks
  <2>5. CASE \E c \in HostCommands, v \in {0, 1} : reg' = [reg EXCEPT ![c] = v]
    <3>1. PICK c \in HostCommands, v \in {0, 1} : reg' = [reg EXCEPT ![c] = v]
      BY <2>5
    <3>2. CASE c = "CMD_LED_SWITCH"
      BY <2>1, <3>1, <3>2 DEF Banks
    <3>3. CASE c = "CMD_BUZZER_7M"
      BY <2>1, <3>1, <3>3 DEF Banks
    <3>4. CASE c = "CMD_BUZZER_3M"
      BY <2>1, <3>1, <3>4 DEF Banks
    <3> QED
      BY <3>2, <3>3, <3>4 DEF AlarmCommands
  <2>6. CASE \E v \in Volumes : reg' = [reg EXCEPT !.CMD_VOLUME = v]
    BY <2>1, <2>6 DEF Banks
  <2> QED
    BY <2>2, <2>3, <2>4, <2>5, <2>6 DEF Host, HostWrite
<1>2. BankTypeOK'
  BY <1>1 DEF Host, HostWrite, TypeOK, BankTypeOK
<1> QED
  BY <1>2 DEF Host, TypeOK, RelayTypeOK, StandbyTypeOK, BmsTypeOK, relayVars,
     standbyTaskVars

\* The passing of time and the satellites keep the types.
LEMMA ScheduleType == TypeOK /\ Schedule => TypeOK'
<1> SUFFICES ASSUME TypeOK, Schedule PROVE TypeOK'
  OBVIOUS
<1>1. UNCHANGED bankVars /\ UNCHANGED relayVars /\ UNCHANGED bpc
  BY DEF Schedule, ScheduleMoves, GpsSync
<1>2. StandbyTypeOK'
  BY DEF Schedule, ScheduleMoves, GpsSync, TypeOK, StandbyTypeOK
<1> QED
  BY <1>1, <1>2 DEF TypeOK, BankTypeOK, RelayTypeOK, BmsTypeOK, bankVars, relayVars

\* Reading the error word into a task's copy, inside taskENTER_CRITICAL.
LEMMA ReadErrorsType ==
  ASSUME BankTypeOK, NEW t \in Tasks, ReadErrors(t)
  PROVE  BankTypeOK' /\ copy'[t] = reg'.REG_ERROR_CODE
  BY ErrorsOfBank DEF BankTypeOK, ReadErrors

\* Writing the error word back.
LEMMA WriteErrorsType ==
  ASSUME BankTypeOK, NEW t \in Tasks, NEW errs \in SUBSET Errors, WriteErrors(t, errs)
  PROVE  BankTypeOK' /\ reg'.REG_ERROR_CODE = errs
<1>1. reg' \in Banks /\ reg'.REG_ERROR_CODE = errs
  BY WithErrorsType DEF BankTypeOK, WriteErrors
<1> QED
  BY <1>1 DEF BankTypeOK, WriteErrors

\* A statement of the schedule keeps the types.
LEMMA StandbyType == TypeOK /\ Standby => TypeOK'
<1> SUFFICES ASSUME TypeOK, Standby PROVE TypeOK'
  OBVIOUS
<1>1. RelayTypeOK' /\ BmsTypeOK'
  BY DEF TypeOK, Standby, RelayTypeOK, BmsTypeOK, relayVars
<1>2. reg \in Banks /\ copy["gps"] \in SUBSET Errors
  BY DEF TypeOK, BankTypeOK, Tasks
<1> USE DEF TypeOK, Goto, StandbyTypeOK
<1>3. CASE ScheduleCheck
  BY <1>1, <1>3 DEF ScheduleCheck, Decision, BankTypeOK, bankVars
<1>4. CASE EnterStandby \/ CutSupply \/ ExitStandby \/ RestoreSupply
  BY <1>1, <1>4 DEF EnterStandby, CutSupply, ExitStandby, RestoreSupply, BankTypeOK
<1>5. CASE ClearCommands
  BY <1>1, <1>2, <1>5, SilencedType DEF ClearCommands, BankTypeOK
<1>6. CASE ClearStatuses
  <2>1. reg' \in Banks
    BY <1>2, <1>6 DEF ClearStatuses, Banks
  <2> QED
    BY <1>1, <1>6, <2>1 DEF ClearStatuses, BankTypeOK
<1>7. CASE StandbyReadErrors
  BY <1>1, <1>7, ReadErrorsType DEF StandbyReadErrors, Tasks
<1>8. CASE StandbyClearErrors
  BY <1>1, <1>2, <1>8, WriteErrorsType DEF StandbyClearErrors, Tasks
<1> QED
  BY <1>3, <1>4, <1>5, <1>6, <1>7, <1>8 DEF Standby, StandbyStep

\* A step of the battery poll keeps the types.
LEMMA BatteryType == TypeOK /\ Battery => TypeOK'
<1> SUFFICES ASSUME TypeOK, Battery PROVE TypeOK'
  OBVIOUS
<1>1. RelayTypeOK' /\ StandbyTypeOK'
  BY DEF TypeOK, Battery, RelayTypeOK, StandbyTypeOK, relayVars, standbyTaskVars
<1>2. reg \in Banks /\ copy["bms"] \in SUBSET Errors
  BY DEF TypeOK, BankTypeOK, Tasks
<1> USE DEF TypeOK, BmsTypeOK
<1>3. CASE BatteryAnswers \/ BatteryFails
  <2>1. reg' \in Banks
    BY <1>2, <1>3 DEF BatteryAnswers, BatteryFails, Banks
  <2> QED
    BY <1>1, <1>3, <2>1 DEF BatteryAnswers, BatteryFails, BankTypeOK
<1>4. CASE BmsReadErrors
  BY <1>1, <1>4, ReadErrorsType DEF BmsReadErrors, Tasks
<1>5. CASE BmsWriteErrors
  <2>1. PICK errs \in SUBSET Errors : WriteErrors("bms", errs)
    BY <1>2, <1>5 DEF BmsWriteErrors, Errors
  <2> QED
    BY <1>1, <1>5, <2>1, WriteErrorsType DEF BmsWriteErrors, Tasks
<1> QED
  BY <1>3, <1>4, <1>5 DEF Battery, BmsStep

\* A stuttering step keeps the types.
LEMMA StutterType == TypeOK /\ UNCHANGED vars => TypeOK'
  BY DEF TypeOK, BankTypeOK, RelayTypeOK, StandbyTypeOK, BmsTypeOK, vars, bankVars,
     relayVars, standbyTaskVars

\* The variables of the controller stay within their types, for any set of
\* host values and any pair of silence and timeout.
THEOREM TypeCorrect == Spec => []TypeOK
<1>1. TypeOK /\ [Next]_vars => TypeOK'
  BY RelayType, HostType, ScheduleType, StandbyType, BatteryType, StutterType DEF Next
<1> QED
  BY <1>1, InitTypeOK, PTL DEF Spec

-----------------------------------------------------------------------------

\* The initial states satisfy the inductive invariant.
LEMMA InitIInv == Init => IInv
  BY InitTypeOK DEF Init, BankInit, StandbyInit, BmsInit, IInv, FlagFollowsSchedule,
     CritHolder, CopiesAreFresh, ErrorHidden, SupplyKnown

\* A pass of the relay thread: it runs only when nobody holds the error word,
\* and in standby it touches neither the word nor the supply's belief.
LEMMA RelayKeeps == IInv /\ Relay => IInv'
<1> SUFFICES ASSUME IInv, Relay PROVE IInv'
  OBVIOUS
<1>1. TypeOK'
  BY RelayType DEF IInv
<1>2. UNCHANGED <<gpc, bpc, standby, crit, copy>> /\ Schedulable
  BY DEF Relay, RelayPass, standbyTaskVars
<1>3. gpc # "masked" /\ bpc \notin {"clearing", "raising"}
  BY <1>2 DEF IInv, CritHolder, Schedulable
<1>4. ErrorHidden'
  <2>1. standby => reg' = reg \/ HEARTBEAT_TIMEOUT \notin reg'.REG_ERROR_CODE
    BY DEF Relay, RelayPass, MonitoringOff, StandbyPass, HeartbeatSeen,
       HeartbeatMissing
  <2> QED
    BY <1>2, <2>1 DEF IInv, ErrorHidden
<1>5. SupplyKnown'
  <2>1. CASE MonitoringOff
    BY <1>2, <2>1 DEF IInv, SupplyKnown, MonitoringOff
  <2>2. CASE StandbyPass
    BY <1>2, <2>2 DEF SupplyKnown, StandbyPass
  <2>3. CASE HeartbeatSeen
    BY <2>3 DEF SupplyKnown, HeartbeatSeen, SupplyOn
  <2>4. CASE HeartbeatMissing
    BY <1>2, <2>4 DEF IInv, SupplyKnown, HeartbeatMissing, TimerRuns
  <2> QED
    BY <2>1, <2>2, <2>3, <2>4 DEF Relay, RelayPass
<1> QED
  BY <1>1, <1>2, <1>3, <1>4, <1>5 DEF IInv, FlagFollowsSchedule, CritHolder,
     CopiesAreFresh

\* A host write leaves the error word, the supply and the threads alone.
LEMMA HostKeeps == IInv /\ Host => IInv'
<1> SUFFICES ASSUME IInv, Host PROVE IInv'
  OBVIOUS
<1>1. TypeOK'
  BY HostType DEF IInv
<1>2. /\ UNCHANGED <<gpc, bpc, standby, crit, copy, flash, relayOn>>
      /\ Schedulable
  BY DEF Host, HostWrite, standbyTaskVars, relayVars
<1>3. reg'.REG_ERROR_CODE = reg.REG_ERROR_CODE
  <2>1. reg \in Banks
    BY DEF IInv, TypeOK, BankTypeOK
  <2>2. PICK c \in AlarmCommands \cup {"STATUS_HEART_BEAT", "HEARTBEAT_ENABLE",
                                       "SOFT_STANDBY_ENABLE", "CMD_VOLUME"} :
          \E v : reg' = [reg EXCEPT ![c] = v]
    BY DEF Host, HostWrite
  <2>3. c # "REG_ERROR_CODE"
    BY DEF AlarmCommands
  <2> QED
    BY <2>1, <2>2, <2>3 DEF Banks
<1> QED
  BY <1>1, <1>2, <1>3 DEF IInv, FlagFollowsSchedule, CritHolder, CopiesAreFresh,
     ErrorHidden, SupplyKnown, Schedulable

\* Time and the satellites change nothing the invariant speaks of.
LEMMA ScheduleKeeps == IInv /\ Schedule => IInv'
<1> SUFFICES ASSUME IInv, Schedule PROVE IInv'
  OBVIOUS
<1>1. TypeOK'
  BY ScheduleType DEF IInv
<1>2. UNCHANGED <<reg, flash, standby, crit, copy, gpc, bpc, relayOn>>
  BY DEF Schedule, ScheduleMoves, GpsSync, bankVars, relayVars
<1> QED
  BY <1>1, <1>2 DEF IInv, FlagFollowsSchedule, CritHolder, CopiesAreFresh,
     ErrorHidden, SupplyKnown

\* A statement of the schedule.
LEMMA StandbyKeeps == IInv /\ Standby => IInv'
<1> SUFFICES ASSUME IInv, Standby PROVE IInv'
  OBVIOUS
<1>1. TypeOK'
  BY StandbyType DEF IInv
<1>2. UNCHANGED <<bpc, relayOn>>
  BY DEF Standby, relayVars
<1>3. copy \in [Tasks -> SUBSET Errors]
  BY DEF IInv, TypeOK, BankTypeOK
<1> USE DEF IInv, FlagFollowsSchedule, CritHolder, CopiesAreFresh, ErrorHidden,
            SupplyKnown, Goto
<1>4. CASE ScheduleCheck
  BY <1>1, <1>2, <1>4 DEF ScheduleCheck, Decision, bankVars
<1>5. CASE EnterStandby \/ CutSupply
  BY <1>1, <1>2, <1>5 DEF EnterStandby, CutSupply
<1>6. CASE ExitStandby \/ RestoreSupply
  BY <1>1, <1>2, <1>6 DEF ExitStandby, RestoreSupply
<1>7. CASE ClearCommands \/ ClearStatuses
  BY <1>1, <1>2, <1>7 DEF ClearCommands, ClearStatuses, Schedulable
<1>8. CASE StandbyReadErrors
  BY <1>1, <1>2, <1>3, <1>8 DEF StandbyReadErrors, ReadErrors, Schedulable, Tasks
<1>9. CASE StandbyClearErrors
  <2>1. reg'.REG_ERROR_CODE = copy["gps"] \ {HEARTBEAT_TIMEOUT, LED_OFFLINE}
    BY <1>3, <1>9, WriteErrorsType DEF StandbyClearErrors, TypeOK, Tasks
  <2> QED
    BY <1>1, <1>2, <1>9, <2>1 DEF StandbyClearErrors, WriteErrors
<1> QED
  BY <1>4, <1>5, <1>6, <1>7, <1>8, <1>9 DEF Standby, StandbyStep

\* A step of the battery poll: what it writes back differs from the word only
\* in its own bit, because nobody wrote in between.
LEMMA BatteryKeeps == IInv /\ Battery => IInv'
<1> SUFFICES ASSUME IInv, Battery PROVE IInv'
  OBVIOUS
<1>1. TypeOK'
  BY BatteryType DEF IInv
<1>2. UNCHANGED <<gpc, relayOn, standby, flash>>
  BY DEF Battery, BmsStep, BatteryAnswers, BatteryFails, BmsReadErrors,
     BmsWriteErrors, ReadErrors, WriteErrors, relayVars, standbyTaskVars
<1>3. copy \in [Tasks -> SUBSET Errors] /\ reg \in Banks
  BY DEF IInv, TypeOK, BankTypeOK
<1>4. CASE BatteryAnswers \/ BatteryFails
  <2>1. reg'.REG_ERROR_CODE = reg.REG_ERROR_CODE
    BY <1>3, <1>4 DEF BatteryAnswers, BatteryFails, Banks
  <2> QED
    BY <1>1, <1>2, <1>4, <2>1 DEF BatteryAnswers, BatteryFails, IInv, Schedulable,
       FlagFollowsSchedule, CritHolder, CopiesAreFresh, ErrorHidden, SupplyKnown
<1>5. CASE BmsReadErrors
  BY <1>1, <1>2, <1>3, <1>5 DEF BmsReadErrors, ReadErrors, IInv, Schedulable, Tasks,
     FlagFollowsSchedule, CritHolder, CopiesAreFresh, ErrorHidden, SupplyKnown
<1>6. CASE BmsWriteErrors
  <2>1. \/ reg'.REG_ERROR_CODE = reg.REG_ERROR_CODE \ {BMS_READ_FAIL}
        \/ reg'.REG_ERROR_CODE = reg.REG_ERROR_CODE \cup {BMS_READ_FAIL}
    <3>1. /\ copy["bms"] \ {BMS_READ_FAIL} \in SUBSET Errors
          /\ copy["bms"] \cup {BMS_READ_FAIL} \in SUBSET Errors
      BY <1>3 DEF Tasks, Errors
    <3> QED
      BY <1>6, <3>1, WriteErrorsType
         DEF BmsWriteErrors, IInv, CopiesAreFresh, TypeOK, Tasks
  <2>2. HEARTBEAT_TIMEOUT \in reg'.REG_ERROR_CODE
          => HEARTBEAT_TIMEOUT \in reg.REG_ERROR_CODE
    BY <2>1 DEF HEARTBEAT_TIMEOUT, BMS_READ_FAIL
  <2> QED
    BY <1>1, <1>2, <1>6, <2>2 DEF BmsWriteErrors, WriteErrors, IInv,
       FlagFollowsSchedule, CritHolder, CopiesAreFresh, ErrorHidden, SupplyKnown
<1> QED
  BY <1>4, <1>5, <1>6 DEF Battery, BmsStep

\* The inductive invariant holds in every reachable state.
THEOREM InvariantHolds == Spec => []IInv
<1>1. IInv /\ UNCHANGED vars => IInv'
  BY StutterType DEF IInv, FlagFollowsSchedule, CritHolder, CopiesAreFresh,
     ErrorHidden, SupplyKnown, vars, bankVars, relayVars, standbyTaskVars
<1>2. IInv /\ [Next]_vars => IInv'
  BY <1>1, RelayKeeps, HostKeeps, ScheduleKeeps, StandbyKeeps, BatteryKeeps DEF Next
<1> QED
  BY <1>2, InitIInv, PTL DEF Spec

\* No heartbeat error is shown while the controller rests in soft standby
\* (gps_app.c:291 clears it, app_relay.c:50 does not raise it again).
THEOREM HeartbeatErrorStaysHidden == Spec => []StandbyHidesHeartbeatError
<1>1. IInv => StandbyHidesHeartbeatError
  BY DEF IInv, ErrorHidden, StandbyHidesHeartbeatError
<1> QED
  BY <1>1, InvariantHolds, PTL

\* Outside standby relay_is_on is never left TRUE over a supply that is off.
THEOREM RelayKnowsSupply == Spec => []FlagKnowsSupplyOff
<1>1. IInv => FlagKnowsSupplyOff
  BY DEF IInv, SupplyKnown, FlagKnowsSupplyOff
<1> QED
  BY <1>1, InvariantHolds, PTL

-----------------------------------------------------------------------------

\* What a step may do to the error word: each bit has its authors.
OnlyAuthorsWrite ==
  /\ (BMS_READ_FAIL \in reg.REG_ERROR_CODE) # (BMS_READ_FAIL \in reg'.REG_ERROR_CODE)
       => bpc \in {"clearing", "raising"}
  /\ HEARTBEAT_TIMEOUT \in reg.REG_ERROR_CODE /\ HEARTBEAT_TIMEOUT \notin reg'.REG_ERROR_CODE
       => gpc = "masked" \/ lastHb' # lastHb
  /\ HEARTBEAT_TIMEOUT \notin reg.REG_ERROR_CODE /\ HEARTBEAT_TIMEOUT \in reg'.REG_ERROR_CODE
       => ~flash' /\ hbAge' > Timeout

\* A step that leaves the error word alone has no author.
LEMMA SameWordNoAuthor ==
  reg'.REG_ERROR_CODE = reg.REG_ERROR_CODE => OnlyAuthorsWrite
  BY DEF OnlyAuthorsWrite

\* The relay thread clears its bit with a new heartbeat and raises it with
\* the cut of the supply.
LEMMA RelayIsAuthor == IInv /\ Relay => OnlyAuthorsWrite
<1> SUFFICES ASSUME IInv, Relay PROVE OnlyAuthorsWrite
  OBVIOUS
<1>1. reg \in Banks /\ reg.REG_ERROR_CODE \in SUBSET Errors
  BY ErrorsOfBank DEF IInv, TypeOK, BankTypeOK
<1>2. CASE MonitoringOff \/ StandbyPass
  BY <1>2, SameWordNoAuthor DEF MonitoringOff, StandbyPass
<1>3. CASE HeartbeatSeen
  <2>1. [reg EXCEPT !.STATUS_LED_SWITCH = 0] \in Banks
    BY <1>1 DEF Banks
  <2>2. reg'.REG_ERROR_CODE = reg.REG_ERROR_CODE \ {HEARTBEAT_TIMEOUT}
    BY <1>1, <1>3, <2>1, WithErrorsType DEF HeartbeatSeen, SupplyOn
  <2>3. lastHb' # lastHb
    BY <1>3 DEF HeartbeatSeen, SupplyOn, Refresh
  <2> QED
    BY <2>2, <2>3 DEF OnlyAuthorsWrite, HEARTBEAT_TIMEOUT, BMS_READ_FAIL
<1>4. CASE HeartbeatMissing
  <2>1. \/ reg'.REG_ERROR_CODE = reg.REG_ERROR_CODE
        \/ /\ reg'.REG_ERROR_CODE = reg.REG_ERROR_CODE \cup {HEARTBEAT_TIMEOUT}
           /\ ~flash' /\ hbAge' > Timeout
    <3>1. reg.REG_ERROR_CODE \cup {HEARTBEAT_TIMEOUT} \in SUBSET Errors
      BY <1>1 DEF Errors
    <3> QED
      BY <1>1, <1>4, <3>1, SilencedType, WithErrorsType
         DEF HeartbeatMissing, TimerRuns
  <2> QED
    BY <2>1 DEF OnlyAuthorsWrite, HEARTBEAT_TIMEOUT, BMS_READ_FAIL
<1> QED
  BY <1>2, <1>3, <1>4 DEF Relay, RelayPass

\* The entry into standby writes the word once, from a copy that is fresh.
LEMMA StandbyIsAuthor == IInv /\ Standby => OnlyAuthorsWrite
<1> SUFFICES ASSUME IInv, Standby PROVE OnlyAuthorsWrite
  OBVIOUS
<1>1. reg \in Banks /\ copy["gps"] \in SUBSET Errors
  BY DEF IInv, TypeOK, BankTypeOK, Tasks
<1>2. CASE StandbyClearErrors
  <2>1. gpc = "masked"
    BY <1>2 DEF StandbyClearErrors, Goto
  <2>2. reg'.REG_ERROR_CODE = reg.REG_ERROR_CODE \ {HEARTBEAT_TIMEOUT, LED_OFFLINE}
    BY <1>1, <1>2, <2>1, WriteErrorsType
       DEF StandbyClearErrors, IInv, CopiesAreFresh, TypeOK, Tasks
  <2> QED
    BY <2>1, <2>2 DEF OnlyAuthorsWrite, HEARTBEAT_TIMEOUT, BMS_READ_FAIL, LED_OFFLINE
<1>3. CASE ClearCommands
  BY <1>1, <1>3, SilencedType, SameWordNoAuthor DEF ClearCommands
<1>4. CASE ClearStatuses
  BY <1>1, <1>4, SameWordNoAuthor DEF ClearStatuses, Banks
<1>5. CASE ~(StandbyClearErrors \/ ClearCommands \/ ClearStatuses)
  BY <1>5, SameWordNoAuthor DEF Standby, StandbyStep, ScheduleCheck, EnterStandby,
     CutSupply, StandbyReadErrors, ReadErrors, ExitStandby, RestoreSupply, bankVars
<1> QED
  BY <1>2, <1>3, <1>4, <1>5

\* The battery poll writes its own bit, from a copy that is fresh.
LEMMA BatteryIsAuthor == IInv /\ Battery => OnlyAuthorsWrite
<1> SUFFICES ASSUME IInv, Battery PROVE OnlyAuthorsWrite
  OBVIOUS
<1>1. reg \in Banks /\ copy["bms"] \in SUBSET Errors
  BY DEF IInv, TypeOK, BankTypeOK, Tasks
<1>2. CASE BatteryAnswers \/ BatteryFails
  BY <1>1, <1>2, SameWordNoAuthor DEF BatteryAnswers, BatteryFails, Banks
<1>3. CASE BmsReadErrors
  BY <1>3, SameWordNoAuthor DEF BmsReadErrors, ReadErrors
<1>4. CASE BmsWriteErrors
  <2>1. bpc \in {"clearing", "raising"}
    BY <1>4 DEF BmsWriteErrors
  <2>2. \/ reg'.REG_ERROR_CODE = reg.REG_ERROR_CODE \ {BMS_READ_FAIL}
        \/ reg'.REG_ERROR_CODE = reg.REG_ERROR_CODE \cup {BMS_READ_FAIL}
    <3>1. /\ copy["bms"] \ {BMS_READ_FAIL} \in SUBSET Errors
          /\ copy["bms"] \cup {BMS_READ_FAIL} \in SUBSET Errors
      BY <1>1 DEF Errors
    <3> QED
      BY <1>4, <2>1, <3>1, WriteErrorsType
         DEF BmsWriteErrors, IInv, CopiesAreFresh, TypeOK, Tasks
  <2> QED
    BY <2>1, <2>2 DEF OnlyAuthorsWrite, HEARTBEAT_TIMEOUT, BMS_READ_FAIL
<1> QED
  BY <1>2, <1>3, <1>4 DEF Battery, BmsStep

\* The host has no access to the error word.
LEMMA HostIsNoAuthor == IInv /\ Host => OnlyAuthorsWrite
<1> SUFFICES ASSUME IInv, Host PROVE reg'.REG_ERROR_CODE = reg.REG_ERROR_CODE
  BY SameWordNoAuthor
<1>1. reg \in Banks
  BY DEF IInv, TypeOK, BankTypeOK
<1>2. PICK c \in AlarmCommands \cup {"STATUS_HEART_BEAT", "HEARTBEAT_ENABLE",
                                     "SOFT_STANDBY_ENABLE", "CMD_VOLUME"} :
        \E v : reg' = [reg EXCEPT ![c] = v]
  BY DEF Host, HostWrite
<1>3. c # "REG_ERROR_CODE"
  BY DEF AlarmCommands
<1> QED
  BY <1>1, <1>2, <1>3 DEF Banks

\* No read-modify-write of the error word loses or revives another task's bit.
THEOREM AuthorsKeepTheirBits == Spec => ErrorBitsKeepTheirAuthors
<1>1. IInv /\ [Next]_vars => [OnlyAuthorsWrite]_vars
  <2>1. IInv /\ Schedule => OnlyAuthorsWrite
    BY SameWordNoAuthor DEF Schedule, ScheduleMoves, GpsSync, bankVars
  <2> QED
    BY <2>1, RelayIsAuthor, HostIsNoAuthor, StandbyIsAuthor, BatteryIsAuthor DEF Next
<1>2. Spec => [][OnlyAuthorsWrite]_vars
  BY <1>1, InvariantHolds, PTL DEF Spec
<1> QED
  BY <1>2 DEF ErrorBitsKeepTheirAuthors, OnlyAuthorsWrite

\* In standby only HEARTBEAT_ENABLE = 0 brings the supply back.
THEOREM StandbyKeepsSupplyOff == Spec => OnlyTheHostBreaksStandby
<1>1. IInv /\ [Next]_vars =>
        [standby /\ standby' /\ ~flash /\ flash' => reg.HEARTBEAT_ENABLE = 0]_vars
  <2> SUFFICES ASSUME IInv, Next, standby, ~flash, flash'
               PROVE  reg.HEARTBEAT_ENABLE = 0
    OBVIOUS
  <2>1. CASE Relay
    BY <2>1 DEF Relay, RelayPass, MonitoringOff, StandbyPass, HeartbeatSeen,
       HeartbeatMissing, Monitoring
  <2>2. CASE Standby
    BY <2>2 DEF IInv, FlagFollowsSchedule, Standby, StandbyStep, ScheduleCheck,
       EnterStandby, ClearCommands, ClearStatuses, CutSupply, StandbyReadErrors,
       StandbyClearErrors, ReadErrors, WriteErrors, ExitStandby, RestoreSupply,
       Goto, bankVars
  <2>3. CASE Host \/ Schedule \/ Battery
    BY <2>3 DEF Host, HostWrite, Schedule, ScheduleMoves, GpsSync, Battery, BmsStep,
       BatteryAnswers, BatteryFails, BmsReadErrors, BmsWriteErrors, ReadErrors,
       WriteErrors, bankVars
  <2> QED
    BY <2>1, <2>2, <2>3 DEF Next
<1> QED
  BY <1>1, InvariantHolds, PTL DEF Spec, OnlyTheHostBreaksStandby
=============================================================================
