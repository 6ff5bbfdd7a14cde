------------------------------ MODULE HookBank ------------------------------
(***************************************************************************)
(* What the application tasks of the hook controller share: the Modbus     *)
(* register bank, the two power pins, the soft-standby flag and the        *)
(* "volume already sent" cell.  A register access is one step (MB_Reg_Get  *)
(* and MB_Reg_Set mask interrupts); a read-modify-write of the error word  *)
(* is two, kept together only by taskENTER_CRITICAL.                       *)
(***************************************************************************)
EXTENDS Naturals

CONSTANTS
  Heartbeats,     (* values the host writes to STATUS_HEART_BEAT             *)
  Volumes,        (* values the host writes to CMD_VOLUME                    *)
  BatteryLevels   (* readings the battery management system returns          *)

ASSUME BankAssumption ==
  /\ 0 \in Heartbeats
  /\ Volumes \subseteq Nat
  /\ BatteryLevels \subseteq Nat

VARIABLES
  reg,         (* the register bank, the registers the tasks exchange        *)
  flash,       (* FLASH_LIGHT_POWER_EN pin: supply of the sound-light unit   *)
  pwd,         (* PWD_LED pin                                                *)
  standby,     (* is_soft_standby                                            *)
  lastVolume,  (* last_volume: the volume the unit is believed to hold       *)
  crit,        (* the task inside taskENTER_CRITICAL, or "none"              *)
  copy         (* each task's local copy of REG_ERROR_CODE                   *)

bankVars == <<reg, flash, pwd, standby, lastVolume, crit, copy>>

Tasks == {"gps", "alarm", "bms"}

\* SystemErrorCode_t, one element per bit of REG_ERROR_CODE.
HEARTBEAT_TIMEOUT == "HEARTBEAT_TIMEOUT"
LED_OFFLINE       == "LED_OFFLINE"
BMS_READ_FAIL     == "BMS_READ_FAIL"
Errors            == {HEARTBEAT_TIMEOUT, LED_OFFLINE, BMS_READ_FAIL}

\* last_volume = 0xFFFF, a value no command can carry: the volume is unsent.
Unsent == 65535

\* The register bank's states.
Banks == [STATUS_HEART_BEAT   : Heartbeats,
          HEARTBEAT_ENABLE    : {0, 1},
          SOFT_STANDBY_ENABLE : {0, 1, 2},
          CMD_LED_SWITCH      : {0, 1},
          CMD_BUZZER_7M       : {0, 1},
          CMD_BUZZER_3M       : {0, 1},
          CMD_VOLUME          : Volumes,
          STATUS_LED_SWITCH   : {0, 1},
          STATUS_BUZZER       : {0, 1, 2},
          STATUS_BMS_BATTERY  : BatteryLevels \cup {0},
          REG_ERROR_CODE      : SUBSET Errors]

BankTypeOK ==
  /\ reg \in Banks
  /\ flash \in BOOLEAN
  /\ pwd \in BOOLEAN
  /\ standby \in BOOLEAN
  /\ lastVolume \in Volumes \cup {0, Unsent}
  /\ crit \in Tasks \cup {"none"}
  /\ copy \in [Tasks -> SUBSET Errors]

\* The bank once init_app_hook_task and rtc_power_init have run.
BankInit ==
  /\ reg \in [STATUS_HEART_BEAT   : {0},
              HEARTBEAT_ENABLE    : {1},
              SOFT_STANDBY_ENABLE : {1},
              CMD_LED_SWITCH      : {0},
              CMD_BUZZER_7M       : {0},
              CMD_BUZZER_3M       : {0},
              CMD_VOLUME          : Volumes,
              STATUS_LED_SWITCH   : {0},
              STATUS_BUZZER       : {0},
              STATUS_BMS_BATTERY  : {0},
              REG_ERROR_CODE      : {{}}]
  /\ flash = TRUE
  /\ pwd = TRUE
  /\ standby = FALSE
  /\ lastVolume = 0
  /\ crit = "none"
  /\ copy = [t \in Tasks |-> {}]

-----------------------------------------------------------------------------

\* The bank with the three alarm commands withdrawn.
Silenced(r) ==
  [r EXCEPT !.CMD_LED_SWITCH = 0, !.CMD_BUZZER_7M = 0, !.CMD_BUZZER_3M = 0]

\* The bank with the error word replaced.
WithErrors(r, errs) == [r EXCEPT !.REG_ERROR_CODE = errs]

\* No task is masking the scheduler, so another one may run.
Schedulable == crit = "none"

\* A read-modify-write whose author forgot taskENTER_CRITICAL.
ReadErrorsUnlocked(t) ==
  /\ Schedulable
  /\ crit' = crit
  /\ copy' = [copy EXCEPT ![t] = reg.REG_ERROR_CODE]
  /\ UNCHANGED <<reg, flash, pwd, standby, lastVolume>>

\* taskENTER_CRITICAL; err = MB_Reg_Get(REG_ERROR_CODE)
ReadErrors(t) ==
  /\ Schedulable
  /\ crit' = t
  /\ copy' = [copy EXCEPT ![t] = reg.REG_ERROR_CODE]
  /\ UNCHANGED <<reg, flash, pwd, standby, lastVolume>>

\* MB_Reg_Set(REG_ERROR_CODE, errs); taskEXIT_CRITICAL
WriteErrors(t, errs) ==
  /\ crit' = "none"
  /\ copy' = [copy EXCEPT ![t] = {}]
  /\ reg' = WithErrors(reg, errs)
  /\ UNCHANGED <<flash, pwd, standby, lastVolume>>

-----------------------------------------------------------------------------
(* The host, through the 4G protocol and the Modbus slave, writes one      *)
(* register at a time.                                                     *)

\* Some host write, of the command registers in `commands`, the schedule
\* enables in `softValues` and the monitoring enables in `enables`.
HostWrite(commands, softValues, enables) ==
  /\ Schedulable
  /\ \/ \E v \in Heartbeats : reg' = [reg EXCEPT !.STATUS_HEART_BEAT = v]
     \/ \E v \in enables : reg' = [reg EXCEPT !.HEARTBEAT_ENABLE = v]
     \/ \E v \in softValues : reg' = [reg EXCEPT !.SOFT_STANDBY_ENABLE = v]
     \/ \E c \in commands, v \in {0, 1} : reg' = [reg EXCEPT ![c] = v]
     \/ \E v \in Volumes : reg' = [reg EXCEPT !.CMD_VOLUME = v]
  /\ UNCHANGED <<flash, pwd, standby, lastVolume, crit, copy>>

AlarmCommands == {"CMD_LED_SWITCH", "CMD_BUZZER_7M", "CMD_BUZZER_3M"}
=============================================================================
