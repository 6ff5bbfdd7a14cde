----------------------------- MODULE StandbyTask ----------------------------
(***************************************************************************)
(* The gps_standby thread: once a second it compares the RTC with the      *)
(* nightly window and moves the controller in and out of soft standby.     *)
(* It has the lowest priority of the application tasks, so any of them may *)
(* run between two of its statements.  The writes that clear the commands  *)
(* are one step, as are those that clear the statuses: what another task   *)
(* does between them it could as well do before or after them all.         *)
(***************************************************************************)
EXTENDS HookBank

VARIABLES
  gpc,       (* where the thread stands in rtc_power_schedule_check          *)
  synced,    (* s_gps_synced: the RTC holds a valid time                     *)
  inWindow   (* the RTC lies in [power-off time, power-on time)              *)

standbyTaskVars == <<gpc, synced, inWindow>>

StandbyTypeOK ==
  /\ gpc \in {"idle", "enter", "commands", "statuses", "cut",
              "errors", "masked", "exit", "restore"}
  /\ synced \in BOOLEAN
  /\ inWindow \in BOOLEAN

\* rtc_power_init: the RTC survived on the coin cell, or GPS is awaited.
StandbyInit ==
  /\ gpc = "idle"
  /\ synced \in BOOLEAN
  /\ inWindow \in BOOLEAN

Goto(from, to) ==
  /\ gpc = from
  /\ gpc' = to

-----------------------------------------------------------------------------

\* Time passes the edge of the window, or the host moves the window.
ScheduleMoves ==
  /\ Schedulable
  /\ inWindow' = ~inWindow
  /\ UNCHANGED <<gpc, synced, bankVars>>

\* gps_sync_rtc_once: the first satellite fix sets the RTC.
GpsSync ==
  /\ Schedulable
  /\ gpc = "idle"
  /\ ~synced
  /\ synced' = TRUE
  /\ UNCHANGED <<gpc, inWindow, bankVars>>

\* The schedule's decision, on what it reads at the start of the pass.
Decision ==
  CASE reg.SOFT_STANDBY_ENABLE = 1 /\ inWindow /\ ~standby -> "enter"
    [] reg.SOFT_STANDBY_ENABLE = 1 /\ ~inWindow /\ standby -> "exit"
    [] reg.SOFT_STANDBY_ENABLE = 0 /\ standby              -> "exit"
    [] OTHER                                               -> "idle"

ScheduleCheck ==
  /\ Schedulable
  /\ synced
  /\ Goto("idle", Decision)
  /\ UNCHANGED <<synced, inWindow, bankVars>>

EnterStandby ==
  /\ Schedulable
  /\ Goto("enter", "commands")
  /\ standby' = TRUE
  /\ UNCHANGED <<reg, flash, pwd, lastVolume, crit, copy, synced, inWindow>>

ClearCommands ==
  /\ Schedulable
  /\ Goto("commands", "statuses")
  /\ reg' = Silenced(reg)
  /\ UNCHANGED <<flash, pwd, standby, lastVolume, crit, copy, synced, inWindow>>

ClearStatuses ==
  /\ Schedulable
  /\ Goto("statuses", "cut")
  /\ reg' = [reg EXCEPT !.STATUS_LED_SWITCH = 0, !.STATUS_BUZZER = 0]
  /\ UNCHANGED <<flash, pwd, standby, lastVolume, crit, copy, synced, inWindow>>

CutSupply ==
  /\ Schedulable
  /\ Goto("cut", "errors")
  /\ flash' = FALSE
  /\ UNCHANGED <<reg, pwd, standby, lastVolume, crit, copy, synced, inWindow>>

StandbyReadErrors ==
  /\ Goto("errors", "masked")
  /\ ReadErrors("gps")
  /\ UNCHANGED <<synced, inWindow>>

StandbyClearErrors ==
  /\ Goto("masked", "idle")
  /\ WriteErrors("gps", copy["gps"] \ {HEARTBEAT_TIMEOUT, LED_OFFLINE})
  /\ UNCHANGED <<synced, inWindow>>

ExitStandby ==
  /\ Schedulable
  /\ Goto("exit", "restore")
  /\ standby' = FALSE
  /\ UNCHANGED <<reg, flash, pwd, lastVolume, crit, copy, synced, inWindow>>

\* The exit without its pin write.
RestoreForgotten ==
  /\ Schedulable
  /\ Goto("restore", "idle")
  /\ UNCHANGED <<bankVars, synced, inWindow>>

RestoreSupply ==
  /\ Schedulable
  /\ Goto("restore", "idle")
  /\ flash' = TRUE
  /\ UNCHANGED <<reg, pwd, standby, lastVolume, crit, copy, synced, inWindow>>

\* One statement of rtc_power_schedule_check.
StandbyStep ==
  \/ ScheduleCheck
  \/ EnterStandby
  \/ ClearCommands
  \/ ClearStatuses
  \/ CutSupply
  \/ StandbyReadErrors
  \/ StandbyClearErrors
  \/ ExitStandby
  \/ RestoreSupply
=============================================================================
