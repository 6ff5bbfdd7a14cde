------------------------------- MODULE BmsTask ------------------------------
(***************************************************************************)
(* The bms_master thread's ten-second battery poll, the third author of    *)
(* the error word.  The reply of the battery management system, or its     *)
(* absence after MODBUS_WAIT_TIMEOUT_MS, is a choice.                      *)
(***************************************************************************)
EXTENDS HookBank

VARIABLE bpc   (* where the thread stands in its poll *)

BmsTypeOK == bpc \in {"idle", "clear", "clearing", "raise", "raising"}

BmsInit == bpc = "idle"

\* The poll answered: the level is stored first, the error cleared next.
BatteryAnswers ==
  /\ Schedulable
  /\ bpc = "idle"
  /\ bpc' = "clear"
  /\ \E level \in BatteryLevels : reg' = [reg EXCEPT !.STATUS_BMS_BATTERY = level]
  /\ UNCHANGED <<flash, pwd, standby, lastVolume, crit, copy>>

\* The poll failed: level 0 is stored first, the error raised next.
BatteryFails ==
  /\ Schedulable
  /\ bpc = "idle"
  /\ bpc' = "raise"
  /\ reg' = [reg EXCEPT !.STATUS_BMS_BATTERY = 0]
  /\ UNCHANGED <<flash, pwd, standby, lastVolume, crit, copy>>

BmsReadErrors ==
  /\ \/ bpc = "clear" /\ bpc' = "clearing"
     \/ bpc = "raise" /\ bpc' = "raising"
  /\ ReadErrors("bms")

BmsWriteErrors ==
  /\ \/ bpc = "clearing" /\ WriteErrors("bms", copy["bms"] \ {BMS_READ_FAIL})
     \/ bpc = "raising" /\ WriteErrors("bms", copy["bms"] \cup {BMS_READ_FAIL})
  /\ bpc' = "idle"

BmsStep ==
  \/ BatteryAnswers
  \/ BatteryFails
  \/ BmsReadErrors
  \/ BmsWriteErrors
=============================================================================
