------------------------------ MODULE RelayTask -----------------------------
(***************************************************************************)
(* The relay_heartbeat thread: once a second it compares the heartbeat     *)
(* register with the last value seen and cuts the supply of the            *)
(* sound-light unit when the host has been silent too long.  It runs at    *)
(* the highest application priority and does not block inside a pass, so a *)
(* pass is one action.  Time is counted in passes.                         *)
(***************************************************************************)
EXTENDS HookBank

CONSTANTS
  Silence,   (* HEARTBEAT_SILENCE_MS in passes of the thread                 *)
  Timeout    (* HEARTBEAT_TIMEOUT_MS in passes of the thread                 *)

ASSUME RelayAssumption ==
  /\ Silence \in Nat
  /\ Timeout \in Nat
  /\ Silence < Timeout

VARIABLES
  lastHb,    (* last_heartbeat_val                                           *)
  hbAge,     (* passes since recv_heartbeat_time, saturating past Timeout    *)
  relayOn    (* relay_is_on                                                  *)

relayVars == <<lastHb, hbAge, relayOn>>

RelayTypeOK ==
  /\ lastHb \in Heartbeats
  /\ hbAge \in 0 .. Timeout + 1
  /\ relayOn \in BOOLEAN

\* relay_app_init
RelayInit ==
  /\ lastHb = reg.STATUS_HEART_BEAT
  /\ hbAge = 0
  /\ relayOn = TRUE

\* The silence branch also restarts the timer.
ElapsedRestarts == IF hbAge > Silence THEN 0 ELSE hbAge + 1

\* Passes since the last refresh, as this pass measures them.  The tick
\* difference of the code has no such bound: the model stops counting past
\* Timeout, where the comparisons no longer change.
Elapsed == IF hbAge > Timeout THEN hbAge ELSE hbAge + 1

\* Take the register's value as seen now.
Refresh ==
  /\ lastHb' = reg.STATUS_HEART_BEAT
  /\ hbAge' = 0

Monitoring == reg.HEARTBEAT_ENABLE # 0

\* MonitoringOff without its two pin writes.
MonitoringOffForgetsPin ==
  /\ ~Monitoring
  /\ Refresh
  /\ relayOn' = TRUE
  /\ UNCHANGED <<flash, pwd, reg, lastVolume>>

\* Monitoring is switched off: the supply is kept (or put back) on.
MonitoringOff ==
  /\ ~Monitoring
  /\ Refresh
  /\ flash' = (flash \/ ~relayOn)
  /\ pwd' = (pwd \/ ~relayOn)
  /\ relayOn' = TRUE
  /\ UNCHANGED <<reg, lastVolume>>

\* Soft standby: the timer is fed and the supply believed off.
StandbyPass ==
  /\ Monitoring
  /\ standby
  /\ Refresh
  /\ relayOn' = FALSE
  /\ UNCHANGED <<reg, flash, pwd, lastVolume>>

\* The supply is on and the timeout error is gone; a unit that was off is
\* to be told its volume again and its lamp is known to be dark.
SupplyOn ==
  /\ Refresh
  /\ flash' = TRUE
  /\ pwd' = TRUE
  /\ relayOn' = TRUE
  /\ lastVolume' = IF relayOn THEN lastVolume ELSE Unsent
  /\ reg' = WithErrors(IF relayOn THEN reg
                                  ELSE [reg EXCEPT !.STATUS_LED_SWITCH = 0],
                       reg.REG_ERROR_CODE \ {HEARTBEAT_TIMEOUT})

\* HeartbeatSeen without the early return of standby.
HeartbeatSeenInStandby ==
  /\ Monitoring
  /\ reg.STATUS_HEART_BEAT # lastHb
  /\ SupplyOn

\* The heartbeat moved.
HeartbeatSeen ==
  /\ Monitoring
  /\ ~standby
  /\ reg.STATUS_HEART_BEAT # lastHb
  /\ SupplyOn

\* Silence first withdraws the alarm commands, then the timeout cuts the
\* supply, once, and raises the error.
TimerRuns ==
  LET expired == Elapsed > Timeout /\ relayOn
      kept    == IF Elapsed > Silence THEN Silenced(reg) ELSE reg
  IN /\ hbAge' = Elapsed
     /\ relayOn' = (relayOn /\ ~expired)
     /\ flash' = (flash /\ ~expired)
     /\ pwd' = (pwd /\ ~expired)
     /\ reg' = IF expired
                 THEN WithErrors(kept, reg.REG_ERROR_CODE \cup {HEARTBEAT_TIMEOUT})
                 ELSE kept
     /\ UNCHANGED <<lastHb, lastVolume>>

\* HeartbeatMissing without the early return of standby.
HeartbeatMissingInStandby ==
  /\ Monitoring
  /\ reg.STATUS_HEART_BEAT = lastHb
  /\ TimerRuns

\* The heartbeat stands still.
HeartbeatMissing ==
  /\ Monitoring
  /\ ~standby
  /\ reg.STATUS_HEART_BEAT = lastHb
  /\ TimerRuns

\* process_relay_logic
RelayPass ==
  /\ Schedulable
  /\ MonitoringOff \/ StandbyPass \/ HeartbeatSeen \/ HeartbeatMissing
  /\ UNCHANGED <<standby, crit, copy>>
=============================================================================
