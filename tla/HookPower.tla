------------------------------ MODULE HookPower -----------------------------
(***************************************************************************)
(* Who powers the sound-light unit: the heartbeat relay, the soft-standby  *)
(* schedule, the battery poll and the host, interleaved at the granularity *)
(* of the statements that touch what they share.                           *)
(***************************************************************************)
EXTENDS RelayTask, StandbyTask, BmsTask

CONSTANTS
  HostCommands,  (* the command registers the host writes                    *)
  SoftValues     (* what the host writes to SOFT_STANDBY_ENABLE              *)

ASSUME PowerAssumption ==
  /\ HostCommands \subseteq AlarmCommands
  /\ SoftValues \subseteq {0, 1, 2}

vars == <<bankVars, relayVars, standbyTaskVars, bpc>>

Init == BankInit /\ RelayInit /\ StandbyInit /\ BmsInit

Relay    == RelayPass /\ UNCHANGED <<standbyTaskVars, bpc>>
Host     == HostWrite(HostCommands, SoftValues, {0, 1})
              /\ UNCHANGED <<relayVars, standbyTaskVars, bpc>>
Schedule == (ScheduleMoves \/ GpsSync) /\ UNCHANGED <<relayVars, bpc>>
Standby  == StandbyStep /\ UNCHANGED <<relayVars, bpc>>
Battery  == BmsStep /\ UNCHANGED <<relayVars, standbyTaskVars>>

Next == Relay \/ Host \/ Schedule \/ Standby \/ Battery

\* The scheduler is preemptive and every task sleeps between two passes, so
\* a task that other tasks' critical sections hold up again and again still
\* runs (strong fairness); the host, the clock and the satellites owe the
\* controller nothing.
Fairness == SF_vars(Relay) /\ SF_vars(Standby) /\ WF_vars(Battery)

Spec == Init /\ [][Next]_vars /\ Fairness

-----------------------------------------------------------------------------

\* The variables stay within their types.
TypeOK == BankTypeOK /\ RelayTypeOK /\ StandbyTypeOK /\ BmsTypeOK

\* Once the schedule has put the controller into soft standby, no heartbeat
\* error is shown until standby ends, whatever the relay thread did between
\* the statements of the entry (gps_app.c clears the error for this purpose,
\* and process_relay_logic must not raise it again).
StandbyHidesHeartbeatError ==
  standby /\ gpc = "idle" => HEARTBEAT_TIMEOUT \notin reg.REG_ERROR_CODE

\* Outside standby the relay thread knows when the supply is off: relay_is_on
\* is never left TRUE over a supply somebody cut, or a returning host would
\* neither re-send the volume nor reset the lamp's status.
FlagKnowsSupplyOff ==
  ~standby /\ gpc = "idle" /\ ~flash => ~relayOn

\* Each bit of the error word changes only in the write of one of its
\* authors: no read-modify-write of another task revives or loses it.
ErrorBitsKeepTheirAuthors ==
  [][/\ (BMS_READ_FAIL \in reg.REG_ERROR_CODE) # (BMS_READ_FAIL \in reg'.REG_ERROR_CODE)
          => bpc \in {"clearing", "raising"}
     /\ HEARTBEAT_TIMEOUT \in reg.REG_ERROR_CODE /\ HEARTBEAT_TIMEOUT \notin reg'.REG_ERROR_CODE
          => gpc = "masked" \/ lastHb' # lastHb
     /\ HEARTBEAT_TIMEOUT \notin reg.REG_ERROR_CODE /\ HEARTBEAT_TIMEOUT \in reg'.REG_ERROR_CODE
          => ~flash' /\ hbAge' > Timeout]_vars

\* During standby no heartbeat brings the supply back; only the host's
\* explicit HEARTBEAT_ENABLE = 0 does.
OnlyTheHostBreaksStandby ==
  [][standby /\ standby' /\ ~flash /\ flash' => reg.HEARTBEAT_ENABLE = 0]_vars

\* A host that dies while monitored, on a controller that never entered
\* standby, ends with the supply cut, the error raised and the alarm silent.
DeadHostCutsSupply ==
  /\ [](~standby /\ reg.HEARTBEAT_ENABLE = 1)
  /\ <>[](reg.STATUS_HEART_BEAT = lastHb)
  => <>[](~flash /\ HEARTBEAT_TIMEOUT \in reg.REG_ERROR_CODE)

\* The schedule is obeyed: outside the window, or with the schedule disabled
\* (0, not any other value), standby ends and the supply is back, unless the
\* heartbeat timeout has cut it, which the error word then shows.
StandbyEnds ==
  (<>[](synced /\ \/ reg.SOFT_STANDBY_ENABLE = 0
                  \/ reg.SOFT_STANDBY_ENABLE = 1 /\ ~inWindow))
    => <>[](/\ ~standby
            /\ flash \/ HEARTBEAT_TIMEOUT \in reg.REG_ERROR_CODE)

-----------------------------------------------------------------------------
(* Statements of the repository that the program does not keep.            *)

\* app_relay.c: a heartbeat that has not changed for a minute cuts the
\* supply.  Not so after a standby: the supply was restored and the flag
\* still says "off", so the timeout branch never runs.
TimeoutCutsSupply ==
  <>[](/\ reg.STATUS_HEART_BEAT = lastHb
       /\ reg.HEARTBEAT_ENABLE = 1
       /\ ~standby)
    => <>[]~flash
=============================================================================
