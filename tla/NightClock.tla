----------------------------- MODULE NightClock -----------------------------
(***************************************************************************)
(* The clock the nightly schedule goes by, and hard standby.  The RTC      *)
(* lives in the backup domain with a mark that says it was set from GPS    *)
(* and with alarm B, which is all that can wake the processor; registers   *)
(* and flags live in RAM and are lost by every reset.  Power fails, the    *)
(* coin cell is empty or not, the processor resets, the receiver tells a   *)
(* time without a fix and the RTC refuses a setting, at any step of the    *)
(* gps_standby thread.  Time is counted in minutes of a day of             *)
(* Hours * Minutes; what the other threads do to standby is StandbyTask.   *)
(***************************************************************************)
EXTENDS Naturals

CONSTANTS
  Hours,       (* 24                                                        *)
  Minutes,     (* 60                                                        *)
  Zone,        (* TIMEZONE_OFFSET_BEIJING                                   *)
  Schedules    (* pairs of power-off and power-on time the host may write,  *)
               (* the defaults among them                                   *)

\* A time of day as the registers hold it, (hour << 8) | minute.
Packed(h, m) == 256 * h + m

\* The values of a register of 16 bits, times of day and others.
Words == {w \in Nat : w < 65536}

Day == Hours * Minutes

ASSUME ClockAssumption ==
  /\ Hours \in 1 .. 255
  /\ Minutes \in 1 .. 255
  /\ Zone \in 0 .. Hours
  /\ Schedules \subseteq [off : Words, on : Words]
  /\ Schedules # {}

Moments == 0 .. Day - 1

\* No alarm B is set; differs from every time of day.
NoAlarm == 65536

VARIABLES
  real,       (* the true time of day, UTC                                  *)
  rtc,        (* what the RTC shows, UTC                                    *)
  mark,       (* RTC_BKP_DR1 holds 0x5AA5                                   *)
  alarm,      (* alarm B, a packed UTC time                                 *)
  source,     (* whose time the RTC shows: a receiver's with or without a   *)
              (* fix, or "none": it counts from midnight                    *)
  refused,    (* history: the RTC refused the last setting it was given     *)
  wokenFlag,  (* PWR_FLAG_SB: the last reset was a wake from standby        *)
  pc,         (* where processor and thread stand                           *)
  synced,     (* s_gps_synced                                               *)
  rtcSynced,  (* rtc_synced of gps_sync_rtc_once                            *)
  times,      (* STATUS_POWER_OFF_TIME, STATUS_POWER_ON_TIME                *)
  hard,       (* STM32_STANDBY_ENABLE                                       *)
  soft,       (* SOFT_STANDBY_ENABLE                                        *)
  standby,    (* is_soft_standby                                            *)
  offRead,    (* off_hhmm of the check under way, 0 between two              *)
  night       (* the off and on time hard standby was last entered with,    *)
              (* and whether its alarm was taken                            *)

backup  == <<rtc, mark, alarm, source, refused>>
flags   == <<synced, rtcSynced, standby>>
regs    == <<times, hard, soft>>
vars    == <<real, backup, wokenFlag, pc, flags, regs, offRead, night>>

\* "off": no power; "boot": before MX_RTC_Init; "init": before
\* rtc_power_init; "idle" to "marked": the thread runs; "dozing" and
\* "dozed": the 300 ms of enter_standby, within and beyond the minute in
\* which they began; "asleep": standby mode.
Awake  == {"idle", "timeSet", "marked", "read", "dozing", "dozed"}
Places == Awake \cup {"off", "boot", "init", "asleep"}

NoNight == [off |-> 0, on |-> 0, taken |-> FALSE]

Sources == {"none", "fix", "noFix"}

\* Every component holds values of its kind.
TypeOK ==
  /\ real \in Moments
  /\ rtc \in Moments
  /\ mark \in BOOLEAN
  /\ alarm = NoAlarm \/ \E h \in 0 .. Hours - 1, m \in 0 .. 255 : alarm = Packed(h, m)
  /\ source \in Sources
  /\ refused \in BOOLEAN
  /\ wokenFlag \in BOOLEAN
  /\ pc \in Places
  /\ synced \in BOOLEAN
  /\ rtcSynced \in BOOLEAN
  /\ times \in Schedules
  /\ hard \in {0, 1}
  /\ soft \in {0, 1, 2}
  /\ standby \in BOOLEAN
  /\ offRead \in Words
  /\ night \in [off : Words, on : Words, taken : BOOLEAN]

-----------------------------------------------------------------------------
(* Time of day.                                                            *)

\* The RTC's hour and minute as the alarm compares them.
Utc(t) == Packed(t \div Minutes, t % Minutes)

\* UTC to the time zone of the registers.
Local(t) == Packed((t \div Minutes + Zone) % Hours, t % Minutes)

\* The hour of a register back to UTC without the wrap.
UtcHourUnwrapped(h) == h + Hours - Zone

\* The hour of a register back to UTC in the wrong direction.
UtcHourEast(h) == (h + Zone) % Hours

\* The hour of a register back to UTC.
UtcHour(h) == (h + Hours - Zone) % Hours

\* The alarm time for a power-on time.  A minute that is none stays one that
\* never comes, as 60 to 79 do; from 80 on it would spill into the masks.
AlarmFor(on) == Packed(UtcHour(on \div 256), on % 256)

\* should_sleep: the time lies in [off, on), across midnight if off > on.
ShouldSleep(now, off, on) ==
  \/ off < on /\ off <= now /\ now < on
  \/ off > on /\ (off <= now \/ now < on)

\* A minute passes; a minute in which the alarm rings is not over before
\* the processor has woken, and 300 ms hold one change of minute at most.
Tick ==
  /\ pc # "dozed"
  /\ ~(pc = "asleep" /\ alarm = Utc(rtc))
  /\ real' = (real + 1) % Day
  /\ rtc' = (rtc + 1) % Day
  /\ pc' = IF pc = "dozing" THEN "dozed" ELSE pc
  /\ UNCHANGED <<mark, alarm, source, refused, wokenFlag, flags, regs, offRead, night>>

-----------------------------------------------------------------------------
(* Start-up.                                                               *)

Init ==
  /\ real \in Moments
  /\ rtc = 0
  /\ mark = FALSE
  /\ alarm = NoAlarm
  /\ source = "none"
  /\ refused = FALSE
  /\ wokenFlag = FALSE
  /\ pc = "boot"
  /\ synced = FALSE
  /\ rtcSynced = FALSE
  /\ times \in Schedules
  /\ hard = 0
  /\ soft = 0
  /\ standby = FALSE
  /\ offRead = 0
  /\ night = NoNight

\* MX_RTC_Init as the code generator writes it, without the test of the mark.
InitClockAlways ==
  /\ pc = "boot"
  /\ pc' = "init"
  /\ rtc' = 0
  /\ alarm' = Packed(0, 0)
  /\ source' = "none"
  /\ refused' = FALSE
  /\ UNCHANGED <<real, mark, wokenFlag, flags, regs, offRead, night>>

\* MX_RTC_Init: only a clock without the mark is set to midnight.
InitClock ==
  /\ pc = "boot"
  /\ pc' = "init"
  /\ rtc' = IF mark THEN rtc ELSE 0
  /\ alarm' = IF mark THEN alarm ELSE Packed(0, 0)
  /\ source' = IF mark THEN source ELSE "none"
  /\ refused' = (mark /\ refused)
  /\ UNCHANGED <<real, mark, wokenFlag, flags, regs, offRead, night>>

\* rtc_power_init, with any of the schedules for the default one: a wake
\* from standby clears the flag and awaits GPS, another reset trusts the
\* mark.
InitPower ==
  /\ pc = "init"
  /\ pc' = "idle"
  /\ times' \in Schedules
  /\ soft' = 1
  /\ wokenFlag' = FALSE
  /\ synced' = IF wokenFlag THEN synced ELSE mark
  /\ UNCHANGED <<real, backup, rtcSynced, standby, hard, offRead, night>>

\* What a reset leaves of RAM: nothing.  The two times are cleared too; no
\* one reads them before InitPower sets them.
RamCleared ==
  /\ synced' = FALSE
  /\ rtcSynced' = FALSE
  /\ standby' = FALSE
  /\ hard' = 0
  /\ soft' = 0
  /\ offRead' = 0
  /\ night' = NoNight
  /\ UNCHANGED <<real, times>>

\* A fault handler, an AT command or an update resets the processor.
Reset ==
  /\ pc \in Awake \cup {"init"}
  /\ pc' = "boot"
  /\ RamCleared
  /\ UNCHANGED <<backup, wokenFlag>>

\* Alarm B ends standby; it rings in every second of its minute.
Wake ==
  /\ pc = "asleep"
  /\ alarm = Utc(rtc)
  /\ pc' = "boot"
  /\ RamCleared
  /\ wokenFlag' = TRUE
  /\ UNCHANGED backup

\* The supply fails and an empty coin cell loses the backup domain with it.
PowerFails ==
  /\ pc # "off"
  /\ pc' = "off"
  /\ RamCleared
  /\ \/ UNCHANGED backup
     \/ /\ rtc' = 0
        /\ mark' = FALSE
        /\ alarm' = NoAlarm
        /\ source' = "none"
        /\ refused' = FALSE
  /\ UNCHANGED wokenFlag

PowerReturns ==
  /\ pc = "off"
  /\ pc' = "boot"
  /\ wokenFlag' = FALSE
  /\ UNCHANGED <<real, backup, flags, regs, offRead, night>>

-----------------------------------------------------------------------------
(* gps_sync_rtc_once: the first time of day that a sentence holds.         *)

\* The RTC takes the receiver's time, which without a fix may be any.
SetTime ==
  /\ pc = "idle"
  /\ ~rtcSynced
  /\ pc' = "timeSet"
  /\ \/ rtc' = real /\ source' = "fix"
     \/ rtc' \in Moments \ {real} /\ source' = "noFix"
  /\ refused' = FALSE
  /\ UNCHANGED <<real, mark, alarm, wokenFlag, flags, regs, offRead, night>>

\* HAL_RTC_SetTime reports an error that nobody looks at.
SetTimeRefused ==
  /\ pc = "idle"
  /\ ~rtcSynced
  /\ pc' = "timeSet"
  /\ refused' = TRUE
  /\ UNCHANGED <<real, rtc, mark, alarm, source, wokenFlag, flags, regs, offRead, night>>

WriteMark ==
  /\ pc = "timeSet"
  /\ pc' = "marked"
  /\ mark' = TRUE
  /\ UNCHANGED <<real, rtc, alarm, source, refused, wokenFlag, flags, regs, offRead, night>>

\* After 100 ms the schedule may judge.
SyncDone ==
  /\ pc = "marked"
  /\ pc' = "idle"
  /\ rtcSynced' = TRUE
  /\ synced' = TRUE
  /\ UNCHANGED <<real, backup, wokenFlag, standby, regs, offRead, night>>

-----------------------------------------------------------------------------
(* rtc_power_schedule_check and enter_standby.                             *)

\* The check reads the power-off time; the host's thread may run before it
\* has read the rest.
ReadOffTime ==
  /\ pc = "idle"
  /\ synced
  /\ pc' = "read"
  /\ offRead' = times.off
  /\ UNCHANGED <<real, backup, wokenFlag, flags, regs, night>>

\* The minute of the power-off time, with hard standby enabled.
HardDue == Local(rtc) = offRead /\ hard = 1

\* set_alarm_b with its error ignored, then the refusals and the delays of
\* enter_standby.
EnterHardStandby ==
  /\ pc = "read"
  /\ HardDue
  /\ mark
  /\ pc' = "dozing"
  /\ \E taken \in BOOLEAN :
       /\ alarm' = IF taken THEN AlarmFor(times.on) ELSE NoAlarm
       /\ night' = [off |-> offRead, on |-> times.on, taken |-> taken]
  /\ offRead' = 0
  /\ UNCHANGED <<real, rtc, mark, source, refused, wokenFlag, flags, regs>>

\* The soft schedule: enter, leave, or leave because it was disabled.  It
\* also follows a hard standby that was refused for want of the mark.
SoftCheck ==
  /\ pc = "read"
  /\ ~(HardDue /\ mark)
  /\ pc' = "idle"
  /\ synced' = (synced /\ ~HardDue)
  /\ standby' = CASE soft = 1 -> ShouldSleep(Local(rtc), offRead, times.on)
                  [] soft = 0 -> FALSE
                  [] OTHER    -> standby
  /\ offRead' = 0
  /\ UNCHANGED <<real, backup, wokenFlag, rtcSynced, regs, night>>

\* HAL_PWR_EnterSTANDBYMode, with the alarm's flag cleared before.
FallAsleep ==
  /\ pc \in {"dozing", "dozed"}
  /\ pc' = "asleep"
  /\ UNCHANGED <<real, backup, wokenFlag, flags, regs, offRead, night>>

-----------------------------------------------------------------------------
(* The host, whose threads have a higher priority.                         *)

HostSetsTimes ==
  /\ pc \in Awake
  /\ times' \in Schedules
  /\ UNCHANGED <<real, backup, wokenFlag, pc, flags, hard, soft, offRead, night>>

HostSetsHard ==
  /\ pc \in Awake
  /\ hard' \in {0, 1}
  /\ UNCHANGED <<real, backup, wokenFlag, pc, flags, times, soft, offRead, night>>

HostSetsSoft ==
  /\ pc \in Awake
  /\ soft' \in {0, 1, 2}
  /\ UNCHANGED <<real, backup, wokenFlag, pc, flags, times, hard, offRead, night>>

Next ==
  \/ Tick
  \/ InitClock \/ InitPower
  \/ Reset \/ Wake \/ PowerFails \/ PowerReturns
  \/ SetTime \/ SetTimeRefused \/ WriteMark \/ SyncDone
  \/ ReadOffTime \/ EnterHardStandby \/ SoftCheck \/ FallAsleep
  \/ HostSetsTimes \/ HostSetsHard \/ HostSetsSoft

Spec == Init /\ [][Next]_vars

-----------------------------------------------------------------------------
(* Properties.                                                             *)

\* The schedule goes by a clock that nobody has set since the backup domain
\* lost its power only when the RTC has refused its setting, which the code
\* does not look at; and a clock set from a fix still shows the right time:
\* through resets, power failures with and without the coin cell, and a
\* synchronisation cut short at any of its steps (gps_app.c:98-107, 185-212,
\* rtc.c:63).  A time without a fix is as good to the code as one with it.
ClockTrusted ==
  synced => /\ source = "none" => refused
            /\ source = "fix" => rtc = real

\* How many minutes after a packed time the minute t of the zone lies.
MinutesOf(p) == (Minutes * (p \div 256)) + (p % 256)
After(p, t)  == (MinutesOf(Local(t)) + Day - MinutesOf(p)) % Day

\* A controller in hard standby that went by a right clock and whose alarm
\* was taken sleeps in the night it was told to and in no other minute: the
\* alarm's time zone is right, and an alarm that rings while the controller
\* is still about to fall asleep is not the last (gps_app.c:239-256,
\* 314-344, 366-380).
SleepsOnlyAtNight ==
  pc = "asleep" /\ source = "fix" /\ night.taken
  /\ night.on % 256 < Minutes /\ night.on \div 256 < Hours /\ night.on # night.off
    => After(night.off, real)
         <= (MinutesOf(night.on) + Day - MinutesOf(night.off)) % Day
=============================================================================
