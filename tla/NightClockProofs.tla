-------------------------- MODULE NightClockProofs --------------------------
(***************************************************************************)
(* Theorems about NightClock for every length of the day, every zone and   *)
(* every set of schedules.                                                 *)
(***************************************************************************)
EXTENDS NightClock, TLAPS

-----------------------------------------------------------------------------
(* Times of day.                                                           *)

\* The test with its two orders of the times is the cyclic one: the time has
\* come less far from the power-off time than the power-on time lies, across
\* midnight or not, and equal times are no night (gps_app.c:263-280).
THEOREM WindowIsCyclic ==
  ASSUME NEW now \in Nat, NEW off \in Nat, NEW on \in Nat,
         now < 65536, off < 65536, on < 65536
  PROVE  ShouldSleep(now, off, on)
           <=> (now + 65536 - off) % 65536 < (on + 65536 - off) % 65536
<1>1. ASSUME NEW a \in Nat, a < 65536
      PROVE  a % 65536 = a /\ (a + 65536) % 65536 = a
  BY <1>1
<1>2. ASSUME NEW t \in Nat, t < 65536
      PROVE  /\ off <= t => (t + 65536 - off) % 65536 = t - off
             /\ off > t => (t + 65536 - off) % 65536 = t + 65536 - off
  <2>1. CASE off <= t
    <3>1. t - off \in Nat /\ t - off < 65536 /\ t + 65536 - off = (t - off) + 65536
      BY <1>2, <2>1
    <3> QED  BY <1>1, <2>1, <3>1
  <2>2. CASE off > t
    <3>1. t + 65536 - off \in Nat /\ t + 65536 - off < 65536
      BY <1>2, <2>2
    <3> QED  BY <1>1, <2>2, <3>1
  <2> QED  BY <2>1, <2>2
<1>3. CASE off <= now /\ off <= on
  BY <1>2, <1>3 DEF ShouldSleep
<1>4. CASE off <= now /\ off > on
  BY <1>2, <1>4 DEF ShouldSleep
<1>5. CASE off > now /\ off <= on
  BY <1>2, <1>5 DEF ShouldSleep
<1>6. CASE off > now /\ off > on
  BY <1>2, <1>6 DEF ShouldSleep
<1> QED  BY <1>3, <1>4, <1>5, <1>6

\* Hours and minutes of a moment are those of a day.
LEMMA MomentParts ==
  ASSUME NEW t \in Moments
  PROVE  t \div Minutes \in 0 .. Hours - 1 /\ t % Minutes \in 0 .. Minutes - 1
<1>1. Hours \in Nat /\ Minutes \in Nat /\ Minutes > 0 /\ Hours > 0
  BY ClockAssumption DEF ClockAssumption
<1>2. t \in Nat /\ t < Hours * Minutes
  BY <1>1 DEF Moments, Day
<1> QED  BY <1>1, <1>2

\* A day has minutes.
LEMMA DayIsPositive == Day \in Nat /\ Day > 0
<1>1. Hours \in Nat /\ Minutes \in Nat /\ Minutes > 0 /\ Hours > 0
  BY ClockAssumption DEF ClockAssumption
<1> QED  BY <1>1 DEF Day

\* The minute after a moment is one of the day.
LEMMA DayMoves ==
  ASSUME NEW t \in Moments
  PROVE  (t + 1) % Day \in Moments
BY DayIsPositive DEF Moments

\* So is midnight.
LEMMA ZeroIsMoment == 0 \in Moments
BY DayIsPositive DEF Moments

\* The alarm for a packed time has an hour of the day.
LEMMA AlarmFits ==
  ASSUME NEW on \in Words
  PROVE  \E h \in 0 .. Hours - 1, k \in 0 .. 255 : AlarmFor(on) = Packed(h, k)
<1>1. Hours \in Nat /\ Hours > 0 /\ Zone \in Nat /\ Zone <= Hours
  BY ClockAssumption DEF ClockAssumption
<1>2. on \div 256 \in Nat /\ on % 256 \in 0 .. 255
  BY DEF Words
<1>3. (on \div 256) + Hours - Zone \in Nat
  BY <1>1, <1>2
<1>4. UtcHour(on \div 256) \in 0 .. Hours - 1
  BY <1>1, <1>3 DEF UtcHour
<1> QED  BY <1>2, <1>4 DEF AlarmFor

-----------------------------------------------------------------------------
(* Types.                                                                  *)

\* Every variable keeps its type, and alarm B always has an hour of the day,
\* for every day, zone and set of schedules.
THEOREM TypeCorrect == Spec => []TypeOK
<1>1. Init => TypeOK
  <2> SUFFICES ASSUME Init PROVE TypeOK
    OBVIOUS
  <2>1. 0 \in Words
    BY DEF Words
  <2> QED  BY <2>1, ZeroIsMoment DEF Init, TypeOK, NoNight, Sources, Places, Awake
<1>2. TypeOK /\ [Next]_vars => TypeOK'
  <2> SUFFICES ASSUME TypeOK, [Next]_vars PROVE TypeOK'
    OBVIOUS
  <2> USE DEF TypeOK, Places, Awake, Sources
  <2>0. 0 \in Words
    BY DEF Words
  <2>00. NoNight \in [off : Words, on : Words, taken : BOOLEAN]
    BY <2>0 DEF NoNight
  <2>000. 0 = Packed(0, 0) /\ 0 \in 0 .. Hours - 1
    BY ClockAssumption DEF ClockAssumption, Packed
  <2>0000. times.off \in Words /\ times.on \in Words
    BY ClockAssumption DEF ClockAssumption
  <2>1. CASE Tick
    BY <2>1, DayMoves DEF Tick, flags, regs
  <2>2. CASE InitClock
    BY <2>2, <2>000, ZeroIsMoment DEF InitClock, flags, regs
  <2>3. CASE InitPower
    BY <2>3 DEF InitPower, backup
  <2>4. CASE Reset
    BY <2>4, <2>0, <2>00 DEF Reset, RamCleared, backup
  <2>5. CASE Wake
    BY <2>5, <2>0, <2>00 DEF Wake, RamCleared, backup
  <2>6. CASE PowerFails
    BY <2>6, <2>0, <2>00, ZeroIsMoment DEF PowerFails, RamCleared, backup
  <2>7. CASE PowerReturns
    <3>1. /\ pc' \in Places /\ wokenFlag' \in BOOLEAN
          /\ UNCHANGED <<real, rtc, mark, alarm, source, refused, synced, rtcSynced, standby, times,
                         hard, soft, offRead, night>>
      BY <2>7 DEF PowerReturns, backup, flags, regs
    <3> QED  BY <3>1
  <2>8. CASE SetTime
    BY <2>8 DEF SetTime, flags, regs
  <2>9. CASE SetTimeRefused
    BY <2>9 DEF SetTimeRefused, flags, regs
  <2>10. CASE WriteMark
    BY <2>10 DEF WriteMark, flags, regs
  <2>11. CASE SyncDone
    BY <2>11 DEF SyncDone, backup, regs
  <2>12. CASE ReadOffTime
    BY <2>12, <2>0000 DEF ReadOffTime, backup, flags, regs
  <2>13. CASE EnterHardStandby
    <3>1. PICK taken \in BOOLEAN :
            /\ alarm' = IF taken THEN AlarmFor(times.on) ELSE NoAlarm
            /\ night' = [off |-> offRead, on |-> times.on, taken |-> taken]
      BY <2>13 DEF EnterHardStandby
    <3>2. alarm' = NoAlarm \/ \E h \in 0 .. Hours - 1, m \in 0 .. 255 : alarm' = Packed(h, m)
      BY <3>1, <2>0000, AlarmFits
    <3>3. night' \in [off : Words, on : Words, taken : BOOLEAN]
      BY <3>1, <2>0000
    <3>4. /\ pc' \in Places /\ offRead' \in Words
          /\ UNCHANGED <<real, rtc, mark, source, refused, wokenFlag, synced, rtcSynced, standby,
                         times, hard, soft>>
      BY <2>13, <2>0 DEF EnterHardStandby, flags, regs
    <3> QED  BY <3>2, <3>3, <3>4
  <2>14. CASE SoftCheck
    <3>1. standby' \in BOOLEAN /\ synced' \in BOOLEAN
      BY <2>14 DEF SoftCheck, ShouldSleep
    <3> QED  BY <2>14, <3>1, <2>0 DEF SoftCheck, backup, regs
  <2>15. CASE FallAsleep
    BY <2>15 DEF FallAsleep, backup, flags, regs
  <2>16. CASE HostSetsTimes
    BY <2>16 DEF HostSetsTimes, backup, flags
  <2>17. CASE HostSetsHard
    BY <2>17 DEF HostSetsHard, backup, flags
  <2>18. CASE HostSetsSoft
    BY <2>18 DEF HostSetsSoft, backup, flags
  <2>19. CASE UNCHANGED vars
    BY <2>19 DEF vars, backup, flags, regs
  <2> QED  BY <2>1, <2>2, <2>3, <2>4, <2>5, <2>6, <2>7, <2>8, <2>9, <2>10, <2>11, <2>12, <2>13,
              <2>14, <2>15, <2>16, <2>17, <2>18, <2>19 DEF Next
<1> QED  BY <1>1, <1>2, PTL DEF Spec

-----------------------------------------------------------------------------
(* The clock.                                                              *)

\* What ClockTrusted rests on: the mark is only written over a clock that
\* somebody set or that refused to be set, and a clock that was set from a fix
\* goes right wherever the processor stands.
MarkMeansSet ==
  /\ mark \/ pc \in {"timeSet", "marked"} => source # "none" \/ refused
  /\ synced \/ pc = "marked" => mark
  /\ source = "fix" => rtc = real
  /\ pc \in {"off", "boot", "init"} => ~synced

\* MarkMeansSet is inductive.
LEMMA MarkInductive == Spec => []MarkMeansSet
<1>1. Init => MarkMeansSet
  BY DEF Init, MarkMeansSet
<1>2. TypeOK /\ MarkMeansSet /\ [Next]_vars => MarkMeansSet'
  <2> SUFFICES ASSUME TypeOK, MarkMeansSet, [Next]_vars PROVE MarkMeansSet'
    OBVIOUS
  <2> USE DEF MarkMeansSet
  <2>1. CASE Tick
    BY <2>1 DEF Tick, flags
  <2>2. CASE InitClock
    BY <2>2 DEF InitClock, flags
  <2>3. CASE InitPower
    BY <2>3 DEF InitPower, backup
  <2>4. CASE Reset
    BY <2>4 DEF Reset, RamCleared, backup
  <2>5. CASE Wake
    BY <2>5 DEF Wake, RamCleared, backup
  <2>6. CASE PowerFails
    BY <2>6 DEF PowerFails, RamCleared, backup
  <2>7. CASE PowerReturns
    BY <2>7 DEF PowerReturns, backup, flags
  <2>8. CASE SetTime
    BY <2>8 DEF SetTime, flags
  <2>9. CASE SetTimeRefused
    BY <2>9 DEF SetTimeRefused, flags
  <2>10. CASE WriteMark
    BY <2>10 DEF WriteMark, flags
  <2>11. CASE SyncDone
    BY <2>11 DEF SyncDone, backup
  <2>12. CASE ReadOffTime
    BY <2>12 DEF ReadOffTime, backup, flags
  <2>13. CASE EnterHardStandby
    BY <2>13 DEF EnterHardStandby, flags
  <2>14. CASE SoftCheck
    BY <2>14 DEF SoftCheck, backup
  <2>15. CASE FallAsleep
    BY <2>15 DEF FallAsleep, backup, flags
  <2>16. CASE HostSetsTimes
    BY <2>16 DEF HostSetsTimes, backup, flags
  <2>17. CASE HostSetsHard
    BY <2>17 DEF HostSetsHard, backup, flags
  <2>18. CASE HostSetsSoft
    BY <2>18 DEF HostSetsSoft, backup, flags
  <2>19. CASE UNCHANGED vars
    BY <2>19 DEF vars, backup, flags
  <2> QED  BY <2>1, <2>2, <2>3, <2>4, <2>5, <2>6, <2>7, <2>8, <2>9, <2>10, <2>11, <2>12, <2>13,
              <2>14, <2>15, <2>16, <2>17, <2>18, <2>19 DEF Next
<1> QED  BY <1>1, <1>2, TypeCorrect, PTL DEF Spec

\* The schedule goes by a clock that was set, or that refused its last setting,
\* and a clock set from a fix is right, through every reset and power failure.
THEOREM ClockIsTrusted == Spec => []ClockTrusted
<1>1. MarkMeansSet => ClockTrusted
  BY DEF MarkMeansSet, ClockTrusted
<1> QED  BY <1>1, MarkInductive, PTL
-----------------------------------------------------------------------------
(* The night.                                                              *)

\* What a division leaves, and what it does not: the hour and the minute of a
\* number of minutes are its only ones.
LEMMA DivisionIsUnique ==
  ASSUME NEW d \in Nat, NEW h \in Nat, NEW r \in Nat, r < d
  PROVE  (d * h + r) \div d = h /\ (d * h + r) % d = r
<1> DEFINE x == d * h + r
           q == x \div d
           s == x % d
<1>1. d > 0 /\ x \in Nat /\ d * h \in Nat
  OBVIOUS
<1>2. q \in Nat /\ s \in Nat /\ s < d /\ x = d * q + s
  BY <1>1
<1>3. d * h + r = d * q + s
  BY <1>2
<1> HIDE DEF x, q, s
<1>4. q = h
  <2>1. CASE q < h
    <3>1. d * (q + 1) <= d * h
      BY <1>1, <1>2, <2>1
    <3>2. d * (q + 1) = d * q + d
      BY <1>2
    <3>3. d * q \in Nat
      BY <1>2
    <3> QED  BY <1>1, <1>2, <1>3, <3>1, <3>2, <3>3
  <2>2. CASE q > h
    <3>1. d * (h + 1) <= d * q
      BY <1>1, <1>2, <2>2
    <3>2. d * (h + 1) = d * h + d
      OBVIOUS
    <3>3. d * q \in Nat
      BY <1>2
    <3> QED  BY <1>1, <1>2, <1>3, <3>1, <3>2, <3>3
  <2> QED  BY <1>2, <2>1, <2>2
<1>5. s = r
  BY <1>1, <1>2, <1>3, <1>4
<1> QED  BY <1>4, <1>5 DEF q, s, x

\* Numbers below a modulus, and those one turn further.
LEMMA OneTurn ==
  ASSUME NEW d \in Nat, NEW x \in Nat, x < d
  PROVE  x % d = x /\ (x + d) % d = x
<1>1. d * 0 + x = x /\ d * 1 + x = x + d
  OBVIOUS
<1>2. (d * 0 + x) % d = x /\ (d * 1 + x) % d = x
  BY DivisionIsUnique
<1> QED  BY <1>1, <1>2

\* How far a time of day lies behind another, by cases.
LEMMA Turns ==
  ASSUME NEW d \in Nat, NEW p \in Nat, NEW a \in Nat, p < d, a < d
  PROVE  (a + d - p) % d = IF p <= a THEN a - p ELSE a + d - p
<1>1. CASE p <= a
  <2>1. a - p \in Nat /\ a - p < d /\ a + d - p = (a - p) + d
    BY <1>1
  <2>2. ((a - p) + d) % d = a - p
    BY <2>1, OneTurn
  <2> QED  BY <1>1, <2>1, <2>2
<1>2. CASE ~(p <= a)
  <2>1. a + d - p \in Nat /\ a + d - p < d
    BY <1>2
  <2>2. (a + d - p) % d = a + d - p
    BY <2>1, OneTurn
  <2> QED  BY <1>2, <2>2
<1> QED  BY <1>1, <1>2

\* A minute later a time of day lies one minute further behind another, until
\* the turn is complete; no two lie equally far.
LEMMA TurnsOn ==
  ASSUME NEW d \in Nat, NEW p \in Nat, NEW a \in Nat, NEW b \in Nat, p < d, a < d, b < d
  PROVE  /\ (a + d - p) % d \in Nat /\ (a + d - p) % d < d
         /\ (a + d - p) % d = (b + d - p) % d => a = b
         /\ ((a + d - p) % d) + 1 < d => (((a + 1) % d) + d - p) % d = ((a + d - p) % d) + 1
<1>1. /\ (a + d - p) % d = IF p <= a THEN a - p ELSE a + d - p
      /\ (b + d - p) % d = IF p <= b THEN b - p ELSE b + d - p
  BY Turns
<1>2. (a + d - p) % d = (b + d - p) % d => a = b
  BY <1>1
<1>3. ASSUME ((a + d - p) % d) + 1 < d
      PROVE  (((a + 1) % d) + d - p) % d = ((a + d - p) % d) + 1
  <2>1. CASE a + 1 < d
    <3>1. (a + 1) % d = a + 1
      BY <2>1, OneTurn
    <3>2. ((a + 1) + d - p) % d = IF p <= a + 1 THEN a + 1 - p ELSE a + 1 + d - p
      <4> DEFINE c == a + 1
      <4>1. c \in Nat /\ c < d
        BY <2>1
      <4> HIDE DEF c
      <4>2. (c + d - p) % d = IF p <= c THEN c - p ELSE c + d - p
        BY <4>1, Turns
      <4> QED  BY <4>2 DEF c
    <3> QED  BY <1>1, <1>3, <2>1, <3>1, <3>2
  <2>2. CASE a + 1 = d
    <3>1. (0 + d) % d = 0
      BY OneTurn
    <3>2. (a + 1) % d = 0
      BY <2>2, <3>1
    <3>3. (0 + d - p) % d = IF p <= 0 THEN 0 - p ELSE 0 + d - p
      BY Turns
    <3> QED  BY <1>1, <1>3, <2>2, <3>2, <3>3
  <2> QED  BY <2>1, <2>2
<1> QED  BY <1>1, <1>2, <1>3

\* The two halves of a packed time.
LEMMA PackedParts ==
  ASSUME NEW h \in Nat, NEW m \in Nat, m < 256
  PROVE  Packed(h, m) \div 256 = h /\ Packed(h, m) % 256 = m
BY DEF Packed

\* A packed time of day: its hour and its minute are a day's.
IsTime(p) == p \in Nat /\ p \div 256 < Hours /\ p % 256 < Minutes

\* How far the time q lies behind the time p.
Behind(p, q) == (MinutesOf(q) + Day - MinutesOf(p)) % Day

\* A day, and the zone within it.
LEMMA DayParts ==
  /\ Hours \in Nat /\ Hours > 0 /\ Hours < 256
  /\ Minutes \in Nat /\ Minutes > 0 /\ Minutes < 256
  /\ Zone \in Nat /\ Zone <= Hours
BY ClockAssumption DEF ClockAssumption

\* The minutes of a time are within the day, and tell its hour and its minute.
LEMMA TimeInDay ==
  ASSUME NEW p, IsTime(p)
  PROVE  /\ MinutesOf(p) \in Nat /\ MinutesOf(p) < Day
         /\ MinutesOf(p) \div Minutes = p \div 256 /\ MinutesOf(p) % Minutes = p % 256
         /\ p = Packed(p \div 256, p % 256)
<1> DEFINE h == p \div 256
           m == p % 256
<1>1. h \in Nat /\ m \in Nat /\ h < Hours /\ m < Minutes /\ p = 256 * h + m
  BY DEF IsTime
<1>2. MinutesOf(p) = Minutes * h + m
  BY <1>1, DayParts DEF MinutesOf
<1> HIDE DEF h, m
<1>3. Minutes * h \in Nat /\ Minutes * (h + 1) <= Minutes * Hours
  BY <1>1, DayParts
<1>4. Minutes * (h + 1) = Minutes * h + Minutes /\ Minutes * Hours = Hours * Minutes
  BY <1>1, DayParts
<1>5. MinutesOf(p) \in Nat /\ MinutesOf(p) < Day
  BY <1>1, <1>2, <1>3, <1>4, DayParts, DayIsPositive DEF Day
<1>6. (Minutes * h + m) \div Minutes = h /\ (Minutes * h + m) % Minutes = m
  BY <1>1, DayParts, DivisionIsUnique
<1> QED  BY <1>1, <1>2, <1>5, <1>6 DEF h, m, Packed

\* A time is known by its minutes.
LEMMA TimesApart ==
  ASSUME NEW p, IsTime(p), NEW q, IsTime(q), MinutesOf(p) = MinutesOf(q)
  PROVE  p = q
<1>1. p \div 256 = q \div 256 /\ p % 256 = q % 256
  BY TimeInDay
<1>2. p = Packed(p \div 256, p % 256) /\ q = Packed(q \div 256, q % 256)
  BY TimeInDay
<1> QED  BY <1>1, <1>2

\* What the RTC shows, in the zone of the registers.
LEMMA LocalIsTime ==
  ASSUME NEW t \in Moments
  PROVE  /\ IsTime(Local(t))
         /\ Local(t) \div 256 = (t \div Minutes + Zone) % Hours
         /\ Local(t) % 256 = t % Minutes
<1>1. t \div Minutes \in 0 .. Hours - 1 /\ t % Minutes \in 0 .. Minutes - 1
  BY MomentParts
<1> DEFINE h == (t \div Minutes + Zone) % Hours
           m == t % Minutes
<1>2. h \in Nat /\ h < Hours /\ m \in Nat /\ m < Minutes /\ m < 256
  BY <1>1, DayParts
<1>3. Local(t) = Packed(h, m)
  BY DEF Local
<1> HIDE DEF h, m
<1>4. Local(t) \div 256 = h /\ Local(t) % 256 = m /\ Local(t) \in Nat
  BY <1>2, <1>3, PackedParts DEF Packed
<1> QED  BY <1>2, <1>4 DEF h, m, IsTime

\* The zone's hour advances with the hour of the RTC.
LEMMA HourAdvances ==
  ASSUME NEW h \in Nat, h < Hours
  PROVE  (((h + 1) % Hours) + Zone) % Hours = (((h + Zone) % Hours) + 1) % Hours
<1> DEFINE s == h + Zone
<1>1. s \in Nat /\ s < Hours + Hours
  BY DayParts
<1>2. CASE h + 1 < Hours
  <2>1. (h + 1) % Hours = h + 1
    BY <1>2, DayParts, OneTurn
  <2>2. CASE s < Hours
    <3>1. s % Hours = s
      BY <1>1, <2>2, DayParts, OneTurn
    <3>2. (h + 1) + Zone = s + 1
      BY DayParts
    <3> QED  BY <2>1, <3>1, <3>2
  <2>3. CASE s >= Hours
    <3> DEFINE r == s - Hours
               q == r + 1
    <3>1. r \in Nat /\ r < Hours /\ r + Hours = s /\ q \in Nat /\ q < Hours /\ q + Hours = (h + 1) + Zone
      BY <1>1, <1>2, <2>3, DayParts
    <3>1a. q = r + 1
      OBVIOUS
    <3> HIDE DEF r, q, s
    <3>2. s % Hours = r /\ ((h + 1) + Zone) % Hours = q /\ q % Hours = q
      BY <3>1, DayParts, OneTurn
    <3> QED  BY <2>1, <3>1a, <3>2 DEF s
  <2> QED  BY <1>1, <2>2, <2>3, DayParts
<1>3. CASE h + 1 = Hours
  <2>1. (h + 1) % Hours = 0
    <3>1. (0 + Hours) % Hours = 0
      BY DayParts, OneTurn
    <3> QED  BY <1>3, <3>1, DayParts
  <2>2. CASE Zone = 0
    <3>1. s = h /\ h % Hours = h
      BY <2>2, DayParts, OneTurn
    <3>2. (0 + Zone) % Hours = 0
      BY <2>2, DayParts, OneTurn
    <3> QED  BY <2>1, <3>1, <3>2
  <2>3. CASE Zone > 0
    <3> DEFINE r == Zone - 1
    <3>1. r \in Nat /\ r < Hours /\ r + Hours = s /\ r + 1 = Zone
      BY <1>3, <2>3, DayParts
    <3> HIDE DEF r, s
    <3>2. s % Hours = r
      BY <3>1, DayParts, OneTurn
    <3>3. 0 + Zone = Zone
      BY DayParts
    <3> QED  BY <2>1, <3>1, <3>2, <3>3 DEF s
  <2> QED  BY <2>2, <2>3, DayParts
<1> QED  BY <1>2, <1>3, DayParts

\* The zone's minutes advance with the RTC.
LEMMA LocalAdvances ==
  ASSUME NEW t \in Moments
  PROVE  MinutesOf(Local((t + 1) % Day)) = (MinutesOf(Local(t)) + 1) % Day
<1> DEFINE h == t \div Minutes
           m == t % Minutes
           u == (t + 1) % Day
           z == (h + Zone) % Hours
<1>1. h \in Nat /\ h < Hours /\ m \in Nat /\ m < Minutes /\ t \in Nat /\ t < Day /\ u \in Moments
  BY MomentParts, DayMoves, DayIsPositive, DayParts DEF Moments
<1>2. t = Minutes * h + m
  BY <1>1, DayParts
<1>3. MinutesOf(Local(t)) = Minutes * z + m
  BY <1>1, LocalIsTime DEF MinutesOf
<1>4. MinutesOf(Local(u)) = Minutes * ((u \div Minutes + Zone) % Hours) + (u % Minutes)
  BY <1>1, LocalIsTime DEF MinutesOf
<1>5. z \in Nat /\ z < Hours
  BY <1>1, DayParts
<1>5a. u = (t + 1) % Day
  OBVIOUS
<1>5b. z = (h + Zone) % Hours
  OBVIOUS
<1>5c. (MinutesOf(Local(t)) + 1) % Day = (Minutes * z + m + 1) % Day
  BY <1>3
<1> HIDE DEF h, m, u, z
<1>6. Day = Minutes * Hours /\ Day \in Nat
  BY DayParts, DayIsPositive DEF Day
<1>7. ASSUME NEW x \in Nat, x < Hours, NEW r \in Nat, r < Minutes
      PROVE  /\ Minutes * x + r \in Nat /\ Minutes * x + r < Day
             /\ (Minutes * x + r) \div Minutes = x /\ (Minutes * x + r) % Minutes = r
  <2>1. Minutes * (x + 1) <= Minutes * Hours /\ Minutes * x \in Nat
    BY <1>7, DayParts
  <2>2. Minutes * (x + 1) = Minutes * x + Minutes
    BY DayParts
  <2> QED  BY <1>6, <1>7, <2>1, <2>2, DayParts, DivisionIsUnique
<1>10. ASSUME NEW x \in Nat, x < Hours
       PROVE  /\ Minutes * x \in Nat /\ Minutes * x < Day
              /\ (Minutes * x) \div Minutes = x /\ (Minutes * x) % Minutes = 0
  <2> DEFINE o == 0
  <2>1. o \in Nat /\ o < Minutes /\ o = 0
    BY DayParts
  <2> HIDE DEF o
  <2>2. /\ Minutes * x + o \in Nat /\ Minutes * x + o < Day
        /\ (Minutes * x + o) \div Minutes = x /\ (Minutes * x + o) % Minutes = o
    BY <1>7, <1>10, <2>1
  <2>3. Minutes * x + o = Minutes * x
    BY <1>10, <2>1, DayParts
  <2> QED  BY <2>1, <2>2, <2>3
<1>8. CASE m + 1 < Minutes
  <2> DEFINE r == m + 1
  <2>1. r \in Nat /\ r < Minutes
    BY <1>1, <1>8
  <2>2. t + 1 = Minutes * h + r
    BY <1>1, <1>2, DayParts
  <2>3. Minutes * z + m + 1 = Minutes * z + r
    BY <1>1, <1>5, DayParts
  <2> HIDE DEF r
  <2>4. /\ Minutes * h + r \in Nat /\ Minutes * h + r < Day
        /\ (Minutes * h + r) \div Minutes = h /\ (Minutes * h + r) % Minutes = r
        /\ Minutes * z + r \in Nat /\ Minutes * z + r < Day
    BY <1>1, <1>5, <1>7, <2>1
  <2>5. u = Minutes * h + r
    BY <1>5a, <1>6, <2>2, <2>4, OneTurn
  <2>6. (Minutes * z + r) % Day = Minutes * z + r
    BY <1>6, <2>4, OneTurn
  <2> QED  BY <1>4, <1>5b, <1>5c, <2>3, <2>4, <2>5, <2>6 DEF u
<1>9. CASE m + 1 = Minutes
  <2>1. t + 1 = Minutes * (h + 1)
    BY <1>1, <1>2, <1>9, DayParts
  <2>2. Minutes * z + m + 1 = Minutes * (z + 1)
    BY <1>1, <1>5, <1>9, DayParts
  <2>3. ASSUME NEW x \in Nat, x < Hours
        PROVE  (Minutes * (x + 1)) % Day = Minutes * ((x + 1) % Hours) /\ (x + 1) % Hours \in Nat
               /\ (x + 1) % Hours < Hours
    <3>1. CASE x + 1 < Hours
      <4> DEFINE y == x + 1
      <4>1. y \in Nat /\ y < Hours
        BY <3>1
      <4> HIDE DEF y
      <4>2. y % Hours = y
        BY <4>1, DayParts, OneTurn
      <4>3. Minutes * y \in Nat /\ Minutes * y < Day
        BY <1>10, <4>1
      <4>4. (Minutes * y) % Day = Minutes * y
        BY <1>6, <4>3, OneTurn
      <4> QED  BY <4>1, <4>2, <4>4 DEF y
    <3>2. CASE x + 1 = Hours
      <4>1. (0 + Hours) % Hours = 0 /\ (0 + Day) % Day = 0
        BY <1>6, DayParts, DayIsPositive, OneTurn
      <4>2. (x + 1) % Hours = 0 /\ Minutes * (x + 1) = Day
        BY <1>6, <3>2, <4>1, DayParts
      <4> QED  BY <1>6, <4>1, <4>2, DayParts
    <3> QED  BY <2>3, <3>1, <3>2, DayParts
  <2>4. u = Minutes * ((h + 1) % Hours) /\ (h + 1) % Hours \in Nat /\ (h + 1) % Hours < Hours
    BY <1>1, <1>5a, <2>1, <2>3
  <2>5. (Minutes * (z + 1)) % Day = Minutes * ((z + 1) % Hours)
    BY <1>5, <2>3
  <2>6. u \div Minutes = (h + 1) % Hours /\ u % Minutes = 0
    <3> DEFINE y == (h + 1) % Hours
    <3>1. y \in Nat /\ y < Hours /\ u = Minutes * y
      BY <2>4
    <3> HIDE DEF y
    <3>2. (Minutes * y) \div Minutes = y /\ (Minutes * y) % Minutes = 0
      BY <1>10, <3>1
    <3> QED  BY <3>1, <3>2 DEF y
  <2>7. (((h + 1) % Hours) + Zone) % Hours = (z + 1) % Hours
    BY <1>1, <1>5b, HourAdvances
  <2>8. Minutes * ((z + 1) % Hours) + 0 = Minutes * ((z + 1) % Hours)
    BY <1>5, DayParts
  <2> QED  BY <1>4, <1>5c, <2>2, <2>5, <2>6, <2>7, <2>8 DEF u
<1> QED  BY <1>1, <1>8, <1>9, DayParts

\* The alarm for a power-on time rings in the minute that shows that time in the
\* zone of the registers: the way back to UTC undoes the way there.
LEMMA AlarmRingsAtOnTime ==
  ASSUME NEW t \in Moments
  PROVE  AlarmFor(Local(t)) = Utc(t)
<1> DEFINE h == t \div Minutes
           z == (h + Zone) % Hours
<1>1. h \in Nat /\ h < Hours
  BY MomentParts, DayParts
<1>2. Local(t) \div 256 = z /\ Local(t) % 256 = t % Minutes
  BY LocalIsTime
<1>3. UtcHour(z) = (z + Hours - Zone) % Hours
  BY DEF UtcHour
<1>4. Utc(t) = Packed(h, t % Minutes)
  BY DEF Utc
<1>5. AlarmFor(Local(t)) = Packed(UtcHour(z), t % Minutes)
  BY <1>2 DEF AlarmFor
<1>5a. z = (h + Zone) % Hours
  OBVIOUS
<1> HIDE DEF h, z
<1>6. (z + Hours - Zone) % Hours = h
  <2> DEFINE s == h + Zone
  <2>1. CASE s < Hours
    <3>1. z = s /\ s \in Nat
      BY <1>1, <1>5a, <2>1, DayParts, OneTurn
    <3>2. z + Hours - Zone = h + Hours
      BY <1>1, <3>1, DayParts
    <3> QED  BY <1>1, <3>2, DayParts, OneTurn
  <2>2. CASE s >= Hours
    <3> DEFINE r == s - Hours
    <3>1. r \in Nat /\ r < Hours /\ r + Hours = s /\ s = h + Zone
      BY <1>1, <2>2, DayParts
    <3> HIDE DEF r, s
    <3>2. (r + Hours) % Hours = r
      BY <3>1, DayParts, OneTurn
    <3>3. z = r
      BY <1>5a, <3>1, <3>2
    <3>4. z + Hours - Zone = h
      BY <1>1, <3>1, <3>3, DayParts
    <3> QED  BY <1>1, <3>4, DayParts, OneTurn
  <2> QED  BY <1>1, <2>1, <2>2, DayParts
<1> QED  BY <1>3, <1>4, <1>5, <1>6

\* How far a moment lies behind a time is less than a day; it is how far the
\* moment's minute of the zone lies behind it, which tells the moment; and it
\* grows with the RTC.
LEMMA BehindGrows ==
  ASSUME NEW p, IsTime(p), NEW q, IsTime(q), NEW t \in Moments
  PROVE  /\ After(p, t) = Behind(p, Local(t))
         /\ After(p, t) \in Nat /\ Behind(p, q) \in Nat /\ Behind(p, q) < Day
         /\ After(p, t) = Behind(p, q) => q = Local(t)
         /\ Behind(p, q) = 0 => p = q
         /\ After(p, t) + 1 < Day => After(p, (t + 1) % Day) = After(p, t) + 1
<1> DEFINE a == MinutesOf(p)
           b == MinutesOf(q)
           c == MinutesOf(Local(t))
<1>1. /\ a \in Nat /\ a < Day /\ b \in Nat /\ b < Day /\ c \in Nat /\ c < Day
      /\ IsTime(Local(t)) /\ Day \in Nat
  BY TimeInDay, LocalIsTime, DayIsPositive
<1>2. After(p, t) = (c + Day - a) % Day /\ Behind(p, q) = (b + Day - a) % Day
  BY DEF After, Behind
<1>3. After(p, (t + 1) % Day) = (((c + 1) % Day) + Day - a) % Day
  BY LocalAdvances DEF After
<1>4. b = c => q = Local(t)
  BY <1>1, TimesApart
<1>5. a = b => p = q
  BY TimesApart
<1>6. After(p, t) = Behind(p, Local(t))
  BY DEF After, Behind
<1> HIDE DEF a, b, c
<1>7. /\ (c + Day - a) % Day \in Nat /\ (b + Day - a) % Day \in Nat /\ (b + Day - a) % Day < Day
      /\ (c + Day - a) % Day = (b + Day - a) % Day => c = b
      /\ ((c + Day - a) % Day) + 1 < Day
           => (((c + 1) % Day) + Day - a) % Day = ((c + Day - a) % Day) + 1
  BY <1>1, TurnsOn
<1>8. (b + Day - a) % Day = 0 => a = b
  <2>1. (b + Day - a) % Day = IF a <= b THEN b - a ELSE b + Day - a
    BY <1>1, Turns
  <2> QED  BY <1>1, <2>1
<1> QED  BY <1>2, <1>3, <1>4, <1>5, <1>6, <1>7, <1>8

\* A night that hard standby was entered with and that has an end.
Ends == night.taken /\ IsTime(night.on) /\ night.on # night.off

\* From the decision for hard standby to the wake the RTC is not set, its alarm
\* is the end of the night, and it shows a minute of the night: in the first one
\* while the 300 ms last in which it may advance once.
NightInvariant ==
  pc \in {"dozing", "dozed", "asleep"} =>
    /\ IsTime(night.off)
    /\ Ends => /\ alarm = AlarmFor(night.on)
               /\ After(night.off, rtc) <= Behind(night.off, night.on)
               /\ pc = "dozing" => After(night.off, rtc) = 0

\* A minute that passes while the processor falls asleep or sleeps is not the
\* last of the night, since in that one the alarm rings.
LEMMA TickStaysInNight ==
  ASSUME TypeOK, NightInvariant, Tick
  PROVE  NightInvariant'
<1>1. /\ pc # "dozed" /\ ~(pc = "asleep" /\ alarm = Utc(rtc))
      /\ rtc' = (rtc + 1) % Day /\ alarm' = alarm /\ night' = night
      /\ pc' = IF pc = "dozing" THEN "dozed" ELSE pc
      /\ rtc \in Moments
  BY DEF Tick, TypeOK
<1>2. CASE pc \in {"dozing", "asleep"}
  <2>1. IsTime(night.off)
    BY <1>2 DEF NightInvariant
  <2>2. ASSUME Ends
        PROVE  After(night.off, rtc') <= Behind(night.off, night.on)
    <3>1. /\ alarm = AlarmFor(night.on)
          /\ After(night.off, rtc) <= Behind(night.off, night.on)
          /\ pc = "dozing" => After(night.off, rtc) = 0
      BY <1>2, <2>2 DEF NightInvariant
    <3>2. /\ After(night.off, rtc) \in Nat
          /\ Behind(night.off, night.on) \in Nat /\ Behind(night.off, night.on) < Day
          /\ After(night.off, rtc) = Behind(night.off, night.on) => night.on = Local(rtc)
          /\ Behind(night.off, night.on) = 0 => night.off = night.on
          /\ After(night.off, rtc) + 1 < Day
               => After(night.off, (rtc + 1) % Day) = After(night.off, rtc) + 1
      BY <1>1, <2>1, <2>2, BehindGrows DEF Ends
    <3>3. After(night.off, rtc) # Behind(night.off, night.on)
      <4>1. CASE pc = "dozing"
        BY <2>2, <3>1, <3>2, <4>1 DEF Ends
      <4>2. CASE pc = "asleep"
        <5>1. night.on = Local(rtc) => alarm = Utc(rtc)
          BY <1>1, <3>1, AlarmRingsAtOnTime
        <5> QED  BY <1>1, <3>2, <4>2, <5>1
      <4> QED  BY <1>2, <4>1, <4>2
    <3>4. After(night.off, rtc) + 1 <= Behind(night.off, night.on) /\ After(night.off, rtc) + 1 < Day
      BY <3>1, <3>2, <3>3, DayIsPositive
    <3> QED  BY <1>1, <3>2, <3>4
  <2>3. pc' # "dozing"
    BY <1>1, <1>2
  <2> QED  BY <1>1, <2>1, <2>2, <2>3 DEF NightInvariant, Ends
<1>3. CASE pc \notin {"dozing", "asleep"}
  BY <1>1, <1>3 DEF NightInvariant
<1> QED  BY <1>2, <1>3

\* The night begins in the minute of the power-off time.
LEMMA NightBegins ==
  ASSUME TypeOK, EnterHardStandby
  PROVE  NightInvariant'
<1>1. PICK taken \in BOOLEAN :
        /\ alarm' = IF taken THEN AlarmFor(times.on) ELSE NoAlarm
        /\ night' = [off |-> offRead, on |-> times.on, taken |-> taken]
  BY DEF EnterHardStandby
<1>2. Local(rtc) = offRead /\ rtc' = rtc /\ rtc \in Moments
  BY DEF EnterHardStandby, HardDue, TypeOK
<1>3. night'.off = Local(rtc) /\ IsTime(Local(rtc)) /\ night'.on = times.on /\ night'.taken = taken
  BY <1>1, <1>2, LocalIsTime
<1>4. ASSUME Ends'
      PROVE  /\ alarm' = AlarmFor(night'.on)
             /\ After(night'.off, rtc') = 0
             /\ After(night'.off, rtc') <= Behind(night'.off, night'.on)
  <2>1. taken /\ IsTime(times.on)
    BY <1>3, <1>4 DEF Ends
  <2>2. After(Local(rtc), rtc) = 0
    <3>1. After(Local(rtc), rtc) = (MinutesOf(Local(rtc)) + Day - MinutesOf(Local(rtc))) % Day
      BY DEF After
    <3>2. MinutesOf(Local(rtc)) \in Nat /\ Day \in Nat /\ MinutesOf(Local(rtc)) < Day
      BY <1>3, TimeInDay, DayIsPositive
    <3> DEFINE a == MinutesOf(Local(rtc))
    <3>3. (a + Day - a) % Day = IF a <= a THEN a - a ELSE a + Day - a
      <4>1. a \in Nat /\ a < Day
        BY <3>2
      <4> HIDE DEF a
      <4> QED  BY <3>2, <4>1, Turns
    <3> QED  BY <3>1, <3>2, <3>3
  <2>3. Behind(Local(rtc), times.on) \in Nat
    BY <1>2, <1>3, <2>1, BehindGrows
  <2> QED  BY <1>1, <1>2, <1>3, <2>1, <2>2, <2>3
<1> QED  BY <1>3, <1>4 DEF NightInvariant

\* NightInvariant is inductive.
LEMMA NightAlways == Spec => []NightInvariant
<1>1. Init => NightInvariant
  BY DEF Init, NightInvariant
<1>2. TypeOK /\ NightInvariant /\ [Next]_vars => NightInvariant'
  <2> SUFFICES ASSUME TypeOK, NightInvariant, [Next]_vars PROVE NightInvariant'
    OBVIOUS
  <2>1. CASE Tick
    BY <2>1, TickStaysInNight
  <2>2. CASE EnterHardStandby
    BY <2>2, NightBegins
  <2>3. CASE InitClock \/ InitPower \/ Reset \/ Wake \/ PowerFails \/ PowerReturns
    <3>1. pc' \notin {"dozing", "dozed", "asleep"}
      BY <2>3 DEF InitClock, InitPower, Reset, Wake, PowerFails, PowerReturns
    <3> QED  BY <3>1 DEF NightInvariant
  <2>4. CASE SetTime \/ SetTimeRefused \/ WriteMark \/ SyncDone \/ ReadOffTime \/ SoftCheck
    <3>1. pc' \notin {"dozing", "dozed", "asleep"}
      BY <2>4 DEF SetTime, SetTimeRefused, WriteMark, SyncDone, ReadOffTime, SoftCheck
    <3> QED  BY <3>1 DEF NightInvariant
  <2>5. CASE FallAsleep
    <3>1. pc \in {"dozing", "dozed"} /\ pc' = "asleep" /\ UNCHANGED <<rtc, alarm, night>>
      BY <2>5 DEF FallAsleep, backup
    <3> QED  BY <3>1 DEF NightInvariant, Ends
  <2>6. CASE HostSetsTimes \/ HostSetsHard \/ HostSetsSoft \/ UNCHANGED vars
    <3>1. UNCHANGED <<pc, rtc, alarm, night>>
      BY <2>6 DEF HostSetsTimes, HostSetsHard, HostSetsSoft, vars, backup
    <3> QED  BY <3>1 DEF NightInvariant, Ends
  <2> QED  BY <2>1, <2>2, <2>3, <2>4, <2>5, <2>6 DEF Next
<1> QED  BY <1>1, <1>2, TypeCorrect, PTL DEF Spec

\* SleepsOnlyAtNight, for every length of the day, zone and schedule: a
\* controller in hard standby whose clock was set from a fix and whose alarm was
\* taken sleeps in the night it was told to and in no other minute.
THEOREM StandbyKeepsToTheNight == Spec => []SleepsOnlyAtNight
<1>1. TypeOK /\ MarkMeansSet /\ NightInvariant => SleepsOnlyAtNight
  <2> SUFFICES ASSUME TypeOK, MarkMeansSet, NightInvariant,
                      pc = "asleep", source = "fix", night.taken,
                      night.on % 256 < Minutes, night.on \div 256 < Hours, night.on # night.off
               PROVE  After(night.off, real)
                        <= (MinutesOf(night.on) + Day - MinutesOf(night.off)) % Day
    BY DEF SleepsOnlyAtNight
  <2>1. rtc = real
    BY DEF MarkMeansSet
  <2>2. Ends
    BY DEF Ends, IsTime, TypeOK, Words
  <2> QED  BY <2>1, <2>2 DEF NightInvariant, Behind
<1> QED  BY <1>1, TypeCorrect, MarkInductive, NightAlways, PTL
=============================================================================
