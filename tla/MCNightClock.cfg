SPECIFICATION Spec
CONSTANTS
  Hours = 4
  Minutes = 2
  Zone = 3
  Schedules <- MCSchedules
INVARIANTS
  TypeOK
  ClockTrusted
  SleepsOnlyAtNight
