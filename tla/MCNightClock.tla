---------------------------- MODULE MCNightClock ----------------------------
(* Instance of NightClock for TLC: a day of four hours of two minutes, and  *)
(* a night of one minute, one across midnight, an empty one, and one whose  *)
(* end is no time of day.                                                   *)
EXTENDS NightClock

Pair(offHour, offMinute, onHour, onMinute) ==
  [off |-> Packed(offHour, offMinute), on |-> Packed(onHour, onMinute)]

MCSchedules == {Pair(1, 1, 2, 0), Pair(3, 0, 0, 1), Pair(2, 1, 2, 1), Pair(0, 1, 3, 2)}
=============================================================================
