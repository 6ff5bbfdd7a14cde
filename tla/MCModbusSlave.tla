--------------------------- MODULE MCModbusSlave ---------------------------
(* ModbusSlave with frames of three and four bytes and a ring that two of    *)
(* them fill, and one of six that a gap makes two of.  The bank has its 256  *)
(* registers: requests are chosen at the boundaries of the checks.           *)
EXTENDS ModbusSlave

Q(to, fc, start, count, size) ==
  [to |-> to, fc |-> fc, start |-> start, count |-> count, size |-> size]

ReadAll     == Q(1, "read_regs", 131, 125, 3)
ReadBeyond  == Q(1, "read_input", 132, 125, 3)
ReadTooMany == Q(1, "read_regs", 0, 126, 3)
ReadOther   == Q(2, "read_regs", 0, 1, 3)
SetTimes(to) == Q(to, "write_regs", STATUS_POWER_OFF_TIME, 2, 4)
LongTimes   == [SetTimes(1) EXCEPT !.size = 6]
LastCoil    == Q(1, "write_coil", 4080, 0, 3)
Odd         == Q(1, "unsupported", 0, 0, 3)
CoilsAcross == Q(1, "read_coils", 4081, 16, 3)
CoilsBeyond == Q(1, "write_coils", 4080, 17, 4)
CoilsUnsent == Q(1, "read_coils", 0, 2001, 3)

MCScripts == {<<SetTimes(1), ReadAll, SetTimes(1)>>, <<SetTimes(0), LastCoil, ReadBeyond>>,
              <<ReadOther, CoilsAcross, CoilsBeyond>>, <<LongTimes, LastCoil, Odd>>, <<CoilsUnsent, ReadTooMany, Odd>>}
=============================================================================
