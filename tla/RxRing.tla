------------------------------- MODULE RxRing -------------------------------
(***************************************************************************)
(* The ring between the receive interrupt of a UART and the thread that    *)
(* reads it (lwrb, process_ring_buffer).  The interrupt preempts the       *)
(* thread, so a write is one step; it may come between any two of the      *)
(* thread's loads, copied bytes and stores.  The thread is app_4g_update:  *)
(* it looks how much there is, reads at most its buffer, and works through *)
(* what it read.                                                           *)
(***************************************************************************)
EXTENDS Naturals, Sequences

CONSTANTS
  RingSize,  (* process_buffer_size                                        *)
  ReadMax,   (* sizeof(to_read_buffer)                                     *)
  NoByte     (* what the memory of the ring holds before it is written     *)

VARIABLES
  buff,      (* the memory                                                 *)
  w,         (* w_ptr                                                      *)
  r,         (* r_ptr                                                      *)
  rpc,       (* where the reading thread stands                            *)
  want,      (* to_read, then btr in lwrb_read_ex                          *)
  got        (* to_read_buffer: what was copied and not yet worked through *)

memory == <<buff, w>>
reader == <<rpc, want, got>>
ring   == <<memory, r, reader>>

\* The ring of bytes of the set Byte.
RingTypeOK(Byte) ==
  /\ buff \in [0 .. RingSize - 1 -> Byte \cup {NoByte}]
  /\ w \in 0 .. RingSize - 1
  /\ r \in 0 .. RingSize - 1
  /\ rpc \in {"idle", "looked", "copy", "parse"}
  /\ want \in 0 .. ReadMax
  /\ got \in Seq(Byte) /\ Len(got) <= ReadMax

\* lwrb_init; the thread has read nothing.
RingInit ==
  /\ buff = [i \in 0 .. RingSize - 1 |-> NoByte]
  /\ w = 0
  /\ r = 0
  /\ rpc = "idle"
  /\ want = 0
  /\ got = <<>>

-----------------------------------------------------------------------------
(* What both sides compute from the two pointers.                          *)

Least(a, b) == IF a < b THEN a ELSE b

\* The first n elements of s, or all of it.
Front(s, n) == SubSeq(s, 1, Least(n, Len(s)))

\* lwrb_get_full, lwrb_get_free: one place stays empty.
Full == IF w >= r THEN w - r ELSE RingSize - (r - w)
Free == (IF w >= r THEN RingSize - (w - r) ELSE r - w) - 1

\* Place that misses the end of the buffer by one.
PlaceLate(p, n) == IF p + n > RingSize THEN p + n - RingSize ELSE p + n

\* The place n after place p: "check end of buffer".
Place(p, n) == IF p + n >= RingSize THEN p + n - RingSize ELSE p + n

\* How far place i is after place p.
Offset(p, i) == IF i >= p THEN i - p ELSE i + RingSize - p

\* The bytes between the pointers, oldest first.
Stored == [i \in 1 .. Full |-> buff[Place(r, i - 1)]]

-----------------------------------------------------------------------------
(* The writer.                                                             *)

\* lwrb_write_ex, in the two memcpys and the store of w_ptr.
LwrbWrite(bytes) ==
  /\ buff' = [i \in 0 .. RingSize - 1 |->
                IF Offset(w, i) < Len(bytes) THEN bytes[Offset(w, i) + 1] ELSE buff[i]]
  /\ w' = Place(w, Len(bytes))

\* uart_manage_write_to_recv_ring: what does not fit is cut off, and a write
\* that finds no room leaves the ring alone.
Fitting(bytes) == Front(bytes, Free)

WriteToRing(bytes) ==
  IF Fitting(bytes) = <<>> THEN UNCHANGED memory ELSE LwrbWrite(Fitting(bytes))

-----------------------------------------------------------------------------
(* The reader.                                                             *)

\* lwrb_get_full before the read; an empty ring ends the pass.
Look ==
  /\ rpc = "idle"
  /\ Full > 0
  /\ want' = Least(Full, ReadMax)
  /\ rpc' = "looked"
  /\ UNCHANGED <<memory, r, got>>

\* StartRead that gives the places back before the bytes are copied.
StartReadReleasing ==
  /\ rpc = "looked"
  /\ want' = Least(Full, want)
  /\ got' = [i \in 1 .. Least(Full, want) |-> buff[Place(r, i - 1)]]
  /\ r' = Place(r, Least(Full, want))
  /\ rpc' = "copy"
  /\ UNCHANGED memory

\* lwrb_read_ex looks again.
StartRead ==
  /\ rpc = "looked"
  /\ want' = Least(Full, want)
  /\ got' = <<>>
  /\ rpc' = "copy"
  /\ UNCHANGED <<memory, r>>

\* One byte of the two memcpys.
CopyByte ==
  /\ rpc = "copy"
  /\ Len(got) < want
  /\ got' = Append(got, buff[Place(r, Len(got))])
  /\ UNCHANGED <<memory, r, rpc, want>>

\* ReleasePlaces that keeps r_ptr, as lwrb_peek does.
ReleasePlacesPeek ==
  /\ rpc = "copy"
  /\ Len(got) = want
  /\ rpc' = "parse"
  /\ UNCHANGED <<memory, r, want, got>>

\* The store of r_ptr gives the places back to the writer.
ReleasePlaces ==
  /\ rpc = "copy"
  /\ Len(got) = want
  /\ r' = Place(r, want)
  /\ rpc' = "parse"
  /\ UNCHANGED <<memory, want, got>>

\* The thread works through one byte of what it read, then looks again.
UseByte ==
  /\ rpc = "parse"
  /\ got' = Tail(got)
  /\ rpc' = IF Len(got) = 1 THEN "idle" ELSE "parse"
  /\ UNCHANGED <<memory, r, want>>

\* What the thread has read and not yet worked through.
Hand == IF rpc = "parse" THEN got ELSE <<>>
=============================================================================
