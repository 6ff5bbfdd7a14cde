----------------------------- MODULE ByteQueue -----------------------------
(***************************************************************************)
(* What a receive ring of the UART manager promises to its one writer (the *)
(* receive interrupt) and its one reader (a thread): a bounded queue.  A   *)
(* write appends, a read hands over the oldest bytes as one block, and the *)
(* reader works through the block byte by byte before it reads again.      *)
(***************************************************************************)
EXTENDS Naturals, Sequences

CONSTANTS
  Byte,      (* what is queued                                             *)
  Capacity,  (* the most the queue holds                                   *)
  ReadMax    (* the most that one read hands over                          *)

VARIABLES
  queue,     (* written and not yet handed over, oldest first              *)
  hand       (* what the reader was handed and has not worked through      *)

vars == <<queue, hand>>

Init == queue = <<>> /\ hand = <<>>

\* A write appends what fits and touches nothing else.
Write ==
  /\ queue' \in Seq(Byte)
  /\ Len(queue') \in Len(queue) + 1 .. Capacity
  /\ SubSeq(queue', 1, Len(queue)) = queue
  /\ UNCHANGED hand

\* A read moves the oldest n bytes.
Read(n) ==
  /\ hand = <<>>
  /\ hand' = SubSeq(queue, 1, n)
  /\ queue' = SubSeq(queue, n + 1, Len(queue))

\* The reader works through one byte.
Use ==
  /\ hand # <<>>
  /\ hand' = Tail(hand)
  /\ UNCHANGED queue

Next ==
  \/ Write
  \/ \E n \in 1 .. Len(queue) : n <= ReadMax /\ Read(n)
  \/ Use

Spec == Init /\ [][Next]_vars
=============================================================================
