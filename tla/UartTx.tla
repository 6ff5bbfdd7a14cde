------------------------------- MODULE UartTx -------------------------------
(***************************************************************************)
(* The transmit side of one interface of the UART manager, as the "4g"     *)
(* interface uses it: a task sends, AT replies are sent from the receive   *)
(* interrupt, the transmit-complete interrupt continues from the FIFO.     *)
(* The task may be interrupted between any two of its accesses to what     *)
(* they share; the interrupts have one priority and do not nest.           *)
(*                                                                         *)
(* A byte is the message it belongs to and its position.  The DMA reads    *)
(* one byte of the buffer a step.  A copy into the buffer is one step, as  *)
(* is a call of the HAL.  The FIFO masks interrupts, so a put is one too.  *)
(***************************************************************************)
EXTENDS Naturals, Sequences, SequencesExt

CONSTANTS
  BufferSize,   (* send_buffer_size                                          *)
  FifoSize,     (* send_fifo_size                                            *)
  Lengths,      (* the lengths of the messages that are sent                 *)
  MaxSends      (* bound on the messages of a behaviour                      *)

ASSUME UartAssumption ==
  /\ BufferSize \in Nat \ {0}
  /\ FifoSize \in Nat
  /\ Lengths \subseteq Nat \ {0}
  /\ MaxSends \in Nat

VARIABLES
  isSending,    (* is_sending                                                *)
  busy,         (* gState = HAL_UART_STATE_BUSY_TX                           *)
  buffer,       (* send_buffer, as far as it was ever written                *)
  len,          (* the bytes of it that the DMA was given                    *)
  pos,          (* how many of them it has read                              *)
  fifo,         (* send_fifo                                                 *)
  pc,           (* where the task stands in uart_manage_dma_send_impl        *)
  direct,       (* the part of its message that goes to the buffer           *)
  rest,         (* the part that goes to the FIFO                            *)
  sends,        (* messages sent so far                                      *)
  wire,         (* the bytes that left, in order                             *)
  accepted,     (* the bytes handed to the DMA or to the FIFO, in order      *)
  upset         (* what has happened that breaks the order: see Upsets       *)

driver == <<isSending, busy, buffer, len, pos, fifo>>
task   == <<pc, direct, rest>>
vars   == <<driver, task, sends, wire, accepted, upset>>

\* "late":    the transmission ended between the task's decision for the FIFO
\*            and its put;
\* "reply":   a reply was sent between the task's decision for the buffer and
\*            the start of its transmission;
\* "error":   the error callback of the receive side cleared is_sending over a
\*            transmission, or over one about to start;
\* "aborted": a DMA error ended a transmission before its last byte.
Upsets == {"late", "reply", "error", "aborted"}

\* The n bytes of message m.
Message(m, n) == [i \in 1 .. n |-> <<m, i>>]

Bytes == (1 .. MaxSends) \X (Nat \ {0})

TypeOK ==
  /\ isSending \in BOOLEAN
  /\ busy \in BOOLEAN
  /\ buffer \in Seq(Bytes) /\ Len(buffer) <= BufferSize
  /\ len \in 0 .. Len(buffer)
  /\ pos \in 0 .. len
  /\ fifo \in Seq(Bytes) /\ Len(fifo) <= FifoSize
  /\ pc \in {"idle", "flag", "state", "clear", "choose", "copy", "raise", "start", "fail", "put"}
  /\ direct \in Seq(Bytes)
  /\ rest \in Seq(Bytes)
  /\ sends \in 0 .. MaxSends
  /\ wire \in Seq(Bytes)
  /\ accepted \in Seq(Bytes)
  /\ upset \in SUBSET Upsets

\* uart_manage_register_interface
Init ==
  /\ isSending = FALSE
  /\ busy = FALSE
  /\ buffer = <<>>
  /\ len = 0
  /\ pos = 0
  /\ fifo = <<>>
  /\ pc = "idle"
  /\ direct = <<>>
  /\ rest = <<>>
  /\ sends = 0
  /\ wire = <<>>
  /\ accepted = <<>>
  /\ upset = {}

-----------------------------------------------------------------------------
(* What both senders do with a message.                                    *)

\* The first n bytes of s, and what follows them.
First(s, n) == SubSeq(s, 1, IF n < Len(s) THEN n ELSE Len(s))
After(s, n) == SubSeq(s, n + 1, Len(s))

\* memcpy to the start of the buffer.
Copied(bytes) == bytes \o After(buffer, Len(bytes))

\* RestPart that starts at the last byte of the direct part.
RestPartOverlaps(msg) == After(First(msg, BufferSize + FifoSize), BufferSize - 1)

\* With the transmitter idle a message fills the buffer first, then the FIFO;
\* what exceeds both is cut off.
DirectPart(msg) == First(msg, BufferSize)
RestPart(msg)   == After(First(msg, BufferSize + FifoSize), BufferSize)

\* fifo_s_puts without the test for room.
FittingAll(bytes) == bytes

\* fifo_s_puts takes what there is room for.
Fitting(bytes) == First(bytes, FifoSize - Len(fifo))

\* The bytes still to be read by the DMA.
InFlight == IF busy THEN SubSeq(buffer, pos + 1, len) ELSE <<>>

-----------------------------------------------------------------------------
(* uart_manage_dma_send_impl, called by the task.                          *)

NewMessage(n) ==
  /\ sends < MaxSends
  /\ n \in Lengths
  /\ sends' = sends + 1

TaskSends ==
  /\ pc = "idle"
  /\ pc' = "flag"
  /\ \E n \in Lengths : NewMessage(n) /\ direct' = Message(sends', n)
  /\ UNCHANGED <<driver, rest, wire, accepted, upset>>

\* TaskReadsState that takes every flag for stale.
TaskReadsStateAlwaysStale ==
  /\ pc = "state"
  /\ pc' = "clear"
  /\ UNCHANGED <<driver, direct, rest, sends, wire, accepted, upset>>

\* The flag is taken to be stale when the transmitter is ready.
TaskReadsFlag ==
  /\ pc = "flag"
  /\ pc' = IF isSending THEN "state" ELSE "choose"
  /\ UNCHANGED <<driver, direct, rest, sends, wire, accepted, upset>>

TaskReadsState ==
  /\ pc = "state"
  /\ pc' = IF busy THEN "choose" ELSE "clear"
  /\ UNCHANGED <<driver, direct, rest, sends, wire, accepted, upset>>

TaskClears ==
  /\ pc = "clear"
  /\ pc' = "choose"
  /\ isSending' = FALSE
  /\ UNCHANGED <<busy, buffer, len, pos, fifo, direct, rest, sends, wire, accepted, upset>>

\* The decision for the buffer or for the FIFO.
TaskChooses ==
  /\ pc = "choose"
  /\ IF isSending
       THEN /\ rest' = First(direct, FifoSize)
            /\ direct' = <<>>
            /\ pc' = IF FifoSize = 0 THEN "idle" ELSE "put"
       ELSE /\ rest' = RestPart(direct)
            /\ direct' = DirectPart(direct)
            /\ pc' = "copy"
  /\ UNCHANGED <<driver, sends, wire, accepted, upset>>

TaskCopies ==
  /\ pc = "copy"
  /\ pc' = "raise"
  /\ buffer' = Copied(direct)
  /\ UNCHANGED <<isSending, busy, len, pos, fifo, direct, rest, sends, wire, accepted, upset>>

TaskRaises ==
  /\ pc = "raise"
  /\ pc' = "start"
  /\ isSending' = TRUE
  /\ UNCHANGED <<busy, buffer, len, pos, fifo, direct, rest, sends, wire, accepted, upset>>

\* HAL_UART_Transmit_DMA takes the transmission if the transmitter is ready.
TaskStarts ==
  /\ pc = "start"
  /\ ~busy
  /\ busy' = TRUE
  /\ len' = Len(direct)
  /\ pos' = 0
  /\ accepted' = accepted \o direct
  /\ direct' = <<>>
  /\ pc' = IF rest = <<>> THEN "idle" ELSE "put"
  /\ UNCHANGED <<isSending, buffer, fifo, rest, sends, wire, upset>>

\* HAL_BUSY
TaskRefused ==
  /\ pc = "start"
  /\ busy
  /\ pc' = "fail"
  /\ direct' = <<>>
  /\ rest' = <<>>
  /\ UNCHANGED <<driver, sends, wire, accepted, upset>>

TaskGivesUp ==
  /\ pc = "fail"
  /\ pc' = "idle"
  /\ isSending' = FALSE
  /\ UNCHANGED <<busy, buffer, len, pos, fifo, direct, rest, sends, wire, accepted, upset>>

\* A put that finds too little room keeps what fits and reports an error.
TaskPuts ==
  /\ pc = "put"
  /\ pc' = "idle"
  /\ fifo' = fifo \o Fitting(rest)
  /\ accepted' = accepted \o Fitting(rest)
  /\ rest' = <<>>
  /\ UNCHANGED <<isSending, busy, buffer, len, pos, direct, sends, wire, upset>>

Task ==
  \/ TaskSends
  \/ TaskReadsFlag
  \/ TaskReadsState
  \/ TaskClears
  \/ TaskChooses
  \/ TaskCopies
  \/ TaskRaises
  \/ TaskStarts
  \/ TaskRefused
  \/ TaskGivesUp
  \/ TaskPuts

-----------------------------------------------------------------------------
(* The interrupts.                                                         *)

\* The task has decided for the buffer and has not started yet.
TaskHoldsBuffer == pc \in {"clear", "copy", "raise", "start"}

\* The transmitter is ready, so the flag is down or stale.
ReplyStarts(msg) ==
  /\ ~busy
  /\ isSending' = TRUE
  /\ busy' = TRUE
  /\ buffer' = Copied(DirectPart(msg))
  /\ len' = Len(DirectPart(msg))
  /\ pos' = 0
  /\ fifo' = fifo \o Fitting(RestPart(msg))
  /\ accepted' = accepted \o DirectPart(msg) \o Fitting(RestPart(msg))

\* The flag is down over a busy transmitter: HAL_BUSY, after the copy.
ReplyRefused(msg) ==
  /\ busy
  /\ ~isSending
  /\ buffer' = Copied(DirectPart(msg))
  /\ UNCHANGED <<isSending, busy, len, pos, fifo, accepted>>

ReplyQueued(msg) ==
  /\ busy
  /\ isSending
  /\ fifo' = fifo \o Fitting(msg)
  /\ accepted' = accepted \o Fitting(msg)
  /\ UNCHANGED <<isSending, busy, buffer, len, pos>>

\* uart_manage_dma_send_impl, called in the receive interrupt.
Reply ==
  /\ \E n \in Lengths :
       /\ NewMessage(n)
       /\ LET msg == Message(sends', n)
          IN ReplyStarts(msg) \/ ReplyRefused(msg) \/ ReplyQueued(msg)
  /\ upset' = IF TaskHoldsBuffer THEN upset \cup {"reply"} ELSE upset
  /\ UNCHANGED <<task, wire>>

DmaReads ==
  /\ busy
  /\ pos < len
  /\ wire' = Append(wire, buffer[pos + 1])
  /\ pos' = pos + 1
  /\ UNCHANGED <<isSending, busy, buffer, len, fifo, task, sends, accepted, upset>>

\* TxContinues that waits for a full buffer.
TxContinuesFull ==
  /\ busy
  /\ pos = len
  /\ Len(fifo) >= BufferSize
  /\ isSending' = TRUE
  /\ buffer' = Copied(First(fifo, BufferSize))
  /\ len' = Len(First(fifo, BufferSize))
  /\ pos' = 0
  /\ fifo' = After(fifo, BufferSize)
  /\ UNCHANGED <<busy, task, sends, wire, accepted, upset>>

\* uart_manage_send_completed_hook finds bytes in the FIFO ...
TxContinues ==
  /\ busy
  /\ pos = len
  /\ fifo # <<>>
  /\ isSending' = TRUE
  /\ buffer' = Copied(First(fifo, BufferSize))
  /\ len' = Len(First(fifo, BufferSize))
  /\ pos' = 0
  /\ fifo' = After(fifo, BufferSize)
  /\ UNCHANGED <<busy, task, sends, wire, accepted, upset>>

\* TxEnds that leaves the flag to the next sender.
TxEndsFlagUp ==
  /\ busy
  /\ pos = len
  /\ fifo = <<>>
  /\ busy' = FALSE
  /\ len' = 0
  /\ pos' = 0
  /\ upset' = IF pc = "put" THEN upset \cup {"late"} ELSE upset
  /\ UNCHANGED <<isSending, buffer, fifo, task, sends, wire, accepted>>

\* ... or finds it empty.
TxEnds ==
  /\ busy
  /\ pos = len
  /\ fifo = <<>>
  /\ isSending' = FALSE
  /\ busy' = FALSE
  /\ len' = 0
  /\ pos' = 0
  /\ upset' = IF pc = "put" THEN upset \cup {"late"} ELSE upset
  /\ UNCHANGED <<buffer, fifo, task, sends, wire, accepted>>

\* HAL_UART_ErrorCallback after an error of the line: the transmission goes on.
RxError ==
  /\ isSending' = FALSE
  /\ upset' = IF busy \/ pc = "start" THEN upset \cup {"error"} ELSE upset
  /\ UNCHANGED <<busy, buffer, len, pos, fifo, task, sends, wire, accepted>>

\* HAL_UART_ErrorCallback after a DMA error, which ended the transmission.
DmaError ==
  /\ busy
  /\ busy' = FALSE
  /\ isSending' = FALSE
  /\ len' = 0
  /\ pos' = 0
  /\ upset' = upset \cup {"aborted"}
  /\ UNCHANGED <<buffer, fifo, task, sends, wire, accepted>>

Interrupt == Reply \/ DmaReads \/ TxContinues \/ TxEnds \/ RxError \/ DmaError

Next == Task \/ Interrupt

\* A task inside the function goes on, the DMA reads on and its interrupt is
\* served; nobody has to send.
Fairness ==
  /\ WF_vars(Task /\ ~TaskSends)
  /\ WF_vars(DmaReads)
  /\ WF_vars(TxContinues)
  /\ WF_vars(TxEnds)

Spec == Init /\ [][Next]_vars /\ Fairness

-----------------------------------------------------------------------------

\* What left, what is being read and what waits is, in this order, what was
\* accepted: nothing is lost, repeated, overwritten or overtaken, unless one
\* of the four upsets has happened.
QueueInOrder == upset = {} => wire \o InFlight \o fifo = accepted

\* A late put disturbs the order of the bytes only: none is lost, none leaves
\* twice, however many messages overtake those in the FIFO.
NothingLostNorTwice ==
  upset \subseteq {"late"} =>
    LET all == wire \o InFlight \o fifo
    IN IsInjective(all) /\ ToSet(all) = ToSet(accepted)

\* The flag is up over every transmission, and over none only while the task
\* is about to start one: the test for a stale flag hides no lost completion.
FlagFollowsTransmitter ==
  upset \subseteq {"late"} =>
    /\ busy => isSending
    /\ isSending /\ ~busy => pc = "start"

\* Bytes of message m wait in the FIFO.
Waits(m) == \E i \in DOMAIN fifo : fifo[i][1] = m

\* What waits in the FIFO behind a transmission leaves it, whoever sends and
\* whenever the completion interrupts it.
FifoFollowsTransmission ==
  \A m \in 1 .. MaxSends :
    busy /\ Waits(m) ~> ~Waits(m) \/ upset \cap {"reply", "error", "aborted"} # {}
=============================================================================
