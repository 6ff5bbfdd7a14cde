------------------------------ MODULE HostLine ------------------------------
(***************************************************************************)
(* The host's commands from the 4G module's UART to their handlers: the    *)
(* receive interrupt, which takes what the DMA received since its last     *)
(* event, tells topics apart by their prefix and fills the ring; and the   *)
(* 4G thread, which reads the ring, parses frames byte by byte, executes   *)
(* them and replies.                                                       *)
(*                                                                         *)
(* A byte is its value, the message it belongs to and its position there.  *)
(* A CRC agrees exactly with a frame whose bytes are all there, in order:  *)
(* CRC16's accidental agreements are left out.                             *)
(***************************************************************************)
EXTENDS RxRing, FiniteSets

CONSTANTS
  Sessions,     (* the sequences of messages that the 4G module may send,
                   each with the prefix of its topic                        *)
  Magic,        (* FRAME_HEADER_MAGIC                                       *)
  Comma,        (* the byte ','                                             *)
  Digit0,       (* the byte '0'                                             *)
  UsrPrefix,    (* "usr.cn#"                                                *)
  DmaSize,      (* recv_buffer_size                                         *)
  MaxFaults     (* bound on pauses within a message and receive errors      *)

UINT8_MAX  == 255
UINT16_MAX == 65535

\* The digit n.
Topic(n) == Digit0 + n

CMD_ID_LIGHT        == 1
CMD_ID_BMS          == 2
CMD_ID_HEARTBEAT_EN == 4
CMD_ID_HEARTBEAT    == 5
CMD_ID_WORK_MODE    == 6
CMD_ID_SLEEP_EN     == 7
CMD_ID_SLEEP_TIME   == 8
CMD_ID_CURRENT_TIME == 9
CMD_ID_SYS_ERROR    == 240

HasPrefix(values, prefix) == Front(values, Len(prefix)) = prefix

\* A command as the host composes it: SOF, SEQ, ID, LEN, data, CRC.
IsFrame(m) ==
  /\ Len(m) >= 8
  /\ m[1] \in {Topic(3), Topic(4)} /\ m[2] = Comma
  /\ m[3] = Magic
  /\ Len(m) = m[6] + 8

\* An AT command, a topic of no concern or the USR module's own notice: text.
IsText(m) ==
  /\ Len(m) >= 2
  /\ \/ m[1] \in {Topic(1), Topic(2)} /\ m[2] = Comma
     \/ HasPrefix(m, UsrPrefix)
  /\ \A k \in 1 .. Len(m) : m[k] # Magic

ASSUME LineAssumption ==
  /\ RingSize \in Nat \ {0, 1}
  /\ ReadMax \in Nat \ {0}
  /\ DmaSize \in Nat \ {0}
  /\ MaxFaults \in Nat
  /\ {Magic, Comma, Digit0} \subseteq Nat
  /\ Magic \notin {Comma, Topic(3), Topic(4)}
  /\ UsrPrefix \in Seq(Nat) /\ UsrPrefix # <<>>
  /\ Sessions \subseteq Seq(Seq(0 .. UINT8_MAX))
  /\ \A s \in Sessions : \A f \in 1 .. Len(s) : IsFrame(s[f]) \/ IsText(s[f])

VARIABLES
  session,     (* the messages of this behaviour                            *)
  sent,        (* how many of them were sent                                *)
  wire,        (* their bytes since the DMA's last event                    *)
  pstate,      (* g_parser_ctx.state                                        *)
  held,        (* header_buf, data_buf and crc_buf, as far as filled        *)
  dispatched,  (* the messages executed, in order                           *)
  replies,     (* the frames replied with, in order                         *)
  bank,        (* the registers the handlers write                          *)
  faults,      (* pauses within a message and receive errors so far         *)
  broken,      (* messages of which a byte of the frame was lost            *)
  missed       (* frames taken whole from the ring and not executed, since
                  one was                                                   *)

parser == <<pstate, held, dispatched, replies, bank, missed>>
line   == <<session, sent, wire, faults, broken>>
vars   == <<ring, parser, line>>

Registers == {"CMD_LED_SWITCH", "CMD_BUZZER_7M", "CMD_BUZZER_3M", "CMD_VOLUME",
              "HEARTBEAT_ENABLE", "STATUS_HEART_BEAT", "SOFT_STANDBY_ENABLE",
              "STATUS_POWER_ON_TIME", "STATUS_POWER_OFF_TIME", "RTC_TIME"}

Replies == [to : Nat \ {0}, as : {"value", "done", "crc", "length", "unknown", "access"}]

Bytes == [v : 0 .. UINT8_MAX, of : Nat \ {0}, at : Nat \ {0}]

TypeOK ==
  /\ RingTypeOK(Bytes)
  /\ session \in Sessions
  /\ sent \in 0 .. Len(session)
  /\ wire \in Seq(Bytes)
  /\ pstate \in {"start", "header", "data", "crc"}
  /\ held \in Seq(Bytes)
  /\ dispatched \in Seq(1 .. sent)
  /\ replies \in Seq(Replies)
  /\ bank \in [Registers -> 0 .. UINT16_MAX]
  /\ faults \in 0 .. MaxFaults
  /\ broken \subseteq 1 .. sent
  /\ missed \in Nat

Init ==
  /\ RingInit
  /\ session \in Sessions
  /\ sent = 0
  /\ wire = <<>>
  /\ pstate = "start"
  /\ held = <<>>
  /\ dispatched = <<>>
  /\ replies = <<>>
  /\ bank = [reg \in Registers |-> IF reg = "HEARTBEAT_ENABLE" THEN 1 ELSE 0]
  /\ faults = 0
  /\ broken = {}
  /\ missed = 0

-----------------------------------------------------------------------------
(* The 4G module and the receive interrupt.                                *)

BytesOf(f, m) == [k \in 1 .. Len(m) |-> [v |-> m[k], of |-> f, at |-> k]]

\* The module hands a message to the UART.
Sends ==
  /\ sent < Len(session)
  /\ sent' = sent + 1
  /\ wire' = wire \o BytesOf(sent', session[sent'])
  /\ UNCHANGED <<ring, parser, session, faults, broken>>

Values(chunk) == [i \in 1 .. Len(chunk) |-> chunk[i].v]

HasTopic(chunk, n) == Len(chunk) >= 2 /\ chunk[1].v = Topic(n) /\ chunk[2].v = Comma

\* Of the chunk, what uart_4g_recv_callback passes on to the ring.  AT commands,
\* the second topic and notices go elsewhere, with all that came behind them.
ForTheRing(chunk) ==
  IF HasTopic(chunk, 1) \/ HasTopic(chunk, 2) THEN <<>>
  ELSE IF HasTopic(chunk, 3) \/ HasTopic(chunk, 4) THEN SubSeq(chunk, 3, Len(chunk))
  ELSE IF HasPrefix(Values(chunk), UsrPrefix) THEN <<>>
  ELSE chunk

\* The messages of which chunk holds a byte of the frame that passed does not.
FrameBytes(s) == {b \in {s[i] : i \in 1 .. Len(s)} : IsFrame(session[b.of]) /\ b.at > 2}

CutShort(chunk, passed) == {b.of : b \in FrameBytes(chunk) \ FrameBytes(passed)}

Fault == faults < MaxFaults /\ faults' = faults + 1

\* The line falls idle behind a message, or pauses within one.
FallsIdle(b) ==
  IF b.at = Len(session[b.of]) THEN UNCHANGED faults ELSE Fault

\* HAL_UARTEx_RxEventCallback: the line fell idle, or the buffer is full, after
\* n bytes.  The DMA starts again at the buffer's first byte.
Receives(n) ==
  LET chunk  == SubSeq(wire, 1, n)
      passed == ForTheRing(chunk)
  IN  /\ IF n = DmaSize THEN UNCHANGED faults ELSE FallsIdle(wire[n])
      /\ wire' = SubSeq(wire, n + 1, Len(wire))
      /\ WriteToRing(passed)
      /\ broken' = broken \cup CutShort(chunk, Fitting(passed))
      /\ UNCHANGED <<r, reader, parser, session, sent>>

\* HAL_UART_ErrorCallback: the DMA starts again, and what it had received since
\* its last event is gone.
ReceiveError(n) ==
  /\ Fault
  /\ wire' = SubSeq(wire, n + 1, Len(wire))
  /\ broken' = broken \cup CutShort(SubSeq(wire, 1, n), <<>>)
  /\ UNCHANGED <<ring, parser, session, sent>>

-----------------------------------------------------------------------------
(* The handlers.  An empty data part reads, any other writes.              *)

\* The bit of weight k.
Bit(v, k) == (v \div k) % 2

\* 16 bits, low byte first.
Word(data, k) == data[k] + 256 * data[k + 1]

\* handle_*_cmd: the registers that a frame with this id and data writes.
Written(id, data) ==
  CASE id = CMD_ID_LIGHT /\ Len(data) > 0 ->
         [bank EXCEPT !["CMD_LED_SWITCH"] = Bit(data[1], 1),
                      !["CMD_BUZZER_7M"] = Bit(data[1], 2),
                      !["CMD_BUZZER_3M"] = Bit(data[1], 4),
                      !["CMD_VOLUME"] = data[1] \div 8]
    [] id = CMD_ID_HEARTBEAT_EN /\ Len(data) > 0 -> [bank EXCEPT !["HEARTBEAT_ENABLE"] = data[1]]
    [] id = CMD_ID_HEARTBEAT /\ Len(data) > 0 -> [bank EXCEPT !["STATUS_HEART_BEAT"] = data[1]]
    [] id = CMD_ID_SLEEP_EN /\ Len(data) > 0 -> [bank EXCEPT !["SOFT_STANDBY_ENABLE"] = data[1]]
    [] id = CMD_ID_SLEEP_TIME /\ Len(data) >= 4 ->
         [bank EXCEPT !["STATUS_POWER_ON_TIME"] = Word(data, 1),
                      !["STATUS_POWER_OFF_TIME"] = Word(data, 3)]
    [] id = CMD_ID_CURRENT_TIME /\ Len(data) >= 2 -> [bank EXCEPT !["RTC_TIME"] = Word(data, 1)]
    [] OTHER -> bank

Readable == {CMD_ID_LIGHT, CMD_ID_BMS, CMD_ID_HEARTBEAT_EN, CMD_ID_HEARTBEAT, CMD_ID_WORK_MODE,
             CMD_ID_SLEEP_EN, CMD_ID_SLEEP_TIME, CMD_ID_CURRENT_TIME, CMD_ID_SYS_ERROR}

\* app_4G_send_ack as the handlers call it.  A heartbeat is not acknowledged, nor
\* are times cut short and a write of the error word.
Answer(id, data) ==
  CASE id \notin Readable -> "unknown"
    [] id \in Readable /\ Len(data) = 0 -> "value"
    [] id \in {CMD_ID_LIGHT, CMD_ID_HEARTBEAT_EN, CMD_ID_SLEEP_EN} /\ Len(data) > 0 -> "done"
    [] id = CMD_ID_SLEEP_TIME /\ Len(data) >= 4 -> "done"
    [] id = CMD_ID_CURRENT_TIME /\ Len(data) >= 2 -> "done"
    [] id = CMD_ID_BMS /\ Len(data) > 0 -> "access"
    [] id = CMD_ID_WORK_MODE /\ Len(data) > 0 -> "length"
    [] OTHER -> "none"

Replied(frame, as) ==
  replies' = IF as = "none" THEN replies ELSE Append(replies, [to |-> frame[1].of, as |-> as])

-----------------------------------------------------------------------------
(* The parser, one byte a step.                                            *)

\* A frame is four bytes of header, the last of them the length of the data,
\* the data and two bytes of CRC.
DataLen(frame) == frame[4].v
DataOf(frame)  == [k \in 1 .. DataLen(frame) |-> frame[k + 4].v]
IdOf(frame)    == frame[3].v

\* The CRC agrees: the bytes are those of one frame, from its first to its last.
CrcAgrees(frame) == \A k \in 1 .. Len(frame) : frame[k].of = frame[1].of /\ frame[k].at = k + 2

\* b is the last byte of a frame that lost none.
EndsWholeFrame(b) == IsFrame(session[b.of]) /\ b.at = Len(session[b.of]) /\ b.of \notin broken

\* A step that executes nothing.
Collects(b) ==
  /\ missed' = IF EndsWholeFrame(b) THEN missed + 1 ELSE missed
  /\ UNCHANGED <<dispatched, bank>>

\* WaitStart that takes any byte for the first of a frame.
WaitStartAny(b) ==
  /\ pstate = "start"
  /\ pstate' = "header"
  /\ held' = <<b>>
  /\ Collects(b)
  /\ UNCHANGED replies

WaitStart(b) ==
  /\ pstate = "start"
  /\ IF b.v = Magic THEN pstate' = "header" /\ held' = <<b>>
                    ELSE UNCHANGED <<pstate, held>>
  /\ Collects(b)
  /\ UNCHANGED replies

ReadHeader(b) ==
  /\ pstate = "header"
  /\ held' = Append(held, b)
  /\ pstate' = IF Len(held') < 4 THEN "header"
               ELSE IF DataLen(held') = 0 THEN "crc" ELSE "data"
  /\ Collects(b)
  /\ UNCHANGED replies

ReadData(b) ==
  /\ pstate = "data"
  /\ held' = Append(held, b)
  /\ pstate' = IF Len(held') < 4 + DataLen(held') THEN "data" ELSE "crc"
  /\ Collects(b)
  /\ UNCHANGED replies

\* Parser_FrameComplete
FrameComplete(frame) ==
  /\ dispatched' = Append(dispatched, frame[1].of)
  /\ bank' = Written(IdOf(frame), DataOf(frame))
  /\ Replied(frame, Answer(IdOf(frame), DataOf(frame)))
  /\ missed' = 0

ReadCrc(b) ==
  LET frame == Append(held, b)
      whole == Len(frame) = DataLen(frame) + 6
  IN  /\ pstate = "crc"
      /\ held' = IF whole THEN <<>> ELSE frame
      /\ pstate' = IF whole THEN "start" ELSE "crc"
      /\ IF whole /\ CrcAgrees(frame)
           THEN FrameComplete(frame)
           ELSE Collects(b) /\ Replied(frame, IF whole THEN "crc" ELSE "none")

\* The thread's pass over one byte.
ParseByte ==
  /\ UseByte
  /\ LET b == Head(got) IN WaitStart(b) \/ ReadHeader(b) \/ ReadData(b) \/ ReadCrc(b)
  /\ UNCHANGED line

ThreadReads ==
  /\ Look \/ StartRead \/ CopyByte \/ ReleasePlaces
  /\ UNCHANGED <<parser, line>>

-----------------------------------------------------------------------------
Interrupt == \E n \in 1 .. Least(Len(wire), DmaSize) : Receives(n)

Next ==
  \/ Sends
  \/ Interrupt
  \/ \E n \in 1 .. Least(Len(wire), DmaSize) : ReceiveError(n)
  \/ ThreadReads
  \/ ParseByte

Spec == Init /\ [][Next]_vars

-----------------------------------------------------------------------------
(* Properties.                                                             *)

\* The ring is a queue to which the interrupt only appends and from which the
\* thread only takes the oldest bytes, although neither waits for the other.
Queue == INSTANCE ByteQueue WITH
  queue <- Stored, hand <- Hand, Byte <- Bytes, Capacity <- RingSize - 1

RingIsQueue == Queue!Spec

\* What is executed is a frame that the host sent, each at most once and in the
\* order they were sent, whatever is lost, cut or stuck together on the way.
ExecutedOnceInOrder ==
  \A i, j \in 1 .. Len(dispatched) :
    /\ IsFrame(session[dispatched[i]])
    /\ i < j => dispatched[i] < dispatched[j]

\* The bytes that the parser has still to see.
Unparsed == {wire[i] : i \in 1 .. Len(wire)} \cup {Stored[i] : i \in 1 .. Len(Stored)} \cup
            {Hand[i] : i \in 1 .. Len(Hand)}

\* As long as no byte of a frame was lost, every frame sent is executed when its
\* last byte is parsed, however the line splits and joins the messages, and no
\* frame is answered with a CRC error.
CleanLineExecutesAll ==
  broken = {} =>
    /\ \A f \in 1 .. sent :
         IsFrame(session[f]) =>
           \/ \E i \in 1 .. Len(dispatched) : dispatched[i] = f
           \/ \E b \in Unparsed : b.of = f /\ b.at = Len(session[f])
    /\ \A i \in 1 .. Len(replies) : replies[i].as # "crc"

\* The frames of at least six bytes that a damaged one swallows while the length
\* that it seems to have runs out: whole ones, and one cut in two by its end.
Swallowed(length) == (5 + length + 5) \div 6

\* No byte behind the first of a frame looks like the first of one.
Plain(m) == \A k \in 4 .. Len(m) : m[k] # Magic

\* What may be taken for a length: the value of any byte that was sent.
Lengths == UNION {{session[f][k] : k \in 1 .. Len(session[f])} : f \in 1 .. sent}

\* A damaged frame takes the following ones for its data, for at most the length
\* that it seems to have; then the parser is in step again.
DamageIsBounded ==
  (\A f \in 1 .. sent : Plain(session[f])) =>
    \A length \in Lengths :
      (\A other \in Lengths : other <= length) =>
        missed <= Cardinality(broken) * Swallowed(length)
=============================================================================
