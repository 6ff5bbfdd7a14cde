---------------------------- MODULE ModbusSlave ----------------------------
(***************************************************************************)
(* The controller as a Modbus slave (UART8): the master's requests byte by *)
(* byte, the ring they are received into, the T35 timer, the slave task    *)
(* from its wait to its answer, and two threads that share the register    *)
(* bank with it: the 4G thread, which writes the times of the standby      *)
(* window, and gps_standby, which reads them.                              *)
(*                                                                         *)
(* A byte is the request it belongs to and its position; a CRC agrees with *)
(* the bytes of one request, all of them and in order, and with no others. *)
(* The timers' callbacks run in FreeRTOS's timer task, below every thread: *)
(* one runs only while the slave is blocked.  So do the steps of           *)
(* gps_standby; those of the 4G thread come between any two of the slave.  *)
(***************************************************************************)
EXTENDS Naturals, Sequences, FiniteSets

CONSTANTS
  RegSize,    (* u16regsize                                                *)
  MaxBuffer,  (* MAX_BUFFER; u8available and u8BufferSize count modulo it  *)
  MinFrame,   (* the shortest frame that is looked at                      *)
  OwnId,      (* u8id                                                      *)
  Scripts,    (* what the master asks: sequences of requests               *)
  MaxWrites,  (* bound on the writes of the 4G thread                      *)
  MaxUpsets   (* bound on what goes wrong on the line and in time          *)

ADDRESS_BROADCAST == 0

STATUS_POWER_OFF_TIME == 111
STATUS_POWER_ON_TIME  == 112
Times == {STATUS_POWER_OFF_TIME, STATUS_POWER_ON_TIME}

Coils  == {"read_coils", "write_coils"}
Blocks == {"read_regs", "read_input", "write_regs"}
Functions == Coils \cup Blocks \cup {"write_coil", "write_reg", "unsupported"}

\* The values of 16 bits.
Words == {w \in Nat : w < 65536}

\* A request: whom it addresses, the function, the first coil or register, how
\* many of them, and its size on the line.
Requests == [to : 0 .. 255, fc : Functions, start : Words, count : Words,
             size : MinFrame .. MaxBuffer - 1]

ASSUME SlaveAssumption ==
  /\ RegSize \in Words \ {0}
  /\ MinFrame \in Nat /\ MinFrame >= 2
  /\ MaxBuffer \in Nat /\ MaxBuffer > MinFrame
  /\ OwnId \in 1 .. 255
  /\ MaxWrites \in Nat /\ MaxUpsets \in Nat
  /\ Scripts \subseteq Seq(Requests)

VARIABLES
  script,    (* the requests of this behaviour                             *)
  asked,     (* how many of them the master began to send                  *)
  out,       (* the bytes of the last one that it sent                     *)
  answers,   (* what the master heard: the request answered, and how       *)
  open,      (* the master waits for an answer                             *)
  ring,      (* the bytes in xBufferRX                                     *)
  t35,       (* xTimerT35 runs                                             *)
  listening, (* HAL_UART_Receive_IT has armed the reception of a byte      *)
  spc,       (* where the slave task stands                                *)
  request,   (* the request in u8Buffer, 0 for none                        *)
  k,         (* the register of a block that is written next               *)
  reply,     (* the answer in u8Buffer                                     *)
  busy,      (* the UART transmits                                         *)
  done,      (* the requests executed, in order                            *)
  times,     (* the write that set each time of the window                 *)
  writes,    (* how many writes there were                                 *)
  mine,      (* which of them is the slave's latest                        *)
  read,      (* the times that gps_standby reads: its off, then its on     *)
  overlaps,  (* a write of the 4G thread that came within one of the slave *)
  upsets     (* what went wrong so far                                     *)

master == <<script, asked, out, answers, open>>
line   == <<ring, t35, listening>>
slave  == <<spc, request, k, reply, done>>
bank   == <<times, writes, mine, overlaps>>
vars   == <<master, line, slave, busy, bank, read, upsets>>

Byte == [of : 0 .. asked, at : 0 .. MaxBuffer - 1]

Outcomes == {"ok", "crc", "function", "range", "quantity"}
Answers  == [to : 0 .. asked, as : Outcomes]

\* "wait":   blocked until a frame has come   "take":    woken
\* "run":    a request was found right        "block":   writing a block
\* "send":   an answer stands in the buffer   "started": the UART was told
\* "txwait": blocked until it has sent        "tc":      spinning on the TC flag
TypeOK ==
  /\ script \in Scripts
  /\ asked \in 0 .. Len(script)
  /\ out \in 0 .. MaxBuffer - 1
  /\ answers \in Seq(Answers)
  /\ open \in BOOLEAN
  /\ ring \in Seq(Byte) /\ Len(ring) < MaxBuffer
  /\ t35 \in BOOLEAN
  /\ listening \in BOOLEAN
  /\ spc \in {"wait", "take", "run", "block", "send", "started", "txwait", "tc"}
  /\ request \in 0 .. asked
  /\ k \in Words
  /\ reply \in Answers
  /\ busy \in BOOLEAN
  /\ done \in Seq(1 .. asked)
  /\ writes \in Nat /\ mine \in 0 .. writes
  /\ times \in [Times -> 0 .. writes]
  /\ read \in Seq(0 .. writes) /\ Len(read) <= 2
  /\ overlaps \subseteq (0 .. writes) \X (0 .. writes)
  /\ upsets \in 0 .. MaxUpsets

Init ==
  /\ script \in Scripts
  /\ asked = 0 /\ out = 0 /\ answers = <<>> /\ open = FALSE
  /\ ring = <<>> /\ t35 = FALSE /\ listening = TRUE
  /\ spc = "wait" /\ request = 0 /\ k = 0 /\ reply = [to |-> 0, as |-> "ok"]
  /\ done = <<>>
  /\ busy = FALSE
  /\ times = [reg \in Times |-> 0] /\ writes = 0 /\ mine = 0 /\ overlaps = {}
  /\ read = <<>>
  /\ upsets = 0

Upset == upsets < MaxUpsets /\ upsets' = upsets + 1

-----------------------------------------------------------------------------
(* What a request means.                                                   *)

\* CeilDiv that forgets the rest.
FloorDiv(n, m) == n \div m

\* n / m, rounded up: "check for incomplete words".
CeilDiv(n, m) == n \div m + (IF n % m = 0 THEN 0 ELSE 1)

\* validateRequest, behind the CRC.
AddressFits(q) ==
  CASE q.fc \in Coils -> q.start \div 16 + CeilDiv(q.count, 16) <= RegSize
    [] q.fc \in Blocks -> q.start + q.count <= RegSize
    [] q.fc = "write_coil" -> CeilDiv(q.start, 16) < RegSize
    [] OTHER -> q.start < RegSize

QuantityFits(q) ==
  CASE q.fc \in Coils -> CeilDiv(q.count, 8) + 5 <= 256
    [] q.fc \in Blocks -> q.count * 2 + 5 <= 256
    [] OTHER -> TRUE

Verdict(q) ==
  IF q.fc = "unsupported" THEN "function"
  ELSE IF ~AddressFits(q) THEN "range"
  ELSE IF ~QuantityFits(q) THEN "quantity"
  ELSE "ok"

\* The register of u16regs that the i-th step of the loops of process_FC*
\* accesses, and how many steps they take.
Steps(q) == IF q.fc \in Coils \cup Blocks THEN q.count ELSE 1

Accessed(q, i) ==
  IF q.fc \in Coils \cup {"write_coil"} THEN (q.start + i) \div 16 ELSE q.start + i

\* The times that the loops of process_FC* access.
TimesOf(q) == {Accessed(q, i) : i \in 0 .. Steps(q) - 1} \cap Times

\* The master sets the two times of the window with one block, as the 4G thread
\* does with one command, and neither of them in another way.
ASSUME PairAssumption ==
  \A s \in Scripts : \A i \in 1 .. Len(s) :
    /\ s[i].fc = "write_regs" => TimesOf(s[i]) \in {{}, Times}
    /\ s[i].fc \in {"write_reg", "write_coil", "write_coils"} => TimesOf(s[i]) = {}

\* u8BufferSize with the CRC, 8 bits wide.
AnswerSize(q) ==
  CASE q.fc = "read_coils" -> (3 + CeilDiv(q.count, 8) + 2) % 256
    [] q.fc \in {"read_regs", "read_input"} -> (3 + 2 * q.count + 2) % 256
    [] OTHER -> 8

Broadcast(q) == q.to = ADDRESS_BROADCAST

-----------------------------------------------------------------------------
(* The master and the line.                                                *)

\* The size of the request that the master sends or sent last.
Size == IF asked = 0 THEN 0 ELSE script[asked].size

\* The next request, when the master waits for nothing and the slave had the
\* silence that ends a frame.  One that does not leave it the time to work on the
\* last frame and to answer is an upset.
Asks ==
  /\ ~open /\ asked < Len(script)
  /\ out = Size /\ ~t35
  /\ IF busy \/ spc \in {"take", "run", "block", "send"} THEN Upset ELSE UNCHANGED upsets
  /\ asked' = asked + 1
  /\ out' = 0
  /\ open' = ~Broadcast(script[asked'])
  /\ UNCHANGED <<script, answers, line, slave, busy, bank, read>>

\* RingAdd with a count of more than 8 bits, and no other care.
RingAddWide(s, byte) == Append(s, byte)

\* RingAdd.  u8available has 8 bits and never equals MAX_BUFFER: the byte that
\* would fill the ring sets it to 0, and u8end has come round to u8start.
RingAdd(s, byte) == IF Len(s) + 1 = MaxBuffer THEN <<>> ELSE Append(s, byte)

\* HAL_UART_RxCpltCallback, which arms the reception again
RxCplt(byte) ==
  /\ ring' = RingAdd(ring, byte)
  /\ t35' = TRUE
  /\ UNCHANGED listening

\* A byte on the line reaches an armed reception only.
Arrives(byte) == IF listening THEN RxCplt(byte) ELSE UNCHANGED line

SendsByte ==
  /\ out < Size
  /\ out' = out + 1
  /\ Arrives([of |-> asked, at |-> out'])
  /\ UNCHANGED <<script, asked, answers, open, slave, busy, bank, read, upsets>>

Noise ==
  /\ Upset
  /\ Arrives([of |-> 0, at |-> 0])
  /\ UNCHANGED <<master, slave, busy, bank, read>>

\* A byte, of the request or of noise, is lost to an overrun.  When no other
\* byte was stored with it the HAL ends the reception, and
\* HAL_UART_ErrorCallback arms it on the lines of the UART manager only.
Overrun ==
  /\ Upset
  /\ listening
  /\ listening' \in BOOLEAN
  /\ out' \in {out, out + 1} /\ out' <= Size
  /\ UNCHANGED <<script, asked, answers, open, ring, t35, slave, busy, bank, read>>

\* The master gives a request up that was not answered in time, and may be wrong.
GivesUp ==
  /\ open /\ out = Size
  /\ open' = FALSE
  /\ \/ Upset
     \/ spc = "wait" /\ ~t35 /\ UNCHANGED upsets
  /\ UNCHANGED <<script, asked, out, answers, line, slave, busy, bank, read>>

\* vTimerCallbackT35 notifies with the value 0: a slave that waits for a frame is
\* woken, and so is one that waits for the end of its transmission.  Bytes that
\* nobody receives do not hold the timer up.
T35Expires ==
  /\ t35
  /\ spc \in {"wait", "txwait"}
  /\ out \in {0, Size} \/ ~listening
  /\ t35' = FALSE
  /\ spc' = IF spc = "wait" THEN "take" ELSE "tc"
  /\ UNCHANGED <<master, ring, listening, request, k, reply, done, busy, bank, read, upsets>>

\* The master, or the timer's command queue, leaves a gap within a request.
Gap ==
  /\ Upset
  /\ t35 /\ out \in 1 .. Size - 1
  /\ spc \in {"wait", "txwait"}
  /\ t35' = FALSE
  /\ spc' = IF spc = "wait" THEN "take" ELSE "tc"
  /\ UNCHANGED <<master, ring, listening, request, k, reply, done, busy, bank, read>>

-----------------------------------------------------------------------------
(* The slave task.                                                         *)

Whole(frame) ==
  /\ frame[1].of > 0
  /\ Len(frame) = script[frame[1].of].size
  /\ \A i \in 1 .. Len(frame) : frame[i].of = frame[1].of /\ frame[i].at = i

\* The address that stands in a frame: a byte that is not the first of a request
\* may look like any.
Addressed(frame) ==
  IF frame[1].at = 1 THEN {script[frame[1].of].to} ELSE {ADDRESS_BROADCAST, OwnId, 255}

Reply(to, as) == reply' = [to |-> to, as |-> as]

\* buildException, and sendTxBuffer, which answers no broadcast.
Refuse(to, as, q) ==
  /\ request' = q
  /\ IF to = ADDRESS_BROADCAST THEN spc' = "wait" /\ UNCHANGED reply
                               ELSE spc' = "send" /\ Reply(q, as)

\* RingGetAllBytes without RingClear.
RingPeekBytes == UNCHANGED ring

\* RingGetAllBytes leaves the ring empty.
RingGetAllBytes == ring' = <<>>

\* TooShort that turns away the shortest requests.
TooShortByOne(frame) == Len(frame) <= MinFrame

TooShort(frame) == Len(frame) < MinFrame

\* getRxBuffer, which arms the reception again, and validateRequest.
Take ==
  /\ spc = "take"
  /\ RingGetAllBytes
  /\ listening' = TRUE
  /\ IF TooShort(ring)
       THEN spc' = "wait" /\ UNCHANGED <<request, reply>>
       ELSE \E to \in Addressed(ring) :
              CASE to \notin {OwnId, ADDRESS_BROADCAST} ->
                     spc' = "wait" /\ UNCHANGED <<request, reply>>
                [] to \in {OwnId, ADDRESS_BROADCAST} /\ ~Whole(ring) -> Refuse(to, "crc", 0)
                [] OTHER ->
                     LET q == ring[1].of
                         as == Verdict(script[q])
                     IN  IF as = "ok" THEN spc' = "run" /\ request' = q /\ Reply(q, "ok")
                                      ELSE Refuse(to, as, q)
  /\ UNCHANGED <<master, t35, k, done, busy, bank, read, upsets>>

\* process_FC*: a block of registers is written one by one; a broadcast reads
\* nothing.
Run ==
  /\ spc = "run"
  /\ done' = Append(done, request)
  /\ spc' = IF script[request].fc = "write_regs" THEN "block" ELSE "send"
  /\ k' = 0
  /\ IF script[request].fc = "write_regs" THEN writes' = writes + 1 /\ mine' = writes'
                                          ELSE UNCHANGED <<writes, mine>>
  /\ UNCHANGED <<master, line, request, reply, busy, times, overlaps, read, upsets>>

WriteRegister ==
  /\ spc = "block"
  /\ k < script[request].count
  /\ LET reg == Accessed(script[request], k)
     IN  times' = IF reg \in Times THEN [times EXCEPT ![reg] = mine] ELSE times
  /\ k' = k + 1
  /\ UNCHANGED <<master, line, spc, request, reply, done, busy, writes, mine, overlaps, read,
                 upsets>>

\* BlockEnds one register early.
BlockEndsEarly ==
  /\ spc = "block"
  /\ k + 1 = script[request].count
  /\ spc' = "send"
  /\ UNCHANGED <<master, line, request, k, reply, done, busy, bank, read, upsets>>

\* The block is written; the answer repeats the head of the request.
BlockEnds ==
  /\ spc = "block"
  /\ k = script[request].count
  /\ spc' = "send"
  /\ UNCHANGED <<master, line, request, k, reply, done, busy, bank, read, upsets>>

\* sendTxBuffer.  A size of 0 is refused by the HAL, and nobody looks.
Send ==
  /\ spc = "send"
  /\ IF request > 0 /\ Broadcast(script[request])
       THEN spc' = "wait" /\ UNCHANGED busy
       ELSE /\ spc' = "started"
            /\ busy' = (reply.as # "ok" \/ AnswerSize(script[request]) > 0)
  /\ UNCHANGED <<master, line, request, k, reply, done, bank, read, upsets>>

AwaitTxCplt ==
  /\ spc = "started"
  /\ spc' = "txwait"
  /\ UNCHANGED <<master, line, request, k, reply, done, busy, bank, read, upsets>>

\* The 250 ticks are over.
TxTimeout ==
  /\ spc = "txwait"
  /\ spc' = "tc"
  /\ UNCHANGED <<master, line, request, k, reply, done, busy, bank, read, upsets>>

\* HAL_UART_TxCpltCallback wakes a slave that waits for it.  The master has heard
\* the answer.
TxCplt ==
  /\ busy
  /\ busy' = FALSE
  /\ spc = "started" => Upset
  /\ spc # "started" => UNCHANGED upsets
  /\ spc' = IF spc = "txwait" THEN "tc" ELSE spc
  /\ answers' = Append(answers, reply)
  /\ open' = FALSE
  /\ UNCHANGED <<script, asked, out, line, request, k, reply, done, bank, read>>

TransmissionOver ==
  /\ spc = "tc"
  /\ ~busy
  /\ spc' = "wait"
  /\ UNCHANGED <<master, line, request, k, reply, done, busy, bank, read, upsets>>

-----------------------------------------------------------------------------
(* The threads that share the bank.                                        *)

\* handle_sleep_time_cmd.  The slave and gps_standby do not run in between.
HostWrites ==
  /\ writes < MaxWrites
  /\ writes' = writes + 1
  /\ times' = [reg \in Times |-> writes']
  /\ overlaps' = IF spc = "block" THEN overlaps \cup {<<writes', mine>>} ELSE overlaps
  /\ UNCHANGED <<master, line, slave, busy, mine, read, upsets>>

\* rtc_power_schedule_check reads the two times one after the other.
StandbyReads ==
  /\ spc \in {"wait", "txwait"}
  /\ read' = IF Len(read) = 1 THEN Append(read, times[STATUS_POWER_ON_TIME])
                              ELSE <<times[STATUS_POWER_OFF_TIME]>>
  /\ UNCHANGED <<master, line, slave, busy, bank, upsets>>

-----------------------------------------------------------------------------
Line   == Asks \/ SendsByte \/ Noise \/ Overrun \/ GivesUp
Timer  == T35Expires \/ Gap
Task   == Take \/ Run \/ WriteRegister \/ BlockEnds \/ Send \/ AwaitTxCplt \/ TxTimeout
          \/ TransmissionOver

Next == Line \/ Timer \/ Task \/ TxCplt \/ HostWrites \/ StandbyReads

Spec == Init /\ [][Next]_vars

\* A request begun is sent to its end, interrupts and expired timers are served,
\* and the slave gets the processor.
FairSpec ==
  /\ Spec
  /\ WF_vars(SendsByte)
  /\ WF_vars(T35Expires)
  /\ WF_vars(Task)
  /\ WF_vars(TxCplt)

-----------------------------------------------------------------------------
(* Properties.                                                             *)

\* A request found right accesses the bank's registers only, but for a run of
\* coils that does not begin with a register's first one: it may reach the
\* register behind the bank, and no further.
BankBound ==
  spc = "run" =>
    LET q == script[request]
    IN  \A i \in 0 .. Steps(q) - 1 :
          \/ Accessed(q, i) < RegSize
          \/ q.fc \in Coils /\ q.start % 16 # 0 /\ Accessed(q, i) = RegSize

\* Of a pair of times written as one the halves part only when the 4G thread
\* writes within the slave's block; gps_standby may besides read an older time
\* to switch off with a newer one to switch on, never the reverse.
TimesStayPaired ==
  /\ spc # "block" =>
       LET off == times[STATUS_POWER_OFF_TIME]
           on  == times[STATUS_POWER_ON_TIME]
       IN  off = on \/ <<off, on>> \in overlaps
  /\ Len(read) = 2 => read[1] <= read[2] \/ read \in overlaps

\* The requests that deserve an answer.  One of 2001 to 2008 coils gets none: its
\* size with the CRC is 256.
Deserves(q) ==
  /\ script[q].to = OwnId
  /\ Verdict(script[q]) = "ok" => AnswerSize(script[q]) # 0

RightlyAnswered(q) ==
  \E i \in 1 .. Len(answers) : answers[i] = [to |-> q, as |-> Verdict(script[q])]

\* The requests whose time for an answer is over.
Settled == {q \in 1 .. asked : q < asked \/ (out = Size /\ ~open)}

\* An overrun has ended the reception, and no T35 is to come that would let
\* getRxBuffer arm it: the slave hears nothing until it is reset.
Deaf == ~listening /\ ~t35 /\ spc # "take"

\* Whatever goes wrong on the line or in time, overruns that a T35 follows
\* included, the slave is in step again after at most two requests, unless it
\* has become deaf for good.
UpsetsSpoilFew ==
  ~Deaf => Cardinality({q \in Settled : Deserves(q) /\ ~RightlyAnswered(q)}) <= 2 * upsets

\* As long as nothing goes wrong, every request to this slave is answered, with
\* the verdict it deserves.
RequestsAnswered ==
  []<>(upsets > 0 \/ \A q \in 1 .. asked : Deserves(q) => RightlyAnswered(q))
=============================================================================
