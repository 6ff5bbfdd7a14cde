---------------------------- MODULE ModbusMaster ----------------------------
(***************************************************************************)
(* One master line of the Modbus stack (the batteries on USART6 or the     *)
(* sound-light unit on UART7): the thread that asks, the queue of          *)
(* telegrams, the master task, its two software timers, the UART's         *)
(* interrupts and the unit at the other end.                               *)
(*                                                                         *)
(* A telegram is the number of its query.  The bytes received are kept as  *)
(* pieces of frames: what the properties tell apart is whose answer a      *)
(* frame is and whether it is whole.                                       *)
(*                                                                         *)
(* The timers' callbacks run in FreeRTOS's timer task, whose priority (2)  *)
(* is below that of every other thread: a callback finds the master        *)
(* blocked, and a master that it wakes runs before the callback goes on.   *)
(* The interrupts come between any two steps.                              *)
(***************************************************************************)
EXTENDS Naturals, Sequences

CONSTANTS
  MaxTelegrams,  (* MAX_TELEGRAMS                                            *)
  MaxQueries,    (* bound on the queries of a behaviour                      *)
  MaxNoise,      (* bound on the pieces of noise, and on cut answers         *)
  MaxOverruns,   (* bound on the receiver's overruns                         *)
  MaxRefused     (* bound on the commands that the timer task's queue refuses *)

ASSUME MasterAssumption ==
  /\ MaxTelegrams \in Nat \ {0}
  /\ MaxQueries \in Nat /\ MaxNoise \in Nat /\ MaxOverruns \in Nat /\ MaxRefused \in Nat

VARIABLES
  asking,     (* the thread is inside its ulTaskNotifyTake                   *)
  query,      (* the number of its latest query                              *)
  result,     (* its notification value: None or what the master told it     *)
  queue,      (* QueueTelegramHandle                                         *)
  mpc,        (* where the master task stands                                *)
  telegram,   (* the telegram it works on                                    *)
  i8state,    (* COM_IDLE or COM_WAITING                                     *)
  notified,   (* its notification value: 0 or ERR_TIME_OUT                   *)
  sending,    (* the UART transmits                                          *)
  listening,  (* HAL_UART_Receive_IT is armed                                *)
  ring,       (* xBufferRX                                                   *)
  timeout,    (* xTimerTimeout runs                                          *)
  t35,        (* xTimerT35 runs                                              *)
  unit,       (* the queries that the unit has received and not yet answered *)
  tail,       (* the query whose answer it has begun to send, or 0           *)
  used,       (* the query whose answer was taken last                       *)
  stale,      (* bytes of an answer were there when the master did not wait
                 for it                                                      *)
  noise, overruns, refused

caller == <<asking, query, result>>
master == <<mpc, telegram, i8state>>
uart   == <<sending, listening, ring>>
timers == <<timeout, t35>>
line   == <<unit, tail>>
counts == <<noise, overruns, refused>>
vars   == <<caller, queue, master, notified, uart, timers, line, used, stale, counts>>

None == [of |-> 0]

\* What a piece of received bytes can be.  An exception is an answer, too.
Parts == {"answer", "exception", "head", "tail", "noise"}
Piece(q, part) == [q |-> q, part |-> part]
Pieces == [q : 0 .. MaxQueries, part : Parts]

Results == [of : 1 .. MaxQueries, ok : BOOLEAN, from : 0 .. MaxQueries]

\* "queue":  at xQueueReceive            "silence": in the pause before a frame
\* "send":   about to wait for TxCplt    "txwait":  waiting for it
\* "tc":     spinning on the TC flag     "answer":  waiting for an answer
\* "woken":  released from that wait
Places == {"queue", "silence", "send", "txwait", "tc", "answer", "woken"}

TypeOK ==
  /\ asking \in BOOLEAN
  /\ query \in 0 .. MaxQueries
  /\ result \in Results \cup {None}
  /\ queue \in Seq(1 .. MaxQueries)
  /\ mpc \in Places
  /\ telegram \in 0 .. MaxQueries
  /\ i8state \in {"COM_IDLE", "COM_WAITING"}
  /\ notified \in {"0", "ERR_TIME_OUT"}
  /\ sending \in BOOLEAN /\ listening \in BOOLEAN
  /\ timeout \in BOOLEAN /\ t35 \in BOOLEAN /\ stale \in BOOLEAN
  /\ ring \in Seq(Pieces)
  /\ unit \in Seq(1 .. MaxQueries)
  /\ tail \in 0 .. MaxQueries
  /\ used \in 0 .. MaxQueries
  /\ noise \in 0 .. MaxNoise
  /\ overruns \in 0 .. MaxOverruns
  /\ refused \in 0 .. MaxRefused

Init ==
  /\ asking = FALSE /\ query = 0 /\ result = None
  /\ queue = <<>>
  /\ mpc = "queue" /\ telegram = 0 /\ i8state = "COM_IDLE"
  /\ notified = "0"
  /\ sending = FALSE /\ listening = TRUE /\ ring = <<>>
  /\ timeout = FALSE /\ t35 = FALSE
  /\ unit = <<>> /\ tail = 0
  /\ used = 0 /\ stale = FALSE
  /\ noise = 0 /\ overruns = 0 /\ refused = 0

-----------------------------------------------------------------------------
(* The thread that asks.                                                   *)

\* A full queue drops the telegram without a word; the thread waits all the same.
ModbusQuery ==
  /\ ~asking
  /\ query < MaxQueries
  /\ query' = query + 1
  /\ asking' = TRUE
  /\ queue' = IF Len(queue) < MaxTelegrams THEN Append(queue, query + 1) ELSE queue
  /\ UNCHANGED <<result, master, notified, uart, timers, line, used, stale, counts>>

CallerTakes ==
  /\ asking
  /\ result # None
  /\ asking' = FALSE
  /\ result' = None
  /\ UNCHANGED <<query, queue, master, notified, uart, timers, line, used, stale, counts>>

\* The telegram's turn has come and the master will be back within the 3 ms of
\* silence, the 9 ms of a frame (or 250) and the 500 of its timer: in less
\* than the 1000 that the thread waits.
Served ==
  \/ mpc = "queue" /\ queue = <<query>>
  \/ telegram = query /\ mpc \notin {"queue", "answer"}
  \/ telegram = query /\ mpc = "answer" /\ (timeout \/ t35)

\* A thread whose patience is shorter than the master's.
CallerGivesUpEarly ==
  /\ asking
  /\ result = None
  /\ asking' = FALSE
  /\ UNCHANGED <<query, result, queue, master, notified, uart, timers, line, used, stale, counts>>

CallerGivesUp ==
  /\ asking
  /\ result = None
  /\ ~Served
  /\ asking' = FALSE
  /\ UNCHANGED <<query, result, queue, master, notified, uart, timers, line, used, stale, counts>>

-----------------------------------------------------------------------------
(* The timers.  A command to a timer is refused when the ten places of the *)
(* timer task's queue are taken; nobody looks at the return value.         *)

Commanded(effect, otherwise) ==
  \/ effect /\ refused' = refused
  \/ otherwise /\ refused < MaxRefused /\ refused' = refused + 1

\* The timer task has the processor.
MasterBlocked ==
  \/ mpc = "queue" /\ queue = <<>>
  \/ mpc \in {"silence", "txwait", "answer"}

\* xTaskNotify of the master by a callback.
Notify(value) ==
  /\ notified' = value
  /\ mpc' = CASE mpc = "txwait" -> "tc"
              [] mpc = "answer" -> "woken"
              [] OTHER -> mpc
  /\ UNCHANGED <<telegram, i8state>>

\* The callback without its xTimerStop.
vTimerCallbackT35KeepsTimeout ==
  /\ t35
  /\ MasterBlocked
  /\ t35' = FALSE
  /\ Notify("0")
  /\ UNCHANGED <<caller, queue, uart, timeout, line, used, stale, counts>>

vTimerCallbackT35 ==
  /\ t35
  /\ MasterBlocked
  /\ t35' = FALSE
  /\ Commanded(timeout' = FALSE, UNCHANGED timeout)
  /\ Notify("0")
  /\ UNCHANGED <<caller, queue, uart, line, used, stale, noise, overruns>>

vTimerCallbackTimeout ==
  /\ timeout
  /\ MasterBlocked
  /\ timeout' = FALSE
  /\ Notify("ERR_TIME_OUT")
  /\ UNCHANGED <<caller, queue, uart, t35, line, used, stale, counts>>

-----------------------------------------------------------------------------
(* StartTaskModbusMaster.                                                  *)

MasterReceives ==
  /\ mpc = "queue"
  /\ queue # <<>>
  /\ telegram' = Head(queue)
  /\ queue' = Tail(queue)
  /\ mpc' = "silence"
  /\ UNCHANGED <<caller, i8state, notified, uart, timers, line, used, stale, counts>>

\* SendQuery up to HAL_UART_Transmit_IT.  Its error is not looked at: the
\* master then waits for an answer to what it did not send.
SendQuery ==
  /\ mpc = "silence"
  /\ IF i8state = "COM_IDLE"
       THEN sending' = TRUE /\ mpc' = "send"
       ELSE UNCHANGED sending /\ mpc' = IF notified = "0" THEN "answer" ELSE "woken"
  /\ UNCHANGED <<caller, queue, telegram, i8state, notified, listening, ring, timers, line, used,
                 stale, counts>>

\* ulTaskNotifyTake(pdTRUE, 250): a value that is already there ends it at once,
\* a completion that came before it does not.
AwaitTxCplt ==
  /\ mpc = "send"
  /\ mpc' = IF notified = "0" THEN "txwait" ELSE "tc"
  /\ notified' = "0"
  /\ UNCHANGED <<caller, queue, telegram, i8state, uart, timers, line, used, stale, counts>>

\* HAL_UART_TxCpltCallback: wakes a waiting master and leaves the value alone.
TxCplt ==
  /\ sending
  /\ sending' = FALSE
  /\ unit' = Append(unit, telegram)
  /\ mpc' = IF mpc = "txwait" THEN "tc" ELSE mpc
  /\ UNCHANGED <<caller, queue, telegram, i8state, notified, listening, ring, timers, tail, used,
                 stale, counts>>

\* The 250 ms outlast every frame that is sent.
TxCpltMissed ==
  /\ mpc = "txwait"
  /\ ~sending
  /\ mpc' = "tc"
  /\ UNCHANGED <<caller, queue, telegram, i8state, notified, uart, timers, line, used, stale, counts>>

\* The end of sendTxBuffer and of SendQuery, up to the wait for the answer.
AwaitAnswer ==
  /\ mpc = "tc"
  /\ ~sending
  /\ Commanded(timeout' = TRUE, UNCHANGED timeout)
  /\ i8state' = "COM_WAITING"
  /\ mpc' = IF notified = "0" THEN "answer" ELSE "woken"
  /\ UNCHANGED <<caller, queue, telegram, notified, uart, t35, line, used, stale, noise, overruns>>

\* The master tells the thread of the telegram, overwriting what it told before.
Tell(ok, from) ==
  /\ result' = [of |-> telegram, ok |-> ok, from |-> from]
  /\ mpc' = "queue"
  /\ i8state' = "COM_IDLE"
  /\ UNCHANGED <<asking, query, queue, telegram>>

\* The timeout without its assignment to i8state.
HandleTimeoutStaysWaiting ==
  /\ mpc = "woken"
  /\ notified = "ERR_TIME_OUT"
  /\ notified' = "0"
  /\ result' = [of |-> telegram, ok |-> FALSE, from |-> 0]
  /\ mpc' = "queue"
  /\ stale' = (stale \/ \E i \in DOMAIN ring : ring[i].q # 0)
  /\ UNCHANGED <<asking, query, queue, telegram, i8state, uart, timers, line, used, counts>>

\* What has been received stays in the ring.
HandleTimeout ==
  /\ mpc = "woken"
  /\ notified = "ERR_TIME_OUT"
  /\ notified' = "0"
  /\ Tell(FALSE, 0)
  /\ stale' = (stale \/ \E i \in DOMAIN ring : ring[i].q # 0)
  /\ UNCHANGED <<uart, timers, line, used, counts>>

\* Where in the received bytes a frame begins whose length and CRC are right.
Starts(r) == {i \in DOMAIN r :
                \/ r[i].part \in {"answer", "exception"}
                \/ /\ r[i].part = "head" /\ i < Len(r)
                   /\ r[i + 1] = Piece(r[i].q, "tail")}

\* mb_trim_sticky_packet: the first such frame is the answer, whatever is before
\* and after it.  Neither it nor validateAnswer looks at the question.
mb_trim_sticky_packet(r) == {i \in Starts(r) : \A j \in Starts(r) : i <= j}

\* A copy that takes no byte out of the ring.
getRxBufferPeeks ==
  /\ listening' = TRUE
  /\ UNCHANGED <<sending, ring>>

\* getRxBuffer empties the ring and arms the reception anew.
getRxBuffer ==
  /\ ring' = <<>>
  /\ listening' = TRUE
  /\ UNCHANGED sending

\* Fewer than six bytes (an exception alone has five): the timer is left as it is.
HandleBadSize ==
  /\ mpc = "woken"
  /\ notified = "0"
  /\ \A i \in Starts(ring) : ring = <<ring[i]>> /\ ring[i].part = "exception"
  /\ getRxBuffer
  /\ Tell(FALSE, 0)
  /\ UNCHANGED <<notified, timers, line, used, stale, counts>>

\* The answer is validated and, if it is one, copied to the telegram's registers.
HandleAnswer ==
  /\ mpc = "woken"
  /\ notified = "0"
  /\ ring # <<>>
  /\ Len(ring) = 1 => ring[1].part # "exception"
  /\ getRxBuffer
  /\ Commanded(timeout' = FALSE, UNCHANGED timeout)
  /\ \/ /\ Starts(ring) = {}
        /\ Tell(FALSE, 0)
        /\ UNCHANGED used
     \/ \E i \in mb_trim_sticky_packet(ring) :
          IF ring[i].part = "exception"
            THEN Tell(FALSE, 0) /\ UNCHANGED used
            ELSE Tell(TRUE, ring[i].q) /\ used' = ring[i].q
  /\ UNCHANGED <<notified, t35, line, stale, noise, overruns>>

-----------------------------------------------------------------------------
(* The line and the receive interrupt.  The unit answers in its own time,  *)
(* in the order of the questions.                                          *)

\* HAL_UART_RxCpltCallback for the bytes of p.
Heard(p) ==
  /\ ring' = Append(ring, p)
  /\ Commanded(t35' = TRUE, UNCHANGED t35)
  /\ stale' = (stale \/ (p.q # 0 /\ ~(mpc = "answer" /\ telegram = p.q)))

\* An overrun ends the reception (UART_EndRxTransfer); the error callback knows
\* the UART manager's interfaces only and arms nothing.
Overrun(p) ==
  /\ overruns < MaxOverruns
  /\ overruns' = overruns + 1
  /\ listening' = FALSE
  /\ \/ Heard(Piece(p.q, "head"))
     \/ UNCHANGED <<ring, t35, refused, stale>>

Arrives(p) ==
  /\ \/ listening /\ Heard(p) /\ UNCHANGED <<listening, overruns>>
     \/ listening /\ Overrun(p)
     \/ ~listening /\ UNCHANGED <<listening, ring, t35, refused, stale, overruns>>
  /\ UNCHANGED <<caller, queue, master, notified, sending, timeout, used>>

UnitAnswers ==
  /\ unit # <<>> /\ tail = 0
  /\ unit' = Tail(unit)
  /\ \E part \in {"answer", "exception"} : Arrives(Piece(Head(unit), part))
  /\ UNCHANGED <<tail, noise>>

\* A pause of more than 5 ms cuts an answer in two.
UnitBegins ==
  /\ unit # <<>> /\ tail = 0
  /\ noise < MaxNoise
  /\ noise' = noise + 1
  /\ unit' = Tail(unit)
  /\ tail' = Head(unit)
  /\ Arrives(Piece(Head(unit), "head"))

UnitEnds ==
  /\ tail # 0
  /\ tail' = 0
  /\ Arrives(Piece(tail, "tail"))
  /\ UNCHANGED <<unit, noise>>

\* It has lost its supply or has not understood the question.
UnitStaysSilent ==
  /\ unit # <<>>
  /\ unit' = Tail(unit)
  /\ UNCHANGED <<caller, queue, master, notified, uart, timers, tail, used, stale, counts>>

NoiseArrives ==
  /\ noise < MaxNoise
  /\ noise' = noise + 1
  /\ Arrives(Piece(0, "noise"))
  /\ UNCHANGED line

-----------------------------------------------------------------------------
Caller == ModbusQuery \/ CallerTakes \/ CallerGivesUp
Master ==
  \/ MasterReceives \/ SendQuery \/ AwaitTxCplt \/ TxCpltMissed \/ AwaitAnswer
  \/ HandleTimeout \/ HandleBadSize \/ HandleAnswer
Timers == vTimerCallbackT35 \/ vTimerCallbackTimeout
Unit   == UnitAnswers \/ UnitBegins \/ UnitEnds \/ UnitStaysSilent \/ NoiseArrives

Next == Caller \/ Master \/ TxCplt \/ Timers \/ Unit

Spec == Init /\ [][Next]_vars

\* Threads and timers run, and a transmission ends.  Nobody need ask or answer.
FairSpec ==
  /\ Spec
  /\ WF_vars(Master) /\ WF_vars(TxCplt)
  /\ WF_vars(vTimerCallbackT35) /\ WF_vars(vTimerCallbackTimeout)
  /\ WF_vars(CallerTakes) /\ WF_vars(CallerGivesUp)

-----------------------------------------------------------------------------
(* Properties.                                                             *)

\* As long as the timer task takes its commands there is one query at a time:
\* what is queued, in the master's hands or told to the thread is the query that
\* it waits for.  This is what makes one notification value enough, and it rests
\* on the thread's patience being longer than the master's.
OneQueryOutstanding ==
  refused = 0 =>
    /\ queue # <<>> => asking /\ queue = <<query>> /\ mpc = "queue" /\ result = None
    /\ mpc # "queue" => asking /\ telegram = query /\ result = None
    /\ result # None => asking /\ result.of = query

\* A timeout that runs, or that has been notified, is the timeout of the query
\* that is being waited for: none is left over for the next one.
TimeoutBelongsToQuery ==
  refused = 0 =>
    /\ timeout => mpc = "answer"
    /\ notified = "ERR_TIME_OUT" => mpc = "woken"

\* A query succeeds with its own answer, unless bytes of an answer ever came when
\* the master did not wait for them, or were left when it gave up.
OwnAnswer ==
  ~stale /\ result # None /\ result.ok => result.from = result.of

\* No answer serves two queries, and answers serve in the order in which the
\* questions were asked, however late and in however many pieces they come.
AnswersServeOnce ==
  [][result' # result /\ result' # None /\ result'.ok => result'.from > used]_vars

\* The master comes back from every wait for an answer, with the answer or with its
\* timeout, unless the command that starts the timer was refused.
MasterReturns == mpc = "answer" ~> mpc = "queue" \/ refused > 0

\* Modbus.h calls OP_OK_QUERY the acknowledgement of a correct operation: a query
\* that succeeds is one that the unit has answered.
OkMeansDone == result # None /\ result.ok => result.from = result.of

=============================================================================
