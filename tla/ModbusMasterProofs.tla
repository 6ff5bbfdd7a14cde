------------------------- MODULE ModbusMasterProofs -------------------------
(***************************************************************************)
(* Proofs about a master line, for every length of the telegram queue and  *)
(* every number of queries, noises, overruns and refused commands.         *)
(***************************************************************************)
EXTENDS ModbusMaster, SequenceTheorems, TLAPS

-----------------------------------------------------------------------------
(* What Append and Tail do, in terms of the elements.                      *)

LEMMA AppendFacts ==
  ASSUME NEW S, NEW s \in Seq(S), NEW e \in S
  PROVE  /\ Append(s, e) \in Seq(S)
         /\ Len(Append(s, e)) = Len(s) + 1
         /\ \A i \in 1 .. Len(s) + 1 : Append(s, e)[i] = IF i <= Len(s) THEN s[i] ELSE e
  BY AppendProperties, LenProperties

LEMMA TailFacts ==
  ASSUME NEW S, NEW s \in Seq(S), s # <<>>
  PROVE  /\ Head(s) \in S /\ Head(s) = s[1]
         /\ Tail(s) \in Seq(S)
         /\ Len(s) \in Nat \ {0}
         /\ Len(Tail(s)) = Len(s) - 1
         /\ \A i \in 1 .. Len(s) - 1 : Tail(s)[i] = s[i + 1]
<1>1. Head(s) = s[1]
  OBVIOUS
<1>2. Len(s) \in Nat \ {0}
  BY EmptySeq
<1> QED
  BY <1>1, <1>2, HeadTailProperties

-----------------------------------------------------------------------------
(* Types.                                                                  *)

\* The master has a telegram wherever it works on one, and transmits only there.
AtWork ==
  /\ mpc # "queue" => telegram # 0
  /\ sending => mpc \in {"send", "txwait", "tc"}

TypeInvariant == TypeOK /\ AtWork

LEMMA TypeInitially == Init => TypeInvariant
<1> SUFFICES ASSUME Init PROVE TypeInvariant
  OBVIOUS
<1>1. <<>> \in Seq(1 .. MaxQueries) /\ <<>> \in Seq(Pieces)
  BY EmptySeq
<1>2. /\ 0 \in 0 .. MaxQueries /\ 0 \in 0 .. MaxNoise
      /\ 0 \in 0 .. MaxOverruns /\ 0 \in 0 .. MaxRefused
  BY MasterAssumption DEF MasterAssumption
<1>3. TypeOK
  BY <1>1, <1>2 DEF Init, TypeOK, Places
<1> QED
  BY <1>3 DEF Init, TypeInvariant, AtWork

\* Bytes that are heard keep the types of what they touch.
LEMMA HeardTyped ==
  ASSUME TypeOK, NEW p \in Pieces, Heard(p)
  PROVE  /\ ring' \in Seq(Pieces)
         /\ t35' \in BOOLEAN /\ stale' \in BOOLEAN
         /\ refused' \in 0 .. MaxRefused
<1>1. Append(ring, p) \in Seq(Pieces)
  BY AppendFacts DEF TypeOK
<1>2. ring' = Append(ring, p)
  BY DEF Heard
<1>3. refused' = refused \/ (refused < MaxRefused /\ refused' = refused + 1)
  BY DEF Heard, Commanded
<1>4. refused \in 0 .. MaxRefused
  BY DEF TypeOK
<1>5. refused' \in 0 .. MaxRefused
  BY <1>3, <1>4, MasterAssumption DEF MasterAssumption
<1>6. t35' \in BOOLEAN
  BY Zenon DEF Heard, Commanded, TypeOK
<1>7. stale' \in BOOLEAN
  BY Zenon DEF Heard
<1> QED
  BY <1>1, <1>2, <1>5, <1>6, <1>7

\* Bytes that arrive keep the types of what they touch, and touch nothing else.
LEMMA ArrivalTyped ==
  ASSUME TypeOK, NEW p \in Pieces, Arrives(p)
  PROVE  /\ ring' \in Seq(Pieces)
         /\ listening' \in BOOLEAN /\ t35' \in BOOLEAN /\ stale' \in BOOLEAN
         /\ overruns' \in 0 .. MaxOverruns /\ refused' \in 0 .. MaxRefused
         /\ UNCHANGED <<caller, queue, master, notified, sending, timeout, used>>
<1>1. Piece(p.q, "head") \in Pieces
  BY DEF Pieces, Piece, Parts
<1>2. UNCHANGED <<caller, queue, master, notified, sending, timeout, used>>
  BY DEF Arrives
<1>3. CASE listening /\ Heard(p) /\ UNCHANGED <<listening, overruns>>
  BY <1>2, <1>3, HeardTyped DEF TypeOK
<1>4. CASE listening /\ Overrun(p)
  <2>1. overruns < MaxOverruns /\ overruns' = overruns + 1 /\ overruns \in 0 .. MaxOverruns
    BY <1>4 DEF Overrun, TypeOK
  <2>2. overruns' \in 0 .. MaxOverruns
    BY <2>1, MasterAssumption DEF MasterAssumption
  <2>3. listening' \in BOOLEAN
    BY <1>4, Zenon DEF Overrun
  <2>4. CASE Heard(Piece(p.q, "head"))
    BY <1>1, <1>2, <2>2, <2>3, <2>4, HeardTyped
  <2>5. CASE UNCHANGED <<ring, t35, refused, stale>>
    BY <1>2, <2>2, <2>3, <2>5 DEF TypeOK
  <2> QED
    BY <1>4, <2>4, <2>5 DEF Overrun
<1>5. CASE ~listening /\ UNCHANGED <<listening, ring, t35, refused, stale, overruns>>
  BY <1>2, <1>5 DEF TypeOK
<1> QED
  BY <1>3, <1>4, <1>5 DEF Arrives

\* A command to a timer counts at most one refusal.
LEMMA RefusalTyped ==
  ASSUME refused \in 0 .. MaxRefused,
         refused' = refused \/ (refused < MaxRefused /\ refused' = refused + 1)
  PROVE  refused' \in 0 .. MaxRefused
BY MasterAssumption DEF MasterAssumption

\* A counter below its bound may be stepped.
LEMMA NoiseTyped ==
  ASSUME noise \in 0 .. MaxNoise, noise < MaxNoise, noise' = noise + 1
  PROVE  noise' \in 0 .. MaxNoise
BY MasterAssumption DEF MasterAssumption

\* What the thread is told is a result.
LEMMA TellTyped ==
  ASSUME TypeOK, telegram # 0, NEW ok \in BOOLEAN, NEW from \in 0 .. MaxQueries, Tell(ok, from)
  PROVE  /\ result' \in Results
         /\ UNCHANGED <<asking, query, queue, telegram>>
         /\ mpc' = "queue" /\ i8state' = "COM_IDLE"
<1>1. telegram \in 1 .. MaxQueries
  BY DEF TypeOK
<1> QED
  BY <1>1 DEF Tell, Results

\* The types hold initially and every step keeps them.
LEMMA TypePreserved == TypeInvariant /\ [Next]_vars => TypeInvariant'
<1> SUFFICES ASSUME TypeInvariant, [Next]_vars PROVE TypeInvariant'
  OBVIOUS
<1> USE DEF TypeInvariant
<1>0. TypeOK /\ AtWork
  OBVIOUS
<1>1. CASE ModbusQuery
  <2>1. query \in 0 .. MaxQueries /\ query < MaxQueries /\ query' = query + 1
    BY <1>1 DEF ModbusQuery, TypeOK
  <2>2. query' \in 1 .. MaxQueries
    BY <2>1, MasterAssumption DEF MasterAssumption
  <2>3. query' \in 0 .. MaxQueries
    BY <2>2
  <2>4. queue' \in Seq(1 .. MaxQueries)
    <3>1. Append(queue, query') \in Seq(1 .. MaxQueries)
      BY <2>2, AppendFacts DEF TypeOK
    <3>2. queue' = Append(queue, query') \/ queue' = queue
      BY <1>1 DEF ModbusQuery
    <3> QED
      BY <3>1, <3>2 DEF TypeOK
  <2>5. AtWork'
    BY <1>1 DEF ModbusQuery, AtWork, master, uart
  <2> QED
    BY <1>1, <2>3, <2>4, <2>5 DEF ModbusQuery, TypeOK, master, uart, timers, line, counts
<1>2. CASE CallerTakes
  BY <1>2 DEF CallerTakes, TypeOK, AtWork, master, uart, timers, line, counts
<1>3. CASE CallerGivesUp
  BY <1>3 DEF CallerGivesUp, TypeOK, AtWork, master, uart, timers, line, counts
<1>4. CASE MasterReceives
  <2>1. Head(queue) \in 1 .. MaxQueries /\ Tail(queue) \in Seq(1 .. MaxQueries)
    BY <1>4, TailFacts DEF MasterReceives, TypeOK
  <2>2. telegram' \in 0 .. MaxQueries /\ telegram' # 0 /\ queue' \in Seq(1 .. MaxQueries)
    BY <1>4, <2>1 DEF MasterReceives
  <2>3. AtWork'
    BY <1>4, <2>2 DEF MasterReceives, AtWork, uart
  <2>4. mpc' \in Places
    BY <1>4 DEF MasterReceives, Places
  <2> QED
    BY <1>4, <2>2, <2>3, <2>4 DEF MasterReceives, TypeOK, caller, uart, timers, line, counts
<1>5. CASE SendQuery
  <2>1. mpc' \in Places /\ sending' \in BOOLEAN
    BY <1>5 DEF SendQuery, Places, TypeOK
  <2>2. AtWork'
    BY <1>5 DEF SendQuery, AtWork
  <2> QED
    BY <1>5, <2>1, <2>2 DEF SendQuery, TypeOK, caller, timers, line, counts
<1>6. CASE AwaitTxCplt
  <2>1. mpc' \in Places
    BY <1>6 DEF AwaitTxCplt, Places
  <2>2. AtWork'
    BY <1>6 DEF AwaitTxCplt, AtWork, uart
  <2> QED
    BY <1>6, <2>1, <2>2 DEF AwaitTxCplt, TypeOK, caller, uart, timers, line, counts
<1>7. CASE TxCpltMissed
  <2>1. mpc' \in Places
    BY <1>7 DEF TxCpltMissed, Places
  <2>2. AtWork'
    BY <1>7 DEF TxCpltMissed, AtWork, uart
  <2> QED
    BY <1>7, <2>1, <2>2 DEF TxCpltMissed, TypeOK, caller, uart, timers, line, counts
<1>8. CASE AwaitAnswer
  <2>1. mpc' \in Places /\ timeout' \in BOOLEAN
    BY <1>8 DEF AwaitAnswer, Commanded, Places, TypeOK
  <2>2. AtWork'
    BY <1>8 DEF AwaitAnswer, AtWork, uart
  <2>3. refused' = refused \/ (refused < MaxRefused /\ refused' = refused + 1)
    BY <1>8 DEF AwaitAnswer, Commanded
  <2>4. refused' \in 0 .. MaxRefused
    BY <2>3, RefusalTyped DEF TypeOK
  <2> QED
    BY <1>8, <2>1, <2>2, <2>4 DEF AwaitAnswer, TypeOK, caller, uart, timers, line
<1>9. CASE HandleTimeout
  <2>1. /\ result' \in Results
        /\ UNCHANGED <<asking, query, queue, telegram>>
        /\ mpc' = "queue" /\ i8state' = "COM_IDLE"
    <3>1. 0 \in 0 .. MaxQueries
      BY MasterAssumption DEF MasterAssumption
    <3> QED
      BY <1>9, <3>1, TellTyped DEF HandleTimeout, AtWork
  <2>2. stale' \in BOOLEAN
    BY <1>9, Zenon DEF HandleTimeout
  <2>3. AtWork'
    BY <1>9, <2>1 DEF HandleTimeout, AtWork, uart
  <2> QED
    BY <1>9, <2>1, <2>2, <2>3 DEF HandleTimeout, TypeOK, Places, uart, timers, line, counts
<1>10. CASE HandleBadSize
  <2>1. /\ result' \in Results
        /\ UNCHANGED <<asking, query, queue, telegram>>
        /\ mpc' = "queue" /\ i8state' = "COM_IDLE"
    <3>1. 0 \in 0 .. MaxQueries
      BY MasterAssumption DEF MasterAssumption
    <3> QED
      BY <1>10, <3>1, TellTyped DEF HandleBadSize, AtWork
  <2>2. ring' \in Seq(Pieces)
    BY <1>10, EmptySeq DEF HandleBadSize, getRxBuffer
  <2>3. AtWork'
    BY <1>10, <2>1 DEF HandleBadSize, getRxBuffer, AtWork
  <2> QED
    BY <1>10, <2>1, <2>2, <2>3 DEF HandleBadSize, getRxBuffer, TypeOK, Places, timers, line, counts
<1>11. CASE HandleAnswer
  <2>1. /\ result' \in Results
        /\ UNCHANGED <<asking, query, queue, telegram>>
        /\ mpc' = "queue" /\ i8state' = "COM_IDLE"
        /\ used' \in 0 .. MaxQueries
    <3>1. 0 \in 0 .. MaxQueries
      BY MasterAssumption DEF MasterAssumption
    <3>2. telegram # 0
      BY <1>11 DEF HandleAnswer, AtWork
    <3>3. CASE Tell(FALSE, 0) /\ UNCHANGED used
      BY <3>1, <3>2, <3>3, TellTyped DEF TypeOK
    <3>4. CASE \E i \in mb_trim_sticky_packet(ring) : Tell(TRUE, ring[i].q) /\ used' = ring[i].q
      <4>1. PICK i \in mb_trim_sticky_packet(ring) : Tell(TRUE, ring[i].q) /\ used' = ring[i].q
        BY <3>4
      <4>2. i \in DOMAIN ring
        BY <4>1 DEF mb_trim_sticky_packet, Starts
      <4>3. ring[i] \in Pieces
        BY <4>2, ElementOfSeq DEF TypeOK
      <4>4. ring[i].q \in 0 .. MaxQueries
        BY <4>3 DEF Pieces
      <4> QED
        BY <3>2, <4>1, <4>4, TellTyped
    <3>5. \/ Tell(FALSE, 0) /\ UNCHANGED used
          \/ \E i \in mb_trim_sticky_packet(ring) : Tell(TRUE, ring[i].q) /\ used' = ring[i].q
      BY <1>11, Zenon DEF HandleAnswer
    <3> QED
      BY <3>3, <3>4, <3>5
  <2>2. ring' \in Seq(Pieces) /\ listening' \in BOOLEAN /\ sending' = sending
    BY <1>11, EmptySeq DEF HandleAnswer, getRxBuffer
  <2>3. AtWork'
    BY <1>11, <2>1, <2>2 DEF HandleAnswer, AtWork
  <2>4. refused' = refused \/ (refused < MaxRefused /\ refused' = refused + 1)
    BY <1>11, Zenon DEF HandleAnswer, Commanded
  <2>5. refused' \in 0 .. MaxRefused
    BY <2>4, RefusalTyped DEF TypeOK
  <2>6. timeout' \in BOOLEAN
    BY <1>11, Zenon DEF HandleAnswer, Commanded, TypeOK
  <2>7. UNCHANGED <<notified, t35, line, stale, noise, overruns>>
    BY <1>11 DEF HandleAnswer
  <2> QED
    BY <2>1, <2>2, <2>3, <2>5, <2>6, <2>7 DEF TypeOK, Places, line
<1>12. CASE TxCplt
  <2>1. telegram \in 1 .. MaxQueries
    BY <1>12 DEF TxCplt, AtWork, TypeOK
  <2>2. unit' \in Seq(1 .. MaxQueries)
    BY <1>12, <2>1, AppendFacts DEF TxCplt, TypeOK
  <2>3. mpc' \in Places
    BY <1>12 DEF TxCplt, TypeOK, Places
  <2>4. AtWork'
    BY <1>12 DEF TxCplt, AtWork
  <2> QED
    BY <1>12, <2>2, <2>3, <2>4 DEF TxCplt, TypeOK, caller, timers, counts
<1>13. CASE vTimerCallbackT35
  <2>1. mpc' \in Places
    BY <1>13 DEF vTimerCallbackT35, Notify, TypeOK, Places
  <2>2. AtWork'
    BY <1>13 DEF vTimerCallbackT35, Notify, AtWork, uart
  <2>3. refused' = refused \/ (refused < MaxRefused /\ refused' = refused + 1)
    BY <1>13 DEF vTimerCallbackT35, Commanded
  <2>4. refused' \in 0 .. MaxRefused
    BY <2>3, RefusalTyped DEF TypeOK
  <2>5. timeout' \in BOOLEAN /\ t35' \in BOOLEAN
    BY <1>13, Zenon DEF vTimerCallbackT35, Commanded, TypeOK
  <2> QED
    BY <1>13, <2>1, <2>2, <2>4, <2>5 DEF vTimerCallbackT35, Notify, TypeOK, caller, uart, line
<1>14. CASE vTimerCallbackTimeout
  <2>1. mpc' \in Places
    BY <1>14 DEF vTimerCallbackTimeout, Notify, TypeOK, Places
  <2>2. AtWork'
    BY <1>14 DEF vTimerCallbackTimeout, Notify, AtWork, uart
  <2> QED
    BY <1>14, <2>1, <2>2 DEF vTimerCallbackTimeout, Notify, TypeOK, caller, uart, line, counts
<1>15. CASE UnitAnswers
  <2>1. PICK part \in {"answer", "exception"} : Arrives(Piece(Head(unit), part))
    BY <1>15 DEF UnitAnswers
  <2>2. Head(unit) \in 1 .. MaxQueries /\ Tail(unit) \in Seq(1 .. MaxQueries)
    BY <1>15, TailFacts DEF UnitAnswers, TypeOK
  <2>3. Piece(Head(unit), part) \in Pieces
    BY <2>1, <2>2 DEF Piece, Pieces, Parts
  <2> QED
    BY <1>15, <2>1, <2>2, <2>3, ArrivalTyped DEF UnitAnswers, TypeOK, AtWork, caller, master
<1>16. CASE UnitBegins
  <2>1. Head(unit) \in 1 .. MaxQueries /\ Tail(unit) \in Seq(1 .. MaxQueries)
    BY <1>16, TailFacts DEF UnitBegins, TypeOK
  <2>2. Piece(Head(unit), "head") \in Pieces
    BY <2>1 DEF Piece, Pieces, Parts
  <2>3. noise' \in 0 .. MaxNoise
    BY <1>16, NoiseTyped DEF UnitBegins, TypeOK
  <2>4. unit' = Tail(unit) /\ tail' \in 0 .. MaxQueries
    BY <1>16, <2>1 DEF UnitBegins
  <2>5. /\ ring' \in Seq(Pieces)
        /\ listening' \in BOOLEAN /\ t35' \in BOOLEAN /\ stale' \in BOOLEAN
        /\ overruns' \in 0 .. MaxOverruns /\ refused' \in 0 .. MaxRefused
        /\ UNCHANGED <<caller, queue, master, notified, sending, timeout, used>>
    BY <1>16, <2>2, ArrivalTyped DEF UnitBegins
  <2> QED
    BY <2>1, <2>2, <2>3, <2>4, <2>5 DEF TypeOK, AtWork, caller, master
<1>17. CASE UnitEnds
  <2>1. Piece(tail, "tail") \in Pieces
    BY DEF TypeOK, Piece, Pieces, Parts
  <2>2. tail' \in 0 .. MaxQueries
    BY <1>17, MasterAssumption DEF MasterAssumption, UnitEnds
  <2> QED
    BY <1>17, <2>1, <2>2, ArrivalTyped DEF UnitEnds, TypeOK, AtWork, caller, master
<1>18. CASE UnitStaysSilent
  <2>1. Tail(unit) \in Seq(1 .. MaxQueries)
    BY <1>18, TailFacts DEF UnitStaysSilent, TypeOK
  <2> QED
    BY <1>18, <2>1 DEF UnitStaysSilent, TypeOK, AtWork, caller, master, uart, timers, counts
<1>19. CASE NoiseArrives
  <2>1. 0 \in 0 .. MaxQueries
    BY MasterAssumption DEF MasterAssumption
  <2>2. Piece(0, "noise") \in Pieces
    BY <2>1 DEF Piece, Pieces, Parts
  <2>3. noise' \in 0 .. MaxNoise
    BY <1>19, NoiseTyped DEF NoiseArrives, TypeOK
  <2> QED
    BY <1>19, <2>2, <2>3, ArrivalTyped DEF NoiseArrives, TypeOK, AtWork, caller, master, line
<1>20. CASE UNCHANGED vars
  BY <1>20 DEF vars, TypeOK, AtWork, caller, master, uart, timers, line, counts
<1> QED
  BY <1>1, <1>2, <1>3, <1>4, <1>5, <1>6, <1>7, <1>8, <1>9, <1>10, <1>11, <1>12, <1>13, <1>14,
     <1>15, <1>16, <1>17, <1>18, <1>19, <1>20
     DEF Next, Caller, Master, Timers, Unit

LEMMA TypeAlways == Spec => []TypeInvariant
<1>1. Init => TypeInvariant
  BY TypeInitially
<1>2. TypeInvariant /\ [Next]_vars => TypeInvariant'
  BY TypePreserved
<1> QED
  BY <1>1, <1>2, PTL DEF Spec

\* Every variable keeps its type.
THEOREM TypeCorrect == Spec => []TypeOK
<1>1. TypeInvariant => TypeOK
  BY DEF TypeInvariant
<1> QED
  BY <1>1, TypeAlways, PTL

-----------------------------------------------------------------------------
(* One query at a time.                                                    *)

\* What is queued, worked on or told is the query that the thread waits for; it
\* is always one of the three; and the timer runs while its answer is awaited.
Queued   == queue # <<>> => asking /\ queue = <<query>> /\ mpc = "queue" /\ result = None
WorkedOn == mpc # "queue" => asking /\ telegram = query /\ result = None
Told     == result # None => asking /\ result.of = query
Handled  == asking /\ result = None => queue = <<query>> \/ mpc # "queue"
Timed    == /\ timeout <=> mpc = "answer"
            /\ notified = "ERR_TIME_OUT" => mpc = "woken"
            /\ i8state = "COM_WAITING" => mpc \in {"answer", "woken"}
Outstanding == Queued /\ WorkedOn /\ Told /\ Handled /\ Timed

\* As long as no command has been refused, every step keeps it so.
LEMMA OutstandingPreserved ==
  ASSUME TypeInvariant, [Next]_vars, refused' = 0, refused = 0, Outstanding
  PROVE  Outstanding'
<1> USE DEF Outstanding
<1>0. TypeOK /\ AtWork
  BY DEF TypeInvariant
<1>1. CASE ModbusQuery
  <2>1. queue = <<>> /\ mpc = "queue" /\ result = None
    BY <1>1 DEF ModbusQuery, Queued, WorkedOn, Told
  <2>2. queue' = <<query'>>
    <3>1. Len(queue) < MaxTelegrams
      BY <2>1, EmptySeq, MasterAssumption DEF MasterAssumption
    <3>2. queue' = Append(<<>>, query')
      BY <1>1, <2>1, <3>1 DEF ModbusQuery
    <3> QED
      BY <3>2
  <2>3. asking' /\ UNCHANGED <<mpc, i8state, result, notified, timeout>>
    BY <1>1 DEF ModbusQuery, master, timers
  <2> QED
    BY <2>1, <2>2, <2>3 DEF Queued, WorkedOn, Told, Handled, Timed
<1>2. CASE CallerTakes
  <2>1. queue = <<>> /\ mpc = "queue"
    BY <1>2 DEF CallerTakes, Queued, WorkedOn
  <2> QED
    BY <1>2, <2>1 DEF CallerTakes, master, timers, Queued, WorkedOn, Told, Handled, Timed
<1>3. CASE CallerGivesUp
  <2>1. Served
    BY <1>3 DEF CallerGivesUp, Served, Queued, WorkedOn, Handled, Timed
  <2> QED
    BY <1>3, <2>1 DEF CallerGivesUp
<1>4. CASE MasterReceives
  <2>1. queue = <<query>> /\ asking /\ result = None
    BY <1>4 DEF MasterReceives, Queued
  <2>2. telegram' = query /\ queue' = <<>>
    BY <1>4, <2>1 DEF MasterReceives
  <2> QED
    BY <1>4, <2>1, <2>2 DEF MasterReceives, caller, timers, Queued, WorkedOn, Told, Handled, Timed
<1>5. CASE SendQuery
  <2>1. queue = <<>> /\ i8state # "COM_WAITING"
    BY <1>5 DEF SendQuery, Queued, Timed
  <2>2. mpc' = "send"
    BY <1>0, <1>5, <2>1 DEF SendQuery, TypeOK
  <2> QED
    BY <1>5, <2>1, <2>2 DEF SendQuery, caller, timers, Queued, WorkedOn, Told, Handled, Timed
<1>6. CASE AwaitTxCplt
  <2>1. queue = <<>> /\ mpc' \in {"txwait", "tc"}
    BY <1>6 DEF AwaitTxCplt, Queued
  <2> QED
    BY <1>6, <2>1 DEF AwaitTxCplt, caller, timers, Queued, WorkedOn, Told, Handled, Timed
<1>7. CASE TxCpltMissed
  BY <1>7 DEF TxCpltMissed, caller, timers, Queued, WorkedOn, Told, Handled, Timed
<1>8. CASE AwaitAnswer
  <2>1. queue = <<>> /\ notified = "0"
    BY <1>0, <1>8 DEF AwaitAnswer, Queued, Timed, TypeOK
  <2>2. timeout'
    BY <1>8 DEF AwaitAnswer, Commanded
  <2> QED
    BY <1>8, <2>1, <2>2 DEF AwaitAnswer, caller, Queued, WorkedOn, Told, Handled, Timed
<1>9. CASE HandleTimeout \/ HandleBadSize \/ HandleAnswer
  <2>1. mpc = "woken" /\ notified' = "0"
    BY <1>9 DEF HandleTimeout, HandleBadSize, HandleAnswer
  <2>2. \E ok, from : Tell(ok, from)
    BY <1>9, Zenon DEF HandleTimeout, HandleBadSize, HandleAnswer
  <2>3. PICK ok, from : Tell(ok, from)
    BY <2>2
  <2>4. result'.of = telegram
    BY <2>3 DEF Tell
  <2>5. /\ UNCHANGED <<asking, query, queue, telegram>>
        /\ mpc' = "queue" /\ i8state' = "COM_IDLE"
    BY <2>3 DEF Tell
  <2>6. result' # None
    BY <1>0, <2>1, <2>4 DEF AtWork, None
  <2>7. queue = <<>> /\ asking /\ telegram = query
    BY <2>1 DEF Queued, WorkedOn
  <2>8. ~timeout'
    BY <1>9, <2>1 DEF HandleTimeout, HandleBadSize, HandleAnswer, Commanded, Timed, timers
  <2> QED
    BY <2>1, <2>4, <2>5, <2>6, <2>7, <2>8 DEF Queued, WorkedOn, Told, Handled, Timed
<1>10. CASE TxCplt
  <2>1. queue = <<>> /\ mpc \in {"send", "txwait", "tc"}
    BY <1>0, <1>10 DEF TxCplt, AtWork, Queued
  <2> QED
    BY <1>10, <2>1 DEF TxCplt, caller, timers, Queued, WorkedOn, Told, Handled, Timed
<1>11. CASE vTimerCallbackT35
  <2>1. ~timeout' /\ notified' = "0"
    BY <1>11 DEF vTimerCallbackT35, Notify, Commanded
  <2>2. /\ mpc = "queue" => mpc' = "queue"
        /\ mpc # "queue" => mpc' # "queue"
        /\ mpc' # "answer"
        /\ mpc \in {"answer", "woken"} => mpc' = "woken"
    BY <1>11 DEF vTimerCallbackT35, Notify
  <2> QED
    BY <1>11, <2>1, <2>2
       DEF vTimerCallbackT35, Notify, caller, Queued, WorkedOn, Told, Handled, Timed
<1>12. CASE vTimerCallbackTimeout
  <2>1. mpc = "answer"
    BY <1>12 DEF vTimerCallbackTimeout, Timed
  <2>2. mpc' = "woken" /\ ~timeout'
    BY <1>12, <2>1 DEF vTimerCallbackTimeout, Notify
  <2> QED
    BY <1>12, <2>1, <2>2
       DEF vTimerCallbackTimeout, Notify, caller, Queued, WorkedOn, Told, Handled, Timed
<1>13. CASE Unit \/ UNCHANGED vars
  <2>1. UNCHANGED <<caller, queue, master, notified, timeout>>
    BY <1>13
       DEF Unit, UnitAnswers, UnitBegins, UnitEnds, UnitStaysSilent, NoiseArrives, Arrives, vars, timers
  <2> QED
    BY <2>1 DEF caller, master, Queued, WorkedOn, Told, Handled, Timed
<1> QED
  BY <1>1, <1>2, <1>3, <1>4, <1>5, <1>6, <1>7, <1>8, <1>9, <1>10, <1>11, <1>12, <1>13
     DEF Next, Caller, Master, Timers

\* A refusal is never taken back.
LEMMA RefusedGrows ==
  ASSUME TypeInvariant, [Next]_vars
  PROVE  refused' = refused \/ refused' = refused + 1
<1>1. CASE Caller \/ SendQuery \/ MasterReceives \/ AwaitTxCplt \/ TxCpltMissed \/ HandleTimeout
           \/ HandleBadSize \/ TxCplt \/ vTimerCallbackTimeout \/ UnitStaysSilent \/ UNCHANGED vars
  BY <1>1, Zenon
     DEF Caller, ModbusQuery, CallerTakes, CallerGivesUp, SendQuery, MasterReceives, AwaitTxCplt,
         TxCpltMissed, HandleTimeout, HandleBadSize, TxCplt, vTimerCallbackTimeout,
         UnitStaysSilent, counts, vars
<1>2. CASE AwaitAnswer \/ HandleAnswer \/ vTimerCallbackT35
  BY <1>2, Zenon DEF AwaitAnswer, HandleAnswer, vTimerCallbackT35, Commanded
<1>3. CASE UnitAnswers \/ UnitBegins \/ UnitEnds \/ NoiseArrives
  <2>1. PICK p : Arrives(p)
    BY <1>3, Zenon DEF UnitAnswers, UnitBegins, UnitEnds, NoiseArrives
  <2>2. ASSUME NEW q, Heard(q) PROVE refused' = refused \/ refused' = refused + 1
    BY <2>2, Zenon DEF Heard, Commanded
  <2>3. \/ Heard(p) \/ Heard(Piece(p.q, "head")) \/ UNCHANGED refused
    BY <2>1, Zenon DEF Arrives, Overrun
  <2> QED
    BY <2>2, <2>3, Zenon
<1> QED
  BY <1>1, <1>2, <1>3, Zenon DEF Next, Master, Timers, Unit

LEMMA OutstandingAlways == Spec => [](TypeInvariant /\ (refused = 0 => Outstanding))
<1> DEFINE IInv == TypeInvariant /\ (refused = 0 => Outstanding)
<1>1. Init => IInv
  <2>1. Init => Outstanding
    BY DEF Init, Outstanding, Queued, WorkedOn, Told, Handled, Timed
  <2> QED
    BY <2>1, TypeInitially
<1>2. IInv /\ [Next]_vars => IInv'
  <2> SUFFICES ASSUME IInv, [Next]_vars PROVE IInv'
    OBVIOUS
  <2>1. TypeInvariant'
    BY TypePreserved
  <2>2. refused \in Nat
    BY MasterAssumption DEF MasterAssumption, TypeInvariant, TypeOK
  <2>3. ASSUME refused' = 0 PROVE refused = 0
    BY <2>2, <2>3, RefusedGrows
  <2>4. ASSUME refused' = 0 PROVE Outstanding'
    BY <2>3, <2>4, OutstandingPreserved
  <2> QED
    BY <2>1, <2>4
<1> QED
  BY <1>1, <1>2, PTL DEF Spec

\* As long as the timer task takes its commands, what is queued, worked on or told
\* is the query that the thread waits for.
THEOREM OneQuery == Spec => []OneQueryOutstanding
<1>1. TypeInvariant /\ (refused = 0 => Outstanding) => OneQueryOutstanding
  BY DEF Outstanding, Queued, WorkedOn, Told, OneQueryOutstanding
<1> QED
  BY <1>1, OutstandingAlways, PTL

\* As long as the timer task takes its commands, a timeout that runs or has been
\* notified is that of the query whose answer is awaited.
THEOREM TimeoutBelongs == Spec => []TimeoutBelongsToQuery
<1>1. TypeInvariant /\ (refused = 0 => Outstanding) => TimeoutBelongsToQuery
  BY DEF Outstanding, Timed, TimeoutBelongsToQuery
<1> QED
  BY <1>1, OutstandingAlways, PTL

-----------------------------------------------------------------------------
(* What arrives and what is taken.                                         *)

\* A piece that ends an answer: a frame that is whole, or the rest of a cut one.
Ends(p) == p.part \in {"answer", "exception", "tail"}

\* At most one piece is added to the ring: the one that arrives, or its beginning.
LEMMA Arrival ==
  ASSUME NEW p, Arrives(p)
  PROVE  /\ UNCHANGED <<caller, queue, master, notified, sending, timeout, used>>
         /\ \/ UNCHANGED <<ring, stale>>
            \/ \E h \in {p, Piece(p.q, "head")} :
                 /\ ring' = Append(ring, h)
                 /\ stale' = (stale \/ (h.q # 0 /\ ~(mpc = "answer" /\ telegram = h.q)))
<1>1. UNCHANGED <<caller, queue, master, notified, sending, timeout, used>>
  BY DEF Arrives
<1>2. \/ \E h \in {p, Piece(p.q, "head")} : Heard(h)
      \/ UNCHANGED <<ring, stale>>
  BY Zenon DEF Arrives, Overrun
<1> QED
  BY <1>1, <1>2, Zenon DEF Heard

\* What is told as a success comes from a piece that ends an answer.
LEMMA AnswerTaken ==
  ASSUME TypeOK, HandleAnswer
  PROVE  /\ mpc = "woken" /\ ring' = <<>>
         /\ UNCHANGED <<notified, line, stale, sending>>
         /\ \/ Tell(FALSE, 0) /\ used' = used
            \/ \E k \in 1 .. Len(ring) :
                 Ends(ring[k]) /\ Tell(TRUE, ring[k].q) /\ used' = ring[k].q
<1>1. /\ mpc = "woken" /\ ring' = <<>>
      /\ UNCHANGED <<notified, line, stale, sending>>
  BY DEF HandleAnswer, getRxBuffer
<1>2. \/ Tell(FALSE, 0) /\ used' = used
      \/ \E i \in Starts(ring) : Tell(TRUE, ring[i].q) /\ used' = ring[i].q
  BY Zenon DEF HandleAnswer, mb_trim_sticky_packet
<1>3. CASE Tell(FALSE, 0) /\ used' = used
  BY <1>1, <1>3
<1>4. CASE \E i \in Starts(ring) : Tell(TRUE, ring[i].q) /\ used' = ring[i].q
  <2>1. PICK i \in Starts(ring) : Tell(TRUE, ring[i].q) /\ used' = ring[i].q
    BY <1>4
  <2>2. i \in 1 .. Len(ring) /\ Len(ring) \in Nat
    BY LenProperties DEF Starts, TypeOK
  <2>3. CASE ring[i].part \in {"answer", "exception"}
    BY <1>1, <2>1, <2>2, <2>3 DEF Ends
  <2>4. CASE i < Len(ring) /\ ring[i + 1] = Piece(ring[i].q, "tail")
    <3>1. i + 1 \in 1 .. Len(ring)
      BY <2>2, <2>4
    <3>2. Ends(ring[i + 1]) /\ ring[i + 1].q = ring[i].q
      BY <2>4 DEF Piece, Ends
    <3> QED
      BY <1>1, <2>1, <3>1, <3>2
  <2> QED
    BY <2>1, <2>3, <2>4 DEF Starts
<1> QED
  BY <1>2, <1>3, <1>4

-----------------------------------------------------------------------------
(* The order of the answers.                                               *)

\* Query n has left the master, if it ever does: what it sends from here on is later.
Asked(n) == n < telegram \/ (n = telegram /\ mpc # "silence" /\ ~sending)

\* What the unit still has to send, or to finish, answers later queries than n.
Before(n) ==
  /\ Asked(n)
  /\ tail # 0 => n < tail
  /\ \A i \in 1 .. Len(unit) : n < unit[i]

QueueOrder ==
  /\ telegram <= query
  /\ \A i \in 1 .. Len(queue) : telegram < queue[i] /\ queue[i] <= query
  /\ \A i, j \in 1 .. Len(queue) : i < j => queue[i] < queue[j]

UnitOrder ==
  /\ \A i \in 1 .. Len(unit) : Asked(unit[i]) /\ (tail # 0 => tail < unit[i])
  /\ \A i, j \in 1 .. Len(unit) : i < j => unit[i] < unit[j]
  /\ tail # 0 => Asked(tail)

RingOrder ==
  \A i \in 1 .. Len(ring) : Ends(ring[i]) => used < ring[i].q /\ Before(ring[i].q)

\* The queries go through the queue, the master, the unit and the ring in order, and
\* the answer taken last is before all that is still to come.
InOrder == QueueOrder /\ UnitOrder /\ RingOrder /\ Before(used)

LEMMA OrderInitially == Init => InOrder
<1> SUFFICES ASSUME Init PROVE InOrder
  OBVIOUS
<1>1. Len(queue) = 0 /\ Len(unit) = 0 /\ Len(ring) = 0
  BY EmptySeq DEF Init
<1> QED
  BY <1>1 DEF Init, InOrder, QueueOrder, UnitOrder, RingOrder, Before, Asked

\* The numbers there are.
LEMMA Numbers ==
  ASSUME TypeOK
  PROVE  /\ query \in Nat /\ telegram \in Nat /\ tail \in Nat /\ used \in Nat
         /\ Len(queue) \in Nat /\ Len(unit) \in Nat /\ Len(ring) \in Nat
         /\ \A i \in 1 .. Len(queue) : queue[i] \in Nat
         /\ \A i \in 1 .. Len(unit) : unit[i] \in 1 .. MaxQueries /\ unit[i] \in Nat
         /\ \A i \in 1 .. Len(ring) : ring[i] \in Pieces /\ ring[i].q \in Nat
<1>1. /\ queue \in Seq(1 .. MaxQueries) /\ unit \in Seq(1 .. MaxQueries) /\ ring \in Seq(Pieces)
      /\ query \in 0 .. MaxQueries /\ telegram \in 0 .. MaxQueries
      /\ tail \in 0 .. MaxQueries /\ used \in 0 .. MaxQueries
  BY DEF TypeOK
<1>2. \A i \in 1 .. Len(queue) : queue[i] \in 1 .. MaxQueries
  BY <1>1, ElementOfSeq
<1>3. \A i \in 1 .. Len(unit) : unit[i] \in 1 .. MaxQueries
  BY <1>1, ElementOfSeq
<1>4. \A i \in 1 .. Len(ring) : ring[i] \in Pieces
  BY <1>1, ElementOfSeq
<1>5. \A x \in Pieces : x.q \in 0 .. MaxQueries
  BY DEF Pieces
<1>6. Len(queue) \in Nat /\ Len(unit) \in Nat /\ Len(ring) \in Nat
  BY <1>1, LenProperties
<1> QED
  BY <1>1, <1>2, <1>3, <1>4, <1>5, <1>6, MasterAssumption DEF MasterAssumption

\* Steps that send, ask and receive nothing keep the order.
LEMMA OrderKept ==
  ASSUME TypeInvariant, InOrder, UNCHANGED <<query, queue, telegram, line, used>>,
         \/ UNCHANGED <<mpc, sending>>
         \/ mpc' # "silence" /\ (sending' => sending \/ mpc = "silence"),
         ring' = ring \/ ring' = <<>>
  PROVE  InOrder'
<1>0. TypeOK /\ AtWork
  BY DEF TypeInvariant
<1>1. \A n \in Nat : Asked(n) => Asked(n)'
  BY <1>0, Numbers DEF Asked
<1>2. \A n \in Nat : Before(n) => Before(n)'
  BY <1>1 DEF Before, line
<1>3. QueueOrder'
  BY DEF InOrder, QueueOrder
<1>4. UnitOrder'
  BY <1>0, <1>1, Numbers DEF InOrder, UnitOrder, line
<1>5. RingOrder'
  <2>1. CASE ring' = ring
    BY <1>0, <1>2, <2>1, Numbers DEF InOrder, RingOrder
  <2>2. CASE ring' = <<>>
    BY <2>2, EmptySeq DEF RingOrder
  <2> QED
    BY <2>1, <2>2
<1>6. Before(used)'
  BY <1>0, <1>2, Numbers DEF InOrder
<1> QED
  BY <1>3, <1>4, <1>5, <1>6 DEF InOrder

\* A new query is later than all that are queued, and a full queue drops it.
LEMMA OrderQuery ==
  ASSUME TypeInvariant, InOrder, ModbusQuery
  PROVE  InOrder'
<1>0. TypeOK
  BY DEF TypeInvariant
<1>1. UNCHANGED <<telegram, mpc, sending, tail, unit, ring, used>> /\ query' = query + 1
  BY DEF ModbusQuery, master, uart, line
<1>2. \A n \in Nat : Before(n) => Before(n)'
  BY <1>1 DEF Before, Asked
<1>3. QueueOrder'
  <2>1. telegram' <= query'
    BY <1>0, <1>1, Numbers DEF InOrder, QueueOrder
  <2>2. CASE queue' = queue
    BY <1>0, <1>1, <2>1, <2>2, Numbers DEF InOrder, QueueOrder
  <2>3. CASE queue' = Append(queue, query + 1)
    <3>1. query + 1 \in 1 .. MaxQueries
      BY SMTT(60), <1>0, Numbers, MasterAssumption DEF MasterAssumption, ModbusQuery
    <3>2. /\ Len(queue') = Len(queue) + 1
          /\ \A i \in 1 .. Len(queue) + 1 :
               queue'[i] = IF i <= Len(queue) THEN queue[i] ELSE query + 1
      BY SMTT(60), <1>0, <2>3, <3>1, AppendFacts DEF TypeOK
    <3>3. ASSUME NEW i \in 1 .. Len(queue')
          PROVE  telegram' < queue'[i] /\ queue'[i] <= query'
      <4>1. query \in Nat /\ telegram \in Nat /\ Len(queue) \in Nat /\ telegram <= query
        BY <1>0, Numbers DEF InOrder, QueueOrder
      <4>2. CASE i <= Len(queue)
        <5>1. i \in 1 .. Len(queue) /\ queue'[i] = queue[i] /\ queue[i] \in Nat
          BY <1>0, <3>2, <4>1, <4>2, Numbers
        <5>2. telegram < queue[i] /\ queue[i] <= query
          BY <5>1 DEF InOrder, QueueOrder
        <5> QED
          BY <1>1, <4>1, <5>1, <5>2
      <4>3. CASE ~(i <= Len(queue))
        BY <1>1, <3>2, <4>1, <4>3
      <4> QED
        BY <4>2, <4>3
    <3>4. ASSUME NEW i \in 1 .. Len(queue'), NEW j \in 1 .. Len(queue'), i < j
          PROVE  queue'[i] < queue'[j]
      BY SMTT(60), <1>0, <3>2, <3>4, Numbers DEF InOrder, QueueOrder
    <3> QED
      BY <2>1, <3>3, <3>4 DEF QueueOrder
  <2> QED
    BY <2>2, <2>3 DEF ModbusQuery
<1>4. UnitOrder'
  BY <1>0, <1>1 DEF InOrder, UnitOrder, Asked
<1>5. RingOrder'
  BY <1>0, <1>1, <1>2, Numbers DEF InOrder, RingOrder
<1>6. Before(used)'
  BY <1>0, <1>1, <1>2, Numbers DEF InOrder
<1> QED
  BY <1>3, <1>4, <1>5, <1>6 DEF InOrder

\* The telegram received is later than the one before it.
LEMMA OrderReceive ==
  ASSUME TypeInvariant, InOrder, MasterReceives
  PROVE  InOrder'
<1>0. TypeOK
  BY DEF TypeInvariant
<1>1. UNCHANGED <<query, sending, tail, unit, ring, used>>
  BY DEF MasterReceives, caller, uart, line
<1>2. /\ telegram' = queue[1] /\ Len(queue') = Len(queue) - 1
      /\ \A i \in 1 .. Len(queue) - 1 : queue'[i] = queue[i + 1]
      /\ Len(queue) \in Nat \ {0}
  BY <1>0, TailFacts DEF MasterReceives, TypeOK
<1>3. telegram < telegram' /\ telegram' <= query
  BY <1>0, <1>2 DEF InOrder, QueueOrder
<1>4. \A n \in Nat : Asked(n) => Asked(n)'
  BY <1>0, <1>2, <1>3, Numbers DEF Asked
<1>5. \A n \in Nat : Before(n) => Before(n)'
  BY <1>1, <1>4 DEF Before
<1>6. QueueOrder'
  <2>1. ASSUME NEW i \in 1 .. Len(queue')
        PROVE  telegram' < queue'[i] /\ queue'[i] <= query'
    BY <1>0, <1>1, <1>2, <2>1 DEF InOrder, QueueOrder
  <2>2. ASSUME NEW i \in 1 .. Len(queue'), NEW j \in 1 .. Len(queue'), i < j
        PROVE  queue'[i] < queue'[j]
    BY <1>2, <2>2 DEF InOrder, QueueOrder
  <2> QED
    BY <1>1, <1>3, <2>1, <2>2 DEF QueueOrder
<1>7. UnitOrder'
  BY <1>0, <1>1, <1>4, Numbers DEF InOrder, UnitOrder
<1>8. RingOrder'
  BY <1>0, <1>1, <1>5, Numbers DEF InOrder, RingOrder
<1>9. Before(used)'
  BY <1>0, <1>1, <1>5, Numbers DEF InOrder
<1> QED
  BY <1>6, <1>7, <1>8, <1>9 DEF InOrder

\* What is sent is later than all that was.
LEMMA OrderSent ==
  ASSUME TypeInvariant, InOrder, TxCplt
  PROVE  InOrder'
<1>0. TypeOK /\ AtWork
  BY DEF TypeInvariant
<1>1. /\ UNCHANGED <<query, queue, telegram, tail, ring, used>>
      /\ sending /\ ~sending' /\ mpc # "silence" /\ mpc' # "silence"
  BY <1>0 DEF TxCplt, AtWork, caller
<1>2. /\ Len(unit') = Len(unit) + 1
      /\ \A i \in 1 .. Len(unit) + 1 : unit'[i] = IF i <= Len(unit) THEN unit[i] ELSE telegram
  <2>1. telegram \in 1 .. MaxQueries
    BY <1>0, <1>1 DEF AtWork, TypeOK
  <2> QED
    BY <1>0, <2>1, AppendFacts DEF TxCplt, TypeOK
<1>3. \A n \in Nat : Asked(n) => Asked(n)' /\ n < telegram
  BY <1>0, <1>1, Numbers DEF Asked
<1>4. \A n \in Nat : Before(n) => Before(n)'
  BY SMTT(60), <1>0, <1>1, <1>2, <1>3, Numbers DEF Before
<1>5. QueueOrder'
  BY <1>1 DEF InOrder, QueueOrder
<1>6. UnitOrder'
  <2>1. Asked(telegram)'
    BY <1>1 DEF Asked
  <2>2. tail # 0 => tail < telegram /\ Asked(tail)'
    BY <1>0, <1>1, <1>3, Numbers DEF InOrder, UnitOrder
  <2>3. \A i \in 1 .. Len(unit) : Asked(unit[i])' /\ unit[i] < telegram
    <3> SUFFICES ASSUME NEW i \in 1 .. Len(unit) PROVE Asked(unit[i])' /\ unit[i] < telegram
      OBVIOUS
    <3>1. unit[i] \in Nat /\ Asked(unit[i])
      BY <1>0, Numbers DEF InOrder, UnitOrder
    <3>2. unit[i] < telegram
      BY <1>3, <3>1
    <3>3. unit'[i] = unit[i]
      BY <1>0, <1>2, Numbers
    <3> QED
      BY <1>1, <3>2, <3>3 DEF Asked
  <2>4. ASSUME NEW i \in 1 .. Len(unit')
        PROVE  Asked(unit[i])' /\ (tail' # 0 => tail' < unit'[i])
    BY SMTT(60), <1>0, <1>1, <1>2, <2>1, <2>2, <2>3, <2>4, Numbers DEF InOrder, UnitOrder, Asked
  <2>5. ASSUME NEW i \in 1 .. Len(unit'), NEW j \in 1 .. Len(unit'), i < j
        PROVE  unit'[i] < unit'[j]
    BY SMTT(60), <1>0, <1>2, <2>3, <2>5, Numbers DEF InOrder, UnitOrder
  <2> QED
    BY <1>1, <2>2, <2>4, <2>5 DEF UnitOrder, Asked
<1>7. RingOrder'
  BY <1>0, <1>1, <1>4, Numbers DEF InOrder, RingOrder
<1>8. Before(used)'
  BY <1>0, <1>1, <1>4, Numbers DEF InOrder
<1> QED
  BY <1>5, <1>6, <1>7, <1>8 DEF InOrder

\* A piece may arrive that is later than what was taken and before what is to come.
LEMMA OrderArrives ==
  ASSUME TypeInvariant, InOrder, NEW p \in Pieces, Arrives(p),
         UnitOrder', \A n \in Nat : Before(n) => Before(n)',
         Ends(p) => used < p.q /\ Before(p.q)'
  PROVE  InOrder'
<1>0. TypeOK
  BY DEF TypeInvariant
<1>1. UNCHANGED <<query, queue, telegram, used>>
  BY Arrival DEF caller, master
<1>2. QueueOrder'
  BY <1>1 DEF InOrder, QueueOrder
<1>3. Before(used)'
  BY <1>0, <1>1, Numbers DEF InOrder
<1>4. ASSUME NEW i \in 1 .. Len(ring), Ends(ring[i]), NEW n, n = ring[i].q
      PROVE  used' < n /\ Before(n)'
  <2>1. n \in Nat /\ used < n /\ Before(n)
    BY <1>0, <1>4, Numbers DEF InOrder, RingOrder
  <2> QED
    BY <1>1, <2>1
<1>5. RingOrder'
  <2>1. CASE UNCHANGED ring
    <3> SUFFICES ASSUME NEW i \in 1 .. Len(ring'), Ends(ring[i])'
                 PROVE  (used < ring[i].q /\ Before(ring[i].q))'
      BY DEF RingOrder
    <3>1. PICK n : n = ring[i].q
      OBVIOUS
    <3>2. used' < n /\ Before(n)'
      BY <1>4, <2>1, <3>1 DEF Ends
    <3> QED
      BY <2>1, <3>1, <3>2 DEF Before, Asked
  <2>2. CASE \E h \in {p, Piece(p.q, "head")} : ring' = Append(ring, h)
    <3>1. PICK h \in {p, Piece(p.q, "head")} : ring' = Append(ring, h)
      BY <2>2
    <3>2. h \in Pieces
      BY <3>1 DEF Pieces, Piece, Parts
    <3>3. Ends(h) => h = p
      BY <3>1 DEF Ends, Piece
    <3>4. /\ Len(ring') = Len(ring) + 1 /\ Len(ring) \in Nat
          /\ \A i \in 1 .. Len(ring) + 1 : ring'[i] = IF i <= Len(ring) THEN ring[i] ELSE h
      BY <1>0, <3>1, <3>2, AppendFacts, Numbers DEF TypeOK
    <3> SUFFICES ASSUME NEW i \in 1 .. Len(ring'), Ends(ring[i])'
                 PROVE  (used < ring[i].q /\ Before(ring[i].q))'
      BY DEF RingOrder
    <3>5. CASE i <= Len(ring)
      <4>1. i \in 1 .. Len(ring) /\ ring'[i] = ring[i]
        BY <3>4, <3>5
      <4>2. Ends(ring[i])
        BY <4>1 DEF Ends
      <4>3. PICK n : n = ring[i].q
        OBVIOUS
      <4>4. used' < n /\ Before(n)'
        BY <1>4, <4>1, <4>2, <4>3
      <4> QED
        BY <4>1, <4>3, <4>4 DEF Before, Asked
    <3>6. CASE ~(i <= Len(ring))
      <4>1. ring'[i] = p
        BY <3>3, <3>4, <3>6 DEF Ends
      <4>2. used < p.q /\ Before(p.q)'
        BY <4>1 DEF Ends
      <4> QED
        BY <1>1, <4>1, <4>2 DEF Before, Asked
    <3> QED
      BY <3>5, <3>6
  <2> QED
    BY <2>1, <2>2, Arrival
<1> QED
  BY <1>2, <1>3, <1>5 DEF InOrder

\* The unit's steps keep the order.
LEMMA OrderUnit ==
  ASSUME TypeInvariant, InOrder, Unit
  PROVE  InOrder'
<1>0. TypeOK
  BY DEF TypeInvariant
<1>1. UNCHANGED <<query, queue, telegram, mpc, sending, used>>
  <2>1. \A p : Arrives(p) => UNCHANGED <<query, queue, telegram, mpc, sending, used>>
    BY DEF Arrives, caller, master
  <2>2. CASE \E p : Arrives(p)
    BY <2>1, <2>2
  <2>3. CASE UnitStaysSilent
    BY <2>3 DEF UnitStaysSilent, caller, master, uart
  <2> QED
    BY <2>2, <2>3, Zenon DEF Unit, UnitAnswers, UnitBegins, UnitEnds, NoiseArrives
<1>2. \A n : Asked(n)' <=> Asked(n)
  BY <1>1 DEF Asked
\* A step that takes the first query of the unit.
<1>3. ASSUME NEW h, unit # <<>>, h = Head(unit), unit' = Tail(unit),
             tail' = tail \/ (tail = 0 /\ tail' = h)
      PROVE  /\ UnitOrder' /\ \A n \in Nat : Before(n) => Before(n)'
             /\ h \in 1 .. MaxQueries /\ used < h
             /\ tail' = 0 => Before(h)'
  <2>1. /\ h = unit[1] /\ Len(unit') = Len(unit) - 1 /\ Len(unit) \in Nat \ {0}
        /\ \A i \in 1 .. Len(unit) - 1 : unit'[i] = unit[i + 1]
    BY <1>0, <1>3, TailFacts DEF TypeOK
  <2>2. h \in 1 .. MaxQueries /\ Asked(h) /\ (tail # 0 => tail < h)
    BY <1>0, <2>1, Numbers DEF InOrder, UnitOrder
  <2>3. ASSUME NEW i \in 1 .. Len(unit')
        PROVE  Asked(unit'[i]) /\ h < unit'[i] /\ (tail # 0 => tail < unit'[i])
    <3>1. 1 \in 1 .. Len(unit) /\ i + 1 \in 1 .. Len(unit) /\ 1 < i + 1 /\ unit'[i] = unit[i + 1]
      BY <2>1
    <3> QED
      BY <2>1, <3>1 DEF InOrder, UnitOrder
  <2>4. ASSUME NEW i \in 1 .. Len(unit'), NEW j \in 1 .. Len(unit'), i < j
        PROVE  unit'[i] < unit'[j]
    <3>1. /\ i + 1 \in 1 .. Len(unit) /\ j + 1 \in 1 .. Len(unit) /\ i + 1 < j + 1
          /\ unit'[i] = unit[i + 1] /\ unit'[j] = unit[j + 1]
      BY <2>1, <2>4
    <3> QED
      BY <3>1 DEF InOrder, UnitOrder
  <2>5. tail' # 0 => Asked(tail') /\ \A i \in 1 .. Len(unit') : tail' < unit'[i]
    BY <1>3, <2>2, <2>3 DEF InOrder, UnitOrder
  <2>6. UnitOrder'
    BY <1>2, <2>3, <2>4, <2>5 DEF UnitOrder, Asked
  <2>7. ASSUME NEW n \in Nat, Before(n) PROVE Before(n)'
    <3>1. Asked(n)' /\ (tail' # 0 => n < tail')
      BY <1>2, <1>3, <2>1, <2>7 DEF Before
    <3>2. \A i \in 1 .. Len(unit') : n < unit'[i]
      BY <2>1, <2>7 DEF Before
    <3> QED
      BY <3>1, <3>2 DEF Before
  <2>8. used < h
    BY <2>1 DEF InOrder, Before
  <2>9. tail' = 0 => Before(h)'
    BY <1>2, <2>2, <2>3 DEF Before
  <2> QED
    BY <2>2, <2>6, <2>7, <2>8, <2>9
<1>4. CASE UnitAnswers
  <2>0. PICK h : h = Head(unit)
    OBVIOUS
  <2>1. PICK part \in {"answer", "exception"} : Arrives(Piece(h, part))
    BY <1>4, <2>0 DEF UnitAnswers
  <2>2. /\ UnitOrder' /\ \A n \in Nat : Before(n) => Before(n)'
        /\ h \in 1 .. MaxQueries /\ used < h /\ Before(h)'
    BY <1>3, <1>4, <2>0 DEF UnitAnswers
  <2>3. PICK p : p = Piece(h, part)
    OBVIOUS
  <2>4. p \in Pieces /\ p.q = h
    BY <2>1, <2>2, <2>3 DEF Piece, Pieces, Parts
  <2> QED
    BY <2>1, <2>2, <2>3, <2>4, OrderArrives
<1>5. CASE UnitBegins
  <2>1. PICK h, p : h = Head(unit) /\ p = Piece(h, "head")
    OBVIOUS
  <2>2. /\ UnitOrder' /\ \A n \in Nat : Before(n) => Before(n)'
        /\ h \in 1 .. MaxQueries
    BY <1>3, <1>5, <2>1 DEF UnitBegins
  <2>3. p \in Pieces /\ ~Ends(p)
    BY <2>1, <2>2 DEF Piece, Pieces, Parts, Ends
  <2>4. Arrives(p)
    BY <1>5, <2>1 DEF UnitBegins
  <2> QED
    BY <2>2, <2>3, <2>4, OrderArrives
<1>6. CASE UnitEnds
  <2>1. PICK h, p : h = tail /\ p = Piece(h, "tail")
    OBVIOUS
  <2>2. h # 0 /\ tail' = 0 /\ unit' = unit /\ Arrives(p)
    BY <1>6, <2>1 DEF UnitEnds
  <2>3. UnitOrder'
    BY <1>0, <1>2, <2>2, Numbers DEF InOrder, UnitOrder, Asked
  <2>4. \A n \in Nat : Before(n) => Before(n)'
    BY <1>1, <2>2 DEF Before, Asked
  <2>5. p \in Pieces /\ p.q = h
    BY <1>0, <2>1 DEF Piece, Pieces, Parts, TypeOK
  <2>6. used < h /\ Before(h)'
    BY <1>1, <2>1, <2>2 DEF InOrder, UnitOrder, Before, Asked
  <2> QED
    BY <2>2, <2>3, <2>4, <2>5, <2>6, OrderArrives
<1>7. CASE UnitStaysSilent
  <2>1. unit # <<>> /\ unit' = Tail(unit) /\ tail' = tail /\ ring' = ring
    BY <1>7 DEF UnitStaysSilent, uart
  <2>2. UnitOrder' /\ \A n \in Nat : Before(n) => Before(n)'
    BY <1>3, <2>1
  <2>3. QueueOrder'
    BY <1>1 DEF InOrder, QueueOrder
  <2>4. RingOrder'
    BY <1>0, <1>1, <2>1, <2>2, Numbers DEF InOrder, RingOrder
  <2>5. Before(used)'
    BY <1>0, <1>1, <2>2, Numbers DEF InOrder
  <2> QED
    BY <2>2, <2>3, <2>4, <2>5 DEF InOrder
<1>8. CASE NoiseArrives
  <2>1. Arrives(Piece(0, "noise")) /\ UNCHANGED <<unit, tail>>
    BY <1>8 DEF NoiseArrives, line
  <2>2. UnitOrder' /\ \A n \in Nat : Before(n) => Before(n)'
    BY <1>1, <2>1 DEF InOrder, UnitOrder, Before, Asked
  <2>3. Piece(0, "noise") \in Pieces /\ ~Ends(Piece(0, "noise"))
    BY MasterAssumption DEF MasterAssumption, Piece, Pieces, Parts, Ends
  <2> QED
    BY <2>1, <2>2, <2>3, OrderArrives
<1> QED
  BY <1>4, <1>5, <1>6, <1>7, <1>8 DEF Unit

\* An answer that is taken is later than the one before it, and takes all that is in
\* the ring with it.
LEMMA OrderAnswer ==
  ASSUME TypeInvariant, InOrder, HandleAnswer
  PROVE  /\ InOrder'
         /\ result' # None /\ result'.ok => result'.from > used
<1>0. TypeOK
  BY DEF TypeInvariant
<1>1. /\ mpc = "woken" /\ ring' = <<>> /\ UNCHANGED <<line, sending>>
      /\ \/ Tell(FALSE, 0) /\ used' = used
         \/ \E k \in 1 .. Len(ring) :
              Ends(ring[k]) /\ Tell(TRUE, ring[k].q) /\ used' = ring[k].q
  BY <1>0, AnswerTaken
<1>2. UNCHANGED <<query, queue, telegram>> /\ mpc' = "queue"
  BY <1>1 DEF Tell
<1>3. /\ Before(used') /\ used' \in Nat
      /\ result' # None /\ result'.ok => result'.from > used
  <2>1. CASE Tell(FALSE, 0) /\ used' = used
    BY <1>0, <2>1, Numbers DEF Tell, InOrder
  <2>2. CASE \E k \in 1 .. Len(ring) :
               Ends(ring[k]) /\ Tell(TRUE, ring[k].q) /\ used' = ring[k].q
    <3>1. PICK k \in 1 .. Len(ring) : Ends(ring[k]) /\ Tell(TRUE, ring[k].q) /\ used' = ring[k].q
      BY <2>2
    <3>2. used < ring[k].q /\ Before(ring[k].q) /\ ring[k].q \in Nat /\ used \in Nat
      BY <1>0, <3>1, Numbers DEF InOrder, RingOrder
    <3>3. result'.from = ring[k].q
      BY <3>1 DEF Tell
    <3> QED
      BY <3>1, <3>2, <3>3
  <2> QED
    BY <1>1, <2>1, <2>2
<1>4. \A n \in Nat : Asked(n) => Asked(n)'
  BY <1>0, <1>1, <1>2, Numbers DEF Asked
<1>5. \A n \in Nat : Before(n) => Before(n)'
  BY <1>1, <1>4 DEF Before, line
<1>6. QueueOrder'
  BY <1>2 DEF InOrder, QueueOrder
<1>7. UnitOrder'
  BY <1>0, <1>1, <1>4, Numbers DEF InOrder, UnitOrder, line
<1>8. RingOrder'
  BY <1>1, EmptySeq DEF RingOrder
<1>9. Before(used)'
  <2>1. PICK n : n = used'
    OBVIOUS
  <2>2. Before(n)'
    BY <1>3, <1>5, <2>1
  <2> QED
    BY <2>1, <2>2 DEF Before, Asked
<1> QED
  BY <1>3, <1>6, <1>7, <1>8, <1>9 DEF InOrder

\* Every step keeps the order, and a success comes from a later answer than the last.
LEMMA OrderPreserved ==
  ASSUME TypeInvariant, InOrder, [Next]_vars
  PROVE  /\ InOrder'
         /\ result' # result /\ result' # None /\ result'.ok => result'.from > used
<1>1. CASE ModbusQuery
  BY <1>1, OrderQuery DEF ModbusQuery
<1>2. CASE MasterReceives
  BY <1>2, OrderReceive DEF MasterReceives, caller
<1>3. CASE TxCplt
  BY <1>3, OrderSent DEF TxCplt, caller
<1>4. CASE Unit
  <2>1. UNCHANGED result
    BY <1>4, Arrival
       DEF Unit, UnitAnswers, UnitBegins, UnitEnds, UnitStaysSilent, NoiseArrives, caller
  <2> QED
    BY <1>4, <2>1, OrderUnit
<1>5. CASE HandleAnswer
  BY <1>5, OrderAnswer
<1>6. CASE CallerTakes \/ CallerGivesUp \/ UNCHANGED vars
  <2>1. /\ UNCHANGED <<query, queue, telegram, line, used, mpc, sending, ring>>
        /\ result' = result \/ result' = None
    BY <1>6 DEF CallerTakes, CallerGivesUp, vars, caller, master, uart
  <2> QED
    BY <2>1, OrderKept
<1>7. CASE SendQuery \/ AwaitTxCplt \/ TxCpltMissed \/ AwaitAnswer
  <2>1. /\ UNCHANGED <<query, queue, telegram, line, used, ring, result>>
        /\ mpc' # "silence" /\ (sending' => sending \/ mpc = "silence")
    BY <1>7 DEF SendQuery, AwaitTxCplt, TxCpltMissed, AwaitAnswer, caller, uart
  <2> QED
    BY <2>1, OrderKept
<1>8. CASE HandleTimeout \/ HandleBadSize
  <2>1. /\ UNCHANGED <<query, queue, telegram, line, used, sending>>
        /\ ring' = ring \/ ring' = <<>>
        /\ mpc' = "queue" /\ result'.ok = FALSE
    BY <1>8 DEF HandleTimeout, HandleBadSize, getRxBuffer, Tell, uart
  <2> QED
    BY <2>1, OrderKept
<1>9. CASE Timers
  <2>1. /\ UNCHANGED <<query, queue, telegram, line, used, ring, sending, result>>
        /\ mpc' = mpc \/ mpc' \in {"tc", "woken"}
    BY <1>9 DEF Timers, vTimerCallbackT35, vTimerCallbackTimeout, Notify, caller, uart
  <2> QED
    BY <2>1, OrderKept
<1> QED
  BY <1>1, <1>2, <1>3, <1>4, <1>5, <1>6, <1>7, <1>8, <1>9 DEF Next, Caller, Master

\* No answer serves two queries, and answers serve in the order of the questions,
\* whatever is refused, lost, cut or late.
THEOREM ServeOnce == Spec => AnswersServeOnce
<1>1. Init => TypeInvariant /\ InOrder
  BY TypeInitially, OrderInitially
<1>2. TypeInvariant /\ InOrder /\ [Next]_vars => (TypeInvariant /\ InOrder)'
  BY TypePreserved, OrderPreserved
<1>3. TypeInvariant /\ InOrder /\ [Next]_vars
        => [result' # result /\ result' # None /\ result'.ok => result'.from > used]_vars
  BY OrderPreserved
<1> QED
  BY <1>1, <1>2, <1>3, PTL DEF Spec, AnswersServeOnce

-----------------------------------------------------------------------------
(* Whose answer it is.                                                     *)

\* Until an answer comes that is not awaited, what is in the ring belongs to the
\* query whose answer is awaited, and so does what has been told.
RingOwned ==
  \A i \in 1 .. Len(ring) : ring[i].q # 0 => mpc \in {"answer", "woken"} /\ ring[i].q = telegram
Owned == ~stale => RingOwned /\ (result # None /\ result.ok => result.from = result.of)

LEMMA OwnedPreserved ==
  ASSUME TypeInvariant, InOrder, Owned, [Next]_vars
  PROVE  Owned'
<1>0. TypeOK
  BY DEF TypeInvariant
<1> SUFFICES ASSUME ~stale'
             PROVE  RingOwned' /\ (result # None /\ result.ok => result.from = result.of)'
  BY DEF Owned
<1>1. CASE Caller \/ UNCHANGED vars
  <2>1. /\ UNCHANGED <<mpc, telegram, ring, stale>>
        /\ result' = result \/ result' = None
    BY <1>1 DEF Caller, ModbusQuery, CallerTakes, CallerGivesUp, vars, caller, master, uart
  <2> QED
    BY <2>1 DEF Owned, RingOwned
<1>2. CASE MasterReceives \/ SendQuery \/ AwaitTxCplt \/ TxCpltMissed \/ AwaitAnswer
  <2>1. mpc \notin {"answer", "woken"} /\ UNCHANGED <<ring, stale, result>>
    BY <1>2 DEF MasterReceives, SendQuery, AwaitTxCplt, TxCpltMissed, AwaitAnswer, caller, uart
  <2> QED
    BY <2>1 DEF Owned, RingOwned
<1>3. CASE TxCplt \/ Timers
  <2>1. /\ UNCHANGED <<telegram, ring, stale, result>>
        /\ mpc \in {"answer", "woken"} => mpc' \in {"answer", "woken"}
    BY <1>3 DEF TxCplt, Timers, vTimerCallbackT35, vTimerCallbackTimeout, Notify, caller, uart
  <2> QED
    BY <2>1 DEF Owned, RingOwned
<1>4. CASE Unit
  <2>1. UNCHANGED <<caller, master>>
    BY <1>4, Arrival DEF Unit, UnitAnswers, UnitBegins, UnitEnds, UnitStaysSilent, NoiseArrives
  <2>2. CASE UNCHANGED <<ring, stale>>
    BY <2>1, <2>2 DEF caller, master, Owned, RingOwned
  <2>3. CASE \E h \in Pieces :
               /\ ring' = Append(ring, h)
               /\ stale' = (stale \/ (h.q # 0 /\ ~(mpc = "answer" /\ telegram = h.q)))
    <3>1. PICK h \in Pieces :
            /\ ring' = Append(ring, h)
            /\ stale' = (stale \/ (h.q # 0 /\ ~(mpc = "answer" /\ telegram = h.q)))
      BY <2>3
    <3>2. /\ Len(ring') = Len(ring) + 1 /\ Len(ring) \in Nat
          /\ \A i \in 1 .. Len(ring) + 1 : ring'[i] = IF i <= Len(ring) THEN ring[i] ELSE h
      BY SMTT(60), <1>0, <3>1, AppendFacts, Numbers DEF TypeOK
    <3>3. ~stale /\ (h.q # 0 => mpc = "answer" /\ telegram = h.q)
      BY <3>1
    <3>4. RingOwned /\ (result # None /\ result.ok => result.from = result.of)
      BY <3>3 DEF Owned
    <3>5. RingOwned'
      <4> SUFFICES ASSUME NEW i \in 1 .. Len(ring'), ring'[i].q # 0
                   PROVE  mpc \in {"answer", "woken"} /\ ring'[i].q = telegram
        BY <2>1 DEF RingOwned, master
      <4>1. CASE i <= Len(ring)
        BY <3>2, <3>4, <4>1 DEF RingOwned
      <4>2. CASE ~(i <= Len(ring))
        BY <3>2, <3>3, <4>2
      <4> QED
        BY <4>1, <4>2
    <3> QED
      BY <2>1, <3>4, <3>5 DEF caller
  <2> QED
    <3>1. UnitStaysSilent => UNCHANGED <<ring, stale>>
      BY DEF UnitStaysSilent, uart
    <3>2. ASSUME NEW p \in Pieces, Arrives(p)
          PROVE  \/ UNCHANGED <<ring, stale>>
                 \/ \E h \in Pieces :
                      /\ ring' = Append(ring, h)
                      /\ stale' = (stale \/ (h.q # 0 /\ ~(mpc = "answer" /\ telegram = h.q)))
      <4>1. Piece(p.q, "head") \in Pieces
        BY DEF Pieces, Piece, Parts
      <4> QED
        BY <3>2, <4>1, Arrival, Zenon
    <3>3. unit # <<>> => Head(unit) \in 0 .. MaxQueries
      <4>1. unit # <<>> => Head(unit) \in 1 .. MaxQueries
        BY <1>0, TailFacts DEF TypeOK
      <4> QED
        BY <4>1
    <3>4. tail \in 0 .. MaxQueries /\ 0 \in 0 .. MaxQueries
      BY <1>0, MasterAssumption DEF MasterAssumption, TypeOK
    <3>5. \A q \in 0 .. MaxQueries, part \in Parts : Piece(q, part) \in Pieces
      BY DEF Piece, Pieces
    <3>6. UnitStaysSilent \/ \E p \in Pieces : Arrives(p)
      BY <1>4, <3>3, <3>4, <3>5
         DEF Unit, UnitAnswers, UnitBegins, UnitEnds, NoiseArrives, Parts
    <3> QED
      BY <2>2, <2>3, <3>1, <3>2, <3>6
<1>5. CASE HandleTimeout
  <2>1. /\ UNCHANGED ring /\ result'.ok = FALSE
        /\ \A i \in DOMAIN ring : ring[i].q = 0
    BY <1>5 DEF HandleTimeout, Tell, uart
  <2>2. RingOwned'
    BY <1>0, <2>1, LenProperties DEF RingOwned, TypeOK
  <2> QED
    BY <2>1, <2>2
<1>6. CASE HandleBadSize
  BY <1>6, EmptySeq DEF HandleBadSize, getRxBuffer, Tell, RingOwned
<1>7. CASE HandleAnswer
  <2>1. /\ ring' = <<>> /\ UNCHANGED stale
        /\ \/ Tell(FALSE, 0)
           \/ \E k \in 1 .. Len(ring) : Ends(ring[k]) /\ Tell(TRUE, ring[k].q)
    BY <1>0, <1>7, AnswerTaken, Zenon
  <2>2. RingOwned'
    BY <2>1, EmptySeq DEF RingOwned
  <2>3. CASE Tell(FALSE, 0)
    BY <2>2, <2>3 DEF Tell
  <2>4. CASE \E k \in 1 .. Len(ring) : Ends(ring[k]) /\ Tell(TRUE, ring[k].q)
    <3>1. PICK k \in 1 .. Len(ring) : Ends(ring[k]) /\ Tell(TRUE, ring[k].q)
      BY <2>4
    <3>2. ring[k].q # 0
      BY <1>0, <3>1, Numbers DEF InOrder, RingOrder
    <3>3. ring[k].q = telegram
      BY <2>1, <3>2 DEF Owned, RingOwned
    <3> QED
      BY <2>2, <3>1, <3>3 DEF Tell
  <2> QED
    BY <2>1, <2>3, <2>4
<1> QED
  BY <1>1, <1>2, <1>3, <1>4, <1>5, <1>6, <1>7 DEF Next, Master

\* A query succeeds with its own answer, unless an answer ever came that was not
\* awaited.
THEOREM AnswerIsOwn == Spec => []OwnAnswer
<1>1. Init => TypeInvariant /\ InOrder /\ Owned
  <2>1. Init => Owned
    BY EmptySeq DEF Init, Owned, RingOwned
  <2> QED
    BY <2>1, TypeInitially, OrderInitially
<1>2. TypeInvariant /\ InOrder /\ Owned /\ [Next]_vars => (TypeInvariant /\ InOrder /\ Owned)'
  BY TypePreserved, OrderPreserved, OwnedPreserved
<1>3. Owned => OwnAnswer
  BY DEF Owned, OwnAnswer
<1> QED
  BY <1>1, <1>2, <1>3, PTL DEF Spec

=============================================================================
