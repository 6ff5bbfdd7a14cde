---------------------------- MODULE UartTxProofs ----------------------------
(***************************************************************************)
(* The transmit path, for buffers and messages of every length: the types, *)
(* the flag that follows the transmitter, and the order of the bytes as    *)
(* long as none of the upsets has happened.                                *)
(***************************************************************************)
EXTENDS UartTx, SequenceTheorems, TLAPS

-----------------------------------------------------------------------------
(* The helpers on sequences.                                               *)

\* First keeps a prefix.
LEMMA FirstFacts ==
  ASSUME NEW S, NEW s \in Seq(S), NEW n \in Nat
  PROVE  /\ First(s, n) \in Seq(S)
         /\ Len(First(s, n)) = IF n < Len(s) THEN n ELSE Len(s)
         /\ \A i \in 1 .. Len(First(s, n)) : First(s, n)[i] = s[i]
<1> DEFINE m == IF n < Len(s) THEN n ELSE Len(s)
<1>1. m \in Nat /\ m <= Len(s)
  BY LenProperties
<1>2. \A i \in 1 .. m : s[i] \in S
  BY <1>1, ElementOfSeq
<1>3. First(s, n) = SubSeq(s, 1, m)
  BY DEF First
<1> HIDE DEF m
<1>4. /\ SubSeq(s, 1, m) \in Seq(S)
      /\ Len(SubSeq(s, 1, m)) = IF 1 <= m THEN m - 1 + 1 ELSE 0
      /\ \A i \in 1 .. m - 1 + 1 : SubSeq(s, 1, m)[i] = s[1 + i - 1]
  BY <1>1, <1>2, SubSeqProperties
<1> QED
  BY <1>1, <1>3, <1>4 DEF m

\* After keeps the rest.
LEMMA AfterFacts ==
  ASSUME NEW S, NEW s \in Seq(S), NEW n \in Nat
  PROVE  /\ After(s, n) \in Seq(S)
         /\ Len(After(s, n)) = IF n < Len(s) THEN Len(s) - n ELSE 0
         /\ \A i \in 1 .. Len(After(s, n)) : After(s, n)[i] = s[n + i]
<1>1. \A i \in n + 1 .. Len(s) : s[i] \in S
  BY ElementOfSeq, LenProperties
<1>2. /\ SubSeq(s, n + 1, Len(s)) \in Seq(S)
      /\ Len(SubSeq(s, n + 1, Len(s))) = IF n + 1 <= Len(s) THEN Len(s) - (n + 1) + 1 ELSE 0
      /\ \A i \in 1 .. Len(s) - (n + 1) + 1 : SubSeq(s, n + 1, Len(s))[i] = s[(n + 1) + i - 1]
  BY <1>1, SubSeqProperties, LenProperties
<1> QED
  BY <1>2, LenProperties DEF After

\* Together they are the sequence.
LEMMA FirstThenAfter ==
  ASSUME NEW S, NEW s \in Seq(S), NEW n \in Nat
  PROVE  First(s, n) \o After(s, n) = s
<1>1. Len(First(s, n)) + Len(After(s, n)) = Len(s)
  BY FirstFacts, AfterFacts, LenProperties
<1>2. /\ First(s, n) \o After(s, n) \in Seq(S)
      /\ Len(First(s, n) \o After(s, n)) = Len(s)
      /\ \A i \in 1 .. Len(s) : (First(s, n) \o After(s, n))[i] =
           IF i <= Len(First(s, n)) THEN First(s, n)[i] ELSE After(s, n)[i - Len(First(s, n))]
  BY <1>1, FirstFacts, AfterFacts, ConcatProperties
<1>3. ASSUME NEW i \in 1 .. Len(s)
      PROVE  (First(s, n) \o After(s, n))[i] = s[i]
  <2>1. CASE i <= Len(First(s, n))
    BY <1>2, <2>1, FirstFacts, LenProperties
  <2>2. CASE ~(i <= Len(First(s, n)))
    <3>1. Len(First(s, n)) = n /\ i - n \in 1 .. Len(After(s, n))
      BY <2>2, <1>1, FirstFacts, AfterFacts, LenProperties
    <3>2. After(s, n)[i - n] = s[n + (i - n)]
      BY <3>1, AfterFacts, SMTT(60)
    <3> QED
      BY <1>2, <2>2, <3>1, <3>2, LenProperties
  <2> QED
    BY <2>1, <2>2
<1> QED
  BY <1>2, <1>3, SeqEqual

\* A copy into the buffer is found at its start; the buffer never shrinks.
LEMMA CopiedFacts ==
  ASSUME NEW S, buffer \in Seq(S), NEW b \in Seq(S)
  PROVE  /\ Copied(b) \in Seq(S)
         /\ Len(Copied(b)) = IF Len(b) < Len(buffer) THEN Len(buffer) ELSE Len(b)
         /\ SubSeq(Copied(b), 1, Len(b)) = b
<1>1. Len(b) \in Nat /\ Len(buffer) \in Nat
  BY LenProperties
<1>2. /\ After(buffer, Len(b)) \in Seq(S)
      /\ Len(After(buffer, Len(b))) =
           IF Len(b) < Len(buffer) THEN Len(buffer) - Len(b) ELSE 0
  BY <1>1, AfterFacts
<1>3. /\ Copied(b) \in Seq(S)
      /\ Len(Copied(b)) = Len(b) + Len(After(buffer, Len(b)))
      /\ \A i \in 1 .. Len(b) : Copied(b)[i] = b[i]
  <2> DEFINE t == After(buffer, Len(b))
  <2>1. t \in Seq(S) /\ Copied(b) = b \o t /\ Len(t) \in Nat
    BY <1>2, LenProperties DEF Copied
  <2> HIDE DEF t
  <2>2. /\ b \o t \in Seq(S)
        /\ Len(b \o t) = Len(b) + Len(t)
        /\ \A i \in 1 .. Len(b) + Len(t) : (b \o t)[i] = IF i <= Len(b) THEN b[i] ELSE t[i - Len(b)]
    BY <2>1, ConcatProperties
  <2> QED
    BY <1>1, <2>1, <2>2 DEF t
<1>4. \A i \in 1 .. Len(b) : Copied(b)[i] \in S
  BY <1>3, ElementOfSeq
<1>5. /\ SubSeq(Copied(b), 1, Len(b)) \in Seq(S)
      /\ Len(SubSeq(Copied(b), 1, Len(b))) = IF 1 <= Len(b) THEN Len(b) - 1 + 1 ELSE 0
      /\ \A i \in 1 .. Len(b) - 1 + 1 : SubSeq(Copied(b), 1, Len(b))[i] = Copied(b)[1 + i - 1]
  BY <1>1, <1>4, SubSeqProperties
<1>6. SubSeq(Copied(b), 1, Len(b)) = b
  BY <1>1, <1>3, <1>5, SeqEqual
<1> QED
  BY <1>1, <1>2, <1>3, <1>6

\* What is put fits.
LEMMA FittingFacts ==
  ASSUME NEW S, fifo \in Seq(S), Len(fifo) <= FifoSize, NEW b \in Seq(S)
  PROVE  /\ Fitting(b) \in Seq(S)
         /\ fifo \o Fitting(b) \in Seq(S)
         /\ Len(fifo \o Fitting(b)) <= FifoSize
<1>1. FifoSize - Len(fifo) \in Nat
  BY UartAssumption, LenProperties
<1>2. /\ Fitting(b) \in Seq(S)
      /\ Len(Fitting(b)) <= FifoSize - Len(fifo)
  BY <1>1, FirstFacts, LenProperties DEF Fitting
<1>3. fifo \o Fitting(b) \in Seq(S) /\ Len(fifo \o Fitting(b)) = Len(fifo) + Len(Fitting(b))
  BY <1>2, ConcatProperties
<1> QED
  BY <1>1, <1>2, <1>3, UartAssumption, LenProperties

\* The two parts of a message.
LEMMA PartsFacts ==
  ASSUME NEW S, NEW msg \in Seq(S)
  PROVE  /\ DirectPart(msg) \in Seq(S)
         /\ Len(DirectPart(msg)) <= BufferSize
         /\ RestPart(msg) \in Seq(S)
<1>1. BufferSize \in Nat /\ BufferSize + FifoSize \in Nat
  BY UartAssumption
<1> QED
  BY <1>1, FirstFacts, AfterFacts, LenProperties DEF DirectPart, RestPart

\* A message is made of bytes.
LEMMA MessageFacts ==
  ASSUME NEW k \in 1 .. MaxSends, NEW n \in Lengths
  PROVE  Message(k, n) \in Seq(Bytes)
<1>1. n \in Nat
  BY UartAssumption
<1>2. Message(k, n) \in [1 .. n -> Bytes]
  BY <1>1 DEF Message, Bytes
<1> QED
  BY <1>1, <1>2, SeqDef

-----------------------------------------------------------------------------
(* The types.                                                              *)

\* What the task carries to the buffer fits, and once copied lies in it.
PartsFit ==
  /\ pc \in {"copy", "raise", "start"} => Len(direct) <= BufferSize
  /\ pc \in {"raise", "start"} => Len(direct) <= Len(buffer)

\* The types hold initially and every step keeps them.
LEMMA TypeInitially == Init => TypeOK /\ PartsFit
<1> SUFFICES ASSUME Init PROVE TypeOK /\ PartsFit
  OBVIOUS
<1>1. <<>> \in Seq(Bytes) /\ Len(<<>>) = 0
  BY EmptySeq
<1>2. TypeOK /\ PartsFit
  <2>1. /\ 0 \in 0 .. 0 /\ 0 \in 0 .. MaxSends
        /\ 0 <= BufferSize /\ 0 <= FifoSize
    BY UartAssumption
  <2>2. /\ buffer = <<>> /\ fifo = <<>> /\ direct = <<>> /\ rest = <<>>
        /\ wire = <<>> /\ accepted = <<>> /\ len = 0 /\ pos = 0 /\ sends = 0
        /\ pc = "idle" /\ isSending = FALSE /\ busy = FALSE /\ upset = {}
    BY DEF Init
  <2> QED
    BY <1>1, <2>1, <2>2 DEF TypeOK, PartsFit
<1> QED
  BY <1>2

\* Every step keeps them.
LEMMA TypePreserved == TypeOK /\ PartsFit /\ [Next]_vars => (TypeOK /\ PartsFit)'
<1> SUFFICES ASSUME TypeOK, PartsFit, [Next]_vars PROVE TypeOK' /\ PartsFit'
  OBVIOUS
<1> USE UartAssumption DEF TypeOK, PartsFit, driver, task
<1>0. /\ <<>> \in Seq(Bytes) /\ Len(<<>>) = 0
      /\ Len(buffer) \in Nat /\ Len(direct) \in Nat /\ Len(rest) \in Nat /\ Len(fifo) \in Nat
  BY EmptySeq, LenProperties
<1>1. CASE TaskSends
  <2>1. PICK n \in Lengths : NewMessage(n) /\ direct' = Message(sends', n)
    BY <1>1 DEF TaskSends, NewMessage
  <2>2. sends' \in 1 .. MaxSends
    BY <2>1 DEF NewMessage
  <2>3. direct' \in Seq(Bytes)
    BY <2>1, <2>2, MessageFacts
  <2> QED
    BY <1>1, <2>2, <2>3 DEF TaskSends
<1>2. CASE TaskReadsFlag
  BY <1>2 DEF TaskReadsFlag
<1>3. CASE TaskReadsState
  BY <1>3 DEF TaskReadsState
<1>4. CASE TaskClears
  BY <1>4 DEF TaskClears
<1>5. CASE TaskChooses
  <2>1. First(direct, FifoSize) \in Seq(Bytes)
    BY FirstFacts
  <2>2. /\ RestPart(direct) \in Seq(Bytes)
        /\ DirectPart(direct) \in Seq(Bytes)
        /\ Len(DirectPart(direct)) <= BufferSize
    BY PartsFacts
  <2>3. /\ rest' \in Seq(Bytes)
        /\ direct' \in Seq(Bytes)
        /\ pc' \in {"idle", "put", "copy"}
        /\ pc' = "copy" => Len(direct') <= BufferSize
    BY <1>0, <1>5, <2>1, <2>2 DEF TaskChooses
  <2> QED
    BY <1>5, <2>3 DEF TaskChooses
<1>6. CASE TaskCopies
  <2>1. /\ Copied(direct) \in Seq(Bytes)
        /\ Len(Copied(direct)) = IF Len(direct) < Len(buffer) THEN Len(buffer) ELSE Len(direct)
    BY CopiedFacts
  <2> QED
    BY <1>0, <1>6, <2>1 DEF TaskCopies
<1>7. CASE TaskRaises
  BY <1>7 DEF TaskRaises
<1>8. CASE TaskStarts
  <2>1. accepted \o direct \in Seq(Bytes)
    BY ConcatProperties
  <2> QED
    BY <1>0, <1>8, <2>1 DEF TaskStarts
<1>9. CASE TaskRefused
  BY <1>0, <1>9 DEF TaskRefused
<1>10. CASE TaskGivesUp
  BY <1>10 DEF TaskGivesUp
<1>11. CASE TaskPuts
  <2>1. /\ fifo \o Fitting(rest) \in Seq(Bytes)
        /\ Len(fifo \o Fitting(rest)) <= FifoSize
        /\ Fitting(rest) \in Seq(Bytes)
    BY FittingFacts
  <2>2. accepted \o Fitting(rest) \in Seq(Bytes)
    BY <2>1, ConcatProperties
  <2> QED
    BY <1>0, <1>11, <2>1, <2>2 DEF TaskPuts
<1>12. CASE Reply
  <2>1. PICK n \in Lengths :
          /\ NewMessage(n)
          /\ \/ ReplyStarts(Message(sends', n))
             \/ ReplyRefused(Message(sends', n))
             \/ ReplyQueued(Message(sends', n))
    BY <1>12 DEF Reply
  <2> DEFINE msg == Message(sends', n)
  <2>2. sends' \in 1 .. MaxSends
    BY <2>1 DEF NewMessage
  <2>3. msg \in Seq(Bytes)
    BY <2>2, MessageFacts
  <2> HIDE DEF msg
  <2>4. /\ DirectPart(msg) \in Seq(Bytes)
        /\ Len(DirectPart(msg)) \in Nat
        /\ Len(DirectPart(msg)) <= BufferSize
        /\ RestPart(msg) \in Seq(Bytes)
    BY <2>3, PartsFacts, LenProperties
  <2>5. /\ Copied(DirectPart(msg)) \in Seq(Bytes)
        /\ Len(Copied(DirectPart(msg))) =
             IF Len(DirectPart(msg)) < Len(buffer) THEN Len(buffer) ELSE Len(DirectPart(msg))
    BY <2>4, CopiedFacts
  <2>6. UNCHANGED <<task, wire>> /\ upset' \in SUBSET Upsets
    BY <1>12 DEF Reply, Upsets
  <2>7. CASE ReplyStarts(msg)
    <3>1. /\ fifo \o Fitting(RestPart(msg)) \in Seq(Bytes)
          /\ Len(fifo \o Fitting(RestPart(msg))) <= FifoSize
          /\ Fitting(RestPart(msg)) \in Seq(Bytes)
      BY <2>4, FittingFacts
    <3>2. accepted \o DirectPart(msg) \o Fitting(RestPart(msg)) \in Seq(Bytes)
      <4>1. accepted \o DirectPart(msg) \in Seq(Bytes)
        BY <2>4, ConcatProperties
      <4> QED
        BY <3>1, <4>1, ConcatProperties
    <3> QED
      BY <1>0, <2>2, <2>4, <2>5, <2>6, <2>7, <3>1, <3>2, SMTT(60) DEF ReplyStarts
  <2>8. CASE ReplyRefused(msg)
    BY <1>0, <2>2, <2>4, <2>5, <2>6, <2>8 DEF ReplyRefused
  <2>9. CASE ReplyQueued(msg)
    <3>1. /\ fifo \o Fitting(msg) \in Seq(Bytes)
          /\ Len(fifo \o Fitting(msg)) <= FifoSize
          /\ Fitting(msg) \in Seq(Bytes)
      BY <2>3, FittingFacts
    <3>2. accepted \o Fitting(msg) \in Seq(Bytes)
      BY <3>1, ConcatProperties
    <3> QED
      BY <1>0, <2>2, <2>6, <2>9, <3>1, <3>2 DEF ReplyQueued
  <2> QED
    BY <2>1, <2>7, <2>8, <2>9 DEF msg
<1>13. CASE DmaReads
  <2>1. pos + 1 \in 1 .. Len(buffer)
    BY <1>0, <1>13 DEF DmaReads
  <2>2. Append(wire, buffer[pos + 1]) \in Seq(Bytes)
    BY <2>1, ElementOfSeq, AppendProperties
  <2> QED
    BY <1>0, <1>13, <2>2 DEF DmaReads
<1>14. CASE TxContinues
  <2>1. /\ First(fifo, BufferSize) \in Seq(Bytes)
        /\ Len(First(fifo, BufferSize)) \in Nat
        /\ Len(First(fifo, BufferSize)) <= BufferSize
    BY <1>0, FirstFacts, LenProperties, SMTT(60)
  <2>2. /\ After(fifo, BufferSize) \in Seq(Bytes)
        /\ Len(After(fifo, BufferSize)) <= FifoSize
    BY <1>0, AfterFacts
  <2>3. /\ Copied(First(fifo, BufferSize)) \in Seq(Bytes)
        /\ Len(Copied(First(fifo, BufferSize))) =
             IF Len(First(fifo, BufferSize)) < Len(buffer)
               THEN Len(buffer) ELSE Len(First(fifo, BufferSize))
    BY <2>1, CopiedFacts
  <2> QED
    BY <1>0, <1>14, <2>1, <2>2, <2>3, SMTT(60) DEF TxContinues
<1>15. CASE TxEnds
  <2>1. 0 \in 0 .. Len(buffer) /\ 0 \in 0 .. 0
    BY <1>0
  <2>2. upset' \in SUBSET Upsets
    BY <1>15 DEF TxEnds, Upsets
  <2> QED
    BY <1>15, <2>1, <2>2 DEF TxEnds
<1>16. CASE RxError
  BY <1>16 DEF RxError, Upsets
<1>17. CASE DmaError
  <2>1. 0 \in 0 .. Len(buffer) /\ 0 \in 0 .. 0
    BY <1>0
  <2>2. upset' \in SUBSET Upsets
    BY <1>17 DEF DmaError, Upsets
  <2> QED
    BY <1>17, <2>1, <2>2 DEF DmaError
<1>18. CASE UNCHANGED vars
  BY <1>18 DEF vars
<1> QED
  BY <1>1, <1>2, <1>3, <1>4, <1>5, <1>6, <1>7, <1>8, <1>9, <1>10, <1>11, <1>12, <1>13,
     <1>14, <1>15, <1>16, <1>17, <1>18 DEF Next, Task, Interrupt

\* So they always hold.
LEMMA TypeAndParts == Spec => [](TypeOK /\ PartsFit)
  BY TypeInitially, TypePreserved, PTL DEF Spec

\* The variables stay within their types, for every size and every length.
THEOREM TypeCorrect == Spec => []TypeOK
  BY TypeAndParts, PTL

-----------------------------------------------------------------------------
(* The flag.                                                               *)

\* Until an error or an ill-timed reply, the flag is up over every
\* transmission, and the task holds the buffer only while there is none.
FlagInvariant ==
  upset \subseteq {"late"} =>
    /\ busy => isSending
    /\ isSending /\ ~busy => pc = "start"
    /\ pc = "start" => isSending
    /\ TaskHoldsBuffer => ~busy
    /\ pc # "fail"

\* Every step keeps the flag in step with the transmitter.
LEMMA FlagPreserved == TypeOK /\ FlagInvariant /\ [Next]_vars => FlagInvariant'
<1> SUFFICES ASSUME TypeOK, FlagInvariant, [Next]_vars, upset' \subseteq {"late"}
             PROVE  /\ busy' => isSending'
                    /\ isSending' /\ ~busy' => pc' = "start"
                    /\ pc' = "start" => isSending'
                    /\ TaskHoldsBuffer' => ~busy'
                    /\ pc' # "fail"
  BY DEF FlagInvariant
<1>0. isSending \in BOOLEAN /\ busy \in BOOLEAN
  BY DEF TypeOK
<1>0a. upset \subseteq {"late"}
  BY DEF Next, Task, Interrupt, TaskSends, TaskReadsFlag, TaskReadsState, TaskClears,
         TaskChooses, TaskCopies, TaskRaises, TaskStarts, TaskRefused, TaskGivesUp, TaskPuts,
         Reply, DmaReads, TxContinues, TxEnds, RxError, DmaError, vars
<1>0b. /\ busy => isSending
       /\ isSending /\ ~busy => pc = "start"
       /\ pc = "start" => isSending
       /\ TaskHoldsBuffer => ~busy
       /\ pc # "fail"
  BY <1>0a DEF FlagInvariant
<1> USE <1>0, <1>0b DEF TaskHoldsBuffer, driver, task
<1>1. CASE TaskSends \/ TaskReadsFlag \/ TaskReadsState \/ TaskClears
  BY <1>1 DEF TaskSends, TaskReadsFlag, TaskReadsState, TaskClears
<1>2. CASE TaskChooses
  BY <1>2 DEF TaskChooses
<1>3. CASE TaskCopies \/ TaskRaises \/ TaskStarts \/ TaskRefused
  BY <1>3 DEF TaskCopies, TaskRaises, TaskStarts, TaskRefused
<1>4. CASE TaskGivesUp \/ TaskPuts
  BY <1>4 DEF TaskGivesUp, TaskPuts
<1>5. CASE Reply
  <2>1. ~TaskHoldsBuffer /\ pc' = pc
    BY <1>5 DEF Reply
  <2>2. \E msg : ReplyStarts(msg) \/ ReplyRefused(msg) \/ ReplyQueued(msg)
    BY <1>5 DEF Reply
  <2>3. busy' = TRUE /\ isSending' = TRUE
    BY <2>2 DEF ReplyStarts, ReplyRefused, ReplyQueued
  <2> QED
    BY <2>1, <2>3
<1>6. CASE DmaReads \/ TxContinues \/ TxEnds
  BY <1>6 DEF DmaReads, TxContinues, TxEnds
<1>7. CASE RxError
  <2>1. ~busy /\ pc # "start"
    BY <1>7 DEF RxError
  <2> QED
    BY <1>7, <2>1 DEF RxError
<1>8. CASE DmaError
  BY <1>8 DEF DmaError
<1>9. CASE UNCHANGED vars
  BY <1>9 DEF vars
<1> QED
  BY <1>1, <1>2, <1>3, <1>4, <1>5, <1>6, <1>7, <1>8, <1>9 DEF Next, Task, Interrupt

\* FlagInvariant is inductive.
LEMMA FlagAlways == Spec => []FlagInvariant
<1>1. Init => FlagInvariant
  BY DEF Init, FlagInvariant, TaskHoldsBuffer
<1> QED
  BY <1>1, TypeCorrect, FlagPreserved, PTL DEF Spec

\* FlagFollowsTransmitter, from the invariant that also knows what the task
\* holds.
THEOREM FlagTellsTransmission == Spec => []FlagFollowsTransmitter
<1>1. FlagInvariant => FlagFollowsTransmitter
  BY DEF FlagInvariant, FlagFollowsTransmitter
<1> QED
  BY <1>1, FlagAlways, PTL

-----------------------------------------------------------------------------
(* The order of the bytes.                                                 *)

\* Until an upset, nothing waits behind an idle transmitter, what the task
\* puts it puts behind a transmission, and what it copied is still there.
OrderInvariant ==
  upset = {} =>
    /\ wire \o InFlight \o fifo = accepted
    /\ ~busy => fifo = <<>>
    /\ pc = "put" => busy
    /\ pc \in {"raise", "start"} => SubSeq(buffer, 1, Len(direct)) = direct

\* What is in flight are bytes; with nothing read it is the first len of the
\* buffer, and with everything read it is nothing.
LEMMA InFlightFacts ==
  ASSUME TypeOK
  PROVE  /\ InFlight \in Seq(Bytes)
         /\ busy /\ pos = len => InFlight = <<>>
         /\ ~busy => InFlight = <<>>
<1>1. len \in Nat /\ pos \in Nat /\ pos <= len /\ len <= Len(buffer) /\ Len(buffer) \in Nat
  BY LenProperties DEF TypeOK
<1>2. \A i \in pos + 1 .. len : buffer[i] \in Bytes
  BY <1>1, ElementOfSeq DEF TypeOK
<1>3. SubSeq(buffer, pos + 1, len) \in Seq(Bytes)
  BY <1>1, <1>2, SubSeqProperties
<1>4. ASSUME pos = len PROVE SubSeq(buffer, pos + 1, len) = <<>>
  BY <1>1, <1>4, SubSeqEmpty
<1> QED
  BY <1>3, <1>4, EmptySeq DEF InFlight

\* Behind an idle transmitter with an empty FIFO everything has left.
LEMMA NothingWaits ==
  ASSUME TypeOK, OrderInvariant, upset = {}, ~busy
  PROVE  fifo = <<>> /\ wire = accepted
<1>1. fifo = <<>> /\ InFlight = <<>> /\ wire \o InFlight \o fifo = accepted
  BY InFlightFacts DEF OrderInvariant
<1>2. wire \o <<>> = wire
  BY ConcatEmptySeq DEF TypeOK
<1> QED
  BY <1>1, <1>2

\* A put at the end of the FIFO is a put at the end of everything.
LEMMA PutAtTheEnd ==
  ASSUME NEW s \in Seq(Bytes), NEW t \in Seq(Bytes), NEW u \in Seq(Bytes), NEW v \in Seq(Bytes)
  PROVE  s \o t \o (u \o v) = (s \o t \o u) \o v
<1> DEFINE x == s \o t
<1>1. x \in Seq(Bytes)
  BY ConcatProperties
<1> HIDE DEF x
<1>2. x \o (u \o v) = (x \o u) \o v
  BY <1>1, ConcatAssociative, SMTT(60)
<1> QED
  BY <1>2, Zenon DEF x

\* A transmission of b that starts behind nothing.
LEMMA StartsBehindNothing ==
  ASSUME NEW b \in Seq(Bytes), NEW s \in Seq(Bytes),
         busy', len' = Len(b), pos' = 0, SubSeq(buffer', 1, Len(b)) = b
  PROVE  InFlight' = b
BY DEF InFlight

\* All that has left, is being read or waits.
All == wire \o InFlight \o fifo

\* A byte that leaves was the next one in flight.
LEMMA ReadKeepsAll ==
  ASSUME TypeOK, DmaReads
  PROVE  All' = All
<1> DEFINE b == buffer[pos + 1]
           t == SubSeq(buffer, pos + 2, len)
<1>0. wire \in Seq(Bytes) /\ fifo \in Seq(Bytes) /\ buffer \in Seq(Bytes)
  BY DEF TypeOK
<1>1. /\ busy /\ busy' = busy
      /\ wire' = Append(wire, b)
      /\ pos' = pos + 1
      /\ pos < len
      /\ UNCHANGED <<buffer, len, fifo>>
  BY DEF DmaReads
<1>2. /\ pos + 1 \in 1 .. Len(buffer)
      /\ len \in pos + 1 .. Len(buffer)
      /\ pos \in Nat
      /\ (pos + 1) + 1 = pos + 2
  BY <1>1, LenProperties DEF TypeOK
<1>3. InFlight = <<b>> \o t
  BY <1>0, <1>1, <1>2, SubSeqRecursiveFirst DEF InFlight
<1>4. InFlight' = t
  BY <1>1, <1>2 DEF InFlight
<1>5. b \in Bytes
  BY <1>0, <1>2, ElementOfSeq
<1>6. t \in Seq(Bytes)
  <2>1. len \in Int /\ pos + 2 \in Int /\ \A i \in pos + 2 .. len : buffer[i] \in Bytes
    BY <1>0, <1>2, ElementOfSeq, LenProperties
  <2> QED
    BY <2>1, SubSeqProperties
<1> HIDE DEF b, t
<1>7. Append(wire, b) = wire \o <<b>> /\ <<b>> \in Seq(Bytes)
  BY <1>0, <1>5, AppendIsConcat
<1>8. (wire \o <<b>>) \o t = wire \o (<<b>> \o t)
  BY <1>0, <1>6, <1>7, ConcatAssociative, SMTT(60)
<1> QED
  BY <1>1, <1>3, <1>4, <1>7, <1>8 DEF All

\* What the transmission goes on with was first in the FIFO.
LEMMA ContinueKeepsAll ==
  ASSUME TypeOK, TxContinues
  PROVE  All' = All
<1> DEFINE f == First(fifo, BufferSize)
           g == After(fifo, BufferSize)
<1>0. wire \in Seq(Bytes) /\ fifo \in Seq(Bytes) /\ buffer \in Seq(Bytes)
  BY DEF TypeOK
<1>1. f \in Seq(Bytes) /\ g \in Seq(Bytes) /\ f \o g = fifo
  BY <1>0, FirstFacts, AfterFacts, FirstThenAfter, UartAssumption
<1>2. /\ busy /\ busy' = busy /\ pos = len
      /\ buffer' = Copied(f) /\ len' = Len(f) /\ pos' = 0
      /\ fifo' = g /\ wire' = wire
  BY DEF TxContinues
<1> HIDE DEF f, g
<1>3. SubSeq(buffer', 1, Len(f)) = f
  BY <1>0, <1>1, <1>2, CopiedFacts
<1>4. InFlight' = f
  BY <1>0, <1>1, <1>2, <1>3, StartsBehindNothing
<1>5. InFlight = <<>> /\ wire \o <<>> = wire
  BY <1>0, <1>2, InFlightFacts, ConcatEmptySeq
<1>6. (wire \o f) \o g = wire \o (f \o g)
  <2>1. wire \in Seq(Bytes) /\ f \in Seq(Bytes)
    BY <1>0, <1>1
  <2>2. g \in Seq(Bytes)
    BY <1>1
  <2> QED
    BY <2>1, <2>2, ConcatAssociative, SMTT(60)
<1> QED
  BY <1>1, <1>2, <1>4, <1>5, <1>6 DEF All

\* No step brings the bytes out of order before an upset.
LEMMA OrderPreserved ==
  TypeOK /\ TypeOK' /\ PartsFit /\ FlagInvariant /\ OrderInvariant /\ [Next]_vars => OrderInvariant'
<1> SUFFICES ASSUME TypeOK, TypeOK', PartsFit, FlagInvariant, OrderInvariant, [Next]_vars, upset' = {}
             PROVE  /\ wire' \o InFlight' \o fifo' = accepted'
                    /\ ~busy' => fifo' = <<>>
                    /\ pc' = "put" => busy'
                    /\ pc' \in {"raise", "start"} => SubSeq(buffer', 1, Len(direct')) = direct'
  BY DEF OrderInvariant
<1>0. isSending \in BOOLEAN /\ busy \in BOOLEAN
  BY DEF TypeOK
<1>0a. upset = {}
  BY DEF Next, Task, Interrupt, TaskSends, TaskReadsFlag, TaskReadsState, TaskClears,
         TaskChooses, TaskCopies, TaskRaises, TaskStarts, TaskRefused, TaskGivesUp, TaskPuts,
         Reply, DmaReads, TxContinues, TxEnds, RxError, DmaError, vars
<1>0b. /\ wire \o InFlight \o fifo = accepted
       /\ ~busy => fifo = <<>>
       /\ pc = "put" => busy
       /\ pc \in {"raise", "start"} => SubSeq(buffer, 1, Len(direct)) = direct
  BY <1>0a DEF OrderInvariant
<1>0c. /\ busy => isSending
       /\ isSending /\ ~busy => pc = "start"
       /\ pc = "start" => isSending
       /\ TaskHoldsBuffer => ~busy
       /\ pc # "fail"
  BY <1>0a DEF FlagInvariant
<1>0d. /\ wire \in Seq(Bytes) /\ fifo \in Seq(Bytes) /\ accepted \in Seq(Bytes)
       /\ direct \in Seq(Bytes) /\ rest \in Seq(Bytes) /\ buffer \in Seq(Bytes)
       /\ InFlight \in Seq(Bytes)
  BY InFlightFacts DEF TypeOK
<1>0e. wire \in Seq(Bytes) /\ InFlight \in Seq(Bytes) /\ fifo \in Seq(Bytes)
  BY <1>0d
<1>1. CASE TaskSends \/ TaskReadsFlag \/ TaskReadsState \/ TaskClears \/ TaskGivesUp
  <2>1. /\ UNCHANGED <<busy, buffer, len, pos, fifo, wire, accepted>>
        /\ pc' \notin {"put", "raise", "start"}
    BY <1>1 DEF TaskSends, TaskReadsFlag, TaskReadsState, TaskClears, TaskGivesUp, driver
  <2> QED
    BY <1>0b, <2>1 DEF InFlight
<1>2. CASE TaskChooses
  <2>1. /\ UNCHANGED <<busy, buffer, len, pos, fifo, wire, accepted>>
        /\ pc' \notin {"raise", "start"}
        /\ pc' = "put" => isSending
        /\ pc = "choose"
    BY <1>2 DEF TaskChooses, driver
  <2> QED
    BY <1>0, <1>0b, <1>0c, <2>1 DEF InFlight
<1>3. CASE TaskCopies
  <2>1. /\ UNCHANGED <<busy, len, pos, fifo, wire, accepted, direct>>
        /\ pc' = "raise"
        /\ ~busy
        /\ buffer' = Copied(direct)
    BY <1>0c, <1>3 DEF TaskCopies, TaskHoldsBuffer
  <2>2. SubSeq(buffer', 1, Len(direct)) = direct
    BY <1>0d, <2>1, CopiedFacts
  <2> QED
    BY <1>0b, <2>1, <2>2 DEF InFlight
<1>4. CASE TaskRaises
  BY <1>0b, <1>4 DEF TaskRaises, InFlight
<1>5. CASE TaskStarts
  <2>1. fifo = <<>> /\ wire = accepted
    BY <1>0a, <1>5, NothingWaits DEF TaskStarts
  <2>2. InFlight' = direct
    BY <1>0b, <1>5, <1>0d, StartsBehindNothing DEF TaskStarts
  <2>3. (accepted \o direct) \o <<>> = accepted \o direct
    BY <1>0d, ConcatProperties, ConcatEmptySeq
  <2>4. wire' \o InFlight' \o fifo' = accepted'
    BY <1>5, <2>1, <2>2, <2>3 DEF TaskStarts
  <2> QED
    BY <1>5, <2>4 DEF TaskStarts
<1>6. CASE TaskRefused
  BY <1>0c, <1>6 DEF TaskRefused, TaskHoldsBuffer
<1>7. CASE TaskPuts
  <2>1. Fitting(rest) \in Seq(Bytes)
    BY <1>0d, FittingFacts DEF TypeOK
  <2>2. /\ UNCHANGED <<busy, buffer, len, pos, wire>>
        /\ busy
        /\ pc' = "idle"
        /\ fifo' = fifo \o Fitting(rest)
        /\ accepted' = accepted \o Fitting(rest)
    BY <1>0b, <1>7 DEF TaskPuts
  <2>3. InFlight' = InFlight
    BY <2>2 DEF InFlight
  <2>4. wire \o InFlight \o (fifo \o Fitting(rest)) = (wire \o InFlight \o fifo) \o Fitting(rest)
    <3> DEFINE f == Fitting(rest)
    <3>1. f \in Seq(Bytes)
      BY <2>1
    <3> HIDE DEF f
    <3>2. wire \o InFlight \o (fifo \o f) = (wire \o InFlight \o fifo) \o f
      BY <1>0e, <3>1, PutAtTheEnd, SMTT(60)
    <3> QED
      BY <3>2 DEF f
  <2> QED
    BY <1>0b, <2>2, <2>3, <2>4
<1>8. CASE Reply
  <2>1. PICK n \in Lengths :
          /\ NewMessage(n)
          /\ \/ ReplyStarts(Message(sends', n))
             \/ ReplyRefused(Message(sends', n))
             \/ ReplyQueued(Message(sends', n))
    BY <1>8 DEF Reply
  <2> DEFINE msg == Message(sends', n)
  <2>2. msg \in Seq(Bytes)
    BY <2>1, MessageFacts DEF NewMessage, TypeOK
  <2> HIDE DEF msg
  <2>3. /\ ~TaskHoldsBuffer
        /\ UNCHANGED <<pc, direct, wire>>
    BY <1>8 DEF Reply, task
  <2>4. pc' \notin {"raise", "start"}
    BY <2>3 DEF TaskHoldsBuffer
  <2>5. CASE ReplyStarts(msg)
    <3> DEFINE d == DirectPart(msg)
               f == Fitting(RestPart(msg))
    <3>1. fifo = <<>> /\ wire = accepted
      BY <1>0a, <2>5, NothingWaits DEF ReplyStarts
    <3>2. d \in Seq(Bytes) /\ f \in Seq(Bytes)
      BY <1>0d, <2>2, PartsFacts, FittingFacts DEF TypeOK
    <3>3. /\ busy' = TRUE /\ len' = Len(d) /\ pos' = 0
          /\ buffer' = Copied(d)
          /\ fifo' = fifo \o f
          /\ accepted' = accepted \o d \o f
      BY <2>5 DEF ReplyStarts
    <3> HIDE DEF d, f
    <3>4. SubSeq(buffer', 1, Len(d)) = d
      BY <1>0d, <3>2, <3>3, CopiedFacts
    <3>5. InFlight' = d
      BY <1>0d, <3>2, <3>3, <3>4, StartsBehindNothing
    <3>6. fifo' = f
      BY <3>1, <3>2, <3>3, ConcatEmptySeq
    <3> QED
      BY <2>3, <2>4, <3>1, <3>3, <3>5, <3>6
  <2>6. CASE ReplyRefused(msg)
    BY <1>0, <1>0c, <2>6 DEF ReplyRefused
  <2>7. CASE ReplyQueued(msg)
    <3>1. Fitting(msg) \in Seq(Bytes)
      BY <1>0d, <2>2, FittingFacts DEF TypeOK
    <3>2. /\ UNCHANGED <<busy, buffer, len, pos>>
          /\ busy
          /\ fifo' = fifo \o Fitting(msg)
          /\ accepted' = accepted \o Fitting(msg)
      BY <2>7 DEF ReplyQueued
    <3>3. InFlight' = InFlight
      BY <3>2 DEF InFlight
    <3>4. wire \o InFlight \o (fifo \o Fitting(msg)) = (wire \o InFlight \o fifo) \o Fitting(msg)
      BY <1>0e, <3>1, PutAtTheEnd, SMTT(60)
    <3> QED
      BY <1>0b, <2>3, <2>4, <3>2, <3>3, <3>4
  <2> QED
    BY <2>1, <2>5, <2>6, <2>7 DEF msg
<1>9. CASE DmaReads
  <2>1. UNCHANGED <<busy, buffer, fifo, accepted, pc, direct>>
    BY <1>9 DEF DmaReads, task
  <2> QED
    BY <1>0b, <1>9, <2>1, ReadKeepsAll DEF All
<1>10. CASE TxContinues
  <2>1. busy /\ UNCHANGED <<busy, accepted, pc, direct>>
    BY <1>10 DEF TxContinues, task
  <2>2. pc' \notin {"raise", "start"}
    BY <1>0c, <2>1 DEF TaskHoldsBuffer
  <2> QED
    BY <1>0b, <1>10, <2>1, <2>2, ContinueKeepsAll DEF All
<1>11. CASE TxEnds
  <2>1. /\ busy' = FALSE /\ busy /\ pos = len /\ fifo = <<>>
        /\ UNCHANGED <<fifo, wire, accepted, pc, buffer, direct>>
        /\ pc # "put"
    BY <1>11 DEF TxEnds, task
  <2>2. InFlight = <<>> /\ InFlight' = <<>>
    BY <2>1, InFlightFacts DEF InFlight
  <2> QED
    BY <1>0b, <2>1, <2>2
<1>12. CASE RxError
  <2>1. UNCHANGED <<busy, buffer, len, pos, fifo, wire, accepted, pc, direct>>
    BY <1>12 DEF RxError, task
  <2> QED
    BY <1>0b, <2>1 DEF InFlight
<1>13. CASE DmaError
  BY <1>13 DEF DmaError
<1>14. CASE UNCHANGED vars
  <2>1. UNCHANGED <<busy, buffer, len, pos, fifo, wire, accepted, pc, direct>>
    BY <1>14 DEF vars, driver, task
  <2> QED
    BY <1>0b, <2>1 DEF InFlight
<1> QED
  BY <1>1, <1>2, <1>3, <1>4, <1>5, <1>6, <1>7, <1>8, <1>9, <1>10, <1>11, <1>12, <1>13, <1>14
     DEF Next, Task, Interrupt

\* OrderInvariant is inductive.
LEMMA OrderAlways == Spec => []OrderInvariant
<1>1. Init => OrderInvariant
  <2> SUFFICES ASSUME Init PROVE OrderInvariant
    OBVIOUS
  <2>1. InFlight = <<>> /\ wire = <<>> /\ fifo = <<>> /\ accepted = <<>> /\ pc = "idle"
    BY DEF Init, InFlight
  <2>2. <<>> \o <<>> \o <<>> = <<>>
    BY ConcatEmptySeq, EmptySeq
  <2> QED
    BY <2>1, <2>2 DEF OrderInvariant
<1> QED
  BY <1>1, TypeAndParts, FlagAlways, OrderPreserved, PTL DEF Spec

\* QueueInOrder: until an upset the transmit path is a queue, for buffers,
\* FIFOs and messages of every length.
THEOREM TransmitIsQueue == Spec => []QueueInOrder
<1>1. OrderInvariant => QueueInOrder
  BY DEF OrderInvariant, QueueInOrder
<1> QED
  BY <1>1, OrderAlways, PTL
-----------------------------------------------------------------------------
(* Every byte once.                                                        *)

\* The bytes of the first n messages.
UpTo(n) == (1 .. n) \X (Nat \ {0})

\* Until something worse than a late put, what the task holds is not among what
\* it or a reply handed over, nor is any of it there twice, and none of it is of
\* a message that is still to be sent.
FreshInvariant ==
  upset \subseteq {"late"} =>
    /\ IsInjective(All) /\ ToSet(All) = ToSet(accepted)
    /\ IsInjective(direct) /\ IsInjective(rest)
    /\ ToSet(direct) \cap ToSet(rest) = {}
    /\ ToSet(direct) \cap ToSet(All) = {}
    /\ ToSet(rest) \cap ToSet(All) = {}
    /\ ToSet(All) \subseteq UpTo(sends)
    /\ ToSet(direct) \subseteq UpTo(sends)
    /\ ToSet(rest) \subseteq UpTo(sends)
    /\ pc \in {"idle", "flag", "state", "clear", "choose"} => rest = <<>>
    /\ pc \in {"idle", "put"} => direct = <<>>
    /\ pc \in {"raise", "start"} => SubSeq(buffer, 1, Len(direct)) = direct

\* A concatenation repeats nothing when neither part does and they share nothing.
LEMMA ConcatOnce ==
  ASSUME NEW S, NEW s \in Seq(S), NEW t \in Seq(S)
  PROVE  /\ ToSet(s \o t) = ToSet(s) \cup ToSet(t)
         /\ IsInjective(s \o t) <=>
              IsInjective(s) /\ IsInjective(t) /\ ToSet(s) \cap ToSet(t) = {}
<1> DEFINE u == s \o t
<1>1. /\ u \in Seq(S) /\ Len(u) = Len(s) + Len(t)
      /\ \A i \in 1 .. Len(s) + Len(t) : u[i] = IF i <= Len(s) THEN s[i] ELSE t[i - Len(s)]
  BY ConcatProperties
<1> HIDE DEF u
<1>2. /\ DOMAIN s = 1 .. Len(s) /\ DOMAIN t = 1 .. Len(t) /\ DOMAIN u = 1 .. Len(u)
      /\ Len(s) \in Nat /\ Len(t) \in Nat
  BY <1>1, LenProperties
<1>3. \A i \in 1 .. Len(s) : i \in 1 .. Len(u) /\ u[i] = s[i]
  BY <1>1, <1>2
<1>4. \A i \in 1 .. Len(t) : Len(s) + i \in 1 .. Len(u) /\ u[Len(s) + i] = t[i]
  BY <1>1, <1>2
<1>5. \A i \in 1 .. Len(u) :
        \/ i \in 1 .. Len(s)
        \/ i - Len(s) \in 1 .. Len(t) /\ u[i] = t[i - Len(s)]
  BY <1>1, <1>2
<1>6. ToSet(u) = ToSet(s) \cup ToSet(t)
  <2>1. ToSet(s) \subseteq ToSet(u)
    BY <1>2, <1>3 DEF ToSet
  <2>2. ToSet(t) \subseteq ToSet(u)
    BY <1>2, <1>4 DEF ToSet
  <2>3. ASSUME NEW i \in 1 .. Len(u) PROVE u[i] \in ToSet(s) \cup ToSet(t)
    BY <1>2, <1>3, <1>5 DEF ToSet
  <2>4. ToSet(u) \subseteq ToSet(s) \cup ToSet(t)
    BY <1>2, <2>3 DEF ToSet
  <2> QED  BY <2>1, <2>2, <2>4
<1>7. ASSUME IsInjective(u)
      PROVE  IsInjective(s) /\ IsInjective(t) /\ ToSet(s) \cap ToSet(t) = {}
  <2>1. \A i, j \in 1 .. Len(u) : u[i] = u[j] => i = j
    BY <1>2, <1>7 DEF IsInjective
  <2>2. IsInjective(s)
    BY <1>2, <1>3, <2>1 DEF IsInjective
  <2>3. ASSUME NEW i \in 1 .. Len(t), NEW j \in 1 .. Len(t), t[i] = t[j] PROVE i = j
    <3>1. Len(s) + i = Len(s) + j
      BY <1>4, <2>1, <2>3
    <3> QED  BY <1>2, <3>1
  <2>4. ASSUME NEW i \in 1 .. Len(s), NEW j \in 1 .. Len(t), s[i] = t[j] PROVE FALSE
    <3>1. i = Len(s) + j
      BY <1>3, <1>4, <2>1, <2>4
    <3> QED  BY <1>2, <3>1
  <2> QED  BY <1>2, <2>2, <2>3, <2>4 DEF IsInjective, ToSet
<1>8. ASSUME IsInjective(s), IsInjective(t), ToSet(s) \cap ToSet(t) = {}
      PROVE  IsInjective(u)
  <2>1. /\ \A i, j \in 1 .. Len(s) : s[i] = s[j] => i = j
        /\ \A i, j \in 1 .. Len(t) : t[i] = t[j] => i = j
        /\ \A i \in 1 .. Len(s), j \in 1 .. Len(t) : s[i] # t[j]
    BY <1>2, <1>8 DEF IsInjective, ToSet
  <2>2. ASSUME NEW i \in 1 .. Len(u), NEW j \in 1 .. Len(u), u[i] = u[j] PROVE i = j
    <3>1. CASE i \in 1 .. Len(s) /\ j \in 1 .. Len(s)
      BY <1>3, <2>1, <2>2, <3>1
    <3>2. CASE i \in 1 .. Len(s) /\ j \notin 1 .. Len(s)
      <4>1. u[i] = s[i] /\ \E l \in 1 .. Len(t) : u[j] = t[l]
        BY <1>3, <1>5, <3>2
      <4> QED  BY <2>1, <2>2, <3>2, <4>1
    <3>3. CASE i \notin 1 .. Len(s) /\ j \in 1 .. Len(s)
      <4>1. u[j] = s[j] /\ \E l \in 1 .. Len(t) : u[i] = t[l]
        BY <1>3, <1>5, <3>3
      <4> QED  BY <2>1, <2>2, <3>3, <4>1
    <3>4. CASE i \notin 1 .. Len(s) /\ j \notin 1 .. Len(s)
      <4>a. /\ i - Len(s) \in 1 .. Len(t) /\ u[i] = t[i - Len(s)]
            /\ j - Len(s) \in 1 .. Len(t) /\ u[j] = t[j - Len(s)]
        BY <1>5, <3>4
      <4>1. i - Len(s) = j - Len(s)
        BY <2>1, <2>2, <4>a
      <4> QED  BY <1>2, <4>1
    <3> QED  BY <3>1, <3>2, <3>3, <3>4
  <2> QED  BY <1>2, <2>2 DEF IsInjective
<1>9. IsInjective(u) <=> IsInjective(s) /\ IsInjective(t) /\ ToSet(s) \cap ToSet(t) = {}
  BY <1>7, <1>8
<1> QED  BY <1>6, <1>9 DEF u

\* Nothing is in the empty sequence.
LEMMA NothingOnce == IsInjective(<<>>) /\ ToSet(<<>>) = {}
BY DEF IsInjective, ToSet

\* The two parts of a sequence without repetitions.
LEMMA SplitOnce ==
  ASSUME NEW S, NEW s \in Seq(S), NEW n \in Nat, IsInjective(s)
  PROVE  /\ IsInjective(First(s, n)) /\ IsInjective(After(s, n))
         /\ ToSet(First(s, n)) \cap ToSet(After(s, n)) = {}
         /\ ToSet(First(s, n)) \subseteq ToSet(s) /\ ToSet(After(s, n)) \subseteq ToSet(s)
<1> DEFINE f == First(s, n)
           a == After(s, n)
<1>1. f \in Seq(S) /\ a \in Seq(S) /\ f \o a = s
  BY FirstFacts, AfterFacts, FirstThenAfter
<1> HIDE DEF f, a
<1>2. /\ ToSet(s) = ToSet(f) \cup ToSet(a)
      /\ IsInjective(f) /\ IsInjective(a) /\ ToSet(f) \cap ToSet(a) = {}
  BY <1>1, ConcatOnce
<1> QED  BY <1>2 DEF f, a

\* The two parts of a message share no byte, and have none of another.
LEMMA PartsOnce ==
  ASSUME NEW S, NEW msg \in Seq(S), IsInjective(msg)
  PROVE  /\ IsInjective(DirectPart(msg)) /\ IsInjective(RestPart(msg))
         /\ ToSet(DirectPart(msg)) \cap ToSet(RestPart(msg)) = {}
         /\ ToSet(DirectPart(msg)) \subseteq ToSet(msg) /\ ToSet(RestPart(msg)) \subseteq ToSet(msg)
<1> DEFINE t == First(msg, BufferSize + FifoSize)
<1>1. BufferSize \in Nat /\ FifoSize \in Nat /\ BufferSize + FifoSize \in Nat
  BY UartAssumption
<1>2. t \in Seq(S) /\ IsInjective(t) /\ ToSet(t) \subseteq ToSet(msg)
  BY <1>1, FirstFacts, SplitOnce
<1>3. First(t, BufferSize) = First(msg, BufferSize)
  <2>1. /\ Len(msg) \in Nat
        /\ Len(t) = IF BufferSize + FifoSize < Len(msg) THEN BufferSize + FifoSize ELSE Len(msg)
        /\ \A i \in 1 .. Len(t) : t[i] = msg[i]
    BY <1>1, FirstFacts, LenProperties
  <2> HIDE DEF t
  <2>2. /\ First(t, BufferSize) \in Seq(S)
        /\ Len(First(t, BufferSize)) = IF BufferSize < Len(t) THEN BufferSize ELSE Len(t)
        /\ \A i \in 1 .. Len(First(t, BufferSize)) : First(t, BufferSize)[i] = t[i]
    BY <1>1, <1>2, FirstFacts
  <2>3. /\ First(msg, BufferSize) \in Seq(S)
        /\ Len(First(msg, BufferSize)) = IF BufferSize < Len(msg) THEN BufferSize ELSE Len(msg)
        /\ \A i \in 1 .. Len(First(msg, BufferSize)) : First(msg, BufferSize)[i] = msg[i]
    BY <1>1, FirstFacts
  <2>4. Len(First(t, BufferSize)) = Len(First(msg, BufferSize)) /\ Len(First(t, BufferSize)) <= Len(t)
    BY <1>1, <2>1, <2>2, <2>3
  <2>5. \A i \in 1 .. Len(First(t, BufferSize)) : First(t, BufferSize)[i] = First(msg, BufferSize)[i]
    BY <2>1, <2>2, <2>3, <2>4
  <2> QED  BY <2>2, <2>3, <2>4, <2>5, SeqEqual
<1> HIDE DEF t
<1>4. /\ IsInjective(First(t, BufferSize)) /\ IsInjective(After(t, BufferSize))
      /\ ToSet(First(t, BufferSize)) \cap ToSet(After(t, BufferSize)) = {}
      /\ ToSet(First(t, BufferSize)) \subseteq ToSet(t) /\ ToSet(After(t, BufferSize)) \subseteq ToSet(t)
  BY <1>1, <1>2, SplitOnce
<1>5. DirectPart(msg) = First(t, BufferSize) /\ RestPart(msg) = After(t, BufferSize)
  BY <1>3 DEF DirectPart, RestPart, t
<1> QED  BY <1>2, <1>4, <1>5

\* What of a part fits into the FIFO.
LEMMA FittingOnce ==
  ASSUME TypeOK, NEW b \in Seq(Bytes), IsInjective(b)
  PROVE  Fitting(b) \in Seq(Bytes) /\ IsInjective(Fitting(b)) /\ ToSet(Fitting(b)) \subseteq ToSet(b)
<1>1. FifoSize - Len(fifo) \in Nat
  BY UartAssumption, LenProperties DEF TypeOK
<1> QED  BY <1>1, FirstFacts, SplitOnce DEF Fitting

\* The bytes of a new message are those of none before.
LEMMA MessageIsNew ==
  ASSUME TypeOK, NEW n \in Lengths, NewMessage(n)
  PROVE  /\ Message(sends', n) \in Seq(Bytes) /\ IsInjective(Message(sends', n))
         /\ ToSet(Message(sends', n)) \subseteq UpTo(sends')
         /\ ToSet(Message(sends', n)) \cap UpTo(sends) = {}
         /\ UpTo(sends) \subseteq UpTo(sends')
<1> DEFINE m == sends'
<1>1. m = sends + 1 /\ sends \in Nat /\ m \in 1 .. MaxSends /\ n \in Nat
  BY UartAssumption DEF NewMessage, TypeOK
<1>2. Message(m, n) \in Seq(Bytes)
  BY <1>1, MessageFacts
<1> HIDE DEF m
<1>3. DOMAIN Message(m, n) = 1 .. n /\ \A i \in 1 .. n : Message(m, n)[i] = <<m, i>>
  BY DEF Message
<1>4. IsInjective(Message(m, n))
  BY <1>3 DEF IsInjective
<1>5. \A b \in ToSet(Message(m, n)) : \E i \in 1 .. n : b = <<m, i>>
  BY <1>3 DEF ToSet
<1>6. m \in 1 .. m /\ m \notin 1 .. sends /\ \A i \in 1 .. sends : i \in 1 .. m
  BY <1>1
<1>7. \A i \in 1 .. n : i \in Nat \ {0}
  BY <1>1
<1>8. ToSet(Message(m, n)) \subseteq UpTo(m) /\ ToSet(Message(m, n)) \cap UpTo(sends) = {}
  BY <1>5, <1>6, <1>7 DEF UpTo
<1>9. UpTo(sends) \subseteq UpTo(m)
  BY <1>6 DEF UpTo
<1> QED  BY <1>2, <1>4, <1>8, <1>9 DEF m

\* What is put between two parts is there once if it was not there before.
LEMMA InsertedOnce ==
  ASSUME NEW S, NEW w \in Seq(S), NEW f \in Seq(S), NEW b \in Seq(S),
         IsInjective(w \o f), IsInjective(b), ToSet(b) \cap ToSet(w \o f) = {}
  PROVE  IsInjective(w \o b \o f) /\ ToSet(w \o b \o f) = ToSet(w \o f) \cup ToSet(b)
<1>1. /\ IsInjective(w) /\ IsInjective(f) /\ ToSet(w) \cap ToSet(f) = {}
      /\ ToSet(w \o f) = ToSet(w) \cup ToSet(f)
  BY ConcatOnce
<1> DEFINE u == w \o b
<1>2. u \in Seq(S) /\ IsInjective(u) /\ ToSet(u) = ToSet(w) \cup ToSet(b)
  BY <1>1, ConcatOnce, ConcatProperties
<1> HIDE DEF u
<1>3. IsInjective(u \o f) /\ ToSet(u \o f) = ToSet(u) \cup ToSet(f)
  BY <1>1, <1>2, ConcatOnce
<1> QED  BY <1>1, <1>2, <1>3 DEF u
\* No step makes a byte twice of one, nor loses one that was accepted.
LEMMA FreshPreserved ==
  TypeOK /\ TypeOK' /\ FlagInvariant /\ FreshInvariant /\ [Next]_vars => FreshInvariant'
<1> SUFFICES ASSUME TypeOK, TypeOK', FlagInvariant, FreshInvariant, [Next]_vars,
                    upset' \subseteq {"late"}
             PROVE  FreshInvariant'
  BY DEF FreshInvariant
<1>0. upset \subseteq {"late"}
  BY DEF Next, Task, Interrupt, TaskSends, TaskReadsFlag, TaskReadsState, TaskClears,
         TaskChooses, TaskCopies, TaskRaises, TaskStarts, TaskRefused, TaskGivesUp, TaskPuts,
         Reply, DmaReads, TxContinues, TxEnds, RxError, DmaError, vars
<1>1. /\ IsInjective(All) /\ ToSet(All) = ToSet(accepted)
      /\ IsInjective(direct) /\ IsInjective(rest)
      /\ ToSet(direct) \cap ToSet(rest) = {}
      /\ ToSet(direct) \cap ToSet(All) = {}
      /\ ToSet(rest) \cap ToSet(All) = {}
      /\ ToSet(All) \subseteq UpTo(sends)
      /\ ToSet(direct) \subseteq UpTo(sends)
      /\ ToSet(rest) \subseteq UpTo(sends)
      /\ pc \in {"idle", "flag", "state", "clear", "choose"} => rest = <<>>
      /\ pc \in {"idle", "put"} => direct = <<>>
      /\ pc \in {"raise", "start"} => SubSeq(buffer, 1, Len(direct)) = direct
  BY <1>0 DEF FreshInvariant
<1>2. /\ TaskHoldsBuffer => ~busy
      /\ busy => isSending
      /\ pc # "fail"
  BY <1>0 DEF FlagInvariant
<1>3. /\ wire \in Seq(Bytes) /\ fifo \in Seq(Bytes) /\ accepted \in Seq(Bytes)
      /\ direct \in Seq(Bytes) /\ rest \in Seq(Bytes) /\ buffer \in Seq(Bytes)
      /\ InFlight \in Seq(Bytes) /\ All \in Seq(Bytes)
  BY InFlightFacts, ConcatProperties DEF TypeOK, All
<1>4. IsInjective(<<>>) /\ ToSet(<<>>) = {}
  BY NothingOnce
<1>5. ~busy => All = wire \o fifo
  BY <1>3, InFlightFacts, ConcatEmptySeq DEF All
<1>6. CASE TaskSends
  <2>1. PICK n \in Lengths : NewMessage(n) /\ direct' = Message(sends', n)
    BY <1>6 DEF TaskSends
  <2>2. /\ pc = "idle" /\ pc' = "flag"
        /\ UNCHANGED <<busy, buffer, len, pos, fifo, rest, wire, accepted>>
    BY <1>6 DEF TaskSends, driver
  <2>3. /\ IsInjective(direct') /\ ToSet(direct') \subseteq UpTo(sends')
        /\ ToSet(direct') \cap UpTo(sends) = {} /\ UpTo(sends) \subseteq UpTo(sends')
    BY <2>1, MessageIsNew
  <2>4. All' = All /\ rest' = <<>>
    BY <1>1, <2>2 DEF All, InFlight
  <2>5. /\ ToSet(direct') \cap ToSet(rest') = {} /\ ToSet(direct') \cap ToSet(All') = {}
        /\ ToSet(All') \subseteq UpTo(sends') /\ ToSet(rest') \subseteq UpTo(sends')
    BY <1>1, <1>4, <2>3, <2>4
  <2> QED
    BY <1>1, <1>4, <2>2, <2>3, <2>4, <2>5 DEF FreshInvariant
<1>7. CASE TaskReadsFlag \/ TaskReadsState \/ TaskClears
  <2>1. /\ UNCHANGED <<busy, buffer, len, pos, fifo, direct, rest, sends, wire, accepted>>
        /\ pc \in {"flag", "state", "clear"} /\ pc' \in {"state", "clear", "choose"}
    BY <1>7 DEF TaskReadsFlag, TaskReadsState, TaskClears, driver
  <2>2. All' = All
    BY <2>1 DEF All, InFlight
  <2> QED
    BY <1>1, <2>1, <2>2 DEF FreshInvariant
<1>8. CASE TaskChooses
  <2>1. pc = "choose" /\ UNCHANGED <<busy, buffer, len, pos, fifo, sends, wire, accepted>>
    BY <1>8 DEF TaskChooses, driver
  <2>2. All' = All
    BY <2>1 DEF All, InFlight
  <2>3. FifoSize \in Nat
    BY UartAssumption
  <2>4. CASE isSending
    <3>1. /\ rest' = First(direct, FifoSize) /\ direct' = <<>>
          /\ pc' = IF FifoSize = 0 THEN "idle" ELSE "put"
      BY <1>8, <2>4 DEF TaskChooses
    <3>2. IsInjective(rest') /\ ToSet(rest') \subseteq ToSet(direct)
      BY <1>1, <1>3, <2>3, <3>1, SplitOnce
    <3>3. FifoSize = 0 => rest' = <<>>
      <4>1. rest' \in Seq(Bytes) /\ (FifoSize = 0 => Len(rest') = 0)
        <5>1. Len(direct) \in Nat
          BY <1>3, LenProperties
        <5>2. /\ rest' \in Seq(Bytes)
              /\ Len(rest') = IF FifoSize < Len(direct) THEN FifoSize ELSE Len(direct)
          BY <1>3, <2>3, <3>1, FirstFacts
        <5> QED
          BY <2>3, <5>1, <5>2
      <4> QED
        BY <4>1, EmptySeq
    <3>4. /\ ToSet(rest') \cap ToSet(All') = {} /\ ToSet(rest') \subseteq UpTo(sends')
          /\ ToSet(direct') = {} /\ IsInjective(direct')
      BY <1>1, <1>4, <2>1, <2>2, <3>1, <3>2
    <3> QED
      BY <1>1, <2>1, <2>2, <3>1, <3>2, <3>3, <3>4 DEF FreshInvariant
  <2>5. CASE ~isSending
    <3>1. rest' = RestPart(direct) /\ direct' = DirectPart(direct) /\ pc' = "copy"
      BY <1>8, <2>5 DEF TaskChooses
    <3>2. /\ IsInjective(direct') /\ IsInjective(rest') /\ ToSet(direct') \cap ToSet(rest') = {}
          /\ ToSet(direct') \subseteq ToSet(direct) /\ ToSet(rest') \subseteq ToSet(direct)
      BY <1>1, <1>3, <3>1, PartsOnce
    <3>3. /\ ToSet(direct') \cap ToSet(All') = {} /\ ToSet(rest') \cap ToSet(All') = {}
          /\ ToSet(direct') \subseteq UpTo(sends') /\ ToSet(rest') \subseteq UpTo(sends')
      BY <1>1, <2>1, <2>2, <3>2
    <3> QED
      BY <1>1, <2>1, <2>2, <3>1, <3>2, <3>3 DEF FreshInvariant
  <2> QED
    BY <2>4, <2>5
<1>9. CASE TaskCopies
  <2>1. /\ pc = "copy" /\ pc' = "raise" /\ ~busy /\ buffer' = Copied(direct)
        /\ UNCHANGED <<busy, len, pos, fifo, direct, rest, sends, wire, accepted>>
    BY <1>2, <1>9 DEF TaskCopies, TaskHoldsBuffer
  <2>2. SubSeq(buffer', 1, Len(direct)) = direct
    BY <1>3, <2>1, CopiedFacts
  <2>3. All' = All
    BY <2>1 DEF All, InFlight
  <2> QED
    BY <1>1, <2>1, <2>2, <2>3 DEF FreshInvariant
<1>10. CASE TaskRaises
  <2>1. /\ pc = "raise" /\ pc' = "start"
        /\ UNCHANGED <<busy, buffer, len, pos, fifo, direct, rest, sends, wire, accepted>>
    BY <1>10 DEF TaskRaises
  <2>2. All' = All
    BY <2>1 DEF All, InFlight
  <2> QED
    BY <1>1, <2>1, <2>2 DEF FreshInvariant
<1>11. CASE TaskStarts
  <2>1. /\ pc = "start" /\ ~busy /\ busy' = TRUE /\ len' = Len(direct) /\ pos' = 0
        /\ accepted' = accepted \o direct /\ direct' = <<>>
        /\ pc' = IF rest = <<>> THEN "idle" ELSE "put"
        /\ UNCHANGED <<buffer, fifo, rest, sends, wire>>
    BY <1>11 DEF TaskStarts
  <2>2. InFlight' = direct
    BY <1>1, <1>3, <2>1, StartsBehindNothing
  <2>3. All' = wire \o direct \o fifo
    BY <2>1, <2>2 DEF All
  <2>4. IsInjective(All') /\ ToSet(All') = ToSet(All) \cup ToSet(direct)
    <3>1. wire \in Seq(Bytes) /\ fifo \in Seq(Bytes) /\ direct \in Seq(Bytes)
      BY <1>3
    <3>2. All = wire \o fifo
      BY <1>5, <2>1
    <3>3. IsInjective(wire \o fifo) /\ IsInjective(direct) /\ ToSet(direct) \cap ToSet(wire \o fifo) = {}
      BY <1>1, <3>2
    <3>4. /\ IsInjective(wire \o direct \o fifo)
          /\ ToSet(wire \o direct \o fifo) = ToSet(wire \o fifo) \cup ToSet(direct)
      BY <3>1, <3>3, InsertedOnce, SMTT(60)
    <3> QED
      BY <2>3, <3>2, <3>4
  <2>5. ToSet(accepted') = ToSet(accepted) \cup ToSet(direct)
    BY <1>3, <2>1, ConcatOnce
  <2>6. /\ IsInjective(direct') /\ ToSet(direct') = {}
        /\ ToSet(All') = ToSet(accepted')
        /\ ToSet(rest') \cap ToSet(All') = {} /\ ToSet(All') \subseteq UpTo(sends')
    BY <1>1, <1>4, <2>1, <2>4, <2>5
  <2> QED
    BY <1>1, <2>1, <2>4, <2>6 DEF FreshInvariant
<1>12. CASE TaskRefused \/ TaskGivesUp
  BY <1>2, <1>12 DEF TaskRefused, TaskGivesUp, TaskHoldsBuffer
<1>13. CASE TaskPuts
  <2> DEFINE f == Fitting(rest)
  <2>1. /\ pc = "put" /\ pc' = "idle" /\ fifo' = fifo \o f /\ accepted' = accepted \o f
        /\ rest' = <<>> /\ UNCHANGED <<busy, buffer, len, pos, direct, sends, wire>>
    BY <1>13 DEF TaskPuts
  <2>2. f \in Seq(Bytes) /\ IsInjective(f) /\ ToSet(f) \subseteq ToSet(rest)
    BY <1>1, <1>3, FittingOnce
  <2> HIDE DEF f
  <2>3. All' = All \o f
    <3>1. InFlight' = InFlight
      BY <2>1 DEF InFlight
    <3>2. wire \in Seq(Bytes) /\ InFlight \in Seq(Bytes) /\ fifo \in Seq(Bytes) /\ f \in Seq(Bytes)
      BY <1>3, <2>2
    <3>3. wire \o InFlight \o (fifo \o f) = (wire \o InFlight \o fifo) \o f
      BY <3>2, PutAtTheEnd, SMTT(60)
    <3> QED
      BY <2>1, <3>1, <3>3 DEF All
  <2>4. ToSet(f) \cap ToSet(All) = {}
    BY <1>1, <2>2
  <2>5. IsInjective(All') /\ ToSet(All') = ToSet(All) \cup ToSet(f)
    BY <1>1, <1>3, <2>2, <2>3, <2>4, ConcatOnce
  <2>6. ToSet(accepted') = ToSet(accepted) \cup ToSet(f)
    BY <1>3, <2>1, <2>2, ConcatOnce
  <2>7. /\ IsInjective(rest') /\ ToSet(rest') = {} /\ direct' = <<>>
        /\ ToSet(All') = ToSet(accepted') /\ ToSet(All') \subseteq UpTo(sends')
    BY <1>1, <1>4, <2>1, <2>2, <2>5, <2>6
  <2> QED
    BY <1>1, <1>4, <2>1, <2>5, <2>7 DEF FreshInvariant
<1>14. CASE Reply
  <2>1. PICK n \in Lengths :
          /\ NewMessage(n)
          /\ \/ ReplyStarts(Message(sends', n))
             \/ ReplyRefused(Message(sends', n))
             \/ ReplyQueued(Message(sends', n))
    BY <1>14 DEF Reply
  <2> DEFINE msg == Message(sends', n)
  <2>2. /\ msg \in Seq(Bytes) /\ IsInjective(msg) /\ ToSet(msg) \subseteq UpTo(sends')
        /\ ToSet(msg) \cap UpTo(sends) = {} /\ UpTo(sends) \subseteq UpTo(sends')
    BY <2>1, MessageIsNew
  <2> HIDE DEF msg
  <2>3. ~TaskHoldsBuffer /\ UNCHANGED <<pc, direct, rest, wire>>
    BY <1>14 DEF Reply, task
  <2>4. pc' \notin {"raise", "start"}
    BY <2>3 DEF TaskHoldsBuffer
  <2>5. ASSUME NEW new, new \subseteq ToSet(msg), IsInjective(All'),
               ToSet(All') = ToSet(All) \cup new, ToSet(accepted') = ToSet(accepted) \cup new
        PROVE  FreshInvariant'
    <3>1. /\ ToSet(All') = ToSet(accepted')
          /\ ToSet(direct') \cap ToSet(All') = {} /\ ToSet(rest') \cap ToSet(All') = {}
          /\ ToSet(All') \subseteq UpTo(sends')
          /\ ToSet(direct') \subseteq UpTo(sends') /\ ToSet(rest') \subseteq UpTo(sends')
      BY <1>1, <2>2, <2>3, <2>5
    <3> QED
      BY <1>1, <2>3, <2>4, <2>5, <3>1 DEF FreshInvariant
  <2>6. CASE ReplyStarts(msg)
    <3> DEFINE d == DirectPart(msg)
               r == RestPart(msg)
               f == Fitting(r)
    <3>1. /\ d \in Seq(Bytes) /\ r \in Seq(Bytes) /\ IsInjective(d) /\ IsInjective(r)
          /\ ToSet(d) \cap ToSet(r) = {} /\ ToSet(d) \subseteq ToSet(msg) /\ ToSet(r) \subseteq ToSet(msg)
      BY <2>2, PartsFacts, PartsOnce
    <3>2. /\ ~busy /\ busy' = TRUE /\ len' = Len(d) /\ pos' = 0 /\ buffer' = Copied(d)
          /\ fifo' = fifo \o f /\ accepted' = accepted \o d \o f
      BY <2>6 DEF ReplyStarts
    <3> HIDE DEF d, r
    <3>3. f \in Seq(Bytes) /\ IsInjective(f) /\ ToSet(f) \subseteq ToSet(r)
      BY <3>1, FittingOnce
    <3> HIDE DEF f
    <3>4. InFlight' = d
      <4>1. SubSeq(buffer', 1, Len(d)) = d
        BY <1>3, <3>1, <3>2, CopiedFacts
      <4> QED
        BY <1>3, <3>1, <3>2, <4>1, StartsBehindNothing
    <3>5. All' = (wire \o d \o fifo) \o f
      <4>1. wire \in Seq(Bytes) /\ d \in Seq(Bytes) /\ fifo \in Seq(Bytes) /\ f \in Seq(Bytes)
        BY <1>3, <3>1, <3>3
      <4>2. wire \o d \o (fifo \o f) = (wire \o d \o fifo) \o f
        BY <4>1, PutAtTheEnd, SMTT(60)
      <4> QED
        BY <2>3, <3>2, <3>4, <4>2 DEF All
    <3> DEFINE a == wire \o d \o fifo
    <3>6. a \in Seq(Bytes) /\ IsInjective(a) /\ ToSet(a) = ToSet(All) \cup ToSet(d)
      <4>1. ToSet(d) \cap ToSet(All) = {}
        BY <1>1, <2>2, <3>1
      <4>2. IsInjective(a) /\ ToSet(a) = ToSet(All) \cup ToSet(d)
        <5>1. wire \in Seq(Bytes) /\ fifo \in Seq(Bytes) /\ d \in Seq(Bytes)
          BY <1>3, <3>1
        <5>2. All = wire \o fifo
          BY <1>5, <3>2
        <5>3. IsInjective(wire \o fifo) /\ IsInjective(d) /\ ToSet(d) \cap ToSet(wire \o fifo) = {}
          BY <1>1, <3>1, <4>1, <5>2
        <5>4. /\ IsInjective(wire \o d \o fifo)
              /\ ToSet(wire \o d \o fifo) = ToSet(wire \o fifo) \cup ToSet(d)
          BY <5>1, <5>3, InsertedOnce, SMTT(60)
        <5> QED
          BY <5>2, <5>4
      <4> QED
        BY <1>3, <3>1, <4>2, ConcatProperties
    <3>7. All' = a \o f
      BY <3>5
    <3> HIDE DEF a
    <3>8. ToSet(a) \cap ToSet(f) = {}
      BY <1>1, <2>2, <3>1, <3>3, <3>6
    <3>9. IsInjective(All') /\ ToSet(All') = ToSet(a) \cup ToSet(f)
      BY <3>3, <3>6, <3>7, <3>8, ConcatOnce
    <3>10. ToSet(accepted') = ToSet(accepted) \cup (ToSet(d) \cup ToSet(f))
      <4> DEFINE x == accepted \o d
      <4>1. x \in Seq(Bytes) /\ ToSet(x) = ToSet(accepted) \cup ToSet(d) /\ accepted' = x \o f
        BY <1>3, <3>1, <3>2, ConcatOnce, ConcatProperties
      <4> HIDE DEF x
      <4>2. ToSet(x \o f) = ToSet(x) \cup ToSet(f)
        BY <3>3, <4>1, ConcatOnce
      <4> QED
        BY <4>1, <4>2
    <3>11. /\ ToSet(d) \cup ToSet(f) \subseteq ToSet(msg)
           /\ ToSet(All') = ToSet(All) \cup (ToSet(d) \cup ToSet(f))
      BY <3>1, <3>3, <3>6, <3>9
    <3> QED
      BY <2>5, <3>9, <3>10, <3>11
  <2>7. CASE ReplyRefused(msg)
    BY <1>2, <2>7 DEF ReplyRefused
  <2>8. CASE ReplyQueued(msg)
    <3> DEFINE f == Fitting(msg)
    <3>1. f \in Seq(Bytes) /\ IsInjective(f) /\ ToSet(f) \subseteq ToSet(msg)
      BY <2>2, FittingOnce
    <3>2. /\ fifo' = fifo \o f /\ accepted' = accepted \o f
          /\ UNCHANGED <<busy, buffer, len, pos>>
      BY <2>8 DEF ReplyQueued
    <3> HIDE DEF f
    <3>3. All' = All \o f
      <4>1. InFlight' = InFlight
        BY <3>2 DEF InFlight
      <4>2. wire \in Seq(Bytes) /\ InFlight \in Seq(Bytes) /\ fifo \in Seq(Bytes) /\ f \in Seq(Bytes)
        BY <1>3, <3>1
      <4>3. wire \o InFlight \o (fifo \o f) = (wire \o InFlight \o fifo) \o f
        BY <4>2, PutAtTheEnd, SMTT(60)
      <4> QED
        BY <2>3, <3>2, <4>1, <4>3 DEF All
    <3>4. ToSet(All) \cap ToSet(f) = {}
      BY <1>1, <2>2, <3>1
    <3>5. IsInjective(All') /\ ToSet(All') = ToSet(All) \cup ToSet(f)
      BY <1>1, <1>3, <3>1, <3>3, <3>4, ConcatOnce
    <3>6. ToSet(accepted') = ToSet(accepted) \cup ToSet(f)
      BY <1>3, <3>1, <3>2, ConcatOnce
    <3> QED
      BY <2>5, <3>1, <3>5, <3>6
  <2> QED
    BY <2>1, <2>6, <2>7, <2>8 DEF msg
<1>15. CASE DmaReads
  <2>1. UNCHANGED <<buffer, accepted, pc, direct, rest, sends>>
    BY <1>15 DEF DmaReads, task
  <2>2. All' = All
    BY <1>15, ReadKeepsAll
  <2> QED
    BY <1>1, <2>1, <2>2 DEF FreshInvariant
<1>16. CASE TxContinues
  <2>1. busy /\ UNCHANGED <<accepted, pc, direct, rest, sends>>
    BY <1>16 DEF TxContinues, task
  <2>2. pc' \notin {"raise", "start"}
    BY <1>2, <2>1 DEF TaskHoldsBuffer
  <2>3. All' = All
    BY <1>16, ContinueKeepsAll
  <2> QED
    BY <1>1, <2>1, <2>2, <2>3 DEF FreshInvariant
<1>17. CASE TxEnds
  <2>1. /\ busy' = FALSE /\ busy /\ pos = len
        /\ UNCHANGED <<buffer, fifo, wire, accepted, pc, direct, rest, sends>>
    BY <1>17 DEF TxEnds, task
  <2>2. InFlight = <<>> /\ InFlight' = <<>>
    BY <2>1, InFlightFacts DEF InFlight
  <2>3. All' = All
    BY <2>1, <2>2 DEF All
  <2> QED
    BY <1>1, <2>1, <2>3 DEF FreshInvariant
<1>18. CASE RxError \/ UNCHANGED vars
  <2>1. UNCHANGED <<busy, buffer, len, pos, fifo, wire, accepted, pc, direct, rest, sends>>
    BY <1>18 DEF RxError, vars, driver, task
  <2>2. All' = All
    BY <2>1 DEF All, InFlight
  <2> QED
    BY <1>1, <2>1, <2>2 DEF FreshInvariant
<1>19. CASE DmaError
  BY <1>19 DEF DmaError
<1> QED
  BY <1>6, <1>7, <1>8, <1>9, <1>10, <1>11, <1>12, <1>13, <1>14, <1>15, <1>16, <1>17, <1>18,
     <1>19 DEF Next, Task, Interrupt

\* NothingLostNorTwice: a put that comes after the transmission ended loses no
\* byte and repeats none, for buffers, FIFOs and messages of every length.
THEOREM EveryByteOnce == Spec => []NothingLostNorTwice
<1>1. Init => FreshInvariant
  <2> SUFFICES ASSUME Init PROVE FreshInvariant
    OBVIOUS
  <2>1. /\ InFlight = <<>> /\ wire = <<>> /\ fifo = <<>> /\ accepted = <<>>
        /\ direct = <<>> /\ rest = <<>> /\ pc = "idle"
    BY DEF Init, InFlight
  <2>2. <<>> \o <<>> \o <<>> = <<>>
    BY ConcatEmptySeq, EmptySeq
  <2>3. All = <<>>
    BY <2>1, <2>2 DEF All
  <2> QED
    BY <2>1, <2>3, NothingOnce DEF FreshInvariant
<1>2. FreshInvariant => NothingLostNorTwice
  BY DEF FreshInvariant, NothingLostNorTwice, All
<1> QED
  BY <1>1, <1>2, TypeCorrect, FlagAlways, FreshPreserved, PTL DEF Spec
=============================================================================
