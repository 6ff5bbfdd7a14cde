-------------------------- MODULE ModbusSlaveProofs -------------------------
(***************************************************************************)
(* Theorems about ModbusSlave for every size of the bank and of the ring,  *)
(* every set of scripts and every number of writes and upsets.             *)
(***************************************************************************)
EXTENDS ModbusSlave, FiniteSetTheorems, SequenceTheorems, TLAPS

-----------------------------------------------------------------------------
(* The checks of validateRequest bound what the loops access.              *)

\* The numbers of a request.
LEMMA RequestParts ==
  ASSUME NEW q \in Requests
  PROVE  /\ q.start \in Nat /\ q.start < 65536
         /\ q.count \in Nat /\ q.count < 65536
         /\ q.fc \in Functions
BY DEF Requests, Words

\* n / 16 rounded up covers n.
LEMMA CeilDivCovers ==
  ASSUME NEW n \in Nat
  PROVE  CeilDiv(n, 16) \in Nat /\ n <= 16 * CeilDiv(n, 16)
BY DEF CeilDiv

\* A right request for coils reaches the register behind its whole ones at
\* most, and only if it does not begin with a register's first coil.
LEMMA CoilsFit ==
  ASSUME NEW q \in Requests, q.fc \in Coils, AddressFits(q), NEW i \in 0 .. q.count - 1
  PROVE  \/ (q.start + i) \div 16 < RegSize
         \/ q.start % 16 # 0 /\ (q.start + i) \div 16 = RegSize
<1>1. q.start \in Nat /\ q.count \in Nat /\ i \in Nat /\ i < q.count
  BY RequestParts
<1>2. RegSize \in Nat
  BY SlaveAssumption DEF SlaveAssumption, Words
<1>3. q.start \div 16 + CeilDiv(q.count, 16) <= RegSize
  BY DEF AddressFits, Coils, Blocks
<1>4. PICK c \in Nat : c = CeilDiv(q.count, 16) /\ q.count <= 16 * c
  BY <1>1, CeilDivCovers
<1>5. PICK s \in Nat, r \in 0 .. 15 : q.start = 16 * s + r /\ s = q.start \div 16 /\ r = q.start % 16
  <2>1. q.start \div 16 \in Nat /\ q.start % 16 \in 0 .. 15
    BY <1>1
  <2>2. q.start = (16 * (q.start \div 16)) + (q.start % 16)
    BY <1>1
  <2> QED  BY <2>1, <2>2
<1>6. s + c <= RegSize
  BY <1>3, <1>4, <1>5
<1>7. (q.start + i) \div 16 \in Nat /\ 16 * ((q.start + i) \div 16) <= q.start + i
  BY <1>1
<1>8. CASE r = 0
  BY <1>1, <1>2, <1>4, <1>5, <1>6, <1>7, <1>8
<1>9. CASE r # 0
  BY <1>1, <1>2, <1>4, <1>5, <1>6, <1>7, <1>9
<1> QED  BY <1>5, <1>8, <1>9

\* What a request found right accesses is in the bank, but for that register.
LEMMA VerdictBounds ==
  ASSUME NEW q \in Requests, Verdict(q) = "ok", NEW i \in 0 .. Steps(q) - 1
  PROVE  \/ Accessed(q, i) < RegSize
         \/ q.fc \in Coils /\ q.start % 16 # 0 /\ Accessed(q, i) = RegSize
<1>1. AddressFits(q) /\ q.fc # "unsupported"
  BY DEF Verdict
<1>2. q.start \in Nat /\ q.count \in Nat /\ RegSize \in Nat
  BY RequestParts, SlaveAssumption DEF SlaveAssumption, Words
<1>3. CASE q.fc \in Coils
  <2>1. i \in 0 .. q.count - 1 /\ Accessed(q, i) = (q.start + i) \div 16
    BY <1>3 DEF Steps, Accessed
  <2> QED  BY <1>1, <1>3, <2>1, CoilsFit
<1>4. CASE q.fc \in Blocks
  <2>1. i \in 0 .. q.count - 1 /\ Accessed(q, i) = q.start + i
    BY <1>4 DEF Steps, Accessed, Coils, Blocks
  <2>2. q.start + q.count <= RegSize
    BY <1>1, <1>4 DEF AddressFits, Coils, Blocks
  <2> QED  BY <1>2, <2>1, <2>2
<1>5. CASE q.fc = "write_coil"
  <2>1. i = 0 /\ Accessed(q, i) = q.start \div 16
    BY <1>2, <1>5 DEF Steps, Accessed, Coils, Blocks
  <2>2. CeilDiv(q.start, 16) < RegSize
    BY <1>1, <1>5 DEF AddressFits, Coils, Blocks
  <2>3. q.start \div 16 <= CeilDiv(q.start, 16)
    BY <1>2 DEF CeilDiv
  <2>4. q.start \div 16 \in Nat /\ CeilDiv(q.start, 16) \in Nat
    BY <1>2 DEF CeilDiv
  <2> QED  BY <1>2, <2>1, <2>2, <2>3, <2>4
<1>6. CASE q.fc = "write_reg"
  <2>1. i = 0 /\ Accessed(q, i) = q.start
    BY <1>2, <1>6 DEF Steps, Accessed, Coils, Blocks
  <2>2. q.start < RegSize
    BY <1>1, <1>6 DEF AddressFits, Coils, Blocks
  <2> QED  BY <2>1, <2>2
<1> QED  BY <1>1, <1>3, <1>4, <1>5, <1>6, RequestParts DEF Functions

-----------------------------------------------------------------------------
(* The invariant.                                                          *)

\* What the slave executes was asked for, and found right.
RunIsRight ==
  /\ spc \in {"run", "block"} => request \in 1 .. asked
  /\ spc = "run" => Verdict(script[request]) = "ok"

IInv == TypeOK /\ RunIsRight

\* Bytes, answers and executed requests of what was asked so far are such of
\* what will have been asked.
LEMMA AskedGrows ==
  ASSUME NEW a \in Nat, NEW b \in Nat, a <= b
  PROVE  /\ \A s \in Seq([of : 0 .. a, at : 0 .. MaxBuffer - 1]) :
              s \in Seq([of : 0 .. b, at : 0 .. MaxBuffer - 1])
         /\ \A s \in Seq([to : 0 .. a, as : Outcomes]) : s \in Seq([to : 0 .. b, as : Outcomes])
         /\ \A s \in Seq(1 .. a) : s \in Seq(1 .. b)
<1>1. 0 .. a \subseteq 0 .. b /\ 1 .. a \subseteq 1 .. b
  OBVIOUS
<1>2. [of : 0 .. a, at : 0 .. MaxBuffer - 1] \subseteq [of : 0 .. b, at : 0 .. MaxBuffer - 1]
  BY <1>1
<1>3. [to : 0 .. a, as : Outcomes] \subseteq [to : 0 .. b, as : Outcomes]
  BY <1>1
<1>4. ASSUME NEW S, NEW T, S \subseteq T, NEW s \in Seq(S) PROVE s \in Seq(T)
  <2>1. Len(s) \in Nat /\ s = [i \in 1 .. Len(s) |-> s[i]] /\ \A i \in 1 .. Len(s) : s[i] \in S
    BY <1>4, SeqDef, LenProperties, ElementOfSeq
  <2> QED  BY <1>4, <2>1
<1> QED  BY <1>1, <1>2, <1>3, <1>4, Zenon

\* The ring never holds as many bytes as its size.
LEMMA RingAddFits ==
  ASSUME NEW S, NEW s \in Seq(S), Len(s) < MaxBuffer, NEW byte \in S
  PROVE  RingAdd(s, byte) \in Seq(S) /\ Len(RingAdd(s, byte)) < MaxBuffer
<1>1. MaxBuffer \in Nat /\ MaxBuffer > 0
  BY SlaveAssumption DEF SlaveAssumption
<1>2. Append(s, byte) \in Seq(S) /\ Len(Append(s, byte)) = Len(s) + 1
  BY AppendProperties
<1>3. <<>> \in Seq(S) /\ Len(<<>>) = 0
  BY EmptySeq
<1>4. Len(s) \in Nat
  BY LenProperties
<1> QED  BY <1>1, <1>2, <1>3, <1>4 DEF RingAdd

\* What a byte that arrives changes keeps its type.
LEMMA ArrivalTypes ==
  ASSUME TypeOK, NEW byte \in Byte, Arrives(byte)
  PROVE  ring' \in Seq(Byte) /\ Len(ring') < MaxBuffer /\ t35' \in BOOLEAN /\ listening' \in BOOLEAN
<1>1. CASE listening
  <2>1. ring' = RingAdd(ring, byte) /\ t35' = TRUE /\ listening' = listening
    BY <1>1 DEF Arrives, RxCplt
  <2> QED  BY <2>1, RingAddFits DEF TypeOK
<1>2. CASE ~listening
  BY <1>2 DEF Arrives, line, TypeOK
<1> QED  BY <1>1, <1>2

\* The request that is sent is one of the script's.
LEMMA ScriptParts ==
  ASSUME TypeOK
  PROVE  /\ script \in Seq(Requests) /\ Len(script) \in Nat
         /\ asked \in Nat /\ asked <= Len(script)
         /\ \A q \in 1 .. asked : script[q] \in Requests
         /\ Size \in 0 .. MaxBuffer - 1
<1>1. script \in Seq(Requests) /\ Len(script) \in Nat /\ asked \in Nat /\ asked <= Len(script)
  BY SlaveAssumption, LenProperties DEF TypeOK, SlaveAssumption
<1>2. \A q \in 1 .. asked : script[q] \in Requests
  BY <1>1, ElementOfSeq
<1>3. Size \in 0 .. MaxBuffer - 1
  <2>1. MaxBuffer \in Nat /\ MinFrame \in Nat /\ MaxBuffer > MinFrame
    BY SlaveAssumption DEF SlaveAssumption
  <2>2. CASE asked = 0
    BY <2>1, <2>2 DEF Size
  <2>3. CASE asked # 0
    <3>1. asked \in 1 .. asked
      BY <1>1, <2>3
    <3>2. script[asked].size \in MinFrame .. MaxBuffer - 1
      BY <1>2, <3>1 DEF Requests
    <3> QED  BY <2>1, <2>3, <3>2 DEF Size
  <2> QED  BY <2>2, <2>3
<1> QED  BY <1>1, <1>2, <1>3

\* A frame that is taken is executed only if it is whole and right, and the
\* buffer then holds a request that was asked.
LEMMA TakeOutcomes ==
  ASSUME TypeOK, Take
  PROVE  /\ request' \in 0 .. asked /\ reply' \in Answers
         /\ spc' \in {"wait", "run", "send"}
         /\ spc' = "run" => request' \in 1 .. asked /\ Verdict(script[request']) = "ok"
<1>1. asked \in Nat /\ 0 \in 0 .. asked
  BY ScriptParts
<1>2. CASE TooShort(ring)
  BY <1>2 DEF Take, TypeOK
<1>3. CASE ~TooShort(ring)
  <2>1. ring[1] \in Byte
    <3>1. Len(ring) \in Nat /\ Len(ring) >= 2
      BY <1>3, SlaveAssumption, LenProperties DEF TooShort, SlaveAssumption, TypeOK
    <3> QED  BY <3>1, ElementOfSeq DEF TypeOK
  <2>2. ring[1].of \in 0 .. asked
    BY <2>1 DEF Byte
  <2>3. \A q \in 0 .. asked, as \in Outcomes : [to |-> q, as |-> as] \in Answers
    BY DEF Answers
  <2>4. \A q : Verdict(q) \in Outcomes
    BY DEF Verdict, Outcomes
  <2>5. PICK to \in Addressed(ring) :
          CASE to \notin {OwnId, ADDRESS_BROADCAST} ->
                 spc' = "wait" /\ UNCHANGED <<request, reply>>
            [] to \in {OwnId, ADDRESS_BROADCAST} /\ ~Whole(ring) -> Refuse(to, "crc", 0)
            [] OTHER ->
                 IF Verdict(script[ring[1].of]) = "ok"
                   THEN spc' = "run" /\ request' = ring[1].of /\ Reply(ring[1].of, "ok")
                   ELSE Refuse(to, Verdict(script[ring[1].of]), ring[1].of)
    BY <1>3 DEF Take
  <2>6. CASE to \notin {OwnId, ADDRESS_BROADCAST}
    <3>1. spc' = "wait" /\ UNCHANGED <<request, reply>>
      BY <2>5, <2>6
    <3> QED  BY <3>1 DEF TypeOK
  <2>7. CASE to \in {OwnId, ADDRESS_BROADCAST} /\ ~Whole(ring)
    <3>1. Refuse(to, "crc", 0)
      BY <2>5, <2>7
    <3> QED  BY <1>1, <2>3, <3>1 DEF Refuse, Reply, Outcomes, TypeOK
  <2>8. CASE to \in {OwnId, ADDRESS_BROADCAST} /\ Whole(ring)
    <3>1. ring[1].of \in 1 .. asked
      BY <1>1, <2>2, <2>8 DEF Whole
    <3>2. CASE Verdict(script[ring[1].of]) = "ok"
      <4>1. spc' = "run" /\ request' = ring[1].of /\ reply' = [to |-> ring[1].of, as |-> "ok"]
        BY <2>5, <2>8, <3>2 DEF Reply
      <4> QED  BY <2>2, <2>3, <3>1, <3>2, <4>1 DEF Outcomes
    <3>3. CASE Verdict(script[ring[1].of]) # "ok"
      <4>1. Refuse(to, Verdict(script[ring[1].of]), ring[1].of)
        BY <2>5, <2>8, <3>3
      <4> QED  BY <2>2, <2>3, <2>4, <4>1 DEF Refuse, Reply, TypeOK
    <3> QED  BY <3>2, <3>3
  <2> QED  BY <2>6, <2>7, <2>8
<1> QED  BY <1>2, <1>3

\* The types hold at the start.
LEMMA InitTypes == Init => TypeOK
<1> SUFFICES ASSUME Init PROVE TypeOK
  OBVIOUS
<1>1. \A S : <<>> \in Seq(S) /\ Len(<<>>) = 0
  BY EmptySeq
<1>2. MaxBuffer \in Nat /\ MaxBuffer > 0 /\ MaxUpsets \in Nat /\ Len(script) \in Nat
  BY SlaveAssumption, LenProperties DEF SlaveAssumption, Init
<1>3. script \in Scripts /\ asked \in 0 .. Len(script) /\ out \in 0 .. MaxBuffer - 1
  BY <1>2 DEF Init
<1>4. answers \in Seq(Answers) /\ done \in Seq(1 .. asked) /\ ring \in Seq(Byte) /\ Len(ring) < MaxBuffer
  BY <1>1, <1>2 DEF Init
<1>5. read \in Seq(0 .. writes) /\ Len(read) <= 2
  BY <1>1 DEF Init
<1>6. request \in 0 .. asked /\ k \in Words /\ upsets \in 0 .. MaxUpsets
  BY <1>2 DEF Init, Words
<1>7. reply \in Answers
  BY DEF Init, Answers, Outcomes
<1>8. writes \in Nat /\ mine \in 0 .. writes /\ times \in [Times -> 0 .. writes]
  BY DEF Init
<1>9. /\ open \in BOOLEAN /\ t35 \in BOOLEAN /\ listening \in BOOLEAN /\ busy \in BOOLEAN
      /\ overlaps = {}
  BY DEF Init
<1>10. spc \in {"wait", "take", "run", "block", "send", "started", "txwait", "tc"}
  BY DEF Init
<1> QED  BY <1>3, <1>4, <1>5, <1>6, <1>7, <1>8, <1>9, <1>10 DEF TypeOK

\* What was written so far is among what will have been written.
LEMMA WritesGrow ==
  ASSUME TypeOK, NEW w \in Nat, writes <= w
  PROVE  /\ times \in [Times -> 0 .. w] /\ read \in Seq(0 .. w) /\ Len(read) <= 2
         /\ overlaps \subseteq (0 .. w) \X (0 .. w)
<1>1. writes \in Nat /\ 0 .. writes \subseteq 0 .. w
  BY DEF TypeOK
<1>2. times \in [Times -> 0 .. w]
  BY <1>1 DEF TypeOK
<1>3. read \in Seq(0 .. w) /\ Len(read) <= 2
  <2>1. read \in Seq(0 .. writes) /\ Len(read) <= 2
    BY DEF TypeOK
  <2>2. Len(read) \in Nat /\ read = [i \in 1 .. Len(read) |-> read[i]] /\ \A i \in 1 .. Len(read) : read[i] \in 0 .. writes
    BY <2>1, LenProperties, ElementOfSeq
  <2> QED  BY <1>1, <2>1, <2>2, SeqDef
<1>4. overlaps \subseteq (0 .. w) \X (0 .. w)
  BY <1>1 DEF TypeOK
<1> QED  BY <1>2, <1>3, <1>4

\* The register of a block that is written next keeps its 16 bits.
LEMMA NextWord ==
  ASSUME IInv, WriteRegister
  PROVE  k' \in Words
<1>1. request \in 1 .. asked /\ TypeOK
  BY DEF IInv, RunIsRight, WriteRegister
<1>2. script[request].count \in Nat /\ script[request].count < 65536
  BY <1>1, ScriptParts, RequestParts
<1>3. k \in Words /\ k < script[request].count /\ k' = k + 1
  BY <1>1 DEF TypeOK, WriteRegister
<1> QED  BY <1>2, <1>3 DEF Words

\* No step breaks a type.
LEMMA NextTypes ==
  ASSUME IInv, [Next]_vars
  PROVE  TypeOK'
<1> USE DEF IInv
<1>1. /\ MaxBuffer \in Nat /\ MinFrame \in Nat /\ MinFrame >= 2 /\ MaxBuffer > MinFrame
      /\ MaxUpsets \in Nat
  BY SlaveAssumption DEF SlaveAssumption
<1>2. asked' = asked => Byte' = Byte /\ Answers' = Answers
  BY DEF Byte, Answers
<1> USE DEF TypeOK, master, line, slave, bank
<1>3. CASE Asks
  <2>1. asked' \in 0 .. Len(script') /\ asked <= asked' /\ asked' \in Nat /\ asked \in Nat
    BY <1>3, ScriptParts DEF Asks
  <2>2. /\ answers' \in Seq(Answers') /\ ring' \in Seq(Byte') /\ done' \in Seq(1 .. asked')
    BY <1>3, <2>1, AskedGrows DEF Asks, Byte, Answers
  <2>3. request' \in 0 .. asked' /\ reply' \in Answers'
    BY <1>3, <2>1 DEF Asks, Answers
  <2>4. open' \in BOOLEAN /\ out' \in 0 .. MaxBuffer - 1
    BY <1>1, <1>3 DEF Asks
  <2>5. upsets' \in 0 .. MaxUpsets
    BY <1>1, <1>3 DEF Asks, Upset
  <2> QED  BY <1>3, <2>1, <2>2, <2>3, <2>4, <2>5 DEF Asks
<1>4. CASE SendsByte
  <2>1. out' \in 0 .. MaxBuffer - 1
    BY <1>1, <1>4, ScriptParts DEF SendsByte
  <2>2. [of |-> asked, at |-> out'] \in Byte
    BY <2>1, ScriptParts DEF Byte
  <2>3. ring' \in Seq(Byte) /\ Len(ring') < MaxBuffer /\ t35' \in BOOLEAN /\ listening' \in BOOLEAN
    BY <1>4, <2>2, ArrivalTypes DEF SendsByte
  <2> QED  BY <1>2, <1>4, <2>1, <2>3 DEF SendsByte
<1>5. CASE Noise
  <2>1. [of |-> 0, at |-> 0] \in Byte
    BY <1>1, ScriptParts DEF Byte
  <2>2. ring' \in Seq(Byte) /\ Len(ring') < MaxBuffer /\ t35' \in BOOLEAN /\ listening' \in BOOLEAN
    BY <1>5, <2>1, ArrivalTypes DEF Noise
  <2>3. upsets' \in 0 .. MaxUpsets
    BY <1>1, <1>5 DEF Noise, Upset
  <2> QED  BY <1>2, <1>5, <2>2, <2>3 DEF Noise
<1>6. CASE GivesUp
  <2>1. upsets' \in 0 .. MaxUpsets
    BY <1>1, <1>6 DEF GivesUp, Upset
  <2> QED  BY <1>2, <1>6, <2>1 DEF GivesUp
<1>7. CASE T35Expires
  BY <1>2, <1>7 DEF T35Expires
<1>8. CASE Gap
  <2>1. upsets' \in 0 .. MaxUpsets
    BY <1>1, <1>8 DEF Gap, Upset
  <2> QED  BY <1>2, <1>8, <2>1 DEF Gap
<1>9. CASE Take
  <2>1. ring' \in Seq(Byte) /\ Len(ring') < MaxBuffer
    BY <1>1, <1>9, EmptySeq DEF Take, RingGetAllBytes
  <2>2. request' \in 0 .. asked /\ reply' \in Answers /\ spc' \in {"wait", "run", "send"}
    BY <1>9, TakeOutcomes
  <2> QED  BY <1>2, <1>9, <2>1, <2>2 DEF Take
<1>10. CASE Run
  <2>1. request \in 1 .. asked
    BY <1>10 DEF Run, RunIsRight
  <2>2. done' \in Seq(1 .. asked)
    BY <1>10, <2>1, AppendProperties DEF Run
  <2>3. writes \in Nat /\ writes' \in Nat /\ writes <= writes' /\ mine' \in 0 .. writes'
    BY <1>10 DEF Run
  <2>4. UNCHANGED <<times, overlaps, read>>
    BY <1>10 DEF Run
  <2>5. /\ times' \in [Times -> 0 .. writes'] /\ read' \in Seq(0 .. writes') /\ Len(read') <= 2
        /\ overlaps' \subseteq (0 .. writes') \X (0 .. writes')
    BY <2>3, <2>4, WritesGrow
  <2>6. k' \in Words /\ spc' \in {"block", "send"}
    BY <1>10 DEF Run, Words
  <2> QED  BY <1>2, <1>10, <2>2, <2>3, <2>5, <2>6 DEF Run
<1>11. CASE WriteRegister
  <2>1. k' \in Words
    BY <1>11, NextWord
  <2>2. times' \in [Times -> 0 .. writes]
    BY <1>11 DEF WriteRegister
  <2> QED  BY <1>2, <1>11, <2>1, <2>2 DEF WriteRegister
<1>12. CASE BlockEnds
  BY <1>2, <1>12 DEF BlockEnds
<1>13. CASE Send
  BY <1>2, <1>13 DEF Send
<1>14. CASE AwaitTxCplt
  BY <1>2, <1>14 DEF AwaitTxCplt
<1>15. CASE TxTimeout
  BY <1>2, <1>15 DEF TxTimeout
<1>16. CASE TransmissionOver
  BY <1>2, <1>16 DEF TransmissionOver
<1>17. CASE TxCplt
  <2>1. upsets' \in 0 .. MaxUpsets
    BY <1>1, <1>17 DEF TxCplt, Upset
  <2>2. answers' \in Seq(Answers)
    BY <1>17, AppendProperties DEF TxCplt
  <2> QED  BY <1>2, <1>17, <2>1, <2>2 DEF TxCplt
<1>18. CASE HostWrites
  <2>1. writes \in Nat /\ writes' \in Nat /\ writes' = writes + 1
    BY <1>18 DEF HostWrites
  <2>2. mine' = mine /\ mine' \in 0 .. writes' /\ times' \in [Times -> 0 .. writes']
    BY <1>18, <2>1 DEF HostWrites
  <2>3. /\ read \in Seq(0 .. writes') /\ Len(read) <= 2
        /\ overlaps \subseteq (0 .. writes') \X (0 .. writes')
    BY <2>1, WritesGrow
  <2>4. overlaps' \subseteq (0 .. writes') \X (0 .. writes')
    BY <1>18, <2>1, <2>2, <2>3 DEF HostWrites
  <2> QED  BY <1>2, <1>18, <2>1, <2>2, <2>3, <2>4 DEF HostWrites
<1>19. CASE StandbyReads
  <2>1. times[STATUS_POWER_OFF_TIME] \in 0 .. writes /\ times[STATUS_POWER_ON_TIME] \in 0 .. writes
    BY DEF Times
  <2>2. ASSUME Len(read) = 1 PROVE read' \in Seq(0 .. writes) /\ Len(read') <= 2
    <3>1. read' = Append(read, times[STATUS_POWER_ON_TIME])
      BY <1>19, <2>2 DEF StandbyReads
    <3>2. read \in Seq(0 .. writes)
      OBVIOUS
    <3>3. \A w \in 0 .. writes : Append(read, w) \in Seq(0 .. writes) /\ Len(Append(read, w)) = Len(read) + 1
      BY <3>2, AppendProperties
    <3>4. read' \in Seq(0 .. writes) /\ Len(read') = 1 + 1
      BY <2>1, <2>2, <3>1, <3>3, Zenon
    <3> QED  BY <3>4
  <2>3. ASSUME Len(read) # 1 PROVE read' \in Seq(0 .. writes) /\ Len(read') <= 2
    <3>1. read' = <<times[STATUS_POWER_OFF_TIME]>>
      BY <1>19, <2>3 DEF StandbyReads
    <3> QED  BY <2>1, <3>1
  <2>4. read' \in Seq(0 .. writes) /\ Len(read') <= 2
    BY <2>2, <2>3
  <2> QED  BY <1>2, <1>19, <2>4 DEF StandbyReads
<1>20. CASE Overrun
  <2>1. out' \in 0 .. MaxBuffer - 1
    <3>1. Size' = Size /\ Size \in 0 .. MaxBuffer - 1
      BY <1>20, ScriptParts DEF Overrun, Size
    <3> QED  BY <1>1, <1>20, <3>1 DEF Overrun
  <2>2. upsets' \in 0 .. MaxUpsets
    BY <1>1, <1>20 DEF Overrun, Upset
  <2> QED  BY <1>2, <1>20, <2>1, <2>2 DEF Overrun
<1>21. CASE UNCHANGED vars
  BY <1>2, <1>21 DEF vars
<1> QED  BY <1>3, <1>4, <1>5, <1>6, <1>7, <1>8, <1>9, <1>10, <1>11, <1>12, <1>13, <1>14, <1>15,
            <1>16, <1>17, <1>18, <1>19, <1>20, <1>21 DEF Next, Line, Timer, Task

\* Only Take sets spc to "run", and only Run, from there, to "block"; neither the
\* request nor the script changes while the slave stands at one of them.
LEMMA NextRunsRight ==
  ASSUME IInv, [Next]_vars
  PROVE  RunIsRight'
<1> USE DEF IInv, master, line, slave, bank
<1>0. asked \in Nat
  BY ScriptParts
<1>1. CASE Asks
  <2>1. asked' = asked + 1 /\ UNCHANGED <<script, spc, request>>
    BY <1>1 DEF Asks
  <2> QED  BY <1>0, <2>1 DEF RunIsRight
<1>2. CASE Take
  <2>1. /\ UNCHANGED <<script, asked>>
        /\ spc' \in {"wait", "run", "send"}
        /\ spc' = "run" => request' \in 1 .. asked /\ Verdict(script[request']) = "ok"
    BY <1>2, TakeOutcomes DEF Take
  <2> QED  BY <2>1 DEF RunIsRight
<1>3. CASE Run
  <2>1. spc = "run" /\ spc' \in {"block", "send"} /\ UNCHANGED <<script, asked, request>>
    BY <1>3 DEF Run
  <2> QED  BY <2>1 DEF RunIsRight
<1>4. CASE \/ SendsByte \/ Noise \/ Overrun \/ GivesUp \/ WriteRegister \/ HostWrites
           \/ StandbyReads \/ UNCHANGED vars
  <2>1. UNCHANGED <<script, asked, spc, request>>
    BY <1>4 DEF SendsByte, Noise, Overrun, GivesUp, WriteRegister, HostWrites, StandbyReads, vars
  <2> QED  BY <2>1 DEF RunIsRight
<1>5. CASE T35Expires \/ Gap \/ BlockEnds \/ Send \/ AwaitTxCplt \/ TxTimeout \/ TransmissionOver
  <2>1. spc' \notin {"run", "block"}
    BY <1>5 DEF T35Expires, Gap, BlockEnds, Send, AwaitTxCplt, TxTimeout, TransmissionOver
  <2> QED  BY <2>1 DEF RunIsRight
<1>6. CASE TxCplt
  <2>1. UNCHANGED <<script, asked, request>> /\ (spc' = spc \/ spc' = "tc")
    BY <1>6 DEF TxCplt
  <2> QED  BY <2>1 DEF RunIsRight
<1> QED  BY <1>1, <1>2, <1>3, <1>4, <1>5, <1>6 DEF Next, Line, Timer, Task

\* IInv is inductive.
LEMMA IInvHolds == Spec => []IInv
<1>1. Init => IInv
  BY InitTypes DEF IInv, Init, RunIsRight
<1>2. IInv /\ [Next]_vars => IInv'
  BY NextTypes, NextRunsRight DEF IInv
<1> QED  BY <1>1, <1>2, PTL DEF Spec

\* Every variable keeps its type; with it, that the ring's 8-bit count stays
\* below the ring's size.
THEOREM TypeCorrect == Spec => []TypeOK
<1>1. IInv => TypeOK
  BY DEF IInv
<1> QED  BY <1>1, IInvHolds, PTL

\* Whatever the master asks, and whatever the line makes of it, process_FC*
\* accesses the bank only, but for the register behind it that a run of coils
\* may reach.
THEOREM AccessesStayInBank == Spec => []BankBound
<1>1. IInv => BankBound
  <2> SUFFICES ASSUME IInv, spc = "run" PROVE BankBound
    BY DEF BankBound
  <2>1. script[request] \in Requests /\ Verdict(script[request]) = "ok"
    BY ScriptParts DEF IInv, RunIsRight
  <2> QED  BY <2>1, VerdictBounds DEF BankBound
<1> QED  BY <1>1, IInvHolds, PTL
-----------------------------------------------------------------------------
(* The two times of the standby window.                                    *)

\* The block being written has set the time to switch off and sets the time to
\* switch on next.
Halfway ==
  /\ spc = "block"
  /\ k > 0
  /\ script[request].start + k = STATUS_POWER_ON_TIME

\* The times are one pair, or parted by a write of the 4G thread within the
\* slave's; halfway this holds of the time that is set and the one that is to
\* come.
PairInvariant ==
  LET off == times[STATUS_POWER_OFF_TIME]
      on  == times[STATUS_POWER_ON_TIME]
  IN  /\ spc = "block" => script[request].fc = "write_regs"
      /\ Halfway => off = mine \/ <<off, mine>> \in overlaps
      /\ ~Halfway => off = on \/ <<off, on>> \in overlaps

\* The time to switch off that gps_standby has read is no newer than the time
\* to switch on that it may still read.
ReadInvariant ==
  LET on == times[STATUS_POWER_ON_TIME]
  IN  /\ Len(read) = 1 =>
           /\ read[1] <= on \/ <<read[1], on>> \in overlaps
           /\ spc = "block" => read[1] <= mine
      /\ Len(read) = 2 => read[1] <= read[2] \/ read \in overlaps

\* A block that sets the second time has set the first before it, and does not
\* end between the two.
LEMMA BlockSetsBoth ==
  ASSUME TypeOK, NEW q \in 1 .. asked, script[q].fc = "write_regs", NEW i \in Nat
  PROVE  /\ Accessed(script[q], i) = script[q].start + i
         /\ i < script[q].count /\ script[q].start + i = STATUS_POWER_ON_TIME => i > 0
         /\ i > 0 /\ script[q].start + i = STATUS_POWER_ON_TIME => i # script[q].count
<1> DEFINE s == script[q].start
           n == script[q].count
<1>1. s \in Nat /\ n \in Nat
  BY ScriptParts, RequestParts
<1>2. Steps(script[q]) = n /\ \A j \in Nat : Accessed(script[q], j) = s + j
  BY DEF Steps, Accessed, Coils, Blocks
<1>3. TimesOf(script[q]) \in {{}, Times}
  <2>1. q \in 1 .. Len(script) /\ script \in Scripts
    BY ScriptParts DEF TypeOK
  <2> QED  BY <2>1, PairAssumption DEF PairAssumption
<1>4. \A t \in Times : t \in TimesOf(script[q]) <=> s <= t /\ t < s + n
  <2> HIDE DEF s, n
  <2>1. ASSUME NEW t \in Times, s <= t, t < s + n PROVE t \in TimesOf(script[q])
    <3>1. t - s \in 0 .. n - 1 /\ t - s \in Nat /\ s + (t - s) = t
      BY <1>1, <2>1 DEF Times, STATUS_POWER_OFF_TIME, STATUS_POWER_ON_TIME
    <3>2. Accessed(script[q], t - s) = t
      BY <1>2, <3>1
    <3> QED  BY <1>2, <2>1, <3>1, <3>2 DEF TimesOf
  <2>2. ASSUME NEW t \in Times, t \in TimesOf(script[q]) PROVE s <= t /\ t < s + n
    <3>1. PICK j \in 0 .. n - 1 : t = Accessed(script[q], j)
      BY <1>2, <2>2 DEF TimesOf
    <3>2. j \in Nat /\ j < n
      BY <1>1, <3>1
    <3> QED  BY <1>1, <1>2, <3>1, <3>2
  <2> QED  BY <2>1, <2>2
<1>5. /\ STATUS_POWER_OFF_TIME \in Times /\ STATUS_POWER_ON_TIME \in Times
      /\ STATUS_POWER_OFF_TIME \in Nat /\ STATUS_POWER_ON_TIME = STATUS_POWER_OFF_TIME + 1
  BY DEF Times, STATUS_POWER_OFF_TIME, STATUS_POWER_ON_TIME
<1>6. STATUS_POWER_OFF_TIME \in TimesOf(script[q]) <=> STATUS_POWER_ON_TIME \in TimesOf(script[q])
  BY <1>3, <1>5
<1> HIDE DEF s, n
<1>7. /\ s <= STATUS_POWER_OFF_TIME /\ STATUS_POWER_OFF_TIME < s + n
         <=> s <= STATUS_POWER_ON_TIME /\ STATUS_POWER_ON_TIME < s + n
  BY <1>4, <1>5, <1>6
<1>8. i < n /\ s + i = STATUS_POWER_ON_TIME => i > 0
  BY <1>1, <1>5, <1>7
<1>9. i > 0 /\ s + i = STATUS_POWER_ON_TIME => i # n
  BY <1>1, <1>5, <1>7
<1>10. Accessed(script[q], i) = s + i
  BY <1>2
<1> QED  BY <1>8, <1>9, <1>10 DEF s, n

\* What the writes and the reads are counted by.
LEMMA CountParts ==
  ASSUME TypeOK
  PROVE  /\ writes \in Nat /\ mine \in Nat /\ mine <= writes
         /\ times[STATUS_POWER_OFF_TIME] \in 0 .. writes
         /\ times[STATUS_POWER_ON_TIME] \in 0 .. writes
         /\ Len(read) = 1 => read = <<read[1]>> /\ read[1] \in 0 .. writes
<1>1. writes \in Nat /\ mine \in Nat /\ mine <= writes
  BY DEF TypeOK
<1>2. times[STATUS_POWER_OFF_TIME] \in 0 .. writes /\ times[STATUS_POWER_ON_TIME] \in 0 .. writes
  BY DEF TypeOK, Times
<1>3. ASSUME Len(read) = 1 PROVE read = <<read[1]>> /\ read[1] \in 0 .. writes
  <2>1. read \in Seq(0 .. writes)
    BY DEF TypeOK
  <2>2. 1 \in 1 .. Len(read)
    BY <1>3
  <2>3. read[1] \in 0 .. writes
    BY <2>1, <2>2, ElementOfSeq
  <2>4. <<read[1]>> \in Seq(0 .. writes) /\ Len(<<read[1]>>) = 1
    BY <2>3
  <2>5. \A i \in 1 .. Len(read) : read[i] = <<read[1]>>[i]
    BY <1>3
  <2> QED  BY <1>3, <2>1, <2>3, <2>4, <2>5, SeqEqual
<1> QED  BY <1>1, <1>2, <1>3

\* The second time read behind the first.
LEMMA PairAppended ==
  ASSUME NEW r \in Nat, NEW w \in Nat
  PROVE  Append(<<r>>, w) = <<r, w>>
<1>1. <<r>> \in Seq(Nat) /\ Len(<<r>>) = 1 /\ <<r>>[1] = r
  OBVIOUS
<1>2. <<r, w>> \in Seq(Nat) /\ Len(<<r, w>>) = 2 /\ <<r, w>>[1] = r /\ <<r, w>>[2] = w
  OBVIOUS
<1> DEFINE s == <<r>>
           t == Append(s, w)
<1>3. t \in Seq(Nat) /\ Len(t) = Len(s) + 1 /\ (\A i \in 1 .. Len(s) : t[i] = s[i]) /\ t[Len(s) + 1] = w
  <2> HIDE DEF s
  <2> QED  BY <1>1, AppendProperties DEF s
<1>4. Len(t) = 2 /\ t[1] = r /\ t[2] = w
  <2> HIDE DEF t
  <2> QED  BY <1>1, <1>3
<1>5. \A i \in 1 .. Len(t) : t[i] = <<r, w>>[i]
  <2> HIDE DEF t
  <2> QED  BY <1>2, <1>4
<1> QED  BY <1>2, <1>3, <1>4, <1>5, SeqEqual, Zenon

\* What is left alone keeps both invariants.
LEMMA PairUntouched ==
  ASSUME TypeOK, PairInvariant, ReadInvariant, spc # "block",
         UNCHANGED <<times, mine, overlaps, read>>, spc' # "block"
  PROVE  PairInvariant' /\ ReadInvariant'
<1>1. ~Halfway /\ ~Halfway'
  BY DEF Halfway
<1> QED  BY <1>1 DEF PairInvariant, ReadInvariant

\* A slave's write, a host's, one within the other, and a read between them keep
\* the pairs.
LEMMA NextPairs ==
  ASSUME IInv, PairInvariant, ReadInvariant, [Next]_vars
  PROVE  PairInvariant' /\ ReadInvariant'
<1> DEFINE off == times[STATUS_POWER_OFF_TIME]
           on  == times[STATUS_POWER_ON_TIME]
<1> USE DEF master, line, slave, bank
<1>0. TypeOK /\ RunIsRight /\ asked \in Nat
  BY ScriptParts DEF IInv
<1>1. /\ writes \in Nat /\ mine \in Nat /\ mine <= writes
      /\ off \in 0 .. writes /\ on \in 0 .. writes
      /\ Len(read) = 1 => read = <<read[1]>> /\ read[1] \in 0 .. writes
  BY <1>0, CountParts
<1>2. /\ spc = "block" => script[request].fc = "write_regs"
      /\ Halfway => off = mine \/ <<off, mine>> \in overlaps
      /\ ~Halfway => off = on \/ <<off, on>> \in overlaps
  BY DEF PairInvariant
<1>3. /\ Len(read) = 1 => read[1] <= on \/ <<read[1], on>> \in overlaps
      /\ Len(read) = 1 /\ spc = "block" => read[1] <= mine
      /\ Len(read) = 2 => read[1] <= read[2] \/ read \in overlaps
  BY DEF ReadInvariant
<1>4. /\ STATUS_POWER_OFF_TIME \in Times /\ STATUS_POWER_ON_TIME \in Times
      /\ STATUS_POWER_OFF_TIME \in Nat /\ STATUS_POWER_ON_TIME = STATUS_POWER_OFF_TIME + 1
  BY DEF Times, STATUS_POWER_OFF_TIME, STATUS_POWER_ON_TIME
<1>5. CASE Asks \/ SendsByte \/ Noise \/ Overrun \/ GivesUp \/ UNCHANGED vars
  <2>1. UNCHANGED <<script, spc, request, k, times, mine, overlaps, read>>
    BY <1>5 DEF Asks, SendsByte, Noise, Overrun, GivesUp, vars
  <2> QED  BY <2>1 DEF PairInvariant, ReadInvariant, Halfway
<1>6. CASE T35Expires \/ Gap \/ Take \/ Send \/ AwaitTxCplt \/ TxTimeout \/ TransmissionOver
  <2>1. spc # "block" /\ UNCHANGED <<times, mine, overlaps, read>>
    BY <1>6 DEF T35Expires, Gap, Take, Send, AwaitTxCplt, TxTimeout, TransmissionOver
  <2>2. spc' # "block"
    <3>1. CASE Take
      BY <1>0, <3>1, TakeOutcomes
    <3>2. CASE ~Take
      BY <1>6, <3>2 DEF T35Expires, Gap, Send, AwaitTxCplt, TxTimeout, TransmissionOver
    <3> QED  BY <3>1, <3>2
  <2> QED  BY <1>0, <2>1, <2>2, PairUntouched
<1>7. CASE TxCplt
  <2>1. UNCHANGED <<script, request, k, times, mine, overlaps, read>>
    BY <1>7 DEF TxCplt
  <2>2. spc' = spc \/ (spc # "block" /\ spc' # "block")
    BY <1>7 DEF TxCplt
  <2> QED  BY <1>0, <2>1, <2>2, PairUntouched DEF PairInvariant, ReadInvariant, Halfway
<1>8. CASE Run
  <2>1. /\ spc = "run" /\ k' = 0 /\ UNCHANGED <<script, request, times, overlaps, read>>
        /\ spc' = IF script[request].fc = "write_regs" THEN "block" ELSE "send"
    BY <1>8 DEF Run
  <2>2. spc' = "block" => mine' = writes + 1
    BY <1>8 DEF Run
  <2>3. ~Halfway /\ ~Halfway'
    BY <2>1 DEF Halfway
  <2>4. PairInvariant'
    BY <1>2, <2>1, <2>3 DEF PairInvariant
  <2>5. Len(read) = 1 /\ spc' = "block" => read[1] <= mine'
    BY <1>1, <2>2
  <2>6. ReadInvariant'
    BY <1>3, <2>1, <2>5 DEF ReadInvariant
  <2> QED  BY <2>4, <2>6
<1>9. CASE WriteRegister
  <2> DEFINE start == script[request].start
             count == script[request].count
  <2>1. /\ spc = "block" /\ k < count /\ k' = k + 1
        /\ UNCHANGED <<script, spc, request, mine, overlaps, read>>
    BY <1>9 DEF WriteRegister
  <2>2. request \in 1 .. asked /\ script[request].fc = "write_regs" /\ k \in Nat
    BY <1>0, <1>2, <2>1 DEF RunIsRight, TypeOK, Words
  <2>3. start \in Nat /\ count \in Nat
    BY <1>0, <2>2, ScriptParts, RequestParts
  <2>4. Accessed(script[request], k) = start + k /\ (start + k = STATUS_POWER_ON_TIME => k > 0)
    BY <1>0, <2>1, <2>2, BlockSetsBoth
  <2>5. times' = IF start + k \in Times THEN [times EXCEPT ![start + k] = mine] ELSE times
    BY <1>9, <2>4 DEF WriteRegister
  <2>6. times \in [Times -> 0 .. writes]
    BY <1>0 DEF TypeOK
  <2>6a. Halfway <=> k > 0 /\ start + k = STATUS_POWER_ON_TIME
    BY <2>1 DEF Halfway
  <2>6b. Halfway' <=> k' > 0 /\ start + k' = STATUS_POWER_ON_TIME
    BY <2>1 DEF Halfway
  <2> HIDE DEF start, count
  <2>7. CASE start + k = STATUS_POWER_OFF_TIME
    <3>1. times'[STATUS_POWER_OFF_TIME] = mine /\ times'[STATUS_POWER_ON_TIME] = on
      BY <1>4, <2>5, <2>6, <2>7
    <3>2. Halfway'
      BY <1>4, <2>1, <2>2, <2>3, <2>6b, <2>7
    <3> QED  BY <1>2, <1>3, <2>1, <3>1, <3>2 DEF PairInvariant, ReadInvariant
  <2>8. CASE start + k = STATUS_POWER_ON_TIME
    <3>1. times'[STATUS_POWER_OFF_TIME] = off /\ times'[STATUS_POWER_ON_TIME] = mine
      BY <1>4, <2>5, <2>6, <2>8
    <3>2. Halfway /\ ~Halfway'
      BY <1>4, <2>1, <2>2, <2>3, <2>4, <2>6a, <2>6b, <2>8
    <3>3. off = mine \/ <<off, mine>> \in overlaps
      BY <1>2, <3>2
    <3>4. PairInvariant'
      BY <1>2, <2>1, <3>1, <3>2, <3>3 DEF PairInvariant
    <3>5. ReadInvariant'
      BY <1>3, <2>1, <3>1 DEF ReadInvariant
    <3> QED  BY <3>4, <3>5
  <2>9. CASE start + k \notin Times
    <3>1. times' = times
      BY <2>5, <2>9
    <3>2. ~Halfway /\ ~Halfway'
      BY <1>4, <2>1, <2>2, <2>3, <2>6a, <2>6b, <2>9
    <3> QED  BY <1>2, <1>3, <2>1, <3>1, <3>2 DEF PairInvariant, ReadInvariant
  <2> QED  BY <2>7, <2>8, <2>9 DEF Times
<1>10. CASE BlockEnds
  <2>1. /\ spc = "block" /\ k = script[request].count /\ spc' = "send"
        /\ UNCHANGED <<times, mine, overlaps, read>>
    BY <1>10 DEF BlockEnds
  <2>2. request \in 1 .. asked /\ script[request].fc = "write_regs" /\ k \in Nat
    BY <1>0, <1>2, <2>1 DEF RunIsRight, TypeOK, Words
  <2>3. ~Halfway /\ ~Halfway'
    BY <1>0, <2>1, <2>2, BlockSetsBoth DEF Halfway
  <2> QED  BY <1>2, <1>3, <2>1, <2>3 DEF PairInvariant, ReadInvariant
<1>11. CASE HostWrites
  <2>1. /\ writes' = writes + 1 /\ times' = [reg \in Times |-> writes + 1]
        /\ UNCHANGED <<script, spc, request, k, mine, read>>
    BY <1>11 DEF HostWrites
  <2>2. overlaps' = IF spc = "block" THEN overlaps \cup {<<writes + 1, mine>>} ELSE overlaps
    BY <1>11, <2>1 DEF HostWrites
  <2>3. times'[STATUS_POWER_OFF_TIME] = writes + 1 /\ times'[STATUS_POWER_ON_TIME] = writes + 1
    BY <1>4, <2>1
  <2>4. Halfway' => <<writes + 1, mine>> \in overlaps'
    BY <2>1, <2>2 DEF Halfway
  <2>5. PairInvariant'
    BY <1>2, <2>1, <2>3, <2>4 DEF PairInvariant
  <2>6. Len(read) = 1 => read[1] <= writes + 1
    BY <1>1
  <2>7. ReadInvariant'
    BY <1>3, <2>1, <2>2, <2>3, <2>6 DEF ReadInvariant
  <2> QED  BY <2>5, <2>7
<1>12. CASE StandbyReads
  <2>1. spc # "block" /\ UNCHANGED <<script, spc, request, k, times, mine, overlaps>>
    BY <1>12 DEF StandbyReads
  <2>2. ~Halfway /\ ~Halfway'
    BY <2>1 DEF Halfway
  <2>3. PairInvariant'
    BY <1>2, <2>1, <2>2 DEF PairInvariant
  <2>4. CASE Len(read) = 1
    <3>1. read' = Append(read, on) /\ read = <<read[1]>>
      BY <1>1, <1>12, <2>4 DEF StandbyReads
    <3>2. read' = <<read[1], on>>
      <4>1. read[1] \in Nat /\ on \in Nat
        BY <1>1, <2>4
      <4> QED  BY <3>1, <4>1, PairAppended, Zenon
    <3>3. Len(read') = 2 /\ read'[1] = read[1] /\ read'[2] = on
      BY <3>2
    <3> QED  BY <1>3, <2>1, <2>3, <2>4, <3>2, <3>3 DEF ReadInvariant
  <2>5. CASE Len(read) # 1
    <3>1. read' = <<off>>
      BY <1>12, <2>5 DEF StandbyReads
    <3>2. Len(read') = 1 /\ read'[1] = off
      BY <3>1
    <3>3. off <= on \/ <<off, on>> \in overlaps
      BY <1>1, <1>2, <2>2
    <3> QED  BY <2>1, <2>3, <3>2, <3>3 DEF ReadInvariant
  <2> QED  BY <2>4, <2>5
<1> QED  BY <1>5, <1>6, <1>7, <1>8, <1>9, <1>10, <1>11, <1>12 DEF Next, Line, Timer, Task

\* For every bank, script and number of writes: the halves of a pair of times
\* part only by a write of the 4G thread within the slave's, and gps_standby
\* reads at worst an older time to switch off with a newer one to switch on.
THEOREM PairsHold == Spec => []TimesStayPaired
<1>1. Init => PairInvariant /\ ReadInvariant
  <2> SUFFICES ASSUME Init PROVE PairInvariant /\ ReadInvariant
    OBVIOUS
  <2>1. spc = "wait" /\ Len(read) = 0
    BY DEF Init
  <2>2. times[STATUS_POWER_OFF_TIME] = times[STATUS_POWER_ON_TIME]
    BY DEF Init, Times
  <2> QED  BY <2>1, <2>2 DEF PairInvariant, ReadInvariant, Halfway
<1>2. PairInvariant /\ ReadInvariant => TimesStayPaired
  BY DEF PairInvariant, ReadInvariant, Halfway, TimesStayPaired
<1> QED  BY <1>1, <1>2, IInvHolds, NextPairs, PTL DEF Spec
-----------------------------------------------------------------------------
(* What an upset costs.                                                    *)

\* The last byte in the ring is noise or one of the request sent last.
LastIsLatest == ring # <<>> => ring[Len(ring)].of \in {0, asked}

\* What always holds of line and transmission: bytes of an earlier request stand last
\* in the ring only when T35 does not run; and when they are taken, the master that
\* sends meanwhile had asked while they waited for it.
LineInvariant ==
  /\ out <= Size
  /\ open => asked > 0
  /\ busy => spc \in {"started", "txwait", "tc"}
  /\ t35 => LastIsLatest
  /\ spc = "take" => LastIsLatest \/ open \/ Broadcast(script[asked]) \/ out = Size

\* The slave will work on this request and not answer it, and wait for the end of
\* that transmission.
Mute(q) == ~Broadcast(q) /\ Verdict(q) = "ok" /\ ~(AnswerSize(q) > 0)

\* A frame stands in the ring that is taken and not answered.
MuteFrame == ring # <<>> /\ Whole(ring) /\ Mute(script[ring[1].of])

\* All of the request is on the line.
Sent == out = Size

\* The master waits, and not for a transmission: it will speak only when the slave
\* is at rest.
Patient == open /\ ~busy

\* As long as nothing more is received, the slave comes to rest without waiting for
\* a transmission that was not started.
ComesToRest ==
  /\ t35 \/ spc = "take" => ~MuteFrame
  /\ ~t35 /\ spc \in {"run", "block", "send"} /\ reply.as = "ok" =>
       request > 0 /\ (Broadcast(script[request]) \/ AnswerSize(script[request]) > 0)
  /\ ~t35 /\ spc \in {"started", "txwait"} => busy

\* No byte will be left in the ring.
RingClears == ring = <<>> \/ spc = "take" \/ (t35 /\ spc \in {"wait", "tc"})

\* The request comes in and will be announced when it is complete.
Listening == listening /\ ~Sent /\ spc \in {"wait", "tc"} /\ (out = 0 => ~t35)

\* The first n bytes of request q, and the answer it deserves.
Bytes(q, n) == [i \in 1 .. n |-> [of |-> q, at |-> i]]
RightAnswer(q) == [to |-> q, as |-> Verdict(script[q])]

\* The request is, in this order, received, taken, worked on, and answered.
UnderWay ==
  \/ t35 /\ spc \in {"wait", "tc"} /\ ~busy /\ ring = Bytes(asked, Size)
  \/ spc = "take" /\ ring = Bytes(asked, Size)
  \/ spc \in {"run", "block", "send"} /\ request = asked /\ reply = RightAnswer(asked)
  \/ busy /\ reply = RightAnswer(asked)

\* Without another upset no further request is spoiled.
InStep ==
  \/ /\ Listening /\ ~busy /\ ring = Bytes(asked, out)
     /\ open \/ Broadcast(script[asked])
  \/ /\ Sent /\ RingClears /\ (Patient \/ ComesToRest)
     /\ open /\ Deserves(asked) => UnderWay

\* Without another upset at most one more is spoiled: the one being sent, or the
\* one that comes behind bytes left in the ring.
OneAtRisk ==
  \/ Listening /\ (Patient \/ ~Mute(script[asked]))
  \/ Sent /\ (Patient \/ ComesToRest) /\ (RingClears \/ ~open)

\* What UpsetsSpoilFew counts.
Spoiled == {q \in Settled : Deserves(q) /\ ~RightlyAnswered(q)}

\* Two requests are never more at risk.
UpsetsPay ==
  \/ Cardinality(Spoiled) + 2 <= 2 * upsets
  \/ Cardinality(Spoiled) + 1 <= 2 * upsets /\ OneAtRisk
  \/ Cardinality(Spoiled) <= 2 * upsets /\ InStep

\* The size of an answer is a number.
LEMMA AnswerSizes ==
  ASSUME NEW q \in Requests
  PROVE  AnswerSize(q) \in Nat
<1>1. q.count \in Nat
  BY RequestParts
<1>2. \A n \in Nat : n % 256 \in Nat
  OBVIOUS
<1>3. 3 + CeilDiv(q.count, 8) + 2 \in Nat /\ 3 + 2 * q.count + 2 \in Nat
  BY <1>1 DEF CeilDiv
<1> QED  BY <1>2, <1>3 DEF AnswerSize

\* What the ring holds after another byte.
LEMMA RingAddLast ==
  ASSUME NEW S, NEW s \in Seq(S), NEW b \in S
  PROVE  \/ RingAdd(s, b) = <<>>
         \/ RingAdd(s, b) # <<>> /\ RingAdd(s, b)[Len(RingAdd(s, b))] = b
<1>1. Append(s, b) # <<>> /\ Len(Append(s, b)) = Len(s) + 1 /\ Append(s, b)[Len(s) + 1] = b
  BY AppendProperties, EmptySeq, LenProperties
<1> QED  BY <1>1 DEF RingAdd

\* The next byte of a request behind those before it.
LEMMA BytesGrow ==
  ASSUME NEW q \in Nat, NEW n \in Nat, n + 1 < MaxBuffer
  PROVE  RingAdd(Bytes(q, n), [of |-> q, at |-> n + 1]) = Bytes(q, n + 1)
<1> DEFINE B == [of : Nat, at : Nat]
<1>1. Bytes(q, n) \in Seq(B) /\ Bytes(q, n + 1) \in Seq(B)
  BY DEF Bytes
<1>2. Len(Bytes(q, n)) = n /\ Len(Bytes(q, n + 1)) = n + 1
  BY DEF Bytes
<1>3. MaxBuffer \in Nat
  BY SlaveAssumption DEF SlaveAssumption
<1>4. RingAdd(Bytes(q, n), [of |-> q, at |-> n + 1]) = Append(Bytes(q, n), [of |-> q, at |-> n + 1])
  BY <1>2, <1>3 DEF RingAdd
<1> DEFINE a == Append(Bytes(q, n), [of |-> q, at |-> n + 1])
<1>5. [of |-> q, at |-> n + 1] \in B
  OBVIOUS
<1>6. a \in Seq(B) /\ Len(a) = n + 1 /\ a[n + 1] = [of |-> q, at |-> n + 1]
      /\ \A i \in 1 .. n : a[i] = Bytes(q, n)[i]
  BY <1>1, <1>2, <1>5, AppendProperties
<1>7. \A i \in 1 .. n : Bytes(q, n)[i] = [of |-> q, at |-> i]
  BY DEF Bytes
<1>8. \A i \in 1 .. n + 1 : Bytes(q, n + 1)[i] = [of |-> q, at |-> i]
  BY DEF Bytes
<1> HIDE DEF a
<1>9. ASSUME NEW i \in 1 .. n + 1 PROVE a[i] = Bytes(q, n + 1)[i]
  <2>1. Bytes(q, n + 1)[i] = [of |-> q, at |-> i]
    BY <1>8
  <2>2. i \in 1 .. n \/ i = n + 1
    OBVIOUS
  <2>3. CASE i \in 1 .. n
    BY <1>6, <1>7, <2>1, <2>3
  <2> QED  BY <1>6, <2>1, <2>2, <2>3
<1>10. a = Bytes(q, n + 1)
  BY <1>1, <1>2, <1>6, <1>9, SeqEqual
<1> QED  BY <1>4, <1>10 DEF a

\* A request of which all bytes stand in the ring is whole.
LEMMA BytesAreWhole ==
  ASSUME TypeOK, asked > 0, ring = Bytes(asked, Size)
  PROVE  /\ ring # <<>> /\ Whole(ring) /\ ring[1].of = asked /\ ring[1].at = 1
         /\ ~TooShort(ring)
<1>1. asked \in 1 .. asked /\ script[asked] \in Requests
  BY ScriptParts
<1>2. Size = script[asked].size /\ Size \in Nat /\ Size >= MinFrame /\ MinFrame >= 2 /\ MinFrame \in Nat
  BY <1>1, ScriptParts, SlaveAssumption DEF SlaveAssumption, Requests, Size
<1>3. Len(ring) = Size /\ \A i \in 1 .. Size : ring[i] = [of |-> asked, at |-> i]
  BY <1>2 DEF Bytes
<1>4. ring[1] = [of |-> asked, at |-> 1]
  BY <1>2, <1>3
<1>5. ring # <<>>
  BY <1>2, <1>3, EmptySeq
<1>6. ring[1].of = asked /\ ring[1].at = 1
  BY <1>4
<1>7. \A i \in 1 .. Len(ring) : ring[i].of = asked /\ ring[i].at = i
  BY <1>3
<1>8. Whole(ring)
  BY <1>2, <1>3, <1>6, <1>7 DEF Whole
<1>9. ~TooShort(ring)
  BY <1>2, <1>3 DEF TooShort
<1> QED  BY <1>5, <1>6, <1>8, <1>9

\* The number of bytes of a request depends on the script and its place there.
LEMMA SizeStays ==
  ASSUME script' = script, asked' = asked
  PROVE  Size' = Size
BY DEF Size

\* The byte that arrives becomes the last in the ring, or nothing arrives.
LEMMA ArrivalIsLast ==
  ASSUME TypeOK, NEW byte \in Byte, byte.of \in {0, asked}, Arrives(byte), asked' = asked
  PROVE  LastIsLatest' \/ (~listening /\ UNCHANGED line)
<1>1. CASE listening
  <2>1. ring' = RingAdd(ring, byte) /\ ring \in Seq(Byte)
    BY <1>1 DEF Arrives, RxCplt, TypeOK
  <2>2. ring' # <<>> => ring'[Len(ring')].of \in {0, asked'}
    BY <2>1, RingAddLast
  <2> QED  BY <2>2 DEF LastIsLatest
<1>2. CASE ~listening
  BY <1>2 DEF Arrives
<1> QED  BY <1>1, <1>2

\* An earlier byte is the last in the ring only where LineInvariant allows it.
LEMMA LineStep ==
  ASSUME TypeOK, LineInvariant, [Next]_vars
  PROVE  LineInvariant'
<1> USE DEF master, line, slave, bank
<1>0. /\ asked \in Nat /\ Size \in Nat /\ out \in Nat /\ Len(script) \in Nat
      /\ MinFrame \in Nat /\ MinFrame >= 2
      /\ ring \in Seq(Byte)
  BY ScriptParts, SlaveAssumption DEF TypeOK, SlaveAssumption
<1>1. CASE Asks
  <2>1. /\ asked' = asked + 1 /\ out' = 0 /\ asked < Len(script) /\ script' = script
        /\ open' = ~Broadcast(script[asked']) /\ ~t35 /\ UNCHANGED <<ring, t35, busy, spc>>
    BY <1>1 DEF Asks
  <2>2. script[asked'] \in Requests
    <3>1. script \in Seq(Requests) /\ asked' \in 1 .. Len(script)
      BY <1>0, <2>1, ScriptParts
    <3> QED  BY <3>1, ElementOfSeq
  <2>3. Size' \in Nat
    BY <1>0, <2>1, <2>2, SlaveAssumption DEF Size, Requests, SlaveAssumption
  <2>4. out' <= Size' /\ asked' > 0
    BY <1>0, <2>1, <2>3
  <2>5. open' \/ Broadcast(script[asked])'
    BY <2>1
  <2> QED  BY <2>1, <2>4, <2>5 DEF LineInvariant
<1>2. CASE SendsByte \/ Noise
  <2>1. /\ UNCHANGED <<script, asked, open, busy, spc>>
        /\ \/ out < Size /\ out' = out + 1
           \/ out' = out
    BY <1>2 DEF SendsByte, Noise
  <2>2. Size' = Size
    BY <2>1, SizeStays
  <2>3. LastIsLatest' \/ (~listening /\ UNCHANGED line)
    <3>1. CASE SendsByte
      <4>1. out' \in 0 .. MaxBuffer - 1
        BY <1>0, <3>1, ScriptParts, SlaveAssumption DEF SendsByte, SlaveAssumption
      <4>2. [of |-> asked, at |-> out'] \in Byte
        BY <1>0, <4>1 DEF Byte
      <4> QED  BY <2>1, <3>1, <4>2, ArrivalIsLast DEF SendsByte
    <3>2. CASE Noise
      <4>1. [of |-> 0, at |-> 0] \in Byte
        BY <1>0, SlaveAssumption DEF Byte, SlaveAssumption
      <4> QED  BY <2>1, <3>2, <4>1, ArrivalIsLast DEF Noise
    <3> QED  BY <1>2, <3>1, <3>2
  <2>4. out' <= Size' /\ (out = Size => out' = Size')
    BY <1>0, <2>1, <2>2 DEF LineInvariant
  <2>5. CASE LastIsLatest'
    BY <2>1, <2>4, <2>5 DEF LineInvariant
  <2>6. CASE ~listening /\ UNCHANGED line
    <3>1. LastIsLatest' <=> LastIsLatest
      BY <2>1, <2>6 DEF LastIsLatest
    <3> QED  BY <2>1, <2>4, <2>6, <3>1 DEF LineInvariant
  <2> QED  BY <2>3, <2>5, <2>6
<1>3. CASE Overrun
  <2>1. /\ UNCHANGED <<script, asked, open, ring, t35, busy, spc>>
        /\ out' \in {out, out + 1} /\ out' <= Size
    BY <1>3 DEF Overrun
  <2>2. Size' = Size /\ (LastIsLatest' <=> LastIsLatest)
    BY <2>1, SizeStays DEF LastIsLatest
  <2>3. out = Size => out' = Size'
    BY <1>0, <2>1, <2>2
  <2> QED  BY <2>1, <2>2, <2>3 DEF LineInvariant
<1>4. CASE Take
  <2>1. UNCHANGED <<script, asked, out, open, busy>> /\ ring' = <<>> /\ spc = "take"
    BY <1>4 DEF Take, RingGetAllBytes
  <2>2. Size' = Size /\ LastIsLatest'
    BY <2>1, SizeStays DEF LastIsLatest
  <2> QED  BY <2>1, <2>2 DEF LineInvariant
<1>5. CASE GivesUp \/ TxCplt
  <2>1. UNCHANGED <<script, asked, out, ring, t35, listening>> /\ open' = FALSE
    BY <1>5 DEF GivesUp, TxCplt
  <2>2. busy' => spc' \in {"started", "txwait", "tc"}
    BY <1>5 DEF GivesUp, TxCplt, LineInvariant
  <2>3. Size' = Size /\ (LastIsLatest' <=> LastIsLatest)
    BY <2>1, SizeStays DEF LastIsLatest
  <2>4. spc' = "take" => out' = Size'
    BY <1>5, <2>1, <2>3 DEF GivesUp, TxCplt, LineInvariant
  <2> QED  BY <2>1, <2>2, <2>3, <2>4 DEF LineInvariant
<1>6. CASE \/ T35Expires \/ Gap \/ Run \/ WriteRegister \/ BlockEnds \/ Send \/ AwaitTxCplt
           \/ TxTimeout \/ TransmissionOver \/ HostWrites \/ StandbyReads \/ UNCHANGED vars
  <2>1. UNCHANGED <<script, asked, out, ring, open>>
    BY <1>6 DEF T35Expires, Gap, Run, WriteRegister, BlockEnds, Send, AwaitTxCplt, TxTimeout,
                TransmissionOver, HostWrites, StandbyReads, vars
  <2>2. busy' => spc' \in {"started", "txwait", "tc"}
    BY <1>6 DEF T35Expires, Gap, Run, WriteRegister, BlockEnds, Send, AwaitTxCplt, TxTimeout,
                TransmissionOver, HostWrites, StandbyReads, vars, LineInvariant
  <2>3. Size' = Size /\ (LastIsLatest' <=> LastIsLatest)
        /\ (Broadcast(script[asked])' <=> Broadcast(script[asked]))
    BY <2>1, SizeStays DEF LastIsLatest
  <2>4. (t35' => t35) /\ (spc' = "take" => spc = "take" \/ t35)
    BY <1>6 DEF T35Expires, Gap, Run, WriteRegister, BlockEnds, Send, AwaitTxCplt, TxTimeout,
                TransmissionOver, HostWrites, StandbyReads, vars
  <2> QED  BY <2>1, <2>2, <2>3, <2>4 DEF LineInvariant
<1> QED  BY <1>1, <1>2, <1>3, <1>4, <1>5, <1>6 DEF Next, Line, Timer, Task

\* The requests counted are finitely many.
LEMMA SpoiledIsFinite ==
  ASSUME TypeOK
  PROVE  IsFiniteSet(Spoiled) /\ Cardinality(Spoiled) \in Nat
<1>1. asked \in Nat
  BY ScriptParts
<1>2. IsFiniteSet(1 .. asked)
  BY <1>1, FS_Interval
<1>3. Spoiled \subseteq 1 .. asked
  BY DEF Spoiled, Settled
<1> QED  BY <1>2, <1>3, FS_Subset, FS_CardinalityType

\* The answers are kept.
LEMMA AnswersStay ==
  ASSUME TypeOK, [Next]_vars, NEW q, RightlyAnswered(q)
  PROVE  RightlyAnswered(q)'
<1>1. answers \in Seq(Answers) /\ reply \in Answers /\ Len(answers) \in Nat
  BY LenProperties DEF TypeOK
<1>2. script' = script /\ (answers' = answers \/ answers' = Append(answers, reply))
  BY DEF Next, Line, Timer, Task, Asks, SendsByte, Noise, Overrun, GivesUp, T35Expires, Gap, Take, Run,
         WriteRegister, BlockEnds, Send, AwaitTxCplt, TxTimeout, TransmissionOver, TxCplt,
         HostWrites, StandbyReads, master, vars
<1>3. PICK i \in 1 .. Len(answers) : answers[i] = [to |-> q, as |-> Verdict(script[q])]
  BY DEF RightlyAnswered
<1>4. CASE answers' = answers
  BY <1>2, <1>3, <1>4 DEF RightlyAnswered
<1>5. CASE answers' = Append(answers, reply)
  <2>1. Len(answers') = Len(answers) + 1 /\ answers'[i] = answers[i]
    BY <1>1, <1>3, <1>5, AppendProperties
  <2>2. i \in 1 .. Len(answers')
    BY <1>1, <1>3, <2>1
  <2> QED  BY <1>2, <1>3, <2>1, <2>2 DEF RightlyAnswered
<1> QED  BY <1>2, <1>4, <1>5

\* A request is spoiled when its time is over: when its last byte is sent, the master
\* gives it up, or is answered.
LEMMA SpoiledGrows ==
  ASSUME TypeOK, LineInvariant, [Next]_vars
  PROVE  /\ Spoiled' \subseteq Spoiled \cup {asked}
         /\ Spoiled' \subseteq Spoiled \/ SendsByte \/ Overrun \/ GivesUp \/ TxCplt
         /\ ~(Spoiled' \subseteq Spoiled) =>
              /\ asked > 0 /\ script' = script /\ asked' = asked
              /\ ~(Sent /\ ~open) /\ Sent' /\ ~open'
              /\ Deserves(asked) /\ ~RightlyAnswered(asked)'
<1> USE DEF master, line, slave, bank
<1>0. /\ asked \in Nat /\ Size \in Nat /\ out \in Nat /\ Len(script) \in Nat
      /\ MinFrame \in Nat /\ MinFrame >= 2
  BY ScriptParts, SlaveAssumption DEF TypeOK, SlaveAssumption
<1>1. script' = script
  BY DEF Next, Line, Timer, Task, Asks, SendsByte, Noise, Overrun, GivesUp, T35Expires, Gap, Take, Run,
         WriteRegister, BlockEnds, Send, AwaitTxCplt, TxTimeout, TransmissionOver, TxCplt,
         HostWrites, StandbyReads, vars
<1>2. \A q : Deserves(q)' <=> Deserves(q)
  BY <1>1 DEF Deserves
<1>3. ASSUME NEW q \in Spoiled', q \in Settled PROVE q \in Spoiled
  <2>1. ~RightlyAnswered(q)
    BY <1>3, AnswersStay DEF Spoiled
  <2> QED  BY <1>2, <1>3, <2>1 DEF Spoiled
<1>4. CASE Asks
  <2>1. asked' = asked + 1 /\ out' = 0 /\ out = Size /\ ~open /\ asked < Len(script)
    BY <1>4 DEF Asks
  <2>2. script[asked'] \in Requests
    <3>1. script \in Seq(Requests) /\ asked' \in 1 .. Len(script)
      BY <1>0, <2>1, ScriptParts
    <3> QED  BY <3>1, ElementOfSeq
  <2>3. Size' # 0
    BY <1>0, <1>1, <2>1, <2>2, SlaveAssumption DEF Size, Requests, SlaveAssumption
  <2>4. Settled' \subseteq Settled
    BY <1>0, <2>1, <2>3 DEF Settled
  <2>5. Spoiled' \subseteq Spoiled
    BY <1>3, <2>4 DEF Spoiled
  <2> QED  BY <2>5
<1>5. CASE asked' = asked /\ out' = out /\ open' = open
  <2>1. Settled' = Settled
    BY <1>1, <1>5, SizeStays DEF Settled
  <2>2. Spoiled' \subseteq Spoiled
    BY <1>3, <2>1 DEF Spoiled
  <2> QED  BY <2>2
<1>6. CASE SendsByte \/ Overrun \/ GivesUp \/ TxCplt
  <2>1. asked' = asked /\ Size' = Size
    BY <1>1, <1>6, SizeStays DEF SendsByte, Overrun, GivesUp, TxCplt
  <2>2. Settled' \subseteq Settled \cup {asked}
    BY <1>0, <2>1 DEF Settled
  <2>3. Spoiled' \subseteq Spoiled \cup {asked}
    BY <1>3, <2>2 DEF Spoiled
  <2>4. ASSUME ~(Spoiled' \subseteq Spoiled)
        PROVE  /\ asked > 0 /\ ~(Sent /\ ~open) /\ Sent' /\ ~open'
               /\ Deserves(asked) /\ ~RightlyAnswered(asked)'
    <3>1. asked \in Spoiled' /\ asked \notin Settled
      BY <1>3, <2>3, <2>4
    <3>2. asked \in 1 .. asked /\ (out' = Size' /\ ~open')
      BY <1>0, <2>1, <3>1 DEF Spoiled, Settled
    <3>3. ~(out = Size /\ ~open)
      BY <3>1, <3>2 DEF Settled
    <3>4. Deserves(asked)' /\ ~RightlyAnswered(asked)'
      BY <2>1, <3>1 DEF Spoiled
    <3>5. Deserves(asked)
      BY <1>1, <2>1, <3>4 DEF Deserves
    <3> QED  BY <1>0, <3>2, <3>3, <3>4, <3>5 DEF Sent
  <2> QED  BY <1>1, <1>6, <2>1, <2>3, <2>4
<1>7. Asks \/ SendsByte \/ Overrun \/ GivesUp \/ TxCplt \/ (asked' = asked /\ out' = out /\ open' = open)
  BY DEF Next, Line, Timer, Task, Noise, T35Expires, Gap, Take, Run,
         WriteRegister, BlockEnds, Send, AwaitTxCplt, TxTimeout, TransmissionOver,
         HostWrites, StandbyReads, vars
<1> QED  BY <1>4, <1>5, <1>6, <1>7

\* A frame that is taken as whole begins and ends with the same request.
LEMMA WholeIsOne ==
  ASSUME NEW S, NEW r \in Seq(S), r # <<>>, Whole(r)
  PROVE  r[Len(r)].of = r[1].of /\ r[1].of > 0
<1>1. Len(r) \in Nat /\ Len(r) > 0
  BY LenProperties, EmptySeq
<1> QED  BY <1>1 DEF Whole

\* What deserves an answer has one that is transmitted.
LEMMA DeservesSpeaks ==
  ASSUME TypeOK, asked > 0, Deserves(asked)
  PROVE  /\ ~Mute(script[asked]) /\ ~Broadcast(script[asked]) /\ script[asked].to = OwnId
         /\ Verdict(script[asked]) = "ok" => AnswerSize(script[asked]) > 0
<1>1. script[asked] \in Requests
  BY ScriptParts
<1>2. AnswerSize(script[asked]) \in Nat
  BY <1>1, AnswerSizes
<1>3. OwnId # ADDRESS_BROADCAST
  BY SlaveAssumption DEF SlaveAssumption, ADDRESS_BROADCAST
<1> QED  BY <1>2, <1>3 DEF Deserves, Mute, Broadcast

\* The number of the last request, the size of it, and the places of the slave.
LEMMA LineParts ==
  ASSUME TypeOK
  PROVE  /\ asked \in Nat /\ Size \in Nat /\ out \in Nat /\ Len(script) \in Nat
         /\ MaxBuffer \in Nat /\ Size < MaxBuffer
         /\ asked > 0 <=> Size > 0
         /\ upsets \in Nat
         /\ spc \in {"wait", "take", "run", "block", "send", "started", "txwait", "tc"}
<1>1. /\ asked \in Nat /\ Size \in 0 .. MaxBuffer - 1 /\ out \in Nat /\ Len(script) \in Nat
      /\ MaxBuffer \in Nat /\ MinFrame \in Nat /\ MinFrame >= 2
  BY ScriptParts, SlaveAssumption DEF TypeOK, SlaveAssumption
<1>2. asked > 0 => Size \in MinFrame .. MaxBuffer - 1
  BY <1>1, ScriptParts DEF Size, Requests
<1>3. ~(asked > 0) => Size = 0
  BY <1>1 DEF Size
<1>4. upsets \in Nat
  BY SlaveAssumption DEF TypeOK, SlaveAssumption
<1> QED  BY <1>1, <1>2, <1>3, <1>4 DEF TypeOK

\* When the last byte in the ring is of a request that the slave answers, or noise, it
\* holds no frame that the slave keeps silent about.
LEMMA LatestSpeaks ==
  ASSUME UNCHANGED <<script, asked>>, TypeOK', LastIsLatest', ~Mute(script[asked])
  PROVE  ~MuteFrame'
<1>1. ASSUME ring' # <<>>, Whole(ring') PROVE ring'[1].of = asked
  <2>1. ring' \in Seq(Byte') /\ ring'[Len(ring')].of \in {0, asked}
    BY <1>1 DEF TypeOK, LastIsLatest
  <2>2. ring'[Len(ring')].of = ring'[1].of /\ ring'[1].of > 0
    BY <1>1, <2>1, WholeIsOne
  <2>3. ~(0 > 0)
    OBVIOUS
  <2> QED  BY <2>1, <2>2, <2>3
<1>2. Whole(ring)' <=> Whole(ring')
  BY DEF Whole
<1>3. MuteFrame' <=> ring' # <<>> /\ Whole(ring') /\ Mute(script[ring'[1].of])
  BY <1>2 DEF MuteFrame
<1> QED  BY <1>1, <1>3

\* What is spoiled while nothing goes wrong: the slave was not in step, comes to rest,
\* and nothing but this request was at risk.
LEMMA QuietGrowth ==
  ASSUME IInv, IInv', LineInvariant, LineInvariant', [Next]_vars, upsets' = upsets, ~Deaf,
         ~(Spoiled' \subseteq Spoiled)
  PROVE  /\ ~InStep
         /\ OneAtRisk'
         /\ OneAtRisk => InStep'
<1> USE DEF master, line, slave, bank
<1>0. /\ TypeOK /\ TypeOK' /\ asked \in Nat /\ Size \in Nat /\ out \in Nat /\ upsets \in Nat
      /\ spc \in {"wait", "take", "run", "block", "send", "started", "txwait", "tc"}
  <2>1. TypeOK /\ TypeOK'
    BY DEF IInv
  <2> QED  BY <2>1, LineParts
<1>1. /\ asked > 0 /\ script' = script /\ asked' = asked
      /\ ~(Sent /\ ~open) /\ Sent' /\ ~open'
      /\ Deserves(asked) /\ ~RightlyAnswered(asked)'
      /\ SendsByte \/ Overrun \/ GivesUp \/ TxCplt
  BY <1>0, SpoiledGrows
<1>2. ~Mute(script[asked]) /\ ~Broadcast(script[asked])
  BY <1>0, <1>1, DeservesSpeaks
<1>3. LastIsLatest' => ~MuteFrame'
  BY <1>0, <1>1, <1>2, LatestSpeaks
<1>4. ~Upset
  BY <1>0 DEF Upset
<1>5. ComesToRest' /\ ~InStep /\ (OneAtRisk => RingClears')
  <2>1. CASE SendsByte
    <3>1. out < Size /\ UNCHANGED <<spc, open, busy>> /\ Arrives([of |-> asked, at |-> out'])
      BY <2>1 DEF SendsByte
    <3>2. ~Sent /\ ~open
      BY <1>0, <1>1, <3>1 DEF Sent
    <3>3. LastIsLatest' /\ (t35' \/ spc = "take") /\ (listening => t35')
      <4>1. CASE listening
        <5>1. t35'
          BY <3>1, <4>1 DEF Arrives, RxCplt
        <5> QED  BY <5>1 DEF LineInvariant
      <4>2. CASE ~listening
        <5>1. UNCHANGED <<ring, t35>> /\ (t35 \/ spc = "take")
          BY <3>1, <4>2 DEF Arrives, Deaf
        <5>2. LastIsLatest
          BY <1>2, <3>1, <3>2, <5>1 DEF LineInvariant, Sent
        <5> QED  BY <1>1, <4>2, <5>1, <5>2 DEF LastIsLatest
      <4> QED  BY <4>1, <4>2
    <3>4. ComesToRest'
      BY <1>0, <1>3, <3>1, <3>3 DEF ComesToRest
    <3> QED  BY <1>2, <3>1, <3>2, <3>3, <3>4 DEF InStep, OneAtRisk, RingClears, Listening
  <2>2. CASE GivesUp
    <3>1. out = Size /\ open /\ spc = "wait" /\ ~t35 /\ UNCHANGED <<ring, t35, spc, busy>>
      BY <1>4, <2>2 DEF GivesUp
    <3>2. Sent /\ ComesToRest'
      BY <3>1 DEF Sent, ComesToRest
    <3>3. ~UnderWay
      BY <3>1 DEF UnderWay, LineInvariant
    <3> QED  BY <1>1, <3>1, <3>2, <3>3 DEF InStep, OneAtRisk, RingClears, Listening
  <2>3. CASE TxCplt
    <3>1. /\ busy /\ ~busy' /\ spc \in {"txwait", "tc"} /\ spc' = "tc"
          /\ UNCHANGED <<out, ring, t35>> /\ answers' = Append(answers, reply)
      BY <1>4, <2>3 DEF TxCplt, LineInvariant
    <3>2. Sent /\ open
      BY <1>1, <3>1, SizeStays DEF Sent
    <3>3. ComesToRest'
      BY <1>3, <3>1 DEF ComesToRest, LineInvariant
    <3>4. ~UnderWay
      <4>1. ~(reply = RightAnswer(asked))
        <5>1. answers \in Seq(Answers) /\ reply \in Answers
          BY <1>0 DEF TypeOK
        <5>2. Len(answers') \in Nat /\ Len(answers') >= 1 /\ answers'[Len(answers')] = reply
          BY <3>1, <5>1, AppendProperties, LenProperties
        <5>3. Len(answers') \in 1 .. Len(answers')
          BY <5>2
        <5>4. RightAnswer(asked) = [to |-> asked, as |-> Verdict(script[asked])]
          BY DEF RightAnswer
        <5> QED  BY <1>1, <5>2, <5>3, <5>4 DEF RightlyAnswered
      <4> QED  BY <3>1, <4>1 DEF UnderWay
    <3>5. ~InStep
      BY <1>1, <3>1, <3>2, <3>4 DEF InStep
    <3>6. OneAtRisk => RingClears
      BY <3>2 DEF OneAtRisk, Listening
    <3> QED  BY <3>1, <3>3, <3>5, <3>6 DEF RingClears
  <2> QED  BY <1>1, <1>4, <2>1, <2>2, <2>3 DEF Overrun
<1> QED  BY <1>1, <1>5 DEF OneAtRisk, InStep

\* An upset that spoils a request at once leaves one more at risk.
LEMMA UpsetGrowth ==
  ASSUME IInv, IInv', LineInvariant, LineInvariant', [Next]_vars, InStep,
         upsets' # upsets, ~(Spoiled' \subseteq Spoiled)
  PROVE  OneAtRisk'
<1> USE DEF master, line, slave, bank
<1>0. /\ TypeOK /\ TypeOK' /\ asked \in Nat /\ Size \in Nat /\ out \in Nat /\ upsets \in Nat
      /\ spc \in {"wait", "take", "run", "block", "send", "started", "txwait", "tc"}
  <2>1. TypeOK /\ TypeOK'
    BY DEF IInv
  <2> QED  BY <2>1, LineParts
<1>1. /\ asked > 0 /\ script' = script /\ asked' = asked
      /\ ~(Sent /\ ~open) /\ Sent' /\ ~open'
      /\ Deserves(asked) /\ ~RightlyAnswered(asked)'
      /\ Overrun \/ GivesUp \/ TxCplt
  <2>1. ~SendsByte
    BY DEF SendsByte
  <2> QED  BY <1>0, <2>1, SpoiledGrows
<1>2. ~Mute(script[asked]) /\ ~Broadcast(script[asked])
      /\ (Verdict(script[asked]) = "ok" => AnswerSize(script[asked]) > 0)
  BY <1>0, <1>1, DeservesSpeaks
<1>3. LastIsLatest' => ~MuteFrame'
  BY <1>0, <1>1, <1>2, LatestSpeaks
<1>4. ~Overrun
  <2> SUFFICES ASSUME Overrun PROVE FALSE
    OBVIOUS
  <2>1. ~open
    BY <1>1 DEF Overrun
  <2> QED  BY <1>1, <1>2, <2>1 DEF InStep, Sent
<1>5. CASE GivesUp
  <2>1. out = Size /\ open /\ UNCHANGED <<ring, t35, spc, request, reply, busy>>
    BY <1>5 DEF GivesUp
  <2>2. UnderWay
    BY <1>1, <2>1 DEF InStep, Listening, Sent
  <2>3. RightAnswer(asked).as = Verdict(script[asked])
    BY DEF RightAnswer
  <2>4. ~t35' /\ spc' \in {"run", "block", "send"} /\ reply'.as = "ok" =>
          request' > 0 /\ AnswerSize(script[request']) > 0
    BY <1>1, <1>2, <2>1, <2>2, <2>3 DEF UnderWay, LineInvariant
  <2>5. ~t35' /\ spc' \in {"started", "txwait"} => busy'
    BY <2>1, <2>2 DEF UnderWay
  <2>6. t35' \/ spc' = "take" => ~MuteFrame'
    <3>1. CASE t35'
      BY <1>3, <3>1 DEF LineInvariant
    <3>2. CASE spc' = "take"
      <4>1. ring = Bytes(asked, Size)
        BY <2>1, <2>2, <3>2 DEF UnderWay, LineInvariant
      <4>2. ring # <<>> /\ ring[Len(ring)].of = asked
        <5>1. ring \in Seq(Byte) /\ Whole(ring) /\ ring # <<>> /\ ring[1].of = asked
          BY <1>0, <1>1, <4>1, BytesAreWhole DEF TypeOK
        <5> QED  BY <5>1, WholeIsOne
      <4> QED  BY <1>1, <1>3, <2>1, <4>2 DEF LastIsLatest
    <3> QED  BY <3>1, <3>2
  <2>7. ComesToRest'
    BY <1>1, <2>4, <2>5, <2>6 DEF ComesToRest
  <2> QED  BY <1>1, <2>7 DEF OneAtRisk
<1>6. CASE TxCplt
  <2>1. /\ busy /\ ~busy' /\ spc \in {"started", "txwait", "tc"}
        /\ spc' = (IF spc = "txwait" THEN "tc" ELSE spc)
        /\ UNCHANGED <<out, ring, t35>> /\ answers' = Append(answers, reply)
    BY <1>6 DEF TxCplt, LineInvariant
  <2>2. Sent /\ open
    BY <1>1, <2>1, SizeStays DEF Sent
  <2>3. UnderWay
    BY <1>1, <2>1, <2>2 DEF InStep, Listening
  <2>4. reply = RightAnswer(asked)
    BY <2>1, <2>3 DEF UnderWay
  <2>5. answers \in Seq(Answers) /\ reply \in Answers
    BY <1>0 DEF TypeOK
  <2>6. Len(answers') \in Nat /\ Len(answers') >= 1 /\ answers'[Len(answers')] = reply
    BY <2>1, <2>5, AppendProperties, LenProperties
  <2>7. Len(answers') \in 1 .. Len(answers')
    BY <2>6
  <2>8. RightAnswer(asked) = [to |-> asked, as |-> Verdict(script[asked])]
    BY DEF RightAnswer
  <2> QED  BY <1>1, <2>4, <2>6, <2>7, <2>8 DEF RightlyAnswered
<1> QED  BY <1>1, <1>4, <1>5, <1>6

-----------------------------------------------------------------------------
(* The steps without an upset.                                             *)

\* Who is in step stays so, and not more comes to be at risk.
KeepsStep ==
  /\ InStep => InStep'
  /\ OneAtRisk => OneAtRisk' \/ InStep'

\* The master's steps.
LEMMA LineKeepsStep ==
  ASSUME IInv, IInv', LineInvariant, LineInvariant', [Next]_vars, Line, upsets' = upsets,
         ~Deaf
  PROVE  KeepsStep
<1> USE DEF master, line, slave, bank
<1>0. /\ TypeOK /\ TypeOK' /\ asked \in Nat /\ Size \in Nat /\ out \in Nat /\ upsets \in Nat
      /\ MaxBuffer \in Nat /\ Size < MaxBuffer /\ (asked > 0 <=> Size > 0)
      /\ spc \in {"wait", "take", "run", "block", "send", "started", "txwait", "tc"}
  <2>1. TypeOK /\ TypeOK'
    BY DEF IInv
  <2> QED  BY <2>1, LineParts
<1>1. ~Upset
  BY <1>0 DEF Upset
<1>2. CASE Asks
  <2>1. /\ ~open /\ out = Size /\ ~t35 /\ ~busy /\ spc \in {"wait", "started", "txwait", "tc"}
        /\ asked' = asked + 1 /\ out' = 0 /\ open' = ~Broadcast(script[asked'])
        /\ listening /\ UNCHANGED <<script, ring, t35, listening, spc, busy>>
    BY <1>0, <1>1, <1>2 DEF Asks, Deaf
  <2>2. Sent /\ Size' > 0 /\ ~Sent'
    <3>1. script'[asked'] \in Requests
      <4>1. script' \in Seq(Requests) /\ asked' \in 1 .. Len(script')
        BY <1>0, <1>2, <2>1, ScriptParts DEF Asks
      <4> QED  BY <4>1, ElementOfSeq
    <3>2. Size' > 0 /\ Size' \in Nat
      BY <1>0, <2>1, <3>1, SlaveAssumption DEF Size, Requests, SlaveAssumption
    <3> QED  BY <2>1, <3>2 DEF Sent
  <2>3. ComesToRest => spc \in {"wait", "tc"}
    BY <2>1 DEF ComesToRest
  <2>4. spc \in {"wait", "tc"} => Listening'
    BY <2>1, <2>2 DEF Listening
  <2>5. open' \/ Broadcast(script[asked])'
    BY <2>1
  <2>6. ASSUME InStep PROVE InStep'
    <3>1. ComesToRest /\ RingClears
      BY <2>1, <2>2, <2>6 DEF InStep, Listening, Patient
    <3>2. ring = <<>>
      BY <2>1, <3>1 DEF RingClears
    <3>3. <<>> = Bytes(asked', 0)
      BY DEF Bytes
    <3>4. Listening' /\ ~busy' /\ ring' = Bytes(asked', out')
      BY <2>1, <2>3, <2>4, <3>1, <3>2, <3>3
    <3>5. Bytes(asked, out)' = Bytes(asked', out')
      BY DEF Bytes
    <3> QED  BY <2>5, <3>4, <3>5 DEF InStep
  <2>7. ASSUME OneAtRisk PROVE OneAtRisk'
    <3>1. ComesToRest
      BY <2>1, <2>2, <2>7 DEF OneAtRisk, Listening, Patient
    <3>2. Patient' \/ ~Mute(script[asked])'
      BY <2>1, <2>5 DEF Patient, Mute, Broadcast
    <3> QED  BY <2>3, <2>4, <3>1, <3>2 DEF OneAtRisk
  <2> QED  BY <2>6, <2>7 DEF KeepsStep
<1>3. CASE SendsByte /\ ~listening
  <2>1. ~Sent
    BY <1>0, <1>3 DEF SendsByte, Sent
  <2> QED  BY <1>3, <2>1 DEF KeepsStep, InStep, OneAtRisk, Listening
<1>4. CASE SendsByte /\ listening
  <2>1. /\ out < Size /\ out' = out + 1 /\ t35' = TRUE
        /\ UNCHANGED <<script, asked, open, listening, spc, busy>>
        /\ ring' = RingAdd(ring, [of |-> asked, at |-> out + 1])
    BY <1>4 DEF SendsByte, Arrives, RxCplt
  <2>2. /\ ~Sent /\ asked > 0 /\ Size' = Size /\ (~Sent' => out' < Size)
    BY <1>0, <2>1, SizeStays DEF Sent
  <2>3. ASSUME spc \in {"wait", "tc"} PROVE (~Sent' => Listening') /\ RingClears'
    BY <1>0, <1>4, <2>1, <2>3 DEF Listening, RingClears
  <2>4. Sent' /\ ~Mute(script[asked]) => ComesToRest'
    <3>1. Sent' /\ ~Mute(script[asked]) => ~MuteFrame'
      BY <1>0, <2>1, LatestSpeaks DEF LineInvariant
    <3> QED  BY <2>1, <3>1 DEF ComesToRest
  <2>5. ASSUME InStep PROVE InStep'
    <3>1. Listening /\ ~busy /\ ring = Bytes(asked, out) /\ (open \/ Broadcast(script[asked]))
      BY <2>2, <2>5 DEF InStep
    <3>2. ring' = Bytes(asked, out') /\ ring' = Bytes(asked', out')
      BY <1>0, <2>1, <3>1, BytesGrow
    <3>3. spc \in {"wait", "tc"}
      BY <3>1 DEF Listening
    <3>4. CASE ~Sent'
      <4>1. Bytes(asked, out)' = Bytes(asked', out')
        BY DEF Bytes
      <4> QED  BY <2>1, <2>3, <3>1, <3>2, <3>3, <3>4, <4>1 DEF InStep
    <3>5. CASE Sent'
      <4>1. Patient' \/ ComesToRest'
        <5>1. Broadcast(script[asked]) => ~Mute(script[asked])
          BY DEF Mute
        <5> QED  BY <2>1, <2>4, <3>1, <3>5, <5>1 DEF Patient
      <4>2. UnderWay'
        <5>1. out' = Size'
          BY <3>5 DEF Sent
        <5>2. Bytes(asked, Size)' = Bytes(asked', Size')
          BY DEF Bytes
        <5>3. t35' /\ spc' \in {"wait", "tc"} /\ ~busy' /\ ring' = Bytes(asked, Size)'
          BY <2>1, <3>1, <3>2, <3>3, <5>1, <5>2
        <5> QED  BY <5>3 DEF UnderWay
      <4> QED  BY <2>3, <3>3, <3>5, <4>1, <4>2 DEF InStep
    <3> QED  BY <3>4, <3>5
  <2>6. ASSUME OneAtRisk PROVE OneAtRisk'
    <3>1. Listening /\ (Patient \/ ~Mute(script[asked]))
      BY <2>2, <2>6 DEF OneAtRisk
    <3>2. (Patient => Patient') /\ (Mute(script[asked])' => Mute(script[asked]))
      BY <2>1 DEF Patient
    <3>3. spc \in {"wait", "tc"}
      BY <3>1 DEF Listening
    <3> QED  BY <2>3, <2>4, <3>1, <3>2, <3>3 DEF OneAtRisk
  <2> QED  BY <2>5, <2>6 DEF KeepsStep
<1>5. CASE Noise \/ Overrun
  BY <1>1, <1>5 DEF Noise, Overrun
<1>6. CASE GivesUp
  <2>1. out = Size /\ open /\ ~open' /\ spc = "wait" /\ ~t35
        /\ UNCHANGED <<script, asked, out, ring, t35, spc, busy>>
    BY <1>1, <1>6 DEF GivesUp
  <2>2. Sent /\ Sent' /\ ComesToRest' /\ (RingClears => RingClears')
    BY <2>1, SizeStays DEF Sent, ComesToRest, RingClears
  <2> QED  BY <2>1, <2>2 DEF KeepsStep, InStep, OneAtRisk, Listening
<1> QED  BY <1>2, <1>3, <1>4, <1>5, <1>6 DEF Line

\* What is left alone by the steps of the timer and of the slave.
LEMMA SameLine ==
  ASSUME UNCHANGED <<script, asked, out, open>>
  PROVE  /\ (Sent' <=> Sent) /\ Size' = Size
         /\ Bytes(asked, out)' = Bytes(asked, out) /\ Bytes(asked, Size)' = Bytes(asked, Size)
         /\ RightAnswer(asked)' = RightAnswer(asked)
         /\ (Deserves(asked)' <=> Deserves(asked))
         /\ (Mute(script[asked])' <=> Mute(script[asked]))
         /\ (Broadcast(script[asked])' <=> Broadcast(script[asked]))
<1>1. Size' = Size
  BY SizeStays
<1> QED  BY <1>1 DEF Sent, Bytes, RightAnswer, Deserves

\* The silence behind a frame.
LEMMA TimerKeepsStep ==
  ASSUME IInv, LineInvariant, T35Expires
  PROVE  KeepsStep
<1> USE DEF master, line, slave, bank
<1>1. /\ t35 /\ ~t35' /\ spc \in {"wait", "txwait"}
      /\ out \in {0, Size} \/ ~listening
      /\ spc' = (IF spc = "wait" THEN "take" ELSE "tc")
      /\ UNCHANGED <<script, asked, out, open, ring, request, reply, busy>>
  BY DEF T35Expires
<1>2. ~Listening
  BY <1>1 DEF Listening, Sent
<1>3. MuteFrame' <=> MuteFrame
  BY <1>1 DEF MuteFrame, Whole
<1>4. /\ RingClears => RingClears'
      /\ Patient => Patient'
      /\ ComesToRest => ComesToRest'
      /\ UnderWay => UnderWay'
  BY <1>1, <1>3, SameLine DEF RingClears, Patient, ComesToRest, UnderWay
<1> QED  BY <1>1, <1>2, <1>4, SameLine DEF KeepsStep, InStep, OneAtRisk

\* The end of a transmission.
LEMMA TxCpltKeepsStep ==
  ASSUME IInv, LineInvariant, TxCplt, upsets' = upsets
  PROVE  KeepsStep
<1> USE DEF master, line, slave, bank
<1>1. ~Upset
  <2>1. upsets \in Nat
    BY LineParts DEF IInv
  <2> QED  BY <2>1 DEF Upset
<1>2. /\ busy /\ ~busy' /\ ~open' /\ spc \in {"txwait", "tc"} /\ spc' = "tc"
      /\ UNCHANGED <<script, asked, out, ring, t35, listening>>
  BY <1>1 DEF TxCplt, LineInvariant
<1>3. MuteFrame' <=> MuteFrame
  BY <1>2 DEF MuteFrame, Whole
<1>4. /\ RingClears => RingClears'
      /\ ~Patient
      /\ ComesToRest => ComesToRest'
  BY <1>2, <1>3 DEF RingClears, Patient, ComesToRest
<1>5. (Sent' <=> Sent) /\ (Mute(script[asked])' <=> Mute(script[asked]))
  BY <1>2, SizeStays DEF Sent
<1>6. Listening => Listening'
  BY <1>2, <1>5 DEF Listening
<1> QED  BY <1>2, <1>4, <1>5, <1>6 DEF KeepsStep, InStep, OneAtRisk

\* What becomes of a frame that is taken: nothing is answered with "ok", and what is
\* run will be answered, if the frame was not mute; the last request, complete, gets
\* the answer it deserves.
LEMMA TakeAnswers ==
  ASSUME TypeOK, Take
  PROVE  /\ ~MuteFrame /\ (spc' = "run" \/ (spc' = "send" /\ reply'.as = "ok")) =>
              request' > 0 /\ (Broadcast(script[request']) \/ AnswerSize(script[request']) > 0)
         /\ asked > 0 /\ ring = Bytes(asked, Size) /\ Deserves(asked) =>
              spc' \in {"run", "send"} /\ request' = asked /\ reply' = RightAnswer(asked)
<1>1. CASE TooShort(ring)
  <2>1. spc' = "wait"
    BY <1>1 DEF Take
  <2>2. ~(asked > 0 /\ ring = Bytes(asked, Size))
    BY <1>1, BytesAreWhole
  <2> QED  BY <2>1, <2>2
<1>2. CASE ~TooShort(ring)
  <2>1. ring # <<>>
    BY <1>2, EmptySeq, SlaveAssumption DEF TooShort, SlaveAssumption
  <2>2. PICK to \in Addressed(ring) :
          CASE to \notin {OwnId, ADDRESS_BROADCAST} ->
                 spc' = "wait" /\ UNCHANGED <<request, reply>>
            [] to \in {OwnId, ADDRESS_BROADCAST} /\ ~Whole(ring) -> Refuse(to, "crc", 0)
            [] OTHER ->
                 IF Verdict(script[ring[1].of]) = "ok"
                   THEN spc' = "run" /\ request' = ring[1].of /\ Reply(ring[1].of, "ok")
                   ELSE Refuse(to, Verdict(script[ring[1].of]), ring[1].of)
    BY <1>2 DEF Take
  <2>3. asked > 0 /\ ring = Bytes(asked, Size) /\ Deserves(asked) =>
          Whole(ring) /\ ring[1].of = asked /\ to = OwnId /\ OwnId # ADDRESS_BROADCAST
    BY BytesAreWhole, SlaveAssumption DEF Addressed, Deserves, SlaveAssumption, ADDRESS_BROADCAST
  <2>4. CASE to \notin {OwnId, ADDRESS_BROADCAST}
    <3>1. spc' = "wait"
      BY <2>2, <2>4
    <3> QED  BY <2>3, <2>4, <3>1
  <2>5. CASE to \in {OwnId, ADDRESS_BROADCAST} /\ ~Whole(ring)
    <3>1. Refuse(to, "crc", 0)
      BY <2>2, <2>5
    <3>2. spc' = "wait" \/ (spc' = "send" /\ reply'.as = "crc")
      BY <3>1 DEF Refuse, Reply
    <3> QED  BY <2>3, <2>5, <3>2
  <2>6. CASE to \in {OwnId, ADDRESS_BROADCAST} /\ Whole(ring)
    <3> DEFINE q == ring[1].of
    <3>1. RightAnswer(q) = [to |-> q, as |-> Verdict(script[q])]
      BY DEF RightAnswer
    <3>2. CASE Verdict(script[q]) = "ok"
      <4>1. spc' = "run" /\ request' = q /\ reply' = [to |-> q, as |-> "ok"]
        BY <2>2, <2>6, <3>2 DEF Reply
      <4>2. q > 0
        BY <2>6 DEF Whole
      <4>3. ~MuteFrame => Broadcast(script[q]) \/ AnswerSize(script[q]) > 0
        BY <2>1, <2>6, <3>2 DEF MuteFrame, Mute
      <4> QED  BY <2>3, <3>1, <3>2, <4>1, <4>2, <4>3
    <3>3. CASE Verdict(script[q]) # "ok"
      <4>1. Refuse(to, Verdict(script[q]), q)
        BY <2>2, <2>6, <3>3
      <4>2. \/ to = ADDRESS_BROADCAST /\ spc' = "wait"
            \/ spc' = "send" /\ request' = q /\ reply' = [to |-> q, as |-> Verdict(script[q])]
        BY <4>1 DEF Refuse, Reply
      <4>3. spc' = "send" => reply'.as # "ok"
        BY <3>3, <4>2
      <4> QED  BY <2>3, <3>1, <4>2, <4>3
    <3> QED  BY <3>2, <3>3
  <2> QED  BY <2>4, <2>5, <2>6
<1> QED  BY <1>1, <1>2

\* The frame is taken.
LEMMA TakeKeepsStep ==
  ASSUME IInv, LineInvariant, Take
  PROVE  KeepsStep
<1> USE DEF master, line, slave, bank
<1>1. /\ TypeOK /\ spc = "take" /\ ring' = <<>> /\ spc' \in {"wait", "run", "send"}
      /\ UNCHANGED <<script, asked, out, open, t35, busy>>
  BY TakeOutcomes DEF IInv, Take, RingGetAllBytes
<1>2. ~Listening /\ RingClears' /\ ~MuteFrame' /\ ~busy
  BY <1>1 DEF Listening, RingClears, MuteFrame, LineInvariant
<1>3. Patient => Patient'
  BY <1>1 DEF Patient
<1>4. ComesToRest => ComesToRest'
  <2>1. ~MuteFrame /\ (spc' = "run" \/ (spc' = "send" /\ reply'.as = "ok")) =>
          request' > 0 /\ (Broadcast(script[request']) \/ AnswerSize(script[request']) > 0)
    BY <1>1, TakeAnswers
  <2>2. ComesToRest => ~MuteFrame
    BY <1>1 DEF ComesToRest
  <2> QED  BY <1>1, <1>2, <2>1, <2>2 DEF ComesToRest
<1>5. open /\ Deserves(asked) /\ UnderWay => UnderWay'
  <2>1. UnderWay => ring = Bytes(asked, Size)
    BY <1>1, <1>2 DEF UnderWay
  <2>2. open => asked > 0
    BY DEF LineInvariant
  <2>3. open /\ Deserves(asked) /\ UnderWay =>
          spc' \in {"run", "send"} /\ request' = asked /\ reply' = RightAnswer(asked)
    BY <1>1, <2>1, <2>2, TakeAnswers
  <2> QED  BY <1>1, <2>3, SameLine DEF UnderWay
<1> QED  BY <1>1, <1>2, <1>3, <1>4, <1>5, SameLine DEF KeepsStep, InStep, OneAtRisk

\* The answer is sent.
LEMMA SendKeepsStep ==
  ASSUME IInv, LineInvariant, Send
  PROVE  KeepsStep
<1> USE DEF master, line, slave, bank
<1>1. /\ TypeOK /\ spc = "send"
      /\ UNCHANGED <<script, asked, out, open, ring, t35, listening, request, reply>>
      /\ \/ request > 0 /\ Broadcast(script[request]) /\ spc' = "wait" /\ busy' = busy
         \/ /\ ~(request > 0 /\ Broadcast(script[request])) /\ spc' = "started"
            /\ busy' = (reply.as # "ok" \/ AnswerSize(script[request]) > 0)
  BY DEF IInv, Send
<1>2. ~Listening /\ ~busy /\ (RingClears => ring = <<>>) /\ (ring = <<>> => RingClears')
  BY <1>1 DEF Listening, RingClears, LineInvariant
<1>3. MuteFrame' <=> MuteFrame
  BY <1>1 DEF MuteFrame, Whole
<1>4. ring = <<>> => ~MuteFrame
  BY DEF MuteFrame
<1>5. Patient /\ ring = <<>> => Patient' \/ ComesToRest'
  BY <1>1, <1>2, <1>3, <1>4 DEF Patient, ComesToRest
<1>6. ComesToRest => ComesToRest'
  BY <1>1, <1>3 DEF ComesToRest
<1>7. Patient => open
  BY DEF Patient
<1>8. open /\ Deserves(asked) /\ UnderWay => UnderWay'
  <2>1. UnderWay => request = asked /\ reply = RightAnswer(asked)
    BY <1>1, <1>2 DEF UnderWay
  <2>2. open => asked > 0
    BY DEF LineInvariant
  <2>3. open /\ Deserves(asked) => ~Broadcast(script[asked])
           /\ (Verdict(script[asked]) # "ok" \/ AnswerSize(script[asked]) > 0)
    BY <1>1, <2>2, DeservesSpeaks
  <2>4. RightAnswer(asked).as = Verdict(script[asked])
    BY DEF RightAnswer
  <2>5. open /\ Deserves(asked) /\ UnderWay => busy' /\ reply' = RightAnswer(asked)
    BY <1>1, <2>1, <2>3, <2>4
  <2> QED  BY <1>1, <2>5, SameLine DEF UnderWay
<1> QED  BY <1>1, <1>2, <1>5, <1>6, <1>7, <1>8, SameLine DEF KeepsStep, InStep, OneAtRisk

\* The slave's other steps.
LEMMA TaskKeepsStep ==
  ASSUME IInv, LineInvariant,
         Run \/ WriteRegister \/ BlockEnds \/ AwaitTxCplt \/ TxTimeout \/ TransmissionOver
  PROVE  KeepsStep
<1> USE DEF master, line, slave, bank
<1>1. /\ UNCHANGED <<script, asked, out, open, ring, t35, listening, request, reply, busy>>
      /\ \/ spc = "run" /\ spc' \in {"block", "send"}
         \/ spc = "block" /\ spc' \in {"block", "send"}
         \/ spc = "started" /\ spc' = "txwait"
         \/ spc = "txwait" /\ spc' = "tc"
         \/ spc = "tc" /\ spc' = "wait" /\ ~busy
  BY DEF Run, WriteRegister, BlockEnds, AwaitTxCplt, TxTimeout, TransmissionOver
<1>2. MuteFrame' <=> MuteFrame
  BY <1>1 DEF MuteFrame, Whole
<1>3. /\ Listening => Listening'
      /\ RingClears => RingClears'
      /\ Patient => Patient'
      /\ ComesToRest => ComesToRest'
      /\ UnderWay => UnderWay'
  BY <1>1, <1>2, SameLine DEF Listening, RingClears, Patient, ComesToRest, UnderWay
<1> QED  BY <1>1, <1>3, SameLine DEF KeepsStep, InStep, OneAtRisk

\* What has no part in it.
LEMMA OthersKeepStep ==
  ASSUME HostWrites \/ StandbyReads \/ UNCHANGED vars
  PROVE  KeepsStep
<1> USE DEF master, line, slave, bank
<1>1. UNCHANGED <<script, asked, out, open, ring, t35, listening, spc, request, reply, busy>>
  BY DEF HostWrites, StandbyReads, vars
<1>2. MuteFrame' <=> MuteFrame
  BY <1>1 DEF MuteFrame, Whole
<1>3. /\ Listening => Listening'
      /\ RingClears => RingClears'
      /\ Patient => Patient'
      /\ ComesToRest => ComesToRest'
      /\ UnderWay => UnderWay'
  BY <1>1, <1>2, SameLine DEF Listening, RingClears, Patient, ComesToRest, UnderWay
<1> QED  BY <1>1, <1>3, SameLine DEF KeepsStep, InStep, OneAtRisk

\* Every step that is no upset.
LEMMA NextKeepsStep ==
  ASSUME IInv, IInv', LineInvariant, LineInvariant', [Next]_vars, upsets' = upsets, ~Deaf
  PROVE  KeepsStep
<1>1. CASE Line
  BY <1>1, LineKeepsStep
<1>2. CASE Timer
  <2>1. CASE T35Expires
    BY <2>1, TimerKeepsStep
  <2>2. CASE Gap
    <3>1. upsets \in Nat
      BY LineParts DEF IInv
    <3> QED  BY <2>2, <3>1 DEF Gap, Upset
  <2> QED  BY <1>2, <2>1, <2>2 DEF Timer
<1>3. CASE Task
  BY <1>3, TakeKeepsStep, SendKeepsStep, TaskKeepsStep DEF Task
<1>4. CASE TxCplt
  BY <1>4, TxCpltKeepsStep
<1>5. CASE HostWrites \/ StandbyReads \/ UNCHANGED vars
  BY <1>5, OthersKeepStep
<1> QED  BY <1>1, <1>2, <1>3, <1>4, <1>5 DEF Next

\* One step makes one upset at most.
LEMMA OneUpset ==
  ASSUME [Next]_vars
  PROVE  upsets' = upsets \/ upsets' = upsets + 1
BY DEF Next, Line, Timer, Task, Asks, SendsByte, Noise, Overrun, GivesUp, T35Expires, Gap, Take, Run,
       WriteRegister, BlockEnds, Send, AwaitTxCplt, TxTimeout, TransmissionOver, TxCplt,
       HostWrites, StandbyReads, Upset, vars

\* A deaf slave stays deaf: only a T35 that runs, or the task it has woken, arms the
\* reception, and only a byte received starts one.
LEMMA DeafStays ==
  ASSUME Deaf, [Next]_vars
  PROVE  Deaf'
<1> USE DEF master, line, slave, bank
<1>1. ~listening /\ ~t35 /\ spc # "take"
  BY DEF Deaf
<1>2. CASE Asks \/ SendsByte \/ Noise \/ Overrun \/ GivesUp
  <2>1. UNCHANGED <<t35, listening, spc>>
    BY <1>1, <1>2 DEF Asks, SendsByte, Noise, Overrun, GivesUp, Arrives
  <2> QED  BY <1>1, <2>1 DEF Deaf
<1>3. ~T35Expires /\ ~Gap /\ ~Take
  BY <1>1 DEF T35Expires, Gap, Take
<1>4. CASE \/ Run \/ WriteRegister \/ BlockEnds \/ Send \/ AwaitTxCplt \/ TxTimeout
           \/ TransmissionOver \/ TxCplt \/ HostWrites \/ StandbyReads \/ UNCHANGED vars
  <2>1. UNCHANGED <<t35, listening>> /\ spc' # "take"
    BY <1>1, <1>4 DEF Run, WriteRegister, BlockEnds, Send, AwaitTxCplt, TxTimeout, TransmissionOver,
                      TxCplt, HostWrites, StandbyReads, vars
  <2> QED  BY <1>1, <2>1 DEF Deaf
<1> QED  BY <1>2, <1>3, <1>4 DEF Next, Line, Timer, Task

\* The upsets pay for what they spoil, as long as the slave is not deaf.
LEMMA NextPays ==
  ASSUME IInv, IInv', LineInvariant, LineInvariant', [Next]_vars, ~Deaf, UpsetsPay
  PROVE  UpsetsPay'
<1>0. TypeOK /\ TypeOK' /\ upsets \in Nat /\ asked \in Nat
  <2>1. TypeOK /\ TypeOK'
    BY DEF IInv
  <2> QED  BY <2>1, LineParts
<1> DEFINE n == Cardinality(Spoiled)
           m == Cardinality(Spoiled')
<1>1. IsFiniteSet(Spoiled) /\ n \in Nat
  BY <1>0, SpoiledIsFinite
<1>2. IsFiniteSet(Spoiled \cup {asked}) /\ Cardinality(Spoiled \cup {asked}) <= n + 1
      /\ Cardinality(Spoiled \cup {asked}) \in Nat
  BY <1>1, FS_AddElement, FS_CardinalityType
<1>3. m \in Nat /\ m <= n + 1 /\ (Spoiled' \subseteq Spoiled => m <= n)
  <2>1. Spoiled' \subseteq Spoiled \cup {asked}
    BY <1>0, SpoiledGrows
  <2>2. m \in Nat /\ m <= Cardinality(Spoiled \cup {asked})
    BY <1>2, <2>1, FS_Subset, FS_CardinalityType
  <2>3. Spoiled' \subseteq Spoiled => m <= n
    BY <1>1, FS_Subset
  <2> HIDE DEF n, m
  <2> QED  BY <1>1, <1>2, <2>2, <2>3
<1>4. \/ n + 2 <= 2 * upsets
      \/ n + 1 <= 2 * upsets /\ OneAtRisk
      \/ n <= 2 * upsets /\ InStep
  BY DEF UpsetsPay
<1>5. upsets' = upsets \/ upsets' = upsets + 1
  BY OneUpset
<1>6. upsets' = upsets =>
        /\ InStep => InStep' /\ Spoiled' \subseteq Spoiled
        /\ OneAtRisk => OneAtRisk' \/ InStep'
        /\ ~(Spoiled' \subseteq Spoiled) => OneAtRisk' /\ (OneAtRisk => InStep')
  BY NextKeepsStep, QuietGrowth DEF KeepsStep
<1>7. upsets' # upsets /\ InStep /\ ~(Spoiled' \subseteq Spoiled) => OneAtRisk'
  BY UpsetGrowth
<1>8. \/ m + 2 <= 2 * upsets'
      \/ m + 1 <= 2 * upsets' /\ OneAtRisk'
      \/ m <= 2 * upsets' /\ InStep'
  <2> HIDE DEF n, m
  <2>1. CASE upsets' = upsets
    BY <1>0, <1>1, <1>3, <1>4, <1>6, <2>1
  <2>2. CASE upsets' = upsets + 1
    BY <1>0, <1>1, <1>3, <1>4, <1>7, <2>2
  <2> QED  BY <1>5, <2>1, <2>2
<1> QED  BY <1>8 DEF UpsetsPay

\* The invariant of the line, and what the upsets pay for, with the types.
LEMMA PaidFor == Spec => [](IInv /\ LineInvariant /\ (Deaf \/ UpsetsPay))
<1>1. Init => LineInvariant /\ UpsetsPay
  <2> SUFFICES ASSUME Init PROVE LineInvariant /\ UpsetsPay
    OBVIOUS
  <2>1. /\ asked = 0 /\ out = 0 /\ Size = 0 /\ open = FALSE /\ ring = <<>> /\ t35 = FALSE
        /\ spc = "wait" /\ busy = FALSE /\ upsets = 0
    BY DEF Init, Size
  <2>2. LineInvariant
    BY <2>1 DEF LineInvariant
  <2>3. Spoiled = {}
    BY <2>1 DEF Spoiled, Settled
  <2>4. InStep
    BY <2>1 DEF InStep, Sent, RingClears, ComesToRest
  <2>5. Cardinality(Spoiled) <= 2 * upsets
    BY <2>1, <2>3, FS_EmptySet
  <2> QED  BY <2>2, <2>4, <2>5 DEF UpsetsPay
<1>2. IInv /\ IInv' /\ LineInvariant /\ (Deaf \/ UpsetsPay) /\ [Next]_vars =>
        LineInvariant' /\ (Deaf \/ UpsetsPay)'
  <2> SUFFICES ASSUME IInv, IInv', LineInvariant, Deaf \/ UpsetsPay, [Next]_vars
               PROVE  LineInvariant' /\ (Deaf' \/ UpsetsPay')
    OBVIOUS
  <2>1. LineInvariant'
    BY LineStep DEF IInv
  <2> QED  BY <2>1, DeafStays, NextPays
<1> QED  BY <1>1, <1>2, IInvHolds, PTL DEF Spec

\* Whatever the requests, the sizes and the number of upsets, overruns among them: an
\* upset costs the answers of two requests at most, as long as no overrun has ended
\* the reception with no T35 to come that arms it again.
THEOREM UpsetCostsTwo == Spec => []UpsetsSpoilFew
<1>1. IInv /\ (Deaf \/ UpsetsPay) => UpsetsSpoilFew
  <2> SUFFICES ASSUME IInv, ~Deaf, UpsetsPay PROVE UpsetsSpoilFew
    BY DEF UpsetsSpoilFew
  <2>1. Cardinality(Spoiled) \in Nat /\ upsets \in Nat
    BY SpoiledIsFinite, LineParts DEF IInv
  <2>2. Cardinality(Spoiled) <= 2 * upsets
    BY <2>1 DEF UpsetsPay
  <2> QED  BY <2>2 DEF UpsetsSpoilFew, Spoiled
<1> QED  BY <1>1, PaidFor, PTL
=============================================================================
