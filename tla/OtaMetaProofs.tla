---------------------------- MODULE OtaMetaProofs ---------------------------
(***************************************************************************)
(* Proofs about OtaMeta, for every number of boot attempts: the invariants *)
(* and that the control area implements one cell (OtaCell).                *)
(*                                                                         *)
(* The argument: only sound records naming the running slot are ever       *)
(* programmed while the application runs, and a last word that was there   *)
(* when a write began was erased by it.                                    *)
(***************************************************************************)
EXTENDS OtaMeta, TLAPS

Writing == {"w1", "w2", "w3"}

\* A record that the application may program.
Programmable(rec) ==
  /\ rec \in Records
  /\ SoundRecord(rec)
  /\ rec.active_slot = running

\* What the two writers are about to program.
CopiesSound ==
  /\ at.step # "idle" => on /\ Programmable(at.rec)
  /\ cpc \in {"erase"} \cup Writing => on /\ Programmable(ccopy)

\* A record in the last word is sound, and names the running slot if it is
\* readable or a write has gone past its erase.
LastWordSound ==
  /\ words[3] \in Records => SoundRecord(words[3])
  /\ /\ on
     /\ words[3] \in Records
     /\ Readable \/ cpc \in Writing \/ at.step \in Writing \cup {"saved"}
     => words[3].active_slot = running

\* The interrupt is not interrupted: it programs an area it has erased.
InterruptAlone ==
  /\ at.step = "w1" => words = Blank
  /\ at.step = "w2" => words = [Blank EXCEPT ![1] = Slice(1, at.rec)]
  /\ at.step = "w3" => words = [Blank EXCEPT ![1] = Slice(1, at.rec), ![2] = Slice(2, at.rec)]
  /\ at.step = "saved" => words = Whole(at.rec)

\* The inductive invariant.
IInv ==
  /\ TypeOK
  /\ CopiesSound
  /\ LastWordSound
  /\ InterruptAlone

-----------------------------------------------------------------------------
(* Records and areas.                                                      *)

\* The three parts of a record have their types.
LEMMA SliceTypes ==
  ASSUME NEW rec \in Records
  PROVE  Slice(1, rec) \in Heads /\ Slice(2, rec) \in States /\ Slice(3, rec) = rec
BY DEF Slice, Heads, Records

\* An area with an erased or damaged word holds no readable record.
LEMMA DamagedIsUnreadable ==
  ASSUME NEW w, IsArea(w), NEW i \in 1 .. 3, w[i] \in {Erased, Garbage}
  PROVE  ~MetaIsValid(w)
<1> SUFFICES ASSUME MetaIsValid(w) PROVE FALSE
  OBVIOUS
<1>1. w[3] \in Records
  BY DEF MetaIsValid, IsArea
<1>2. w[1] \in Heads /\ w[2] \in States
  BY <1>1, SliceTypes DEF MetaIsValid
<1>3. w[1] \notin {Erased, Garbage} /\ w[2] \notin {Erased, Garbage} /\ w[3] \notin {Erased, Garbage}
  BY <1>1, <1>2, FlashAssumption
<1> QED
  BY <1>3

\* What a reader obtains from a readable area is a record.
LEMMA ReadableIsRecord ==
  ASSUME NEW w, IsArea(w), MetaIsValid(w)
  PROVE  w[3] \in Records
BY DEF MetaIsValid, IsArea

\* An area that a write has filled can be read back.
LEMMA WholeIsValid ==
  ASSUME NEW rec \in Records
  PROVE  IsArea(Whole(rec)) /\ MetaIsValid(Whole(rec)) /\ Whole(rec)[3] = rec
<1>1. Whole(rec)[1] = Slice(1, rec) /\ Whole(rec)[2] = Slice(2, rec) /\ Whole(rec)[3] = Slice(3, rec)
  BY DEF Whole
<1>2. Whole(rec) = [i \in 1 .. 3 |-> Whole(rec)[i]]
  BY DEF Whole
<1>3. rec \notin {Erased, Garbage}
  BY FlashAssumption
<1> QED
  BY <1>1, <1>2, <1>3, SliceTypes DEF IsArea, MetaIsValid

\* The erased area is an area.
LEMMA BlankIsArea == IsArea(Blank) /\ Blank[3] = Erased
BY DEF IsArea, Blank

\* Changing one word leaves an area.
LEMMA WordChanged ==
  ASSUME NEW w, IsArea(w), NEW rec \in Records, NEW i \in 1 .. 3,
         NEW x, x = Garbage \/ x = Slice(i, rec),
         NEW v, v = [w EXCEPT ![i] = x]
  PROVE  IsArea(v)
<1>1. v = [j \in 1 .. 3 |-> IF j = i THEN x ELSE w[j]]
  BY DEF IsArea
<1>2. v = [j \in 1 .. 3 |-> v[j]]
  BY <1>1
<1>3. v[i] = x /\ \A j \in (1 .. 3) \ {i} : v[j] = w[j]
  BY <1>1
<1>4. i = 1 \/ i = 2 \/ i = 3
  OBVIOUS
<1>5. CASE i = 1
  BY <1>2, <1>3, <1>5, SliceTypes DEF IsArea
<1>6. CASE i = 2
  BY <1>2, <1>3, <1>6, SliceTypes DEF IsArea
<1>7. CASE i = 3
  BY <1>2, <1>3, <1>7, SliceTypes DEF IsArea
<1> QED
  BY <1>4, <1>5, <1>6, <1>7

-----------------------------------------------------------------------------
(* The records that are composed.                                          *)

\* A record without a request is a sound record.
LEMMA SettledSound ==
  ASSUME NEW slot \in Slots, NEW state \in States
  PROVE  /\ Settled(slot, state) \in Records
         /\ SoundRecord(Settled(slot, state))
         /\ Settled(slot, state).active_slot = slot
BY OtaAssumption DEF Settled, Records, SoundRecord, NONE

\* The base of every AT command is programmable.
LEMMA BaseProgrammable ==
  ASSUME IInv, on
  PROVE  Programmable(Base)
<1> USE DEF IInv, TypeOK
<1>1. CASE Readable
  <2>1. Stored \in Records
    BY <1>1, ReadableIsRecord DEF Readable, Stored
  <2> QED
    BY <1>1, <2>1 DEF Base, Programmable, LastWordSound, Stored
<1>2. CASE ~Readable
  <2>1. [s \in Slots |-> IF s = running THEN "valid" ELSE "empty"] \in States
    BY DEF States
  <2>2. running \in Slots
    OBVIOUS
  <2> QED
    BY <1>2, <2>1, <2>2, SettledSound DEF Base, Programmable, MakeDefault
<1> QED
  BY <1>1, <1>2

\* The other slot is a slot.
LEMMA OtherIsSlot == \A s \in Slots : Other(s) \in Slots
BY DEF Slots, Other

\* Every AT command composes a programmable record.
LEMMA ComposedProgrammable ==
  ASSUME IInv, on, NEW op \in Commands
  PROVE  Programmable(Composed(op))
<1>1. Programmable(Base) /\ Base \in Records /\ running \in Slots
  BY BaseProgrammable DEF IInv, TypeOK, Programmable
<1> HIDE DEF Base
<1>2. Programmable(BootRequest)
  <2>1. BootRequest \in Records
    BY <1>1, OtherIsSlot, OtaAssumption DEF BootRequest, Records, States
  <2>2. SoundRecord(BootRequest) /\ BootRequest.active_slot = running
    BY <1>1 DEF BootRequest, SoundRecord, Records, States
  <2> QED
    BY <2>1, <2>2 DEF Programmable
<1>3. Programmable(Confirmed)
  <2>1. [Base.state EXCEPT ![running] = "valid"] \in States
    BY <1>1 DEF Records, States
  <2> QED
    BY <1>1, <2>1, SettledSound DEF Programmable, Confirmed
<1>4. Programmable(Cleared)
  <2>1. Base.active_slot = running /\ Base.state \in States
    BY <1>1 DEF Records, Programmable
  <2> QED
    BY <1>1, <2>1, SettledSound DEF Programmable, Cleared
<1> QED
  BY <1>2, <1>3, <1>4 DEF Composed, Commands

\* The bootloader replaces a sound record by a sound one.
LEMMA BootedSound ==
  ASSUME NEW rec \in Records, SoundRecord(rec), NEW new \in Booted(rec)
  PROVE  new \in Records /\ SoundRecord(new)
<1> DEFINE plain == [rec EXCEPT !.ota_request = NONE, !.target_slot = NONE]
<1> DEFINE again == [rec EXCEPT !.boot_count = @ + 1]
<1> DEFINE tried(slot) == Settled(slot, [rec.state EXCEPT ![slot] = "pending"])
<1> DEFINE back == Settled(Other(rec.active_slot), [rec.state EXCEPT ![rec.active_slot] = "empty"])
<1>1. plain \in Records /\ SoundRecord(plain)
  BY DEF Records, SoundRecord, NONE
<1>2. CASE rec.ota_request = "update"
  <2>1. rec.target_slot \in Slots
    BY <1>2, OtherIsSlot DEF SoundRecord, Records
  <2>2. [rec.state EXCEPT ![rec.target_slot] = "pending"] \in States
    BY DEF Records, States
  <2>3. tried(rec.target_slot) \in Records /\ SoundRecord(tried(rec.target_slot))
    BY <2>1, <2>2, SettledSound
  <2>4. Booted(rec) = {plain, tried(rec.target_slot)}
    BY <1>2, Zenon DEF Booted, NONE
  <2> QED
    BY <1>1, <2>3, <2>4
<1>3. CASE rec.ota_request = NONE /\ rec.state[rec.active_slot] = "pending"
  <2>1. CASE rec.boot_count < MaxAttempts
    <3>1. again \in Records /\ SoundRecord(again)
      BY <1>3, <2>1, OtaAssumption DEF Records, SoundRecord, NONE
    <3> QED
      BY <1>3, <2>1, <3>1 DEF Booted, NONE
  <2>2. CASE ~(rec.boot_count < MaxAttempts)
    <3>1. [rec.state EXCEPT ![rec.active_slot] = "empty"] \in States
      BY DEF Records, States
    <3>2. Other(rec.active_slot) \in Slots
      BY OtherIsSlot DEF Records
    <3> QED
      BY <1>3, <2>2, <3>1, <3>2, SettledSound DEF Booted, NONE
  <2> QED
    BY <2>1, <2>2
<1>4. CASE ~(rec.ota_request = "update") /\ ~(rec.ota_request = NONE /\ rec.state[rec.active_slot] = "pending")
  BY <1>4 DEF Booted
<1> QED
  BY <1>2, <1>3, <1>4

-----------------------------------------------------------------------------
(* Flash operations.                                                       *)

\* Programming a word leaves in it the slice of the record, or damage.
LEMMA ProgramOutcome ==
  ASSUME NEW i \in 1 .. 3, NEW rec \in Records, IsArea(words), Program(i, rec)
  PROVE  /\ IsArea(words')
         /\ words'[i] \in {Garbage, Slice(i, rec)}
         /\ \A j \in (1 .. 3) \ {i} : words'[j] = words[j]
         /\ words'[i] = Garbage \/ words[i] \in {Erased, words'[i]}
<1>1. CASE words[i] \in {Erased, Slice(i, rec)} /\ words' = [words EXCEPT ![i] = Slice(i, rec)]
  <2>1. IsArea(words')
    BY <1>1, WordChanged, Zenon
  <2>2. words'[i] = Slice(i, rec) /\ \A j \in (1 .. 3) \ {i} : words'[j] = words[j]
    BY <1>1 DEF IsArea
  <2> QED
    BY <1>1, <2>1, <2>2
<1>2. CASE words' = [words EXCEPT ![i] = Garbage]
  <2>1. IsArea(words')
    BY <1>2, WordChanged, Zenon
  <2>2. words'[i] = Garbage /\ \A j \in (1 .. 3) \ {i} : words'[j] = words[j]
    BY <1>2 DEF IsArea
  <2> QED
    BY <1>2, <2>1, <2>2
<1> QED
  BY <1>1, <1>2 DEF Program

\* Programming an erased word succeeds.
LEMMA ProgramErased ==
  ASSUME NEW i \in 1 .. 3, NEW rec \in Records, Program(i, rec), words[i] = Erased
  PROVE  words' = [words EXCEPT ![i] = Slice(i, rec)]
BY DEF Program

\* A failing operation leaves the area alone, erases it, or damages the word
\* it was programming.
LEMMA FailsOutcome ==
  ASSUME NEW step \in {"erase"} \cup Writing, NEW rec \in Records, IsArea(words), Fails(step)
  PROVE  /\ IsArea(words')
         /\ \/ words' = words
            \/ words' = Blank
            \/ /\ step \in Writing
               /\ words'[3] \in {words[3], Garbage}
               /\ \E i \in 1 .. 3 : words'[i] = Garbage
<1>1. CASE UNCHANGED words
  BY <1>1
<1>2. CASE step = "erase" /\ words' = Blank
  BY <1>2, BlankIsArea
<1>3. CASE step \in Writing /\ words' = [words EXCEPT ![WordOf[step]] = Garbage]
  <2> DEFINE i == WordOf[step]
  <2>1. i \in 1 .. 3
    BY <1>3 DEF WordOf, Writing
  <2> HIDE DEF i
  <2>2. words' = [words EXCEPT ![i] = Garbage]
    BY <1>3 DEF i
  <2>3. IsArea(words')
    BY <2>1, <2>2, WordChanged, Zenon
  <2>a. words'[i] = Garbage /\ \A j \in (1 .. 3) \ {i} : words'[j] = words[j]
    BY <2>1, <2>2 DEF IsArea
  <2>4. words'[3] \in {words[3], Garbage}
    BY <2>1, <2>a
  <2> QED
    BY <1>3, <2>1, <2>3, <2>a, <2>4
<1> QED
  BY <1>1, <1>2, <1>3 DEF Fails, Writing

-----------------------------------------------------------------------------
(* The invariant.                                                          *)

\* It holds at first.
LEMMA InitInv == Init => IInv
<1> SUFFICES ASSUME Init PROVE IInv
  OBVIOUS
<1>1. IsArea(words) /\ (words[3] \in Records =>
                          SoundRecord(words[3]) /\ words[3].active_slot = running)
  <2>1. CASE words = Blank
    BY <2>1, BlankIsArea, FlashAssumption
  <2>2. CASE words # Blank
    <3>1. PICK s \in {"valid", "pending"} :
            words = Whole(Settled("A", [slot \in Slots |-> IF slot = "A" THEN s ELSE "valid"]))
      BY <2>2 DEF Init
    <3>2. [slot \in Slots |-> IF slot = "A" THEN s ELSE "valid"] \in States /\ "A" \in Slots
      BY DEF States, Slots
    <3>3. running = "A"
      BY DEF Init
    <3> QED
      BY <3>1, <3>2, <3>3, SettledSound, WholeIsValid
  <2> QED
    BY <2>1, <2>2
<1>2. TypeOK
  BY <1>1 DEF Init, TypeOK, AtIdle, Slots
<1>3. CopiesSound /\ LastWordSound /\ InterruptAlone
  BY <1>1 DEF Init, CopiesSound, LastWordSound, InterruptAlone, Writing
<1> QED
  BY <1>2, <1>3 DEF IInv

\* The steps of an AT command preserve it.
LEMMA AtInv == IInv /\ AtStep => IInv'
<1> SUFFICES ASSUME IInv, AtStep PROVE IInv'
  OBVIOUS
<1> USE DEF IInv, TypeOK
<1>1. CASE AtStarts
  <2>1. PICK op \in Commands : at' = [step |-> "erase", op |-> op, rec |-> Composed(op)]
    BY <1>1 DEF AtStarts
  <2>2. Programmable(Composed(op)) /\ Composed(op) \in Records
    BY <1>1, ComposedProgrammable DEF AtStarts, Programmable
  <2> HIDE DEF IInv, TypeOK
  <2>4. TypeOK'
    BY <1>1, <2>1, <2>2 DEF AtStarts, IInv, TypeOK
  <2>5. CopiesSound'
    BY <1>1, <2>1, <2>2 DEF AtStarts, IInv, CopiesSound, Programmable, Writing
  <2>6. LastWordSound' /\ InterruptAlone'
    BY <1>1, <2>1 DEF AtStarts, IInv, LastWordSound, InterruptAlone, Readable, Writing
  <2> QED
    BY <2>4, <2>5, <2>6 DEF IInv
<1>2. CASE AtErases
  <2>1. TypeOK'
    BY <1>2, BlankIsArea DEF AtErases, Erase
  <2>2. CopiesSound'
    BY <1>2 DEF AtErases, CopiesSound, Programmable, Writing
  <2>3. LastWordSound' /\ InterruptAlone'
    BY <1>2, BlankIsArea, FlashAssumption DEF AtErases, Erase, LastWordSound, InterruptAlone
  <2> QED
    BY <2>1, <2>2, <2>3
<1>3. CASE AtPrograms
  <2>1. at.rec \in Records /\ SoundRecord(at.rec) /\ at.rec.active_slot = running /\ at.step \in Writing
    BY <1>3 DEF AtPrograms, CopiesSound, Programmable, Writing
  <2>2. PICK n \in 1 .. 3 : Program(n, at.rec)
    BY <1>3 DEF AtPrograms
  <2>3. IsArea(words') /\ words'[3] \in {words[3], Garbage, at.rec}
    BY <2>1, <2>2, ProgramOutcome, SliceTypes
  <2>4. TypeOK'
    BY <1>3, <2>3 DEF AtPrograms
  <2>5. CopiesSound'
    BY <1>3 DEF AtPrograms, CopiesSound, Programmable, Writing
  <2>6. LastWordSound'
    BY <1>3, <2>1, <2>3, FlashAssumption DEF AtPrograms, LastWordSound
  <2>7. InterruptAlone'
    <3>1. CASE at.step = "w1"
      <4>1. words[1] = Erased /\ words = Blank /\ Program(1, at.rec) /\ at' = [at EXCEPT !.step = "w2"]
        BY <1>3, <3>1 DEF AtPrograms, InterruptAlone, Blank
      <4>2. words' = [Blank EXCEPT ![1] = Slice(1, at.rec)]
        BY <2>1, <4>1, ProgramErased
      <4> QED
        BY <4>1, <4>2 DEF InterruptAlone
    <3>2. CASE at.step = "w2"
      <4>1. /\ words = [Blank EXCEPT ![1] = Slice(1, at.rec)]
            /\ Program(2, at.rec)
            /\ at' = [at EXCEPT !.step = "w3"]
        BY <1>3, <3>2 DEF AtPrograms, InterruptAlone
      <4>2. words[2] = Erased
        BY <4>1 DEF Blank
      <4>3. words' = [words EXCEPT ![2] = Slice(2, at.rec)]
        BY <2>1, <4>1, <4>2, ProgramErased
      <4> QED
        BY <4>1, <4>3 DEF InterruptAlone
    <3>3. CASE at.step = "w3"
      <4>1. /\ words = [Blank EXCEPT ![1] = Slice(1, at.rec), ![2] = Slice(2, at.rec)]
            /\ Program(3, at.rec)
            /\ at' = [at EXCEPT !.step = "saved"]
        BY <1>3, <3>3 DEF AtPrograms, InterruptAlone
      <4>2. words[3] = Erased
        BY <4>1 DEF Blank
      <4> DEFINE rec == at.rec
      <4>a. rec \in Records /\ 3 \in 1 .. 3
        BY <2>1
      <4> HIDE DEF rec
      <4>3. words' = [words EXCEPT ![3] = Slice(3, rec)]
        BY <4>1, <4>2, <4>a, ProgramErased DEF rec
      <4>4. words' = Whole(rec)
        <5>1. words = [i \in 1 .. 3 |-> IF i = 1 THEN Slice(1, rec)
                                        ELSE IF i = 2 THEN Slice(2, rec) ELSE Erased]
          BY <4>1 DEF Blank, rec
        <5>2. words' = [i \in 1 .. 3 |-> IF i = 3 THEN Slice(3, rec) ELSE words[i]]
          BY <4>3, <5>1
        <5>3. \A i \in 1 .. 3 : (IF i = 3 THEN Slice(3, rec) ELSE words[i]) = Slice(i, rec)
          <6>1. words[1] = Slice(1, rec) /\ words[2] = Slice(2, rec)
            BY <5>1
          <6>2. \A i \in 1 .. 3 : i = 1 \/ i = 2 \/ i = 3
            OBVIOUS
          <6> QED
            BY <6>1, <6>2
        <5> QED
          BY <5>2, <5>3 DEF Whole
      <4> QED
        BY <4>1, <4>4 DEF InterruptAlone, rec
    <3> QED
      BY <2>1, <3>1, <3>2, <3>3 DEF Writing
  <2> QED
    BY <2>4, <2>5, <2>6, <2>7
<1>4. CASE AtFails
  <2>1. at.step \in {"erase"} \cup Writing /\ at.rec \in Records /\ on
    BY <1>4 DEF AtFails, Writing, CopiesSound, Programmable
  <2>2. Fails(at.step) /\ at' = AtIdle /\ UNCHANGED <<running, on, cpc, ccopy, acked>>
    BY <1>4 DEF AtFails
  <2>3. IsArea(words')
    BY <2>1, <2>2, FailsOutcome
  <2>4. TypeOK'
    BY <2>2, <2>3 DEF AtIdle
  <2>5. CopiesSound' /\ InterruptAlone'
    BY <2>2 DEF CopiesSound, InterruptAlone, AtIdle, Programmable, Writing
  <2>6. LastWordSound'
    <3>1. CASE words' = words
      BY <2>1, <2>2, <3>1 DEF LastWordSound, Readable, AtIdle, Writing
    <3>2. CASE words' = Blank
      BY <3>2, BlankIsArea, FlashAssumption DEF LastWordSound
    <3>3. CASE at.step \in Writing /\ words'[3] \in {words[3], Garbage}
      BY <2>1, <2>2, <3>3, FlashAssumption DEF LastWordSound
    <3> QED
      BY <2>1, <2>2, <3>1, <3>2, <3>3, FailsOutcome
  <2> QED
    BY <2>4, <2>5, <2>6
<1>5. CASE AtReplies
  <2>1. TypeOK'
    BY <1>5 DEF AtReplies, AtIdle
  <2>2. CopiesSound' /\ InterruptAlone'
    BY <1>5 DEF AtReplies, CopiesSound, InterruptAlone, AtIdle, Programmable, Writing
  <2>3. LastWordSound'
    BY <1>5 DEF AtReplies, LastWordSound, AtIdle, Writing
  <2> QED
    BY <2>1, <2>2, <2>3
<1> QED
  BY <1>1, <1>2, <1>3, <1>4, <1>5 DEF AtStep

\* The steps of the confirm task preserve it.
LEMMA ConfirmInv == IInv /\ ConfirmStep => IInv'
<1> SUFFICES ASSUME IInv, ConfirmStep PROVE IInv'
  OBVIOUS
<1> USE DEF IInv, TypeOK
<1>1. CASE ConfirmReads
  <2> USE DEF NeedsConfirm
  <2>1. CASE Readable /\ Stored.state[Stored.active_slot] = "pending"
    <3> DEFINE copy == Settled(Stored.active_slot,
                               [Stored.state EXCEPT ![Stored.active_slot] = "valid"])
    <3>1. Stored \in Records /\ Stored.active_slot = running
      BY <1>1, <2>1, ReadableIsRecord DEF ConfirmReads, Readable, Stored, LastWordSound
    <3>2. [Stored.state EXCEPT ![Stored.active_slot] = "valid"] \in States /\ Stored.active_slot \in Slots
      BY <3>1 DEF Records, States
    <3>3. copy \in Records /\ Programmable(copy)
      BY <3>1, <3>2, SettledSound DEF Programmable
    <3>4. on /\ cpc' = "erase" /\ ccopy' = copy /\ UNCHANGED <<words, running, on, at, acked>>
      BY <1>1, <2>1 DEF ConfirmReads
    <3> HIDE DEF copy
    <3>5. TypeOK'
      BY <3>3, <3>4
    <3>6. CopiesSound'
      BY <3>3, <3>4 DEF CopiesSound, Programmable, Writing
    <3>7. LastWordSound' /\ InterruptAlone'
      BY <3>4 DEF LastWordSound, InterruptAlone, Readable, Writing
    <3> QED
      BY <3>5, <3>6, <3>7
  <2>2. CASE ~(Readable /\ Stored.state[Stored.active_slot] = "pending")
    <3>1. on /\ cpc' = "done" /\ ccopy' = NoRecord /\ UNCHANGED <<words, running, on, at, acked>>
      BY <1>1, <2>2 DEF ConfirmReads
    <3>2. TypeOK'
      BY <3>1
    <3>3. CopiesSound' /\ LastWordSound' /\ InterruptAlone'
      BY <3>1 DEF CopiesSound, Programmable, LastWordSound, InterruptAlone, Readable, Writing
    <3> QED
      BY <3>2, <3>3
  <2> QED
    BY <2>1, <2>2
<1>2. CASE ConfirmErases
  <2>1. TypeOK'
    BY <1>2, BlankIsArea DEF ConfirmErases, Erase
  <2>2. CopiesSound' /\ InterruptAlone'
    BY <1>2 DEF ConfirmErases, CopiesSound, Programmable, InterruptAlone, Interrupted, Writing
  <2>3. LastWordSound'
    BY <1>2, BlankIsArea, FlashAssumption DEF ConfirmErases, Erase, LastWordSound
  <2> QED
    BY <2>1, <2>2, <2>3
<1>3. CASE ConfirmPrograms
  <2>1. /\ cpc \in Writing /\ on /\ at.step = "idle" /\ cpc' \in {"w2", "w3", "done"}
        /\ ccopy' = (IF cpc' = "done" THEN NoRecord ELSE ccopy)
        /\ UNCHANGED <<running, on, at, acked>>
    BY <1>3 DEF ConfirmPrograms, Interrupted, Writing
  <2>2. ccopy \in Records /\ SoundRecord(ccopy) /\ ccopy.active_slot = running
    BY <2>1 DEF CopiesSound, Programmable
  <2>3. PICK n \in 1 .. 3 : Program(n, ccopy)
    BY <1>3 DEF ConfirmPrograms
  <2>4. IsArea(words') /\ words'[3] \in {words[3], Garbage, ccopy}
    BY <2>2, <2>3, ProgramOutcome, SliceTypes
  <2>5. TypeOK'
    BY <2>1, <2>4
  <2>6. CopiesSound' /\ InterruptAlone'
    BY <2>1 DEF CopiesSound, Programmable, InterruptAlone, Writing
  <2>7. LastWordSound'
    BY <2>1, <2>2, <2>4, FlashAssumption DEF LastWordSound
  <2> QED
    BY <2>5, <2>6, <2>7
<1>4. CASE ConfirmFails
  <2>1. /\ cpc \in {"erase"} \cup Writing /\ on /\ at.step = "idle" /\ Fails(cpc)
        /\ cpc' = "done" /\ ccopy' = NoRecord /\ UNCHANGED <<running, on, at, acked>>
    BY <1>4 DEF ConfirmFails, Interrupted, Writing
  <2>2. ccopy \in Records
    BY <2>1 DEF CopiesSound, Programmable
  <2>3. IsArea(words')
    BY <2>1, <2>2, FailsOutcome
  <2>4. TypeOK'
    BY <2>1, <2>3
  <2>5. CopiesSound' /\ InterruptAlone'
    BY <2>1 DEF CopiesSound, InterruptAlone, Writing
  <2>6. LastWordSound'
    <3>1. CASE words' = words
      BY <2>1, <3>1 DEF LastWordSound, Readable, Writing
    <3>2. CASE words' = Blank
      BY <3>2, BlankIsArea, FlashAssumption DEF LastWordSound
    <3>3. CASE cpc \in Writing /\ words'[3] \in {words[3], Garbage}
      BY <2>1, <3>3, FlashAssumption DEF LastWordSound
    <3> QED
      BY <2>1, <2>2, <3>1, <3>2, <3>3, FailsOutcome
  <2> QED
    BY <2>4, <2>5, <2>6
<1> QED
  BY <1>1, <1>2, <1>3, <1>4 DEF ConfirmStep

\* What the bootloader does with a readable record.
LEMMA BootOutcome ==
  ASSUME IInv, Boot, Readable
  PROVE  \E rec \in Records : /\ SoundRecord(rec)
                             /\ words' = Whole(rec)
                             /\ running' = rec.active_slot
<1>1. PICK rec \in Booted(Stored) : words' = Whole(rec) /\ running' = rec.active_slot
  BY DEF Boot
<1>2. Stored \in Records /\ SoundRecord(Stored)
  BY ReadableIsRecord DEF IInv, TypeOK, Readable, Stored, LastWordSound
<1>3. rec \in Records /\ SoundRecord(rec)
  BY <1>2, BootedSound
<1> QED
  BY <1>1, <1>3

\* A reset and the bootloader preserve the invariant.
LEMMA RestartInv == IInv /\ (Reset \/ Boot) => IInv'
<1> SUFFICES ASSUME IInv, Reset \/ Boot PROVE IInv'
  OBVIOUS
<1> USE DEF IInv, TypeOK
<1>1. CASE Reset
  <2>1. TypeOK'
    BY <1>1 DEF Reset, AtIdle
  <2>2. CopiesSound' /\ LastWordSound' /\ InterruptAlone'
    BY <1>1 DEF Reset, AtIdle, CopiesSound, LastWordSound, InterruptAlone, Writing
  <2> QED
    BY <2>1, <2>2
<1>2. CASE Boot
  <2>1. /\ at.step = "idle" /\ cpc \notin {"erase"} \cup Writing
        /\ on' = TRUE /\ UNCHANGED <<at, cpc, ccopy, acked>>
    BY <1>2 DEF Boot, CopiesSound
  <2>2. CopiesSound' /\ InterruptAlone'
    BY <2>1 DEF CopiesSound, InterruptAlone
  <2>3. CASE Readable
    <3>1. PICK rec \in Records : /\ SoundRecord(rec)
                                 /\ words' = Whole(rec)
                                 /\ running' = rec.active_slot
      BY <1>2, <2>3, BootOutcome
    <3>2. IsArea(words') /\ words'[3] = rec /\ rec.active_slot \in Slots
      BY <3>1, WholeIsValid DEF Records
    <3>3. TypeOK'
      BY <2>1, <3>1, <3>2
    <3>4. LastWordSound'
      BY <3>1, <3>2 DEF LastWordSound
    <3> QED
      BY <2>2, <3>3, <3>4
  <2>4. CASE ~Readable
    <3>1. running' \in Slots /\ UNCHANGED words
      BY <1>2, <2>4 DEF Boot
    <3>2. TypeOK'
      BY <2>1, <3>1
    <3>3. LastWordSound'
      BY <2>1, <2>4, <3>1 DEF LastWordSound, Readable, Writing
    <3> QED
      BY <2>2, <3>2, <3>3
  <2> QED
    BY <2>3, <2>4
<1> QED
  BY <1>1, <1>2

\* Every step preserves the invariant.
LEMMA NextInv == IInv /\ [Next]_vars => IInv'
<1> SUFFICES ASSUME IInv, [Next]_vars PROVE IInv'
  OBVIOUS
<1>1. CASE UNCHANGED vars
  BY <1>1 DEF vars, IInv, TypeOK, CopiesSound, Programmable, LastWordSound, InterruptAlone, Readable
<1> QED
  BY <1>1, AtInv, ConfirmInv, RestartInv DEF Next

\* The invariant holds in every reachable state.
THEOREM InvariantHolds == Spec => []IInv
BY InitInv, NextInv, PTL DEF Spec

\* Type correctness.
THEOREM TypeCorrect == Spec => []TypeOK
<1>1. IInv => TypeOK
  BY DEF IInv
<1> QED
  BY <1>1, InvariantHolds, PTL

-----------------------------------------------------------------------------
(* An acknowledged request stays.                                          *)

\* A request in the interrupt and one that was acknowledged ask for an update
\* and have the running image marked valid, so that the confirm task, when it
\* begins after the acknowledgement, has nothing to confirm.
RequestKept ==
  /\ at.step # "idle" /\ at.op = "OTAREQUEST"
       => at.rec.ota_request = "update" /\ at.rec.state[running] = "valid"
  /\ acked => /\ on
              /\ at.step = "idle"
              /\ cpc \in {"timer", "done"}
              /\ Readable
              /\ Stored.ota_request = "update"
              /\ Stored.state[running] = "valid"

\* The record that AT+OTAREQUEST composes.
LEMMA RequestAsks ==
  ASSUME IInv, on
  PROVE  BootRequest.ota_request = "update" /\ BootRequest.state[running] = "valid"
<1>1. Base \in Records /\ running \in Slots
  BY BaseProgrammable DEF IInv, TypeOK, Programmable
<1> HIDE DEF Base
<1> QED
  BY <1>1 DEF BootRequest, Records, States

\* The steps of an AT command keep what was requested.
LEMMA AtKeepsRequest == IInv /\ RequestKept /\ AtStep => RequestKept'
<1> SUFFICES ASSUME IInv, RequestKept, AtStep PROVE RequestKept'
  OBVIOUS
<1> USE DEF RequestKept
<1>1. at \in [step : {"idle", "erase", "w1", "w2", "w3", "saved"},
              op : Commands \cup {NONE}, rec : Records \cup {NoRecord}]
  BY DEF IInv, TypeOK
<1>2. CASE AtStarts
  <2>1. PICK op \in Commands : at' = [step |-> "erase", op |-> op, rec |-> Composed(op)]
    BY <1>2 DEF AtStarts
  <2>2. on /\ acked' = FALSE /\ running' = running
    BY <1>2 DEF AtStarts
  <2>3. op = "OTAREQUEST" => Composed(op) = BootRequest
    BY DEF Composed
  <2>4. BootRequest.ota_request = "update" /\ BootRequest.state[running] = "valid"
    BY <2>2, RequestAsks
  <2> HIDE DEF BootRequest, Composed
  <2> QED
    BY <2>1, <2>2, <2>3, <2>4
<1>3. CASE AtErases \/ AtPrograms
  <2>1. /\ at.step # "idle" /\ acked' = acked /\ running' = running
        /\ at'.op = at.op /\ at'.rec = at.rec
    BY <1>1, <1>3 DEF AtErases, AtPrograms
  <2> QED
    BY <2>1
<1>4. CASE AtFails
  BY <1>4 DEF AtFails, AtIdle
<1>5. CASE AtReplies
  <2>1. /\ on /\ at.step = "saved" /\ at' = AtIdle
        /\ acked' = (at.op = "OTAREQUEST" /\ cpc \in {"timer", "done"})
        /\ UNCHANGED <<words, running, on, cpc, ccopy>>
    BY <1>5 DEF AtReplies
  <2>2. at.rec \in Records /\ words = Whole(at.rec)
    BY <2>1 DEF IInv, CopiesSound, Programmable, InterruptAlone
  <2>3. Readable /\ Stored = at.rec
    BY <2>2, WholeIsValid DEF Readable, Stored
  <2>4. Readable' /\ Stored' = at.rec
    BY <2>1, <2>3 DEF Readable, Stored
  <2> QED
    BY <2>1, <2>4 DEF AtIdle
<1> QED
  BY <1>2, <1>3, <1>4, <1>5 DEF AtStep

\* The confirm task does not withdraw it.
LEMMA ConfirmKeepsRequest == IInv /\ RequestKept /\ ConfirmStep => RequestKept'
<1> SUFFICES ASSUME IInv, RequestKept, ConfirmStep PROVE RequestKept'
  OBVIOUS
<1>1. on /\ at.step = "idle" /\ UNCHANGED <<running, on, at, acked>>
  BY DEF ConfirmStep, ConfirmReads, ConfirmErases, ConfirmPrograms, ConfirmFails, Interrupted
<1>2. SUFFICES ASSUME acked
               PROVE  /\ cpc' \in {"timer", "done"}
                      /\ Readable'
                      /\ Stored'.ota_request = "update"
                      /\ Stored'.state[running] = "valid"
  BY <1>1 DEF RequestKept
<1>3. /\ cpc \in {"timer", "done"} /\ Readable
      /\ Stored.ota_request = "update" /\ Stored.state[running] = "valid"
  BY <1>2 DEF RequestKept
<1>4. ConfirmReads
  BY <1>3 DEF ConfirmStep, ConfirmErases, ConfirmPrograms, ConfirmFails
<1>5. Stored.active_slot = running
  BY <1>1, <1>3, ReadableIsRecord DEF IInv, TypeOK, LastWordSound, Readable, Stored
<1>6. cpc' = "done" /\ words' = words
  BY <1>3, <1>4, <1>5 DEF ConfirmReads, NeedsConfirm
<1> QED
  BY <1>3, <1>6 DEF Readable, Stored

\* However the AT commands, the confirm task, failing flash operations and
\* power failures interleave, a request acknowledged outside the confirm task's
\* write can be read, and asks for the slot that does not run, until the next
\* OTA command or reset.
THEOREM RequestStays == Spec => []AcknowledgedRequestStays
<1>1. Init => RequestKept
  BY DEF Init, RequestKept
<1>2. IInv /\ RequestKept /\ [Next]_vars => RequestKept'
  <2>1. CASE UNCHANGED vars
    BY <2>1 DEF vars, RequestKept, Readable, Stored
  <2>2. CASE Reset
    BY <2>2 DEF Reset, AtIdle, RequestKept
  <2>3. CASE Boot
    BY <2>3 DEF Boot, RequestKept, IInv, CopiesSound
  <2> QED
    BY <2>1, <2>2, <2>3, AtKeepsRequest, ConfirmKeepsRequest DEF Next
<1>3. IInv /\ RequestKept => AcknowledgedRequestStays
  <2> SUFFICES ASSUME IInv, RequestKept, acked
               PROVE  /\ Readable
                      /\ Stored.ota_request = "update"
                      /\ Stored.target_slot = Other(running)
    BY DEF AcknowledgedRequestStays
  <2>1. on /\ Readable /\ Stored.ota_request = "update"
    BY DEF RequestKept
  <2>2. Stored.active_slot = running /\ SoundRecord(Stored)
    BY <2>1, ReadableIsRecord DEF IInv, TypeOK, LastWordSound, Readable, Stored
  <2> QED
    BY <2>1, <2>2 DEF SoundRecord
<1> QED
  BY <1>1, <1>2, <1>3, InvariantHolds, PTL DEF Spec

\* The record's active slot, on which the confirm task acts, is the one the
\* program runs from.
THEOREM ActiveSlotRuns == Spec => []ActiveIsRunning
<1>1. IInv => ActiveIsRunning
  BY ReadableIsRecord DEF IInv, TypeOK, LastWordSound, ActiveIsRunning, Readable, Stored
<1> QED
  BY <1>1, InvariantHolds, PTL

\* When an AT command is about to answer OK, its record can be read.
THEOREM AcknowledgedIsStored == Spec => []OkMeansStored
<1>1. IInv => OkMeansStored
  <2> SUFFICES ASSUME IInv, at.step = "saved" PROVE Readable /\ Stored = at.rec
    BY DEF OkMeansStored
  <2>1. at.rec \in Records /\ words = Whole(at.rec)
    BY DEF IInv, CopiesSound, Programmable, InterruptAlone
  <2> QED
    BY <2>1, WholeIsValid DEF Readable, Stored
<1> QED
  BY <1>1, InvariantHolds, PTL

-----------------------------------------------------------------------------
(* The control area implements one cell.                                   *)

CellValue == IF Readable THEN Stored ELSE Erased

CellSound == {rec \in Records : SoundRecord(rec)}

\* A reader finds a sound record, or what no record is.
LEMMA CellRange ==
  ASSUME IInv
  PROVE  /\ Readable => CellValue = words[3] /\ CellValue \in CellSound
         /\ ~Readable => CellValue = Erased
         /\ Erased \notin CellSound
BY ReadableIsRecord, FlashAssumption
   DEF IInv, TypeOK, LastWordSound, CellValue, CellSound, Readable, Stored

\* A step of the running application that replaces no readable record by
\* another is a step of the cell.
LEMMA CellWhileOn ==
  ASSUME IInv, IInv', on, on', Readable /\ Readable' => words'[3] = words[3]
  PROVE  [Cell!Next]_<<CellValue, on>>
<1>1. /\ Readable => CellValue = words[3] /\ CellValue \in CellSound
      /\ ~Readable => CellValue = Erased
      /\ Erased \notin CellSound
  BY CellRange
<1>2. /\ Readable' => CellValue' = words'[3] /\ CellValue' \in CellSound
      /\ ~Readable' => CellValue' = Erased
  BY ReadableIsRecord
     DEF IInv, TypeOK, LastWordSound, CellValue, CellSound, Readable, Stored
<1>3. on \in BOOLEAN /\ on' \in BOOLEAN
  BY DEF IInv, TypeOK
<1>4. CASE Readable /\ Readable'
  BY <1>1, <1>2, <1>3, <1>4
<1>5. CASE Readable /\ ~Readable'
  <2>1. Cell!Lose
    BY <1>1, <1>2, <1>3, <1>5 DEF Cell!Lose, CellValue
  <2> QED
    BY <2>1 DEF Cell!Next
<1>6. CASE ~Readable /\ Readable'
  <2>1. Cell!Appear
    BY <1>1, <1>2, <1>3, <1>6 DEF Cell!Appear, CellValue, CellSound
  <2> QED
    BY <2>1 DEF Cell!Next
<1>7. CASE ~Readable /\ ~Readable'
  BY <1>1, <1>2, <1>3, <1>7
<1> QED
  BY <1>4, <1>5, <1>6, <1>7

\* No step of the running application replaces a readable record by another.
LEMMA NoReplacement ==
  ASSUME IInv, AtStep \/ ConfirmStep, Readable, Readable'
  PROVE  words'[3] = words[3]
<1> USE DEF IInv, TypeOK
<1>1. \A i \in 1 .. 3 : words[i] \notin {Erased, Garbage}
  BY DamagedIsUnreadable DEF Readable
<1>2. IsArea(words') => \A i \in 1 .. 3 : words'[i] \notin {Erased, Garbage}
  BY DamagedIsUnreadable DEF Readable
<1>3. words' # Blank
  BY BlankIsArea, DamagedIsUnreadable DEF Readable
<1>4. CASE AtStarts \/ AtReplies \/ ConfirmReads
  BY <1>4 DEF AtStarts, AtReplies, ConfirmReads
<1>5. CASE AtErases \/ ConfirmErases
  BY <1>3, <1>5 DEF AtErases, ConfirmErases, Erase
<1>6. CASE AtPrograms \/ ConfirmPrograms
  <2>1. PICK i \in 1 .. 3, rec \in Records : Program(i, rec)
    BY <1>6 DEF AtPrograms, ConfirmPrograms, CopiesSound, Programmable, Writing
  <2>2. /\ IsArea(words')
        /\ \A j \in (1 .. 3) \ {i} : words'[j] = words[j]
        /\ words'[i] = Garbage \/ words[i] \in {Erased, words'[i]}
    BY <2>1, ProgramOutcome
  <2>3. words[i] = words'[i]
    BY <1>1, <1>2, <2>2
  <2> QED
    BY <2>2, <2>3
<1>7. CASE AtFails \/ ConfirmFails
  <2>1. PICK step \in {"erase"} \cup Writing, rec \in Records : Fails(step)
    BY <1>7 DEF AtFails, ConfirmFails, CopiesSound, Programmable, Writing
  <2>2. /\ IsArea(words')
        /\ \/ words' = words
           \/ words' = Blank
           \/ \E i \in 1 .. 3 : words'[i] = Garbage
    BY <2>1, FailsOutcome
  <2> QED
    BY <1>2, <1>3, <2>2
<1> QED
  BY <1>4, <1>5, <1>6, <1>7 DEF AtStep, ConfirmStep

\* Every step is a step of the cell, or leaves it alone.
LEMMA CellStep == IInv /\ IInv' /\ [Next]_vars => [Cell!Next]_<<CellValue, on>>
<1> SUFFICES ASSUME IInv, IInv', [Next]_vars PROVE [Cell!Next]_<<CellValue, on>>
  OBVIOUS
<1>1. CASE AtStep \/ ConfirmStep
  <2>1. on /\ on'
    BY <1>1 DEF AtStep, AtStarts, AtErases, AtPrograms, AtFails, AtReplies, ConfirmStep,
                ConfirmReads, ConfirmErases, ConfirmPrograms, ConfirmFails
  <2> QED
    BY <1>1, <2>1, NoReplacement, CellWhileOn
<1>2. CASE Reset
  <2>1. Cell!Reset
    BY <1>2 DEF Reset, Cell!Reset, Readable, Stored
  <2> QED
    BY <2>1 DEF Cell!Next
<1>3. CASE Boot
  <2>1. /\ Readable => CellValue = words[3] /\ CellValue \in CellSound
        /\ ~Readable => CellValue = Erased
        /\ Erased \notin CellSound
    BY CellRange
  <2>2. ~on /\ on' = TRUE
    BY <1>3 DEF Boot
  <2>3. CellValue' \in IF CellValue = Erased THEN {Erased} ELSE CellSound
    <3>1. CASE Readable
      <4>1. PICK rec \in Records : SoundRecord(rec) /\ words' = Whole(rec)
        BY <1>3, <3>1, BootOutcome
      <4>2. CellValue' = rec
        BY <4>1, WholeIsValid DEF CellValue, Readable, Stored
      <4> QED
        BY <2>1, <3>1, <4>1, <4>2 DEF CellSound
    <3>2. CASE ~Readable
      <4>1. words' = words
        BY <1>3, <3>2 DEF Boot
      <4> QED
        BY <2>1, <3>2, <4>1 DEF CellValue, Readable
    <3> QED
      BY <3>1, <3>2
  <2>4. Cell!Boot
    BY <2>2, <2>3 DEF Cell!Boot, CellValue, CellSound
  <2> QED
    BY <2>4 DEF Cell!Next
<1>4. CASE UNCHANGED vars
  BY <1>4 DEF vars, CellValue, Readable, Stored
<1> QED
  BY <1>1, <1>2, <1>3, <1>4 DEF Next

\* The control area implements one cell: between two readable records of the
\* running application there is a time without any.
THEOREM AreaIsCell == Spec => CellSpec
<1>1. Init => Cell!Init
  <2> SUFFICES ASSUME Init PROVE Cell!Init
    OBVIOUS
  <2>1. IInv
    BY InitInv
  <2>2. (Readable => CellValue \in CellSound) /\ (~Readable => CellValue = Erased)
    BY <2>1, CellRange
  <2>3. on \in BOOLEAN
    BY <2>1 DEF IInv, TypeOK
  <2> QED
    BY <2>2, <2>3 DEF Cell!Init, CellValue, CellSound
<1>2. IInv /\ IInv' /\ [Next]_vars
        => [Cell!Next]_<<IF Readable THEN Stored ELSE Erased, on>>
  BY CellStep DEF CellValue
<1> QED
  BY <1>1, <1>2, InvariantHolds, PTL DEF Spec, CellSpec, Cell!Spec
=============================================================================
