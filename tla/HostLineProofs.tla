--------------------------- MODULE HostLineProofs ---------------------------
(***************************************************************************)
(* The host's line, for rings, buffers and messages of every size: the     *)
(* ring implements a bounded queue, what is executed is what was sent, and *)
(* a damaged frame swallows no more than fit into the length it shows.     *)
(***************************************************************************)
EXTENDS HostLine, FiniteSetTheorems, SequenceTheorems, TLAPS

-----------------------------------------------------------------------------
(* Sequences.                                                              *)

\* A function on 1 .. n is a sequence of length n.
LEMMA TableFacts ==
  ASSUME NEW S, NEW n \in Nat, NEW s \in [1 .. n -> S]
  PROVE  s \in Seq(S) /\ Len(s) = n
<1>1. s \in Seq(S)
  BY SeqDef
<1>2. DOMAIN s = 1 .. n /\ DOMAIN s = 1 .. Len(s) /\ Len(s) \in Nat
  BY <1>1, LenProperties
<1> QED  BY <1>1, <1>2

\* Front keeps a prefix.
LEMMA FrontFacts ==
  ASSUME NEW S, NEW s \in Seq(S), NEW n \in Nat
  PROVE  /\ Front(s, n) \in Seq(S)
         /\ Len(Front(s, n)) = Least(n, Len(s))
         /\ \A i \in 1 .. Len(Front(s, n)) : i <= Len(s) /\ Front(s, n)[i] = s[i]
<1> DEFINE m == Least(n, Len(s))
<1>1. m \in Nat /\ m <= Len(s) /\ Front(s, n) = SubSeq(s, 1, m)
  BY LenProperties DEF Least, Front
<1>2. \A i \in 1 .. m : s[i] \in S
  BY <1>1, ElementOfSeq
<1> HIDE DEF m
<1>3. /\ SubSeq(s, 1, m) \in Seq(S)
      /\ Len(SubSeq(s, 1, m)) = IF 1 <= m THEN m - 1 + 1 ELSE 0
      /\ \A i \in 1 .. m - 1 + 1 : SubSeq(s, 1, m)[i] = s[1 + i - 1]
  BY <1>1, <1>2, SubSeqProperties
<1>4. /\ Len(SubSeq(s, 1, m)) = m
      /\ \A i \in 1 .. m : i <= Len(s) /\ SubSeq(s, 1, m)[i] = s[i]
  BY <1>1, <1>3, LenProperties
<1> QED
  BY <1>1, <1>3, <1>4 DEF m

\* A part of a sequence.
LEMMA PartFacts ==
  ASSUME NEW S, NEW s \in Seq(S), NEW a \in Nat \ {0}, NEW b \in Nat, b <= Len(s)
  PROVE  /\ SubSeq(s, a, b) \in Seq(S)
         /\ Len(SubSeq(s, a, b)) = IF a <= b THEN b - a + 1 ELSE 0
         /\ \A i \in 1 .. Len(SubSeq(s, a, b)) :
               /\ a + i - 1 \in 1 .. Len(s) /\ a + i - 1 <= b
               /\ SubSeq(s, a, b)[i] = s[a + i - 1]
<1>1. \A i \in a .. b : s[i] \in S
  BY ElementOfSeq, LenProperties
<1>2. /\ SubSeq(s, a, b) \in Seq(S)
      /\ Len(SubSeq(s, a, b)) = IF a <= b THEN b - a + 1 ELSE 0
      /\ \A i \in 1 .. b - a + 1 : SubSeq(s, a, b)[i] = s[a + i - 1]
  BY <1>1, SubSeqProperties
<1> QED
  BY <1>2, LenProperties

-----------------------------------------------------------------------------
(* The ring.                                                               *)

\* The sizes that LineAssumption gives.
LEMMA Sizes ==
  /\ RingSize \in Nat /\ RingSize > 1
  /\ ReadMax \in Nat /\ ReadMax > 0
  /\ DmaSize \in Nat /\ DmaSize > 0
  /\ MaxFaults \in Nat
  BY LineAssumption DEF LineAssumption

\* The place n after p is a place, and n behind p.
LEMMA PlaceFacts ==
  ASSUME NEW p \in 0 .. RingSize - 1, NEW n \in Nat, n < RingSize
  PROVE  Place(p, n) \in 0 .. RingSize - 1 /\ Offset(p, Place(p, n)) = n
  BY Sizes DEF Place, Offset

\* What the pointers enclose is the queue; the thread copies from its front, and
\* what it counted on stays there until it gives the places back.
RingInv ==
  /\ RingTypeOK(Bytes)
  /\ \A i \in 1 .. Full : buff[Place(r, i - 1)] \in Bytes
  /\ rpc \in {"idle", "looked"} => got = <<>>
  /\ rpc \in {"looked", "copy"} => want \in 1 .. Full
  /\ rpc = "copy" => Len(got) <= want /\ \A i \in 1 .. Len(got) : got[i] = buff[Place(r, i - 1)]
  /\ rpc = "parse" => got # <<>>

\* Between them, full and free places are all but one.
LEMMA FullFacts ==
  ASSUME w \in 0 .. RingSize - 1, r \in 0 .. RingSize - 1
  PROVE  /\ Full \in Nat /\ Full <= RingSize - 1
         /\ Free \in Nat /\ Free = RingSize - 1 - Full
         /\ w = Place(r, Full)
  BY Sizes DEF Full, Free, Place

\* The queue and its elements.
LEMMA StoredFacts ==
  ASSUME RingInv
  PROVE  /\ Full \in Nat /\ Full <= RingSize - 1
         /\ Stored \in Seq(Bytes) /\ Len(Stored) = Full
         /\ \A i \in 1 .. Full : Stored[i] = buff[Place(r, i - 1)]
<1>1. Full \in Nat /\ Full <= RingSize - 1
  BY FullFacts DEF RingInv, RingTypeOK
<1>2. Stored \in [1 .. Full -> Bytes] /\ \A i \in 1 .. Full : Stored[i] = buff[Place(r, i - 1)]
  BY DEF RingInv, Stored
<1> QED
  BY <1>1, <1>2, TableFacts

\* A write leaves the places of the queue alone and fills the ones behind it.
LEMMA WriteFacts ==
  ASSUME RingInv, NEW bytes \in Seq(Bytes), Len(bytes) <= Free, LwrbWrite(bytes), r' = r
  PROVE  /\ buff' \in [0 .. RingSize - 1 -> Bytes \cup {NoByte}]
         /\ w' \in 0 .. RingSize - 1
         /\ Full' = Full + Len(bytes)
         /\ \A i \in 1 .. Full : buff'[Place(r, i - 1)] = buff[Place(r, i - 1)]
         /\ \A i \in 1 .. Len(bytes) : buff'[Place(r, Full + i - 1)] = bytes[i]
<1> DEFINE n == Len(bytes)
<1>1. /\ w \in 0 .. RingSize - 1 /\ r \in 0 .. RingSize - 1
      /\ buff \in [0 .. RingSize - 1 -> Bytes \cup {NoByte}]
  BY DEF RingInv, RingTypeOK
<1>2. /\ Full \in Nat /\ Full <= RingSize - 1 /\ Free = RingSize - 1 - Full /\ w = Place(r, Full)
  BY <1>1, FullFacts
<1>3. n \in Nat /\ n <= RingSize - 1 - Full
  BY <1>2, LenProperties
<1>4. /\ buff' = [i \in 0 .. RingSize - 1 |-> IF Offset(w, i) < n THEN bytes[Offset(w, i) + 1] ELSE buff[i]]
      /\ w' = Place(w, n)
  BY DEF LwrbWrite
<1> HIDE DEF n
<1>5. \A i \in 0 .. RingSize - 1 : Offset(w, i) \in Nat
  BY <1>1, Sizes DEF Offset
<1>6. buff' \in [0 .. RingSize - 1 -> Bytes \cup {NoByte}]
  <2>1. \A i \in 0 .. RingSize - 1 : Offset(w, i) < n => bytes[Offset(w, i) + 1] \in Bytes
    BY <1>3, <1>5, ElementOfSeq DEF n
  <2> QED  BY <1>1, <1>4, <2>1
<1>7. w' \in 0 .. RingSize - 1
  <2>1. n < RingSize
    BY <1>2, <1>3, Sizes
  <2> QED  BY <1>1, <1>3, <1>4, <2>1, PlaceFacts
<1>8. Full' = Full + n
  BY <1>1, <1>2, <1>3, <1>4, Sizes DEF Full, Place
<1>9. ASSUME NEW i \in 1 .. Full
      PROVE  buff'[Place(r, i - 1)] = buff[Place(r, i - 1)]
  <2>1. /\ Place(r, i - 1) \in 0 .. RingSize - 1
        /\ ~ (Offset(w, Place(r, i - 1)) < n)
    BY <1>1, <1>2, <1>3, Sizes DEF Place, Offset
  <2> QED  BY <1>4, <2>1
<1>10. ASSUME NEW i \in 1 .. n
       PROVE  buff'[Place(r, Full + i - 1)] = bytes[i]
  <2>1. /\ Place(r, Full + i - 1) \in 0 .. RingSize - 1
        /\ Offset(w, Place(r, Full + i - 1)) = i - 1
    BY <1>1, <1>2, <1>3, Sizes DEF Place, Offset
  <2> QED  BY <1>3, <1>4, <2>1
<1> QED
  BY <1>6, <1>7, <1>8, <1>9, <1>10 DEF n

\* The interrupt appends what fits.
LEMMA WriteAppends ==
  ASSUME RingInv, NEW bytes \in Seq(Bytes), WriteToRing(bytes), UNCHANGED <<r, reader>>
  PROVE  /\ RingInv'
         /\ Fitting(bytes) \in Seq(Bytes)
         /\ Stored' = Stored \o Fitting(bytes)
         /\ Hand' = Hand
<1> DEFINE f == Fitting(bytes)
<1>1. Free \in Nat /\ Free = RingSize - 1 - Full
  BY FullFacts DEF RingInv, RingTypeOK
<1>2. f \in Seq(Bytes) /\ Len(f) <= Free /\ Len(f) \in Nat
  BY <1>1, FrontFacts, LenProperties DEF Fitting, Least
<1>3. Hand' = Hand
  BY DEF Hand, reader
<1>4. CASE f = <<>>
  <2>1. UNCHANGED <<buff, w, r, rpc, want, got>>
    BY <1>4 DEF WriteToRing, memory, reader
  <2>2. RingInv' /\ Stored' = Stored
    BY <2>1 DEF RingInv, RingTypeOK, Full, Stored
  <2>3. Stored \o <<>> = Stored
    BY StoredFacts, ConcatEmptySeq
  <2> QED  BY <1>2, <1>3, <1>4, <2>2, <2>3
<1>5. CASE f # <<>>
  <2>1. LwrbWrite(f) /\ UNCHANGED <<r, rpc, want, got>>
    BY <1>5 DEF WriteToRing, reader
  <2> HIDE DEF f
  <2>2. /\ buff' \in [0 .. RingSize - 1 -> Bytes \cup {NoByte}]
        /\ w' \in 0 .. RingSize - 1
        /\ Full' = Full + Len(f)
        /\ \A i \in 1 .. Full : buff'[Place(r, i - 1)] = buff[Place(r, i - 1)]
        /\ \A i \in 1 .. Len(f) : buff'[Place(r, Full + i - 1)] = f[i]
    BY <1>2, <2>1, WriteFacts
  <2>3. /\ Full \in Nat /\ Full <= RingSize - 1
        /\ Stored \in Seq(Bytes) /\ Len(Stored) = Full
        /\ \A i \in 1 .. Full : Stored[i] = buff[Place(r, i - 1)]
    BY StoredFacts
  <2>4. ASSUME NEW i \in 1 .. Full + Len(f)
        PROVE  buff'[Place(r, i - 1)] = IF i <= Full THEN Stored[i] ELSE f[i - Full]
    <3>1. CASE i <= Full
      BY <2>2, <2>3, <3>1
    <3>2. CASE ~ (i <= Full)
      <4>1. i - Full \in 1 .. Len(f) /\ Full + (i - Full) - 1 = i - 1
        BY <1>2, <2>3, <3>2
      <4> QED  BY <2>2, <3>2, <4>1
    <3> QED  BY <3>1, <3>2
  <2>5. \A i \in 1 .. Full + Len(f) : buff'[Place(r, i - 1)] \in Bytes
    BY <1>2, <2>3, <2>4, ElementOfSeq
  <2>6. RingInv'
    <3>1. RingTypeOK(Bytes)'
      BY <2>1, <2>2 DEF RingInv, RingTypeOK
    <3>2. \A i \in 1 .. Full' : buff'[Place(r', i - 1)] \in Bytes
      BY <2>1, <2>2, <2>5
    <3>3. rpc' \in {"looked", "copy"} => want' \in 1 .. Full'
      BY <1>2, <2>1, <2>2, <2>3 DEF RingInv
    <3>4. rpc' = "copy" => /\ Len(got') <= want'
                           /\ \A i \in 1 .. Len(got') : got'[i] = buff'[Place(r', i - 1)]
      BY <2>1, <2>2, <2>3 DEF RingInv, RingTypeOK
    <3> QED  BY <2>1, <3>1, <3>2, <3>3, <3>4 DEF RingInv
  <2>7. Stored' \in Seq(Bytes) /\ Len(Stored') = Full + Len(f)
    <3>1. Stored' \in [1 .. Full + Len(f) -> Bytes]
      BY <2>1, <2>2, <2>5 DEF Stored
    <3>2. Full + Len(f) \in Nat
      BY <1>2, <2>3
    <3> HIDE DEF f
    <3> QED  BY <3>1, <3>2, TableFacts
  <2>8. \A i \in 1 .. Full + Len(f) : Stored'[i] = IF i <= Full THEN Stored[i] ELSE f[i - Full]
    BY <2>1, <2>2, <2>4 DEF Stored
  <2>9. Stored' = Stored \o f
    <3>1. /\ Stored \o f \in Seq(Bytes) /\ Len(Stored \o f) = Full + Len(f)
          /\ \A i \in 1 .. Full + Len(f) :
                (Stored \o f)[i] = IF i <= Full THEN Stored[i] ELSE f[i - Full]
      BY <1>2, <2>3, ConcatProperties
    <3> QED  BY <2>7, <2>8, <3>1, SeqEqual
  <2> QED  BY <1>2, <1>3, <2>6, <2>9 DEF f
<1> QED  BY <1>4, <1>5

\* Looking and copying change nothing that the queue shows.
LEMMA CopyKeeps ==
  ASSUME RingInv, Look \/ StartRead \/ CopyByte
  PROVE  RingInv' /\ UNCHANGED <<Stored, Hand>>
<1>1. UNCHANGED <<buff, w, r>>
  BY DEF Look, StartRead, CopyByte, memory
<1>2. Full' = Full /\ Stored' = Stored
  BY <1>1 DEF Full, Stored
<1>3. Hand' = Hand
  BY DEF Look, StartRead, CopyByte, Hand
<1>4. /\ Full \in Nat /\ ReadMax \in Nat
      /\ \A i \in 1 .. Full : Stored[i] = buff[Place(r, i - 1)] /\ buff[Place(r, i - 1)] \in Bytes
  BY StoredFacts, Sizes DEF RingInv
<1>5. CASE Look
  <2>1. /\ got = <<>> /\ got' = <<>> /\ rpc' = "looked"
        /\ want' \in 0 .. ReadMax /\ want' \in 1 .. Full
    BY <1>4, <1>5, Sizes DEF Look, RingInv, Least
  <2> QED  BY <1>1, <1>2, <1>3, <2>1 DEF RingInv, RingTypeOK
<1>6. CASE StartRead
  <2>1. /\ got' = <<>> /\ rpc' = "copy"
        /\ want' \in 0 .. ReadMax /\ want' \in 1 .. Full
    BY <1>4, <1>6 DEF StartRead, RingInv, RingTypeOK, Least
  <2>2. got' \in Seq(Bytes) /\ Len(got') = 0
    BY <2>1, EmptySeq
  <2> QED  BY <1>1, <1>2, <1>3, <1>4, <2>1, <2>2 DEF RingInv, RingTypeOK
<1>7. CASE CopyByte
  <2> DEFINE b == buff[Place(r, Len(got))]
  <2>1. /\ rpc = "copy" /\ Len(got) < want /\ got' = Append(got, b) /\ UNCHANGED <<rpc, want>>
        /\ got \in Seq(Bytes) /\ Len(got) \in Nat /\ want \in 1 .. Full /\ want \in 0 .. ReadMax
    BY <1>7, LenProperties DEF CopyByte, RingInv, RingTypeOK
  <2>2. b \in Bytes
    <3>1. Len(got) + 1 \in 1 .. Full /\ (Len(got) + 1) - 1 = Len(got)
      BY <1>4, <2>1
    <3> QED  BY <1>4, <3>1
  <2>3. /\ got' \in Seq(Bytes) /\ Len(got') = Len(got) + 1
        /\ \A i \in 1 .. Len(got) : got'[i] = got[i]
        /\ got'[Len(got) + 1] = b
    BY <2>1, <2>2, AppendProperties
  <2>4. \A i \in 1 .. Len(got') : got'[i] = buff[Place(r, i - 1)]
    <3>1. ASSUME NEW i \in 1 .. Len(got')  PROVE got'[i] = buff[Place(r, i - 1)]
      <4>1. CASE i \in 1 .. Len(got)
        BY <2>1, <2>3, <4>1 DEF RingInv
      <4>2. CASE i \notin 1 .. Len(got)
        <5>1. i = Len(got) + 1 /\ i - 1 = Len(got)
          BY <2>1, <2>3, <4>2
        <5> QED  BY <2>3, <5>1
      <4> QED  BY <4>1, <4>2
    <3> QED  BY <3>1
  <2>5. Len(got') <= want /\ Len(got') <= ReadMax
    BY <1>4, <2>1, <2>3
  <2> QED  BY <1>1, <1>2, <1>3, <2>1, <2>3, <2>4, <2>5 DEF RingInv, RingTypeOK
<1> QED  BY <1>5, <1>6, <1>7

\* The store of the read pointer moves what was copied from queue to hand.
LEMMA ReleaseMoves ==
  ASSUME RingInv, ReleasePlaces
  PROVE  /\ RingInv'
         /\ want \in 1 .. Len(Stored) /\ want <= ReadMax
         /\ Hand = <<>> /\ Hand' = SubSeq(Stored, 1, want)
         /\ Stored' = SubSeq(Stored, want + 1, Len(Stored))
<1>1. /\ Full \in Nat /\ Full <= RingSize - 1
      /\ Stored \in Seq(Bytes) /\ Len(Stored) = Full
      /\ \A i \in 1 .. Full : Stored[i] = buff[Place(r, i - 1)]
  BY StoredFacts
<1>2. /\ rpc = "copy" /\ Len(got) = want /\ rpc' = "parse"
      /\ r' = Place(r, want) /\ UNCHANGED <<buff, w, want, got>>
  BY DEF ReleasePlaces, memory
<1>3. /\ want \in 1 .. Full /\ want \in 0 .. ReadMax /\ got \in Seq(Bytes)
      /\ \A i \in 1 .. Len(got) : got[i] = buff[Place(r, i - 1)]
      /\ w \in 0 .. RingSize - 1 /\ r \in 0 .. RingSize - 1
  BY <1>2 DEF RingInv, RingTypeOK
<1>4. r' \in 0 .. RingSize - 1
  <2>1. want \in Nat /\ want < RingSize
    BY <1>1, <1>3, Sizes
  <2> QED  BY <1>2, <1>3, <2>1, PlaceFacts
<1>5. Full' = Full - want
  BY <1>1, <1>2, <1>3, Sizes DEF Full, Place
<1>6. ASSUME NEW i \in 1 .. Full'
      PROVE  i + want \in 1 .. Full /\ buff'[Place(r', i - 1)] = Stored[i + want]
  <2>1. i + want \in 1 .. Full
    BY <1>1, <1>3, <1>5
  <2>2. Place(r', i - 1) = Place(r, i + want - 1)
    BY <1>1, <1>2, <1>3, <1>5, <2>1, Sizes DEF Place
  <2> QED  BY <1>1, <1>2, <2>1, <2>2
<1>7. RingInv'
  <2>1. got # <<>>
    BY <1>2, <1>3, EmptySeq
  <2>2. \A i \in 1 .. Full' : buff'[Place(r', i - 1)] \in Bytes
    BY <1>1, <1>6, ElementOfSeq
  <2> QED  BY <1>2, <1>3, <1>4, <2>1, <2>2 DEF RingInv, RingTypeOK
<1>8. Hand = <<>> /\ Hand' = SubSeq(Stored, 1, want)
  <2>1. want <= Len(Stored) /\ want \in Nat /\ 1 \in Nat \ {0}
    BY <1>1, <1>3
  <2>2. /\ SubSeq(Stored, 1, want) \in Seq(Bytes)
        /\ Len(SubSeq(Stored, 1, want)) = IF 1 <= want THEN want - 1 + 1 ELSE 0
        /\ \A i \in 1 .. Len(SubSeq(Stored, 1, want)) : SubSeq(Stored, 1, want)[i] = Stored[1 + i - 1]
    BY <1>1, <2>1, PartFacts
  <2>3. Len(SubSeq(Stored, 1, want)) = Len(got)
    BY <1>2, <1>3, <2>2
  <2>4. \A i \in 1 .. Len(got) : got[i] = SubSeq(Stored, 1, want)[i]
    BY <1>1, <1>2, <1>3, <2>2, <2>3
  <2>5. got = SubSeq(Stored, 1, want)
    BY <1>3, <2>2, <2>3, <2>4, SeqEqual
  <2> QED  BY <1>2, <2>5 DEF Hand
<1>9. Stored' = SubSeq(Stored, want + 1, Len(Stored))
  <2> DEFINE t == SubSeq(Stored, want + 1, Len(Stored))
  <2>1. want + 1 \in Nat \ {0} /\ Len(Stored) \in Nat
    BY <1>1, <1>3
  <2>2. /\ t \in Seq(Bytes)
        /\ Len(t) = IF want + 1 <= Len(Stored) THEN Len(Stored) - (want + 1) + 1 ELSE 0
        /\ \A i \in 1 .. Len(t) : t[i] = Stored[(want + 1) + i - 1]
    BY <1>1, <2>1, PartFacts
  <2> HIDE DEF t
  <2>3. Len(t) = Full'
    BY <1>1, <1>3, <1>5, <2>2
  <2>4. Stored' \in Seq(Bytes) /\ Len(Stored') = Full'
        /\ \A i \in 1 .. Full' : Stored'[i] = buff'[Place(r', i - 1)]
    <3>1. (/\ Full \in Nat /\ Full <= RingSize - 1
           /\ Stored \in Seq(Bytes) /\ Len(Stored) = Full
           /\ \A i \in 1 .. Full : Stored[i] = buff[Place(r, i - 1)])'
      BY <1>7, StoredFacts, PTL
    <3> QED  BY <3>1
  <2>5. \A i \in 1 .. Full' : Stored'[i] = t[i]
    <3>1. ASSUME NEW i \in 1 .. Full'  PROVE Stored'[i] = t[i]
      <4>1. (want + 1) + i - 1 = i + want
        BY <1>1, <1>3, <1>5
      <4> QED  BY <1>6, <2>2, <2>3, <2>4, <4>1
    <3> QED  BY <3>1
  <2>6. Stored' = t
    BY <2>2, <2>3, <2>4, <2>5, SeqEqual
  <2> QED  BY <2>6 DEF t
<1> QED
  BY <1>1, <1>3, <1>7, <1>8, <1>9

\* The thread works through the block in its hand.
LEMMA UseTakes ==
  ASSUME RingInv, UseByte
  PROVE  /\ RingInv'
         /\ got = Hand /\ Hand \in Seq(Bytes) /\ Hand # <<>>
         /\ Hand' = Tail(Hand) /\ Stored' = Stored
<1>1. /\ rpc = "parse" /\ got \in Seq(Bytes) /\ got # <<>> /\ got' = Tail(got)
      /\ rpc' = (IF Len(got) = 1 THEN "idle" ELSE "parse")
      /\ UNCHANGED <<buff, w, r, want>> /\ Len(got) <= ReadMax
  BY DEF UseByte, memory, RingInv, RingTypeOK
<1>2. /\ Tail(got) \in Seq(Bytes) /\ Len(Tail(got)) = Len(got) - 1 /\ Len(got) \in Nat \ {0}
  BY <1>1, HeadTailProperties, EmptySeq
<1>3. Len(got) = 1 <=> Tail(got) = <<>>
  <2>1. Len(Tail(got)) = 0 <=> Tail(got) = <<>>
    BY <1>2, EmptySeq
  <2> QED  BY <1>2, <2>1
<1>4. RingInv'
  <2>1. Len(got') <= ReadMax
    BY <1>1, <1>2, Sizes
  <2> QED  BY <1>1, <1>2, <1>3, <2>1 DEF RingInv, RingTypeOK, Full
<1>5. Hand = got /\ Hand' = Tail(got) /\ Stored' = Stored
  BY <1>1, <1>3 DEF Hand, Stored, Full
<1> QED  BY <1>1, <1>4, <1>5

-----------------------------------------------------------------------------
(* The inductive invariant.                                                *)

\* The types of what is not the ring's.
LineTypeOK ==
  /\ session \in Sessions
  /\ sent \in 0 .. Len(session)
  /\ wire \in Seq(Bytes)
  /\ pstate \in {"start", "header", "data", "crc"}
  /\ held \in Seq(Bytes)
  /\ dispatched \in Seq(1 .. sent)
  /\ replies \in Seq(Replies)
  /\ bank \in [Registers -> 0 .. UINT16_MAX]
  /\ faults \in 0 .. MaxFaults
  /\ broken \subseteq 1 .. sent
  /\ missed \in Nat

All(s) == {s[i] : i \in 1 .. Len(s)}

\* b is a byte that the host sent.
Genuine(b) ==
  /\ b \in Bytes
  /\ b.of \in 1 .. sent
  /\ b.at \in 1 .. Len(session[b.of])
  /\ b.v = session[b.of][b.at]

BytesAreGenuine == \A b \in All(held) \cup Unparsed : Genuine(b)

\* b was sent before c.
Before(b, c) == b.of < c.of \/ (b.of = c.of /\ b.at < c.at)

InOrder(s) == \A i, j \in 1 .. Len(s) : i < j => Before(s[i], s[j])

Ahead(S, T) == \A b \in S, c \in T : Before(b, c)

\* The bytes to be parsed are in the order in which they were sent.
LineInOrder ==
  /\ InOrder(Hand) /\ InOrder(Stored) /\ InOrder(wire)
  /\ Ahead(All(Hand), All(Stored))
  /\ Ahead(All(Hand), All(wire))
  /\ Ahead(All(Stored), All(wire))

\* How far the parser is in the frame that it holds.
ParserInShape ==
  /\ pstate = "start" <=> held = <<>>
  /\ held # <<>> => held[1].v = Magic
  /\ pstate = "header" => Len(held) < 4
  /\ pstate = "data" => Len(held) >= 4 /\ Len(held) < 4 + DataLen(held)
  /\ pstate = "crc" => Len(held) >= 4 /\ Len(held) \in {4 + DataLen(held), 5 + DataLen(held)}

\* What was executed lies behind all that is held or to be parsed.
ExecutedIsOver ==
  \A i \in 1 .. Len(dispatched), b \in All(held) \cup Unparsed : dispatched[i] < b.of

Executed(f) == \E i \in 1 .. Len(dispatched) : dispatched[i] = f

\* As long as no byte of a frame was lost, the parser holds the beginning of one,
\* and of every frame that is not executed each byte is held or to be parsed.
NothingMissing ==
  broken = {} =>
    /\ CrcAgrees(held)
    /\ Ahead(All(held), Unparsed)
    /\ \A f \in 1 .. sent : IsFrame(session[f]) /\ ~ Executed(f) =>
         \A k \in 3 .. Len(session[f]) : \E b \in All(held) \cup Unparsed : b.of = f /\ b.at = k
    /\ \A i \in 1 .. Len(replies) : replies[i].as # "crc"

IInv ==
  /\ RingInv
  /\ LineTypeOK
  /\ BytesAreGenuine
  /\ LineInOrder
  /\ ParserInShape
  /\ ExecutedIsOver
  /\ ExecutedOnceInOrder
  /\ NothingMissing

-----------------------------------------------------------------------------
(* Elements and order of the parts of a sequence.                          *)

\* A part has elements of the whole, in the same order.
LEMMA PartInOrder ==
  ASSUME NEW s \in Seq(Bytes), NEW a \in Nat \ {0}, NEW b \in Nat, b <= Len(s)
  PROVE  /\ SubSeq(s, a, b) \in Seq(Bytes)
         /\ All(SubSeq(s, a, b)) \subseteq All(s)
         /\ InOrder(s) => InOrder(SubSeq(s, a, b))
<1> DEFINE t == SubSeq(s, a, b)
<1>1. /\ t \in Seq(Bytes) /\ Len(t) \in Nat /\ Len(s) \in Nat
      /\ \A i \in 1 .. Len(t) : a + i - 1 \in 1 .. Len(s) /\ t[i] = s[a + i - 1]
  BY PartFacts, LenProperties
<1> HIDE DEF t
<1>2. All(t) \subseteq All(s)
  BY <1>1 DEF All
<1>3. ASSUME InOrder(s), NEW i \in 1 .. Len(t), NEW j \in 1 .. Len(t), i < j
      PROVE  Before(t[i], t[j])
  <2>1. /\ a + i - 1 \in 1 .. Len(s) /\ a + j - 1 \in 1 .. Len(s) /\ a + i - 1 < a + j - 1
        /\ t[i] = s[a + i - 1] /\ t[j] = s[a + j - 1]
    BY <1>1, <1>3
  <2> QED  BY <1>3, <2>1 DEF InOrder
<1> QED  BY <1>1, <1>2, <1>3 DEF t, InOrder

\* Cut in two, a sequence has the elements of both parts; those of the first
\* come first.
LEMMA CutInOrder ==
  ASSUME NEW s \in Seq(Bytes), NEW n \in Nat, n <= Len(s)
  PROVE  /\ SubSeq(s, 1, n) \in Seq(Bytes) /\ SubSeq(s, n + 1, Len(s)) \in Seq(Bytes)
         /\ All(s) = All(SubSeq(s, 1, n)) \cup All(SubSeq(s, n + 1, Len(s)))
         /\ InOrder(s) => /\ InOrder(SubSeq(s, 1, n)) /\ InOrder(SubSeq(s, n + 1, Len(s)))
                          /\ Ahead(All(SubSeq(s, 1, n)), All(SubSeq(s, n + 1, Len(s))))
<1> DEFINE t == SubSeq(s, 1, n)
           u == SubSeq(s, n + 1, Len(s))
<1>1. Len(s) \in Nat /\ 1 \in Nat \ {0} /\ n + 1 \in Nat \ {0}
  BY LenProperties
<1>2. /\ t \in Seq(Bytes) /\ Len(t) = IF 1 <= n THEN n - 1 + 1 ELSE 0
      /\ \A i \in 1 .. Len(t) : t[i] = s[1 + i - 1]
  BY <1>1, PartFacts
<1>3. /\ u \in Seq(Bytes) /\ Len(u) = IF n + 1 <= Len(s) THEN Len(s) - (n + 1) + 1 ELSE 0
      /\ \A i \in 1 .. Len(u) : u[i] = s[(n + 1) + i - 1]
  BY <1>1, PartFacts
<1>4. /\ All(t) \subseteq All(s) /\ All(u) \subseteq All(s)
      /\ InOrder(s) => InOrder(t) /\ InOrder(u)
  BY <1>1, PartInOrder
<1> HIDE DEF t, u
<1>5. Len(t) = n /\ Len(u) = Len(s) - n
  BY <1>1, <1>2, <1>3
<1>6. ASSUME NEW i \in 1 .. Len(s)  PROVE s[i] \in All(t) \cup All(u)
  <2>1. CASE i <= n
    <3>1. i \in 1 .. Len(t) /\ 1 + i - 1 = i
      BY <1>5, <2>1
    <3> QED  BY <1>2, <3>1 DEF All
  <2>2. CASE ~ (i <= n)
    <3>1. i - n \in 1 .. Len(u) /\ (n + 1) + (i - n) - 1 = i
      BY <1>1, <1>5, <2>2
    <3>2. u[i - n] = s[i]
      BY <1>3, <3>1
    <3> QED  BY <3>1, <3>2 DEF All
  <2> QED  BY <2>1, <2>2
<1>7. ASSUME InOrder(s), NEW b \in All(t), NEW c \in All(u)  PROVE Before(b, c)
  <2>1. PICK i \in 1 .. Len(t) : b = t[i]
    BY DEF All
  <2>2. PICK j \in 1 .. Len(u) : c = u[j]
    BY DEF All
  <2>3. /\ i \in 1 .. Len(s) /\ b = s[i] /\ n + j \in 1 .. Len(s) /\ c = s[n + j] /\ i < n + j
    <3>1. 1 + i - 1 = i /\ (n + 1) + j - 1 = n + j
      BY <1>1, <1>5
    <3> QED  BY <1>1, <1>2, <1>3, <1>5, <2>1, <2>2, <3>1
  <2> QED  BY <1>7, <2>3 DEF InOrder
<1>8. All(s) \subseteq All(t) \cup All(u)
  BY <1>6 DEF All
<1> QED  BY <1>2, <1>3, <1>4, <1>7, <1>8 DEF t, u, Ahead

\* Joined, two sequences have the elements of both; they are in order if the
\* first is ahead.
LEMMA JoinInOrder ==
  ASSUME NEW s \in Seq(Bytes), NEW t \in Seq(Bytes)
  PROVE  /\ s \o t \in Seq(Bytes)
         /\ All(s \o t) = All(s) \cup All(t)
         /\ InOrder(s) /\ InOrder(t) /\ Ahead(All(s), All(t)) => InOrder(s \o t)
<1> DEFINE u == s \o t
<1>1. /\ u \in Seq(Bytes) /\ Len(u) = Len(s) + Len(t) /\ Len(s) \in Nat /\ Len(t) \in Nat
      /\ \A i \in 1 .. Len(s) + Len(t) : u[i] = IF i <= Len(s) THEN s[i] ELSE t[i - Len(s)]
  BY ConcatProperties, LenProperties
<1> HIDE DEF u
<1>2. All(u) \subseteq All(s) \cup All(t)
  <2>1. ASSUME NEW i \in 1 .. Len(u)  PROVE u[i] \in All(s) \cup All(t)
    <3>1. CASE i <= Len(s)
      BY <1>1, <3>1 DEF All
    <3>2. CASE ~ (i <= Len(s))
      <4>1. i - Len(s) \in 1 .. Len(t)
        BY <1>1, <3>2
      <4> QED  BY <1>1, <3>2, <4>1 DEF All
    <3> QED  BY <3>1, <3>2
  <2> QED  BY <2>1 DEF All
<1>3. All(s) \subseteq All(u)
  <2>1. \A i \in 1 .. Len(s) : i \in 1 .. Len(u) /\ u[i] = s[i]
    BY <1>1
  <2> QED  BY <2>1 DEF All
<1>4. All(t) \subseteq All(u)
  <2>1. ASSUME NEW i \in 1 .. Len(t)  PROVE Len(s) + i \in 1 .. Len(u) /\ u[Len(s) + i] = t[i]
    <3>1. Len(s) + i \in 1 .. Len(s) + Len(t) /\ (Len(s) + i) - Len(s) = i /\ ~ (Len(s) + i <= Len(s))
      BY <1>1
    <3> QED  BY <1>1, <3>1
  <2> QED  BY <2>1 DEF All
<1>5. ASSUME InOrder(s), InOrder(t), Ahead(All(s), All(t)),
             NEW i \in 1 .. Len(u), NEW j \in 1 .. Len(u), i < j
      PROVE  Before(u[i], u[j])
  <2>1. CASE j <= Len(s)
    BY <1>1, <1>5, <2>1 DEF InOrder
  <2>2. CASE i <= Len(s) /\ ~ (j <= Len(s))
    <3>1. j - Len(s) \in 1 .. Len(t) /\ i \in 1 .. Len(s)
      BY <1>1, <2>2
    <3>2. u[i] \in All(s) /\ u[j] \in All(t)
      BY <1>1, <2>2, <3>1 DEF All
    <3> QED  BY <1>5, <3>2 DEF Ahead
  <2>3. CASE ~ (i <= Len(s))
    <3>1. i - Len(s) \in 1 .. Len(t) /\ j - Len(s) \in 1 .. Len(t) /\ i - Len(s) < j - Len(s)
          /\ ~ (j <= Len(s))
      BY <1>1, <1>5, <2>3
    <3>2. u[i] = t[i - Len(s)] /\ u[j] = t[j - Len(s)]
      BY <1>1, <2>3, <3>1
    <3> QED  BY <1>5, <3>1, <3>2 DEF InOrder
  <2> QED  BY <1>1, <1>5, <2>1, <2>2, <2>3
<1> QED  BY <1>1, <1>2, <1>3, <1>4, <1>5 DEF u, InOrder

\* The head is ahead of the tail.
LEMMA HeadInOrder ==
  ASSUME NEW s \in Seq(Bytes), s # <<>>
  PROVE  /\ Head(s) \in Bytes /\ Tail(s) \in Seq(Bytes)
         /\ All(s) = {Head(s)} \cup All(Tail(s))
         /\ InOrder(s) => InOrder(Tail(s)) /\ Ahead({Head(s)}, All(Tail(s)))
<1>1. Len(s) \in Nat \ {0} /\ Head(s) = s[1] /\ 1 \in Nat /\ 1 <= Len(s)
  BY EmptySeq
<1>2. Tail(s) = SubSeq(s, 1 + 1, Len(s))
  BY TailIsSubSeq
<1>3. /\ SubSeq(s, 1, 1) \in Seq(Bytes) /\ Len(SubSeq(s, 1, 1)) = 1 /\ SubSeq(s, 1, 1)[1] = s[1]
  <2>1. /\ SubSeq(s, 1, 1) \in Seq(Bytes)
        /\ Len(SubSeq(s, 1, 1)) = (IF 1 <= 1 THEN 1 - 1 + 1 ELSE 0)
        /\ \A i \in 1 .. Len(SubSeq(s, 1, 1)) : SubSeq(s, 1, 1)[i] = s[1 + i - 1]
    BY <1>1, PartFacts
  <2> QED  BY <2>1
<1>4. All(SubSeq(s, 1, 1)) = {s[1]}
  BY <1>3 DEF All
<1>5. /\ All(s) = All(SubSeq(s, 1, 1)) \cup All(Tail(s))
      /\ InOrder(s) => InOrder(Tail(s)) /\ Ahead(All(SubSeq(s, 1, 1)), All(Tail(s)))
  <2>1. /\ All(s) = All(SubSeq(s, 1, 1)) \cup All(SubSeq(s, 1 + 1, Len(s)))
        /\ InOrder(s) => /\ InOrder(SubSeq(s, 1, 1)) /\ InOrder(SubSeq(s, 1 + 1, Len(s)))
                         /\ Ahead(All(SubSeq(s, 1, 1)), All(SubSeq(s, 1 + 1, Len(s))))
    BY <1>1, CutInOrder, Zenon
  <2> QED  BY <1>2, <2>1, Zenon
<1> QED  BY <1>1, <1>4, <1>5, HeadTailProperties

\* Front keeps elements and order.
LEMMA FrontInOrder ==
  ASSUME NEW s \in Seq(Bytes), NEW n \in Nat
  PROVE  /\ Front(s, n) \in Seq(Bytes)
         /\ All(Front(s, n)) \subseteq All(s)
         /\ InOrder(s) => InOrder(Front(s, n))
<1>1. Least(n, Len(s)) \in Nat /\ Least(n, Len(s)) <= Len(s) /\ 1 \in Nat \ {0}
  BY LenProperties DEF Least
<1> QED  BY <1>1, PartInOrder DEF Front

-----------------------------------------------------------------------------
(* The line's steps.                                                       *)

\* What is still to be parsed, by where the bytes are.
LEMMA UnparsedParts ==
  /\ Unparsed = All(wire) \cup All(Stored) \cup All(Hand)
  /\ Unparsed' = All(wire') \cup All(Stored') \cup All(Hand')
  BY DEF Unparsed, All

\* What the host may send.
LEMMA SessionFacts ==
  ASSUME LineTypeOK
  PROVE  /\ Len(session) \in Nat /\ sent \in Nat /\ sent <= Len(session)
         /\ \A f \in 1 .. Len(session) :
               /\ session[f] \in Seq(0 .. UINT8_MAX) /\ Len(session[f]) \in Nat
               /\ IsFrame(session[f]) \/ IsText(session[f])
<1>1. session \in Sessions /\ sent \in 0 .. Len(session)
  BY DEF LineTypeOK
<1>2. session \in Seq(Seq(0 .. UINT8_MAX))
  BY <1>1, LineAssumption DEF LineAssumption
<1>3. Len(session) \in Nat /\ sent \in Nat /\ sent <= Len(session)
  BY <1>1, <1>2, LenProperties
<1>4. ASSUME NEW f \in 1 .. Len(session)
      PROVE  /\ session[f] \in Seq(0 .. UINT8_MAX) /\ Len(session[f]) \in Nat
             /\ IsFrame(session[f]) \/ IsText(session[f])
  <2>1. session[f] \in Seq(0 .. UINT8_MAX)
    BY <1>2, ElementOfSeq
  <2> QED  BY <1>1, <2>1, LenProperties, LineAssumption DEF LineAssumption
<1> QED  BY <1>3, <1>4

\* A ring that no one touches.
LEMMA RingStays ==
  ASSUME RingInv, UNCHANGED ring
  PROVE  RingInv' /\ UNCHANGED <<Stored, Hand>>
  BY DEF ring, memory, reader, RingInv, RingTypeOK, Full, Stored, Hand

\* What is in order and typed around the ring.
LEMMA LineSeqs ==
  ASSUME IInv
  PROVE  /\ Hand \in Seq(Bytes) /\ Stored \in Seq(Bytes) /\ wire \in Seq(Bytes) /\ held \in Seq(Bytes)
         /\ Len(Stored) \in Nat /\ Len(wire) \in Nat /\ Len(held) \in Nat
         /\ \A b \in All(held) \cup Unparsed :
               /\ b \in Bytes /\ b.of \in 1 .. sent /\ b.of \in 1 .. Len(session)
               /\ b.at \in 1 .. Len(session[b.of]) /\ b.v = session[b.of][b.at]
               /\ b.of \in Nat /\ b.at \in Nat
<1>1. Hand \in Seq(Bytes)
  BY EmptySeq DEF IInv, RingInv, RingTypeOK, Hand
<1>2. Stored \in Seq(Bytes) /\ wire \in Seq(Bytes) /\ held \in Seq(Bytes)
  BY StoredFacts DEF IInv, LineTypeOK
<1>3. \A b \in All(held) \cup Unparsed :
        /\ b \in Bytes /\ b.of \in 1 .. sent
        /\ b.at \in 1 .. Len(session[b.of]) /\ b.v = session[b.of][b.at]
  BY DEF IInv, BytesAreGenuine, Genuine
<1>4. sent \in Nat /\ Len(session) \in Nat /\ sent <= Len(session)
  BY SessionFacts DEF IInv
<1>5. \A b \in Bytes : b.of \in Nat /\ b.at \in Nat
  BY DEF Bytes
<1> QED  BY <1>1, <1>2, <1>3, <1>4, <1>5, LenProperties

\* Bytes are moved towards the parser or lost, those of a frame only if it counts
\* as broken then.
LineMoves ==
  /\ UNCHANGED <<parser, session, sent>>
  /\ broken \subseteq broken'
  /\ Unparsed' \subseteq Unparsed
  /\ \A b \in Unparsed :
       IsFrame(session[b.of]) /\ b.at > 2 /\ b.of \notin broken' => b \in Unparsed'

\* What the parser holds stays right while they move.
LEMMA LineMovesKeep ==
  ASSUME IInv, LineMoves, RingInv', LineInOrder',
         wire' \in Seq(Bytes), faults' \in 0 .. MaxFaults, broken' \subseteq 1 .. sent
  PROVE  IInv'
<1> USE DEF LineMoves
<1>1. UNCHANGED <<pstate, held, dispatched, replies, bank, missed, session, sent>>
  BY DEF parser
<1>2. LineTypeOK'
  BY <1>1 DEF IInv, LineTypeOK
<1>3. BytesAreGenuine'
  BY <1>1 DEF IInv, BytesAreGenuine, Genuine, All
<1>4. ParserInShape'
  BY <1>1 DEF IInv, ParserInShape, DataLen
<1>5. ExecutedIsOver' /\ ExecutedOnceInOrder'
  BY <1>1 DEF IInv, ExecutedIsOver, ExecutedOnceInOrder, IsFrame, Topic, All
<1>6. NothingMissing'
  <2> SUFFICES ASSUME broken' = {} PROVE NothingMissing'
    BY DEF NothingMissing
  <2>1. broken = {}
    OBVIOUS
  <2>2. CrcAgrees(held)' /\ Ahead(All(held), Unparsed)'
    <3>1. CrcAgrees(held) /\ Ahead(All(held), Unparsed)
      BY <2>1 DEF IInv, NothingMissing
    <3>2. CrcAgrees(held)'
      BY <1>1, <3>1 DEF CrcAgrees
    <3>3. All(held') = All(held)
      BY <1>1
    <3>4. Ahead(All(held'), Unparsed')
      BY <3>1, <3>3 DEF Ahead
    <3> QED  BY <3>2, <3>4 DEF Ahead, Before
  <2>3. ASSUME NEW f \in 1 .. sent, IsFrame(session[f]), ~ Executed(f), NEW k \in 3 .. Len(session[f])
        PROVE  \E b \in All(held) \cup Unparsed' : b.of = f /\ b.at = k
    <3>1. PICK b \in All(held) \cup Unparsed : b.of = f /\ b.at = k
      BY <2>1, <2>3 DEF IInv, NothingMissing
    <3>2. b.at > 2
      BY <3>1, <2>3, SessionFacts DEF IInv
    <3> QED  BY <2>3, <3>1, <3>2
  <2>4. All(held)' = All(held) /\ \A f : Executed(f)' <=> Executed(f)
    BY <1>1 DEF All, Executed
  <2>5. \A f \in 1 .. sent' : IsFrame(session[f])' /\ ~ Executed(f)' =>
          \A k \in 3 .. Len(session[f])' : \E b \in All(held)' \cup Unparsed' : b.of = f /\ b.at = k
    BY <1>1, <2>3, <2>4 DEF IsFrame, Topic
  <2>6. \A i \in 1 .. Len(replies') : replies'[i].as # "crc"
    BY <1>1, <2>1 DEF IInv, NothingMissing
  <2> QED  BY <2>2, <2>5, <2>6 DEF NothingMissing
<1> QED  BY <1>2, <1>3, <1>4, <1>5, <1>6 DEF IInv

\* The thread's reads move bytes from the queue to its hand.
LEMMA ThreadReadsKeep == IInv /\ ThreadReads => IInv' /\ LineMoves
<1> SUFFICES ASSUME IInv, ThreadReads PROVE IInv' /\ LineMoves
  OBVIOUS
<1>1. UNCHANGED <<parser, session, sent, wire, faults, broken>>
  BY DEF ThreadReads, line
<1>2. RingInv' /\ LineInOrder' /\ Unparsed' = Unparsed
  <2>1. CASE Look \/ StartRead \/ CopyByte
    <3>1. RingInv' /\ UNCHANGED <<Stored, Hand, wire>>
      BY <1>1, <2>1, CopyKeeps DEF IInv
    <3>2. LineInOrder' /\ Unparsed' = Unparsed
      BY <3>1, UnparsedParts DEF IInv, LineInOrder, InOrder, Before, Ahead
    <3> QED  BY <3>1, <3>2
  <2>2. CASE ReleasePlaces
    <3>1. /\ RingInv' /\ want \in 1 .. Len(Stored) /\ Hand = <<>>
          /\ Hand' = SubSeq(Stored, 1, want) /\ Stored' = SubSeq(Stored, want + 1, Len(Stored))
      BY <2>2, ReleaseMoves DEF IInv
    <3>2. /\ All(Stored) = All(Hand') \cup All(Stored')
          /\ InOrder(Stored) => InOrder(Hand') /\ InOrder(Stored') /\ Ahead(All(Hand'), All(Stored'))
      <4>1. want \in Nat /\ want <= Len(Stored)
        BY <3>1, LineSeqs
      <4>2. Stored \in Seq(Bytes)
        BY LineSeqs
      <4> QED  BY <3>1, <4>1, <4>2, CutInOrder
    <3>3. All(Hand) = {}
      BY <3>1, EmptySeq DEF All
    <3>4. Unparsed' = Unparsed
      BY <1>1, <3>2, <3>3, UnparsedParts
    <3>5. /\ InOrder(Hand') /\ InOrder(Stored') /\ InOrder(wire')
          /\ Ahead(All(Hand'), All(Stored')) /\ Ahead(All(Hand'), All(wire'))
          /\ Ahead(All(Stored'), All(wire'))
      BY <1>1, <3>2 DEF IInv, LineInOrder, Ahead
    <3>6. LineInOrder'
      BY <3>5 DEF LineInOrder, InOrder, Ahead, Before
    <3> QED  BY <3>1, <3>4, <3>6
  <2> QED  BY <2>1, <2>2 DEF ThreadReads
<1>3. /\ wire' \in Seq(Bytes) /\ faults' \in 0 .. MaxFaults
      /\ broken \subseteq broken' /\ broken' \subseteq 1 .. sent
  BY <1>1 DEF IInv, LineTypeOK
<1>4. LineMoves
  BY <1>1, <1>2, <1>3 DEF LineMoves
<1> QED  BY <1>2, <1>3, <1>4, LineMovesKeep

\* What the interrupt passes on is in the chunk, in its order.
LEMMA PassedFacts ==
  ASSUME NEW chunk \in Seq(Bytes)
  PROVE  /\ ForTheRing(chunk) \in Seq(Bytes)
         /\ All(ForTheRing(chunk)) \subseteq All(chunk)
         /\ InOrder(chunk) => InOrder(ForTheRing(chunk))
<1>1. Len(chunk) \in Nat /\ 3 \in Nat \ {0} /\ Len(chunk) <= Len(chunk)
  BY LenProperties
<1>2. /\ SubSeq(chunk, 3, Len(chunk)) \in Seq(Bytes)
      /\ All(SubSeq(chunk, 3, Len(chunk))) \subseteq All(chunk)
      /\ InOrder(chunk) => InOrder(SubSeq(chunk, 3, Len(chunk)))
  BY <1>1, PartInOrder
<1>3. <<>> \in Seq(Bytes) /\ All(<<>>) = {} /\ InOrder(<<>>)
  BY EmptySeq DEF All, InOrder
<1> QED  BY <1>2, <1>3 DEF ForTheRing

\* The messages cut short were sent.
LEMMA CutShortFacts ==
  ASSUME IInv, NEW chunk, NEW passed, All(chunk) \subseteq Unparsed
  PROVE  /\ CutShort(chunk, passed) \subseteq 1 .. sent
         /\ \A b \in All(chunk) :
              IsFrame(session[b.of]) /\ b.at > 2 /\ b.of \notin CutShort(chunk, passed) =>
                b \in All(passed)
<1>1. \A b \in FrameBytes(chunk) : b \in Unparsed /\ b.of \in 1 .. sent
  BY LineSeqs DEF FrameBytes, All
<1>2. CutShort(chunk, passed) \subseteq 1 .. sent
  BY <1>1 DEF CutShort
<1>3. ASSUME NEW b \in All(chunk), IsFrame(session[b.of]), b.at > 2, b.of \notin CutShort(chunk, passed)
      PROVE  b \in All(passed)
  <2>1. b \in FrameBytes(chunk)
    BY <1>3 DEF FrameBytes, All
  <2>2. b \in FrameBytes(passed)
    BY <1>3, <2>1 DEF CutShort
  <2> QED  BY <2>2 DEF FrameBytes, All
<1> QED  BY <1>2, <1>3

\* The interrupt takes the first bytes of the wire and appends some to the queue.
LEMMA ReceivesKeeps ==
  IInv /\ (\E n \in 1 .. Least(Len(wire), DmaSize) : Receives(n)) => IInv' /\ LineMoves
<1> SUFFICES ASSUME IInv, NEW n \in 1 .. Least(Len(wire), DmaSize), Receives(n)
             PROVE  IInv' /\ LineMoves
  OBVIOUS
<1> DEFINE chunk == SubSeq(wire, 1, n)
           rest == SubSeq(wire, n + 1, Len(wire))
           passed == ForTheRing(chunk)
           fit == Fitting(passed)
<1>1. /\ wire' = rest /\ WriteToRing(passed)
      /\ broken' = broken \cup CutShort(chunk, fit)
      /\ UNCHANGED <<r, reader, parser, session, sent>>
  BY DEF Receives
<1>2. faults' \in 0 .. MaxFaults
  BY Sizes DEF IInv, LineTypeOK, Receives, FallsIdle, Fault
<1>3. /\ n \in Nat /\ n <= Len(wire)
      /\ wire \in Seq(Bytes) /\ Stored \in Seq(Bytes)
  BY LineSeqs, Sizes DEF Least
<1>4. /\ chunk \in Seq(Bytes) /\ rest \in Seq(Bytes)
      /\ All(wire) = All(chunk) \cup All(rest)
      /\ InOrder(chunk) /\ InOrder(rest) /\ Ahead(All(chunk), All(rest))
  BY <1>3, CutInOrder DEF IInv, LineInOrder
<1> HIDE DEF chunk, rest
<1>5. /\ passed \in Seq(Bytes) /\ All(passed) \subseteq All(chunk) /\ InOrder(passed)
  BY <1>4, PassedFacts
<1> HIDE DEF passed
<1>6. fit \in Seq(Bytes) /\ All(fit) \subseteq All(passed) /\ InOrder(fit)
  <2>1. Free \in Nat
    BY FullFacts DEF IInv, RingInv, RingTypeOK
  <2> QED  BY <1>5, <2>1, FrontInOrder DEF Fitting
<1>7. RingInv' /\ Stored' = Stored \o fit /\ Hand' = Hand
  BY <1>1, <1>5, WriteAppends DEF IInv
<1> HIDE DEF fit
<1>8. /\ All(fit) \subseteq All(wire) /\ All(rest) \subseteq All(wire)
      /\ InOrder(Hand) /\ InOrder(Stored)
      /\ Ahead(All(Hand), All(Stored)) /\ Ahead(All(Hand), All(wire)) /\ Ahead(All(Stored), All(wire))
  BY <1>4, <1>5, <1>6 DEF IInv, LineInOrder
<1>9. Ahead(All(Stored), All(fit)) /\ Ahead(All(fit), All(rest))
  BY <1>4, <1>5, <1>6, <1>8 DEF Ahead
<1>10. All(Stored') = All(Stored) \cup All(fit) /\ InOrder(Stored')
  BY <1>3, <1>6, <1>7, <1>8, <1>9, JoinInOrder
<1>11. LineInOrder'
  <2>1. /\ InOrder(Hand') /\ InOrder(Stored') /\ InOrder(wire')
        /\ Ahead(All(Hand'), All(Stored')) /\ Ahead(All(Hand'), All(wire'))
        /\ Ahead(All(Stored'), All(wire'))
    BY <1>1, <1>4, <1>7, <1>8, <1>9, <1>10 DEF Ahead
  <2> QED  BY <2>1 DEF LineInOrder, InOrder, Ahead, Before
<1>12. Unparsed' \subseteq Unparsed /\ All(chunk) \subseteq Unparsed
  BY <1>1, <1>4, <1>7, <1>8, <1>10, UnparsedParts
<1>13. /\ CutShort(chunk, fit) \subseteq 1 .. sent
       /\ \A b \in All(chunk) :
            IsFrame(session[b.of]) /\ b.at > 2 /\ b.of \notin CutShort(chunk, fit) => b \in All(fit)
  BY <1>12, CutShortFacts
<1>14. broken \subseteq broken' /\ broken' \subseteq 1 .. sent
  BY <1>1, <1>13 DEF IInv, LineTypeOK
<1>15. \A b \in Unparsed :
         IsFrame(session[b.of]) /\ b.at > 2 /\ b.of \notin broken' => b \in Unparsed'
  BY <1>1, <1>4, <1>7, <1>10, <1>13, UnparsedParts
<1>16. LineMoves
  BY <1>1, <1>12, <1>14, <1>15 DEF LineMoves
<1> QED  BY <1>1, <1>2, <1>4, <1>7, <1>11, <1>14, <1>16, LineMovesKeep

\* After an error they are gone.
LEMMA ReceiveErrorKeeps ==
  IInv /\ (\E n \in 1 .. Least(Len(wire), DmaSize) : ReceiveError(n)) => IInv' /\ LineMoves
<1> SUFFICES ASSUME IInv, NEW n \in 1 .. Least(Len(wire), DmaSize), ReceiveError(n)
             PROVE  IInv' /\ LineMoves
  OBVIOUS
<1> DEFINE chunk == SubSeq(wire, 1, n)
           rest == SubSeq(wire, n + 1, Len(wire))
<1>1. /\ wire' = rest /\ broken' = broken \cup CutShort(chunk, <<>>)
      /\ UNCHANGED <<ring, parser, session, sent>>
  BY DEF ReceiveError
<1>2. faults' \in 0 .. MaxFaults
  BY Sizes DEF IInv, LineTypeOK, ReceiveError, Fault
<1>3. n \in Nat /\ n <= Len(wire) /\ wire \in Seq(Bytes)
  BY LineSeqs, Sizes DEF Least
<1>4. /\ rest \in Seq(Bytes) /\ All(wire) = All(chunk) \cup All(rest) /\ InOrder(rest)
  BY <1>3, CutInOrder DEF IInv, LineInOrder
<1> HIDE DEF chunk, rest
<1>5. RingInv' /\ UNCHANGED <<Stored, Hand>>
  BY <1>1, RingStays DEF IInv
<1>6. LineInOrder'
  <2>1. /\ InOrder(Hand') /\ InOrder(Stored') /\ InOrder(wire')
        /\ Ahead(All(Hand'), All(Stored')) /\ Ahead(All(Hand'), All(wire'))
        /\ Ahead(All(Stored'), All(wire'))
    BY <1>1, <1>4, <1>5 DEF IInv, LineInOrder, Ahead
  <2> QED  BY <2>1 DEF LineInOrder, InOrder, Ahead, Before
<1>7. Unparsed' \subseteq Unparsed /\ All(chunk) \subseteq Unparsed
  BY <1>1, <1>4, <1>5, UnparsedParts
<1>8. /\ CutShort(chunk, <<>>) \subseteq 1 .. sent
      /\ \A b \in All(chunk) :
           IsFrame(session[b.of]) /\ b.at > 2 /\ b.of \notin CutShort(chunk, <<>>) =>
             b \in All(<<>>)
  BY <1>7, CutShortFacts
<1>9. All(<<>>) = {}
  BY EmptySeq DEF All
<1>10. broken \subseteq broken' /\ broken' \subseteq 1 .. sent
  BY <1>1, <1>8 DEF IInv, LineTypeOK
<1>11. \A b \in Unparsed :
         IsFrame(session[b.of]) /\ b.at > 2 /\ b.of \notin broken' => b \in Unparsed'
  BY <1>1, <1>4, <1>5, <1>8, <1>9, UnparsedParts
<1>12. LineMoves
  BY <1>1, <1>7, <1>10, <1>11 DEF LineMoves
<1> QED  BY <1>1, <1>2, <1>4, <1>5, <1>6, <1>10, <1>12, LineMovesKeep

\* A sequence over the messages sent is one over more of them.
LEMMA SentGrows ==
  ASSUME NEW a \in Nat, NEW b \in Nat, a <= b, NEW s \in Seq(1 .. a)
  PROVE  s \in Seq(1 .. b)
<1>1. 1 .. a \subseteq 1 .. b
  OBVIOUS
<1> QED  BY <1>1, SeqMonotonic

\* A message comes behind everything that was sent before it.
LEMMA SendsFacts ==
  ASSUME IInv, Sends
  PROVE  LET f == sent + 1
             m == session[f]
             new == BytesOf(f, m)
         IN  /\ f \in 1 .. Len(session) /\ Len(m) \in Nat
             /\ \A b \in All(new) :
                  b \in Bytes /\ b.of = f /\ b.at \in 1 .. Len(m) /\ b.v = m[b.at]
             /\ \A k \in 1 .. Len(m) : \E b \in All(new) : b.of = f /\ b.at = k
             /\ RingInv' /\ UNCHANGED <<Stored, Hand>>
             /\ \A b \in All(held) \cup Unparsed : b.of \in 1 .. sent /\ b.of < f /\ Genuine(b)
             /\ Ahead(All(held) \cup Unparsed, All(new))
             /\ wire' \in Seq(Bytes) /\ All(wire') = All(wire) \cup All(new) /\ InOrder(wire')
             /\ Unparsed' = Unparsed \cup All(new)
<1> DEFINE f == sent + 1
           m == session[f]
           new == BytesOf(f, m)
<1>1. /\ sent < Len(session) /\ sent' = f /\ wire' = wire \o new
      /\ UNCHANGED <<ring, parser, session, faults, broken>>
  BY DEF Sends
<1>2. UNCHANGED <<pstate, held, dispatched, replies, bank, missed>>
  BY <1>1 DEF parser
<1>3. /\ sent \in Nat /\ Len(session) \in Nat /\ f \in 1 .. Len(session)
      /\ m \in Seq(0 .. UINT8_MAX) /\ Len(m) \in Nat
  BY <1>1, SessionFacts DEF IInv
<1>4. /\ new \in Seq(Bytes) /\ Len(new) = Len(m)
      /\ \A k \in 1 .. Len(m) : new[k] = [v |-> m[k], of |-> f, at |-> k]
  <2>1. \A k \in 1 .. Len(m) : m[k] \in 0 .. UINT8_MAX
    BY <1>3, ElementOfSeq
  <2>2. \A k \in 1 .. Len(m) : [v |-> m[k], of |-> f, at |-> k] \in Bytes
    <3>1. f \in Nat \ {0} /\ \A k \in 1 .. Len(m) : k \in Nat \ {0}
      BY <1>3
    <3> HIDE DEF m, f
    <3> QED  BY <2>1, <3>1 DEF Bytes
  <2>3. new = [k \in 1 .. Len(m) |-> [v |-> m[k], of |-> f, at |-> k]]
    BY DEF BytesOf
  <2> HIDE DEF new, m, f
  <2>4. new \in [1 .. Len(m) -> Bytes]
    BY <2>2, <2>3
  <2> QED  BY <1>3, <2>3, <2>4, TableFacts
<1>5. /\ \A b \in All(new) : b \in Bytes /\ b.of = f /\ b.at \in 1 .. Len(m) /\ b.v = m[b.at]
      /\ InOrder(new)
  <2> HIDE DEF new, m, f
  <2>1. ASSUME NEW k \in 1 .. Len(m)
        PROVE  new[k].of = f /\ new[k].at = k /\ new[k].v = m[k] /\ new[k] \in Bytes
    <3>1. new[k] = [v |-> m[k], of |-> f, at |-> k]
      BY <1>4
    <3>2. new[k] \in Bytes
      BY <1>4, ElementOfSeq
    <3> QED  BY <3>1, <3>2
  <2> QED  BY <1>4, <2>1 DEF All, InOrder, Before
<1>6. \A k \in 1 .. Len(m) : \E b \in All(new) : b.of = f /\ b.at = k
  <2> HIDE DEF new, m, f
  <2>1. ASSUME NEW k \in 1 .. Len(m)
        PROVE  new[k] \in All(new) /\ new[k].of = f /\ new[k].at = k
    <3>1. new[k] = [v |-> m[k], of |-> f, at |-> k]
      BY <1>4
    <3>2. new[k] \in All(new)
      BY <1>4 DEF All
    <3> QED  BY <3>1, <3>2
  <2> QED  BY <2>1
<1> HIDE DEF new
<1>7. RingInv' /\ UNCHANGED <<Stored, Hand>>
  BY <1>1, RingStays DEF IInv
<1>8. \A b \in All(held) \cup Unparsed : b.of \in 1 .. sent /\ b.of < f /\ Genuine(b)
  BY <1>3, LineSeqs DEF Genuine
<1>9. Ahead(All(held) \cup Unparsed, All(new))
  BY <1>5, <1>8 DEF Ahead, Before
<1>10. /\ wire' \in Seq(Bytes) /\ All(wire') = All(wire) \cup All(new) /\ InOrder(wire')
  <2>1. Ahead(All(wire), All(new)) /\ wire \in Seq(Bytes) /\ InOrder(wire)
    BY <1>9, UnparsedParts, LineSeqs DEF Ahead, IInv, LineInOrder
  <2> QED  BY <1>1, <1>4, <1>5, <2>1, JoinInOrder
<1>11. Unparsed' = Unparsed \cup All(new)
  BY <1>7, <1>10, UnparsedParts
<1> QED  BY <1>3, <1>5, <1>6, <1>7, <1>8, <1>9, <1>10, <1>11 DEF new

\* It keeps the parser's state right.
LEMMA SendsKeeps == IInv /\ Sends => IInv'
<1> SUFFICES ASSUME IInv, Sends PROVE IInv'
  OBVIOUS
<1> DEFINE f == sent + 1
           m == session[f]
           new == BytesOf(f, m)
<1>1. /\ sent < Len(session) /\ sent' = f /\ wire' = wire \o new
      /\ UNCHANGED <<ring, parser, session, faults, broken>>
  BY DEF Sends
<1>2. UNCHANGED <<pstate, held, dispatched, replies, bank, missed>>
  BY <1>1 DEF parser
<1>3. sent \in Nat /\ Len(session) \in Nat /\ f \in 1 .. Len(session) /\ Len(m) \in Nat
  BY <1>1, SessionFacts DEF IInv
<1>4. /\ \A b \in All(new) : b \in Bytes /\ b.of = f /\ b.at \in 1 .. Len(m) /\ b.v = m[b.at]
      /\ \A k \in 1 .. Len(m) : \E b \in All(new) : b.of = f /\ b.at = k
      /\ RingInv' /\ UNCHANGED <<Stored, Hand>>
      /\ \A b \in All(held) \cup Unparsed : b.of \in 1 .. sent /\ b.of < f /\ Genuine(b)
      /\ Ahead(All(held) \cup Unparsed, All(new))
      /\ wire' \in Seq(Bytes) /\ All(wire') = All(wire) \cup All(new) /\ InOrder(wire')
      /\ Unparsed' = Unparsed \cup All(new)
  BY SendsFacts
<1> HIDE DEF new
<1>12. LineInOrder'
  <2>1. /\ InOrder(Hand') /\ InOrder(Stored') /\ InOrder(wire')
        /\ Ahead(All(Hand'), All(Stored')) /\ Ahead(All(Hand'), All(wire'))
        /\ Ahead(All(Stored'), All(wire'))
    BY <1>4, UnparsedParts DEF IInv, LineInOrder, Ahead
  <2> QED  BY <2>1 DEF LineInOrder, InOrder, Ahead, Before
<1>13. LineTypeOK'
  <2>1. dispatched \in Seq(1 .. sent) /\ broken \subseteq 1 .. sent
    BY DEF IInv, LineTypeOK
  <2>2. dispatched' \in Seq(1 .. sent') /\ broken' \subseteq 1 .. sent' /\ sent' \in 0 .. Len(session)
    BY <1>1, <1>2, <1>3, <2>1, SentGrows
  <2> QED  BY <1>1, <1>2, <1>4, <2>2 DEF IInv, LineTypeOK
<1>14. BytesAreGenuine'
  <2>1. ASSUME NEW b \in All(held) \cup Unparsed \cup All(new)
        PROVE  /\ b \in Bytes /\ b.of \in 1 .. f
               /\ b.at \in 1 .. Len(session[b.of]) /\ b.v = session[b.of][b.at]
    BY <1>3, <1>4 DEF Genuine
  <2> QED  BY <1>1, <1>2, <1>4, <2>1 DEF BytesAreGenuine, Genuine, All
<1>15. ParserInShape'
  BY <1>2 DEF IInv, ParserInShape, DataLen
<1>16. /\ dispatched \in Seq(1 .. sent) /\ Len(dispatched) \in Nat
       /\ \A i \in 1 .. Len(dispatched) : dispatched[i] \in 1 .. sent
  <2>1. dispatched \in Seq(1 .. sent)
    BY DEF IInv, LineTypeOK
  <2> QED  BY <2>1, LenProperties, ElementOfSeq
<1>17. ExecutedIsOver' /\ ExecutedOnceInOrder'
  <2>1. \A i \in 1 .. Len(dispatched), b \in All(new) : dispatched[i] < b.of
    BY <1>3, <1>4, <1>16
  <2>2. ExecutedIsOver'
    BY <1>2, <1>4, <2>1 DEF IInv, ExecutedIsOver, All
  <2>3. ExecutedOnceInOrder'
    BY <1>1, <1>2 DEF IInv, ExecutedOnceInOrder, IsFrame, Topic
  <2> QED  BY <2>2, <2>3
<1>18. NothingMissing'
  <2> SUFFICES ASSUME broken' = {} PROVE NothingMissing'
    BY DEF NothingMissing
  <2>1. broken = {}
    BY <1>1
  <2>2. CrcAgrees(held)'
    BY <1>2, <2>1 DEF IInv, NothingMissing, CrcAgrees
  <2>3. Ahead(All(held'), Unparsed')
    BY <1>2, <1>4, <2>1 DEF IInv, NothingMissing, Ahead
  <2>4. ASSUME NEW g \in 1 .. f, IsFrame(session[g]), ~ Executed(g), NEW k \in 3 .. Len(session[g])
        PROVE  \E b \in All(held) \cup Unparsed' : b.of = g /\ b.at = k
    <3>1. CASE g \in 1 .. sent
      BY <1>4, <2>1, <2>4, <3>1 DEF IInv, NothingMissing
    <3>2. CASE g \notin 1 .. sent
      <4>1. g = f /\ k \in 1 .. Len(m)
        BY <1>3, <3>2, <2>4
      <4> QED  BY <1>4, <4>1
    <3> QED  BY <3>1, <3>2
  <2>5. All(held') = All(held) /\ \A g : Executed(g)' <=> Executed(g)
    BY <1>2 DEF All, Executed
  <2>6. \A g \in 1 .. sent' : IsFrame(session[g])' /\ ~ Executed(g)' =>
          \A k \in 3 .. Len(session[g])' : \E b \in All(held)' \cup Unparsed' : b.of = g /\ b.at = k
    BY <1>1, <2>4, <2>5 DEF IsFrame, Topic
  <2>7. \A i \in 1 .. Len(replies') : replies'[i].as # "crc"
    BY <1>2, <2>1 DEF IInv, NothingMissing
  <2> QED  BY <2>2, <2>3, <2>6, <2>7 DEF NothingMissing, Ahead, Before
<1> QED  BY <1>4, <1>12, <1>13, <1>14, <1>15, <1>17, <1>18 DEF IInv

-----------------------------------------------------------------------------
(* The parser's steps.                                                     *)

\* The thread takes the oldest byte that is to be parsed.
LEMMA ByteTaken ==
  ASSUME IInv, ParseByte
  PROVE  /\ RingInv' /\ LineInOrder' /\ UNCHANGED line
         /\ Head(got) \in Bytes
         /\ Unparsed = {Head(got)} \cup Unparsed'
         /\ Ahead({Head(got)}, Unparsed')
<1>1. UseByte /\ UNCHANGED <<session, sent, wire, faults, broken>>
  BY DEF ParseByte, line
<1>2. /\ RingInv' /\ got = Hand /\ Hand \in Seq(Bytes) /\ Hand # <<>>
      /\ Hand' = Tail(Hand) /\ Stored' = Stored
  BY <1>1, UseTakes DEF IInv
<1>3. /\ Head(got) \in Bytes
      /\ All(Hand) = {Head(got)} \cup All(Hand')
      /\ InOrder(Hand') /\ Ahead({Head(got)}, All(Hand'))
  BY <1>2, HeadInOrder DEF IInv, LineInOrder
<1>4. LineInOrder'
  <2>1. /\ InOrder(Hand') /\ InOrder(Stored') /\ InOrder(wire')
        /\ Ahead(All(Hand'), All(Stored')) /\ Ahead(All(Hand'), All(wire'))
        /\ Ahead(All(Stored'), All(wire'))
    BY <1>1, <1>2, <1>3 DEF IInv, LineInOrder, Ahead
  <2> QED  BY <2>1 DEF LineInOrder, InOrder, Ahead, Before
<1>5. Unparsed = {Head(got)} \cup Unparsed'
  BY <1>1, <1>2, <1>3, UnparsedParts
<1>6. Ahead({Head(got)}, Unparsed')
  <2>1. Ahead(All(Hand), All(Stored)) /\ Ahead(All(Hand), All(wire)) /\ Head(got) \in All(Hand)
    BY <1>3 DEF IInv, LineInOrder
  <2> QED  BY <1>1, <1>2, <1>3, <2>1, UnparsedParts DEF Ahead
<1> QED  BY <1>1, <1>2, <1>3, <1>4, <1>5, <1>6 DEF line

\* The parts of a frame that the host sent.
LEMMA FrameFacts ==
  ASSUME IInv, NEW f \in 1 .. sent, IsFrame(session[f])
  PROVE  /\ Len(session[f]) \in Nat /\ Len(session[f]) >= 8
         /\ session[f][1] # Magic /\ session[f][2] # Magic /\ session[f][3] = Magic
         /\ session[f][6] \in Nat /\ Len(session[f]) = session[f][6] + 8
<1>1. f \in 1 .. Len(session) /\ session[f] \in Seq(0 .. UINT8_MAX) /\ Len(session[f]) \in Nat
  BY SessionFacts DEF IInv
<1>2. Len(session[f]) >= 8 /\ Len(session[f]) = session[f][6] + 8
  BY DEF IsFrame
<1>3. session[f][6] \in Nat
  <2>1. 6 \in 1 .. Len(session[f])
    BY <1>1, <1>2
  <2>2. session[f][6] \in 0 .. UINT8_MAX
    BY <1>1, <2>1, ElementOfSeq
  <2> QED  BY <2>2
<1>4. session[f][1] # Magic /\ session[f][2] # Magic /\ session[f][3] = Magic
  BY LineAssumption DEF LineAssumption, IsFrame
<1> QED  BY <1>1, <1>2, <1>3, <1>4

\* Only frames hold the byte that starts one.
LEMMA MagicStartsFrame ==
  ASSUME IInv, NEW b \in All(held) \cup Unparsed, b.v = Magic
  PROVE  b.of \in 1 .. sent /\ IsFrame(session[b.of])
<1>1. /\ b.of \in 1 .. sent /\ b.of \in 1 .. Len(session)
      /\ b.at \in 1 .. Len(session[b.of]) /\ session[b.of][b.at] = Magic
  BY LineSeqs
<1>2. IsFrame(session[b.of]) \/ IsText(session[b.of])
  BY <1>1, SessionFacts DEF IInv
<1> QED  BY <1>1, <1>2 DEF IsText

\* What the parser holds, as long as it agrees, is the beginning of a frame.
LEMMA HeldIsFrame ==
  ASSUME IInv, NEW frame \in Seq(Bytes), frame # <<>>, frame[1].v = Magic,
         All(frame) \subseteq All(held) \cup Unparsed, CrcAgrees(frame)
  PROVE  /\ frame[1].of \in 1 .. sent /\ IsFrame(session[frame[1].of])
         /\ Len(frame) \in Nat \ {0}
         /\ \A k \in 1 .. Len(frame) : /\ frame[k] \in All(frame)
                                       /\ frame[k].of = frame[1].of /\ frame[k].at = k + 2
         /\ Len(frame) >= 4 => /\ DataLen(frame) \in Nat
                               /\ Len(session[frame[1].of]) = DataLen(frame) + 8
<1> DEFINE f == frame[1].of
<1>1. Len(frame) \in Nat \ {0} /\ \A k \in 1 .. Len(frame) : frame[k] \in All(frame)
  BY EmptySeq DEF All
<1>2. frame[1] \in All(held) \cup Unparsed
  BY <1>1
<1>3. f \in 1 .. sent /\ IsFrame(session[f])
  BY <1>2, MagicStartsFrame
<1>4. \A k \in 1 .. Len(frame) : frame[k].of = f /\ frame[k].at = k + 2
  BY DEF CrcAgrees
<1>5. ASSUME Len(frame) >= 4
      PROVE  DataLen(frame) \in Nat /\ Len(session[f]) = DataLen(frame) + 8
  <2>1. 4 \in 1 .. Len(frame)
    BY <1>1, <1>5
  <2>2. frame[4] \in All(held) \cup Unparsed /\ frame[4].of = f /\ frame[4].at = 6
    BY <1>1, <1>4, <2>1
  <2>3. frame[4].v = session[f][6]
    BY <2>2, LineSeqs
  <2> QED  BY <1>3, <2>3, FrameFacts DEF DataLen
<1> QED  BY <1>1, <1>3, <1>4, <1>5

\* On a line that lost nothing, the byte that follows a frame's beginning is that
\* frame's next one.
LEMMA NextInStep ==
  ASSUME IInv, ParseByte, broken = {}, held # <<>>
  PROVE  /\ CrcAgrees(Append(held, Head(got)))
         /\ Append(held, Head(got)) \in Seq(Bytes)
         /\ Len(Append(held, Head(got))) = Len(held) + 1
<1> DEFINE b == Head(got)
           f == held[1].of
           n == Len(held)
<1>1. /\ b \in Bytes /\ Unparsed = {b} \cup Unparsed' /\ Ahead({b}, Unparsed')
  BY ByteTaken
<1> HIDE DEF b
<1>2. /\ held \in Seq(Bytes) /\ held[1].v = Magic /\ CrcAgrees(held) /\ Ahead(All(held), Unparsed)
  BY LineSeqs DEF IInv, ParserInShape, NothingMissing
<1>3. /\ f \in 1 .. sent /\ IsFrame(session[f])
      /\ n \in Nat \ {0}
      /\ \A k \in 1 .. n : held[k] \in All(held) /\ held[k].of = f /\ held[k].at = k + 2
      /\ n >= 4 => DataLen(held) \in Nat /\ Len(session[f]) = DataLen(held) + 8
  BY <1>2, HeldIsFrame
<1>4. n + 3 \in 3 .. Len(session[f])
  <2>1. n >= 4 => n <= 5 + DataLen(held)
    <3>1. pstate \in {"start", "header", "data", "crc"}
      BY DEF IInv, LineTypeOK
    <3>2. /\ pstate # "start"
          /\ pstate = "header" => n < 4
          /\ pstate = "data" => n < 4 + DataLen(held)
          /\ pstate = "crc" => n \in {4 + DataLen(held), 5 + DataLen(held)}
      BY DEF IInv, ParserInShape
    <3> HIDE DEF n
    <3> QED  BY <1>3, <3>1, <3>2
  <2>2. Len(session[f]) \in Nat /\ Len(session[f]) >= 8
    BY <1>3, FrameFacts
  <2> QED  BY <1>3, <2>1, <2>2
<1>5. ~ Executed(f)
  <2>1. held[1] \in All(held)
    BY <1>3
  <2> QED  BY <1>3, <2>1, LineSeqs DEF IInv, ExecutedIsOver, Executed
<1>6. PICK c \in All(held) \cup Unparsed : c.of = f /\ c.at = n + 3
  BY <1>3, <1>4, <1>5 DEF IInv, NothingMissing
<1>7. c \in Unparsed
  <2>1. \A k \in 1 .. n : held[k].at # n + 3
    BY <1>3
  <2> QED  BY <1>6, <2>1 DEF All
<1>8. b.of = f /\ b.at = n + 3
  <2>1. c = b \/ Before(b, c)
    BY <1>1, <1>7 DEF Ahead
  <2>2. Before(held[n], b) /\ held[n].of = f /\ held[n].at = n + 2
    BY <1>1, <1>2, <1>3 DEF Ahead
  <2>3. b.of \in Nat /\ b.at \in Nat /\ f \in Nat
    BY <1>1, <1>3 DEF Bytes
  <2> QED  BY <1>3, <1>6, <2>1, <2>2, <2>3 DEF Before
<1>9. /\ Append(held, b) \in Seq(Bytes) /\ Len(Append(held, b)) = n + 1
      /\ \A k \in 1 .. n : Append(held, b)[k] = held[k]
      /\ Append(held, b)[n + 1] = b
  BY <1>1, <1>2, AppendProperties
<1>10. ASSUME NEW k \in 1 .. n + 1
       PROVE  Append(held, b)[k].of = f /\ Append(held, b)[k].at = k + 2
  <2>1. CASE k \in 1 .. n
    BY <1>3, <1>9, <2>1
  <2>2. CASE k = n + 1
    BY <1>3, <1>8, <1>9, <2>2
  <2> QED  BY <1>3, <2>1, <2>2
<1>11. Append(held, b)[1].of = f
  BY <1>3, <1>9
<1>12. CrcAgrees(Append(held, b))
  BY <1>9, <1>10, <1>11 DEF CrcAgrees
<1> QED  BY <1>9, <1>12 DEF b

\* The byte that starts a frame is its third, and no byte is one that the parser
\* passes by before.
LEMMA StartInStep ==
  ASSUME IInv, ParseByte, broken = {}, held = <<>>
  PROVE  LET b == Head(got)
         IN  IF b.v = Magic THEN b.at = 3 ELSE ~ (IsFrame(session[b.of]) /\ b.at > 2)
<1> DEFINE b == Head(got)
<1>1. /\ b \in Bytes /\ Unparsed = {b} \cup Unparsed' /\ Ahead({b}, Unparsed')
  BY ByteTaken
<1>2. All(held) = {}
  BY EmptySeq DEF All
<1> HIDE DEF b
<1>3. /\ b.of \in 1 .. sent /\ b.at \in 1 .. Len(session[b.of]) /\ b.v = session[b.of][b.at]
      /\ b.of \in Nat /\ b.at \in Nat
  BY <1>1, LineSeqs
<1>4. ASSUME IsFrame(session[b.of]), b.at > 2
      PROVE  b.at = 3 /\ b.v = Magic
  <2>1. ~ Executed(b.of)
    BY <1>1, <1>3 DEF IInv, ExecutedIsOver, Executed
  <2>2. 3 \in 3 .. Len(session[b.of])
    BY <1>3, <1>4, FrameFacts
  <2>3. PICK c \in All(held) \cup Unparsed : c.of = b.of /\ c.at = 3
    BY <1>3, <1>4, <2>1, <2>2 DEF IInv, NothingMissing
  <2>4. c = b \/ Before(b, c)
    BY <1>1, <1>2, <2>3 DEF Ahead
  <2>5. b.at = 3
    BY <1>3, <1>4, <2>3, <2>4 DEF Before
  <2> QED  BY <1>3, <1>4, <2>5, FrameFacts
<1>5. CASE b.v = Magic
  <2>1. IsFrame(session[b.of])
    BY <1>1, <1>5, MagicStartsFrame
  <2>2. b.at # 1 /\ b.at # 2
    BY <1>3, <1>5, <2>1, FrameFacts
  <2>3. b.at = 3
    BY <1>3, <1>4, <2>1, <2>2
  <2> QED  BY <1>5, <2>3 DEF b
<1>6. CASE b.v # Magic
  BY <1>4, <1>6 DEF b
<1> QED  BY <1>5, <1>6

\* A byte collected or passed by.
LEMMA CollectKeeps ==
  ASSUME IInv, ParseByte, Collects(Head(got)),
         pstate' \in {"start", "header", "data", "crc"},
         held' \in Seq(Bytes), All(held') \subseteq All(held) \cup {Head(got)},
         ParserInShape', replies' \in Seq(Replies),
         broken = {} =>
           /\ CrcAgrees(held')
           /\ All(held) \subseteq All(held')
           /\ IsFrame(session[Head(got).of]) /\ Head(got).at > 2 => Head(got) \in All(held')
           /\ replies' = replies
  PROVE  IInv'
<1> DEFINE b == Head(got)
<1>1. /\ RingInv' /\ LineInOrder' /\ UNCHANGED <<session, sent, wire, faults, broken>>
      /\ Unparsed = {b} \cup Unparsed' /\ Ahead({b}, Unparsed')
  BY ByteTaken DEF line
<1>2. UNCHANGED <<dispatched, bank>>
  BY DEF Collects
<1>3. missed' \in Nat
  BY DEF Collects, IInv, LineTypeOK
<1> HIDE DEF b
<1>4. All(held') \subseteq All(held) \cup {b} /\ All(held') \cup Unparsed' \subseteq All(held) \cup Unparsed
  BY <1>1 DEF b
<1>5. LineTypeOK'
  BY <1>1, <1>2, <1>3 DEF IInv, LineTypeOK
<1>6. BytesAreGenuine'
  BY <1>1, <1>4 DEF IInv, BytesAreGenuine, Genuine, All
<1>7. ExecutedIsOver' /\ ExecutedOnceInOrder'
  <2>1. ExecutedIsOver'
    BY <1>2, <1>4 DEF IInv, ExecutedIsOver, All
  <2>2. ExecutedOnceInOrder'
    BY <1>1, <1>2 DEF IInv, ExecutedOnceInOrder, IsFrame, Topic
  <2> QED  BY <2>1, <2>2
<1>8. NothingMissing'
  <2> SUFFICES ASSUME broken' = {} PROVE NothingMissing'
    BY DEF NothingMissing
  <2>1. broken = {}
    BY <1>1
  <2>2. CrcAgrees(held') /\ replies' = replies /\ All(held) \subseteq All(held')
    BY <2>1
  <2>3. Ahead(All(held'), Unparsed')
    BY <1>1, <1>4, <2>1 DEF IInv, NothingMissing, Ahead
  <2>4. ASSUME NEW f \in 1 .. sent, IsFrame(session[f]), ~ Executed(f), NEW k \in 3 .. Len(session[f])
        PROVE  \E c \in All(held') \cup Unparsed' : c.of = f /\ c.at = k
    <3>1. PICK c \in All(held) \cup Unparsed : c.of = f /\ c.at = k
      BY <2>1, <2>4 DEF IInv, NothingMissing
    <3>2. c = b => b \in All(held')
      <4>1. k > 2
        BY <2>4, SessionFacts DEF IInv
      <4> QED  BY <2>1, <2>4, <3>1, <4>1 DEF b
    <3> QED  BY <1>1, <2>2, <3>1, <3>2
  <2>5. \A f : Executed(f)' <=> Executed(f)
    BY <1>2 DEF Executed
  <2>6. \A f \in 1 .. sent' : IsFrame(session[f])' /\ ~ Executed(f)' =>
          \A k \in 3 .. Len(session[f])' : \E c \in All(held') \cup Unparsed' : c.of = f /\ c.at = k
    BY <1>1, <2>4, <2>5 DEF IsFrame, Topic
  <2>7. \A i \in 1 .. Len(replies') : replies'[i].as # "crc"
    BY <2>1, <2>2 DEF IInv, NothingMissing
  <2>8. CrcAgrees(held)' /\ Ahead(All(held), Unparsed)'
    BY <2>2, <2>3 DEF CrcAgrees, Ahead, All, Before
  <2> QED  BY <2>6, <2>7, <2>8 DEF NothingMissing, All
<1> QED  BY <1>1, <1>5, <1>6, <1>7, <1>8 DEF IInv

\* Another byte behind what is held.
LEMMA HeldGrows ==
  ASSUME IInv, ParseByte, held # <<>>
  PROVE  LET b == Head(got)
             next == Append(held, b)
         IN  /\ b \in Bytes /\ next \in Seq(Bytes) /\ next # <<>>
             /\ Len(held) \in Nat \ {0} /\ Len(next) = Len(held) + 1
             /\ next[1].v = Magic
             /\ All(next) = All(held) \cup {b}
             /\ Len(held) >= 4 => DataLen(next) = DataLen(held)
             /\ Len(next) >= 4 => DataLen(next) \in Nat
             /\ broken = {} => CrcAgrees(next)
<1> DEFINE b == Head(got)
           next == Append(held, b)
<1>1. b \in Bytes /\ held \in Seq(Bytes) /\ held[1].v = Magic
  BY ByteTaken, LineSeqs DEF IInv, ParserInShape
<1>2. broken = {} => CrcAgrees(next)
  BY NextInStep
<1> HIDE DEF b
<1>3. /\ next \in Seq(Bytes) /\ next # <<>> /\ Len(next) = Len(held) + 1
      /\ \A k \in 1 .. Len(held) : next[k] = held[k]
      /\ next[Len(held) + 1] = b
      /\ Len(held) \in Nat \ {0}
  BY <1>1, AppendProperties, EmptySeq
<1> HIDE DEF next
<1>4. next[1].v = Magic
  BY <1>1, <1>3
<1>5. All(next) = All(held) \cup {b}
  <2>1. 1 .. Len(next) = 1 .. Len(held) \cup {Len(held) + 1}
    BY <1>3
  <2> QED  BY <1>3, <2>1 DEF All
<1>6. Len(held) >= 4 => DataLen(next) = DataLen(held)
  BY <1>3 DEF DataLen
<1>7. Len(next) >= 4 => DataLen(next) \in Nat
  <2>1. Len(next) >= 4 => next[4] \in Bytes
    <3>1. Len(next) >= 4 => 4 \in 1 .. Len(next)
      BY <1>3
    <3> QED  BY <1>3, <3>1, ElementOfSeq
  <2>2. \A c \in Bytes : c.v \in Nat
    BY DEF Bytes
  <2> QED  BY <2>1, <2>2 DEF DataLen
<1> QED  BY <1>1, <1>2, <1>3, <1>4, <1>5, <1>6, <1>7 DEF b, next

\* The parser waits for the start of a frame.
LEMMA WaitStartKeeps == IInv /\ ParseByte /\ WaitStart(Head(got)) => IInv'
<1> SUFFICES ASSUME IInv, ParseByte, WaitStart(Head(got)) PROVE IInv'
  OBVIOUS
<1> DEFINE b == Head(got)
<1>1. /\ b \in Bytes /\ held = <<>> /\ Collects(b) /\ replies' = replies /\ pstate = "start"
      /\ IF b.v = Magic THEN pstate' = "header" /\ held' = <<b>> ELSE UNCHANGED <<pstate, held>>
  BY ByteTaken DEF WaitStart, IInv, ParserInShape
<1>2. broken = {} => IF b.v = Magic THEN b.at = 3 ELSE ~ (IsFrame(session[b.of]) /\ b.at > 2)
  BY <1>1, StartInStep
<1>3. replies' \in Seq(Replies)
  BY <1>1 DEF IInv, LineTypeOK
<1>4. All(held) = {}
  BY <1>1, EmptySeq DEF All
<1>5. CASE b.v = Magic
  <2> HIDE DEF b
  <2> DEFINE one == <<b>>
  <2>0. one \in Seq(Bytes) /\ Len(one) = 1 /\ one[1] = b
    BY <1>1
  <2>1. held' = one /\ pstate' = "header" /\ held' \in Seq(Bytes) /\ Len(held') = 1
        /\ held'[1] = b /\ held' # <<>>
    <3>1. held' = one /\ pstate' = "header"
      BY <1>1, <1>5
    <3> HIDE DEF one
    <3> QED  BY <2>0, <3>1, EmptySeq
  <2>2. All(held') = {b}
    BY <2>1 DEF All
  <2>3. ParserInShape'
    BY <1>5, <2>1 DEF ParserInShape
  <2>4. broken = {} => CrcAgrees(held')
    BY <1>2, <1>5, <2>1 DEF CrcAgrees
  <2> QED  BY <1>1, <1>3, <1>4, <2>1, <2>2, <2>3, <2>4, CollectKeeps DEF b
<1>6. CASE b.v # Magic
  <2>1. UNCHANGED <<pstate, held>>
    BY <1>1, <1>6
  <2>2. held' \in Seq(Bytes) /\ All(held') = {} /\ pstate' \in {"start", "header", "data", "crc"}
    BY <1>1, <1>4, <2>1, LineSeqs
  <2>3. ParserInShape'
    BY <2>1 DEF IInv, ParserInShape, DataLen
  <2>4. CrcAgrees(held')
    BY <1>1, <2>1, EmptySeq DEF CrcAgrees
  <2> QED  BY <1>1, <1>2, <1>3, <1>4, <1>6, <2>2, <2>3, <2>4, CollectKeeps
<1> QED  BY <1>5, <1>6

\* The parser fills the header and the data.
LEMMA HeaderAndDataKeep == IInv /\ ParseByte /\ (ReadHeader(Head(got)) \/ ReadData(Head(got))) => IInv'
<1> SUFFICES ASSUME IInv, ParseByte, ReadHeader(Head(got)) \/ ReadData(Head(got)) PROVE IInv'
  OBVIOUS
<1> DEFINE b == Head(got)
           next == Append(held, b)
<1>1. held' = next /\ Collects(b) /\ replies' = replies
  BY DEF ReadHeader, ReadData
<1>2. held # <<>>
  BY DEF ReadHeader, ReadData, IInv, ParserInShape
<1>3. /\ b \in Bytes /\ next \in Seq(Bytes) /\ next # <<>>
      /\ Len(held) \in Nat \ {0} /\ Len(next) = Len(held) + 1
      /\ next[1].v = Magic
      /\ All(next) = All(held) \cup {b}
      /\ Len(held) >= 4 => DataLen(next) = DataLen(held)
      /\ Len(next) >= 4 => DataLen(next) \in Nat
      /\ broken = {} => CrcAgrees(next)
  BY <1>2, HeldGrows
<1> DEFINE Shape ==
             /\ pstate' \in {"header", "data", "crc"}
             /\ pstate' = "header" => Len(next) < 4
             /\ pstate' = "data" => Len(next) >= 4 /\ Len(next) < 4 + DataLen(next)
             /\ pstate' = "crc" => Len(next) >= 4 /\ Len(next) \in {4 + DataLen(next), 5 + DataLen(next)}
<1>4. ASSUME ReadHeader(b) PROVE Shape
  <2>1. /\ Len(held) < 4
        /\ pstate' = IF Len(next) < 4 THEN "header" ELSE IF DataLen(next) = 0 THEN "crc" ELSE "data"
    BY <1>1, <1>4 DEF ReadHeader, IInv, ParserInShape
  <2> HIDE DEF b, next
  <2>2. Len(held) < 4 /\ Len(held) \in Nat \ {0} /\ Len(next) = Len(held) + 1
    BY <1>3, <2>1
  <2>3. CASE Len(next) < 4
    <3>1. pstate' = "header" /\ Len(next) < 4
      BY <2>1, <2>2, <2>3
    <3> QED  BY <3>1
  <2>4. CASE ~ (Len(next) < 4)
    <3>1. Len(next) = 4
      BY <2>2, <2>4
    <3>2. DataLen(next) \in Nat /\ pstate' = IF DataLen(next) = 0 THEN "crc" ELSE "data"
      BY <1>3, <2>1, <2>4, <3>1
    <3> QED  BY <3>1, <3>2
  <2> QED  BY <2>3, <2>4
<1>5. ASSUME ReadData(b) PROVE Shape
  <2>1. /\ Len(held) >= 4 /\ Len(held) < 4 + DataLen(held)
        /\ pstate' = IF Len(next) < 4 + DataLen(next) THEN "data" ELSE "crc"
    BY <1>1, <1>5 DEF ReadData, IInv, ParserInShape
  <2> HIDE DEF b, next
  <2> QED  BY <1>3, <2>1
<1>6. Shape
  BY <1>4, <1>5
<1> HIDE DEF b, next
<1>7. ParserInShape'
  BY <1>1, <1>3, <1>6 DEF ParserInShape, DataLen
<1>8. replies' \in Seq(Replies)
  BY <1>1 DEF IInv, LineTypeOK
<1> QED  BY <1>1, <1>3, <1>6, <1>7, <1>8, CollectKeeps DEF b

\* The ranges of bytes and registers.
LEMMA Widths ==
  /\ \A x \in 0 .. UINT8_MAX : x \in Nat /\ x < 256
  /\ \A x \in Nat : x < 65536 => x \in 0 .. UINT16_MAX
<1>1. UINT8_MAX \in Nat /\ UINT16_MAX \in Nat
  BY DEF UINT8_MAX, UINT16_MAX
<1>2. ASSUME NEW n \in Nat
      PROVE  (\A x \in 0 .. n : x \in Nat /\ x <= n) /\ (\A x \in Nat : x <= n => x \in 0 .. n)
  OBVIOUS
<1>3. \A x \in Nat : (x <= UINT8_MAX => x < 256) /\ (x < 65536 => x <= UINT16_MAX)
  BY DEF UINT8_MAX, UINT16_MAX
<1> QED  BY <1>1, <1>2, <1>3

\* A handler writes 16 bits to a register.
LEMMA WrittenType ==
  ASSUME bank \in [Registers -> 0 .. UINT16_MAX], NEW id, NEW data \in Seq(0 .. UINT8_MAX)
  PROVE  Written(id, data) \in [Registers -> 0 .. UINT16_MAX]
<1> DEFINE Banks == [Registers -> 0 .. UINT16_MAX]
<1>1. Len(data) \in Nat /\ \A k \in 1 .. Len(data) : data[k] \in 0 .. UINT8_MAX
  BY LenProperties, ElementOfSeq
<1>2. \A k \in 1 .. Len(data) : data[k] \in Nat /\ data[k] < 256
  BY <1>1, Widths
<1>3. ASSUME NEW v \in Nat, v < 256
      PROVE  /\ v \in 0 .. UINT16_MAX
             /\ Bit(v, 1) \in 0 .. UINT16_MAX /\ Bit(v, 2) \in 0 .. UINT16_MAX
             /\ Bit(v, 4) \in 0 .. UINT16_MAX /\ (v \div 8) \in 0 .. UINT16_MAX
  <2>1. /\ v < 65536 /\ (v \div 8) \in Nat /\ (v \div 8) < 65536
        /\ \A x \in Int : (x % 2) \in Nat /\ (x % 2) < 65536
        /\ (v \div 1) \in Int /\ (v \div 2) \in Int /\ (v \div 4) \in Int
    BY <1>3
  <2> QED  BY <2>1, Widths DEF Bit
<1>4. ASSUME NEW lo \in Nat, lo < 256, NEW hi \in Nat, hi < 256
      PROVE  lo + 256 * hi \in 0 .. UINT16_MAX
  <2>1. lo + 256 * hi \in Nat /\ lo + 256 * hi < 65536
    BY <1>4
  <2> QED  BY <2>1, Widths
<1>5. ASSUME Len(data) > 0 PROVE data[1] \in Nat /\ data[1] < 256
  BY <1>1, <1>2, <1>5
<1>6. ASSUME Len(data) >= 2 PROVE Word(data, 1) \in 0 .. UINT16_MAX
  <2>1. data[1] \in Nat /\ data[1] < 256 /\ data[2] \in Nat /\ data[2] < 256
    BY <1>1, <1>2, <1>6
  <2>2. Word(data, 1) = data[1] + 256 * data[2]
    BY DEF Word
  <2> QED  BY <1>4, <2>1, <2>2
<1>7. ASSUME Len(data) >= 4 PROVE Word(data, 3) \in 0 .. UINT16_MAX
  <2>1. data[3] \in Nat /\ data[3] < 256 /\ data[4] \in Nat /\ data[4] < 256
    BY <1>1, <1>2, <1>7
  <2>2. Word(data, 3) = data[3] + 256 * data[4]
    BY DEF Word
  <2> QED  BY <1>4, <2>1, <2>2
<1>8. ASSUME NEW reg, NEW v \in 0 .. UINT16_MAX, NEW old \in Banks
      PROVE  [old EXCEPT ![reg] = v] \in Banks
  OBVIOUS
<1>9. bank \in Banks
  OBVIOUS
<1> HIDE DEF Banks
<1>10. Len(data) > 0 => /\ [bank EXCEPT !["HEARTBEAT_ENABLE"] = data[1]] \in Banks
                        /\ [bank EXCEPT !["STATUS_HEART_BEAT"] = data[1]] \in Banks
                        /\ [bank EXCEPT !["SOFT_STANDBY_ENABLE"] = data[1]] \in Banks
  BY <1>3, <1>5, <1>8, <1>9
<1>11. Len(data) > 0 =>
         [bank EXCEPT !["CMD_LED_SWITCH"] = Bit(data[1], 1),
                      !["CMD_BUZZER_7M"] = Bit(data[1], 2),
                      !["CMD_BUZZER_3M"] = Bit(data[1], 4),
                      !["CMD_VOLUME"] = data[1] \div 8] \in Banks
  <2> SUFFICES ASSUME Len(data) > 0
               PROVE  [bank EXCEPT !["CMD_LED_SWITCH"] = Bit(data[1], 1),
                                   !["CMD_BUZZER_7M"] = Bit(data[1], 2),
                                   !["CMD_BUZZER_3M"] = Bit(data[1], 4),
                                   !["CMD_VOLUME"] = data[1] \div 8] \in Banks
    OBVIOUS
  <2>1. /\ Bit(data[1], 1) \in 0 .. UINT16_MAX /\ Bit(data[1], 2) \in 0 .. UINT16_MAX
        /\ Bit(data[1], 4) \in 0 .. UINT16_MAX /\ (data[1] \div 8) \in 0 .. UINT16_MAX
    BY <1>3, <1>5
  <2> QED  BY <1>9, <2>1 DEF Banks
<1>12. Len(data) >= 4 =>
         [bank EXCEPT !["STATUS_POWER_ON_TIME"] = Word(data, 1),
                      !["STATUS_POWER_OFF_TIME"] = Word(data, 3)] \in Banks
  <2> SUFFICES ASSUME Len(data) >= 4
               PROVE  [bank EXCEPT !["STATUS_POWER_ON_TIME"] = Word(data, 1),
                                   !["STATUS_POWER_OFF_TIME"] = Word(data, 3)] \in Banks
    OBVIOUS
  <2>1. Word(data, 1) \in 0 .. UINT16_MAX /\ Word(data, 3) \in 0 .. UINT16_MAX
    BY <1>1, <1>6, <1>7
  <2> QED  BY <1>9, <2>1 DEF Banks
<1>13. Len(data) >= 2 => [bank EXCEPT !["RTC_TIME"] = Word(data, 1)] \in Banks
  BY <1>6, <1>8, <1>9
<1> QED
  BY <1>9, <1>10, <1>11, <1>12, <1>13 DEF Written, Banks

\* The data of a whole frame.
LEMMA DataFacts ==
  ASSUME NEW frame \in Seq(Bytes), Len(frame) = DataLen(frame) + 6, DataLen(frame) \in Nat
  PROVE  DataOf(frame) \in Seq(0 .. UINT8_MAX)
<1>1. \A k \in 1 .. DataLen(frame) : frame[k + 4] \in Bytes
  <2>1. \A k \in 1 .. DataLen(frame) : k + 4 \in 1 .. Len(frame)
    OBVIOUS
  <2> QED  BY <2>1, ElementOfSeq
<1>2. \A b \in Bytes : b.v \in 0 .. UINT8_MAX
  BY DEF Bytes
<1>3. DataOf(frame) \in [1 .. DataLen(frame) -> 0 .. UINT8_MAX]
  BY <1>1, <1>2 DEF DataOf
<1> QED  BY <1>3, TableFacts

\* A reply goes to a message.
LEMMA ReplyType ==
  ASSUME IInv, NEW frame, NEW as, frame[1].of \in Nat \ {0},
         as \in {"value", "done", "crc", "length", "unknown", "access", "none"},
         Replied(frame, as)
  PROVE  /\ replies' \in Seq(Replies)
         /\ broken = {} /\ as # "crc" => \A i \in 1 .. Len(replies') : replies'[i].as # "crc"
<1>1. replies \in Seq(Replies) /\ (broken = {} => \A i \in 1 .. Len(replies) : replies[i].as # "crc")
  BY DEF IInv, LineTypeOK, NothingMissing
<1>2. CASE as = "none"
  BY <1>1, <1>2 DEF Replied
<1>3. CASE as # "none"
  <2> DEFINE e == [to |-> frame[1].of, as |-> as]
  <2>1. e \in Replies /\ e.as = as
    BY <1>3 DEF Replies
  <2>2. replies' = Append(replies, e)
    BY <1>3 DEF Replied
  <2> HIDE DEF e
  <2>3. /\ Append(replies, e) \in Seq(Replies) /\ Len(Append(replies, e)) = Len(replies) + 1
        /\ \A i \in 1 .. Len(replies) : Append(replies, e)[i] = replies[i]
        /\ Append(replies, e)[Len(replies) + 1] = e
        /\ Len(replies) \in Nat
    BY <1>1, <2>1, AppendProperties, LenProperties
  <2>4. ASSUME broken = {}, as # "crc", NEW i \in 1 .. Len(replies')
        PROVE  replies'[i].as # "crc"
    <3>1. CASE i \in 1 .. Len(replies)
      BY <1>1, <2>2, <2>3, <2>4, <3>1
    <3>2. CASE i = Len(replies) + 1
      BY <2>1, <2>2, <2>3, <2>4, <3>2
    <3> QED  BY <2>2, <2>3, <3>1, <3>2
  <2> QED  BY <2>2, <2>3, <2>4
<1> QED  BY <1>2, <1>3

\* A reply, for whatever was received.
LEMMA AnswerType ==
  ASSUME NEW id, NEW data
  PROVE  Answer(id, data) \in {"value", "done", "length", "unknown", "access", "none"}
  BY DEF Answer

\* The frame whose CRC agrees is one that the host sent, from its first byte to
\* its last, and it is executed.
LEMMA FrameKeeps ==
  ASSUME IInv, ParseByte, NEW frame, frame = Append(held, Head(got)), pstate = "crc",
         Len(frame) = DataLen(frame) + 6, CrcAgrees(frame), FrameComplete(frame),
         held' = <<>>, pstate' = "start"
  PROVE  IInv'
<1> DEFINE b == Head(got)
           f == frame[1].of
           data == DataOf(frame)
<1>0. held # <<>> /\ Len(held) >= 4
  BY DEF IInv, ParserInShape
<1>1. /\ RingInv' /\ LineInOrder' /\ UNCHANGED <<session, sent, wire, faults, broken>>
      /\ b \in Bytes /\ Unparsed = {b} \cup Unparsed' /\ Ahead({b}, Unparsed')
  BY ByteTaken DEF line
<1>2. /\ frame \in Seq(Bytes) /\ frame # <<>> /\ Len(held) \in Nat \ {0} /\ Len(frame) = Len(held) + 1
      /\ frame[1].v = Magic /\ All(frame) = All(held) \cup {b}
      /\ Len(frame) >= 4 => DataLen(frame) \in Nat
  BY <1>0, HeldGrows
<1>3. frame[Len(frame)] = b
  <2>1. held \in Seq(Bytes)
    BY LineSeqs
  <2> QED  BY <1>1, <1>2, <2>1, AppendProperties
<1> HIDE DEF b
<1>4. All(frame) \subseteq All(held) \cup Unparsed
  BY <1>1, <1>2
<1>5. /\ f \in 1 .. sent /\ IsFrame(session[f])
      /\ Len(frame) \in Nat \ {0}
      /\ \A k \in 1 .. Len(frame) : /\ frame[k] \in All(frame)
                                    /\ frame[k].of = f /\ frame[k].at = k + 2
      /\ Len(frame) >= 4 => /\ DataLen(frame) \in Nat
                            /\ Len(session[f]) = DataLen(frame) + 8
  BY <1>2, <1>4, HeldIsFrame
<1>6. /\ DataLen(frame) \in Nat /\ Len(session[f]) = DataLen(frame) + 8
      /\ Len(session[f]) \in Nat
  BY <1>0, <1>2, <1>5
<1>7. b.of = f /\ b.at = Len(session[f])
  <2>1. Len(frame) \in 1 .. Len(frame)
    BY <1>5
  <2> QED  BY <1>3, <1>5, <1>6, <2>1
<1>8. ASSUME NEW c \in Unparsed'  PROVE f < c.of
  <2>1. Before(b, c)
    BY <1>1, <1>8 DEF Ahead
  <2>2. /\ c.of \in Nat /\ c.at \in Nat /\ c.at \in 1 .. Len(session[c.of])
    BY <1>1, <1>8, LineSeqs
  <2>3. f \in Nat
    BY <1>5, SessionFacts DEF IInv
  <2> QED  BY <1>6, <1>7, <2>1, <2>2, <2>3 DEF Before
<1>9. /\ dispatched' = Append(dispatched, f) /\ missed' = 0
      /\ bank' = Written(IdOf(frame), data)
      /\ Replied(frame, Answer(IdOf(frame), data))
  BY DEF FrameComplete
<1>10. /\ Append(dispatched, f) \in Seq(1 .. sent)
       /\ Len(Append(dispatched, f)) = Len(dispatched) + 1
       /\ \A i \in 1 .. Len(dispatched) : Append(dispatched, f)[i] = dispatched[i]
       /\ Append(dispatched, f)[Len(dispatched) + 1] = f
       /\ Len(dispatched) \in Nat
       /\ \A i \in 1 .. Len(dispatched) : dispatched[i] < f
  <2>1. dispatched \in Seq(1 .. sent)
    BY DEF IInv, LineTypeOK
  <2>2. \A i \in 1 .. Len(dispatched) : dispatched[i] < b.of
    BY <1>1 DEF IInv, ExecutedIsOver
  <2> QED  BY <1>5, <1>7, <2>1, <2>2, AppendProperties, LenProperties
<1>11. bank' \in [Registers -> 0 .. UINT16_MAX]
  <2>1. data \in Seq(0 .. UINT8_MAX)
    BY <1>2, <1>6, DataFacts
  <2> HIDE DEF data
  <2> QED  BY <1>9, <2>1, WrittenType DEF IInv, LineTypeOK
<1>12. /\ replies' \in Seq(Replies)
       /\ broken = {} => \A i \in 1 .. Len(replies') : replies'[i].as # "crc"
  <2> DEFINE as == Answer(IdOf(frame), data)
  <2>1. as \in {"value", "done", "length", "unknown", "access", "none"}
    BY AnswerType
  <2>2. frame[1].of \in Nat \ {0}
    BY <1>5, SessionFacts DEF IInv
  <2>3. Replied(frame, as)
    BY <1>9
  <2> HIDE DEF as
  <2>4. as \in {"value", "done", "crc", "length", "unknown", "access", "none"} /\ as # "crc"
    BY <2>1
  <2> QED  BY <2>2, <2>3, <2>4, ReplyType
<1>13. <<>> \in Seq(Bytes) /\ All(<<>>) = {}
  BY EmptySeq DEF All
<1> HIDE DEF f, data
<1>14. LineTypeOK'
  BY <1>1, <1>9, <1>10, <1>11, <1>12, <1>13 DEF IInv, LineTypeOK
<1>15. BytesAreGenuine'
  BY <1>1, <1>13 DEF IInv, BytesAreGenuine, Genuine, All
<1>16. ParserInShape'
  BY DEF ParserInShape
<1>17. ExecutedIsOver'
  <2>1. ASSUME NEW i \in 1 .. Len(dispatched'), NEW c \in Unparsed'
        PROVE  dispatched'[i] < c.of
    <3>1. CASE i \in 1 .. Len(dispatched)
      BY <1>1, <1>9, <1>10, <2>1, <3>1 DEF IInv, ExecutedIsOver
    <3>2. CASE i = Len(dispatched) + 1
      BY <1>8, <1>9, <1>10, <2>1, <3>2
    <3> QED  BY <1>9, <1>10, <3>1, <3>2
  <2> QED  BY <1>13, <2>1 DEF ExecutedIsOver, All
<1>18. ExecutedOnceInOrder'
  <2>1. ASSUME NEW i \in 1 .. Len(dispatched'), NEW j \in 1 .. Len(dispatched')
        PROVE  /\ IsFrame(session[dispatched'[i]])
               /\ i < j => dispatched'[i] < dispatched'[j]
    <3>1. CASE j \in 1 .. Len(dispatched)
      <4>1. CASE i \in 1 .. Len(dispatched)
        BY <1>9, <1>10, <3>1, <4>1 DEF IInv, ExecutedOnceInOrder
      <4>2. CASE i = Len(dispatched) + 1
        BY <1>5, <1>9, <1>10, <3>1, <4>2 DEF f
      <4> QED  BY <1>9, <1>10, <4>1, <4>2
    <3>2. CASE j = Len(dispatched) + 1
      <4>1. CASE i \in 1 .. Len(dispatched)
        <5>1. IsFrame(session[dispatched[i]])
          BY <4>1 DEF IInv, ExecutedOnceInOrder
        <5> QED  BY <1>9, <1>10, <3>2, <4>1, <5>1
      <4>2. CASE i = Len(dispatched) + 1
        BY <1>5, <1>9, <1>10, <3>2, <4>2 DEF f
      <4> QED  BY <1>9, <1>10, <4>1, <4>2
    <3> QED  BY <1>9, <1>10, <3>1, <3>2
  <2> QED  BY <1>1, <2>1 DEF ExecutedOnceInOrder, IsFrame, Topic
<1>19. NothingMissing'
  <2> SUFFICES ASSUME broken' = {} PROVE NothingMissing'
    BY DEF NothingMissing
  <2>1. broken = {}
    BY <1>1
  <2>2. CrcAgrees(held)' /\ Ahead(All(held), Unparsed)'
    <3>1. All(held') = {} /\ Len(held') = 0
      BY <1>13, EmptySeq
    <3> QED  BY <3>1 DEF CrcAgrees, Ahead, All, Before
  <2>3. \A g : Executed(g)' <=> Executed(g) \/ g = f
    <3> TAKE g
    <3>1. Executed(g)' => Executed(g) \/ g = f
      <4> SUFFICES ASSUME NEW i \in 1 .. Len(dispatched'), dispatched'[i] = g
                   PROVE  Executed(g) \/ g = f
        BY DEF Executed
      <4>1. i \in 1 .. Len(dispatched) \/ i = Len(dispatched) + 1
        BY <1>9, <1>10
      <4> QED  BY <1>9, <1>10, <4>1 DEF Executed
    <3>2. Executed(g) => Executed(g)'
      <4> SUFFICES ASSUME NEW i \in 1 .. Len(dispatched), dispatched[i] = g
                   PROVE  Executed(g)'
        BY DEF Executed
      <4>1. i \in 1 .. Len(dispatched') /\ dispatched'[i] = g
        BY <1>9, <1>10
      <4> QED  BY <4>1 DEF Executed
    <3>3. Executed(f)'
      <4>1. Len(dispatched) + 1 \in 1 .. Len(dispatched') /\ dispatched'[Len(dispatched) + 1] = f
        BY <1>9, <1>10
      <4> QED  BY <4>1 DEF Executed
    <3> QED  BY <3>1, <3>2, <3>3
  <2>4. ASSUME NEW g \in 1 .. sent, IsFrame(session[g]), ~ Executed(g), g # f,
               NEW k \in 3 .. Len(session[g])
        PROVE  \E c \in Unparsed' : c.of = g /\ c.at = k
    <3>1. PICK c \in All(held) \cup Unparsed : c.of = g /\ c.at = k
      BY <2>1, <2>4 DEF IInv, NothingMissing
    <3>2. \A d \in All(held) \cup {b} : d.of = f
      <4>1. \A d \in All(frame) : d.of = f
        BY <1>5 DEF All, f
      <4> QED  BY <1>2, <4>1
    <3> QED  BY <1>1, <2>4, <3>1, <3>2
  <2>5. \A g \in 1 .. sent' : IsFrame(session[g])' /\ ~ Executed(g)' =>
          \A k \in 3 .. Len(session[g])' : \E c \in All(held)' \cup Unparsed' : c.of = g /\ c.at = k
    BY <1>1, <2>3, <2>4 DEF IsFrame, Topic
  <2> QED  BY <1>12, <2>1, <2>2, <2>5 DEF NothingMissing
<1> QED  BY <1>1, <1>14, <1>15, <1>16, <1>17, <1>18, <1>19 DEF IInv

\* The parser takes the CRC and judges the frame.
LEMMA CrcKeeps == IInv /\ ParseByte /\ ReadCrc(Head(got)) => IInv'
<1> SUFFICES ASSUME IInv, ParseByte, ReadCrc(Head(got)) PROVE IInv'
  OBVIOUS
<1> DEFINE b == Head(got)
           frame == Append(held, b)
<1>1. /\ pstate = "crc" /\ held # <<>>
      /\ Len(held) >= 4 /\ Len(held) \in {4 + DataLen(held), 5 + DataLen(held)}
  BY DEF ReadCrc, IInv, ParserInShape
<1>2. /\ b \in Bytes /\ frame \in Seq(Bytes) /\ frame # <<>>
      /\ Len(held) \in Nat \ {0} /\ Len(frame) = Len(held) + 1
      /\ frame[1].v = Magic
      /\ All(frame) = All(held) \cup {b}
      /\ Len(held) >= 4 => DataLen(frame) = DataLen(held)
      /\ Len(frame) >= 4 => DataLen(frame) \in Nat
      /\ broken = {} => CrcAgrees(frame)
  BY <1>1, HeldGrows
<1>3. CASE Len(frame) # DataLen(frame) + 6
  <2>1. held' = frame /\ pstate' = "crc" /\ Collects(b) /\ replies' = replies
    BY <1>3 DEF ReadCrc, Replied
  <2> HIDE DEF b, frame
  <2>2. Len(frame) >= 4 /\ Len(frame) = 5 + DataLen(frame)
    BY <1>1, <1>2, <1>3
  <2>3. ParserInShape'
    BY <1>2, <2>1, <2>2 DEF ParserInShape, DataLen
  <2>4. replies' \in Seq(Replies)
    BY <2>1 DEF IInv, LineTypeOK
  <2> QED  BY <1>2, <2>1, <2>3, <2>4, CollectKeeps DEF b
<1>4. CASE Len(frame) = DataLen(frame) + 6 /\ ~ CrcAgrees(frame)
  <2>1. held' = <<>> /\ pstate' = "start" /\ Collects(b) /\ Replied(frame, "crc")
    BY <1>4 DEF ReadCrc
  <2>2. broken # {}
    BY <1>2, <1>4
  <2>3. frame[1].of \in Nat \ {0}
    <3>1. 1 \in 1 .. Len(frame)
      BY <1>2
    <3>2. frame[1] \in Bytes
      BY <1>2, <3>1, ElementOfSeq
    <3> QED  BY <3>2 DEF Bytes
  <2> HIDE DEF b, frame
  <2>4. replies' \in Seq(Replies)
    BY <2>1, <2>3, ReplyType
  <2>5. ParserInShape' /\ held' \in Seq(Bytes) /\ All(held') = {}
    BY <2>1, EmptySeq DEF ParserInShape, All
  <2> QED  BY <2>1, <2>2, <2>4, <2>5, CollectKeeps DEF b
<1>5. CASE Len(frame) = DataLen(frame) + 6 /\ CrcAgrees(frame)
  <2>1. held' = <<>> /\ pstate' = "start" /\ FrameComplete(frame)
    BY <1>5 DEF ReadCrc
  <2> QED  BY <1>1, <1>5, <2>1, FrameKeeps
<1> QED  BY <1>3, <1>4, <1>5

\* A parsed byte keeps the invariant, whatever state the parser is in.
LEMMA ParseByteKeeps == IInv /\ ParseByte => IInv'
<1> SUFFICES ASSUME IInv, ParseByte PROVE IInv'
  OBVIOUS
<1>1. WaitStart(Head(got)) \/ ReadHeader(Head(got)) \/ ReadData(Head(got)) \/ ReadCrc(Head(got))
  BY DEF ParseByte
<1> QED  BY <1>1, WaitStartKeeps, HeaderAndDataKeep, CrcKeeps

-----------------------------------------------------------------------------
(* The theorems.                                                           *)

\* The line begins empty.
LEMMA InitIInv == Init => IInv
<1> SUFFICES ASSUME Init PROVE IInv
  OBVIOUS
<1>1. /\ w = 0 /\ r = 0 /\ rpc = "idle" /\ want = 0 /\ got = <<>>
      /\ buff = [i \in 0 .. RingSize - 1 |-> NoByte]
  BY DEF Init, RingInit
<1>2. Full = 0
  BY <1>1 DEF Full
<1>3. RingInv
  <2>1. buff \in [0 .. RingSize - 1 -> Bytes \cup {NoByte}]
    BY <1>1
  <2>2. got \in Seq(Bytes) /\ Len(got) = 0
    BY <1>1, EmptySeq
  <2> QED  BY <1>1, <1>2, <2>1, <2>2, Sizes DEF RingInv, RingTypeOK
<1>4. /\ wire = <<>> /\ held = <<>> /\ dispatched = <<>> /\ replies = <<>>
      /\ pstate = "start" /\ sent = 0 /\ broken = {} /\ faults = 0 /\ missed = 0
      /\ session \in Sessions
  BY DEF Init
<1>5. bank \in [Registers -> 0 .. UINT16_MAX]
  <2>1. 0 \in 0 .. UINT16_MAX /\ 1 \in 0 .. UINT16_MAX
    BY Widths
  <2> QED  BY <2>1 DEF Init
<1>6. LineTypeOK
  <2>1. session \in Seq(Seq(0 .. UINT8_MAX))
    BY <1>4, LineAssumption DEF LineAssumption
  <2>2. 0 \in 0 .. Len(session)
    BY <2>1, LenProperties
  <2>3. wire \in Seq(Bytes) /\ held \in Seq(Bytes) /\ dispatched \in Seq(1 .. sent) /\ replies \in Seq(Replies)
    BY <1>4, EmptySeq
  <2> QED  BY <1>4, <1>5, <2>2, <2>3, Sizes DEF LineTypeOK
<1>7. Hand = <<>> /\ Len(Stored) = 0
  BY <1>1, <1>2, <1>3, StoredFacts DEF Hand
<1>8. /\ All(Hand) = {} /\ All(Stored) = {} /\ All(wire) = {} /\ All(held) = {}
      /\ InOrder(Hand) /\ InOrder(Stored) /\ InOrder(wire)
  BY <1>4, <1>7, EmptySeq DEF All, InOrder
<1>9. Unparsed = {}
  BY <1>8, UnparsedParts
<1>10. LineInOrder /\ BytesAreGenuine /\ ExecutedIsOver
  BY <1>8, <1>9 DEF LineInOrder, BytesAreGenuine, ExecutedIsOver, Ahead
<1>11. ParserInShape
  BY <1>4 DEF ParserInShape
<1>12. Len(dispatched) = 0 /\ Len(replies) = 0 /\ Len(held) = 0
  BY <1>4, EmptySeq
<1>13. ExecutedOnceInOrder
  BY <1>12 DEF ExecutedOnceInOrder
<1>14. NothingMissing
  BY <1>4, <1>8, <1>12 DEF NothingMissing, CrcAgrees, Ahead
<1> QED  BY <1>3, <1>6, <1>10, <1>11, <1>13, <1>14 DEF IInv

\* A step of nobody.
LEMMA StutterKeeps == IInv /\ UNCHANGED vars => IInv' /\ LineMoves
<1> SUFFICES ASSUME IInv, UNCHANGED vars PROVE IInv' /\ LineMoves
  OBVIOUS
<1>1. UNCHANGED <<ring, parser, session, sent, wire, faults, broken>>
  BY DEF vars, line
<1>2. RingInv' /\ UNCHANGED <<Stored, Hand>>
  BY <1>1, RingStays DEF IInv
<1>3. LineInOrder' /\ Unparsed' = Unparsed
  BY <1>1, <1>2, UnparsedParts DEF IInv, LineInOrder, InOrder, Before, Ahead
<1>4. /\ wire' \in Seq(Bytes) /\ faults' \in 0 .. MaxFaults
      /\ broken \subseteq broken' /\ broken' \subseteq 1 .. sent
  BY <1>1 DEF IInv, LineTypeOK
<1>5. LineMoves
  BY <1>1, <1>3 DEF LineMoves
<1> QED  BY <1>2, <1>3, <1>4, <1>5, LineMovesKeep

\* So does every step.
LEMMA StepKeeps == IInv /\ [Next]_vars => IInv'
  BY SendsKeeps, ReceivesKeeps, ReceiveErrorKeeps, ThreadReadsKeep, ParseByteKeeps, StutterKeeps
     DEF Next, Interrupt

\* In every reachable state the ring is a queue, the line in order, the parser in
\* the shape of a frame, and nothing missing that was not lost.
THEOREM InvariantHolds == Spec => []IInv
  BY InitIInv, StepKeeps, PTL DEF Spec

\* Every variable keeps its type, a register 16 bits.
THEOREM TypeCorrect == Spec => []TypeOK
<1>1. IInv => TypeOK
  BY DEF IInv, RingInv, LineTypeOK, TypeOK
<1> QED  BY <1>1, InvariantHolds, PTL

\* Whatever the line loses, cuts or joins, only frames that the host sent are
\* executed, each at most once and in its order.
THEOREM OnceInOrder == Spec => []ExecutedOnceInOrder
<1>1. IInv => ExecutedOnceInOrder
  BY DEF IInv
<1> QED  BY <1>1, InvariantHolds, PTL

\* On a line that lost no byte of a frame, every frame is executed once parsed.
LEMMA NothingMissingMeansAll == IInv => CleanLineExecutesAll
<1> SUFFICES ASSUME IInv, broken = {} PROVE CleanLineExecutesAll
  BY DEF CleanLineExecutesAll
<1>1. ASSUME NEW f \in 1 .. sent, IsFrame(session[f]), ~ Executed(f)
      PROVE  \E b \in Unparsed : b.of = f /\ b.at = Len(session[f])
  <2>1. Len(session[f]) \in 3 .. Len(session[f])
    BY <1>1, FrameFacts
  <2>2. PICK b \in All(held) \cup Unparsed : b.of = f /\ b.at = Len(session[f])
    BY <1>1, <2>1 DEF IInv, NothingMissing
  <2>3. b \notin All(held)
    <3> SUFFICES ASSUME b \in All(held) PROVE FALSE
      OBVIOUS
    <3>1. held # <<>> /\ held \in Seq(Bytes) /\ held[1].v = Magic /\ CrcAgrees(held)
      BY EmptySeq, LineSeqs DEF All, IInv, ParserInShape, NothingMissing
    <3>2. /\ Len(held) \in Nat \ {0}
          /\ \A k \in 1 .. Len(held) : held[k].of = held[1].of /\ held[k].at = k + 2
          /\ Len(held) >= 4 => /\ DataLen(held) \in Nat
                               /\ Len(session[held[1].of]) = DataLen(held) + 8
      BY <3>1, HeldIsFrame
    <3>3. PICK k \in 1 .. Len(held) : b = held[k]
      BY DEF All
    <3>4. held[1].of = f /\ k + 2 = Len(session[f]) /\ Len(session[f]) >= 8
      BY <1>1, <2>2, <3>2, <3>3, FrameFacts
    <3>5. Len(held) >= 4 /\ Len(held) >= DataLen(held) + 6
      BY <3>2, <3>4
    <3>6. Len(held) < 4 \/ Len(held) <= 5 + DataLen(held)
      <4>1. pstate \in {"start", "header", "data", "crc"}
        BY DEF IInv, LineTypeOK
      <4>2. /\ pstate # "start"
            /\ pstate = "header" => Len(held) < 4
            /\ pstate = "data" => Len(held) < 4 + DataLen(held)
            /\ pstate = "crc" => Len(held) \in {4 + DataLen(held), 5 + DataLen(held)}
        BY <3>1 DEF IInv, ParserInShape
      <4> QED  BY <3>2, <3>5, <4>1, <4>2
    <3> QED  BY <3>2, <3>5, <3>6
  <2> QED  BY <2>2, <2>3
<1>2. \A i \in 1 .. Len(replies) : replies[i].as # "crc"
  BY DEF IInv, NothingMissing
<1> QED  BY <1>1, <1>2 DEF CleanLineExecutesAll, Executed

\* However the line splits and joins the messages: as long as no byte of a frame
\* was lost, every frame is executed when its last byte is parsed, and none is
\* answered with a CRC error.
THEOREM CleanLine == Spec => []CleanLineExecutesAll
  BY NothingMissingMeansAll, InvariantHolds, PTL

\* A step of the program is one of the queue, or leaves it alone.
LEMMA StepIsQueueStep == IInv /\ [Next]_vars => [Queue!Next]_(Queue!vars)
<1> SUFFICES ASSUME IInv, [Next]_vars PROVE Queue!Next \/ UNCHANGED <<Stored, Hand>>
  BY DEF Queue!vars
<1>1. CASE UNCHANGED ring
  BY <1>1, RingStays DEF IInv
<1>2. CASE Interrupt
  <2>1. PICK n \in 1 .. Least(Len(wire), DmaSize) : Receives(n)
    BY <1>2 DEF Interrupt
  <2> DEFINE bytes == ForTheRing(SubSeq(wire, 1, n))
  <2>2. WriteToRing(bytes) /\ UNCHANGED <<r, reader>>
    BY <2>1 DEF Receives
  <2>3. bytes \in Seq(Bytes)
    <3>1. n \in Nat /\ n <= Len(wire) /\ wire \in Seq(Bytes)
      BY LineSeqs, Sizes DEF Least
    <3>2. SubSeq(wire, 1, n) \in Seq(Bytes)
      BY <3>1, CutInOrder
    <3> QED  BY <3>2, PassedFacts
  <2> HIDE DEF bytes
  <2> DEFINE fit == Fitting(bytes)
  <2>4. /\ RingInv' /\ fit \in Seq(Bytes) /\ Stored' = Stored \o fit /\ Hand' = Hand
    BY <2>2, <2>3, WriteAppends DEF IInv
  <2> HIDE DEF fit
  <2>5. Stored \in Seq(Bytes) /\ Len(Stored) \in Nat /\ Len(fit) \in Nat
    BY <2>4, LineSeqs, LenProperties
  <2>6. /\ Stored' \in Seq(Bytes) /\ Len(Stored') = Len(Stored) + Len(fit)
        /\ \A i \in 1 .. Len(Stored) + Len(fit) :
             Stored'[i] = IF i <= Len(Stored) THEN Stored[i] ELSE fit[i - Len(Stored)]
    BY <2>4, <2>5, ConcatProperties
  <2>7. CASE fit = <<>>
    BY <2>4, <2>5, <2>7, ConcatEmptySeq
  <2>8. CASE fit # <<>>
    <3>1. Len(fit) > 0
      BY <2>4, <2>5, <2>8, EmptySeq
    <3>2. Len(Stored') <= RingSize - 1
      <4>1. (/\ Full \in Nat /\ Full <= RingSize - 1
             /\ Stored \in Seq(Bytes) /\ Len(Stored) = Full
             /\ \A i \in 1 .. Full : Stored[i] = buff[Place(r, i - 1)])'
        BY <2>4, StoredFacts, PTL
      <4> QED  BY <4>1
    <3>3. Len(Stored') \in Len(Stored) + 1 .. RingSize - 1
      BY <2>5, <2>6, <3>1, <3>2, Sizes
    <3>4. SubSeq(Stored', 1, Len(Stored)) = Stored
      <4> DEFINE t == SubSeq(Stored', 1, Len(Stored))
      <4>1. Len(Stored) <= Len(Stored') /\ 1 \in Nat \ {0}
        BY <2>5, <2>6
      <4>2. /\ t \in Seq(Bytes) /\ Len(t) = IF 1 <= Len(Stored) THEN Len(Stored) - 1 + 1 ELSE 0
            /\ \A i \in 1 .. Len(t) : t[i] = Stored'[1 + i - 1]
        BY <2>5, <2>6, <4>1, PartFacts
      <4> HIDE DEF t
      <4>3. Len(t) = Len(Stored)
        BY <2>5, <4>2
      <4>4. \A i \in 1 .. Len(Stored) : t[i] = Stored[i]
        BY <2>5, <2>6, <4>2, <4>3
      <4> QED  BY <2>5, <4>2, <4>3, <4>4, SeqEqual DEF t
    <3> QED  BY <2>4, <2>6, <3>3, <3>4 DEF Queue!Next, Queue!Write
  <2> QED  BY <2>7, <2>8
<1>3. CASE ThreadReads
  <2>1. CASE Look \/ StartRead \/ CopyByte
    BY <2>1, CopyKeeps DEF IInv
  <2>2. CASE ReleasePlaces
    <3>1. /\ want \in 1 .. Len(Stored) /\ want <= ReadMax
          /\ Hand = <<>> /\ Hand' = SubSeq(Stored, 1, want)
          /\ Stored' = SubSeq(Stored, want + 1, Len(Stored))
      BY <2>2, ReleaseMoves DEF IInv
    <3>2. Queue!Read(want)
      BY <3>1 DEF Queue!Read
    <3> QED  BY <3>1, <3>2 DEF Queue!Next
  <2> QED  BY <1>3, <2>1, <2>2 DEF ThreadReads
<1>4. CASE ParseByte
  <2>1. Hand # <<>> /\ Hand' = Tail(Hand) /\ Stored' = Stored
    BY <1>4, UseTakes DEF IInv, ParseByte
  <2> QED  BY <2>1 DEF Queue!Next, Queue!Use
<1>5. CASE Sends \/ (\E n \in 1 .. Least(Len(wire), DmaSize) : ReceiveError(n)) \/ UNCHANGED vars
  <2>1. UNCHANGED ring
    BY <1>5 DEF Sends, ReceiveError, vars
  <2> QED  BY <1>1, <2>1
<1> QED  BY <1>2, <1>3, <1>4, <1>5 DEF Next

\* The ring of the UART manager, with its interrupt and its thread, implements
\* the bounded queue: what was written comes out once, in order and unharmed,
\* although the writer may come between any two steps of a read.
THEOREM RingImplementsQueue == Spec => RingIsQueue
<1>1. Init => Queue!Init
  <2> SUFFICES ASSUME Init PROVE Stored = <<>> /\ Hand = <<>>
    BY DEF Queue!Init
  <2>1. Hand = <<>>
    BY DEF Init, RingInit, Hand
  <2>2. Full = 0
    BY DEF Init, RingInit, Full
  <2>3. Stored \in Seq(Bytes) /\ Len(Stored) = 0
    BY <2>2, InitIInv, StoredFacts DEF IInv
  <2> QED  BY <2>1, <2>3, EmptySeq
<1> QED
  BY <1>1, StepIsQueueStep, InvariantHolds, PTL DEF Spec, RingIsQueue, Queue!Spec

-----------------------------------------------------------------------------
(* What a damaged frame costs.                                             *)

\* Byte k of message f is still to be parsed; it and all before it are over.
Waits(f, k) == \E b \in Unparsed : b.of = f /\ b.at = k
Passed(f, k) == \A b \in Unparsed : f < b.of \/ (f = b.of /\ k < b.at)

\* The frames that are whole so far, and the damaged ones whose start is over.
Frames == {f \in 1 .. sent : f \notin broken /\ IsFrame(session[f])}
Past == {f \in broken : Passed(f, 3)}

\* Of a whole frame the first bytes are parsed and the last is not.
CutInTwo(f) == ~Waits(f, 3) /\ Waits(f, Len(session[f]))

\* What is held was sent before what is to be parsed, and whole frames lack nothing.
LineAccounted ==
  /\ Ahead(All(held), Unparsed)
  /\ \A f \in Frames : \A k \in 3 .. Len(session[f]) : Waits(f, k) \/ Passed(f, k)

\* What the damaged frames so far may cost, each with this length at most.
Paid(length) == Cardinality(Past) * Swallowed(length)

\* Between two frames a whole one that is cut in two is as good as missed.
BetweenFrames(length) ==
  /\ missed <= Paid(length)
  /\ (\E f \in Frames : CutInTwo(f)) => missed + 1 <= Paid(length)

\* Within a whole frame the parser is in step.
InFrame(length) ==
  /\ CrcAgrees(held)
  /\ Waits(held[1].of, Len(held) + 3)
  /\ missed <= Paid(length)

\* Within a damaged one it has swallowed n whole ones, of six bytes at least, and
\* the first bytes of another.
Swallows(n, size) ==
  /\ 6 * n <= size
  /\ \A f \in Frames : CutInTwo(f) =>
       \A k \in 3 .. Len(session[f]) : Waits(f, k) \/ 6 * n + k <= size + 2

Astray(length) ==
  /\ held[1].of \in Past
  /\ \E n \in Nat :
       /\ missed + Swallowed(length) <= Paid(length) + n
       /\ Swallows(n, Len(held) - 1)

Bounded(length) ==
  IF held = <<>> THEN BetweenFrames(length)
  ELSE IF held[1].of \in Frames THEN InFrame(length)
  ELSE Astray(length)

\* The bytes sent allow for no greater length, and frames start where they seem to.
AtMost(length) ==
  /\ \A f \in 1 .. sent : Plain(session[f])
  /\ \A other \in Lengths : other <= length

DamageInvariant == LineAccounted /\ \A length \in Nat : AtMost(length) => Bounded(length)

\* More damaged frames pay for more.
LEMMA PayGrows ==
  ASSUME NEW a \in Nat, NEW b \in Nat, NEW cost \in Nat, a <= b
  PROVE  /\ a * cost \in Nat /\ b * cost \in Nat /\ a * cost <= b * cost
         /\ a + 1 <= b => a * cost + cost <= b * cost
<1>1. PICK d \in Nat : b = a + d
  <2>1. b - a \in Nat /\ b = a + (b - a)
    OBVIOUS
  <2> QED  BY <2>1
<1>2. b * cost = a * cost + d * cost /\ a * cost \in Nat /\ d * cost \in Nat
  BY <1>1
<1>3. a + 1 <= b => d * cost >= cost
  <2>1. ASSUME a + 1 <= b PROVE d * cost >= cost
    <3>1. PICK e \in Nat : d = e + 1
      <4>1. d - 1 \in Nat /\ d = (d - 1) + 1
        BY <1>1, <2>1
      <4> QED  BY <4>1
    <3>2. d * cost = e * cost + cost /\ e * cost \in Nat
      BY <3>1
    <3> QED  BY <3>2
  <2> QED  BY <2>1
<1> DEFINE x == a * cost
           y == b * cost
           z == d * cost
<1>4. x \in Nat /\ z \in Nat /\ y = x + z /\ (a + 1 <= b => z >= cost)
  BY <1>2, <1>3
<1> HIDE DEF x, y, z
<1>5. x \in Nat /\ y \in Nat /\ x <= y /\ (a + 1 <= b => x + cost <= y)
  BY <1>4
<1> QED  BY <1>5 DEF x, y, z

\* Frames of six bytes within a length, one of them cut in two.
LEMMA SwallowedCovers ==
  ASSUME NEW length \in Nat, NEW n \in Nat
  PROVE  /\ Swallowed(length) \in Nat
         /\ 6 * n <= length + 5 => n <= Swallowed(length)
         /\ 6 * n + 1 <= length + 5 => n + 1 <= Swallowed(length)
<1>1. /\ Swallowed(length) \in Nat /\ 6 * Swallowed(length) <= length + 10
      /\ length + 10 < (6 * Swallowed(length)) + 6
  <2>1. Swallowed(length) = (length + 10) \div 6
    BY DEF Swallowed
  <2> QED  BY <2>1
<1> DEFINE cost == Swallowed(length)
<1> HIDE DEF cost
<1>2. cost \in Nat /\ length + 10 < (6 * cost) + 6
  BY <1>1 DEF cost
<1>3. (6 * n <= length + 5 => n <= cost) /\ (6 * n + 1 <= length + 5 => n + 1 <= cost)
  BY <1>2
<1> QED  BY <1>1, <1>3 DEF cost

\* The damaged frames, counted.
LEMMA PastFacts ==
  ASSUME NEW n \in Nat, NEW S, S \subseteq 1 .. n, NEW T, T \subseteq S
  PROVE  /\ Cardinality(T) \in Nat /\ Cardinality(S) \in Nat
         /\ Cardinality(T) <= Cardinality(S)
         /\ \A s \in S \ T : Cardinality(T) + 1 <= Cardinality(S)
<1>1. IsFiniteSet(S)
  <2>1. IsFiniteSet(1 .. n)
    BY FS_Interval
  <2> QED  BY <2>1, FS_Subset
<1>2. IsFiniteSet(T) /\ Cardinality(T) \in Nat /\ Cardinality(S) \in Nat /\ Cardinality(T) <= Cardinality(S)
  BY <1>1, FS_Subset, FS_CardinalityType
<1>3. ASSUME NEW s \in S \ T PROVE Cardinality(T) + 1 <= Cardinality(S)
  <2>1. Cardinality(T \cup {s}) = Cardinality(T) + 1
    BY <1>2, FS_AddElement
  <2>2. T \cup {s} \subseteq S
    OBVIOUS
  <2> QED  BY <1>1, <2>1, <2>2, FS_Subset
<1> QED  BY <1>2, <1>3

\* Damaged frames whose start is over stay so, and pay for as much.
LEMMA PastGrows ==
  ASSUME IInv, IInv', NEW length \in Nat, broken \subseteq broken',
         \A f \in broken : Passed(f, 3) => Passed(f, 3)'
  PROVE  /\ Past \subseteq Past'
         /\ Paid(length) \in Nat /\ Paid(length)' \in Nat /\ Paid(length) <= Paid(length)'
         /\ \A s \in Past' \ Past : Paid(length) + Swallowed(length) <= Paid(length)'
<1>1. Past \subseteq Past'
  BY DEF Past
<1>2. Past' \subseteq 1 .. sent' /\ sent' \in Nat
  <2>1. broken' \subseteq 1 .. sent' /\ sent' \in 0 .. Len(session') /\ session' \in Sessions
    BY DEF IInv, LineTypeOK
  <2>2. sent' \in Nat
    BY <2>1
  <2> QED  BY <2>1, <2>2 DEF Past
<1>3. Swallowed(length) \in Nat
  BY SwallowedCovers
<1> DEFINE a == Cardinality(Past)
           b == Cardinality(Past')
           cost == Swallowed(length)
<1>4. /\ a \in Nat /\ b \in Nat /\ a <= b /\ \A s \in Past' \ Past : a + 1 <= b
  BY <1>1, <1>2, PastFacts
<1>5. Paid(length) = a * cost /\ Paid(length)' = b * cost
  BY DEF Paid, Swallowed
<1> HIDE DEF a, b, cost
<1>6. /\ a * cost \in Nat /\ b * cost \in Nat /\ a * cost <= b * cost
      /\ a + 1 <= b => a * cost + cost <= b * cost
  BY <1>3, <1>4, PayGrows DEF cost
<1> QED  BY <1>1, <1>4, <1>5, <1>6 DEF cost

-----------------------------------------------------------------------------
(* What the line's steps cost: nothing but what is damaged.                *)

\* What the parser holds began with a frame's third byte.
LEMMA HeldBegins ==
  ASSUME IInv, held # <<>>
  PROVE  /\ held[1] \in All(held) /\ held[1].of \in 1 .. sent /\ IsFrame(session[held[1].of])
         /\ held[1].of \in Nat /\ held[1].at \in Nat /\ held[1].v = Magic
         /\ Len(held) \in Nat \ {0}
<1>1. held \in Seq(Bytes) /\ Len(held) \in Nat \ {0}
  BY LineSeqs, EmptySeq
<1>2. held[1] \in All(held)
  BY <1>1 DEF All
<1>3. held[1].v = Magic
  BY DEF IInv, ParserInShape
<1>4. held[1].of \in 1 .. sent /\ IsFrame(session[held[1].of])
  BY <1>2, <1>3, MagicStartsFrame
<1> QED  BY <1>1, <1>2, <1>3, <1>4, LineSeqs

\* Moving and losing bytes keeps the accounts.
LEMMA LineMovesAccount ==
  ASSUME IInv, IInv', LineMoves, LineAccounted
  PROVE  /\ LineAccounted'
         /\ Frames' \subseteq Frames
         /\ \A f \in Frames' : \A k \in 3 .. Len(session[f]) : Waits(f, k)' <=> Waits(f, k)
         /\ \A f, k : Passed(f, k) => Passed(f, k)'
<1> USE DEF LineMoves
<1>1. UNCHANGED <<session, sent, held>>
  BY DEF parser
<1>2. Frames' \subseteq Frames
  BY <1>1 DEF Frames, IsFrame, Topic
<1>3. \A f, k : Passed(f, k) => Passed(f, k)'
  BY DEF Passed
<1>4. ASSUME NEW f \in Frames', NEW k \in 3 .. Len(session[f])
      PROVE  Waits(f, k)' <=> Waits(f, k)
  <2>1. f \in Frames /\ f \notin broken' /\ IsFrame(session[f])
    BY <1>1, <1>2 DEF Frames
  <2>2. k > 2
    <3>1. Len(session[f]) \in Nat
      BY <2>1, FrameFacts DEF Frames
    <3> QED  BY <3>1
  <2> QED  BY <2>1, <2>2 DEF Waits
<1>5. LineAccounted'
  <2>1. Ahead(All(held'), Unparsed')
    BY <1>1 DEF LineAccounted, Ahead
  <2>2. \A f \in Frames' : \A k \in 3 .. Len(session'[f]) : Waits(f, k)' \/ Passed(f, k)'
    BY <1>1, <1>2, <1>3, <1>4 DEF LineAccounted
  <2> QED  BY <2>1, <2>2 DEF LineAccounted, Ahead, Before
<1> QED  BY <1>2, <1>3, <1>4, <1>5

\* So they keep what is paid for; a frame that is damaged while it is held pays for
\* what it will swallow.
LEMMA LineMovesBound ==
  ASSUME IInv, IInv', LineMoves, LineAccounted, NEW length \in Nat, Bounded(length)
  PROVE  Bounded(length)'
<1>1. UNCHANGED <<session, sent, held, missed>>
  BY DEF LineMoves, parser
<1>2. /\ LineAccounted' /\ Frames' \subseteq Frames
      /\ \A f \in Frames' : \A k \in 3 .. Len(session[f]) : Waits(f, k)' <=> Waits(f, k)
      /\ \A f, k : Passed(f, k) => Passed(f, k)'
  BY LineMovesAccount
<1>3. \A f \in Frames' : f \in Frames /\ IsFrame(session[f])
        /\ 3 \in 3 .. Len(session[f]) /\ Len(session[f]) \in 3 .. Len(session[f])
  <2> SUFFICES ASSUME NEW f \in Frames'
               PROVE  f \in Frames /\ IsFrame(session[f])
                      /\ 3 \in 3 .. Len(session[f]) /\ Len(session[f]) \in 3 .. Len(session[f])
    OBVIOUS
  <2>1. f \in Frames /\ f \in 1 .. sent /\ IsFrame(session[f])
    BY <1>2 DEF Frames
  <2>2. Len(session[f]) \in Nat /\ Len(session[f]) >= 8
    BY <2>1, FrameFacts
  <2> QED  BY <2>1, <2>2
<1>4. \A f \in Frames' : CutInTwo(f)' => CutInTwo(f)
  BY <1>1, <1>2, <1>3 DEF CutInTwo
<1>5. /\ Past \subseteq Past'
      /\ Paid(length) \in Nat /\ Paid(length)' \in Nat /\ Paid(length) <= Paid(length)'
      /\ \A s \in Past' \ Past : Paid(length) + Swallowed(length) <= Paid(length)'
  BY <1>2, PastGrows DEF LineMoves
<1>6. missed \in Nat /\ Swallowed(length) \in Nat /\ Swallowed(length)' = Swallowed(length)
  BY SwallowedCovers DEF IInv, LineTypeOK, Swallowed
<1>7. CASE held = <<>>
  <2>1. missed <= Paid(length)'
    BY <1>5, <1>6, <1>7 DEF Bounded, BetweenFrames
  <2>2. (\E f \in Frames' : CutInTwo(f)') => missed + 1 <= Paid(length)'
    BY <1>2, <1>4, <1>5, <1>6, <1>7 DEF Bounded, BetweenFrames
  <2> QED  BY <1>1, <1>7, <2>1, <2>2 DEF Bounded, BetweenFrames
<1>8. CASE held # <<>>
  <2>s. PICK s : s = held[1].of
    OBVIOUS
  <2>0. /\ held[1] \in All(held) /\ s \in 1 .. sent /\ IsFrame(session[s])
        /\ s \in Nat /\ held[1].at \in Nat /\ Len(held) \in Nat \ {0}
        /\ held[1].of = s /\ held'[1].of = s
    BY <1>1, <1>8, <2>s, HeldBegins
  <2>1. CASE s \in Frames'
    <3>1. InFrame(length)
      BY <1>2, <1>8, <2>0, <2>1 DEF Bounded
    <3>2. Len(held) + 3 \in 3 .. Len(session[s])
      <4>1. PICK b \in Unparsed : b.of = s /\ b.at = Len(held) + 3
        BY <2>0, <3>1 DEF InFrame, Waits
      <4>2. b.at \in 1 .. Len(session[s])
        BY <4>1, LineSeqs
      <4> QED  BY <2>0, <4>1, <4>2
    <3>3. Waits(s, Len(held) + 3)'
      <4>1. PICK k : k = Len(held) + 3
        OBVIOUS
      <4>2. Waits(s, k)
        BY <2>0, <3>1, <4>1 DEF InFrame
      <4>3. Waits(s, k)'
        BY <1>2, <2>1, <3>2, <4>1, <4>2
      <4> QED  BY <1>1, <4>1, <4>3 DEF Waits
    <3>4. missed <= Paid(length)'
      BY <1>5, <1>6, <3>1 DEF InFrame
    <3>5. CrcAgrees(held)'
      BY <1>1, <3>1 DEF InFrame, CrcAgrees
    <3>6. InFrame(length)'
      BY <1>1, <2>0, <3>3, <3>4, <3>5 DEF InFrame, Waits
    <3> QED  BY <1>1, <1>8, <2>0, <2>1, <3>6 DEF Bounded
  <2>2. CASE s \notin Frames' /\ s \in Frames
    <3>1. CrcAgrees(held) /\ Waits(s, Len(held) + 3) /\ missed <= Paid(length)
      BY <1>8, <2>0, <2>2 DEF Bounded, InFrame
    <3>2. s \in broken' /\ s \notin broken
      BY <1>1, <2>0, <2>2 DEF Frames, IsFrame, Topic
    <3>3. held[1].at = 3
      BY <2>0, <3>1 DEF CrcAgrees
    <3>4. Passed(s, 3)'
      <4>1. \A b \in Unparsed' : Before(held[1], b)
        BY <1>1, <1>2, <2>0 DEF LineAccounted, Ahead
      <4> QED  BY <2>0, <3>3, <4>1 DEF Before, Passed
    <3>5. s \in Past' \ Past
      <4>1. s \in Past'
        BY <3>2, <3>4 DEF Past
      <4>2. s \notin Past
        BY <3>2 DEF Past
      <4> QED  BY <4>1, <4>2
    <3>6. ASSUME NEW f \in Frames', CutInTwo(f)' PROVE FALSE
      <4>1. f \in Frames /\ ~Waits(f, 3) /\ Waits(f, Len(session[f]))
        BY <1>3, <1>4, <3>6 DEF CutInTwo
      <4>2. Passed(f, 3)
        BY <1>3, <3>6, <4>1 DEF LineAccounted
      <4>3. f \in Nat /\ f # s
        BY <2>2, <3>6, <4>1 DEF Frames
      <4>4. f < s
        BY <3>1, <4>2, <4>3 DEF Passed, Waits
      <4>5. PICK b \in Unparsed : b.of = f
        BY <4>1 DEF Waits
      <4>6. Before(held[1], b)
        BY <2>0, <4>5 DEF LineAccounted, Ahead
      <4> QED  BY <2>0, <4>3, <4>4, <4>5, <4>6 DEF Before
    <3>7. Swallows(0, Len(held) - 1)'
      <4>1. 6 * 0 <= Len(held) - 1
        BY <2>0
      <4> QED  BY <1>1, <3>6, <4>1 DEF Swallows
    <3>8. missed + Swallowed(length) <= Paid(length)' + 0
      BY <1>5, <1>6, <3>1, <3>5
    <3>9. Astray(length)'
      BY <1>1, <1>6, <2>0, <3>5, <3>7, <3>8 DEF Astray, Swallows
    <3> QED  BY <1>1, <1>8, <2>0, <2>2, <3>9 DEF Bounded
  <2>3. CASE s \notin Frames
    <3>1. Astray(length)
      BY <1>8, <2>0, <2>3 DEF Bounded
    <3>2. PICK n \in Nat : missed + Swallowed(length) <= Paid(length) + n /\ Swallows(n, Len(held) - 1)
      BY <3>1 DEF Astray
    <3>3. s \in Past'
      BY <1>5, <2>0, <3>1 DEF Astray
    <3>4. missed + Swallowed(length) <= Paid(length)' + n
      BY <1>5, <1>6, <3>2
    <3>5. ASSUME NEW f \in Frames', CutInTwo(f)', NEW k \in 3 .. Len(session[f])
          PROVE  Waits(f, k)' \/ 6 * n + k <= (Len(held) - 1) + 2
      <4>1. Waits(f, k) \/ 6 * n + k <= (Len(held) - 1) + 2
        BY <1>3, <1>4, <3>2, <3>5 DEF Swallows
      <4> QED  BY <1>2, <4>1
    <3>6. Swallows(n, Len(held) - 1)'
      BY <1>1, <3>2, <3>5 DEF Swallows
    <3>7. Astray(length)'
      BY <1>1, <1>6, <2>0, <3>3, <3>4, <3>6 DEF Astray, Swallows
    <3> QED  BY <1>1, <1>2, <1>8, <2>0, <2>3, <3>7 DEF Bounded
  <2> QED  BY <2>1, <2>2, <2>3
<1> QED  BY <1>7, <1>8

\* A message sent is whole, and behind all others.
LEMMA SendsAccount ==
  ASSUME IInv, IInv', Sends, LineAccounted
  PROVE  /\ LineAccounted'
         /\ \A f \in Frames' : f \in Frames \/ f = sent + 1
         /\ Frames \subseteq Frames'
         /\ \A f \in 1 .. sent, k \in Nat : (Waits(f, k)' <=> Waits(f, k)) /\ (Passed(f, k) => Passed(f, k)')
         /\ \A f : f = sent + 1 => \A k \in 1 .. Len(session[f]) : Waits(f, k)'
<1>0. PICK g : g = sent + 1
  OBVIOUS
<1> DEFINE m == session[g]
           new == BytesOf(g, m)
<1>1. /\ sent' = g /\ UNCHANGED <<ring, parser, session, faults, broken>>
  BY <1>0 DEF Sends
<1>2. UNCHANGED <<pstate, held, dispatched, replies, bank, missed>>
  BY <1>1 DEF parser
<1>3. sent \in Nat /\ Len(m) \in Nat /\ sent < g /\ g \in Nat
  BY <1>0, SendsFacts, SessionFacts DEF IInv
<1>4. /\ \A b \in All(new) : b \in Bytes /\ b.of = g /\ b.at \in 1 .. Len(m) /\ b.v = m[b.at]
      /\ \A k \in 1 .. Len(m) : \E b \in All(new) : b.of = g /\ b.at = k
      /\ Ahead(All(held) \cup Unparsed, All(new))
      /\ Unparsed' = Unparsed \cup All(new)
  BY <1>0, SendsFacts
<1>5. Len(m) >= 8 \/ ~IsFrame(m)
  BY <1>3 DEF IsFrame
<1> HIDE DEF new
<1>6. ASSUME NEW f \in 1 .. sent, NEW k \in Nat
      PROVE  (Waits(f, k)' <=> Waits(f, k)) /\ (Passed(f, k) => Passed(f, k)')
  <2>1. f \in Nat /\ f < g
    BY <1>3, <1>0
  <2>2. \A b \in All(new) : b.of # f /\ f < b.of
    BY <1>3, <1>4, <2>1
  <2> QED  BY <1>4, <2>2 DEF Waits, Passed
<1>7. \A k \in 1 .. Len(m) : Waits(g, k)'
  BY <1>4 DEF Waits
<1>8. \A f \in Frames' : f \in Frames \/ f = g
  <2>1. \A f \in 1 .. sent' : f \in 1 .. sent \/ f = g
    BY <1>0, <1>1, <1>3
  <2> QED  BY <1>1, <2>1 DEF Frames, IsFrame, Topic
<1>9. Frames \subseteq Frames'
  <2>1. 1 .. sent \subseteq 1 .. sent'
    BY <1>1, <1>3
  <2> QED  BY <1>1, <2>1 DEF Frames, IsFrame, Topic
<1>10. ASSUME NEW f \in Frames', NEW k \in 3 .. Len(session[f])
       PROVE  Waits(f, k)' \/ Passed(f, k)'
  <2>1. CASE f \in Frames
    <3>1. f \in 1 .. sent /\ Len(session[f]) \in Nat /\ k \in Nat
      BY <2>1, FrameFacts DEF Frames
    <3> QED  BY <1>6, <2>1, <3>1 DEF LineAccounted
  <2>2. CASE f = g
    <3>1. k \in 1 .. Len(m)
      BY <1>3, <2>2
    <3> QED  BY <1>7, <2>2, <3>1
  <2> QED  BY <1>8, <2>1, <2>2
<1>11. Ahead(All(held'), Unparsed')
  BY <1>2, <1>4 DEF LineAccounted, Ahead
<1>12. LineAccounted'
  BY <1>1, <1>10, <1>11 DEF LineAccounted, Ahead, Before
<1> QED  BY <1>6, <1>7, <1>8, <1>9, <1>12, <1>0

\* So sending it costs nothing.
LEMMA SendsBound ==
  ASSUME IInv, IInv', Sends, LineAccounted, NEW length \in Nat, Bounded(length)
  PROVE  Bounded(length)'
<1>1. /\ sent' = sent + 1 /\ UNCHANGED <<session, broken, held, missed>>
  BY DEF Sends, parser
<1>2. /\ LineAccounted'
      /\ \A f \in Frames' : f \in Frames \/ f = sent + 1
      /\ Frames \subseteq Frames'
      /\ \A f \in 1 .. sent, k \in Nat : (Waits(f, k)' <=> Waits(f, k)) /\ (Passed(f, k) => Passed(f, k)')
      /\ \A f : f = sent + 1 => \A k \in 1 .. Len(session[f]) : Waits(f, k)'
  BY SendsAccount
<1>3. sent \in Nat /\ broken \subseteq 1 .. sent /\ Frames \subseteq 1 .. sent /\ sent + 1 \notin 1 .. sent
  <2>1. sent \in Nat
    BY SessionFacts DEF IInv
  <2> QED  BY <2>1 DEF IInv, LineTypeOK, Frames
<1>4. ASSUME NEW f \in Frames', CutInTwo(f)' PROVE f \in Frames /\ CutInTwo(f)
  <2>1. f \in 1 .. sent' /\ IsFrame(session'[f])
    BY <1>4 DEF Frames
  <2>2. Len(session[f]) \in Nat /\ Len(session[f]) >= 8
    <3>1. f \in 1 .. Len(session) /\ IsFrame(session[f])
      <4>1. sent' \in 0 .. Len(session') /\ session' \in Sessions
        BY DEF IInv, LineTypeOK
      <4>2. Len(session) \in Nat
        BY SessionFacts DEF IInv
      <4>3. IsFrame(session[f])
        BY <1>1, <2>1
      <4> QED  BY <1>1, <2>1, <4>1, <4>2, <4>3
    <3>2. Len(session[f]) \in Nat
      BY <3>1, SessionFacts DEF IInv
    <3> QED  BY <3>1, <3>2 DEF IsFrame
  <2>3. f # sent + 1
    <3>1. ASSUME f = sent + 1 PROVE FALSE
      <4>1. 3 \in 1 .. Len(session[f])
        BY <2>2
      <4>2. Waits(f, 3)'
        BY <1>2, <3>1, <4>1
      <4> QED  BY <1>4, <4>2 DEF CutInTwo
    <3> QED  BY <3>1
  <2>4. f \in Frames /\ f \in 1 .. sent
    BY <1>2, <1>3, <2>3, <1>4
  <2>5. PICK n \in Nat : n = Len(session[f])
    BY <2>2
  <2>6. ~Waits(f, 3)' /\ Waits(f, n)'
    BY <1>1, <1>4, <2>5 DEF CutInTwo, Waits
  <2>7. ~Waits(f, 3) /\ Waits(f, n)
    BY <1>2, <2>4, <2>6
  <2> QED  BY <2>4, <2>5, <2>7 DEF CutInTwo
<1>5. /\ Past \subseteq Past'
      /\ Paid(length) \in Nat /\ Paid(length)' \in Nat /\ Paid(length) <= Paid(length)'
  <2>1. \A f \in broken : Passed(f, 3) => Passed(f, 3)'
    BY <1>2, <1>3
  <2>2. broken \subseteq broken'
    BY <1>1
  <2> QED  BY <2>1, <2>2, PastGrows
<1>6. missed \in Nat /\ Swallowed(length) \in Nat /\ Swallowed(length)' = Swallowed(length)
  BY SwallowedCovers DEF IInv, LineTypeOK, Swallowed
<1>7. CASE held = <<>>
  <2>1. missed <= Paid(length)'
    BY <1>5, <1>6, <1>7 DEF Bounded, BetweenFrames
  <2>2. (\E f \in Frames' : CutInTwo(f)') => missed + 1 <= Paid(length)'
    BY <1>4, <1>5, <1>6, <1>7 DEF Bounded, BetweenFrames
  <2> QED  BY <1>1, <1>7, <2>1, <2>2 DEF Bounded, BetweenFrames
<1>8. CASE held # <<>>
  <2>s. PICK s : s = held[1].of
    OBVIOUS
  <2>0. /\ s \in 1 .. sent /\ Len(held) \in Nat \ {0}
        /\ held[1].of = s /\ held'[1].of = s
    BY <1>1, <1>8, <2>s, HeldBegins
  <2>1. s \in Frames' <=> s \in Frames
    BY <1>2, <1>3, <2>0
  <2>2. CASE s \in Frames
    <3>1. InFrame(length)
      BY <1>8, <2>0, <2>2 DEF Bounded
    <3>2. Waits(s, Len(held) + 3)' /\ missed <= Paid(length)'
      <4>1. PICK k \in Nat : k = Len(held) + 3
        BY <2>0
      <4>2. Waits(s, k)
        BY <2>0, <3>1, <4>1 DEF InFrame
      <4>3. Waits(s, k)'
        BY <1>2, <2>0, <4>2
      <4>4. missed <= Paid(length)'
        BY <1>5, <1>6, <3>1 DEF InFrame
      <4> QED  BY <1>1, <4>1, <4>3, <4>4 DEF Waits
    <3>3. CrcAgrees(held)'
      BY <1>1, <3>1 DEF InFrame, CrcAgrees
    <3>4. InFrame(length)'
      BY <1>1, <2>0, <3>2, <3>3 DEF InFrame, Waits
    <3> QED  BY <1>1, <1>8, <2>0, <2>1, <2>2, <3>4 DEF Bounded
  <2>3. CASE s \notin Frames
    <3>1. Astray(length)
      BY <1>8, <2>0, <2>3 DEF Bounded
    <3>2. PICK n \in Nat : missed + Swallowed(length) <= Paid(length) + n /\ Swallows(n, Len(held) - 1)
      BY <3>1 DEF Astray
    <3>3. s \in Past'
      BY <1>5, <2>0, <3>1 DEF Astray
    <3>4. missed + Swallowed(length) <= Paid(length)' + n
      BY <1>5, <1>6, <3>2
    <3>5. ASSUME NEW f \in Frames', CutInTwo(f)', NEW k \in 3 .. Len(session[f])
          PROVE  Waits(f, k)' \/ 6 * n + k <= (Len(held) - 1) + 2
      <4>1. f \in Frames /\ CutInTwo(f) /\ f \in 1 .. sent
        BY <1>3, <1>4, <3>5
      <4>2. Waits(f, k) \/ 6 * n + k <= (Len(held) - 1) + 2
        BY <3>2, <4>1 DEF Swallows
      <4>3. k \in Nat
        BY <4>1, FrameFacts DEF Frames
      <4> QED  BY <1>2, <4>1, <4>2, <4>3
    <3>6. Swallows(n, Len(held) - 1)'
      BY <1>1, <3>2, <3>5 DEF Swallows
    <3>7. Astray(length)'
      BY <1>1, <1>6, <2>0, <3>3, <3>4, <3>6 DEF Astray, Swallows
    <3> QED  BY <1>1, <1>8, <2>0, <2>1, <2>3, <3>7 DEF Bounded
  <2> QED  BY <2>2, <2>3
<1> QED  BY <1>7, <1>8

-----------------------------------------------------------------------------
(* What the parser's steps cost.                                           *)

\* The byte that is parsed is the oldest one, so what waits behind it is known.
LEMMA ByteAccount ==
  ASSUME IInv, IInv', ParseByte, LineAccounted, NEW b, b = Head(got),
         All(held') \subseteq All(held) \cup {b}
  PROVE  /\ UNCHANGED <<session, sent, broken>> /\ Frames' = Frames /\ LineAccounted'
         /\ b \in Unparsed /\ b.of \in 1 .. sent /\ b.of \in Nat /\ b.at \in Nat
         /\ b.at \in 1 .. Len(session[b.of]) /\ b.v = session[b.of][b.at]
         /\ Passed(b.of, b.at)'
         /\ \A f, k : Passed(f, k) => Passed(f, k)'
         /\ \A f \in Frames : \A k \in 3 .. Len(session[f]) :
              /\ Waits(f, k)' <=> b.of < f \/ (b.of = f /\ b.at < k)
              /\ Waits(f, k) <=> b.of < f \/ (b.of = f /\ b.at <= k)
         /\ EndsWholeFrame(b) <=> b.of \in Frames /\ b.at = Len(session[b.of])
<1>1. /\ UNCHANGED <<session, sent, wire, faults, broken>>
      /\ Unparsed = {b} \cup Unparsed' /\ Ahead({b}, Unparsed')
  BY ByteTaken DEF line
<1>2. /\ b \in Unparsed /\ b.of \in 1 .. sent /\ b.of \in Nat /\ b.at \in Nat
      /\ b.at \in 1 .. Len(session[b.of]) /\ b.v = session[b.of][b.at]
  BY <1>1, LineSeqs
<1>3. Frames' = Frames
  BY <1>1 DEF Frames, IsFrame, Topic
<1>4. Passed(b.of, b.at)'
  BY <1>1 DEF Passed, Ahead, Before
<1>5. \A f, k : Passed(f, k) => Passed(f, k)'
  BY <1>1 DEF Passed
<1>6. ASSUME NEW f \in Frames, NEW k \in 3 .. Len(session[f])
      PROVE  /\ Waits(f, k)' <=> b.of < f \/ (b.of = f /\ b.at < k)
             /\ Waits(f, k) <=> b.of < f \/ (b.of = f /\ b.at <= k)
             /\ Waits(f, k)' \/ Passed(f, k)'
  <2>1. f \in Nat /\ k \in Nat
    <3>1. f \in 1 .. sent /\ IsFrame(session[f]) /\ sent \in Nat
      BY SessionFacts DEF Frames, IInv
    <3> QED  BY <3>1, FrameFacts
  <2>2. Waits(f, k)' => b.of < f \/ (b.of = f /\ b.at < k)
    BY <1>1 DEF Waits, Ahead, Before
  <2>3. Waits(f, k) <=> Waits(f, k)' \/ (b.of = f /\ b.at = k)
    BY <1>1 DEF Waits
  <2>4. Passed(f, k) => f < b.of \/ (f = b.of /\ k < b.at)
    BY <1>2 DEF Passed
  <2>5. Waits(f, k) \/ Passed(f, k)
    BY DEF LineAccounted
  <2>6. b.of = f /\ b.at = k => Passed(f, k)'
    BY <1>4 DEF Passed
  <2> QED  BY <1>2, <1>5, <2>1, <2>2, <2>3, <2>4, <2>5, <2>6
<1>7. LineAccounted'
  <2>1. Ahead(All(held'), Unparsed')
    BY <1>1 DEF LineAccounted, Ahead
  <2>2. \A f \in Frames' : \A k \in 3 .. Len(session'[f]) : Waits(f, k)' \/ Passed(f, k)'
    BY <1>1, <1>3, <1>6
  <2> QED  BY <2>1, <2>2 DEF LineAccounted, Ahead, Before
<1>8. EndsWholeFrame(b) <=> b.of \in Frames /\ b.at = Len(session[b.of])
  BY <1>2 DEF EndsWholeFrame, Frames
<1> QED  BY <1>1, <1>2, <1>3, <1>4, <1>5, <1>6, <1>7, <1>8

\* What a parsed byte means for the frame that it is of, and for what is paid.
LEMMA ByteCuts ==
  ASSUME IInv, IInv', ParseByte, LineAccounted, NEW b, b = Head(got),
         All(held') \subseteq All(held) \cup {b}, NEW length \in Nat
  PROVE  /\ \A f \in Frames' : CutInTwo(f)' =>
              f = b.of /\ b.of \in Frames /\ b.at >= 3 /\ b.at < Len(session[b.of])
         /\ b.of \in Frames => /\ Len(session[b.of]) \in Nat /\ Len(session[b.of]) >= 8
                               /\ IsFrame(session[b.of])
                               /\ b.at > 3 => CutInTwo(b.of)
         /\ Past \subseteq Past'
         /\ Paid(length) \in Nat /\ Paid(length)' \in Nat /\ Paid(length) <= Paid(length)'
         /\ b.of \in broken /\ b.at = 3 => /\ b.of \in Past'
                                           /\ Paid(length) + Swallowed(length) <= Paid(length)'
         /\ missed \in Nat /\ Swallowed(length) \in Nat /\ Swallowed(length)' = Swallowed(length)
<1>1. /\ UNCHANGED <<session, sent, broken>> /\ Frames' = Frames
      /\ b \in Unparsed /\ b.of \in 1 .. sent /\ b.of \in Nat /\ b.at \in Nat
      /\ b.at \in 1 .. Len(session[b.of])
      /\ Passed(b.of, b.at)'
      /\ \A f, k : Passed(f, k) => Passed(f, k)'
      /\ \A f \in Frames : \A k \in 3 .. Len(session[f]) :
           /\ Waits(f, k)' <=> b.of < f \/ (b.of = f /\ b.at < k)
           /\ Waits(f, k) <=> b.of < f \/ (b.of = f /\ b.at <= k)
  BY ByteAccount
<1>2. ASSUME NEW f \in Frames
      PROVE  /\ Len(session[f]) \in Nat /\ Len(session[f]) >= 8 /\ IsFrame(session[f]) /\ f \in Nat
             /\ 3 \in 3 .. Len(session[f]) /\ Len(session[f]) \in 3 .. Len(session[f])
  <2>1. f \in 1 .. sent /\ IsFrame(session[f]) /\ sent \in Nat
    BY SessionFacts DEF Frames, IInv
  <2>2. Len(session[f]) \in Nat /\ Len(session[f]) >= 8
    BY <2>1, FrameFacts
  <2> QED  BY <2>1, <2>2
<1>3. ASSUME NEW f \in Frames', CutInTwo(f)'
      PROVE  f = b.of /\ b.of \in Frames /\ b.at >= 3 /\ b.at < Len(session[b.of])
  <2>1. f \in Frames
    BY <1>1, <1>3
  <2>2. PICK n : n = Len(session[f])
    OBVIOUS
  <2>3. ~Waits(f, 3)' /\ Waits(f, n)'
    BY <1>1, <1>3, <2>2 DEF CutInTwo, Waits
  <2>4. b.of < f \/ (b.of = f /\ b.at < n)
    BY <1>1, <1>2, <2>1, <2>2, <2>3
  <2>5. ~ (b.of < f) /\ ~ (b.of = f /\ b.at < 3)
    BY <1>1, <1>2, <2>1, <2>3
  <2> QED  BY <1>1, <2>1, <2>2, <2>4, <2>5
<1>4. ASSUME b.of \in Frames, b.at > 3
      PROVE  CutInTwo(b.of)
  <2>1. ~Waits(b.of, 3)
    BY <1>1, <1>2, <1>4
  <2>2. Waits(b.of, Len(session[b.of]))
    <3>1. b.at <= Len(session[b.of])
      BY <1>1, <1>2, <1>4
    <3> QED  BY <1>1, <1>2, <1>4, <3>1
  <2> QED  BY <2>1, <2>2 DEF CutInTwo
<1>5. /\ Past \subseteq Past'
      /\ Paid(length) \in Nat /\ Paid(length)' \in Nat /\ Paid(length) <= Paid(length)'
      /\ \A s \in Past' \ Past : Paid(length) + Swallowed(length) <= Paid(length)'
  BY <1>1, PastGrows
<1>6. ASSUME b.of \in broken, b.at = 3
      PROVE  b.of \in Past' /\ b.of \notin Past
  <2>1. ~Passed(b.of, 3)
    BY <1>1, <1>6 DEF Passed
  <2>2. Passed(b.of, 3)'
    BY <1>1, <1>6 DEF Passed
  <2> QED  BY <1>1, <1>6, <2>1, <2>2 DEF Past
<1>7. missed \in Nat /\ Swallowed(length) \in Nat /\ Swallowed(length)' = Swallowed(length)
  BY SwallowedCovers DEF IInv, LineTypeOK, Swallowed
<1> QED  BY <1>2, <1>3, <1>4, <1>5, <1>6, <1>7

\* What the rest of the parser does with a byte: it collects it, or judges the
\* frame that it ends.
LEMMA NextTaken ==
  ASSUME IInv, IInv', ParseByte, NEW b, b = Head(got), held # <<>>
  PROVE  /\ All(held') \subseteq All(held) \cup {b}
         /\ b \in Bytes /\ Len(held) \in Nat \ {0}
         /\ \E next \in Seq(Bytes) :
              /\ next # <<>> /\ next[1].v = Magic
              /\ Len(next) = Len(held) + 1
              /\ All(next) = All(held) \cup {b}
              /\ \A k \in 1 .. Len(held) : next[k] = held[k]
              /\ next[Len(next)] = b
              /\ \/ /\ held' = next /\ Collects(b)
                    /\ Len(next) < 4 \/ (Len(next) >= 4 /\ DataLen(next) \in Nat /\ Len(next) <= 5 + DataLen(next))
                 \/ /\ held' = <<>> /\ Len(held) >= 4 /\ DataLen(next) \in Nat
                    /\ DataLen(next) = DataLen(held) /\ Len(next) = DataLen(next) + 6
                    /\ IF CrcAgrees(next) THEN missed' = 0 ELSE Collects(b)
<1>0. PICK next : next = Append(held, b)
  OBVIOUS
<1> DEFINE GoesOn ==
             /\ held' = next /\ Collects(b)
             /\ Len(next) < 4 \/ (Len(next) >= 4 /\ DataLen(next) \in Nat /\ Len(next) <= 5 + DataLen(next))
           Ends ==
             /\ held' = <<>> /\ Len(held) >= 4 /\ DataLen(next) \in Nat
             /\ DataLen(next) = DataLen(held) /\ Len(next) = DataLen(next) + 6
             /\ IF CrcAgrees(next) THEN missed' = 0 ELSE Collects(b)
<1>1. /\ b \in Bytes /\ next \in Seq(Bytes) /\ next # <<>>
      /\ Len(held) \in Nat \ {0} /\ Len(next) = Len(held) + 1
      /\ next[1].v = Magic
      /\ All(next) = All(held) \cup {b}
      /\ Len(held) >= 4 => DataLen(next) = DataLen(held)
      /\ Len(next) >= 4 => DataLen(next) \in Nat
  BY <1>0, HeldGrows
<1>2. (\A k \in 1 .. Len(held) : next[k] = held[k]) /\ next[Len(next)] = b
  <2>1. held \in Seq(Bytes)
    BY LineSeqs
  <2> QED  BY <1>0, <1>1, <2>1, AppendProperties
<1>3. ReadHeader(b) \/ ReadData(b) \/ ReadCrc(b)
  BY DEF ParseByte, WaitStart, IInv, ParserInShape
<1>4. ASSUME held' = next, Collects(b)
      PROVE  Len(next) < 4 \/ (Len(next) >= 4 /\ DataLen(next) \in Nat /\ Len(next) <= 5 + DataLen(next))
  <2>1. pstate' \in {"start", "header", "data", "crc"}
    BY DEF IInv, LineTypeOK
  <2>2. /\ pstate' # "start"
        /\ pstate' = "header" => Len(next) < 4
        /\ pstate' = "data" => Len(next) >= 4 /\ Len(next) < 4 + DataLen(next)
        /\ pstate' = "crc" => Len(next) >= 4 /\ Len(next) \in {4 + DataLen(next), 5 + DataLen(next)}
    BY <1>1, <1>4 DEF IInv, ParserInShape, DataLen
  <2>3. Len(next) \in Nat
    BY <1>1
  <2> QED  BY <1>1, <2>1, <2>2, <2>3
<1>5. ASSUME ReadHeader(b) \/ ReadData(b)
      PROVE  GoesOn /\ All(held') \subseteq All(held) \cup {b}
  <2>1. held' = next /\ Collects(b)
    BY <1>0, <1>5 DEF ReadHeader, ReadData
  <2> QED  BY <1>1, <1>2, <1>4, <2>1
<1>6. ASSUME ReadCrc(b)
      PROVE  (GoesOn \/ Ends) /\ All(held') \subseteq All(held) \cup {b}
  <2>1. /\ pstate = "crc"
        /\ held' = IF Len(next) = DataLen(next) + 6 THEN <<>> ELSE next
        /\ IF Len(next) = DataLen(next) + 6 /\ CrcAgrees(next) THEN FrameComplete(next) ELSE Collects(b)
    BY <1>0, <1>6 DEF ReadCrc
  <2>2. Len(held) >= 4 /\ Len(next) >= 4
    <3>1. Len(held) >= 4
      BY <2>1 DEF IInv, ParserInShape
    <3> QED  BY <1>1, <3>1
  <2>3. CASE Len(next) = DataLen(next) + 6
    <3>1. held' = <<>> /\ All(held') = {}
      <4>1. held' = <<>> /\ Len(<<>>) = 0
        BY <2>1, <2>3, EmptySeq
      <4> QED  BY <4>1 DEF All
    <3>2. IF CrcAgrees(next) THEN missed' = 0 ELSE Collects(b)
      BY <2>1, <2>3 DEF FrameComplete
    <3> QED  BY <1>1, <1>2, <2>2, <2>3, <3>1, <3>2
  <2>4. CASE Len(next) # DataLen(next) + 6
    <3>1. held' = next /\ Collects(b)
      BY <2>1, <2>4
    <3> QED  BY <1>1, <1>2, <1>4, <3>1
  <2> QED  BY <2>3, <2>4
<1>7. (GoesOn \/ Ends) /\ All(held') \subseteq All(held) \cup {b}
  BY <1>3, <1>5, <1>6
<1>8. SUFFICES \E n \in Seq(Bytes) :
              /\ n # <<>> /\ n[1].v = Magic
              /\ Len(n) = Len(held) + 1
              /\ All(n) = All(held) \cup {b}
              /\ \A k \in 1 .. Len(held) : n[k] = held[k]
              /\ n[Len(n)] = b
              /\ \/ /\ held' = n /\ Collects(b)
                    /\ Len(n) < 4 \/ (Len(n) >= 4 /\ DataLen(n) \in Nat /\ Len(n) <= 5 + DataLen(n))
                 \/ /\ held' = <<>> /\ Len(held) >= 4 /\ DataLen(n) \in Nat
                    /\ DataLen(n) = DataLen(held) /\ Len(n) = DataLen(n) + 6
                    /\ IF CrcAgrees(n) THEN missed' = 0 ELSE Collects(b)
  BY <1>1, <1>7
<1> next \in Seq(Bytes)
  BY <1>1
<1> WITNESS next \in Seq(Bytes)
<1> QED  BY <1>1, <1>2, <1>7

\* Of the parsed bytes the parser holds nothing but what it held and the new one.
LEMMA HeldTakes ==
  ASSUME IInv, IInv', ParseByte, NEW b, b = Head(got)
  PROVE  All(held') \subseteq All(held) \cup {b}
<1>1. CASE held = <<>>
  <2>1. IF b.v = Magic THEN held' = <<b>> ELSE held' = held
    BY <1>1 DEF ParseByte, WaitStart, ReadHeader, ReadData, ReadCrc, IInv, ParserInShape
  <2>2. CASE b.v = Magic
    <3>1. held' = <<b>> /\ Len(<<b>>) = 1 /\ <<b>>[1] = b
      BY <2>1, <2>2
    <3> QED  BY <3>1 DEF All
  <2> QED  BY <2>1, <2>2 DEF All
<1>2. CASE held # <<>>
  BY <1>2, NextTaken
<1> QED  BY <1>1, <1>2

\* So the accounts stay right.
LEMMA ParseByteAccount ==
  ASSUME IInv, IInv', ParseByte, LineAccounted
  PROVE  LineAccounted'
<1>1. PICK b : b = Head(got)
  OBVIOUS
<1>2. All(held') \subseteq All(held) \cup {b}
  BY <1>1, HeldTakes
<1> QED  BY <1>1, <1>2, ByteAccount

\* Between two frames: the parser passes a byte by, or a frame begins.
LEMMA StartBound ==
  ASSUME IInv, IInv', ParseByte, LineAccounted, NEW b, b = Head(got), WaitStart(b),
         NEW length \in Nat, AtMost(length), Bounded(length)
  PROVE  Bounded(length)'
<1>1. /\ held = <<>> /\ Collects(b)
      /\ IF b.v = Magic THEN held' = <<b>> ELSE held' = held
  BY DEF WaitStart, IInv, ParserInShape
<1>2. All(held') \subseteq All(held) \cup {b}
  BY HeldTakes
<1>3. /\ UNCHANGED <<session, sent, broken>> /\ Frames' = Frames /\ LineAccounted'
      /\ b \in Unparsed /\ b.of \in 1 .. sent /\ b.of \in Nat /\ b.at \in Nat
      /\ b.at \in 1 .. Len(session[b.of]) /\ b.v = session[b.of][b.at]
      /\ \A f \in Frames : \A k \in 3 .. Len(session[f]) :
           Waits(f, k)' <=> b.of < f \/ (b.of = f /\ b.at < k)
      /\ EndsWholeFrame(b) <=> b.of \in Frames /\ b.at = Len(session[b.of])
  BY <1>2, ByteAccount
<1>4. /\ \A f \in Frames' : CutInTwo(f)' =>
           f = b.of /\ b.of \in Frames /\ b.at >= 3 /\ b.at < Len(session[b.of])
      /\ b.of \in Frames => /\ Len(session[b.of]) \in Nat /\ Len(session[b.of]) >= 8
                            /\ IsFrame(session[b.of])
                            /\ b.at > 3 => CutInTwo(b.of)
      /\ Paid(length) \in Nat /\ Paid(length)' \in Nat /\ Paid(length) <= Paid(length)'
      /\ b.of \in broken /\ b.at = 3 => /\ b.of \in Past'
                                        /\ Paid(length) + Swallowed(length) <= Paid(length)'
      /\ missed \in Nat /\ Swallowed(length) \in Nat /\ Swallowed(length)' = Swallowed(length)
  BY <1>2, ByteCuts
<1>5. missed <= Paid(length) /\ ((\E f \in Frames : CutInTwo(f)) => missed + 1 <= Paid(length))
  BY <1>1 DEF Bounded, BetweenFrames
<1>6. missed' = IF EndsWholeFrame(b) THEN missed + 1 ELSE missed
  BY <1>1 DEF Collects
<1>7. CASE b.v = Magic
  <2>1. held' = <<b>> /\ held' # <<>> /\ Len(held') = 1 /\ held'[1] = b
    <3>1. <<b>> # <<>> /\ Len(<<b>>) = 1 /\ <<b>>[1] = b
      OBVIOUS
    <3>2. held' = <<b>>
      BY <1>1, <1>7
    <3> QED  BY <3>1, <3>2
  <2>2. /\ IsFrame(session[b.of]) /\ Len(session[b.of]) \in Nat /\ Len(session[b.of]) >= 8
        /\ session[b.of][1] # Magic /\ session[b.of][2] # Magic
    <3>1. IsFrame(session[b.of])
      BY <1>3, <1>7, MagicStartsFrame
    <3> QED  BY <1>3, <3>1, FrameFacts
  <2>3. b.at = 3
    <3>1. Plain(session[b.of])
      BY <1>3 DEF AtMost
    <3>2. ~ (b.at \in 4 .. Len(session[b.of]))
      BY <1>3, <1>7, <3>1 DEF Plain
    <3>3. b.at # 1 /\ b.at # 2
      BY <1>3, <1>7, <2>2
    <3> QED  BY <1>3, <2>2, <3>2, <3>3
  <2>4. missed' = missed
    BY <1>3, <1>6, <2>2, <2>3
  <2>5. CASE b.of \in Frames
    <3>1. CrcAgrees(held)'
      BY <2>1, <2>3 DEF CrcAgrees
    <3>2. PICK k : k = 4
      OBVIOUS
    <3>3. Waits(b.of, k)'
      <4>1. k \in 3 .. Len(session[b.of]) /\ b.at < k
        BY <2>2, <2>3, <3>2
      <4> QED  BY <1>3, <2>5, <4>1
    <3>4. Len(held') + 3 = k
      BY <2>1, <3>2
    <3>5. missed' <= Paid(length)'
      BY <1>4, <1>5, <2>4
    <3>6. InFrame(length)'
      BY <2>1, <3>1, <3>3, <3>4, <3>5 DEF InFrame, Waits
    <3> QED  BY <1>3, <2>1, <2>5, <3>6 DEF Bounded
  <2>6. CASE b.of \notin Frames
    <3>1. b.of \in broken
      BY <1>3, <2>2, <2>6 DEF Frames
    <3>2. b.of \in Past' /\ missed' + Swallowed(length) <= Paid(length)' + 0
      BY <1>4, <1>5, <2>3, <2>4, <3>1
    <3>3. Swallows(0, Len(held) - 1)'
      <4>1. 6 * 0 <= Len(held') - 1
        BY <2>1
      <4>2. \A f \in Frames' : ~ CutInTwo(f)'
        BY <1>4, <2>6
      <4> QED  BY <4>1, <4>2 DEF Swallows
    <3>4. Astray(length)'
      BY <1>4, <2>1, <3>2, <3>3 DEF Astray, Swallows
    <3> QED  BY <1>3, <2>1, <2>6, <3>4 DEF Bounded
  <2> QED  BY <1>3, <2>5, <2>6
<1>8. CASE b.v # Magic
  <2>1. held' = <<>>
    BY <1>1, <1>8
  <2>2. b.of \in Frames => b.at # 3
    <3>1. b.of \in Frames => session[b.of][3] = Magic
      BY <1>3, <1>4, FrameFacts
    <3> QED  BY <1>3, <1>8, <3>1
  <2>3. b.of \in Frames /\ b.at >= 3 => missed + 1 <= Paid(length)
    <3>1. b.of \in Frames /\ b.at >= 3 => b.at > 3
      BY <1>3, <2>2
    <3> QED  BY <1>4, <1>5, <3>1
  <2>4. missed' <= Paid(length)'
    BY <1>3, <1>4, <1>5, <1>6, <2>3
  <2>5. ASSUME NEW f \in Frames', CutInTwo(f)' PROVE missed' + 1 <= Paid(length)'
    <3>1. b.of \in Frames /\ b.at >= 3 /\ b.at < Len(session[b.of])
      BY <1>4, <2>5
    <3> QED  BY <1>3, <1>4, <1>6, <2>3, <3>1
  <2>6. BetweenFrames(length)'
    BY <2>4, <2>5 DEF BetweenFrames
  <2> QED  BY <1>3, <2>1, <2>6 DEF Bounded
<1> QED  BY <1>7, <1>8

\* Within a whole frame the parser takes its next byte, or executes it.
LEMMA InFrameBound ==
  ASSUME IInv, IInv', ParseByte, LineAccounted, held # <<>>, held[1].of \in Frames,
         NEW length \in Nat, Bounded(length)
  PROVE  Bounded(length)'
<1>1. PICK b : b = Head(got)
  OBVIOUS
<1>2. All(held') \subseteq All(held) \cup {b} /\ b \in Bytes /\ Len(held) \in Nat \ {0}
  BY <1>1, NextTaken
<1>3. PICK s : s = held[1].of
  OBVIOUS
<1>4. PICK next \in Seq(Bytes) :
        /\ next # <<>> /\ next[1].v = Magic
        /\ Len(next) = Len(held) + 1
        /\ All(next) = All(held) \cup {b}
        /\ \A k \in 1 .. Len(held) : next[k] = held[k]
        /\ next[Len(next)] = b
        /\ \/ /\ held' = next /\ Collects(b)
              /\ Len(next) < 4 \/ (Len(next) >= 4 /\ DataLen(next) \in Nat /\ Len(next) <= 5 + DataLen(next))
           \/ /\ held' = <<>> /\ Len(held) >= 4 /\ DataLen(next) \in Nat
              /\ DataLen(next) = DataLen(held) /\ Len(next) = DataLen(next) + 6
              /\ IF CrcAgrees(next) THEN missed' = 0 ELSE Collects(b)
  BY <1>1, NextTaken
<1>5. /\ UNCHANGED <<session, sent, broken>> /\ Frames' = Frames /\ LineAccounted'
      /\ b \in Unparsed /\ b.of \in 1 .. sent /\ b.of \in Nat /\ b.at \in Nat
      /\ \A f \in Frames : \A k \in 3 .. Len(session[f]) :
           /\ Waits(f, k)' <=> b.of < f \/ (b.of = f /\ b.at < k)
           /\ Waits(f, k) <=> b.of < f \/ (b.of = f /\ b.at <= k)
      /\ EndsWholeFrame(b) <=> b.of \in Frames /\ b.at = Len(session[b.of])
  BY <1>1, <1>2, ByteAccount
<1>6. /\ \A f \in Frames' : CutInTwo(f)' =>
           f = b.of /\ b.of \in Frames /\ b.at >= 3 /\ b.at < Len(session[b.of])
      /\ b.of \in Frames => Len(session[b.of]) \in Nat /\ Len(session[b.of]) >= 8
      /\ Paid(length) \in Nat /\ Paid(length)' \in Nat /\ Paid(length) <= Paid(length)'
      /\ missed \in Nat
  BY <1>1, <1>2, ByteCuts
<1>7. /\ s \in Frames /\ s \in 1 .. sent /\ s \in Nat
      /\ CrcAgrees(held) /\ Waits(s, Len(held) + 3) /\ missed <= Paid(length)
  <2>1. s \in Nat
    BY <1>3, HeldBegins
  <2> QED  BY <1>3, <2>1 DEF Bounded, InFrame, Frames
<1>8. b.of = s /\ b.at = Len(held) + 3
  <2>1. PICK n \in Nat : n = Len(held)
    BY <1>2, <1>4
  <2>2. held[n] \in All(held) /\ held[n].of = s /\ held[n].at = n + 2
    <3>1. n \in 1 .. Len(held)
      BY <1>2, <1>4, <2>1
    <3> QED  BY <1>3, <1>7, <3>1 DEF All, CrcAgrees
  <2>3. Before(held[n], b)
    BY <1>5, <2>2 DEF LineAccounted, Ahead
  <2>4. PICK c \in Unparsed : c.of = s /\ c.at = n + 3
    BY <1>7, <2>1 DEF Waits
  <2>5. c = b \/ Before(b, c)
    BY <1>1, <2>4, ByteTaken DEF Ahead
  <2> QED  BY <1>5, <1>7, <2>1, <2>2, <2>3, <2>4, <2>5 DEF Before
<1>9. CrcAgrees(next) /\ next[1].of = s
  <2>1. next[1] = held[1] /\ next[1].of = s
    BY <1>2, <1>3, <1>4
  <2>2. ASSUME NEW k \in 1 .. Len(next)
        PROVE  next[k].of = next[1].of /\ next[k].at = k + 2
    <3>1. CASE k \in 1 .. Len(held)
      BY <1>2, <1>3, <1>4, <1>7, <2>1, <3>1 DEF CrcAgrees
    <3>2. CASE k = Len(held) + 1
      BY <1>2, <1>4, <1>8, <2>1, <3>2
    <3> QED  BY <1>2, <1>4, <3>1, <3>2
  <2> QED  BY <2>1, <2>2 DEF CrcAgrees
<1>10. Len(next) >= 4 => DataLen(next) \in Nat /\ Len(session[s]) = DataLen(next) + 8
  <2>1. All(next) \subseteq All(held) \cup Unparsed
    BY <1>2, <1>4, <1>5
  <2> QED  BY <1>2, <1>4, <1>9, <2>1, HeldIsFrame
<1>11. Len(session[s]) \in Nat /\ Len(session[s]) >= 8
  BY <1>6, <1>7, <1>8
<1>12. CASE held' = next /\ Collects(b)
             /\ (Len(next) < 4 \/ (Len(next) >= 4 /\ DataLen(next) \in Nat /\ Len(next) <= 5 + DataLen(next)))
  <2>1. b.at < Len(session[s]) /\ b.at = Len(next) + 2
    BY <1>2, <1>4, <1>8, <1>10, <1>11, <1>12
  <2>2. missed' = missed
    BY <1>5, <1>8, <1>11, <1>12, <2>1 DEF Collects
  <2>3. PICK k : k = Len(next) + 3
    OBVIOUS
  <2>4. Waits(s, k)'
    <3>1. k \in 3 .. Len(session[s]) /\ b.at < k
      BY <1>2, <1>4, <1>11, <2>1, <2>3
    <3> QED  BY <1>5, <1>7, <1>8, <3>1
  <2>5. CrcAgrees(held)'
    BY <1>9, <1>12 DEF CrcAgrees
  <2>6. missed' <= Paid(length)'
    BY <1>6, <1>7, <2>2
  <2>7. InFrame(length)'
    BY <1>9, <1>12, <2>3, <2>4, <2>5, <2>6 DEF InFrame, Waits
  <2>8. held' # <<>> /\ held'[1].of \in Frames'
    BY <1>2, <1>4, <1>5, <1>7, <1>9, <1>12
  <2> QED  BY <1>5, <2>7, <2>8 DEF Bounded
<1>13. CASE held' = <<>> /\ Len(held) >= 4 /\ DataLen(next) \in Nat
             /\ Len(next) = DataLen(next) + 6 /\ (IF CrcAgrees(next) THEN missed' = 0 ELSE Collects(b))
  <2>1. missed' = 0
    BY <1>9, <1>13
  <2>2. b.at = Len(session[s])
    BY <1>2, <1>4, <1>8, <1>10, <1>13
  <2>3. \A f \in Frames' : ~ CutInTwo(f)'
    BY <1>5, <1>6, <1>8, <1>11, <2>2
  <2>4. BetweenFrames(length)'
    BY <1>6, <2>1, <2>3 DEF BetweenFrames
  <2> QED  BY <1>5, <1>13, <2>4 DEF Bounded
<1> QED  BY <1>2, <1>4, <1>12, <1>13

\* Within a damaged one a whole frame is swallowed with its last byte, and no two
\* of them overlap.
LEMMA SwallowedSoFar ==
  ASSUME IInv, IInv', ParseByte, LineAccounted, held # <<>>, NEW b, b = Head(got),
         All(held') \subseteq All(held) \cup {b}, NEW length \in Nat, Astray(length)
  PROVE  \E n \in Nat :
           /\ (IF EndsWholeFrame(b) THEN missed + 1 ELSE missed) + Swallowed(length) <= Paid(length)' + n
           /\ 6 * n <= Len(held)
           /\ \A f \in Frames' : CutInTwo(f)' =>
                /\ b.of = f /\ 3 <= b.at /\ 6 * n + b.at <= Len(held) + 2
                /\ \A k \in 3 .. Len(session[f]) : Waits(f, k)' \/ k <= b.at
<1>1. Len(held) \in Nat \ {0}
  BY HeldBegins
<1>2. PICK n \in Nat : missed + Swallowed(length) <= Paid(length) + n /\ Swallows(n, Len(held) - 1)
  BY DEF Astray
<1>3. /\ UNCHANGED <<session, sent, broken>> /\ Frames' = Frames
      /\ b.of \in Nat /\ b.at \in Nat /\ b.at \in 1 .. Len(session[b.of])
      /\ \A f \in Frames : \A k \in 3 .. Len(session[f]) :
           /\ Waits(f, k)' <=> b.of < f \/ (b.of = f /\ b.at < k)
           /\ Waits(f, k) <=> b.of < f \/ (b.of = f /\ b.at <= k)
      /\ EndsWholeFrame(b) <=> b.of \in Frames /\ b.at = Len(session[b.of])
  BY ByteAccount
<1>4. /\ \A f \in Frames' : CutInTwo(f)' =>
           f = b.of /\ b.of \in Frames /\ b.at >= 3 /\ b.at < Len(session[b.of])
      /\ b.of \in Frames => /\ Len(session[b.of]) \in Nat /\ Len(session[b.of]) >= 8
                            /\ b.at > 3 => CutInTwo(b.of)
      /\ Paid(length) \in Nat /\ Paid(length)' \in Nat /\ Paid(length) <= Paid(length)'
      /\ missed \in Nat /\ Swallowed(length) \in Nat
  BY ByteCuts
<1>5. 6 * n \in Nat /\ 6 * n <= Len(held) - 1
  BY <1>2 DEF Swallows
<1>6. ASSUME b.of \in Frames, b.at > 3
      PROVE  6 * n + b.at <= Len(held) + 2
  <2>1. PICK k : k = b.at - 1
    OBVIOUS
  <2>2. k \in 3 .. Len(session[b.of]) /\ ~ (b.at <= k) /\ k \in Nat /\ b.at = k + 1
    BY <1>3, <1>4, <1>6, <2>1
  <2>3. ~ Waits(b.of, k)
    BY <1>3, <1>6, <2>2
  <2>4. 6 * n + k <= (Len(held) - 1) + 2
    BY <1>2, <1>4, <1>6, <2>2, <2>3 DEF Swallows
  <2> QED  BY <1>1, <1>5, <2>2, <2>4
<1>7. CASE EndsWholeFrame(b)
  <2>1. b.of \in Frames /\ b.at >= 8 /\ b.at = Len(session[b.of])
    BY <1>3, <1>4, <1>7
  <2>2. 6 * n + b.at <= Len(held) + 2
    BY <1>3, <1>6, <2>1
  <2>3. PICK m \in Nat : m = n + 1
    OBVIOUS
  <2>4. 6 * m <= Len(held)
    BY <1>1, <1>3, <1>5, <2>1, <2>2, <2>3
  <2>5. (missed + 1) + Swallowed(length) <= Paid(length)' + m
    BY <1>2, <1>4, <2>3
  <2>6. \A f \in Frames' : ~ CutInTwo(f)'
    BY <1>3, <1>4, <2>1
  <2> QED  BY <1>7, <2>4, <2>5, <2>6
<1>8. CASE ~ EndsWholeFrame(b)
  <2>1. 6 * n <= Len(held)
    BY <1>1, <1>5
  <2>2. missed + Swallowed(length) <= Paid(length)' + n
    BY <1>2, <1>4
  <2>3. ASSUME NEW f \in Frames', CutInTwo(f)'
        PROVE  /\ b.of = f /\ 3 <= b.at /\ 6 * n + b.at <= Len(held) + 2
               /\ \A k \in 3 .. Len(session[f]) : Waits(f, k)' \/ k <= b.at
    <3>1. f = b.of /\ b.of \in Frames /\ b.at >= 3 /\ Len(session[f]) \in Nat
      BY <1>4, <2>3
    <3>2. 6 * n + b.at <= Len(held) + 2
      <4>1. CASE b.at > 3
        BY <1>6, <3>1, <4>1
      <4>2. CASE b.at = 3
        BY <1>1, <1>5, <4>2
      <4> QED  BY <1>3, <3>1, <4>1, <4>2
    <3>3. \A k \in 3 .. Len(session[f]) : Waits(f, k)' \/ k <= b.at
      BY <1>3, <3>1
    <3> QED  BY <1>3, <3>1, <3>2, <3>3
  <2> QED  BY <1>8, <2>1, <2>2, <2>3
<1> QED  BY <1>7, <1>8

\* A length is a byte that was sent.
LEMMA LengthsAreBytes ==
  ASSUME IInv, NEW length \in Nat, AtMost(length), NEW frame \in Seq(Bytes), Len(frame) >= 4,
         frame[4] \in All(held) \cup Unparsed
  PROVE  DataLen(frame) <= length
<1>1. /\ frame[4].of \in 1 .. sent /\ frame[4].at \in 1 .. Len(session[frame[4].of])
      /\ frame[4].v = session[frame[4].of][frame[4].at]
  BY LineSeqs
<1>2. frame[4].v \in Lengths
  BY <1>1 DEF Lengths
<1> QED  BY <1>2 DEF AtMost, DataLen

\* Within a damaged frame: at its end the frames that it swallowed are paid for.
LEMMA AstrayBound ==
  ASSUME IInv, IInv', ParseByte, LineAccounted, held # <<>>, held[1].of \notin Frames,
         NEW length \in Nat, AtMost(length), Bounded(length)
  PROVE  Bounded(length)'
<1>1. PICK b : b = Head(got)
  OBVIOUS
<1>2. All(held') \subseteq All(held) \cup {b} /\ b \in Bytes /\ Len(held) \in Nat \ {0}
  BY <1>1, NextTaken
<1>3. PICK s : s = held[1].of
  OBVIOUS
<1>4. PICK next \in Seq(Bytes) :
        /\ next # <<>> /\ next[1].v = Magic
        /\ Len(next) = Len(held) + 1
        /\ All(next) = All(held) \cup {b}
        /\ \A k \in 1 .. Len(held) : next[k] = held[k]
        /\ next[Len(next)] = b
        /\ \/ /\ held' = next /\ Collects(b)
              /\ Len(next) < 4 \/ (Len(next) >= 4 /\ DataLen(next) \in Nat /\ Len(next) <= 5 + DataLen(next))
           \/ /\ held' = <<>> /\ Len(held) >= 4 /\ DataLen(next) \in Nat
              /\ DataLen(next) = DataLen(held) /\ Len(next) = DataLen(next) + 6
              /\ IF CrcAgrees(next) THEN missed' = 0 ELSE Collects(b)
  BY <1>1, NextTaken
<1>5. /\ UNCHANGED <<session, sent, broken>> /\ Frames' = Frames /\ LineAccounted'
      /\ b \in Unparsed
      /\ \A f, k : Passed(f, k) => Passed(f, k)'
  BY <1>1, <1>2, ByteAccount
<1>6. /\ \A f \in Frames' : CutInTwo(f)' =>
           /\ f = b.of /\ b.of \in Frames
           /\ Len(session[b.of]) \in Nat /\ Len(session[b.of]) >= 8
      /\ Past \subseteq Past'
      /\ Paid(length) \in Nat /\ Paid(length)' \in Nat /\ Paid(length) <= Paid(length)'
      /\ missed \in Nat /\ Swallowed(length) \in Nat /\ Swallowed(length)' = Swallowed(length)
  BY <1>1, <1>2, ByteCuts
<1>7. s \in Past' /\ s \notin Frames /\ Astray(length)
  <2>1. Astray(length)
    BY DEF Bounded
  <2> QED  BY <1>3, <1>6, <2>1 DEF Astray
<1>8. PICK n \in Nat :
        /\ (IF EndsWholeFrame(b) THEN missed + 1 ELSE missed) + Swallowed(length) <= Paid(length)' + n
        /\ 6 * n <= Len(held)
        /\ \A f \in Frames' : CutInTwo(f)' =>
             /\ b.of = f /\ 3 <= b.at /\ 6 * n + b.at <= Len(held) + 2
             /\ \A k \in 3 .. Len(session[f]) : Waits(f, k)' \/ k <= b.at
  BY <1>1, <1>2, <1>7, SwallowedSoFar
<1>9. next[1] = held[1] /\ next[1].of = s
  BY <1>2, <1>3, <1>4
<1>10. b.at \in Nat
  BY <1>2 DEF Bytes
<1>11. CASE held' = next /\ Collects(b)
  <2>1. missed' + Swallowed(length) <= Paid(length)' + n
    BY <1>8, <1>11 DEF Collects
  <2>2. Swallows(n, Len(held) - 1)'
    <3>1. Len(held') - 1 = Len(held)
      BY <1>2, <1>4, <1>11
    <3>2. ASSUME NEW f \in Frames', CutInTwo(f)', NEW k \in 3 .. Len(session[f])
          PROVE  Waits(f, k)' \/ 6 * n + k <= Len(held) + 2
      <4>1. k \in Nat
        BY <1>6, <3>2
      <4>2. 6 * n + b.at <= Len(held) + 2 /\ (Waits(f, k)' \/ k <= b.at)
        BY <1>8, <3>2
      <4> QED  BY <1>2, <1>10, <4>1, <4>2
    <3> QED  BY <1>5, <1>8, <3>1, <3>2 DEF Swallows
  <2>3. held' # <<>> /\ held'[1].of = s
    BY <1>4, <1>9, <1>11
  <2>4. Astray(length)'
    BY <1>6, <1>7, <2>1, <2>2, <2>3 DEF Astray, Swallows
  <2> QED  BY <1>5, <1>7, <2>3, <2>4 DEF Bounded
<1>12. CASE held' = <<>> /\ Len(held) >= 4 /\ DataLen(next) \in Nat
             /\ Len(next) = DataLen(next) + 6 /\ CrcAgrees(next) /\ missed' = 0
  <2>1. b.of = s
    <3>1. Len(next) \in 1 .. Len(next)
      BY <1>2, <1>4
    <3> QED  BY <1>4, <1>9, <1>12, <3>1 DEF CrcAgrees
  <2>2. \A f \in Frames' : ~ CutInTwo(f)'
    BY <1>6, <1>7, <2>1
  <2>3. BetweenFrames(length)'
    BY <1>6, <1>12, <2>2 DEF BetweenFrames
  <2> QED  BY <1>5, <1>12, <2>3 DEF Bounded
<1>13. CASE held' = <<>> /\ Len(held) >= 4 /\ DataLen(next) \in Nat
             /\ Len(next) = DataLen(next) + 6 /\ Collects(b)
  <2>1. DataLen(next) <= length
    <3>1. next[4] \in All(held) /\ Len(next) >= 4
      BY <1>2, <1>4, <1>13 DEF All
    <3> QED  BY <3>1, LengthsAreBytes
  <2>2. Len(held) <= length + 5
    BY <1>2, <1>4, <1>13, <2>1
  <2>3. /\ n <= Swallowed(length)
        /\ 6 * n + 1 <= length + 5 => n + 1 <= Swallowed(length)
    <3>1. 6 * n <= length + 5
      BY <1>2, <1>8, <2>2
    <3> QED  BY <3>1, SwallowedCovers
  <2>4. missed' \in Nat /\ missed' + Swallowed(length) <= Paid(length)' + n
    BY <1>6, <1>8, <1>13 DEF Collects
  <2>5. missed' <= Paid(length)'
    BY <1>6, <2>3, <2>4
  <2>6. ASSUME NEW f \in Frames', CutInTwo(f)' PROVE missed' + 1 <= Paid(length)'
    <3>1. 3 <= b.at /\ 6 * n + b.at <= Len(held) + 2
      BY <1>8, <2>6
    <3>2. n + 1 <= Swallowed(length)
      BY <1>2, <1>10, <2>2, <2>3, <3>1
    <3> QED  BY <1>6, <2>4, <3>2
  <2>7. BetweenFrames(length)'
    BY <2>5, <2>6 DEF BetweenFrames
  <2> QED  BY <1>5, <1>13, <2>7 DEF Bounded
<1> QED  BY <1>4, <1>11, <1>12, <1>13

\* A parsed byte keeps what is paid for.
LEMMA ParseByteBound ==
  ASSUME IInv, IInv', ParseByte, LineAccounted, NEW length \in Nat, AtMost(length), Bounded(length)
  PROVE  Bounded(length)'
<1>1. CASE held = <<>>
  <2>1. PICK b : b = Head(got)
    OBVIOUS
  <2>2. WaitStart(b)
    <3>1. pstate = "start"
      BY <1>1 DEF IInv, ParserInShape
    <3> QED  BY <2>1, <3>1 DEF ParseByte, ReadHeader, ReadData, ReadCrc
  <2> QED  BY <2>1, <2>2, StartBound
<1>2. CASE held # <<>> /\ held[1].of \in Frames
  BY <1>2, InFrameBound
<1>3. CASE held # <<>> /\ held[1].of \notin Frames
  BY <1>3, AstrayBound
<1> QED  BY <1>1, <1>2, <1>3

-----------------------------------------------------------------------------
(* The bound.                                                              *)

\* What later messages allow for, earlier ones did.
LEMMA AtMostBefore ==
  ASSUME IInv, [Next]_vars, NEW length \in Nat, AtMost(length)'
  PROVE  AtMost(length)
<1>1. session' = session /\ (sent' = sent \/ sent' = sent + 1) /\ sent \in Nat
  <2>1. sent \in Nat
    BY SessionFacts DEF IInv
  <2> QED  BY <2>1 DEF Next, Interrupt, Sends, Receives, ReceiveError, ThreadReads, ParseByte, vars, line
<1>2. 1 .. sent \subseteq 1 .. sent'
  BY <1>1
<1>3. Lengths \subseteq Lengths'
  BY <1>1, <1>2 DEF Lengths
<1> QED  BY <1>1, <1>2, <1>3 DEF AtMost, Plain

\* Every step keeps the frames missed within what is paid for.
LEMMA DamageStep == IInv /\ DamageInvariant /\ [Next]_vars => DamageInvariant'
<1> SUFFICES ASSUME IInv, DamageInvariant, [Next]_vars PROVE DamageInvariant'
  OBVIOUS
<1>1. IInv' /\ LineAccounted
  BY StepKeeps DEF DamageInvariant
<1>2. \A length \in Nat : AtMost(length)' => AtMost(length) /\ Bounded(length)
  BY AtMostBefore DEF DamageInvariant
<1>3. ASSUME LineMoves PROVE DamageInvariant'
  <2>1. LineAccounted'
    BY <1>1, <1>3, LineMovesAccount
  <2>2. \A length \in Nat : AtMost(length)' => Bounded(length)'
    BY <1>1, <1>2, <1>3, LineMovesBound
  <2> QED  BY <2>1, <2>2 DEF DamageInvariant
<1>4. CASE Sends
  <2>1. LineAccounted'
    BY <1>1, <1>4, SendsAccount
  <2>2. \A length \in Nat : AtMost(length)' => Bounded(length)'
    BY <1>1, <1>2, <1>4, SendsBound
  <2> QED  BY <2>1, <2>2 DEF DamageInvariant
<1>5. CASE ParseByte
  <2>1. LineAccounted'
    BY <1>1, <1>5, ParseByteAccount
  <2>2. \A length \in Nat : AtMost(length)' => Bounded(length)'
    BY <1>1, <1>2, <1>5, ParseByteBound
  <2> QED  BY <2>1, <2>2 DEF DamageInvariant
<1>6. CASE Interrupt \/ ThreadReads \/ UNCHANGED vars \/ \E n \in 1 .. Least(Len(wire), DmaSize) : ReceiveError(n)
  BY <1>3, <1>6, ReceivesKeeps, ReceiveErrorKeeps, ThreadReadsKeep, StutterKeeps DEF Interrupt
<1> QED  BY <1>4, <1>5, <1>6 DEF Next

\* Before anything is sent nothing is missed.
LEMMA DamageInit == Init => DamageInvariant
<1> SUFFICES ASSUME Init PROVE DamageInvariant
  OBVIOUS
<1>1. sent = 0 /\ held = <<>> /\ missed = 0 /\ broken = {} /\ IInv
  BY InitIInv DEF Init
<1>2. Frames = {}
  BY <1>1 DEF Frames
<1>3. LineAccounted
  <2>1. All(held) = {}
    BY <1>1, EmptySeq DEF All
  <2> QED  BY <1>2, <2>1 DEF LineAccounted, Ahead
<1>4. ASSUME NEW length \in Nat PROVE Bounded(length)
  <2>1. Paid(length) \in Nat
    <3>1. Past = {}
      BY <1>1 DEF Past
    <3>2. Paid(length) = 0 * Swallowed(length) /\ Swallowed(length) \in Nat
      BY <3>1, FS_EmptySet, SwallowedCovers DEF Paid
    <3> QED  BY <3>2
  <2> QED  BY <1>1, <1>2, <2>1 DEF Bounded, BetweenFrames
<1> QED  BY <1>3, <1>4 DEF DamageInvariant

\* What is paid for is within what the damaged frames may cost.
LEMMA DamageMeansBound == IInv /\ DamageInvariant => DamageIsBounded
<1> SUFFICES ASSUME IInv, DamageInvariant, \A f \in 1 .. sent : Plain(session[f]),
                    NEW length \in Lengths, \A other \in Lengths : other <= length
             PROVE  missed <= Cardinality(broken) * Swallowed(length)
  BY DEF DamageIsBounded
<1>1. length \in Nat
  <2>0. PICK f \in 1 .. sent : length \in {session[f][k] : k \in 1 .. Len(session[f])}
    BY DEF Lengths
  <2>1. PICK k \in 1 .. Len(session[f]) : length = session[f][k]
    BY <2>0
  <2>2. session[f] \in Seq(0 .. UINT8_MAX)
    <3>1. f \in 1 .. Len(session)
      BY SessionFacts DEF IInv
    <3> QED  BY <3>1, SessionFacts DEF IInv
  <2>3. length \in 0 .. UINT8_MAX
    BY <2>1, <2>2, ElementOfSeq
  <2> QED  BY <2>3, Widths
<1>2. Bounded(length)
  BY <1>1 DEF DamageInvariant, AtMost
<1>3. missed \in Nat /\ Swallowed(length) \in Nat
  BY <1>1, SwallowedCovers DEF IInv, LineTypeOK
<1>4. /\ Paid(length) \in Nat /\ Cardinality(broken) * Swallowed(length) \in Nat
      /\ Paid(length) <= Cardinality(broken) * Swallowed(length)
  <2>1. Past \subseteq broken /\ broken \subseteq 1 .. sent /\ sent \in Nat
    BY SessionFacts DEF IInv, LineTypeOK, Past
  <2>2. /\ Cardinality(Past) \in Nat /\ Cardinality(broken) \in Nat
        /\ Cardinality(Past) <= Cardinality(broken)
    BY <2>1, PastFacts
  <2> QED  BY <1>3, <2>2, PayGrows DEF Paid
<1>5. missed <= Paid(length)
  <2>1. CASE held = <<>>
    BY <1>2, <2>1 DEF Bounded, BetweenFrames
  <2>2. CASE held # <<>> /\ held[1].of \in Frames
    BY <1>2, <2>2 DEF Bounded, InFrame
  <2>3. CASE held # <<>> /\ held[1].of \notin Frames
    <3>1. Astray(length)
      BY <1>2, <2>3 DEF Bounded
    <3>2. PICK n \in Nat : missed + Swallowed(length) <= Paid(length) + n /\ 6 * n <= Len(held) - 1
      BY <3>1 DEF Astray, Swallows
    <3>3. Len(held) \in Nat \ {0}
      BY <2>3, HeldBegins
    <3>4. n <= Swallowed(length)
      <4>1. CASE Len(held) < 4
        BY <1>3, <3>2, <3>3, <4>1
      <4>2. CASE Len(held) >= 4
        <5>1. held \in Seq(Bytes) /\ held[4] \in All(held)
          BY <4>2, <3>3, LineSeqs DEF All
        <5>2. DataLen(held) <= length
          BY <1>1, <4>2, <5>1, LengthsAreBytes DEF AtMost
        <5>3. Len(held) <= 5 + DataLen(held) /\ DataLen(held) \in Nat
          <6>1. DataLen(held) \in Nat
            <7>1. held[4] \in Bytes
              BY <5>1, LineSeqs
            <7> QED  BY <7>1 DEF Bytes, DataLen
          <6>2. pstate \in {"start", "header", "data", "crc"}
            BY DEF IInv, LineTypeOK
          <6> QED  BY <2>3, <3>3, <4>2, <6>1, <6>2 DEF IInv, ParserInShape
        <5>4. 6 * n <= length + 5
          BY <1>1, <3>2, <3>3, <5>2, <5>3
        <5> QED  BY <1>1, <5>4, SwallowedCovers
      <4> QED  BY <3>3, <4>1, <4>2
    <3> QED  BY <1>3, <1>4, <3>2, <3>4
  <2> QED  BY <2>1, <2>2, <2>3
<1> QED  BY <1>3, <1>4, <1>5

\* However many frames a damaged one swallows, there are no more of them than fit
\* into the length that it seems to have: whatever the host sends, and however the
\* line loses, cuts and joins it.
THEOREM DamageBounded == Spec => []DamageIsBounded
  BY DamageInit, DamageStep, DamageMeansBound, InvariantHolds, InitIInv, StepKeeps, PTL DEF Spec
=============================================================================
