-------------------------- MODULE TupleCodecProofs --------------------------
(***************************************************************************)
(* What TupleCodec does to every value, for every slot size.               *)
(***************************************************************************)
EXTENDS TupleCodec, BasicProofs

(* The smaller of two naturals, as the code's (a <= b) ? a : b.            *)
LEMMA MinOfTwo ==
  ASSUME NEW a \in Nat, NEW b \in Nat
  PROVE  Min({a, b}) = IF a <= b THEN a ELSE b
<1>1. Min({a, b}) \in {a, b} /\ \A y \in {a, b} : Min({a, b}) <= y
  BY MinOfNats
<1> QED
  BY <1>1

(* A slot is always whole: AppendBin2Vec never writes past it and leaves   *)
(* no word of it undefined, whatever the length of the value.              *)
LEMMA AppendBin2VecType ==
  ASSUME NEW items \in Seq(Word)
  PROVE  AppendBin2Vec(items) \in Slot
<1> DEFINE n == Min({Len(items), MAX_TUPLE_VALUES_CNTS})
<1>1. n \in Nat /\ n <= Len(items)
  BY CodecAssumption, MinOfTwo
<1> HIDE DEF n
<1>2. \A j \in 1..MAX_TUPLE_VALUES_CNTS : j <= n => items[j] \in Word
  BY <1>1, CodecAssumption
<1> QED
  BY <1>1, <1>2, CodecAssumption DEF AppendBin2Vec, Slot, n

(* Reading a slot gives a value that fits in memory as words.              *)
LEMMA Read2TupleType ==
  ASSUME NEW slot \in Slot
  PROVE  Read2Tuple(slot) \in Seq(Word)
<1> DEFINE stops == {j \in 1..MAX_TUPLE_VALUES_CNTS : slot[j] = TERMINATION}
<1>1. slot \in Seq(Word)
  BY CodecAssumption DEF Slot
<1>2. CASE stops = {}
  BY <1>1, <1>2 DEF Read2Tuple
<1>3. CASE stops # {}
  <2>1. Min(stops) \in 1..MAX_TUPLE_VALUES_CNTS
    BY <1>3, MinOfNats, CodecAssumption
  <2>2. Len(slot) = MAX_TUPLE_VALUES_CNTS
    BY CodecAssumption DEF Slot
  <2>3. \A m \in 1..Len(slot) : SubSeq(slot, 1, m - 1) \in Seq(Word)
    BY <1>1
  <2>4. SubSeq(slot, 1, Min(stops) - 1) \in Seq(Word)
    BY <2>1, <2>2, <2>3
  <2> QED
    BY <1>3, <2>4 DEF Read2Tuple
<1> QED
  BY <1>2, <1>3

(* A slot whose word n + 1 is the first TERMINATION reads as its first n   *)
(* words, a slot without one as a whole.                                   *)
LEMMA Read2TupleStops ==
  ASSUME NEW slot \in Slot, NEW n \in 0..MAX_TUPLE_VALUES_CNTS,
         \A j \in 1..n : slot[j] # TERMINATION,
         n < MAX_TUPLE_VALUES_CNTS => slot[n + 1] = TERMINATION
  PROVE  Read2Tuple(slot) = SubSeq(slot, 1, n)
<1> DEFINE stops == {j \in 1..MAX_TUPLE_VALUES_CNTS : slot[j] = TERMINATION}
<1>1. slot \in Seq(Word) /\ Len(slot) = MAX_TUPLE_VALUES_CNTS
  BY CodecAssumption DEF Slot
<1>2. CASE n = MAX_TUPLE_VALUES_CNTS
  <2>1. stops = {}
    BY <1>2
  <2>2. SubSeq(slot, 1, n) = slot
    BY <1>1, <1>2, CodecAssumption
  <2> QED
    BY <2>1, <2>2 DEF Read2Tuple
<1>3. CASE n < MAX_TUPLE_VALUES_CNTS
  <2>1. n + 1 \in stops
    BY <1>3, CodecAssumption
  <2>2. \A y \in stops : n + 1 <= y
    BY CodecAssumption
  <2>3. Min(stops) \in stops /\ \A y \in stops : Min(stops) <= y
    BY <2>1, MinOfNats, CodecAssumption
  <2>4. Min(stops) = n + 1
    BY <2>1, <2>2, <2>3, CodecAssumption
  <2>5. Min(stops) - 1 = n
    BY <2>4, CodecAssumption
  <2>6. stops # {}
    BY <2>1
  <2>7. Read2Tuple(slot) = SubSeq(slot, 1, Min(stops) - 1)
    BY <2>6 DEF Read2Tuple
  <2> QED
    BY <2>5, <2>7
<1> QED
  BY <1>2, <1>3, CodecAssumption

(* The values a flush preserves: no TERMINATION among the items, not more  *)
(* items than a slot has, and not exactly one less, for which the code     *)
(* writes no marker though one word is left (Tuple.cpp:63).                *)
THEOREM ValuesThatRoundTrip ==
  ASSUME NEW items \in Seq(Word),
         Len(items) <= MAX_TUPLE_VALUES_CNTS,
         Len(items) + 1 # MAX_TUPLE_VALUES_CNTS,
         \A j \in 1..Len(items) : items[j] # TERMINATION
  PROVE  RoundTrips(items)
<1> DEFINE slot == AppendBin2Vec(items)
           n == Len(items)
<1>1. slot \in Slot
  BY AppendBin2VecType
<1>2. Min({n, MAX_TUPLE_VALUES_CNTS}) = n
  BY MinOfTwo, CodecAssumption
<1>3. \A j \in 1..n : slot[j] = items[j]
  BY <1>2, CodecAssumption DEF AppendBin2Vec
<1>4. n < MAX_TUPLE_VALUES_CNTS => slot[n + 1] = TERMINATION
  BY <1>2, CodecAssumption DEF AppendBin2Vec
<1> HIDE DEF slot
<1>5. Read2Tuple(slot) = SubSeq(slot, 1, n)
  BY <1>1, <1>3, <1>4, Read2TupleStops, CodecAssumption
<1>6. SubSeq(slot, 1, n) = items
  BY <1>1, <1>3, CodecAssumption DEF Slot
<1> QED
  BY <1>5, <1>6 DEF RoundTrips, Stored, slot

(* A delete marker does not survive a flush: it comes back as the empty    *)
(* value, which IsDelMarker does not recognise, and stays that from then   *)
(* on.                                                                     *)
THEOREM DelMarkerBecomesEmpty ==
  /\ IsDelMarker(DelMarker)
  /\ Stored(DelMarker) = <<>>
  /\ Stored(<<>>) = <<>>
  /\ ~IsDelMarker(<<>>)
<1>1. DelMarker \in Seq(Word) /\ Len(DelMarker) = 1 /\ DelMarker[1] = TERMINATION
  BY CodecAssumption DEF DelMarker
<1>2. ASSUME NEW items \in Seq(Word),
             Len(items) = 0 \/ (Len(items) = 1 /\ items[1] = TERMINATION)
      PROVE  Stored(items) = <<>>
  <2> DEFINE slot == AppendBin2Vec(items)
  <2>1. slot \in Slot
    BY AppendBin2VecType
  <2>2. Min({Len(items), MAX_TUPLE_VALUES_CNTS}) = Len(items)
    <3>1. MAX_TUPLE_VALUES_CNTS \in Nat /\ 2 <= MAX_TUPLE_VALUES_CNTS
      BY CodecAssumption
    <3>2. Len(items) \in Nat /\ Len(items) <= MAX_TUPLE_VALUES_CNTS
      BY <1>2, <3>1
    <3> QED
      BY <3>1, <3>2, MinOfTwo
  <2>3. slot[1] = TERMINATION
    <3>1. 1 \in 1..MAX_TUPLE_VALUES_CNTS /\ 0 + 1 < MAX_TUPLE_VALUES_CNTS
      BY CodecAssumption
    <3>2. CASE Len(items) = 0
      BY <2>2, <3>1, <3>2, CodecAssumption DEF AppendBin2Vec
    <3>3. CASE Len(items) = 1 /\ items[1] = TERMINATION
      BY <2>2, <3>1, <3>3, CodecAssumption DEF AppendBin2Vec
    <3> QED
      BY <1>2, <3>2, <3>3
  <2> HIDE DEF slot
  <2>4. Read2Tuple(slot) = SubSeq(slot, 1, 0)
    BY <2>1, <2>3, Read2TupleStops, CodecAssumption
  <2>5. SubSeq(slot, 1, 0) = <<>>
    BY <2>1, CodecAssumption DEF Slot
  <2> QED
    BY <2>4, <2>5 DEF Stored, slot
<1>3. Stored(DelMarker) = <<>>
  BY <1>1, <1>2
<1>4. Stored(<<>>) = <<>>
  <2>1. <<>> \in Seq(Word) /\ Len(<<>>) = 0
    OBVIOUS
  <2> QED
    BY <2>1, <1>2
<1> QED
  BY <1>1, <1>3, <1>4 DEF IsDelMarker
=============================================================================
