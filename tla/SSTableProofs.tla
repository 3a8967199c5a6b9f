---------------------------- MODULE SSTableProofs ---------------------------
(***************************************************************************)
(* What SSTable's fences, filters and files do for every file.             *)
(***************************************************************************)
EXTENDS SSTable, BasicProofs, FiniteSetTheorems, SequenceTheorems

(* Rounding up: the pieces suffice, and the last of them is needed.        *)
LEMMA PiecesBounds ==
  ASSUME NEW n \in Nat, NEW size \in Nat \ {0}
  PROVE  /\ Pieces(n, size) \in Nat
         /\ n <= Pieces(n, size) * size
         /\ (Pieces(n, size) - 1) * size < n
<1> DEFINE q == (n + size - 1) \div size
<1>1. q \in Nat /\ q * size <= n + size - 1 /\ n + size - 1 < q * size + size
  OBVIOUS
<1>2. (q - 1) * size = q * size - size
  BY <1>1
<1> QED
  BY <1>1, <1>2 DEF Pieces

(* Files as they are on disk: some keys, strictly ascending.               *)
SSTFile ==
  {file \in Seq(Key) : /\ file # <<>>
                       /\ \A i, j \in DOMAIN file : i < j => file[i] < file[j]}

(* The tuples up to which the i-th fence reaches.                          *)
FenceEnd(file, i) == Least(i * FPInterval, Len(file))

(* A key is an integer.                                                    *)
LEMMA KeysAreInts == Key \subseteq Int
  BY SSTableAssumption

(* The length and the keys of a file.                                      *)
LEMMA FileFacts ==
  ASSUME NEW file \in SSTFile
  PROVE  /\ file \in Seq(Key)
         /\ Len(file) \in Nat \ {0}
         /\ DOMAIN file = 1..Len(file)
         /\ \A p \in 1..Len(file) : file[p] \in Key /\ file[p] \in Int
         /\ \A p, q \in 1..Len(file) : p < q => file[p] < file[q]
<1>1. file \in Seq(Key) /\ file # <<>>
  BY DEF SSTFile
<1>2. Len(file) \in Nat /\ DOMAIN file = 1..Len(file)
  BY <1>1
<1>3. Len(file) # 0
  BY <1>1, EmptySeq
<1>4. \A p \in 1..Len(file) : file[p] \in Key
  BY <1>1
<1>5. \A p, q \in 1..Len(file) : p < q => file[p] < file[q]
  BY <1>2 DEF SSTFile
<1> QED
  BY <1>1, <1>2, <1>3, <1>4, <1>5, KeysAreInts

(* The fences of a file divide it without a gap.                           *)
LEMMA FencesDivide ==
  ASSUME NEW file \in SSTFile
  PROVE  /\ Pieces(Len(file), FPInterval) \in Nat \ {0}
         /\ FenceEnd(file, Pieces(Len(file), FPInterval)) = Len(file)
         /\ DOMAIN Fences(file) = 1..Pieces(Len(file), FPInterval)
         /\ Len(Fences(file)) = Pieces(Len(file), FPInterval)
         /\ \A i \in 1..Pieces(Len(file), FPInterval) :
              /\ (i - 1) * FPInterval \in Nat
              /\ FenceEnd(file, i) \in 1..Len(file)
              /\ (i - 1) * FPInterval < FenceEnd(file, i)
              /\ i < Pieces(Len(file), FPInterval) => FenceEnd(file, i) = i * FPInterval
              /\ Fences(file)[i].max = file[FenceEnd(file, i)]
              /\ Fences(file)[i].offset = (i - 1) * FPInterval
              /\ Fences(file)[i].offset + Fences(file)[i].count = FenceEnd(file, i)
<1> DEFINE n == Len(file)
           P == Pieces(n, FPInterval)
<1>1. n \in Nat \ {0} /\ FPInterval \in Nat \ {0} /\ file \in Seq(Key)
  BY SSTableAssumption DEF SSTFile
<1>2. P \in Nat /\ n <= P * FPInterval /\ (P - 1) * FPInterval < n
  BY <1>1, PiecesBounds
<1> HIDE DEF P
<1>3. P # 0
  BY <1>1, <1>2
<1>4. FenceEnd(file, P) = n
  BY <1>1, <1>2 DEF FenceEnd, Least
<1>5. ASSUME NEW i \in 1..P
      PROVE  /\ (i - 1) * FPInterval \in Nat
             /\ (i - 1) * FPInterval <= (P - 1) * FPInterval
             /\ i * FPInterval = (i - 1) * FPInterval + FPInterval
             /\ i < P => i * FPInterval <= (P - 1) * FPInterval
  BY <1>1, <1>2
<1>6. ASSUME NEW i \in 1..P
      PROVE  /\ FenceEnd(file, i) \in 1..n
             /\ (i - 1) * FPInterval < FenceEnd(file, i)
             /\ i < P => FenceEnd(file, i) = i * FPInterval
  BY <1>1, <1>2, <1>5 DEF FenceEnd, Least
<1>7. ASSUME NEW i \in 1..P
      PROVE  LET tuples == Piece(file, i, FPInterval)
             IN  /\ Len(tuples) = FenceEnd(file, i) - (i - 1) * FPInterval
                 /\ tuples[Len(tuples)] = file[FenceEnd(file, i)]
  <2> DEFINE lo == (i - 1) * FPInterval
             hi == FenceEnd(file, i)
             tuples == Piece(file, i, FPInterval)
  <2>1. lo \in Nat /\ hi \in 1..n /\ lo < hi
    BY <1>5, <1>6
  <2>2. tuples = SubSeq(file, lo + 1, hi)
    BY DEF Piece, FenceEnd
  <2> HIDE DEF lo, hi, tuples
  <2>3. Len(tuples) = hi - lo /\ tuples[hi - lo] = file[hi]
    BY <1>1, <2>1, <2>2, SMTT(30)
  <2> QED
    BY <2>3 DEF lo, hi, tuples
<1>8. /\ DOMAIN Fences(file) = 1..P
      /\ Len(Fences(file)) = P
  BY <1>2 DEF Fences, P
<1>9. ASSUME NEW i \in 1..P
      PROVE  /\ Fences(file)[i].max = file[FenceEnd(file, i)]
             /\ Fences(file)[i].offset = (i - 1) * FPInterval
             /\ Fences(file)[i].count = FenceEnd(file, i) - (i - 1) * FPInterval
  BY <1>7 DEF Fences, P
<1>10. ASSUME NEW i \in 1..P
       PROVE  Fences(file)[i].offset + Fences(file)[i].count = FenceEnd(file, i)
  BY <1>5, <1>6, <1>9
<1> QED
  BY <1>2, <1>3, <1>4, <1>5, <1>6, <1>8, <1>9, <1>10 DEF P

(* The fence GetOffset finds for a key that is not above the file: all     *)
(* tuples before it are below the key, and its last one is not.            *)
LEMMA FenceContainsKey ==
  ASSUME NEW file \in SSTFile, NEW key \in Int, key <= file[Len(file)]
  PROVE  LET offset == GetOffset(file, key)
         IN  /\ offset = [start |-> offset.start, end |-> offset.end]
             /\ offset.start \in Nat /\ offset.end \in 1..Len(file)
             /\ offset.start < offset.end
             /\ \A p \in 1..Len(file) : p <= offset.start => file[p] < key
             /\ key <= file[offset.end]
<1> DEFINE P == Pieces(Len(file), FPInterval)
           fences == Fences(file)
           below == {j \in DOMAIN fences : fences[j].max < key}
           m == Max({0} \cup below)
<1>1. /\ P \in Nat \ {0} /\ FenceEnd(file, P) = Len(file)
      /\ DOMAIN fences = 1..P /\ Len(fences) = P
  BY FencesDivide
<1>2. \A i \in 1..P : /\ (i - 1) * FPInterval \in Nat
                      /\ FenceEnd(file, i) \in 1..Len(file)
                      /\ (i - 1) * FPInterval < FenceEnd(file, i)
                      /\ i < P => FenceEnd(file, i) = i * FPInterval
                      /\ fences[i].max = file[FenceEnd(file, i)]
                      /\ fences[i].offset = (i - 1) * FPInterval
                      /\ fences[i].offset + fences[i].count = FenceEnd(file, i)
  BY FencesDivide
<1>3. /\ Len(file) \in Nat \ {0} /\ FPInterval \in Nat \ {0}
      /\ \A p \in 1..Len(file) : file[p] \in Int
      /\ \A p, q \in 1..Len(file) : p < q => file[p] < file[q]
  BY FileFacts, SSTableAssumption
<1> HIDE DEF P, fences
<1>4. m \in {0} \cup below /\ \A j \in {0} \cup below : j <= m
  <2>1. {0} \cup below \in SUBSET (0..P) /\ {0} \cup below # {}
    BY <1>1
  <2> QED
    BY <1>1, <2>1, MaxOfBoundedNats
<1> HIDE DEF m
<1>5. P \notin below
  BY <1>1, <1>2, <1>3
<1>6. m \in 0..P - 1 /\ m + 1 \in 1..P
  BY <1>1, <1>4, <1>5
<1>7. GetOffset(file, key) = [start |-> fences[m + 1].offset,
                              end |-> fences[m + 1].offset + fences[m + 1].count]
  <2>1. 1 + m = m + 1 /\ ~(m + 1 > Len(fences))
    BY <1>1, <1>6
  <2> QED
    BY <2>1 DEF GetOffset, m, fences
<1>8. /\ fences[m + 1].offset = m * FPInterval
      /\ fences[m + 1].offset + fences[m + 1].count = FenceEnd(file, m + 1)
      /\ m * FPInterval \in Nat
      /\ m * FPInterval < FenceEnd(file, m + 1)
      /\ FenceEnd(file, m + 1) \in 1..Len(file)
      /\ fences[m + 1].max = file[FenceEnd(file, m + 1)]
  <2>1. (m + 1) - 1 = m
    BY <1>6
  <2> QED
    BY <1>2, <1>6, <2>1
<1>9. key <= file[FenceEnd(file, m + 1)]
  <2>1. m + 1 \notin below
    BY <1>4, <1>6
  <2>2. ~(fences[m + 1].max < key)
    BY <1>1, <1>6, <2>1
  <2> QED
    BY <1>3, <1>8, <2>2
<1>10. ASSUME NEW p \in 1..Len(file), p <= m * FPInterval
       PROVE  file[p] < key
  <2>1. m # 0
    BY <1>3, <1>10
  <2>2. m \in below /\ m \in 1..P /\ m < P
    BY <1>1, <1>4, <1>6, <2>1
  <2>3. file[m * FPInterval] < key /\ m * FPInterval \in 1..Len(file)
    BY <1>2, <2>2
  <2> QED
    BY <1>3, <1>10, <2>3
<1> QED
  BY <1>7, <1>8, <1>9, <1>10

(* Where GetOffset may point: between two tuples of the file.              *)
LEMMA GetOffsetType ==
  ASSUME NEW file \in SSTFile, NEW key \in Int
  PROVE  GetOffset(file, key) \in [start : Nat, end : Int]
<1> DEFINE P == Pieces(Len(file), FPInterval)
           below == {j \in DOMAIN Fences(file) : Fences(file)[j].max < key}
           m == Max({0} \cup below)
<1>1. /\ P \in Nat \ {0} /\ DOMAIN Fences(file) = 1..P /\ Len(Fences(file)) = P
      /\ \A i \in 1..P : /\ Fences(file)[i].offset \in Nat
                         /\ Fences(file)[i].offset + Fences(file)[i].count \in Int
  BY FencesDivide
<1> HIDE DEF P
<1>2. m \in {0} \cup below
  <2>1. {0} \cup below \in SUBSET (0..P) /\ {0} \cup below # {}
    BY <1>1
  <2> QED
    BY <1>1, <2>1, MaxOfBoundedNats
<1> HIDE DEF m
<1>3. m \in 0..P
  BY <1>1, <1>2
<1>4. CASE 1 + m > Len(Fences(file))
  <2>1. GetOffset(file, key) = [start |-> 0, end |-> -1]
    BY <1>4 DEF GetOffset, NoOffset, m
  <2> QED
    BY <2>1
<1>5. CASE ~(1 + m > Len(Fences(file)))
  <2>1. 1 + m \in 1..P
    BY <1>1, <1>3, <1>5
  <2>2. GetOffset(file, key) =
          [start |-> Fences(file)[1 + m].offset,
           end |-> Fences(file)[1 + m].offset + Fences(file)[1 + m].count]
    BY <1>5 DEF GetOffset, m
  <2> QED
    BY <1>1, <2>1, <2>2
<1> QED
  BY <1>4, <1>5

(* Whatever range is suggested, what is read of a file starts in the file. *)
LEMMA ExtentType ==
  ASSUME NEW file \in SSTFile, NEW suggest \in [begin : Int, end : Int],
         NEW slots \in StringSlots
  PROVE  Extent(file, suggest, slots) \in [start : Nat, end : Int]
<1> DEFINE startKey == Greatest(suggest.begin, file[1])
           endKey == Least(suggest.end, file[Len(file)])
           keys == SlotKeys(slots, startKey, endKey)
           first == getTupleOffset(file, keys[1])
           last == getTupleOffset(file, keys[2])
<1>1. startKey \in Int /\ endKey \in Int
  <2>1. file[1] \in Int /\ file[Len(file)] \in Int
    BY FileFacts
  <2> QED
    BY <2>1 DEF Greatest, Least
<1> HIDE DEF startKey, endKey
<1>2. keys[1] \in Int /\ keys[2] \in Int
  BY <1>1 DEF SlotKeys
<1> HIDE DEF keys
<1>3. NoOffset \in [start : Nat, end : Int]
  BY DEF NoOffset
<1>4. first \in [start : Nat, end : Int] /\ last \in [start : Nat, end : Int]
  BY <1>2, <1>3, GetOffsetType DEF getTupleOffset
<1> HIDE DEF first, last
<1>5. \/ fastFPIndex(file, suggest, slots) = [start |-> first.start, end |-> last.end]
      \/ fastFPIndex(file, suggest, slots) = NoOffset
  BY DEF fastFPIndex, startKey, endKey, keys, first, last
<1>6. fastFPIndex(file, suggest, slots) \in [start : Nat, end : Int]
  BY <1>3, <1>4, <1>5
<1>7. FPInterval \in Nat
  BY SSTableAssumption
<1> QED
  BY <1>6, <1>7 DEF Extent

(* What is read of a file was in the file, be it its keys or its slots.    *)
LEMMA ReadsAreStored ==
  ASSUME NEW T, NEW file \in Seq(T), NEW extent \in [start : Nat, end : Int]
  PROVE  /\ TuplesRead(file, extent) \in Seq(T)
         /\ \A i \in 1..Len(TuplesRead(file, extent)) :
              \E p \in 1..Len(file) : TuplesRead(file, extent)[i] = file[p]
         /\ \A p \in 1..Len(file) :
              extent.start < p /\ p <= extent.end =>
                \E i \in 1..Len(TuplesRead(file, extent)) :
                  TuplesRead(file, extent)[i] = file[p]
<1> DEFINE first == extent.start + 1
           end == Least(extent.end, Len(file))
           tuples == TuplesRead(file, extent)
<1>1. /\ first \in Nat \ {0} /\ end \in Int /\ end <= Len(file) /\ end <= extent.end
      /\ Len(file) \in Nat /\ file \in Seq(T)
  BY DEF Least
<1>2. tuples = SubSeq(file, first, end)
  BY DEF TuplesRead
<1>3. \A p \in 1..Len(file) : p <= extent.end => p <= end
  BY <1>1 DEF Least
<1>4. extent.start \in Nat
  OBVIOUS
<1> HIDE DEF first, end, tuples
<1>5. /\ tuples \in Seq(T)
      /\ Len(tuples) = IF first <= end THEN end - first + 1 ELSE 0
      /\ \A i \in 1..end - first + 1 : tuples[i] = file[first + i - 1]
  BY <1>1, <1>2
<1>6. ASSUME NEW i \in 1..Len(tuples)
      PROVE  first + i - 1 \in 1..Len(file) /\ tuples[i] = file[first + i - 1]
  BY <1>1, <1>5
<1>7. ASSUME NEW p \in 1..Len(file), extent.start < p, p <= extent.end
      PROVE  p - first + 1 \in 1..Len(tuples) /\ tuples[p - first + 1] = file[p]
  <2>1. first <= p /\ p <= end
    BY <1>3, <1>4, <1>7 DEF first
  <2>2. p - first + 1 \in 1..end - first + 1 /\ first + (p - first + 1) - 1 = p
    BY <1>1, <2>1
  <2> QED
    BY <1>1, <1>5, <2>1, <2>2
<1> QED
  BY <1>5, <1>6, <1>7 DEF tuples

-----------------------------------------------------------------------------
(* A shrunk search range has all holes in it, and is not empty then.       *)
LEMMA ShrunkRange ==
  ASSUME NEW range \in [begin : Int, end : Int], NEW found
  PROVE  LET shrunk == ShrinkSearchRange(range, found)
         IN  /\ shrunk \in [begin : Int, end : Int]
             /\ \A k \in Within(range) \ found : shrunk.begin <= k /\ k <= shrunk.end
             /\ (Within(range) \ found # {}) => shrunk.begin <= shrunk.end
             /\ Within(range) \ found = {} =>
                  shrunk = [begin |-> Wrap(range.end + 1), end |-> Wrap(range.begin - 1)]
<1> DEFINE holes == Within(range) \ found
           shrunk == ShrinkSearchRange(range, found)
<1>1. IntMin \in Int /\ IntMax \in Int /\ range.begin \in Int /\ range.end \in Int
  BY SSTableAssumption
<1>2. CASE holes = {}
  <2>1. shrunk = [begin |-> Wrap(range.end + 1), end |-> Wrap(range.begin - 1)]
    BY <1>2 DEF ShrinkSearchRange
  <2>2. Wrap(range.end + 1) \in Int /\ Wrap(range.begin - 1) \in Int
    BY <1>1 DEF Wrap
  <2> HIDE DEF shrunk
  <2> QED
    BY <1>2, <2>1, <2>2 DEF shrunk
<1>3. CASE holes # {}
  <2>1. \A k \in holes : k \in Int /\ range.begin <= k /\ k <= range.end
    BY <1>1 DEF Within
  <2>2. shrunk = [begin |-> Min(holes), end |-> Max(holes)]
    BY <1>3 DEF ShrinkSearchRange
  <2> HIDE DEF holes, shrunk
  <2>3. /\ Min(holes) \in holes /\ \A k \in holes : Min(holes) <= k
        /\ Max(holes) \in holes /\ \A k \in holes : k <= Max(holes)
    BY <1>1, <1>3, <2>1, MinOfInts, MaxOfInts
  <2> DEFINE low == Min(holes)
             high == Max(holes)
  <2> HIDE DEF low, high
  <2>4. /\ shrunk = [begin |-> low, end |-> high]
        /\ low \in Int /\ high \in Int /\ low <= high
        /\ \A k \in holes : low <= k /\ k <= high
    BY <1>3, <2>1, <2>2, <2>3 DEF low, high
  <2> QED
    BY <1>3, <2>4 DEF holes, shrunk
<1> QED
  BY <1>2, <1>3

-----------------------------------------------------------------------------
(* One Bloom filter covers a whole file, as Args.h:24 asks for.            *)
OneFilterPerFile == max_tuples_per_file <= BFNumTuples

(* A filter has no false negative: the first one of a file knows all of    *)
(* its keys when it covers the file.                                       *)
LEMMA FilterKnowsFile ==
  ASSUME NEW file \in SSTFile, Len(file) <= BFNumTuples, NEW p \in 1..Len(file)
  PROVE  /\ 1 \in DOMAIN BloomFilters(file)
         /\ Query(BloomFilters(file)[1], file[p])
<1> DEFINE n == Len(file)
           filters == Greatest(1, Pieces(n, BFNumTuples))
<1>1. n \in Nat \ {0} /\ BFNumTuples \in Nat \ {0} /\ file \in Seq(Key)
  BY FileFacts, SSTableAssumption
<1>2. filters \in Nat /\ 1 \in 1..filters
  BY <1>1, PiecesBounds, SMTT(30) DEF Greatest
<1>3. Piece(file, 1, BFNumTuples) = file
  <2>1. (1 - 1) * BFNumTuples + 1 = 1 /\ Least(1 * BFNumTuples, n) = n
    BY <1>1 DEF Least
  <2>2. SubSeq(file, 1, n) = file
    BY <1>1, SubSeqFull
  <2> QED
    BY <2>1, <2>2 DEF Piece
<1>4. BloomFilters(file)[1] = UNION {Hash[file[j]] : j \in 1..n}
  BY <1>2, <1>3 DEF BloomFilters
<1> QED
  BY <1>2, <1>4 DEF BloomFilters, Query

(* The suggested range of a file that has a wanted key of the search range *)
(* begins and ends with keys its filter knows, the wanted one among them.  *)
LEMMA SuggestionContains ==
  ASSUME NEW file \in SSTFile, Len(file) <= BFNumTuples,
         NEW search \in [begin : Int, end : Int], NEW wanted \in SUBSET Key,
         NEW p \in 1..Len(file), file[p] \in wanted,
         search.begin <= file[p], file[p] <= search.end
  PROVE  LET suggest == fastBFIndex(file, search, wanted)
         IN  /\ suggest \in [begin : Int, end : Int]
             /\ suggest.begin <= file[p] /\ file[p] <= suggest.end
             /\ Query(BloomFilters(file)[1], suggest.begin)
             /\ Query(BloomFilters(file)[1], suggest.end)
<1> DEFINE C == Candidates(file, search, wanted)
<1>1. /\ C \in SUBSET Int
      /\ \A k \in C : /\ search.begin <= k /\ k <= search.end
                      /\ Query(BloomFilters(file)[1], k)
  BY KeysAreInts DEF Candidates
<1>2. file[p] \in C
  BY FilterKnowsFile DEF Candidates
<1> HIDE DEF C
<1>3. Min(C) \in C /\ Max(C) \in C /\ Min(C) <= file[p] /\ file[p] <= Max(C)
  <2>1. C # {} /\ search.begin \in Int /\ search.end \in Int
    BY <1>2
  <2>2. Min(C) \in C /\ \A y \in C : Min(C) <= y
    BY <1>1, <2>1, MinOfInts
  <2>3. Max(C) \in C /\ \A y \in C : y <= Max(C)
    BY <1>1, <2>1, MaxOfInts
  <2> QED
    BY <1>2, <2>2, <2>3
<1>4. fastBFIndex(file, search, wanted) = [begin |-> Min(C), end |-> Max(C)]
  BY <1>2 DEF fastBFIndex, C
<1>5. /\ Min(C) \in Int /\ Max(C) \in Int
      /\ Query(BloomFilters(file)[1], Min(C)) /\ Query(BloomFilters(file)[1], Max(C))
  BY <1>1, <1>3
<1> DEFINE low == Min(C)
           high == Max(C)
<1> HIDE DEF low, high
<1>6. /\ fastBFIndex(file, search, wanted) = [begin |-> low, end |-> high]
      /\ low \in Int /\ high \in Int /\ low <= file[p] /\ file[p] <= high
      /\ Query(BloomFilters(file)[1], low) /\ Query(BloomFilters(file)[1], high)
  BY <1>3, <1>4, <1>5 DEF low, high
<1> QED
  BY <1>6

(* The fences then give an extent with that key in it.                     *)
LEMMA ExtentContains ==
  ASSUME NEW file \in SSTFile, Len(file) <= BFNumTuples,
         NEW suggest \in [begin : Int, end : Int],
         NEW p \in 1..Len(file), suggest.begin <= file[p], file[p] <= suggest.end,
         Query(BloomFilters(file)[1], suggest.begin),
         Query(BloomFilters(file)[1], suggest.end)
  PROVE  LET extent == Extent(file, suggest, "own")
         IN  /\ extent \in [start : Nat, end : Int]
             /\ extent.start < p /\ p <= extent.end
<1> DEFINE n == Len(file)
           startKey == Greatest(suggest.begin, file[1])
           endKey == Least(suggest.end, file[n])
           first == getTupleOffset(file, startKey)
           last == getTupleOffset(file, endKey)
<1>1. /\ n \in Nat \ {0}
      /\ \A q \in 1..n : file[q] \in Int
      /\ \A q, r \in 1..n : q < r => file[q] < file[r]
      /\ 1 \in 1..n /\ n \in 1..n
  BY FileFacts
<1>2. file[1] <= file[p] /\ file[p] <= file[n]
  BY <1>1
<1>3. /\ startKey \in Int /\ endKey \in Int
      /\ startKey <= file[p] /\ file[p] <= endKey
      /\ startKey \in {suggest.begin, file[1]} /\ endKey \in {suggest.end, file[n]}
      /\ startKey <= file[n] /\ endKey <= file[n]
  BY <1>1, <1>2 DEF Greatest, Least
<1>4. /\ 1 \in DOMAIN BloomFilters(file)
      /\ Query(BloomFilters(file)[1], startKey) /\ Query(BloomFilters(file)[1], endKey)
  BY <1>1, <1>3, FilterKnowsFile
<1> HIDE DEF startKey, endKey
<1>5. first = GetOffset(file, startKey) /\ last = GetOffset(file, endKey)
  BY <1>4 DEF getTupleOffset
<1>6. /\ first.start \in Nat
      /\ \A q \in 1..n : q <= first.start => file[q] < startKey
  BY <1>3, <1>5, FenceContainsKey
<1>7. last.end \in 1..n /\ endKey <= file[last.end]
  BY <1>3, <1>5, FenceContainsKey
<1> HIDE DEF first, last
<1>8. first.start < p
  BY <1>1, <1>3, <1>6
<1>9. p <= last.end
  <2>1. file[p] <= file[last.end] /\ file[last.end] \in Int
    BY <1>1, <1>3, <1>7
  <2> QED
    BY <1>1, <1>7, <2>1
<1>10. fastFPIndex(file, suggest, "own") = [start |-> first.start, end |-> last.end]
  <2>1. SlotKeys("own", startKey, endKey) = <<startKey, endKey>>
    BY DEF SlotKeys
  <2>2. startKey <= endKey /\ first.start < last.end
    BY <1>1, <1>3, <1>6, <1>7, <1>8, <1>9
  <2> QED
    BY <2>1, <2>2 DEF fastFPIndex, startKey, endKey, first, last
<1>11. FPInterval \in Nat
  BY SSTableAssumption
<1> QED
  BY <1>1, <1>6, <1>7, <1>8, <1>9, <1>10, <1>11, SMTT(30) DEF Extent

(* The suggested range is one, whatever is wanted.                         *)
LEMMA SuggestionType ==
  ASSUME NEW file, NEW search \in [begin : Int, end : Int], NEW wanted \in SUBSET Key
  PROVE  fastBFIndex(file, search, wanted) \in [begin : Int, end : Int]
<1> DEFINE suggest == fastBFIndex(file, search, wanted)
           C == Candidates(file, search, wanted)
<1>1. CASE C = {}
  BY <1>1 DEF fastBFIndex
<1>2. CASE C # {}
  <2>1. C \in SUBSET Int /\ \A k \in C : search.begin <= k /\ k <= search.end
    BY KeysAreInts DEF Candidates
  <2>2. search.begin \in Int /\ search.end \in Int
    OBVIOUS
  <2> HIDE DEF C
  <2>3. Min(C) \in Int /\ Max(C) \in Int
    BY <1>2, <2>1, <2>2, MinOfInts, MaxOfInts
  <2>4. suggest = [begin |-> Min(C), end |-> Max(C)]
    BY <1>2 DEF fastBFIndex, C
  <2> HIDE DEF suggest
  <2> QED
    BY <2>3, <2>4 DEF suggest
<1> QED
  BY <1>1, <1>2

(* What Collect may read of a file is in the file, and the junk behind it  *)
(* reads as keys.                                                          *)
LEMMA ReadsOnlyTheFile ==
  ASSUME NEW file \in SSTFile, NEW search \in [begin : Int, end : Int],
         NEW wanted \in SUBSET Key, NEW read \in Reads(file, search, wanted)
  PROVE  /\ \A i \in DOMAIN read.keys : \E p \in 1..Len(file) : read.keys[i] = file[p]
         /\ read.keys \in Seq(Key)
         /\ read.junk \in SUBSET Key
<1> DEFINE suggest == fastBFIndex(file, search, wanted)
<1>1. suggest \in [begin : Int, end : Int]
  BY SuggestionType
<1> HIDE DEF suggest
<1>2. PICK slots \in StringSlots :
        \E junk \in HeapReads(file, Extent(file, suggest, slots)) :
          read = [keys |-> TuplesRead(file, Extent(file, suggest, slots)), junk |-> junk]
  BY DEF Reads, suggest
<1> DEFINE extent == Extent(file, suggest, slots)
<1>3. extent \in [start : Nat, end : Int]
  BY <1>1, ExtentType
<1>4. PICK junk \in HeapReads(file, extent) :
        read = [keys |-> TuplesRead(file, extent), junk |-> junk]
  BY <1>2
<1> HIDE DEF extent
<1>5. junk \in SUBSET Key
  BY SSTableAssumption DEF HeapReads
<1> DEFINE tuples == TuplesRead(file, extent)
<1>6. /\ tuples \in Seq(Key)
      /\ \A i \in 1..Len(tuples) : \E p \in 1..Len(file) : tuples[i] = file[p]
  BY <1>3, FileFacts, ReadsAreStored
<1>7. read = [keys |-> tuples, junk |-> junk]
  BY <1>4
<1> HIDE DEF tuples
<1> QED
  BY <1>5, <1>6, <1>7, SMTT(30)

(* It always reads a wanted key that is in the file and the search range,  *)
(* when one filter covers the file and the strings it uses as keys are as  *)
(* they were written.                                                      *)
LEMMA ReadsWanted ==
  ASSUME NEW file \in SSTFile, Len(file) <= BFNumTuples, StringSlots = {"own"},
         NEW search \in [begin : Int, end : Int], NEW wanted \in SUBSET Key,
         NEW p \in 1..Len(file), file[p] \in wanted,
         search.begin <= file[p], file[p] <= search.end
  PROVE  /\ Reads(file, search, wanted) # {}
         /\ \A read \in Reads(file, search, wanted) :
              \E i \in DOMAIN read.keys : read.keys[i] = file[p]
<1> DEFINE suggest == fastBFIndex(file, search, wanted)
           extent == Extent(file, suggest, "own")
           tuples == TuplesRead(file, extent)
<1>1. /\ suggest \in [begin : Int, end : Int]
      /\ suggest.begin <= file[p] /\ file[p] <= suggest.end
      /\ Query(BloomFilters(file)[1], suggest.begin)
      /\ Query(BloomFilters(file)[1], suggest.end)
  BY SuggestionContains
<1> HIDE DEF suggest
<1>2. /\ extent \in [start : Nat, end : Int]
      /\ extent.start < p /\ p <= extent.end
  BY <1>1, ExtentContains
<1>3. ReadsFile(suggest)
  <2>1. file[p] \in Int
    BY FileFacts
  <2> QED
    BY <1>1, <2>1 DEF ReadsFile
<1> HIDE DEF extent
<1>4. /\ \E i \in 1..Len(tuples) : tuples[i] = file[p]
      /\ tuples \in Seq(Key)
  BY <1>2, FileFacts, ReadsAreStored
<1>5. Reads(file, search, wanted) =
        {[keys |-> tuples, junk |-> junk] : junk \in HeapReads(file, extent)}
  BY <1>3 DEF Reads, suggest, extent
<1>6. {} \in HeapReads(file, extent)
  <2>1. Cardinality({}) = 0
    BY FS_EmptySet
  <2>2. extent.end \in Int /\ extent.start \in Nat /\ Len(file) \in Nat
    BY <1>2, FileFacts
  <2>3. 0 <= Greatest(0, extent.end - Greatest(extent.start, Len(file)))
    BY <2>2 DEF Greatest
  <2> QED
    BY <2>1, <2>3 DEF HeapReads, Unwritten
<1> HIDE DEF tuples
<1>7. \E i \in DOMAIN tuples : tuples[i] = file[p]
  BY <1>4
<1>8. \A read \in Reads(file, search, wanted) : read.keys = tuples
  BY <1>5
<1>9. Reads(file, search, wanted) # {}
  BY <1>5, <1>6
<1>10. \A read \in Reads(file, search, wanted) :
         \E i \in DOMAIN read.keys : read.keys[i] = file[p]
  BY <1>7, <1>8, Zenon
<1> QED
  BY <1>9, <1>10

-----------------------------------------------------------------------------
(* Run::Run cuts without a gap, and no file it makes is empty or too long. *)
LEMMA FilesCut ==
  ASSUME NEW T, NEW tuples \in Seq(T), NEW i \in 1..files_to_be_created(Len(tuples))
  PROVE  /\ files_to_be_created(Len(tuples)) \in Nat
         /\ max_tuples_per_file \in Nat \ {0}
         /\ (i - 1) * max_tuples_per_file \in Nat
         /\ Least(i * max_tuples_per_file, Len(tuples)) \in 1..Len(tuples)
         /\ (i - 1) * max_tuples_per_file < Least(i * max_tuples_per_file, Len(tuples))
         /\ Files(tuples)[i] = SubSeq(tuples, (i - 1) * max_tuples_per_file + 1,
                                      Least(i * max_tuples_per_file, Len(tuples)))
         /\ Len(Files(tuples)[i]) =
              Least(i * max_tuples_per_file, Len(tuples)) - (i - 1) * max_tuples_per_file
         /\ Len(Files(tuples)[i]) \in 1..max_tuples_per_file
<1> DEFINE n == Len(tuples)
           max == max_tuples_per_file
           F == files_to_be_created(n)
           lo == (i - 1) * max
           hi == Least(i * max, n)
<1>1. n \in Nat /\ SSTSize \in Nat \ {0} /\ TupleSize \in Nat \ {0} /\ TupleSize <= SSTSize
  BY SSTableAssumption
<1>2. max \in Nat \ {0} /\ max * TupleSize <= SSTSize
  BY <1>1 DEF max_tuples_per_file
<1>3. F \in Nat /\ (F - 1) * SSTSize < n * TupleSize
  <2>1. n * TupleSize \in Nat
    BY <1>1
  <2> QED
    BY <1>1, <2>1, PiecesBounds DEF files_to_be_created
<1>4. i \in 1..F
  OBVIOUS
<1> HIDE DEF max, F
<1>5. lo \in Nat /\ i * max = lo + max
  BY <1>2, <1>3, <1>4
<1>6. lo < n
  <2>1. (i - 1) * SSTSize <= (F - 1) * SSTSize
    BY <1>1, <1>3, <1>4
  <2>2. (i - 1) * (max * TupleSize) <= (i - 1) * SSTSize
    BY <1>1, <1>2, <1>3, <1>4
  <2>3. lo * TupleSize = (i - 1) * (max * TupleSize)
    BY <1>1, <1>2, <1>3, <1>4
  <2>4. lo * TupleSize < n * TupleSize
    BY <1>1, <1>2, <1>3, <1>4, <1>5, <2>1, <2>2, <2>3
  <2> HIDE DEF lo
  <2> QED
    BY <1>1, <1>5, <2>4
<1>7. hi \in 1..n /\ lo < hi /\ hi - lo <= max
  BY <1>1, <1>2, <1>5, <1>6 DEF Least
<1>8. Files(tuples)[i] = SubSeq(tuples, lo + 1, hi)
  BY <1>4 DEF Files, Piece, max, F
<1> HIDE DEF lo, hi
<1>9. Len(SubSeq(tuples, lo + 1, hi)) = hi - lo
  BY <1>1, <1>5, <1>7
<1>10. hi - lo \in 1..max
  BY <1>2, <1>5, <1>7
<1> QED
  BY <1>2, <1>3, <1>5, <1>7, <1>8, <1>9, <1>10 DEF lo, hi, max, F

(* The place in a run of the i-th tuple of its f-th file.                  *)
Place(f, i) == (f - 1) * max_tuples_per_file + i

(* The files of a run hold its tuples in their order.                      *)
LEMMA FilesInOrder ==
  ASSUME NEW T, NEW tuples \in Seq(T)
  PROVE  /\ files_to_be_created(Len(tuples)) \in Nat
         /\ Files(tuples) \in Seq(Seq(T))
         /\ Len(Files(tuples)) = files_to_be_created(Len(tuples))
         /\ DOMAIN Files(tuples) = 1..files_to_be_created(Len(tuples))
         /\ \A f \in 1..files_to_be_created(Len(tuples)) :
              /\ Len(Files(tuples)[f]) \in 1..max_tuples_per_file
              /\ \A i \in 1..Len(Files(tuples)[f]) :
                   /\ Place(f, i) \in 1..Len(tuples)
                   /\ Files(tuples)[f][i] = tuples[Place(f, i)]
         /\ \A f, g \in 1..files_to_be_created(Len(tuples)) :
              \A i \in 1..Len(Files(tuples)[f]), j \in 1..Len(Files(tuples)[g]) :
                f < g \/ (f = g /\ i < j) => Place(f, i) < Place(g, j)
<1> DEFINE n == Len(tuples)
           max == max_tuples_per_file
           F == files_to_be_created(n)
           files == Files(tuples)
<1>1. n \in Nat /\ F \in Nat
  <2>1. n \in Nat /\ n * TupleSize \in Nat /\ SSTSize \in Nat \ {0}
    BY SSTableAssumption
  <2> QED
    BY <2>1, PiecesBounds DEF files_to_be_created
<1>2. files = [f \in 1..F |-> files[f]]
  BY DEF Files
<1>3. ASSUME NEW f \in 1..F
      PROVE  /\ files[f] \in Seq(T)
             /\ Len(files[f]) \in 1..max
             /\ max \in Nat \ {0}
             /\ \A i \in 1..Len(files[f]) :
                  /\ Place(f, i) \in 1..n
                  /\ files[f][i] = tuples[Place(f, i)]
  <2> DEFINE lo == (f - 1) * max
             hi == Least(f * max, n)
             file == files[f]
  <2>1. /\ lo \in Nat /\ hi \in 1..n /\ lo < hi /\ max \in Nat \ {0}
        /\ file = SubSeq(tuples, lo + 1, hi)
        /\ Len(file) = hi - lo /\ Len(file) \in 1..max
    BY <1>3, FilesCut
  <2>2. \A i : Place(f, i) = lo + i
    BY DEF Place
  <2> HIDE DEF lo, hi, file, max, n
  <2>3. \A i \in 1..n : tuples[i] \in T
    BY DEF n
  <2>4. \A i \in lo + 1..hi : i \in 1..n
    BY <1>1, <2>1
  <2>5. /\ SubSeq(tuples, lo + 1, hi) \in Seq(T)
        /\ \A i \in 1..hi - (lo + 1) + 1 : SubSeq(tuples, lo + 1, hi)[i] = tuples[lo + 1 + i - 1]
    <3>1. \A i \in lo + 1..hi : tuples[i] \in T
      BY <2>3, <2>4
    <3>2. lo + 1 \in Int /\ hi \in Int
      BY <1>1, <2>1
    <3> QED
      BY <3>1, <3>2, SubSeqProperties
  <2>6. ASSUME NEW i \in 1..hi - lo
        PROVE  i \in 1..hi - (lo + 1) + 1 /\ lo + 1 + i - 1 = lo + i /\ lo + i \in 1..n
    BY <1>1, <2>1
  <2>7. \A i \in 1..Len(file) : lo + i \in 1..n /\ file[i] = tuples[lo + i]
    BY <2>1, <2>5, <2>6
  <2> QED
    BY <2>1, <2>2, <2>5, <2>7 DEF file
<1> HIDE DEF n, F, files, max
<1>4. files \in Seq(Seq(T)) /\ Len(files) = F /\ DOMAIN files = 1..F
  <2>1. \A f \in 1..F : files[f] \in Seq(T)
    BY <1>3
  <2> DEFINE S == Seq(T)
  <2> HIDE DEF S
  <2>2. \A f \in 1..F : files[f] \in S
    BY <2>1 DEF S
  <2>3. files \in [1..F -> S] /\ DOMAIN files = 1..F
    BY <1>2, <2>2
  <2>4. files \in Seq(S) /\ Len(files) = F
    BY <1>1, <2>3
  <2> QED
    BY <2>3, <2>4 DEF S
<1>5. ASSUME NEW f \in 1..F, NEW g \in 1..F,
             NEW i \in 1..Len(files[f]), NEW j \in 1..Len(files[g]),
             f < g \/ (f = g /\ i < j)
      PROVE  Place(f, i) < Place(g, j)
  <2>1. i \in 1..max /\ j \in 1..max /\ max \in Nat \ {0}
    BY <1>3
  <2>2. CASE f < g
    <3>1. f * max <= (g - 1) * max /\ (f - 1) * max = f * max - max
      BY <1>1, <2>1, <2>2
    <3>2. f * max \in Int /\ (g - 1) * max \in Int
      BY <1>1, <2>1
    <3> QED
      BY <2>1, <3>1, <3>2 DEF Place, max
  <2>3. CASE f = g /\ i < j
    <3>1. (f - 1) * max \in Int
      BY <1>1, <2>1
    <3> QED
      BY <2>1, <2>3, <3>1 DEF Place, max
  <2> QED
    BY <1>5, <2>2, <2>3
<1> QED
  BY <1>1, <1>3, <1>4, <1>5 DEF n, F, files, max

(* If the tuple size divides that of a file they hold all of them.         *)
LEMMA FilesHoldAll ==
  ASSUME SSTSize = max_tuples_per_file * TupleSize,
         NEW T, NEW tuples \in Seq(T), NEW p \in 1..Len(tuples)
  PROVE  \E f \in 1..files_to_be_created(Len(tuples)) :
           \E i \in 1..Len(Files(tuples)[f]) : Files(tuples)[f][i] = tuples[p]
<1> DEFINE n == Len(tuples)
           max == max_tuples_per_file
           F == files_to_be_created(n)
           f == (p - 1) \div max + 1
           i == p - (f - 1) * max
<1>1. /\ n \in Nat /\ p \in 1..n /\ SSTSize \in Nat \ {0} /\ TupleSize \in Nat \ {0}
      /\ TupleSize <= SSTSize
  BY SSTableAssumption
<1>2. max \in Nat \ {0}
  BY <1>1 DEF max_tuples_per_file
<1>3. F \in Nat /\ n * TupleSize <= F * SSTSize
  <2>1. n * TupleSize \in Nat
    BY <1>1
  <2> QED
    BY <1>1, <2>1, PiecesBounds DEF files_to_be_created
<1>4. SSTSize = max * TupleSize
  OBVIOUS
<1> HIDE DEF n, max, F
<1>5. n <= F * max
  <2>1. F * SSTSize = (F * max) * TupleSize
    BY <1>1, <1>2, <1>3, <1>4
  <2>2. F * max \in Nat
    BY <1>2, <1>3
  <2>3. n * TupleSize <= (F * max) * TupleSize
    BY <1>3, <2>1
  <2> DEFINE m == F * max
  <2> HIDE DEF m
  <2>4. m \in Nat /\ n * TupleSize <= m * TupleSize
    BY <2>2, <2>3 DEF m
  <2>5. n <= m
    BY <1>1, <2>4
  <2> QED
    BY <2>5 DEF m
<1>6. (f - 1) * max <= p - 1 /\ p - 1 < (f - 1) * max + max /\ f \in Nat \ {0}
  BY <1>1, <1>2
<1> HIDE DEF f
<1>7. f \in 1..F
  <2>1. (f - 1) * max < F * max
    BY <1>1, <1>2, <1>3, <1>5, <1>6
  <2>2. f - 1 < F
    BY <1>2, <1>3, <1>6, <2>1
  <2> QED
    BY <1>3, <1>6, <2>2
<1>8. i \in 1..max
  <2>1. (f - 1) * max \in Int
    BY <1>2, <1>6
  <2> QED
    BY <1>1, <1>2, <1>6, <2>1
<1>9. /\ Len(Files(tuples)[f]) = Least(f * max, n) - (f - 1) * max
      /\ \A k \in 1..Len(Files(tuples)[f]) : Files(tuples)[f][k] = tuples[Place(f, k)]
  BY <1>7, FilesCut, FilesInOrder, ZenonT(30) DEF n, max, F
<1>10. Place(f, i) = p
  <2>1. (f - 1) * max \in Int
    BY <1>2, <1>6
  <2> QED
    BY <1>1, <2>1 DEF Place, max
<1>11. i \in 1..Least(f * max, n) - (f - 1) * max
  <2>1. f * max = (f - 1) * max + max /\ (f - 1) * max \in Int
    BY <1>2, <1>6
  <2> QED
    BY <1>1, <1>2, <1>8, <2>1 DEF Least
<1> HIDE DEF i
<1> QED
  BY <1>7, <1>9, <1>10, <1>11 DEF F, n

(* The files of an ascending run are files as a scan takes them to be.     *)
LEMMA FilesOfRun ==
  ASSUME NEW run \in SSTFile
  PROVE  /\ Files(run) \in Seq(SSTFile) \ {<<>>}
         /\ \A i \in 1..Len(Files(run)) : Len(Files(run)[i]) <= max_tuples_per_file
<1> DEFINE F == files_to_be_created(Len(run))
<1>1. run \in Seq(Key) /\ \A p, q \in 1..Len(run) : p < q => run[p] < run[q]
  BY FileFacts
<1>2. Files(run) = [i \in 1..F |-> Files(run)[i]] /\ DOMAIN Files(run) = 1..F
  BY DEF Files
<1>3. F \in Nat \ {0}
  <2>1. Len(run) * TupleSize \in Nat \ {0} /\ SSTSize \in Nat \ {0}
    BY FileFacts, SSTableAssumption
  <2>2. F \in Nat /\ Len(run) * TupleSize <= F * SSTSize
    BY <2>1, PiecesBounds DEF files_to_be_created
  <2> QED
    BY <2>1, <2>2
<1>4. ASSUME NEW i \in 1..F
      PROVE  Files(run)[i] \in SSTFile /\ Len(Files(run)[i]) <= max_tuples_per_file
  <2> DEFINE lo == (i - 1) * max_tuples_per_file
             hi == Least(i * max_tuples_per_file, Len(run))
             file == Files(run)[i]
  <2>1. /\ lo \in Nat /\ hi \in 1..Len(run) /\ lo < hi
        /\ file = SubSeq(run, lo + 1, hi)
        /\ Len(file) = hi - lo /\ Len(file) \in 1..max_tuples_per_file
        /\ max_tuples_per_file \in Nat
    BY <1>1, <1>4, FilesCut
  <2> HIDE DEF lo, hi, file
  <2>2. /\ file \in Seq(Key) /\ file # <<>> /\ DOMAIN file = 1..hi - lo
        /\ \A p \in 1..hi - lo : file[p] = run[lo + p]
    BY <1>1, <2>1
  <2>3. ASSUME NEW p \in DOMAIN file, NEW q \in DOMAIN file, p < q
        PROVE  file[p] < file[q]
    <3>1. /\ p \in 1..hi - lo /\ q \in 1..hi - lo
          /\ file[p] = run[lo + p] /\ file[q] = run[lo + q]
      BY <2>2, <2>3
    <3>2. lo + p \in 1..Len(run) /\ lo + q \in 1..Len(run) /\ lo + p < lo + q
      BY <2>1, <2>3, <3>1, SMTT(30)
    <3>3. run[lo + p] < run[lo + q]
      BY <1>1, <3>2
    <3> QED
      BY <3>1, <3>3
  <2>4. file \in SSTFile
    BY <2>2, <2>3 DEF SSTFile
  <2>5. Len(file) <= max_tuples_per_file
    BY <2>1
  <2> QED
    BY <2>4, <2>5 DEF file
<1> DEFINE files == Files(run)
<1>5. files = [i \in 1..F |-> files[i]]
  BY <1>2
<1> HIDE DEF F, files
<1>6. files \in Seq(SSTFile) /\ Len(files) = F
  BY <1>3, <1>4, <1>5 DEF files
<1>7. files # <<>>
  BY <1>3, <1>6
<1> QED
  BY <1>4, <1>6, <1>7 DEF files

(* A set of ints can be written as an ascending sequence.                  *)
LEMMA AscendingExists ==
  ASSUME NEW low \in Int, NEW high \in Int, NEW keys \in SUBSET (low..high)
  PROVE  /\ IsFiniteSet(keys)
         /\ Cardinality(keys) \in Nat
         /\ \E s \in [1..Cardinality(keys) -> keys] :
              \A i, j \in DOMAIN s : i < j => s[i] < s[j]
<1> DEFINE Sorts(S) == \E s \in [1..Cardinality(S) -> S] :
                         \A i, j \in DOMAIN s : i < j => s[i] < s[j]
           Sorted == {n \in Nat : \A S \in SUBSET (low..high) :
                                    Cardinality(S) = n => Sorts(S)}
<1>1. \A S \in SUBSET (low..high) : IsFiniteSet(S) /\ Cardinality(S) \in Nat
  BY FS_Interval, FS_Subset, FS_CardinalityType
<1>2. 0 \in Sorted
  <2> SUFFICES ASSUME NEW S \in SUBSET (low..high), Cardinality(S) = 0 PROVE Sorts(S)
    OBVIOUS
  <2>1. [i \in 1..0 |-> 0] \in [1..Cardinality(S) -> S]
    OBVIOUS
  <2>2. DOMAIN [i \in 1..0 |-> 0] = {}
    OBVIOUS
  <2> QED
    BY <2>1, <2>2
<1>3. ASSUME NEW n \in Nat, n \in Sorted PROVE n + 1 \in Sorted
  <2> SUFFICES ASSUME NEW S \in SUBSET (low..high), Cardinality(S) = n + 1 PROVE Sorts(S)
    OBVIOUS
  <2>1. S # {} /\ IsFiniteSet(S)
    BY <1>1, FS_EmptySet
  <2> DEFINE m == Max(S)
  <2>2. m \in S /\ \A y \in S : y <= m
    <3>1. S \in SUBSET Int /\ \A y \in S : y <= high
      OBVIOUS
    <3> QED
      BY <2>1, <3>1, MaxOfInts
  <2> HIDE DEF m
  <2>3. Cardinality(S \ {m}) = n
    BY <2>1, <2>2, FS_RemoveElement
  <2>4. PICK s \in [1..n -> S \ {m}] : \A i, j \in 1..n : i < j => s[i] < s[j]
    <3>1. S \ {m} \in SUBSET (low..high)
      OBVIOUS
    <3>2. Sorts(S \ {m})
      BY <1>3, <2>3, <3>1
    <3>3. PICK s \in [1..n -> S \ {m}] : \A i, j \in DOMAIN s : i < j => s[i] < s[j]
      BY <2>3, <3>2
    <3> QED
      BY <3>3
  <2> DEFINE t == [i \in 1..n + 1 |-> IF i = n + 1 THEN m ELSE s[i]]
  <2>5. ASSUME NEW i \in 1..n PROVE t[i] = s[i] /\ s[i] \in S /\ s[i] < m
    <3>1. s[i] \in S /\ s[i] # m
      BY <2>4
    <3> DEFINE x == s[i]
    <3> HIDE DEF x
    <3>2. x \in S /\ x # m
      BY <3>1 DEF x
    <3>3. x \in Int /\ m \in Int /\ x <= m
      BY <2>2, <3>2
    <3>4. x < m
      BY <3>2, <3>3
    <3> QED
      BY <3>2, <3>4 DEF x
  <2>6. t[n + 1] = m /\ DOMAIN t = 1..n + 1
    OBVIOUS
  <2>7. t \in [1..n + 1 -> S]
    BY <2>2, <2>5
  <2> HIDE DEF t
  <2>8. \A i, j \in 1..n + 1 : i < j => t[i] < t[j]
    <3> SUFFICES ASSUME NEW i \in 1..n + 1, NEW j \in 1..n + 1, i < j PROVE t[i] < t[j]
      OBVIOUS
    <3>1. i \in 1..n /\ (j \in 1..n \/ j = n + 1)
      OBVIOUS
    <3> QED
      BY <2>4, <2>5, <2>6, <3>1
  <2> QED
    BY <2>6, <2>7, <2>8
<1> HIDE DEF Sorted
<1>4. Nat \subseteq Sorted
  BY <1>2, <1>3, InductionOnNats
<1>5. Cardinality(keys) \in Sorted
  BY <1>1, <1>4
<1> QED
  BY <1>1, <1>5 DEF Sorted
=============================================================================
