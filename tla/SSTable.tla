------------------------------ MODULE SSTable ------------------------------
(***************************************************************************)
(* One sorted run on disk: how it is cut into .sst files (Run::Run), the   *)
(* fence pointers and Bloom filters of a file (FileMetaData), and which    *)
(* tuples of the file a scan reads (FileMetaData::Collect).                *)
(*                                                                         *)
(* A file is the ascending sequence of its keys.  Every offset in the code *)
(* is a multiple of the tuple size, so they are counted in tuples here.    *)
(* A range is a record of its first and last key, both included.           *)
(***************************************************************************)
EXTENDS Integers, Sequences, FiniteSets, FiniteSetsExt

CONSTANTS Key,             \* the keys, an interval of ints
          IntMin, IntMax,  \* the first and the last int
          SSTSize,         \* getSSTSize(), in any unit
          TupleSize,       \* getTupleBytesSize(), in the same unit
          FPInterval,      \* FP_INTERV, tuples per fence
          BFNumTuples,     \* BF_NUM_TUPLES, tuples per Bloom filter
          Bit,             \* the positions of a Bloom filter
          Hash,            \* BloomFilter::getIndex: the positions of a key
          StringSlots,     \* how the build lays out two temporaries, see SlotKeys
          HeapKeys         \* asked keys that unwritten memory may read as, see Collect

ASSUME SSTableAssumption ==
  /\ IntMin \in Int /\ IntMax \in Int /\ IntMin < IntMax
  /\ Key \subseteq IntMin..IntMax
  /\ \A low, high \in Key : low..high \subseteq Key
  /\ {SSTSize, TupleSize, FPInterval, BFNumTuples} \subseteq Nat \ {0}
  /\ TupleSize <= SSTSize
  /\ Hash \in [Key -> SUBSET Bit]
  /\ StringSlots \subseteq {"own", "shared"} /\ StringSlots # {}
  /\ HeapKeys \subseteq Key

Least(a, b) == IF a <= b THEN a ELSE b
Greatest(a, b) == IF a >= b THEN a ELSE b

(* How many pieces of `size' it takes to hold n.                           *)
Pieces(n, size) == (n + size - 1) \div size

(* The i-th piece of `size' tuples, the last one what is left.             *)
Piece(tuples, i, size) ==
  SubSeq(tuples, (i - 1) * size + 1, Least(i * size, Len(tuples)))

(* A mutant: the file for the rest is forgotten.                           *)
FilesForWhole(n) == (n * TupleSize) \div SSTSize

(* Run::Run counts the files of a run in bytes, and what goes into each in *)
(* whole tuples.                                                           *)
files_to_be_created(n) == Pieces(n * TupleSize, SSTSize)

max_tuples_per_file == SSTSize \div TupleSize

(* A mutant: each file starts with the last tuple of the one before.       *)
FilesOverlapping(tuples) ==
  [i \in 1..files_to_be_created(Len(tuples)) |->
     SubSeq(tuples, Greatest(1, (i - 1) * max_tuples_per_file),
            Least(i * max_tuples_per_file, Len(tuples)))]

(* Run::Run: the tuples, or keys, of a run cut into those of its files.    *)
Files(tuples) ==
  [i \in 1..files_to_be_created(Len(tuples)) |-> Piece(tuples, i, max_tuples_per_file)]

-----------------------------------------------------------------------------
(* The ranges of a scan (Args.h).                                          *)

Within(range) == range.begin..range.end

(* startPoint++ and endPoint-- on ints, as far as they get.                *)
Wrap(i) == IF i > IntMax THEN IntMin ELSE IF i < IntMin THEN IntMax ELSE i

(* A mutant: counts the found keys instead of looking for the first hole.  *)
ShrinkByCount(asked, found) ==
  [begin |-> asked.begin + Cardinality(found), end |-> asked.end]

(* ShrinkSearchRange: from the first hole in the asked range to the last.  *)
(* With no hole left the range ends before it begins, unless the step past *)
(* the asked range leaves the ints.                                        *)
ShrinkSearchRange(asked, found) ==
  LET holes == Within(asked) \ found
  IN  IF holes = {} THEN [begin |-> Wrap(asked.end + 1), end |-> Wrap(asked.begin - 1)]
                    ELSE [begin |-> Min(holes), end |-> Max(holes)]

-----------------------------------------------------------------------------
(* Fence pointers (FencePointerBeta.cpp).                                  *)

(* FencePointerBeta::SetupFence.                                           *)
Fences(file) ==
  [i \in 1..Pieces(Len(file), FPInterval) |->
     LET tuples == Piece(file, i, FPInterval)
     IN  [min |-> tuples[1], max |-> tuples[Len(tuples)],
          offset |-> (i - 1) * FPInterval, count |-> Len(tuples)]]

NoOffset == [start |-> 0, end |-> -1]

(* A mutant: > for >= in the walk.                                         *)
GetOffsetBeyond(file, key) ==
  LET fences == Fences(file)
      i == 1 + Max({0} \cup {j \in DOMAIN fences : fences[j].max <= key})
  IN  IF i > Len(fences) THEN NoOffset
      ELSE [start |-> fences[i].offset, end |-> fences[i].offset + fences[i].count]

(* FencePointerBeta::GetOffset walks back over the fences whose last key   *)
(* is not below the key, and gives the tuples of the last one it passed.   *)
GetOffset(file, key) ==
  LET fences == Fences(file)
      i == 1 + Max({0} \cup {j \in DOMAIN fences : fences[j].max < key})
  IN  IF i > Len(fences) THEN NoOffset
      ELSE [start |-> fences[i].offset, end |-> fences[i].offset + fences[i].count]

-----------------------------------------------------------------------------
(* Bloom filters (BloomFilter.cpp).                                        *)

(* FileMetaData::addBloomFilters: at least one filter, even if empty; the  *)
(* bits each one has set after `program' on each of its keys.              *)
BloomFilters(file) ==
  [i \in 1..Greatest(1, Pieces(Len(file), BFNumTuples)) |->
     LET tuples == Piece(file, i, BFNumTuples)
     IN  UNION {Hash[tuples[j]] : j \in 1..Len(tuples)}]

(* BloomFilter::query.                                                     *)
Query(filter, key) == Hash[key] \subseteq filter

(* The wanted keys, those without a checkbit, that are in the search range *)
(* and may be in the file, as far as its first filter knows.               *)
Candidates(file, search, wanted) ==
  {k \in wanted : /\ search.begin <= k /\ k <= search.end
                  /\ Query(BloomFilters(file)[1], k)}

(* FileMetaData::fastBFIndex: from the first to the last candidate, and    *)
(* all of the search range when there is none.                             *)
fastBFIndex(file, search, wanted) ==
  LET candidates == Candidates(file, search, wanted)
  IN  IF candidates = {} THEN search
                         ELSE [begin |-> Min(candidates), end |-> Max(candidates)]

(* FileMetaData::getTupleOffset.                                           *)
getTupleOffset(file, key) ==
  IF \E i \in DOMAIN BloomFilters(file) : Query(BloomFilters(file)[i], key)
  THEN GetOffset(file, key)
  ELSE NoOffset

-----------------------------------------------------------------------------
(* fastFPIndex keeps pointers into two std::string temporaries that are    *)
(* dead when it uses them (Run.cpp:119-120).  A build may give each its    *)
(* own stack slot, and both still read as written, or let them share one,  *)
(* and then both read as the second key.                                   *)
SlotKeys(slots, startKey, endKey) ==
  IF slots = "own" THEN <<startKey, endKey>> ELSE <<endKey, endKey>>

(* FileMetaData::fastFPIndex: the tuples of the fences between the first   *)
(* and the last key of the suggested range that the file can hold.         *)
fastFPIndex(file, suggest, slots) ==
  LET startKey == Greatest(suggest.begin, file[1])
      endKey == Least(suggest.end, file[Len(file)])
      keys == SlotKeys(slots, startKey, endKey)
      first == getTupleOffset(file, keys[1])
      last == getTupleOffset(file, keys[2])
  IN  IF startKey <= endKey /\ first.start < last.end
      THEN [start |-> first.start, end |-> last.end]
      ELSE NoOffset

(* FileMetaData::Collect goes to the file whenever it was suggested a      *)
(* range; its test for an empty read never holds, because the -1 that      *)
(* stands for "not there" is one byte, and an interval is added to it.     *)
ReadsFile(suggest) == suggest.begin <= suggest.end

(* The tuples it then reads: those after `start' up to `end', one interval *)
(* further than the fences say, which may be beyond the end of the file.   *)
(* For a key that is not there these are the first FPInterval tuples less  *)
(* one byte, that is, less one tuple.                                      *)
Extent(file, suggest, slots) ==
  [fastFPIndex(file, suggest, slots) EXCEPT !.end = @ + FPInterval]

TuplesRead(tuples, extent) ==
  SubSeq(tuples, extent.start + 1, Least(extent.end, Len(tuples)))

(* The part of the read buffer that lies beyond the end of the file is     *)
(* never written: as tuples it may be anything the heap holds.             *)
Unwritten(tuples, extent) == Greatest(0, extent.end - Greatest(extent.start, Len(tuples)))

HeapReads(file, extent) ==
  {junk \in SUBSET HeapKeys : Cardinality(junk) <= Unwritten(file, extent)}

(* What FileMetaData::Collect may read from a file, whatever the build and *)
(* the heap make of it; nothing when it does not go to the file.           *)
Reads(file, search, wanted) ==
  LET suggest == fastBFIndex(file, search, wanted)
      ReadBy(slots) ==
        LET extent == Extent(file, suggest, slots)
        IN  {[keys |-> TuplesRead(file, extent), junk |-> junk] :
               junk \in HeapReads(file, extent)}
  IN  IF ReadsFile(suggest) THEN UNION {ReadBy(slots) : slots \in StringSlots} ELSE {}
=============================================================================
