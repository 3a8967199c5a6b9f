---------------------------- MODULE MCRangeScan ----------------------------
(***************************************************************************)
(* Small instances of RangeScan for TLC, over ints of 16 bits, with the    *)
(* Bloom filters the code would build.                                     *)
(***************************************************************************)
EXTENDS RangeScan

CONSTANT BitsPerElement     \* BF_BITS_PER_ELEMENT

Filter == INSTANCE BloomFilter WITH numElement <- BFNumTuples,
                                    bitsPerElement <- BitsPerElement

MCBits == 0..Filter!size - 1
(* Computed once.  The LET keeps the statistics TLC makes of a run from    *)
(* following the hash into every place where a filter is asked.            *)
Positions == [key \in Key |-> Filter!getIndex(key)]
MCHash == LET positions == Positions IN positions

(* What the compiled MurmurHash2 gives for some numbers, as two half words.*)
KnownHash(key, high, low) ==
  Filter!MurmurHash2(Filter!to_string(key), Filter!seed) =
    Filter!ShiftLeft(Filter!Bits(high), 16) \cup Filter!Bits(low)

ASSUME KnownHashes ==
  /\ KnownHash(1, 25163, 46790)
  /\ KnownHash(42, 61623, 14002)
  /\ KnownHash(123, 37450, 56935)
  /\ KnownHash(-1234567, 59434, 58153)
  /\ KnownHash(2147483647, 3327, 19994)

MinInt16 == -32768
MaxInt16 == 32767

(* The first keys there are, and the last.                                 *)
FirstKeys == 1..3
LastKeys == MaxInt16 - 3..MaxInt16
=============================================================================
