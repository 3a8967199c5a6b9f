----------------------------- MODULE MCDiskTree -----------------------------
(***************************************************************************)
(* Small instances of DiskTree for TLC: two or three of the first ints of  *)
(* 16 bits as keys, and the Bloom filters the code would build for them.   *)
(***************************************************************************)
EXTENDS DiskTree

CONSTANTS INT_MIN,          \* a model value for the word TERMINATION
          BitsPerElement    \* BF_BITS_PER_ELEMENT

MCWord == {0, 1, 2, INT_MIN}

FullValues == {<<1, 2>>}
TwoFullValues == {<<1, 2>>, <<2, 1>>}

(* What a buffer that was read into before may have left behind.           *)
OneSlot == {[key |-> -32767, slot |-> <<2, 2>>]}

MinInt16 == -32768
MaxInt16 == 32767

TwoKeys == MinInt16..MinInt16 + 1
ThreeKeys == MinInt16..MinInt16 + 2

Filter == INSTANCE BloomFilter WITH numElement <- BFNumTuples,
                                    bitsPerElement <- BitsPerElement

MCBits == 0..Filter!size - 1

(* Computed once.  The LET keeps the statistics TLC makes of a run from    *)
(* following the hash into every place where a filter is asked.            *)
Positions == [key \in Key |-> Filter!getIndex(key)]
MCHash == LET positions == Positions IN positions

(* As in MCLSMTree: no action reads `call'.                                *)
Kept == <<buf, levels, disk>>
=============================================================================
