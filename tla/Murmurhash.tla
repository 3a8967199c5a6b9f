----------------------------- MODULE Murmurhash -----------------------------
(***************************************************************************)
(* MurmurHash2 (src/src/Murmurhash.cpp), the hash of the Bloom filters, on *)
(* words of 32 bits.  A word is the set of its one bits, 0 the lowest: the *)
(* exclusive or is the symmetric difference, and no number here exceeds    *)
(* what TLC can count.                                                     *)
(***************************************************************************)
EXTENDS Integers, Sequences, FiniteSetsExt

WordSize == 32

Bits(n) == {b \in 0..WordSize - 2 : (n \div 2^b) % 2 = 1}

Xor(v, w) == (v \ w) \cup (w \ v)

ShiftLeft(w, n) == {b + n : b \in w} \cap 0..WordSize - 1

ShiftRight(w, n) == {b - n : b \in w} \cap 0..WordSize - 1

(* Sum and product modulo 2^32, as unsigned ints have them.                *)
RECURSIVE Plus(_, _)
Plus(v, w) == IF w = {} THEN v ELSE Plus(Xor(v, w), ShiftLeft(v \cap w, 1))

Times(v, w) ==
  LET addShifted(b, sum) == Plus(ShiftLeft(v, b), sum)
  IN  FoldSet(addShifted, {}, w)

m == Bits(1540483477)    \* 0x5bd1e995
r == 24

(* The word at four bytes, the first one lowest (Murmurhash.cpp:21), and   *)
(* the one to three bytes of a tail in the same order.                     *)
Load(bytes) == UNION {ShiftLeft(Bits(bytes[i]), 8 * (i - 1)) : i \in DOMAIN bytes}

(* The loop: four bytes at a time are mixed into the hash.                 *)
RECURSIVE MixBlocks(_, _)
MixBlocks(h, data) ==
  IF Len(data) < 4 THEN [h |-> h, tail |-> data]
  ELSE LET k == Times(Load(SubSeq(data, 1, 4)), m)
           mixed == Times(Xor(k, ShiftRight(k, r)), m)
       IN  MixBlocks(Xor(Times(h, m), mixed), SubSeq(data, 5, Len(data)))

(* The switch: the last few bytes, if there are any.                       *)
MixTail(h, tail) == IF tail = <<>> THEN h ELSE Times(Xor(h, Load(tail)), m)

Finish(h) ==
  LET mixed == Times(Xor(h, ShiftRight(h, 13)), m)
  IN  Xor(mixed, ShiftRight(mixed, 15))

MurmurHash2(data, seed) ==
  LET blocks == MixBlocks(Xor(seed, Bits(Len(data))), data)
  IN  Finish(MixTail(blocks.h, blocks.tail))
=============================================================================
