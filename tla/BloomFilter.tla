---------------------------- MODULE BloomFilter ----------------------------
(***************************************************************************)
(* Where in a Bloom filter a key has its bits (src/src/BloomFilter.cpp).   *)
(* What is done with them, program and query, is part of SSTable, for any  *)
(* assignment of bits to keys; the instances take the one computed here.   *)
(***************************************************************************)
EXTENDS Murmurhash

CONSTANTS numElement,        \* BF_NUM_TUPLES, positive
          bitsPerElement     \* BF_BITS_PER_ELEMENT, positive

(* (int) floor(0.693 * bitsPerElement + 0.5)                               *)
numIndex == (693 * bitsPerElement + 500) \div 1000

size == numElement * bitsPerElement

(* std::to_string: the decimal digits, as characters, after the sign.      *)
Character(digit) == 48 + digit

Minus == 45

RECURSIVE Digits(_)
Digits(n) == (IF n < 10 THEN <<>> ELSE Digits(n \div 10)) \o <<Character(n % 10)>>

to_string(key) == IF key < 0 THEN <<Minus>> \o Digits(-key) ELSE Digits(key)

(* h % size, from the highest bit on, as h may be beyond the integers.     *)
Modulo(h, divisor) ==
  LET remainder[b \in 0..WordSize] ==
        IF b = WordSize THEN 0
        ELSE (2 * remainder[b + 1] + IF b \in h THEN 1 ELSE 0) % divisor
  IN  remainder[0]

seed == ShiftLeft(Bits(48287), 16) \cup Bits(7476)    \* 0xbc9f1d34

(* BloomFilter::getIndex: numIndex steps of one rotated hash, modulo size. *)
getIndex(key) ==
  LET hash == MurmurHash2(to_string(key), seed)
      delta == ShiftRight(hash, 17) \cup ShiftLeft(hash, 15)
      h[i \in 0..numIndex] == IF i = 0 THEN hash ELSE Plus(h[i - 1], delta)
  IN  {Modulo(h[i], size) : i \in 0..numIndex - 1}
=============================================================================
