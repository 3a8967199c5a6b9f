----------------------------- MODULE TupleCodec -----------------------------
(***************************************************************************)
(* How a value travels to a .sst file and back (src/src/Tuple.cpp).        *)
(*                                                                         *)
(* In memory a value is a vector of ints of any length.  On disk a tuple   *)
(* is a slot of fixed size: the key, then MAX_TUPLE_VALUES_CNTS words.     *)
(* The word TERMINATION (INT_MIN) does two jobs: as the first item of a    *)
(* value it is the delete marker, in a slot it ends the items.             *)
(* The key travels unchanged and is left out here.                         *)
(***************************************************************************)
EXTENDS Naturals, Sequences, FiniteSetsExt

CONSTANTS MAX_TUPLE_VALUES_CNTS,  \* words of a slot after the key
          Word,                   \* what an int can hold
          TERMINATION,            \* the word that ends the items of a slot
          Zero                    \* the word a fresh slot is filled with

ASSUME CodecAssumption ==
  /\ MAX_TUPLE_VALUES_CNTS \in Nat \ {0, 1}
  /\ {TERMINATION, Zero} \subseteq Word
  /\ TERMINATION # Zero

Slot == [1..MAX_TUPLE_VALUES_CNTS -> Word]

(* A mutant: the marker is an ordinary word.                               *)
DelMarkerZero == <<Zero>>

(* The value LSM_T::Delete inserts, and the test the reads apply to it.    *)
DelMarker == <<TERMINATION>>

IsDelMarker(items) == Len(items) > 0 /\ items[1] = TERMINATION

(* Tuple::AppendBin2Vec: copy what fits into zeroed words; the marker goes *)
(* after the items only if one more word is free after the marker itself.  *)
AppendBin2Vec(items) ==
  LET num2copy == Min({Len(items), MAX_TUPLE_VALUES_CNTS})
  IN  [j \in 1..MAX_TUPLE_VALUES_CNTS |->
         IF j <= num2copy THEN items[j]
         ELSE IF j = num2copy + 1 /\ num2copy + 1 < MAX_TUPLE_VALUES_CNTS
              THEN TERMINATION
              ELSE Zero]

(* Tuple::Read2Tuple: the words before the first TERMINATION, else all.    *)
Read2Tuple(slot) ==
  LET stops == {j \in 1..MAX_TUPLE_VALUES_CNTS : slot[j] = TERMINATION}
  IN  IF stops = {} THEN slot ELSE SubSeq(slot, 1, Min(stops) - 1)

(* What a value has become once it was flushed and read again.             *)
Stored(items) == Read2Tuple(AppendBin2Vec(items))

(* A value the flush preserves.                                            *)
RoundTrips(items) == Stored(items) = items
=============================================================================
