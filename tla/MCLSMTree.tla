------------------------------ MODULE MCLSMTree ------------------------------
(***************************************************************************)
(* Small instances of LSMTree for TLC, with values the code stores         *)
(* faithfully: the assumption is the hypothesis of the theorems of         *)
(* LSMTreeProofs.  MCLSMTreeValues has the instances with other values.    *)
(***************************************************************************)
EXTENDS LSMTree

CONSTANT INT_MIN     \* a model value for the word TERMINATION

MCWord == {0, 1, 2, INT_MIN}

(* In slots of three words: a value of all the words, as those that        *)
(* tests/basic_test.cpp puts, or one that leaves two words free, of which  *)
(* the first is for the marker that ends it.                               *)
FullValue == {<<1, 2, 0>>}
MarkedValue == {<<1>>}

(* No action reads `call', so two states that differ in it only have the   *)
(* same future: TLC keeps one of them, and checks the steps into all.      *)
Kept == <<buf, levels>>

ASSUME ClientValuesAssumption == ClientValues
=============================================================================
