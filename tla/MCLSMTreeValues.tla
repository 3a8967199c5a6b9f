--------------------------- MODULE MCLSMTreeValues ---------------------------
(***************************************************************************)
(* Instances of LSMTree with values ClientValues rules out.                *)
(***************************************************************************)
EXTENDS LSMTree

CONSTANT INT_MIN     \* a model value for the word TERMINATION

MCWord == {0, 1, 2, INT_MIN}

(* One word short of a slot.                                               *)
ShortValue == {<<1>>}
=============================================================================
