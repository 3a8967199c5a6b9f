----------------------------- MODULE MergeSort -----------------------------
(***************************************************************************)
(* Level::_Sort (Level.cpp:55-154): the tuples gathered for a merge, the   *)
(* newest first, are sorted by key, and of equal keys the leftmost stays.  *)
(* That the newest copy survives a merge rests on the sort being stable.   *)
(*                                                                         *)
(* The first part are the operators; the second sorts every short sequence *)
(* there is, and states what a merge needs from the result.                *)
(***************************************************************************)
EXTENDS Integers, SequencesExt

CONSTANTS Key,          \* the keys of tuples
          Items,        \* what a tuple may hold beside its key
          MaxTuples     \* bound of the model: tuples to sort

ASSUME SortAssumption == Key \subseteq Int /\ MaxTuples \in Nat

Tuple == [key : Key, items : Items]

(* merge: of two sorted halves, on a tie the tuple of the left one first.  *)
merge[halves \in Seq(Tuple) \X Seq(Tuple)] ==
  LET L == halves[1]
      R == halves[2]
  IN  IF L = <<>> THEN R
      ELSE IF R = <<>> THEN L
      ELSE IF L[1].key <= R[1].key
           THEN <<L[1]>> \o merge[<<Tail(L), R>>]
           ELSE <<R[1]>> \o merge[<<L, Tail(R)>>]

(* mergeSort: halve, with the odd element on the left, sort and merge.     *)
mergeSort[arr \in Seq(Tuple)] ==
  LET n == Len(arr)
      half == (n - 1) \div 2 + 1
  IN  IF n <= 1 THEN arr
      ELSE merge[<<mergeSort[SubSeq(arr, 1, half)], mergeSort[SubSeq(arr, half + 1, n)]>>]

(* Two mutants: nothing is dropped, or all but the rightmost.              *)
DropNothing(sorted) == sorted

DropAllButRightmost(sorted) ==
  LET keep(kept, t) == IF kept # <<>> /\ Last(kept).key = t.key
                       THEN Append(Front(kept), t) ELSE Append(kept, t)
  IN  FoldLeft(keep, <<>>, sorted)

(* The second half of _Sort: a tuple stays if its key is not the key of    *)
(* the last one that stayed.                                               *)
DropRepeated(sorted) ==
  LET kept[i \in 0..Len(sorted)] ==
        IF i = 0 THEN <<>>
        ELSE LET before == kept[i - 1]
             IN  IF before # <<>> /\ Last(before).key = sorted[i].key
                 THEN before
                 ELSE Append(before, sorted[i])
  IN  kept[Len(sorted)]

(* Level::_Sort, for at least one tuple: a flush always brings the buffer. *)
_Sort(arr) == DropRepeated(mergeSort[arr])

-----------------------------------------------------------------------------
VARIABLES tuples,       \* what Level::AddNewRun was given
          run           \* what is left of it for the new run

vars == <<tuples, run>>

Init == /\ tuples \in UNION {[1..n -> Tuple] : n \in 1..MaxTuples}
        /\ run = <<>>

AddNewRun == /\ run = <<>>
             /\ run' = _Sort(tuples)
             /\ UNCHANGED tuples

Next == AddNewRun

Spec == Init /\ [][Next]_vars

(* A run is strictly ascending: it has every key once, which Run::Scan and *)
(* the fence pointers take for granted (Run.cpp:400-402).                  *)
RunIsStrictlyAscending ==
  \A i, j \in DOMAIN run : i < j => run[i].key < run[j].key

(* The run has exactly the keys it was given, each with the leftmost of    *)
(* its copies, the newest (Level.cpp:146).                                 *)
RunKeepsLeftmost ==
  run # <<>> =>
    /\ {run[i].key : i \in DOMAIN run} = {tuples[i].key : i \in DOMAIN tuples}
    /\ \A i \in DOMAIN run : \E p \in DOMAIN tuples :
         /\ run[i] = tuples[p]
         /\ \A q \in 1..p - 1 : tuples[q].key # run[i].key
=============================================================================
