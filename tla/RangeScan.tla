----------------------------- MODULE RangeScan -----------------------------
(***************************************************************************)
(* One range scan of the tree, step by step: LSM_T::Search asks the buffer *)
(* and then, newest first, every run of every level, file after file, and  *)
(* stops as soon as all asked keys are found.  checkbits (here the domain  *)
(* of ret) says which keys are found, and the search range shrinks to the  *)
(* first and the last key that are not.  DB::get is the scan of one key.   *)
(*                                                                         *)
(* The levels are given as one sequence of their runs, newest first, the   *)
(* order in which Level::Scan and LSM_T::Search visit them.  Of a tuple    *)
(* the model keeps the key and where it was found.                         *)
(***************************************************************************)
EXTENDS SSTable

CONSTANTS MaxBuffer,     \* bound of the model: tuples in the buffer
          MaxRunsScanned \* bound of the model: runs in the tree

ASSUME ScanAssumption == {MaxBuffer, MaxRunsScanned} \subseteq Nat

VARIABLES buffer,        \* keys of the buffered tuples, oldest first
          runs,          \* the runs, newest first, each a sequence of files
          asked,         \* userAskedRange
          search,        \* searchRange
          ret,           \* where each found key was found
          at             \* what is scanned next

tree == <<buffer, runs, asked>>
vars == <<buffer, runs, asked, search, ret, at>>

Done == [source |-> "done"]
AtBuffer == [source |-> "buffer"]
AtRun(r) == IF r <= Len(runs) THEN [source |-> "file", run |-> r, file |-> 1] ELSE Done
AtFile(r, f) == IF f <= Len(runs[r]) THEN [source |-> "file", run |-> r, file |-> f]
                                     ELSE [source |-> "end", run |-> r]

Asked == Within(asked)
Holes == Asked \ DOMAIN ret

(* Where a tuple was found: in the buffer, in a file of a run, or, junk,   *)
(* in the unwritten memory behind that file.                               *)
InBuffer == [run |-> 0, file |-> 0, junk |-> FALSE]
InFile(r, f) == [run |-> r, file |-> f, junk |-> FALSE]
Behind(r, f) == [run |-> r, file |-> f, junk |-> TRUE]

(* A mutant: the range is not checked.                                     *)
CollectedUnasked(found, keys, place) ==
  [k \in DOMAIN found \cup keys |-> IF k \in DOMAIN found THEN found[k] ELSE place]

(* A mutant: checkbits is not checked.                                     *)
CollectedAnyway(found, keys, place) ==
  [k \in DOMAIN found \cup (keys \cap Asked) |-> IF k \in keys THEN place ELSE found[k]]

(* ret[i] = tuple; checkbits[i] = true: only where checkbits is not set.   *)
Collected(found, keys, place) ==
  [k \in DOMAIN found \cup (keys \cap Asked) |->
     IF k \in DOMAIN found THEN found[k] ELSE place]

-----------------------------------------------------------------------------
KeysIn(tuples) == {tuples[i] : i \in 1..Len(tuples)}

BufferKeys == KeysIn(buffer)

(* Buffer::Scan.  It counts the keys it finds; as many as were asked means *)
(* finished.                                                               *)
ScanBuffer ==
  /\ at = AtBuffer
  /\ ret' = Collected(ret, BufferKeys, InBuffer)
  /\ IF Cardinality(DOMAIN ret') = Cardinality(Asked)
     THEN /\ at' = Done
          /\ UNCHANGED search
     ELSE /\ at' = AtRun(1)
          /\ search' = ShrinkSearchRange(asked, DOMAIN ret')
  /\ UNCHANGED tree

(* FileMetaData::Collect on the next file of a run.                        *)
CollectFile ==
  /\ at.source = "file"
  /\ LET reads == Reads(runs[at.run][at.file], search, Holes)
     IN  IF reads = {}
         THEN UNCHANGED ret
         ELSE \E read \in reads :
                ret' = Collected(Collected(ret, KeysIn(read.keys), InFile(at.run, at.file)),
                                 read.junk, Behind(at.run, at.file))
  /\ at' = AtFile(at.run, at.file + 1)
  /\ UNCHANGED <<tree, search>>

(* Two mutants: the scan goes on whatever was found, or asks a run again.  *)
FinishRunAgain ==
  /\ at.source = "end"
  /\ search' = ShrinkSearchRange(asked, DOMAIN ret)
  /\ at' = IF search'.begin > search'.end THEN Done ELSE AtRun(at.run)
  /\ UNCHANGED <<tree, ret>>

FinishRunRegardless ==
  /\ at.source = "end"
  /\ search' = ShrinkSearchRange(asked, DOMAIN ret)
  /\ at' = AtRun(at.run + 1)
  /\ UNCHANGED <<tree, ret>>

(* The end of Run::Scan: shrink, and stop if nothing is left to look for.  *)
FinishRun ==
  /\ at.source = "end"
  /\ search' = ShrinkSearchRange(asked, DOMAIN ret)
  /\ at' = IF search'.begin > search'.end THEN Done ELSE AtRun(at.run + 1)
  /\ UNCHANGED <<tree, ret>>

-----------------------------------------------------------------------------
(* The ascending sequence of a set of keys, as Level::_Sort leaves a run.  *)
Ascending(keys) ==
  CHOOSE s \in [1..Cardinality(keys) -> keys] :
    \A i, j \in DOMAIN s : i < j => s[i] < s[j]

RunsOfKeys == {Files(Ascending(keys)) : keys \in (SUBSET Key) \ {{}}}

(* LSM_T::Search makes a vector of end - start + 1 buckets, an int.        *)
Askable(range) == range.begin <= range.end /\ range.end - range.begin + 1 <= IntMax

Init ==
  /\ buffer \in UNION {[1..n -> Key] : n \in 0..MaxBuffer}
  /\ runs \in UNION {[1..n -> RunsOfKeys] : n \in 0..MaxRunsScanned}
  /\ asked \in {range \in [begin : Key, end : Key] : Askable(range)}
  /\ search = asked
  /\ ret = [k \in {} |-> 0]
  /\ at = AtBuffer

Next == ScanBuffer \/ CollectFile \/ FinishRun

Spec == Init /\ [][Next]_vars

(* Nothing a scan does waits: it goes on as long as its thread runs, which *)
(* is to say that the position of its loops advances.  Every step moves    *)
(* `at', and one is possible until the end: this is weak fairness of Next. *)
Following == CASE at.source = "buffer" -> {AtRun(1), Done}
               [] at.source = "file"   -> {AtFile(at.run, at.file + 1)}
               [] at.source = "end"    -> {AtRun(at.run + 1), Done}
               [] at.source = "done"   -> {}

Advance == at' \in Following

FairSpec == Spec /\ WF_at(Advance)

-----------------------------------------------------------------------------
(***************************************************************************)
(* Properties.                                                             *)
(***************************************************************************)

RunKeys(r) == UNION {KeysIn(runs[r][f]) : f \in 1..Len(runs[r])}

SourceKeys(r) == IF r = 0 THEN BufferKeys ELSE RunKeys(r)

(* Of the sources that hold a key the newest.                              *)
Newest(k) == Min({r \in 0..Len(runs) : k \in SourceKeys(r)})

Held == {k \in Asked : \E r \in 0..Len(runs) : k \in SourceKeys(r)}

(* What was found is what was asked, and comes from a source there is.     *)
TypeOK ==
  /\ DOMAIN ret \subseteq Asked
  /\ \A k \in DOMAIN ret : ret[k] \in [run : 0..Len(runs), file : Nat, junk : BOOLEAN]
  /\ \/ at \in {Done, AtBuffer}
     \/ at.source \in {"file", "end"} /\ at.run \in 1..Len(runs)
  /\ at.source = "file" => at.file \in 1..Len(runs[at.run])

(* A key that was found in a source was found in the newest one that has   *)
(* it, so its newest value is the answer (checkbits in Buffer::Scan and    *)
(* Collect).                                                               *)
FoundIsNewest ==
  \A k \in DOMAIN ret : ~ret[k].junk => k \in Held /\ ret[k].run = Newest(k)

(* What a scan returns was stored: it was read from the buffer or from a   *)
(* file, and not from memory no file was read into (Collect).              *)
FoundWasStored == \A k \in DOMAIN ret : ~ret[k].junk

(* A key not found yet stays within the shrinking search range as long as  *)
(* files are still read: no file skips a key it was asked for.             *)
HolesInSearchRange ==
  at.source \in {"file", "end"} =>
    \A k \in Holes : search.begin <= k /\ k <= search.end

(* When a scan stops, early or at the oldest run, it has found every asked *)
(* key that is anywhere in the tree, whatever Bloom filters, fences and    *)
(* file boundaries made it skip.                                           *)
NothingMissed == at = Done => Held \subseteq DOMAIN ret

(* Leftover memory read behind a file never stands in for a tuple of a     *)
(* newer source, of that file or of one before it in the run: all those    *)
(* were asked first, and checkbits is set (Collect, Run.cpp:171-182).      *)
(* What is asked after, in a later file of the same run or in an older     *)
(* run, it does hide.                                                      *)
JunkHidesNothingNewer ==
  \A k \in DOMAIN ret :
    ret[k].junk => /\ \A r \in 0..ret[k].run - 1 : k \notin SourceKeys(r)
                   /\ \A f \in 1..ret[k].file : k \notin KeysIn(runs[ret[k].run][f])

(* A scan that has found all it was asked for asks no other run, unless    *)
(* its range touches the end of the ints: there the step past the range    *)
(* wraps and the test for an empty range fails (Args.h:115-127).           *)
StopsWhenAllFound ==
  at.source = "file" /\ at.file = 1 /\ Holes = {} =>
    asked.end = IntMax \/ asked.begin = IntMin

(* Every scan comes to its end, and then it has every asked key there is:  *)
(* no source is asked twice, none is left out (LSM_T::Search).             *)
FindsAllInTheEnd == <>(at = Done /\ Held \subseteq DOMAIN ret)
=============================================================================
