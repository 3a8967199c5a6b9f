------------------------------ MODULE LSMTree ------------------------------
(***************************************************************************)
(* The LSM tree of one database (src/src/LSM_T.cpp, Buffer.cpp, Level.cpp, *)
(* Database.cpp): an in-memory buffer in order of arrival, and levels of   *)
(* immutable sorted runs on disk.  A put or a delete appends to the        *)
(* buffer; a full buffer is first flushed, with every level that is due    *)
(* for merging, into one new run of the first level that is not.           *)
(*                                                                         *)
(* A run is a function from its keys to the slots stored on disk: that a   *)
(* run is sorted and has no duplicates is the business of MergeSort, how a *)
(* run is cut into files and searched that of SSTable and RangeScan.       *)
(* The program is single threaded, so a call is one step.                  *)
(***************************************************************************)
EXTENDS TupleCodec, Integers, FiniteSets

CONSTANTS Key,        \* the keys clients use
          PutValue,   \* the values clients put, sequences of words
          BufCap,     \* tuples the buffer holds, Buffer::_max_cap
          MaxRuns,    \* MAX_RUNS_BEFORE_MERGE
          MaxLevels   \* bound of the model: levels the tree may grow to

ASSUME TreeAssumption ==
  /\ Key \subseteq Int
  /\ PutValue \subseteq Seq(Word)
  /\ BufCap \in Nat \ {0}
  /\ MaxRuns \in Nat \ {0, 1}
  /\ MaxLevels \in Nat

VARIABLES buf,        \* the buffer, oldest tuple first
          levels,     \* levels[1] is level 0; each a sequence of runs, oldest first
          call        \* the last call and its answer

vars == <<buf, levels, call>>

Tuples == [key : Key, items : Seq(Word)]

Run == UNION {[keys -> Slot] : keys \in SUBSET Key}

-----------------------------------------------------------------------------
(* Where the copies of a key are.  Copies of one key may be in the buffer  *)
(* several times and in many runs; the newest is the one that counts, and  *)
(* it is the first one both in the order LSM_T::Search looks and in the    *)
(* order LSM_T::Insert gathers tuples for a merge: the buffer from its     *)
(* back, then level after level, in each the runs from the last.           *)

InBuffer(k) == {i \in 1..Len(buf) : buf[i].key = k}

InLevel(level, k) == {r \in 1..Len(level) : k \in DOMAIN level[r]}

InLevels(lvls, k) == {l \in 1..Len(lvls) : InLevel(lvls[l], k) # {}}

Holds(lvls, k) == InBuffer(k) # {} \/ InLevels(lvls, k) # {}

BufferCopy(k) == buf[Max(InBuffer(k))].items

LevelCopy(level, k) == Read2Tuple(level[Max(InLevel(level, k))][k])

(* A mutant: the levels are visited from the deepest.                      *)
DiskCopyDeepest(lvls, k) == LevelCopy(lvls[Max(InLevels(lvls, k))], k)

DiskCopy(lvls, k) == LevelCopy(lvls[Min(InLevels(lvls, k))], k)

(* The first copy of k in the buffer and then in lvls.                     *)
FirstCopy(lvls, k) == IF InBuffer(k) # {} THEN BufferCopy(k) ELSE DiskCopy(lvls, k)

-----------------------------------------------------------------------------
(* LSM_T::Search: of each asked key the first copy, unless it is a delete  *)
(* marker, which re_order drops.                                           *)

Live == {k \in Key : Holds(levels, k) /\ ~IsDelMarker(FirstCopy(levels, k))}

Found(lo, hi) ==
  [k \in {x \in Live : lo <= x /\ x <= hi} |-> FirstCopy(levels, k)]

Search(lo, hi) ==
  /\ call' = [op |-> "scan", lo |-> lo, hi |-> hi, found |-> Found(lo, hi)]
  /\ UNCHANGED <<buf, levels>>

-----------------------------------------------------------------------------
(* LSM_T::Insert.                                                          *)

(* A mutant: an off-by-one in the test.                                    *)
ReadyMergeLate(level) == MaxRuns = Len(level)

ReadyMerge(level) == MaxRuns = Len(level) + 1

(* The flush goes past the levels that are ready to merge, to the first    *)
(* that is not, or to a new one under them all.                            *)
IsTarget(t) ==
  /\ t \in 1..Len(levels) + 1
  /\ \A l \in 1..t - 1 : ReadyMerge(levels[l])
  /\ t <= Len(levels) => ~ReadyMerge(levels[t])

(* Level::AddNewRun: the gathered tuples, one per key, written to disk.    *)
NewRun(above) ==
  [k \in {x \in Key : Holds(above, x)} |-> AppendBin2Vec(FirstCopy(above, k))]

(* A mutant: the merged runs are not cleared.                              *)
FlushedUncleared(t) ==
  LET run == NewRun(SubSeq(levels, 1, t - 1))
  IN  [l \in 1..Max({Len(levels), t}) |->
         IF l # t THEN levels[l]
         ELSE IF t > Len(levels) THEN <<run>> ELSE Append(levels[t], run)]

(* The buffer and the runs of the levels above t become one run of t.      *)
Flushed(t) ==
  LET run == NewRun(SubSeq(levels, 1, t - 1))
  IN  [l \in 1..Max({Len(levels), t}) |->
         IF l < t THEN <<>>
         ELSE IF l > t THEN levels[l]
         ELSE IF t > Len(levels) THEN <<run>> ELSE Append(levels[t], run)]

AppendTuple(k, items) ==
  /\ Len(buf) < BufCap
  /\ buf' = Append(buf, [key |-> k, items |-> items])
  /\ UNCHANGED levels

FlushAndAppend(k, items) ==
  /\ Len(buf) >= BufCap
  /\ \E t \in 1..MaxLevels :
       /\ IsTarget(t)
       /\ levels' = Flushed(t)
  /\ buf' = <<[key |-> k, items |-> items]>>

Insert(k, items) == AppendTuple(k, items) \/ FlushAndAppend(k, items)

Put(k, v) == /\ call' = [op |-> "put", key |-> k, value |-> v]
             /\ Insert(k, v)

Delete(k) == /\ call' = [op |-> "del", key |-> k]
             /\ Insert(k, DelMarker)

(* The end of a tree, by ~LSM_T or with its process, and a new LSM_T: an   *)
(* empty buffer and no level, whatever files there are.                    *)
Reopen == /\ call' = [op |-> "open"]
          /\ buf' = <<>>
          /\ levels' = <<>>

-----------------------------------------------------------------------------
Init == /\ buf = <<>>
        /\ levels = <<>>
        /\ call = [op |-> "none"]

Next == \/ \E k \in Key, v \in PutValue : Put(k, v)
        \/ \E k \in Key : Delete(k)
        \/ \E lo, hi \in Key : lo <= hi /\ Search(lo, hi)
        \/ Reopen

Spec == Init /\ [][Next]_vars

(* The tree without what its searches answer: a search changes nothing,    *)
(* but may return anything.                                                *)
SearchAnyhow == call'.op = "scan" /\ UNCHANGED <<buf, levels>>

StorageSpec == Init /\ [][SearchAnyhow \/ Next]_vars

-----------------------------------------------------------------------------
(***************************************************************************)
(* Properties.                                                             *)
(***************************************************************************)

(* The buffer never outgrows its capacity (Buffer::Append), every run is a *)
(* function from keys to whole slots, and a level is merged away before it *)
(* holds MaxRuns runs (Level::ReadyMerge, LSM_T::Insert).                  *)
TypeOK ==
  /\ buf \in Seq(Tuples)
  /\ Len(buf) <= BufCap
  /\ levels \in Seq(Seq(Run))
  /\ Len(levels) <= MaxLevels
  /\ \A l \in 1..Len(levels) : Len(levels[l]) < MaxRuns

(* What the tree holds came from a client: in the buffer a put value or a  *)
(* delete marker, on disk what reads back as a put value or as empty.      *)
CopiesFromClients ==
  /\ \A i \in 1..Len(buf) : buf[i].items \in PutValue \cup {DelMarker}
  /\ \A l \in 1..Len(levels) : \A r \in 1..Len(levels[l]) :
       \A k \in DOMAIN levels[l][r] :
         Read2Tuple(levels[l][r][k]) \in PutValue \cup {<<>>}

(* The values this code stores faithfully: not empty, not to be taken for  *)
(* a delete marker, and unchanged by a flush (see ValuesThatRoundTrip).    *)
ClientValues ==
  \A v \in PutValue : v # <<>> /\ ~IsDelMarker(v) /\ RoundTrips(v)

(* The tree as a map, as a client sees it who treats the empty value as    *)
(* "not there": the delete marker of a flushed delete reads back as an     *)
(* empty value (Tuple.cpp:94-95), which re_order does not drop.            *)
Visible == {k \in Live : FirstCopy(levels, k) # <<>>}

View == [k \in Visible |-> FirstCopy(levels, k)]

CallView ==
  IF call.op = "scan"
  THEN [call EXCEPT !.found =
          [k \in {x \in DOMAIN call.found : call.found[x] # <<>>} |-> call.found[k]]]
  ELSE call

KV == INSTANCE KVStore WITH kv <- View, call <- CallView

(* The tree implements the map the client is promised: every put, delete   *)
(* and scan has exactly the effect and the answer it has on a plain map,   *)
(* whatever was flushed and merged in between (LSM_T::Insert, Search).     *)
ImplementsKVStore == KV!Spec

(* A key that a scan would not return becomes readable only through a put  *)
(* of that key: no flush and no merge brings a deleted key back.           *)
OnlyPutRevives ==
  [][\A k \in Live' \ Live : call'.op = "put" /\ call'.key = k]_vars

(* What a scan returns for a key is a value some client put, word for      *)
(* word, or the empty value that a flushed delete reads back as: a flush   *)
(* and the merges after it keep values as they are (Tuple.cpp:61-66).      *)
ScanReturnsPutValues ==
  call.op = "scan" =>
    \A k \in DOMAIN call.found : call.found[k] \in PutValue \cup {<<>>}

(* The flushes that went into the runs of some levels: a run of a level    *)
(* counts MaxRuns times as much as one of the level above.                 *)
FlushCount(lvls) ==
  LET count[l \in 1..Len(lvls) + 1] ==
        IF l > Len(lvls) THEN 0 ELSE Len(lvls[l]) + MaxRuns * count[l + 1]
  IN  count[1]

(* The levels count like an odometer in base MaxRuns.  A call flushes when *)
(* it leaves no more in the buffer than it found: then the tree holds one  *)
(* flush more than before, and after any other call as many.  No flush and *)
(* no run is lost, merged twice or left behind by the merge that consumed  *)
(* it (LSM_T.cpp:39-66).                                                   *)
Flushes == call'.op \in {"put", "del"} /\ Len(buf') <= Len(buf)

EveryFlushCountedOnce ==
  [][call'.op # "open" =>
       FlushCount(levels') = FlushCount(levels) + IF Flushes THEN 1 ELSE 0]_vars

(* The tuples a run of level l has at most, if one of the first level is   *)
(* made of one buffer and a merge joins MaxRuns runs.                      *)
MostTuples(l) ==
  LET most[m \in Nat] == IF m <= 1 THEN BufCap ELSE MaxRuns * most[m - 1]
  IN  most[l]

(* Runs grow with their level by the merge threshold and no faster: that   *)
(* is how much memory a merge takes and how many files a run needs, which  *)
(* the code leaves to an assumption (Level.cpp:24).                        *)
RunsGrowByMaxRuns ==
  \A l \in 1..Len(levels) : \A r \in 1..Len(levels[l]) :
    Cardinality(DOMAIN levels[l][r]) <= MostTuples(l)
=============================================================================
