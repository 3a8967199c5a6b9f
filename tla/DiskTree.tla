------------------------------ MODULE DiskTree ------------------------------
(***************************************************************************)
(* The tree of LSMTree as the code keeps it: runs are lists of .sst files  *)
(* with a name each, a file is a sequence of slots on a disk that outlives *)
(* the process, and a flush is the sequence of steps of LSM_T::Insert:     *)
(* reverse the buffer, read and delete the runs of the levels that are due *)
(* (Level::_AddMergeRuns), sort (Level::_Sort), cut into files and write   *)
(* them (Run::Run, FileMetaData).  A search goes through fences and Bloom  *)
(* filters, which are of the keys a file was created with, to the bytes    *)
(* that are on disk under its name, and, as the code does, to memory that  *)
(* is gone or was never written (Memory).                                  *)
(*                                                                         *)
(* A tree ends with its destructor, which deletes its files, or with its   *)
(* process, which may be killed in the middle of a flush.  What is then on *)
(* disk is never read, but lies under the names the next tree will use.    *)
(***************************************************************************)
EXTENDS TupleCodec, Integers, FiniteSets, SequencesExt

CONSTANTS Key, PutValue, BufCap, MaxRuns, MaxLevels,   \* as in LSMTree
          IntMin, IntMax, SSTSize, TupleSize, FPInterval, BFNumTuples, Bit, Hash,
                          \* as in SSTable
          StringSlots,    \* as in SSTable: how the build lays out two temporaries
          HeapSlots,      \* the slots of asked keys that unwritten memory may read as
          UnlinkWorks,    \* whether unlink gets the name it is meant to, see Unlinked
          Ends            \* bound of the model: the ways a tree may end, see below

Slots == [key : Key, slot : Slot]

ASSUME DiskAssumption ==
  /\ HeapSlots \subseteq Slots
  /\ UnlinkWorks \subseteq BOOLEAN /\ UnlinkWorks # {}
  /\ Ends \subseteq {"close", "kill", "kill in flush"}

VARIABLES buf,            \* the buffer, oldest tuple first
          levels,         \* of each level the runs, of each run its files in order
          disk,           \* the contents of every .sst file there is
          call            \* the last call and its answer

vars == <<buf, levels, disk, call>>

Sort == INSTANCE MergeSort WITH Items <- Seq(Word), MaxTuples <- 0,
                                tuples <- <<>>, run <- <<>>

Table == INSTANCE SSTable WITH HeapKeys <- {slot.key : slot \in HeapSlots}

(* A file in memory is its name and the keys it was created with.  What is *)
(* read of it whole are as many slots as that, from the first on           *)
(* (FileMetaData::GetAllTuples).                                           *)
SlotsOf(file) == SubSeq(disk[file.name], 1, Len(file.keys))

FileTuples(file) ==
  LET slots == SlotsOf(file)
  IN  [i \in DOMAIN slots |-> [key |-> slots[i].key, items |-> Read2Tuple(slots[i].slot)]]

(* Run::GetAllTuples.                                                      *)
RunTuples(run) == FlattenSeq([f \in DOMAIN run |-> FileTuples(run[f])])

FirstWith(slots, k) == slots[Min({i \in DOMAIN slots : slots[i].key = k})]

KeysIn(tuples) == {tuples[i].key : i \in DOMAIN tuples}

(* What the runs hold, as LSMTree sees them.                               *)
RunView(run) ==
  LET slots == FlattenSeq([f \in DOMAIN run |-> SlotsOf(run[f])])
  IN  [k \in KeysIn(slots) |-> FirstWith(slots, k).slot]

LevelsView == [l \in DOMAIN levels |-> [r \in DOMAIN levels[l] |-> RunView(levels[l][r])]]

Tree == INSTANCE LSMTree WITH levels <- LevelsView

ASSUME PartsAssumption ==
  Sort!SortAssumption /\ Table!SSTableAssumption /\ Tree!TreeAssumption

-----------------------------------------------------------------------------
(* The search.  What a scan has found so far is a function from keys to    *)
(* items; the range it still searches comes with it.                       *)

Ranges == [begin : Int, end : Int]

(* What the undefined reads of a search yield: how the build lays out the  *)
(* two temporaries of fastFPIndex (SSTable!SlotKeys), and, for each file,  *)
(* what the memory behind it reads as, of which no more than FPInterval    *)
(* slots are looked at (SSTable!HeapReads).                                *)
Memory == [strings : StringSlots, heap : [DOMAIN disk -> SeqOf(HeapSlots, FPInterval)]]

(* The two reads are well behaved: the temporaries still read as they were *)
(* written, and the memory behind a file as no key that is asked for.  The *)
(* code does nothing for either; scan_slots and scan_heap show searches    *)
(* where one of them is not.                                               *)
DependableReads == StringSlots = {"own"} /\ HeapSlots = {}

(* What a read of an extent gets from the memory behind the file.          *)
ReadBehind(file, extent, memory) ==
  LET heap == memory.heap[file.name]
      unwritten == Table!Unwritten(disk[file.name], extent)
  IN  SubSeq(heap, 1, Table!Least(unwritten, Len(heap)))

(* FileMetaData::Collect: what the file's filters and fences suggest to    *)
(* read is read from the disk, and after it the memory behind; what was    *)
(* not found before is taken, the first copy of it.                        *)
Collect(asked, search, found, file, memory) ==
  LET read[suggest \in Ranges] ==
        LET extent == Table!Extent(file.keys, suggest, memory.strings)
        IN  IF Table!ReadsFile(suggest)
            THEN Table!TuplesRead(disk[file.name], extent) \o ReadBehind(file, extent, memory)
            ELSE <<>>
      wanted == Table!Within(asked) \ DOMAIN found
      slots == read[Table!fastBFIndex(file.keys, search, wanted)]
  IN  [k \in DOMAIN found \cup (KeysIn(slots) \cap Table!Within(asked)) |->
         IF k \in DOMAIN found THEN found[k] ELSE Read2Tuple(FirstWith(slots, k).slot)]

(* The end of Run::Scan.                                                   *)
Shrunken(asked, found) ==
  LET search == Table!ShrinkSearchRange(asked, DOMAIN found)
  IN  [found |-> found, search |-> search, finished |-> search.begin > search.end]

(* Run::Scan, unless the search range is empty already and Level::Scan and *)
(* LSM_T::Search go no further.                                            *)
ScanRun(asked, state, run, memory) ==
  LET found[f \in 0..Len(run)] ==
        IF f = 0 THEN state.found
        ELSE Collect(asked, state.search, found[f - 1], run[f], memory)
  IN  IF state.finished THEN state ELSE Shrunken(asked, found[Len(run)])

(* Level::Scan, from the last run to the first.                            *)
ScanLevel(asked, state, level, memory) ==
  LET after[r \in 0..Len(level)] ==
        IF r = 0 THEN state ELSE ScanRun(asked, after[r - 1], Reverse(level)[r], memory)
  IN  after[Len(level)]

(* Buffer::Scan.                                                           *)
ScanBuffer(asked) ==
  LET found == [k \in KeysIn(buf) \cap Table!Within(asked) |-> FirstWith(Reverse(buf), k).items]
  IN  [found |-> found, search |-> Table!ShrinkSearchRange(asked, DOMAIN found),
       finished |-> Cardinality(DOMAIN found) = Cardinality(Table!Within(asked))]

(* re_order: what was found, without the delete markers.                   *)
re_order(found) == [k \in {x \in DOMAIN found : ~IsDelMarker(found[x])} |-> found[k]]

(* LSM_T::Search.                                                          *)
Found(asked, memory) ==
  LET after[l \in 0..Len(levels)] ==
        IF l = 0 THEN ScanBuffer(asked) ELSE ScanLevel(asked, after[l - 1], levels[l], memory)
  IN  re_order(after[Len(levels)].found)

Search(lo, hi) ==
  /\ \E memory \in Memory :
       call' = [op |-> "scan", lo |-> lo, hi |-> hi,
                found |-> Found([begin |-> lo, end |-> hi], memory)]
  /\ UNCHANGED <<buf, levels, disk>>

-----------------------------------------------------------------------------
(* LSM_T::Insert.                                                          *)

(* A mutant: the run that comes does not count.                            *)
ReadyMergeLate(level) == MaxRuns = Len(level)

ReadyMerge(level) == MaxRuns = Len(level) + 1

IsTarget(t) ==
  /\ t \in 1..Len(levels) + 1
  /\ \A l \in 1..t - 1 : ReadyMerge(levels[l])
  /\ t <= Len(levels) => ~ReadyMerge(levels[t])

(* A mutant: the first run of the level first.                             *)
LevelTuplesOldestFirst(level) == FlattenSeq([r \in DOMAIN level |-> RunTuples(level[r])])

(* Level::_AddMergeRuns: the tuples of a level, its last run first.        *)
LevelTuples(level) == FlattenSeq([r \in DOMAIN level |-> RunTuples(Reverse(level)[r])])

(* A mutant: the buffer is not reversed.                                   *)
GatheredUnreversed(t) == buf \o FlattenSeq([l \in 1..t - 1 |-> LevelTuples(levels[l])])

(* What LSM_T::Insert has gathered when it comes to level t.               *)
Gathered(t) == Reverse(buf) \o FlattenSeq([l \in 1..t - 1 |-> LevelTuples(levels[l])])

Names(run) == [f \in DOMAIN run |-> run[f].name]

(* The files of some levels in the order in which they are deleted.        *)
NamesIn(lvls) == FlattenSeq([l \in DOMAIN lvls |->
                   FlattenSeq([r \in DOMAIN lvls[l] |-> Names(lvls[l][r])])])

(* Run::DeleteFMD on each of them unlinks through a pointer into a string  *)
(* that is gone (Run.cpp:356): the name it passes is that of the file, or  *)
(* no name of any file.                                                    *)
Unlinked(names) == {IF works THEN names ELSE <<>> : works \in UnlinkWorks}

Without(names) == [name \in DOMAIN disk \ Range(names) |-> disk[name]]

(* Run::Run: the tuples cut into files, the f-th of a run of level t named *)
(* level<t-1>run<id>file<f-1>.sst (Run::AddNewFMD counts from 0).          *)
NewFiles(t, id, tuples) ==
  LET pieces == Table!Files(tuples)
  IN  [f \in DOMAIN pieces |->
         [name |-> <<t - 1, id, f - 1>>, keys |-> [i \in DOMAIN pieces[f] |-> pieces[f][i].key]]]

(* A mutant: what lay under the name before shows behind the new slots.    *)
CreatedOver(old, file, tuples) ==
  LET slots == [i \in DOMAIN tuples |->
                  [key |-> tuples[i].key, slot |-> AppendBin2Vec(tuples[i].items)]]
      kept == IF file.name \in DOMAIN old THEN old[file.name] ELSE <<>>
  IN  [name \in DOMAIN old \cup {file.name} |->
         IF name = file.name THEN slots \o SubSeq(kept, Len(slots) + 1, Len(kept))
                             ELSE old[name]]

(* FileMetaData::FileMetaData writes a file from the first byte on ("wb"). *)
Created(old, file, tuples) ==
  LET slots == [i \in DOMAIN tuples |->
                  [key |-> tuples[i].key, slot |-> AppendBin2Vec(tuples[i].items)]]
  IN  [name \in DOMAIN old \cup {file.name} |->
         IF name = file.name THEN slots ELSE old[name]]

(* The disk after the first n files of a run.                              *)
Written(old, run, tuples, n) ==
  LET after[f \in 0..n] == IF f = 0 THEN old
                            ELSE Created(after[f - 1], run[f], Table!Files(tuples)[f])
  IN  after[n]

AppendTuple(k, items) ==
  /\ Len(buf) < BufCap
  /\ buf' = Append(buf, [key |-> k, items |-> items])
  /\ UNCHANGED <<levels, disk>>

RunsOf(t) == IF t <= Len(levels) THEN levels[t] ELSE <<>>

FlushAndAppend(k, items) ==
  /\ Len(buf) >= BufCap
  /\ \E t \in 1..MaxLevels :
       /\ IsTarget(t)
       /\ LET tuples == Sort!_Sort(Gathered(t))
              run == NewFiles(t, Len(RunsOf(t)), tuples)
          IN  /\ levels' = [l \in 1..Max({Len(levels), t}) |->
                              IF l < t THEN <<>>
                              ELSE IF l = t THEN Append(RunsOf(t), run) ELSE levels[l]]
              /\ \E names \in Unlinked(NamesIn(SubSeq(levels, 1, t - 1))) :
                   disk' = Written(Without(names), run, tuples, Len(run))
  /\ buf' = <<[key |-> k, items |-> items]>>

Insert(k, items) == AppendTuple(k, items) \/ FlushAndAppend(k, items)

Put(k, v) == /\ call' = [op |-> "put", key |-> k, value |-> v]
             /\ Insert(k, v)

Delete(k) == /\ call' = [op |-> "del", key |-> k]
             /\ Insert(k, DelMarker)

-----------------------------------------------------------------------------
(* The end of a tree, and the next one, which starts empty.                *)

Reopen == /\ call' = [op |-> "open"]
          /\ buf' = <<>>
          /\ levels' = <<>>

(* ~LSM_T, and with it ~Level and ~Run for every run: their files go too.  *)
Close == /\ "close" \in Ends
         /\ \E names \in Unlinked(NamesIn(levels)) : disk' = Without(names)
         /\ Reopen

(* The process is gone between two calls.                                  *)
Kill == /\ "kill" \in Ends
        /\ UNCHANGED disk
        /\ Reopen

(* The process is gone in the middle of a flush: while it deletes, or when *)
(* n files are whole and of the next one as many slots as got written.     *)
KillInFlush ==
  /\ "kill in flush" \in Ends
  /\ Len(buf) >= BufCap
  /\ \E t \in 1..MaxLevels :
       /\ IsTarget(t)
       /\ \E names \in Unlinked(NamesIn(SubSeq(levels, 1, t - 1))) :
            \/ \E n \in 0..Len(names) : disk' = Without(SubSeq(names, 1, n))
            \/ LET tuples == Sort!_Sort(Gathered(t))
                   run == NewFiles(t, Len(RunsOf(t)), tuples)
               IN  \E n \in 0..Len(run) - 1 : \E slots \in 0..Len(run[n + 1].keys) :
                     disk' = Created(Written(Without(names), run, tuples, n),
                                     run[n + 1], SubSeq(Table!Files(tuples)[n + 1], 1, slots))
  /\ Reopen

-----------------------------------------------------------------------------
Init == /\ buf = <<>>
        /\ levels = <<>>
        /\ disk = [name \in {} |-> {}]
        /\ call = [op |-> "none"]

Next == \/ \E k \in Key, v \in PutValue : Put(k, v)
        \/ \E k \in Key : Delete(k)
        \/ \E lo, hi \in Key : lo <= hi /\ Search(lo, hi)
        \/ Close
        \/ Kill
        \/ KillInFlush

Spec == Init /\ [][Next]_vars

-----------------------------------------------------------------------------
(***************************************************************************)
(* Properties.                                                             *)
(***************************************************************************)

LiveRuns == UNION {{<<l, r>> : r \in DOMAIN levels[l]} : l \in DOMAIN levels}

LiveNames == Range(NamesIn(levels))

(* Every live file has the name its place in the tree gives it, and what   *)
(* is on disk under that name are the tuples it was created with, no more  *)
(* and no less: no file of another run, level or process shows through     *)
(* (Run::AddNewFMD, FileMetaData::FileMetaData).                           *)
FilesAreWhole ==
  \A p \in LiveRuns :
    LET run == levels[p[1]][p[2]]
    IN  \A f \in DOMAIN run :
          /\ run[f].name = <<p[1] - 1, p[2] - 1, f - 1>>
          /\ run[f].name \in DOMAIN disk
          /\ disk[run[f].name] \in Seq(Slots)
          /\ [i \in DOMAIN disk[run[f].name] |-> disk[run[f].name][i].key] = run[f].keys
          /\ Len(run[f].keys) \in 1..Table!max_tuples_per_file

(* The files of a run, one after the other, are strictly ascending: a key  *)
(* is in one file of a run only (Run::Scan, Run.cpp:400-402).              *)
RunsAscendAcrossFiles ==
  \A p \in LiveRuns :
    LET tuples == RunTuples(levels[p[1]][p[2]])
    IN  \A i, j \in DOMAIN tuples : i < j => tuples[i].key < tuples[j].key

KeysHeld == KeysIn(buf) \cup UNION {KeysIn(RunTuples(levels[p[1]][p[2]])) : p \in LiveRuns}

(* Every tuple a flush gathered goes into some file: only the end of the   *)
(* tree takes a key from it (Run::Run, Run.cpp:319).                       *)
NothingDropped ==
  [][call'.op # "open" => KeysHeld \subseteq KeysHeld']_vars

(* What a merge into level t takes into memory at once, duplicates and     *)
(* all, is never more than MaxRuns^(t-1) buffers (Level::_AddMergeRuns,    *)
(* which assumes that it fits, Level.cpp:24).                              *)
MergeIsBounded ==
  \A t \in 1..Len(levels) + 1 : IsTarget(t) => Len(Gathered(t)) <= Tree!MostTuples(t)

(* Reading, sorting, cutting and writing files does to what the tree holds *)
(* what LSMTree says a flush does, whatever processes before left on the   *)
(* disk, and whatever a search reads it changes nothing (LSM_T::Insert).   *)
(* What searches answer is left out: see ImplementsLSMTree.                *)
StoresAsLSMTree == Tree!StorageSpec

(* Searches, too, answer what LSMTree says, through fences and filters and *)
(* however early they stop (LSM_T::Search).  It is so only if the first    *)
(* filter of a file is of all its keys and its two undefined reads do no   *)
(* harm (DependableReads): a run that checks this property makes both so,  *)
(* and the theorems about it assume them.                                  *)
ImplementsLSMTree == Tree!Spec

(* The runs a merge consumed are deleted (Level.cpp:35): a file that is no *)
(* longer part of the tree is no longer on disk.                           *)
NoFileLeftBehind ==
  [][call'.op # "open" => (LiveNames \ LiveNames') \cap DOMAIN disk' = {}]_vars
=============================================================================
