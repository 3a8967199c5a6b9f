# A verification of the Log-Structured-Merge-tree

TLA+ models of the key-value store in `src/`, model-checked with TLC and, for
the core, proved with TLAPS. Paths below are relative to the repository
(`src/Run.cpp` is the `Run.cpp` of its `src` directory).

The store is an embedded LSM tree: `DB` (put, get, scan, del) over `LSM_T`, which
keeps an in-memory buffer and a list of levels of sorted runs; a run is a list of
`.sst` files, each with a fence-pointer table and Bloom filters in memory.
Everything happens in the caller's thread. There is no log, no manifest, and no
way to open an existing database: what a process does not read back itself is lost.

## Inventory

| Component | State | Operations | What makes it correct |
|---|---|---|---|
| `DB` (`Database.cpp`) | the tree | `put`, `del`, `scan`, `get` = scan of one key | behaves as a map |
| `LSM_T` (`LSM_T.cpp`) | buffer, list of levels | `Insert` (append; when full, flush and cascade, then append again), `Delete` (insert the marker `{TERMINATION}`), `Search` (range) | the newest copy of a key wins, in searches and in merges |
| `Buffer` | tuples in order of arrival, capacity | `Append`, `Clear`, `Scan` (from the back) | never above capacity; newest first |
| `Level` | runs, oldest first | `ReadyMerge`, `_AddMergeRuns` (read runs, last first, then delete them), `AddNewRun` (sort, drop duplicates, create run), `Scan` | no run lost, merged twice, or left behind |
| `Run` | files | cut the tuples into files, read all, delete, `Scan` | strictly ascending across files, files whole |
| `FileMetaData` | name, tuple count, fences, filters | write, `GetAllTuples`, `Collect` | a scan skips no file and no part of one that holds an asked key |
| `FencePointerBeta`, `BloomFilter`, `MurmurHash2` | fences; bits | set up, look up, hash a key | no false negative |
| `Tuple` | key, items | `AppendBin2Vec`, `Read2Tuple` | a value reads back as it was put |
| `ShrinkSearchRange` (`Args.h`) | the bits of found keys, the range still searched | shrink to the first and last key not found | the range keeps every key not found |

How they interact: `put` calls `Insert`; a full buffer is reversed and handed down
the levels, each level that is ready to merge adds its tuples behind it, and the
first that is not ready (or a new one) makes a run of them all. `scan` asks the
buffer, then each level's runs, newest first; they share the result vector,
`checkbits`, which says which keys are found, and the search range. Runs and files
talk through the file system only, by names made of level, run and file number,
which are used again after every merge.

The hard parts are therefore not threads but *order* (newest first, in four
different places), *long sequences of calls* (cascades need `MaxRuns^n` buffers),
*boundaries* (fences, filters, slots, files, the ends of the ints), *lifetimes*
(three places use a pointer or a buffer after or before it is valid), and the *end of
a tree* (files that somebody deletes too early or nobody at all, and the next tree
that writes among them). `PROJECT.json` lists every such hazard at its line.

## The modules

| Module | What it models | Variables and the code's state |
|---|---|---|
| `KVStore` | the promise: a map with put, del and scan, which is empty again when the database is opened again | `kv`; `call` = the last call and its answer, so that a lost put is not a stutter |
| `TupleCodec` | `Tuple::AppendBin2Vec`, `Read2Tuple`, the delete marker | (operators) |
| `LSMTree` | `DB`, `LSM_T`, `Buffer`, `Level`: put, delete, range search, flush and cascade, reopening | `buf` = `Buffer::tuples`, `levels` = `LSM_T::_levels` with each level's `_runs` |
| `MergeSort` | `Level::_Sort` with its merge sort, a recursive function as in the code | `tuples`, `run`: one sort of every short input |
| `SSTable` | cutting into files, fences, Bloom filters, what `Collect` reads of a file, `ShrinkSearchRange` on ints that wrap | (operators) |
| `Murmurhash`, `BloomFilter` | `MurmurHash2` on words of 32 bits, `BloomFilter::getIndex` and its sizes | (operators) |
| `RangeScan` | one scan, step by step: buffer, each file of each run, shrinking after each run | `ret` with its domain = `ret`/`checkbits`, `search` = `searchRange`, `asked` = `userAskedRange`, `at` = the loops' position |
| `DiskTree` | the tree with named files and their contents on disk: gathering, sorting, cutting, writing, unlinking; searching through fences and filters in what is on disk; the three ways a tree ends | as `LSMTree`, with runs as lists of file records (`name`, and the `keys` its fences and filters are of); `disk` = the directory |
| `BasicProofs` | lemmas on minima and maxima, induction over sets of numbers, recursive functions | |
| `TupleCodecProofs`, `LSMTreeProofs`, `MergeSortProofs`, `SSTableProofs`, `RangeScanProofs`, `DiskTreeProofs` | theorems about the module each is named after | |
| `DiskTreeRefinement` | that `DiskTree` implements `LSMTree`, and so `KVStore` | |
| `MC...` | instances for TLC | |

Composition: `DiskTree` implements `LSMTree`, which implements `KVStore`; both are
checked and proved. `DiskTree` uses `MergeSort` for its
flushes and `SSTable` for its files and searches, and the instances give `SSTable` the
bits that `BloomFilter` and `Murmurhash` compute for the keys. `LSMTree` answers a
search in one step, with the first copy of each key. That the real scan finds that
copy is shown twice: by `RangeScan` for arbitrary trees in memory, file by file, with
the undefined behaviour of `Collect` as a choice, and by `DiskTree` for the trees that
calls build and the bytes that are on disk. `RangeScan` keeps of a tuple only the key and
the place it was found in.

`DiskTree` leaves the two undefined reads of a search open as well (`Memory`, with the
constants `StringSlots` and `HeapSlots`), so it makes two claims. `StoresAsLSMTree`:
whatever searches read, the tree stores what `LSMTree` says; what a search answers is left
out (`LSMTree!StorageSpec`). `ImplementsLSMTree`: searches answer as `LSMTree`'s do. The
second is false of builds where one of the reads does harm, as `scan_slots` and `scan_heap`
show; it is checked and proved under `DependableReads`, which says that neither does. The
code does nothing to make that so.

A call is one step in `LSMTree` and `DiskTree`: the program is single-threaded, so
no other call sees a flush half done. Only the end of the process does, and
`DiskTree`'s `KillInFlush` is a flush that gets as far as any of its steps: some of the
unlinks done, some of the files whole and a next one torn. Nothing recovers: the
next tree is empty (`Reopen`), whatever is on disk, and the question is whether what
lies there ever shows.

Names of definitions that start with the name of another and are commented
"a mutant" are broken variants of it; no specification uses them. Each property of a
passing run is tested by putting such a variant in.

Abstractions worth knowing:

- Keys are a few integers, values short sequences of words. A run in `LSMTree` is a
  function from keys to stored slots.
- `TERMINATION` is a model value, distinct from the other words, as `INT_MIN` is
  from ordinary data. Values may contain it in the theorems' domain; `ClientValues`
  then rules them out.
- Bloom filter bits are a constant function `Hash` from keys to sets of positions in
  `SSTable`. The instances take those of `BloomFilter`, with few bits per element so
  that there are false positives; `MCRangeScan` assumes, and TLC evaluates, that
  `MurmurHash2` gives for five numbers what the compiled function gives.
- Ints are those from `IntMin` to `IntMax`, of 16 bits in the instances. The step past
  the last one is undefined in C++ and wraps here, as it does in builds that keep it.
- Offsets count tuples. `NoOffset` is `[0, -1]` as in the code, where the -1 is one
  byte: an interval is added to it, and what it then reads is one tuple short of an
  interval.
- Undefined behaviour is a choice over what builds do. Two `std::string`
  temporaries that are dead when used (`Run.cpp:119-120`) hold what was written or,
  when they share a stack slot, both hold the second (`StringSlots`; `scan_answer` is
  about builds of the first kind, `scan_slots` about the others). A dangling
  file name (`Run.cpp:356`) is that of the file or of none (`UnlinkWorks`). Memory
  behind the end of a file (`Run.cpp:162-178`) may decode to any asked key
  (`HeapKeys`; in `DiskTree` to any tuple of `HeapSlots`).

## What is checked

Every run checks deadlock, but those of `RangeScan` and `MergeSort`: a scan and a
sort really stop.

| Run | Bounds | Result |
|---|---|---|
| `tree` | 2 keys, a value stored with its marker in slots of 3 words, buffer of 2, merge at 2 runs, 3 levels | implements the map; stored copies came from clients; a call counts one flush if it empties the buffer and none if not; type invariant |
| `sort` | 3 keys, 2 items, up to 6 tuples | ascending, without duplicates, leftmost copies kept |
| `scan_answer` | the last 4 ints as keys, all trees of up to 2 runs and a buffer of up to 2, all ranges, files of 3, fences of 2, filters with false positives, memory that may read as 2 of the keys | the scan ends, with the newest copy of everything that is there; the range keeps the holes; junk hides no copy in a newer source or in the files of the run so far; nothing is asked after all is found |
| `disk_merge` | 2 keys, buffer of 1, files of 1, merge at 3, 2 levels, `unlink` working or not, `DependableReads` | implements `LSMTree`, searches included; runs ascend across files; what a merge gathers is bounded by its target level |
| `disk_ends` | 2 keys, 2 values, buffer and files of 2, merge at 2, 2 levels, trees that are closed, killed, and killed in a flush, `unlink` working or not, no dependable reads: the strings share a slot, the memory behind a file may read as a tuple that no one put | stores what `LSMTree` says; files whole; no flush drops a key |
| `deleted_key_read` | 2 keys, buffer of 1 | violation, below |
| `short_value` | slots of 2 words, values of 1 | violation, below |
| `scan_slots`, `scan_heap`, `scan_filters` | 3 keys, 1 run | violations, below |
| `disk_orphans` | 3 keys, buffer and files of 1 | violation, below |
| `disk_sizes` | files of 3 units, tuples of 2, buffer of 3 | violation, below |

Why the bounds are enough.

- *Order.* A mistake shows with two copies of a key in any two of: the buffer (2
  places in `tree`), two runs of one level (`disk_merge` merges at 3), two levels
  (all of them). A cascade that skips a level or forgets to clear one needs three
  levels and seven flushes of two (`tree`).
- *Files.* A fence or file border shows with a file of two fences, the last of them
  shorter, and a run of two files: `scan_answer` has both. In the instances of
  `DiskTree` the buffer holds A files' worth of tuples, as `BUFFER_SIZE` does, with A = 1
  but for `disk_sizes` (A = 2); runs of two files come from merges in `disk_merge`.
- *Growth.* `disk_merge` counts what is gathered, duplicates and all, so that two keys are
  enough to fill the bound: a buffer and two runs of one tuple each, when a third is too
  many.
- *Leftovers.* `disk_ends` puts one and two keys in a file, so that an old file under a new
  name may be shorter or longer than the new one, whole or torn; its two values tell a
  stale copy of a key from a new one. Its runs have one file each. What searches
  find among leftovers is not run but proved (`DiskTreeImplementsLSMTree`).
- *Depth.* `MaxLevels` bounds the growth of the tree; a flush that would go below is
  disabled, and searches always remain possible, so this is no deadlock.

Three runs are explored on a `VIEW` that leaves out `call`: the last call is an output
that no action reads, so two states that differ in it only have the same futures.
Action properties are tested on every step, those into known states included.

Two properties are stated on a view of another kind: a client who takes the empty value
for "not there" sees a map (`View`); one who does not sees deleted keys come back
(`deleted_key_read`).

Liveness. `FindsAllInTheEnd` says that a scan ends and then has every asked key there
is. It needs that the scan goes on, and `FairSpec` says just that: weak fairness of the
next loop step. A scan is a loop in the caller's thread; it waits for nothing, and every
step of it moves `at`, so the fairness is that of a thread that runs. There is no other
liveness property, because nothing in the store runs on its own between calls.

Faults. A tree may end in three ways, `Close` (the destructors, which delete the files),
`Kill` between calls, and `KillInFlush` at any of a flush's deletions and writes; all of
them with an `unlink` that works or does not. A next tree starts empty in what is left.
That is all the code does about faults: it has no recovery to check. What is
checked is that leftovers never show in the files of the tree (`disk_ends`); that searches do
not see them either is proved (`DiskTreeImplementsLSMTree`).

### Disagreements between the code and what it says

1. `deleted_key_read`: a delete marker that is flushed reads back as an empty value,
   and `get` of a deleted key returns a tuple instead of `nullptr`
   (`tests/basic_test.cpp:108`).
2. `short_value`: a value one word shorter than a slot gets no end marker and comes
   back with a 0 appended (`Tuple.cpp:61-63`). With the default slot of two words
   this is every value of one word. Values longer than a slot are cut
   (`Database.cpp:8` speaks of 10 values); `ScanReturnsPutValues` would show that too, but
   no run has such values.
3. `scan_slots`: dangling `c_str()` pointers in `fastFPIndex`; in a build that reuses
   the stack slot, scans miss keys.
4. `scan_heap`: `Collect` decodes memory behind the end of a file.
5. `scan_filters`: with `BF_NUM_TUPLES` smaller than a file, as `README.md:21`
   suggests to try, only the first filter is asked and keys are missed.
6. `disk_orphans`: `DeleteFMD` unlinks through a dangling pointer, so the files of
   merged runs stay.
7. `disk_sizes`: a run's files are counted in bytes but filled with whole tuples. Where
   the size of a tuple does not divide that of a file, a run may get a file too few, and
   its last tuples are never written (`Run.cpp:319`, `324`). The sizes in `Args.h` divide;
   tuples of 10 values, which `Database.cpp:8` speaks of, do not.

Noticed and not the subject of a run:

- `Collect` reads a file even if its filter excludes every wanted key (`Run.cpp:154`
  says otherwise).
- `~Run` deletes the files, which `Run.h:88` says it should not: a closed database is
  gone.
- At the ends of the ints the search range wraps and no longer looks empty, so that a
  scan that has found everything still asks every run. It answers rightly all the same;
  `StopsWhenAllFound` excepts just these ranges.
- `Args.h:26` says that from level to level runs grow by `LEVELS_SIZE_RATIO`, 2. They grow by
  `MAX_RUNS_BEFORE_MERGE`, 3 or 10, since that is how many runs a merge joins
  (`Level.cpp:21`); the bound that holds is `MostTuples`.
- `_files_per_run` (the only use of `LEVELS_SIZE_RATIO`) and `_curr_tuples_n` of `Level`
  are computed and never read; the second counts duplicates and is not reset when a level is cleared.

## What is proved

With TLAPS, for every value of the constants that the assumptions allow; each run above
shows the same on a small instance. The assumptions are that keys are ints, that sizes,
intervals and capacities are positive, that a slot has at least two words and a level
merges at two runs or more (`CodecAssumption`, `TreeAssumption`, `SSTableAssumption`,
`SortAssumption`, `PartsAssumption`). What a theorem needs beyond them is named in it.

**The tree is a map** (`LSMTreeProofs`, `TupleCodecProofs`).

- `TypeCorrect`: `Spec => []TypeOK`. The part that is not mere typing is that no
  level ever holds `MaxRuns` runs: a flush appends only to a level that is not one
  short of merging, so the equality test in `ReadyMerge` is never stepped over.
- `CopiesInvariant`: under `ClientValues`, every stored copy is one a client put, a
  delete marker, or a flushed one. This is the strengthening the refinement needs:
  `TypeOK` alone allows a slot whose value changes at the next flush.
- `TreeImplementsKVStore`: under `ClientValues`, `Spec => ImplementsKVStore`.
  The argument: an append changes the first copy of its own key only
  (`InsertView`). For a flush, the first copy of a key in the buffer and the levels
  above the target goes into the new run, and the new run is looked at before
  everything it did not absorb; so the first copy of every key is the same up to one
  trip through a slot. By the codec lemmas that trip keeps every client value and
  turns markers into the empty value, and both are invisible in `View`.
- `ValuesThatRoundTrip`: a value without `TERMINATION` survives a flush if it fits
  into a slot and does not leave exactly one word free; this makes `ClientValues`
  easy to establish. `DelMarkerBecomesEmpty`: a flushed marker is an empty value.
- `FlushesAreCounted`: `Spec => EveryFlushCountedOnce`, with nothing asked of the values: a put
  or delete that leaves the buffer no longer than it was counts one flush, every other call
  none, so that a flush that is lost breaks it too. The levels are read as a number of base `MaxRuns`, the first level its last digit, by Horner's
  rule. A flush is the carry of an odometer: the levels before its target all hold
  `MaxRuns - 1` runs and become empty, the target goes up by one (`FlushAddsOne`, by
  induction along the levels below the target). Only `TypeOK` is needed besides. This theorem,
  `TypeCorrect` and `RunsStayBounded` are proved of `StorageSpec`, in which searches may
  answer anything, so that they hold of `DiskTree`'s image in every build.
- `RunsStayBounded`: `Spec => [](RunsFinite /\ RunsGrowByMaxRuns)`. The new run of a flush has
  a key for each that is in the buffer or in one of the `MaxRuns - 1` runs of each level it
  goes past, and `MaxRuns - 1` runs and what comes from above make `MaxRuns` times as many
  (`GatheredBounded`, on `UnionOfBounded`). `RunsFinite` is there because `Key` may be
  infinite, and the cardinality of an infinite set says nothing.
- `ScansReturnPutValues`: under `ClientValues`, `Spec => []ScanReturnsPutValues`: a scan returns
  what some client may have put, or the empty value of a flushed delete. Without the
  condition it fails, as `short_value` shows.

**The sort** (`MergeSortProofs`). `SortIsStrictlyAscending` and `SortKeepsNewest`, for any
number of tuples. `merge` and `mergeSort` are recursive functions; that their recursion
ends, so that they are what their definitions say, is `MergeDefined` and
`MergeSortDefined`. `Firsts(s)` is the set of the tuples of `s` that are the first of their
key: to be stable is to keep it. `MergeMerges` shows by induction on both lengths that
merging ordered halves gives the firsts of the left half and those of the right half
whose keys the left one has not, `MergeSortSorts` by induction on the length that the sort
keeps all of them, and `DropRepeatedKeeps` by induction along the sequence that dropping
repeated keys leaves just them.

**A scan** (`RangeScanProofs`, on the lemmas of `SSTableProofs`).

- In every build and configuration: `ScanTypeOK`, `ScanHolesInSearchRange`,
  `ScanStopsWhenAllFound`. The invariant is `ScanInv`; its core is
  that the search range is always the asked range or what `ShrinkSearchRange` made of it,
  which is computed on ints that wrap: the range contains the keys not found even where
  its ends have wrapped.
- Under `Dependable`: `ScanFoundIsNewest`, `ScanNothingMissed` and
  `ScanJunkHidesNothingNewer`. `Dependable` says that one Bloom filter covers a file, as
  `Args.h:24` asks, and that the strings of `fastFPIndex` are alive when they are used
  (`Run.cpp:119`); the runs `scan_filters` and `scan_slots` show that neither can go.
  The invariant is `FoundInv`: of every source the scan has left, all asked keys are
  found (`NothingLeftBehind`), and each is found in the first source that has it, or, where
  the memory behind a file read as the key, before that source was reached
  (`FoundWhereFirst`). Such junk hides no copy in a newer source, nor in that file or an
  earlier one of the run; a copy in a later file of the run or in an older run it may hide,
  and that is what `scan_heap` is about. It rests on `ReadsWanted`: what `Collect` reads of a file contains
  every wanted key the file has, since the filter suggests it and the fences around it
  are those of its place.

**Files** (`DiskTreeProofs`).

- `LiveFilesAreWhole` and `LiveRunsAscend`, from the inductive invariant `DiskInv`
  (`DiskInvariant`). `FilesAreWhole` is about the disk and `RunsAscendAcrossFiles` about
  what is read from it; neither is inductive alone, since the runs a flush writes are
  made of what it reads. `DiskInv` says of the tree in memory that files have the names
  of their places and that their keys ascend over each run, and of the disk that it has
  under each such name what the file was created with. A flush preserves it: the names it
  deletes are of levels before its target, those it writes of a run that is not there
  yet, so neither is a live one (`OthersStay`, `NewRunOnDisk`). Nothing else is asked of
  the disk, which is why it does not matter how earlier trees ended and whether `unlink`
  works.
- `FlushDropsNothing`: `Spec => NothingDropped` where the size of a file is that of a whole
  number of tuples, the condition that `disk_sizes` shows to be needed. What is gathered
  are the keys of the buffer and of the merged levels (`GatheredReads`), the sort keeps
  them (`SortGives`), and the files hold them all (`FilesHoldAll`).
- `NoOrphansIfUnlinkWorks`: `Spec => NoFileLeftBehind` if `unlink` is always given the right
  name, so that the dangling pointer `disk_orphans` is about is the only cause of orphans:
  the names the merge passes are those of all files of the merged levels
  (`NamesAreOfFiles`), and no file written afterwards has one of them.
  `DirectoryStaysTheTree`: if moreover every tree is closed, the directory holds the files of
  the tree and no others. With a kill that fails, and is not claimed.

**The tree of files is the map** (`DiskTreeRefinement`).

- `DiskTreeStoresAsLSMTree`: `Spec => StoresAsLSMTree`, if the size of a file is a whole
  number of tuples. `disk_sizes` shows that the condition is needed. Nothing is asked of the
  memory that searches read.
- `DiskTreeImplementsLSMTree`: `Spec => ImplementsLSMTree`, if moreover one Bloom filter
  covers a file and the undefined reads of a search do no harm (`DependableReads`).
  `scan_filters` shows that the first of these is needed, `scan_slots` and `scan_heap` the
  two parts of the second. Nothing is asked, in either theorem, of `unlink` or of how
  earlier trees ended: on top of `DiskInv`, what is read of a live file is what was written.
  The argument looks at everything the tree holds as one sequence, newest first, and at the
  first copy of each key in it (`Leftmost`). `GatheredNewest` says that the first copies of
  what a flush gathers are those `LSMTree` gathers, `SortNewest` that the sort keeps them,
  `NewRunView` that the files it is cut into read back as that run; `FlushView` puts the new
  run into its level. For a search, `ScanHolds` is an invariant of the scan along the files
  it has been through: what is found are the first copies there, every asked key not found
  is within the search range, and it has stopped early only when all is found. A file keeps
  it by `CollectAnswers` (fences and filter let every wanted key through), then a run
  (`ScanRunHolds`), a level (`ScanLevelHolds`) and the tree (`SearchHolds`), so that the
  answer is `LSMTree`'s (`FoundRefines`).
- `DiskTreeImplementsKVStore`: with `ClientValues` in addition to those three conditions, the
  tree of files answers every call as the map does. Where `DependableReads` fails it does
  not. It is the theorem above and `TreeImplementsKVStore`, whose
  `LSMTree` is this one's image (`SameTree`).
- `DiskTreeKeepsCount`: likewise `EveryFlushCountedOnce` and `RunsGrowByMaxRuns`, of the image,
  under the condition of `DiskTreeStoresAsLSMTree` only.
- `MergesAreBounded`: `Spec => []MergeIsBounded` under the same single condition. The
  runs are counted in the image, a run on disk has as many tuples as its image has keys
  since its keys ascend strictly (`AscendingCount`, `RunCount`), and the lengths add up along
  what is gathered (`FlattenedLength`, `GatheredCount`).

Induction is that of `BasicProofs`: over a set given by the property (`InductionOnRank`),
from the induction principle of the numbers, since the library's own theorems take an
operator that no prover here can instantiate. `RecursiveFunction` is the theorem that a
recursive definition whose arguments go down in rank defines a function.

Only model-checked: `FindsAllInTheEnd`, as all liveness, which these provers do not reach (a
ranking on `at` would be the argument); and the hash, whose bits the proofs take as given.
Every other property of a passing run is stated by a theorem. `RunsGrowByMaxRuns` is proved
and not part of a run: with the two keys of `tree` no run could break it, and
`MergeIsBounded` says as much of the files.

## Not modelled

- `MurmurHashNeutral2`, the legacy `FencePointer`, `Operation` (parsing for a function
  that is commented out): unused by the store.
- Threads. The comment at `Buffer.cpp:15-17` speaks of concurrent appends; nothing in the
  repository starts a thread or takes a lock, so a model would be of a program
  that does not exist.
- Failing writes. `fopen` and `fwrite` are not checked: the code reacts to no failure, so
  there is no behaviour to model beyond the loss.
- Memory beyond the number of tuples a merge holds, which `MergeIsBounded` bounds: leaks, and
  allocations that fail.
- Calls that end the program, such as a scan of more than `INT_MAX` keys
  (`RangeScan!Askable`).
- Logging, tests, examples, tools, the vendored `clipp.h`.

## Plan

Done, in this order: codec, map, tree, its refinement and proofs; scan; sort; disk; the
hash and the filters; searches in `DiskTree`; the ends of a tree; ints that wrap; the
liveness of a scan; the proofs about sort, scan and files; the refinement of `LSMTree` by
the tree of files.

Then the counting of flushes, the bounds on runs and merges, what scans return, and what
becomes of files when `unlink` works.

Left: two `DB` objects in one directory, which write each other's files. No code of the
repository creates two.
