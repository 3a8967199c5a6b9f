--------------------------- MODULE RangeScanProofs --------------------------
(***************************************************************************)
(* What a range scan finds, for every tree, every asked range and every    *)
(* Bloom filter.                                                           *)
(*                                                                         *)
(* The inductive invariant has two halves.  ScanInv holds of every build   *)
(* and every configuration: what the position, the found keys and the      *)
(* search range can be.  FoundInv says of every source the scan has been   *)
(* at that all it had was taken, and needs two things of the code: that    *)
(* one filter covers a file, and that the two string temporaries of        *)
(* fastFPIndex read as they were written.                                  *)
(***************************************************************************)
EXTENDS RangeScan, SSTableProofs

(* A tree is a buffer and runs of files, and some range of keys is asked.  *)
TreeOK ==
  /\ buffer \in Seq(Key)
  /\ runs \in Seq(Seq(SSTFile) \ {<<>>})
  /\ \A r \in 1..Len(runs) : \A f \in 1..Len(runs[r]) :
       Len(runs[r][f]) <= max_tuples_per_file
  /\ asked \in [begin : Key, end : Key]
  /\ asked.begin <= asked.end

(* The scan is at the buffer, at a file or at the end of a run, or done.   *)
AtOK ==
  \/ at \in {AtBuffer, Done}
  \/ \E r \in 1..Len(runs) :
       \/ at = [source |-> "end", run |-> r]
       \/ \E f \in 1..Len(runs[r]) : at = [source |-> "file", run |-> r, file |-> f]

FoundOK ==
  /\ DOMAIN ret \subseteq Asked
  /\ \A k \in DOMAIN ret : ret[k] \in [run : 0..Len(runs), file : Nat, junk : BOOLEAN]
  /\ search \in [begin : Int, end : Int]

ScanInv == TreeOK /\ AtOK /\ FoundOK /\ HolesInSearchRange /\ StopsWhenAllFound

(* The files Collect has been called on.  At the end it counts as having   *)
(* been called on all of them: either it was or no hole was left.          *)
Visited(r, f) ==
  \/ at = Done
  \/ at.source = "end"  /\ r <= at.run
  \/ at.source = "file" /\ (r < at.run \/ (r = at.run /\ f < at.file))

(* Nothing asked was left behind where the scan has been.                  *)
NothingLeftBehind ==
  /\ at # AtBuffer => BufferKeys \cap Asked \subseteq DOMAIN ret
  /\ \A r \in 1..Len(runs) : \A f \in 1..Len(runs[r]) :
       Visited(r, f) => KeysIn(runs[r][f]) \cap Asked \subseteq DOMAIN ret

(* The keys of the buffer and of the runs.                                 *)
Sources == [r \in 0..Len(runs) |-> SourceKeys(r)]

(* No source newer than the one a key was found in has it, and none of the *)
(* files up to the one it was found behind.                                *)
FoundWhereFirst ==
  \A k \in DOMAIN ret :
    /\ ~ret[k].junk => k \in Sources[ret[k].run]
    /\ \A r \in 0..ret[k].run - 1 : k \notin Sources[r]
    /\ ret[k].junk => \A f \in 1..ret[k].file : k \notin KeysIn(runs[ret[k].run][f])

FoundInv == NothingLeftBehind /\ FoundWhereFirst

-----------------------------------------------------------------------------
(* Operators.                                                              *)

(* What an ascending run is made of is a file as a scan takes it to be.    *)
LEMMA AscendingIsFile ==
  ASSUME NEW keys \in SUBSET Key, keys # {}
  PROVE  Ascending(keys) \in SSTFile
<1> DEFINE n == Cardinality(keys)
           s == Ascending(keys)
<1>1. /\ n \in Nat /\ IsFiniteSet(keys)
      /\ \E t \in [1..n -> keys] : \A i, j \in DOMAIN t : i < j => t[i] < t[j]
  BY AscendingExists, SSTableAssumption
<1>2. n # 0
  BY <1>1, FS_EmptySet
<1>3. s \in [1..n -> keys] /\ \A i, j \in DOMAIN s : i < j => s[i] < s[j]
  BY <1>1 DEF Ascending
<1> HIDE DEF n, s
<1>4. s \in Seq(Key) /\ Len(s) = n
  BY <1>1, <1>3
<1>5. s # <<>>
  BY <1>2, <1>4
<1> QED
  BY <1>3, <1>4, <1>5 DEF SSTFile, s

(* Every tree a scan starts with is one.                                   *)
LEMMA RunsOfKeysOK ==
  ASSUME NEW run \in RunsOfKeys
  PROVE  /\ run \in Seq(SSTFile) \ {<<>>}
         /\ \A f \in 1..Len(run) : Len(run[f]) <= max_tuples_per_file
<1>1. PICK keys \in (SUBSET Key) \ {{}} : run = Files(Ascending(keys))
  BY DEF RunsOfKeys
<1>2. Ascending(keys) \in SSTFile
  BY AscendingIsFile
<1> QED
  BY <1>1, <1>2, FilesOfRun

(* The asked range is made of keys.                                        *)
LEMMA AskedAreKeys ==
  ASSUME TreeOK
  PROVE  /\ Asked \in SUBSET Key
         /\ asked.begin \in Int /\ asked.end \in Int
         /\ Asked = asked.begin..asked.end
<1>1. asked.begin \in Key /\ asked.end \in Key /\ Asked = asked.begin..asked.end
  BY DEF TreeOK, Asked, Within
<1> QED
  BY <1>1, KeysAreInts, SSTableAssumption

-----------------------------------------------------------------------------
(* Positions.                                                              *)

(* The lengths of the runs and the files of a tree.                        *)
LEMMA RunFacts ==
  ASSUME TreeOK
  PROVE  /\ Len(runs) \in Nat
         /\ \A r \in 1..Len(runs) :
              /\ Len(runs[r]) \in Nat \ {0}
              /\ \A f \in 1..Len(runs[r]) :
                   runs[r][f] \in SSTFile /\ Len(runs[r][f]) <= max_tuples_per_file
<1>1. runs \in Seq(Seq(SSTFile) \ {<<>>})
  BY DEF TreeOK
<1>2. Len(runs) \in Nat
  BY <1>1
<1>3. ASSUME NEW r \in 1..Len(runs)
      PROVE  /\ Len(runs[r]) \in Nat \ {0}
             /\ \A f \in 1..Len(runs[r]) : runs[r][f] \in SSTFile
  <2>1. runs[r] \in Seq(SSTFile) \ {<<>>}
    BY <1>1, <1>3
  <2> QED
    BY <2>1, EmptySeq
<1> QED
  BY <1>2, <1>3 DEF TreeOK

(* A scan is then at the first file of a run, or done.                     *)
LEMMA NextRun ==
  ASSUME TreeOK, NEW r \in Nat \ {0}
  PROVE  \/ r > Len(runs) /\ AtRun(r) = Done
         \/ /\ r \in 1..Len(runs) /\ 1 \in 1..Len(runs[r])
            /\ AtRun(r) = [source |-> "file", run |-> r, file |-> 1]
  BY RunFacts DEF AtRun

(* After a file comes the next one of the run, or the run's end.           *)
LEMMA NextFile ==
  ASSUME TreeOK, NEW r \in 1..Len(runs), NEW f \in 1..Len(runs[r])
  PROVE  \/ f = Len(runs[r]) /\ AtFile(r, f + 1) = [source |-> "end", run |-> r]
         \/ /\ f + 1 \in 1..Len(runs[r])
            /\ AtFile(r, f + 1) = [source |-> "file", run |-> r, file |-> f + 1]
  BY RunFacts DEF AtFile

(* What only depends on the tree and the asked range stays with them.      *)
LEMMA Unchanged ==
  ASSUME UNCHANGED tree
  PROVE  /\ buffer' = buffer /\ runs' = runs /\ asked' = asked
         /\ Asked' = Asked /\ BufferKeys' = BufferKeys
         /\ TreeOK => TreeOK'
         /\ Sources' = Sources
<1>1. buffer' = buffer /\ runs' = runs /\ asked' = asked
  BY DEF tree
<1> QED
  BY <1>1 DEF Asked, Within, BufferKeys, KeysIn, TreeOK, Sources, SourceKeys, RunKeys

-----------------------------------------------------------------------------
(* What the three actions do, of any build and configuration.              *)

(* Buffer::Scan takes every asked key of the buffer, and goes on only if   *)
(* there is a hole left.                                                   *)
LEMMA ScanBufferFacts ==
  ASSUME ScanInv, ScanBuffer
  PROVE  /\ UNCHANGED tree
         /\ at = AtBuffer
         /\ DOMAIN ret' = DOMAIN ret \cup (BufferKeys \cap Asked)
         /\ \A k \in DOMAIN ret : ret'[k] = ret[k]
         /\ \A k \in DOMAIN ret' \ DOMAIN ret : ret'[k] = InBuffer
         /\ \/ at' = Done /\ search' = search /\ Asked \subseteq DOMAIN ret'
            \/ /\ at' = AtRun(1)
               /\ search' = ShrinkSearchRange(asked, DOMAIN ret')
               /\ Asked \ DOMAIN ret' # {}
<1>1. TreeOK /\ DOMAIN ret \subseteq Asked
  BY DEF ScanInv, FoundOK
<1>2. ret' = Collected(ret, BufferKeys, InBuffer)
  BY DEF ScanBuffer
<1>3. /\ DOMAIN ret' = DOMAIN ret \cup (BufferKeys \cap Asked)
      /\ \A k \in DOMAIN ret : ret'[k] = ret[k]
      /\ \A k \in DOMAIN ret' \ DOMAIN ret : ret'[k] = InBuffer
  BY <1>2 DEF Collected
<1>4. IsFiniteSet(Asked) /\ DOMAIN ret' \in SUBSET Asked
  BY <1>1, <1>3, AskedAreKeys, FS_Interval
<1>5. CASE Cardinality(DOMAIN ret') = Cardinality(Asked)
  <2>1. Asked = DOMAIN ret'
    BY <1>4, <1>5, FS_Subset
  <2> QED
    BY <1>3, <1>5, <2>1 DEF ScanBuffer
<1>6. CASE Cardinality(DOMAIN ret') # Cardinality(Asked)
  <2>1. Asked \ DOMAIN ret' # {}
    BY <1>4, <1>6
  <2> QED
    BY <1>3, <1>6, <2>1 DEF ScanBuffer
<1> QED
  BY <1>5, <1>6

(* Collect takes keys of the one file it is at, and junk.                  *)
LEMMA CollectFileFacts ==
  ASSUME ScanInv, CollectFile
  PROVE  /\ UNCHANGED <<tree, search>>
         /\ at.run \in 1..Len(runs) /\ at.file \in 1..Len(runs[at.run])
         /\ at = [source |-> "file", run |-> at.run, file |-> at.file]
         /\ at' = AtFile(at.run, at.file + 1)
         /\ DOMAIN ret \subseteq DOMAIN ret' /\ DOMAIN ret' \subseteq Asked
         /\ \A k \in DOMAIN ret : ret'[k] = ret[k]
         /\ \A k \in DOMAIN ret' \ DOMAIN ret :
              \/ ret'[k] = Behind(at.run, at.file)
              \/ ret'[k] = InFile(at.run, at.file) /\ k \in KeysIn(runs[at.run][at.file])
<1>1. /\ at.source = "file" /\ at' = AtFile(at.run, at.file + 1)
      /\ UNCHANGED <<tree, search>>
  BY DEF CollectFile
<1>2. /\ at.run \in 1..Len(runs) /\ at.file \in 1..Len(runs[at.run])
      /\ at = [source |-> "file", run |-> at.run, file |-> at.file]
  BY <1>1 DEF ScanInv, AtOK, AtBuffer, Done
<1>3. TreeOK /\ DOMAIN ret \subseteq Asked /\ search \in [begin : Int, end : Int]
  BY DEF ScanInv, FoundOK
<1> DEFINE file == runs[at.run][at.file]
<1>4. file \in SSTFile /\ Holes \in SUBSET Key
  BY <1>2, <1>3, RunFacts, AskedAreKeys DEF Holes
<1> HIDE DEF file
<1>5. CASE ret' = ret
  BY <1>1, <1>2, <1>3, <1>5
<1>6. ASSUME NEW read \in Reads(file, search, Holes),
             ret' = Collected(Collected(ret, KeysIn(read.keys), InFile(at.run, at.file)),
                              read.junk, Behind(at.run, at.file))
      PROVE  /\ DOMAIN ret \subseteq DOMAIN ret' /\ DOMAIN ret' \subseteq Asked
             /\ \A k \in DOMAIN ret : ret'[k] = ret[k]
             /\ \A k \in DOMAIN ret' \ DOMAIN ret :
                  \/ ret'[k] = Behind(at.run, at.file)
                  \/ ret'[k] = InFile(at.run, at.file) /\ k \in KeysIn(file)
  <2> DEFINE once == Collected(ret, KeysIn(read.keys), InFile(at.run, at.file))
  <2>1. KeysIn(read.keys) \subseteq KeysIn(file)
    BY <1>3, <1>4, ReadsOnlyTheFile DEF KeysIn
  <2>2. /\ DOMAIN once = DOMAIN ret \cup (KeysIn(read.keys) \cap Asked)
        /\ \A k \in DOMAIN ret : once[k] = ret[k]
        /\ \A k \in DOMAIN once \ DOMAIN ret :
             k \in KeysIn(read.keys) /\ once[k] = InFile(at.run, at.file)
    BY DEF Collected
  <2> HIDE DEF once
  <2>3. ret' = Collected(once, read.junk, Behind(at.run, at.file))
    BY <1>6 DEF once
  <2>4. /\ DOMAIN ret' = DOMAIN once \cup (read.junk \cap Asked)
        /\ \A k \in DOMAIN once : ret'[k] = once[k]
        /\ \A k \in DOMAIN ret' \ DOMAIN once : ret'[k] = Behind(at.run, at.file)
    BY <2>3 DEF Collected
  <2> QED
    BY <1>3, <2>1, <2>2, <2>4
<1>7. \/ ret' = ret
      \/ \E read \in Reads(file, search, Holes) :
           ret' = Collected(Collected(ret, KeysIn(read.keys), InFile(at.run, at.file)),
                            read.junk, Behind(at.run, at.file))
  BY DEF CollectFile, file
<1> QED
  BY <1>1, <1>2, <1>5, <1>6, <1>7 DEF file

(* The end of Run::Scan stops only if no hole is left, and goes on without *)
(* one only if the asked range touches the end of the ints.                *)
LEMMA FinishRunFacts ==
  ASSUME ScanInv, FinishRun
  PROVE  /\ UNCHANGED <<tree, ret>>
         /\ at.run \in 1..Len(runs)
         /\ at = [source |-> "end", run |-> at.run]
         /\ search' = ShrinkSearchRange(asked, DOMAIN ret)
         /\ \/ at' = Done /\ Holes = {}
            \/ /\ at' = AtRun(at.run + 1)
               /\ Holes = {} => asked.end = IntMax \/ asked.begin = IntMin
<1>1. /\ at.source = "end" /\ UNCHANGED <<tree, ret>>
      /\ search' = ShrinkSearchRange(asked, DOMAIN ret)
      /\ \/ search'.begin > search'.end /\ at' = Done
         \/ ~(search'.begin > search'.end) /\ at' = AtRun(at.run + 1)
  BY DEF FinishRun
<1>2. at.run \in 1..Len(runs) /\ at = [source |-> "end", run |-> at.run]
  BY <1>1 DEF ScanInv, AtOK, AtBuffer, Done
<1>3. /\ asked.begin \in Key /\ asked.end \in Key /\ asked.begin <= asked.end
      /\ asked \in [begin : Int, end : Int] /\ Holes = Within(asked) \ DOMAIN ret
  BY KeysAreInts DEF ScanInv, TreeOK, Holes, Asked
<1>4. search' \in [begin : Int, end : Int]
  BY <1>1, <1>3, ShrunkRange
<1>5. Holes # {} => search'.begin <= search'.end
  BY <1>1, <1>3, ShrunkRange
<1>6. Holes = {} =>
        search' = [begin |-> Wrap(asked.end + 1), end |-> Wrap(asked.begin - 1)]
  BY <1>1, <1>3, ShrunkRange
<1>7. ASSUME Holes = {}, asked.end # IntMax, asked.begin # IntMin
      PROVE  search'.begin > search'.end
  <2>1. /\ asked.begin \in IntMin..IntMax /\ asked.end \in IntMin..IntMax
        /\ IntMin \in Int /\ IntMax \in Int
    BY <1>3, SSTableAssumption
  <2>2. Wrap(asked.end + 1) = asked.end + 1 /\ Wrap(asked.begin - 1) = asked.begin - 1
    BY <1>7, <2>1 DEF Wrap
  <2> QED
    BY <1>3, <1>6, <1>7, <2>1, <2>2
<1> QED
  BY <1>1, <1>2, <1>4, <1>5, <1>7

-----------------------------------------------------------------------------
(* ScanInv is inductive.                                                   *)

(* ScanInv holds when a scan begins, and each of its steps keeps it.       *)
LEMMA InitScan == Init => ScanInv
<1> SUFFICES ASSUME Init PROVE ScanInv
  OBVIOUS
<1>1. buffer \in Seq(Key)
  BY DEF Init
<1>2. PICK n \in Nat : runs \in [1..n -> RunsOfKeys]
  BY ScanAssumption DEF Init
<1>3. /\ runs \in Seq(Seq(SSTFile) \ {<<>>})
      /\ \A r \in 1..Len(runs) : \A f \in 1..Len(runs[r]) :
           Len(runs[r][f]) <= max_tuples_per_file
  BY <1>2, RunsOfKeysOK
<1>4. asked \in [begin : Key, end : Key] /\ asked.begin <= asked.end
  BY DEF Init, Askable
<1>5. TreeOK
  BY <1>1, <1>3, <1>4 DEF TreeOK
<1>6. at = AtBuffer
  BY DEF Init
<1>7. DOMAIN ret = {} /\ search \in [begin : Int, end : Int]
  BY <1>4, KeysAreInts DEF Init
<1>8. FoundOK
  BY <1>7 DEF FoundOK
<1> QED
  BY <1>5, <1>6, <1>8
  DEF ScanInv, AtOK, AtBuffer, HolesInSearchRange, StopsWhenAllFound

(* Buffer::Scan: the buffer is the first source.                           *)
LEMMA ScanBufferKeeps ==
  ASSUME ScanInv, ScanBuffer
  PROVE  ScanInv'
<1>1. /\ UNCHANGED tree /\ TreeOK /\ DOMAIN ret \subseteq Asked
      /\ \A k \in DOMAIN ret : ret[k] \in [run : 0..Len(runs), file : Nat, junk : BOOLEAN]
      /\ search \in [begin : Int, end : Int]
  BY ScanBufferFacts DEF ScanInv, FoundOK
<1>2. /\ DOMAIN ret' = DOMAIN ret \cup (BufferKeys \cap Asked)
      /\ \A k \in DOMAIN ret : ret'[k] = ret[k]
      /\ \A k \in DOMAIN ret' \ DOMAIN ret : ret'[k] = InBuffer
      /\ \/ at' = Done /\ search' = search /\ Asked \subseteq DOMAIN ret'
         \/ /\ at' = AtRun(1)
            /\ search' = ShrinkSearchRange(asked, DOMAIN ret')
            /\ Asked \ DOMAIN ret' # {}
  BY ScanBufferFacts
<1>3. /\ buffer' = buffer /\ runs' = runs /\ asked' = asked
      /\ Asked' = Asked /\ TreeOK'
  BY <1>1, Unchanged
<1>4. asked \in [begin : Int, end : Int] /\ Asked = Within(asked)
  BY <1>1, KeysAreInts DEF TreeOK, Asked
<1>5. search' \in [begin : Int, end : Int]
  BY <1>1, <1>2, <1>4, ShrunkRange
<1>6. FoundOK'
  <2>1. InBuffer \in [run : 0..Len(runs), file : Nat, junk : BOOLEAN]
    BY <1>1, RunFacts DEF InBuffer
  <2>2. \A k \in DOMAIN ret' : ret'[k] \in [run : 0..Len(runs), file : Nat, junk : BOOLEAN]
    BY <1>1, <1>2, <2>1
  <2>3. DOMAIN ret' \subseteq Asked
    BY <1>1, <1>2
  <2> QED
    BY <1>3, <1>5, <2>2, <2>3 DEF FoundOK
<1>7. \/ at' = Done
      \/ 1 \in 1..Len(runs) /\ 1 \in 1..Len(runs[1])
         /\ at' = [source |-> "file", run |-> 1, file |-> 1]
  BY <1>1, <1>2, NextRun DEF AtRun
<1>8. AtOK'
  BY <1>3, <1>7 DEF AtOK, Done, AtBuffer
<1>9. HolesInSearchRange'
  <2>1. CASE at' = Done
    BY <2>1 DEF HolesInSearchRange, Done
  <2>2. CASE at' # Done
    <3>1. search' = ShrinkSearchRange(asked, DOMAIN ret')
      BY <1>2, <2>2
    <3>2. \A k \in Asked \ DOMAIN ret' : search'.begin <= k /\ k <= search'.end
      BY <1>4, <3>1, ShrunkRange
    <3> QED
      BY <1>3, <3>2 DEF HolesInSearchRange, Holes
  <2> QED
    BY <2>1, <2>2
<1>10. StopsWhenAllFound'
  BY <1>2, <1>3 DEF StopsWhenAllFound, Holes, Done
<1> QED
  BY <1>3, <1>6, <1>8, <1>9, <1>10 DEF ScanInv

(* FileMetaData::Collect leaves the search range as it is.                 *)
LEMMA CollectFileKeeps ==
  ASSUME ScanInv, CollectFile
  PROVE  ScanInv'
<1>1. /\ UNCHANGED tree /\ TreeOK /\ DOMAIN ret \subseteq Asked
      /\ \A k \in DOMAIN ret : ret[k] \in [run : 0..Len(runs), file : Nat, junk : BOOLEAN]
      /\ search \in [begin : Int, end : Int] /\ search' = search
  BY CollectFileFacts DEF ScanInv, FoundOK
<1> DEFINE r == at.run
           f == at.file
<1>2. /\ r \in 1..Len(runs) /\ f \in 1..Len(runs[r])
      /\ at = [source |-> "file", run |-> r, file |-> f]
      /\ at' = AtFile(r, f + 1)
      /\ DOMAIN ret \subseteq DOMAIN ret' /\ DOMAIN ret' \subseteq Asked
      /\ \A k \in DOMAIN ret : ret'[k] = ret[k]
      /\ \A k \in DOMAIN ret' \ DOMAIN ret : ret'[k] \in {Behind(r, f), InFile(r, f)}
  BY CollectFileFacts
<1> HIDE DEF r, f
<1>3. /\ runs' = runs /\ asked' = asked /\ Asked' = Asked /\ TreeOK'
  BY <1>1, Unchanged
<1>4. FoundOK'
  <2>1. {InFile(r, f), Behind(r, f)} \subseteq [run : 0..Len(runs), file : Nat, junk : BOOLEAN]
    BY <1>1, <1>2, RunFacts DEF InFile, Behind
  <2>2. \A k \in DOMAIN ret' : ret'[k] \in [run : 0..Len(runs), file : Nat, junk : BOOLEAN]
    BY <1>1, <1>2, <2>1
  <2> QED
    BY <1>1, <1>2, <1>3, <2>2 DEF FoundOK
<1>5. \/ at' = [source |-> "end", run |-> r]
      \/ f + 1 \in 1..Len(runs[r]) /\ f + 1 # 1
         /\ at' = [source |-> "file", run |-> r, file |-> f + 1]
  <2>1. f \in Nat \ {0}
    BY <1>1, <1>2, RunFacts
  <2> QED
    BY <1>1, <1>2, <2>1, NextFile DEF AtFile
<1>6. AtOK'
  BY <1>2, <1>3, <1>5 DEF AtOK, Done, AtBuffer
<1>7. HolesInSearchRange'
  <2>1. \A k \in Holes : search.begin <= k /\ k <= search.end
    BY <1>2 DEF ScanInv, HolesInSearchRange
  <2>2. Holes' \subseteq Holes
    BY <1>2, <1>3 DEF Holes
  <2> QED
    BY <1>1, <2>1, <2>2 DEF HolesInSearchRange
<1>8. StopsWhenAllFound'
  BY <1>5 DEF StopsWhenAllFound
<1> QED
  BY <1>3, <1>4, <1>6, <1>7, <1>8 DEF ScanInv

(* The end of a run shrinks the search range to the keys not found.        *)
LEMMA FinishRunKeeps ==
  ASSUME ScanInv, FinishRun
  PROVE  ScanInv'
<1>1. /\ UNCHANGED tree /\ ret' = ret /\ TreeOK /\ FoundOK
      /\ at.run \in 1..Len(runs)
      /\ search' = ShrinkSearchRange(asked, DOMAIN ret)
      /\ \/ at' = Done /\ Holes = {}
         \/ /\ at' = AtRun(at.run + 1)
            /\ Holes = {} => asked.end = IntMax \/ asked.begin = IntMin
  BY FinishRunFacts DEF ScanInv
<1>2. /\ runs' = runs /\ asked' = asked /\ Asked' = Asked /\ TreeOK' /\ Holes' = Holes
  BY <1>1, Unchanged DEF Holes
<1>3. /\ asked \in [begin : Int, end : Int]
      /\ Holes = Within(asked) \ DOMAIN ret
  BY <1>1, KeysAreInts DEF TreeOK, Holes, Asked
<1>4. /\ search' \in [begin : Int, end : Int]
      /\ \A k \in Holes : search'.begin <= k /\ k <= search'.end
  BY <1>1, <1>3, ShrunkRange
<1>5. FoundOK'
  BY <1>1, <1>2, <1>4 DEF FoundOK
<1>6. AtOK'
  <2> DEFINE r == at.run + 1
  <2>1. r \in Nat \ {0}
    BY <1>1, RunFacts
  <2>2. \/ at' = Done
        \/ r \in 1..Len(runs) /\ 1 \in 1..Len(runs[r])
           /\ at' = [source |-> "file", run |-> r, file |-> 1]
    BY <1>1, <2>1, NextRun DEF AtRun
  <2> HIDE DEF r
  <2> QED
    BY <1>2, <2>2 DEF AtOK, Done, AtBuffer
<1>7. HolesInSearchRange'
  BY <1>2, <1>4 DEF HolesInSearchRange
<1>8. StopsWhenAllFound'
  BY <1>1, <1>2 DEF StopsWhenAllFound, Done
<1> QED
  BY <1>2, <1>5, <1>6, <1>7, <1>8 DEF ScanInv

(* So every step does.                                                     *)
LEMMA StepScan == ScanInv /\ [Next]_vars => ScanInv'
<1> SUFFICES ASSUME ScanInv, [Next]_vars PROVE ScanInv'
  OBVIOUS
<1>1. CASE ScanBuffer
  BY <1>1, ScanBufferKeeps
<1>2. CASE CollectFile
  BY <1>2, CollectFileKeeps
<1>3. CASE FinishRun
  BY <1>3, FinishRunKeeps
<1>4. CASE UNCHANGED vars
  BY <1>4 DEF vars, ScanInv, TreeOK, AtOK, FoundOK, HolesInSearchRange,
              StopsWhenAllFound, Holes, Asked
<1> QED
  BY <1>1, <1>2, <1>3, <1>4 DEF Next

(* What a scan is at and has found is always well formed.                  *)
THEOREM ScanInvariant == Spec => []ScanInv
  BY InitScan, StepScan, PTL DEF Spec

-----------------------------------------------------------------------------
(* FoundInv is inductive, given ScanInv.                                   *)

(* What the code must provide: one filter covers a file (Args.h:24), and   *)
(* the two strings of fastFPIndex are still what they were (Run.cpp:119).  *)
Dependable == OneFilterPerFile /\ StringSlots = {"own"}

(* Collect then takes every asked key of the file it is at, and takes it   *)
(* from the file.                                                          *)
LEMMA CollectFileTakesAll ==
  ASSUME Dependable, ScanInv, CollectFile
  PROVE  /\ KeysIn(runs[at.run][at.file]) \cap Asked \subseteq DOMAIN ret'
         /\ \A k \in (KeysIn(runs[at.run][at.file]) \cap Asked) \ DOMAIN ret :
              ret'[k] = InFile(at.run, at.file)
<1> DEFINE file == runs[at.run][at.file]
<1>1. /\ at.source = "file" /\ at.run \in 1..Len(runs) /\ at.file \in 1..Len(runs[at.run])
      /\ DOMAIN ret \subseteq DOMAIN ret'
  BY CollectFileFacts DEF CollectFile
<1>2. TreeOK /\ search \in [begin : Int, end : Int] /\ Holes \in SUBSET Key
  BY AskedAreKeys DEF ScanInv, FoundOK, Holes
<1>3. file \in SSTFile /\ Len(file) <= BFNumTuples
  <2>1. file \in SSTFile /\ Len(file) <= max_tuples_per_file
    BY <1>1, <1>2, RunFacts
  <2>2. /\ max_tuples_per_file <= BFNumTuples
        /\ max_tuples_per_file \in Int /\ BFNumTuples \in Int
    BY SSTableAssumption DEF Dependable, OneFilterPerFile, max_tuples_per_file
  <2> HIDE DEF file
  <2>3. Len(file) \in Int
    BY <2>1, FileFacts
  <2> QED
    BY <2>1, <2>2, <2>3
<1>4. \/ Reads(file, search, Holes) = {}
      \/ \E read \in Reads(file, search, Holes) :
           ret' = Collected(Collected(ret, KeysIn(read.keys), InFile(at.run, at.file)),
                            read.junk, Behind(at.run, at.file))
  BY DEF CollectFile
<1> HIDE DEF file
<1> SUFFICES ASSUME NEW k \in KeysIn(file) \cap Asked, k \notin DOMAIN ret
             PROVE  k \in DOMAIN ret' /\ ret'[k] = InFile(at.run, at.file)
  BY <1>1 DEF file
<1>5. k \in Holes /\ search.begin <= k /\ k <= search.end
  BY <1>1 DEF Holes, ScanInv, HolesInSearchRange
<1>6. PICK p \in 1..Len(file) : file[p] = k
  BY DEF KeysIn
<1>7. /\ Reads(file, search, Holes) # {}
      /\ \A read \in Reads(file, search, Holes) :
           \E i \in DOMAIN read.keys : read.keys[i] = k
  <2>1. /\ file[p] \in Holes /\ search.begin <= file[p] /\ file[p] <= search.end
        /\ StringSlots = {"own"}
    BY <1>5, <1>6 DEF Dependable
  <2>2. /\ Reads(file, search, Holes) # {}
        /\ \A read \in Reads(file, search, Holes) :
             \E i \in DOMAIN read.keys : read.keys[i] = file[p]
    BY <1>2, <1>3, <2>1, ReadsWanted, ZenonT(30)
  <2> QED
    BY <1>6, <2>2
<1>8. PICK read \in Reads(file, search, Holes) :
        ret' = Collected(Collected(ret, KeysIn(read.keys), InFile(at.run, at.file)),
                         read.junk, Behind(at.run, at.file))
  BY <1>4, <1>7
<1>9. k \in KeysIn(read.keys)
  <2>1. read.keys \in Seq(Key)
    BY <1>2, <1>3, ReadsOnlyTheFile
  <2> QED
    BY <1>7, <2>1 DEF KeysIn
<1> QED
  BY <1>8, <1>9 DEF Collected

(* FoundInv holds when a scan begins, and each of its steps keeps it.      *)
LEMMA InitFound == Init => FoundInv
  BY DEF Init, FoundInv, NothingLeftBehind, FoundWhereFirst, Visited, AtBuffer, Done

(* All asked keys of the buffer are found there.                           *)
LEMMA ScanBufferFinds ==
  ASSUME ScanInv, FoundInv, ScanBuffer
  PROVE  FoundInv'
<1>1. /\ UNCHANGED tree /\ at = AtBuffer /\ TreeOK
      /\ DOMAIN ret' = DOMAIN ret \cup (BufferKeys \cap Asked)
      /\ \A k \in DOMAIN ret : ret'[k] = ret[k]
      /\ \A k \in DOMAIN ret' \ DOMAIN ret : ret'[k] = InBuffer
      /\ \/ at' = Done /\ Asked \subseteq DOMAIN ret'
         \/ at' = AtRun(1)
  BY ScanBufferFacts DEF ScanInv
<1>2. /\ runs' = runs /\ Asked' = Asked /\ BufferKeys' = BufferKeys
      /\ Sources' = Sources
  BY <1>1, Unchanged
<1>3. ASSUME NEW r \in 1..Len(runs), NEW f \in 1..Len(runs[r]), Visited(r, f)'
      PROVE  Asked \subseteq DOMAIN ret'
  <2>1. Len(runs) \in Nat /\ Len(runs[r]) \in Nat
    BY <1>1, RunFacts
  <2>2. ~(at' = Done /\ 1 > Len(runs))
    BY <2>1
  <2>3. at' # [source |-> "file", run |-> 1, file |-> 1]
    BY <1>3, <2>1 DEF Visited, Done
  <2> QED
    BY <1>1, <2>1, <2>2, <2>3 DEF AtRun
<1>4. NothingLeftBehind'
  BY <1>1, <1>2, <1>3 DEF NothingLeftBehind, KeysIn
<1>5. FoundWhereFirst'
  <2>1. ASSUME NEW k \in DOMAIN ret' \ DOMAIN ret
        PROVE  /\ k \in Sources[ret'[k].run] /\ 0..ret'[k].run - 1 = {}
               /\ ~ret'[k].junk
    <3>1. k \in BufferKeys /\ ret'[k].run = 0 /\ ~ret'[k].junk
      BY <1>1, <2>1 DEF InBuffer
    <3>2. Sources[0] = BufferKeys
      BY <1>1, RunFacts DEF Sources, SourceKeys
    <3> QED
      BY <3>1, <3>2
  <2> QED
    BY <1>1, <1>2, <2>1 DEF FoundInv, FoundWhereFirst
<1> QED
  BY <1>4, <1>5 DEF FoundInv

(* All asked keys of the file are found, those before by newer sources.    *)
LEMMA CollectFileFinds ==
  ASSUME Dependable, ScanInv, FoundInv, CollectFile
  PROVE  FoundInv'
<1>1. /\ UNCHANGED tree /\ TreeOK
      /\ at.run \in 1..Len(runs) /\ at.file \in 1..Len(runs[at.run])
      /\ at = [source |-> "file", run |-> at.run, file |-> at.file]
      /\ at' = AtFile(at.run, at.file + 1)
      /\ DOMAIN ret \subseteq DOMAIN ret' /\ DOMAIN ret' \subseteq Asked
      /\ \A k \in DOMAIN ret : ret'[k] = ret[k]
      /\ \A k \in DOMAIN ret' \ DOMAIN ret :
           \/ ret'[k] = Behind(at.run, at.file)
           \/ ret'[k] = InFile(at.run, at.file) /\ k \in KeysIn(runs[at.run][at.file])
      /\ KeysIn(runs[at.run][at.file]) \cap Asked \subseteq DOMAIN ret'
      /\ \A k \in (KeysIn(runs[at.run][at.file]) \cap Asked) \ DOMAIN ret :
           ret'[k] = InFile(at.run, at.file)
  BY CollectFileFacts, CollectFileTakesAll DEF ScanInv
<1> DEFINE r == at.run
           f == at.file
<1>2. /\ runs' = runs /\ Asked' = Asked /\ BufferKeys' = BufferKeys
      /\ Sources' = Sources
  BY <1>1, Unchanged
<1>3. /\ Len(runs) \in Nat /\ r \in Nat \ {0} /\ f \in Nat \ {0}
      /\ \A q \in 1..Len(runs) : Len(runs[q]) \in Nat
  BY <1>1, RunFacts
<1>4. \/ f = Len(runs[r]) /\ at' = [source |-> "end", run |-> r]
      \/ at' = [source |-> "file", run |-> r, file |-> f + 1]
  BY <1>1, NextFile DEF AtFile
<1> HIDE DEF r, f
<1>5. ASSUME NEW q \in 1..Len(runs), NEW g \in 1..Len(runs[q]), Visited(q, g)'
      PROVE  Visited(q, g) \/ (q = r /\ g = f)
  <2>1. q < r \/ (q = r /\ g <= f)
    BY <1>3, <1>4, <1>5 DEF Visited, Done
  <2> QED
    BY <1>1, <1>3, <2>1 DEF Visited, r, f
<1>6. NothingLeftBehind'
  <2>1. BufferKeys \cap Asked \subseteq DOMAIN ret
    BY <1>1 DEF FoundInv, NothingLeftBehind, AtBuffer
  <2>2. \A q \in 1..Len(runs) : \A g \in 1..Len(runs[q]) :
          Visited(q, g) => KeysIn(runs[q][g]) \cap Asked \subseteq DOMAIN ret
    BY DEF FoundInv, NothingLeftBehind
  <2>3. ASSUME NEW q \in 1..Len(runs), NEW g \in 1..Len(runs[q]), Visited(q, g)'
        PROVE  KeysIn(runs[q][g]) \cap Asked \subseteq DOMAIN ret'
    <3>1. DOMAIN ret \subseteq DOMAIN ret'
      BY <1>1
    <3>2. KeysIn(runs[r][f]) \cap Asked \subseteq DOMAIN ret'
      BY <1>1 DEF r, f
    <3>3. CASE Visited(q, g)
      BY <2>2, <3>1, <3>3
    <3>4. CASE q = r /\ g = f
      BY <3>2, <3>4
    <3> QED
      BY <1>5, <2>3, <3>3, <3>4
  <2>4. BufferKeys \cap Asked \subseteq DOMAIN ret'
    BY <1>1, <2>1
  <2>5. (BufferKeys \cap Asked \subseteq DOMAIN ret)'
    BY <1>2, <2>4
  <2>6. \A q \in 1..Len(runs) : \A g \in 1..Len(runs[q]) :
          Visited(q, g)' => (KeysIn(runs[q][g]) \cap Asked \subseteq DOMAIN ret)'
    <3> SUFFICES ASSUME NEW q \in 1..Len(runs), NEW g \in 1..Len(runs[q]), Visited(q, g)'
                 PROVE  (KeysIn(runs[q][g]) \cap Asked \subseteq DOMAIN ret)'
      OBVIOUS
    <3>1. KeysIn(runs[q][g]) \cap Asked \subseteq DOMAIN ret'
      BY <2>3
    <3>2. KeysIn(runs[q][g])' = KeysIn(runs[q][g])
      BY <1>2 DEF KeysIn
    <3> QED
      BY <1>2, <3>1, <3>2
  <2> QED
    BY <1>2, <2>5, <2>6 DEF NothingLeftBehind
<1>7. ASSUME NEW k \in Asked \ DOMAIN ret, NEW q \in 0..r - 1
      PROVE  k \notin Sources[q]
  <2>1. CASE q = 0
    <3>1. k \notin BufferKeys
      BY <1>1, <1>7 DEF FoundInv, NothingLeftBehind, AtBuffer
    <3> QED
      BY <1>3, <2>1, <3>1 DEF Sources, SourceKeys
  <2>2. CASE q # 0
    <3>1. q \in 1..Len(runs) /\ q < r
      BY <1>1, <1>3, <2>2 DEF r
    <3>2. \A g \in 1..Len(runs[q]) : Visited(q, g)
      BY <1>1, <3>1 DEF Visited, r
    <3>3. \A g \in 1..Len(runs[q]) : k \notin KeysIn(runs[q][g])
      BY <1>7, <3>1, <3>2 DEF FoundInv, NothingLeftBehind
    <3> QED
      BY <2>2, <3>1, <3>3 DEF Sources, SourceKeys, RunKeys
  <2> QED
    BY <2>1, <2>2
<1>8. ASSUME NEW k \in DOMAIN ret' \ DOMAIN ret, ret'[k].junk
      PROVE  k \notin KeysIn(runs[r][f])
  BY <1>1, <1>8 DEF InFile, r, f
<1>9. ASSUME NEW k \in DOMAIN ret' \ DOMAIN ret
      PROVE  /\ ret'[k].run = r
             /\ ~ret'[k].junk => k \in Sources[r]
             /\ \A q \in 0..r - 1 : k \notin Sources[q]
             /\ ret'[k].junk => \A g \in 1..ret'[k].file : k \notin KeysIn(runs[r][g])
  <2>1. \A q \in 0..r - 1 : k \notin Sources[q]
    BY <1>1, <1>7, <1>9
  <2>2. ret'[k].run = r /\ (~ret'[k].junk => k \in KeysIn(runs[r][f]))
    BY <1>1, <1>9 DEF Behind, InFile, r, f
  <2>3. k \in KeysIn(runs[r][f]) => k \in Sources[r]
    BY <1>1, <1>3 DEF Sources, SourceKeys, RunKeys, r, f
  <2>4. ASSUME ret'[k].junk, NEW g \in 1..ret'[k].file
        PROVE  k \notin KeysIn(runs[r][g])
    <3>1. ret'[k].file = f
      BY <1>1, <1>9 DEF Behind, InFile, r, f
    <3>2. CASE g = f
      BY <1>8, <1>9, <2>4, <3>2
    <3>3. CASE g # f
      <4>1. g \in 1..Len(runs[r]) /\ g < f
        BY <1>1, <1>3, <2>4, <3>1, <3>3 DEF r, f
      <4>2. Visited(r, g)
        BY <1>1, <1>3, <4>1 DEF Visited, r, f
      <4>3. KeysIn(runs[r][g]) \cap Asked \subseteq DOMAIN ret
        BY <1>1, <4>1, <4>2 DEF FoundInv, NothingLeftBehind, r
      <4> QED
        BY <1>1, <1>9, <4>3
    <3> QED
      BY <3>2, <3>3
  <2> QED
    BY <2>1, <2>2, <2>3, <2>4
<1>10. FoundWhereFirst'
  BY <1>1, <1>2, <1>9 DEF FoundInv, FoundWhereFirst
<1> QED
  BY <1>6, <1>10 DEF FoundInv

(* The end of a run leaves no file of it behind.                           *)
LEMMA FinishRunFinds ==
  ASSUME ScanInv, FoundInv, FinishRun
  PROVE  FoundInv'
<1>1. /\ UNCHANGED tree /\ ret' = ret /\ TreeOK
      /\ at.run \in 1..Len(runs) /\ at = [source |-> "end", run |-> at.run]
      /\ \/ at' = Done /\ Holes = {}
         \/ at' = AtRun(at.run + 1)
  BY FinishRunFacts DEF ScanInv
<1>2. /\ runs' = runs /\ Asked' = Asked /\ BufferKeys' = BufferKeys
      /\ Sources' = Sources
  BY <1>1, Unchanged
<1>3. ASSUME NEW q \in 1..Len(runs), NEW g \in 1..Len(runs[q]), Visited(q, g)'
      PROVE  Visited(q, g) \/ Asked \subseteq DOMAIN ret
  <2> SUFFICES ASSUME at' = AtRun(at.run + 1) PROVE q <= at.run
    BY <1>1 DEF Visited, Holes
  <2>1. Len(runs) \in Nat /\ Len(runs[q]) \in Nat /\ at.run + 1 \in Nat \ {0}
    BY <1>1, RunFacts
  <2>2. \/ at.run + 1 > Len(runs)
        \/ at' = [source |-> "file", run |-> at.run + 1, file |-> 1]
    BY <2>1 DEF AtRun
  <2> QED
    BY <1>1, <1>3, <2>1, <2>2 DEF Visited, Done
<1>4. NothingLeftBehind'
  BY <1>1, <1>2, <1>3 DEF FoundInv, NothingLeftBehind, KeysIn, AtBuffer
<1>5. FoundWhereFirst'
  BY <1>1, <1>2 DEF FoundInv, FoundWhereFirst
<1> QED
  BY <1>4, <1>5 DEF FoundInv

(* So every step does.                                                     *)
LEMMA StepFound == Dependable /\ ScanInv /\ FoundInv /\ [Next]_vars => FoundInv'
<1> SUFFICES ASSUME Dependable, ScanInv, FoundInv, [Next]_vars PROVE FoundInv'
  OBVIOUS
<1>1. CASE ScanBuffer
  BY <1>1, ScanBufferFinds
<1>2. CASE CollectFile
  BY <1>2, CollectFileFinds
<1>3. CASE FinishRun
  BY <1>3, FinishRunFinds
<1>4. CASE UNCHANGED vars
  <2>1. /\ runs' = runs /\ Asked' = Asked /\ BufferKeys' = BufferKeys
        /\ Sources' = Sources /\ ret' = ret /\ at' = at
    BY <1>4, Unchanged DEF vars, tree
  <2>2. NothingLeftBehind'
    BY <2>1 DEF FoundInv, NothingLeftBehind, Visited, KeysIn
  <2>3. FoundWhereFirst'
    BY <2>1 DEF FoundInv, FoundWhereFirst
  <2> QED
    BY <2>2, <2>3 DEF FoundInv
<1> QED
  BY <1>1, <1>2, <1>3, <1>4 DEF Next

(* Where a scan has been it left nothing behind, and what it found was not *)
(* in any newer source.                                                    *)
THEOREM FoundInvariant == Dependable => (Spec => []FoundInv)
<1> SUFFICES ASSUME Dependable PROVE Spec => []FoundInv
  OBVIOUS
<1>1. ScanInv /\ FoundInv /\ [Next]_vars => FoundInv'
  BY StepFound
<1> QED
  BY <1>1, InitFound, ScanInvariant, PTL DEF Spec

-----------------------------------------------------------------------------
(* The properties.                                                         *)

(* What is found was asked and has a place in the tree, and the scan is    *)
(* always at a source there is.                                            *)
THEOREM ScanTypeOK == Spec => []TypeOK
<1>1. ScanInv => TypeOK
  BY DEF ScanInv, AtOK, FoundOK, TypeOK, Done, AtBuffer
<1> QED
  BY <1>1, ScanInvariant, PTL

(* The search range Run::Scan shrinks to never loses an asked key that is  *)
(* still to be found, in any build and configuration.                      *)
THEOREM ScanHolesInSearchRange == Spec => []HolesInSearchRange
<1>1. ScanInv => HolesInSearchRange
  BY DEF ScanInv
<1> QED
  BY <1>1, ScanInvariant, PTL

(* A scan that has all it was asked for asks no other run, unless the      *)
(* asked range touches the end of the ints.                                *)
THEOREM ScanStopsWhenAllFound == Spec => []StopsWhenAllFound
<1>1. ScanInv => StopsWhenAllFound
  BY DEF ScanInv
<1> QED
  BY <1>1, ScanInvariant, PTL

(* The newest source that has a key, in the terms of FoundInv.             *)
LEMMA NewestIs ==
  ASSUME TreeOK, NEW k, NEW r \in 0..Len(runs), k \in Sources[r],
         \A q \in 0..r - 1 : k \notin Sources[q]
  PROVE  Newest(k) = r
<1> DEFINE H == {q \in 0..Len(runs) : k \in Sources[q]}
<1>1. Len(runs) \in Nat
  BY RunFacts
<1>2. H = {q \in 0..Len(runs) : k \in SourceKeys(q)}
  BY DEF Sources
<1>3. r \in H /\ H \in SUBSET Nat /\ \A q \in H : r <= q
  BY <1>1
<1> HIDE DEF H
<1>4. Min(H) \in H /\ \A q \in H : Min(H) <= q
  BY <1>3, MinOfNats
<1>5. Min(H) = r
  <2> DEFINE m == Min(H)
  <2> HIDE DEF m
  <2>1. m \in Nat /\ r \in Nat /\ m <= r /\ r <= m
    BY <1>3, <1>4 DEF m
  <2> QED
    BY <2>1 DEF m
<1>6. Newest(k) = Min(H)
  BY <1>2, Zenon DEF Newest
<1> QED
  BY <1>5, <1>6

(* The answer of a scan is the newest value there is, wherever the filters *)
(* and fences let it look: no key is found in an older source than it has  *)
(* to be.                                                                  *)
THEOREM ScanFoundIsNewest == Dependable => (Spec => []FoundIsNewest)
<1> SUFFICES ASSUME Dependable PROVE Spec => []FoundIsNewest
  OBVIOUS
<1>1. ASSUME ScanInv, FoundInv PROVE FoundIsNewest
  <2> SUFFICES ASSUME NEW k \in DOMAIN ret, ~ret[k].junk
               PROVE  k \in Held /\ ret[k].run = Newest(k)
    BY DEF FoundIsNewest
  <2> DEFINE r == ret[k].run
  <2>1. TreeOK /\ k \in Asked /\ r \in 0..Len(runs)
    BY <1>1 DEF ScanInv, FoundOK
  <2>2. k \in Sources[r] /\ \A q \in 0..r - 1 : k \notin Sources[q]
    BY <1>1 DEF FoundInv, FoundWhereFirst
  <2> HIDE DEF r
  <2>3. Newest(k) = r
    BY <2>1, <2>2, NewestIs DEF Newest
  <2>4. \E q \in 0..Len(runs) : k \in SourceKeys(q)
    BY <2>1, <2>2 DEF Sources
  <2> QED
    BY <2>1, <2>3, <2>4 DEF Held, r
<1> QED
  BY <1>1, ScanInvariant, FoundInvariant, PTL

(* Leftover memory never stands in for a tuple of a newer source, or of a  *)
(* file of the run up to the one it lies behind.                           *)
THEOREM ScanJunkHidesNothingNewer == Dependable => (Spec => []JunkHidesNothingNewer)
<1> SUFFICES ASSUME Dependable PROVE Spec => []JunkHidesNothingNewer
  OBVIOUS
<1>1. ASSUME ScanInv, FoundInv PROVE JunkHidesNothingNewer
  <2>1. \A k \in DOMAIN ret : ret[k].junk =>
          \A f \in 1..ret[k].file : k \notin KeysIn(runs[ret[k].run][f])
    BY <1>1 DEF FoundInv, FoundWhereFirst
  <2> SUFFICES ASSUME NEW k \in DOMAIN ret, NEW q \in 0..ret[k].run - 1
               PROVE  k \notin SourceKeys(q)
    BY <2>1 DEF JunkHidesNothingNewer
  <2>2. ret[k].run \in 0..Len(runs) /\ Len(runs) \in Nat
    BY <1>1, RunFacts DEF ScanInv, FoundOK
  <2>3. k \notin Sources[q] /\ q \in 0..Len(runs)
    BY <1>1, <2>2 DEF FoundInv, FoundWhereFirst
  <2> QED
    BY <2>3 DEF Sources
<1> QED
  BY <1>1, ScanInvariant, FoundInvariant, PTL

(* When a scan stops it has every asked key there is in the tree.          *)
THEOREM ScanNothingMissed == Dependable => (Spec => []NothingMissed)
<1> SUFFICES ASSUME Dependable PROVE Spec => []NothingMissed
  OBVIOUS
<1>1. ASSUME ScanInv, FoundInv PROVE NothingMissed
  <2> SUFFICES ASSUME at = Done, NEW k \in Asked, NEW r \in 0..Len(runs),
                      k \in SourceKeys(r)
               PROVE  k \in DOMAIN ret
    BY DEF NothingMissed, Held
  <2>1. CASE r = 0
    BY <1>1, <2>1 DEF FoundInv, NothingLeftBehind, SourceKeys, Done, AtBuffer
  <2>2. CASE r # 0
    <3>1. r \in 1..Len(runs) /\ k \in RunKeys(r)
      BY <2>2 DEF SourceKeys
    <3>2. PICK f \in 1..Len(runs[r]) : k \in KeysIn(runs[r][f])
      BY <3>1 DEF RunKeys
    <3>3. Visited(r, f)
      BY DEF Visited
    <3> QED
      BY <1>1, <3>1, <3>2, <3>3 DEF FoundInv, NothingLeftBehind
  <2> QED
    BY <2>1, <2>2
<1> QED
  BY <1>1, ScanInvariant, FoundInvariant, PTL
=============================================================================
