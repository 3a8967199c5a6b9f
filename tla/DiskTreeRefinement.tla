------------------------- MODULE DiskTreeRefinement -------------------------
(***************************************************************************)
(* The tree on disk implements LSMTree, and with it the map its clients    *)
(* are promised.                                                           *)
(*                                                                         *)
(* What the tree holds is written as one sequence of tuples, the newest    *)
(* first, in the order in which a merge gathers them and a scan comes to   *)
(* them.  The newest copy of a key is then its leftmost one (Firsts): a    *)
(* flush keeps the leftmost copies because the sort does, and a scan finds *)
(* them because it takes a key only once.                                  *)
(*                                                                         *)
(* At the end, what LSMTree's levels are proved to keep is brought down to *)
(* the files: how often a flush counts, and how much a merge takes.        *)
(***************************************************************************)
EXTENDS DiskTreeProofs, FiniteSetTheorems

-----------------------------------------------------------------------------
(* One sequence after the other.                                           *)

(* Flattening one sequence more.                                           *)
LEMMA FlattenStep ==
  ASSUME NEW T, NEW n \in Nat, NEW seqs, seqs = [i \in 1..n + 1 |-> seqs[i]],
         \A i \in 1..n + 1 : seqs[i] \in Seq(T)
  PROVE  FlattenSeq(seqs) = FlattenSeq([i \in 1..n |-> seqs[i]]) \o seqs[n + 1]
<1> DEFINE V == Seq(T)
           before == [i \in 1..n |-> seqs[i]]
<1>1. \A i \in 1..n + 1 : seqs[i] \in V
  OBVIOUS
<1> HIDE DEF V
<1>2. /\ seqs \in Seq(V) /\ Len(seqs) = n + 1
      /\ before \in Seq(V) /\ Len(before) = n
      /\ \A i \in 1..n : before[i] = seqs[i]
  <2>1. n + 1 \in Nat /\ n + 1 # 0 /\ \A i \in 1..n : i \in 1..n + 1
    OBVIOUS
  <2>2. seqs \in Seq(V) /\ Len(seqs) = n + 1
    BY <1>1, <2>1
  <2>3. \A i \in 1..n : before[i] = seqs[i] /\ before[i] \in V
    BY <1>1, <2>1
  <2>4. before \in [1..n -> V]
    BY <2>3
  <2> HIDE DEF before
  <2>5. before \in Seq(V) /\ Len(before) = n
    BY <2>4
  <2> QED
    BY <2>2, <2>3, <2>5
<1> HIDE DEF before
<1>3. PICK f : Flattenings(f, seqs, n + 1) /\ FlattenSeq(seqs) = f[n + 1]
  <2>1. n + 1 # 0
    OBVIOUS
  <2> QED
    BY <1>2, <2>1, FlattenDefined DEF V
<1>4. PICK g : /\ Flattenings(g, before, n)
               /\ FlattenSeq(before) = IF n = 0 THEN <<>> ELSE g[n]
  BY <1>2, FlattenDefined DEF V
<1> DEFINE S == {d \in Nat : d \in 1..n => f[d] = g[d]}
<1>5. 0 \in S
  OBVIOUS
<1>6. ASSUME NEW d \in Nat, d \in S PROVE d + 1 \in S
  <2> SUFFICES ASSUME d + 1 \in 1..n PROVE f[d + 1] = g[d + 1]
    OBVIOUS
  <2>1. CASE d = 0
    <3>1. d + 1 = 1 /\ 1 \in 1..n /\ 1 \in 1..n + 1
      BY <2>1
    <3>2. f[1] = seqs[1] /\ g[1] = before[1]
      BY <1>3, <1>4, <3>1 DEF Flattenings
    <3> QED
      BY <1>2, <3>1, <3>2
  <2>2. CASE d # 0
    <3>1. d \in 1..n /\ (d + 1) - 1 = d /\ d + 1 # 1 /\ d + 1 \in 1..n + 1
      BY <2>2
    <3>2. f[d + 1] = f[d] \o seqs[d + 1] /\ g[d + 1] = g[d] \o before[d + 1]
      BY <1>3, <1>4, <3>1 DEF Flattenings
    <3> QED
      BY <1>2, <1>6, <3>1, <3>2
  <2> QED
    BY <2>1, <2>2
<1>7. Nat \subseteq S
  <2> HIDE DEF S
  <2> QED
    BY <1>5, <1>6, InductionOnNats
<1>8. CASE n = 0
  <2>1. FlattenSeq(seqs) = seqs[1] /\ FlattenSeq(before) = <<>> /\ seqs[1] \in Seq(T)
    BY <1>1, <1>3, <1>4, <1>8 DEF Flattenings, V
  <2> QED
    BY <1>8, <2>1, ConcatEmptySeq DEF before
<1>9. CASE n # 0
  <2>1. n \in 1..n /\ (n + 1) - 1 = n /\ n + 1 # 1 /\ n + 1 \in 1..n + 1
    BY <1>9
  <2>2. f[n] = g[n]
    BY <1>7, <2>1
  <2>3. FlattenSeq(seqs) = f[n] \o seqs[n + 1] /\ FlattenSeq(before) = g[n]
    BY <1>3, <1>4, <1>9, <2>1 DEF Flattenings
  <2> QED
    BY <2>2, <2>3 DEF before
<1> QED
  BY <1>8, <1>9

(* Flattening nothing.                                                     *)
LEMMA FlattenNone == \A seqs : FlattenSeq([i \in 1..0 |-> seqs[i]]) = <<>>
<1> TAKE seqs
<1> DEFINE none == [i \in 1..0 |-> seqs[i]]
<1>1. none \in Seq(Seq({})) /\ Len(none) = 0
  OBVIOUS
<1> QED
  BY <1>1, FlattenDefined

-----------------------------------------------------------------------------
(* The newest copy of a key.                                               *)

(* Tuple t is in s, and no other copy of its key is left of it.            *)
Leftmost(s, t) ==
  \E p \in 1..Len(s) : s[p] = t /\ \A q \in 1..p - 1 : s[q].key # t.key

(* Of a key there is one leftmost copy.                                    *)
LEMMA LeftmostIsOne ==
  ASSUME NEW s \in Seq(Sort!Tuple), NEW t, NEW u, Leftmost(s, t), Leftmost(s, u),
         t.key = u.key
  PROVE  t = u
<1>1. PICK p \in 1..Len(s) : s[p] = t /\ \A q \in 1..p - 1 : s[q].key # t.key
  BY DEF Leftmost
<1>2. PICK q \in 1..Len(s) : s[q] = u /\ \A r \in 1..q - 1 : s[r].key # u.key
  BY DEF Leftmost
<1>3. p = q \/ p \in 1..q - 1 \/ q \in 1..p - 1
  OBVIOUS
<1> QED
  BY <1>1, <1>2, <1>3

(* What is put behind a sequence adds only the keys it does not have.      *)
LEMMA LeftmostOfBoth ==
  ASSUME NEW A \in Seq(Sort!Tuple), NEW B \in Seq(Sort!Tuple)
  PROVE  /\ A \o B \in Seq(Sort!Tuple)
         /\ KeysIn(A \o B) = KeysIn(A) \cup KeysIn(B)
         /\ \A t : Leftmost(A, t) => Leftmost(A \o B, t)
         /\ \A t : Leftmost(B, t) /\ t.key \notin KeysIn(A) => Leftmost(A \o B, t)
<1> DEFINE a == Len(A)
           b == Len(B)
           C == A \o B
<1>1. /\ a \in Nat /\ b \in Nat /\ C \in Seq(Sort!Tuple) /\ Len(C) = a + b
      /\ DOMAIN A = 1..a /\ DOMAIN B = 1..b /\ DOMAIN C = 1..a + b
      /\ \A p \in 1..a : C[p] = A[p]
      /\ \A p \in 1..b : C[a + p] = B[p]
  OBVIOUS
<1>2. Len(A) = a /\ Len(B) = b
  OBVIOUS
<1> HIDE DEF a, b, C
<1>3. /\ \A p \in 1..a : p \in 1..a + b
      /\ \A p \in 1..b : a + p \in 1..a + b
      /\ \A p \in 1..a + b : p \in 1..a \/ (p - a \in 1..b /\ a + (p - a) = p)
  BY <1>1
<1>4. KeysIn(C) = KeysIn(A) \cup KeysIn(B)
  <2>1. ASSUME NEW p \in 1..a + b PROVE C[p].key \in KeysIn(A) \cup KeysIn(B)
    BY <1>1, <1>3, ZenonT(30) DEF KeysIn
  <2>2. ASSUME NEW p \in 1..a PROVE A[p].key \in KeysIn(C)
    BY <1>1, <1>3 DEF KeysIn
  <2>3. ASSUME NEW p \in 1..b PROVE B[p].key \in KeysIn(C)
    BY <1>1, <1>3 DEF KeysIn
  <2>4. KeysIn(C) \subseteq KeysIn(A) \cup KeysIn(B)
    BY <1>1, <2>1 DEF KeysIn
  <2>5. KeysIn(A) \subseteq KeysIn(C) /\ KeysIn(B) \subseteq KeysIn(C)
    BY <1>1, <2>2, <2>3 DEF KeysIn
  <2> QED
    BY <2>4, <2>5
<1>5. ASSUME NEW t, Leftmost(A, t) PROVE Leftmost(C, t)
  <2>1. PICK p \in 1..a : A[p] = t /\ \A q \in 1..p - 1 : A[q].key # t.key
    BY <1>2, <1>5 DEF Leftmost
  <2>2. \A q \in 1..p - 1 : q \in 1..a
    BY <1>1
  <2> QED
    BY <1>1, <1>3, <2>1, <2>2 DEF Leftmost
<1>6. ASSUME NEW t, Leftmost(B, t), t.key \notin KeysIn(A) PROVE Leftmost(C, t)
  <2>1. PICK p \in 1..b : B[p] = t /\ \A q \in 1..p - 1 : B[q].key # t.key
    BY <1>2, <1>6 DEF Leftmost
  <2>2. ASSUME NEW q \in 1..(a + p) - 1 PROVE C[q].key # t.key
    <3>1. q \in 1..a \/ (q - a \in 1..p - 1 /\ q - a \in 1..b /\ a + (q - a) = q)
      BY <1>1
    <3>2. CASE q \in 1..a
      BY <1>1, <1>6, <3>2 DEF KeysIn
    <3>3. CASE q - a \in 1..p - 1 /\ q - a \in 1..b /\ a + (q - a) = q
      BY <1>1, <2>1, <3>3
    <3> QED
      BY <3>1, <3>2, <3>3
  <2> QED
    BY <1>1, <1>3, <2>1, <2>2 DEF Leftmost
<1> QED
  BY <1>1, <1>4, <1>5, <1>6 DEF C

(* A copy that is the leftmost of the i-th of some sequences, and of whose *)
(* key there is none before, is the leftmost of all.                       *)
LeftmostOfAll(s, seqs, n) ==
  \A i \in 1..n : \A t :
    Leftmost(seqs[i], t) /\ (\A j \in 1..i - 1 : t.key \notin KeysIn(seqs[j])) => Leftmost(s, t)

(* This holds of sequences put one after the other.                        *)
LEMMA LeftmostFlattened ==
  ASSUME NEW n \in Nat, NEW seqs, seqs = [i \in 1..n |-> seqs[i]],
         \A i \in 1..n : seqs[i] \in Seq(Sort!Tuple)
  PROVE  LeftmostOfAll(FlattenSeq(seqs), seqs, n)
<1> DEFINE V == Seq(Sort!Tuple)
           first(m) == [i \in 1..m |-> seqs[i]]
           S == {m \in Nat : m <= n => LeftmostOfAll(FlattenSeq(first(m)), seqs, m)}
<1>1. \A i \in 1..n : seqs[i] \in V
  OBVIOUS
<1>2. 0 \in S
  BY DEF LeftmostOfAll
<1>3. ASSUME NEW m \in Nat, m \in S PROVE m + 1 \in S
  <2> SUFFICES ASSUME m + 1 <= n
               PROVE  LeftmostOfAll(FlattenSeq(first(m + 1)), seqs, m + 1)
    OBVIOUS
  <2> DEFINE A == FlattenSeq(first(m))
             B == seqs[m + 1]
             C == FlattenSeq(first(m + 1))
  <2>1. /\ \A i \in 1..m : i \in 1..n /\ i \in 1..m + 1
        /\ m + 1 \in 1..n /\ m + 1 \in 1..m + 1
        /\ \A i \in 1..m + 1 : i \in 1..n /\ (i \in 1..m \/ i = m + 1)
    OBVIOUS
  <2>2. LeftmostOfAll(A, seqs, m)
    BY <1>3
  <2> HIDE DEF S, V
  <2>3. /\ first(m) = [i \in 1..m |-> first(m)[i]]
        /\ \A i \in 1..m : first(m)[i] \in V /\ first(m)[i] = seqs[i]
        /\ first(m + 1) = [i \in 1..m + 1 |-> first(m + 1)[i]]
        /\ \A i \in 1..m + 1 : first(m + 1)[i] \in V /\ first(m + 1)[i] = seqs[i]
        /\ first(m) = [i \in 1..m |-> first(m + 1)[i]]
    BY <1>1, <2>1
  <2> HIDE DEF first
  <2>4. A \in V /\ B \in V /\ KeysIn(A) = UNION {KeysIn(first(m)[i]) : i \in 1..m}
    BY <1>1, <2>1, <2>3, FlattenedKeys DEF V
  <2>5. C = A \o B
    <3> DEFINE g == first(m + 1)
    <3>1. g = [i \in 1..m + 1 |-> g[i]] /\ \A i \in 1..m + 1 : g[i] \in Seq(Sort!Tuple)
      BY <2>3 DEF V
    <3>2. first(m) = [i \in 1..m |-> g[i]] /\ g[m + 1] = B
      BY <2>1, <2>3
    <3> HIDE DEF g
    <3>3. FlattenSeq(g) = FlattenSeq([i \in 1..m |-> g[i]]) \o g[m + 1]
      BY <3>1, FlattenStep
    <3> QED
      BY <3>2, <3>3 DEF g
  <2>6. /\ \A t : Leftmost(A, t) => Leftmost(C, t)
        /\ \A t : Leftmost(B, t) /\ t.key \notin KeysIn(A) => Leftmost(C, t)
    BY <2>4, <2>5, LeftmostOfBoth DEF V
  <2> HIDE DEF A, C
  <2>7. ASSUME NEW i \in 1..m + 1, NEW t, Leftmost(seqs[i], t),
               \A j \in 1..i - 1 : t.key \notin KeysIn(seqs[j])
        PROVE  Leftmost(C, t)
    <3>1. CASE i \in 1..m
      BY <2>2, <2>6, <2>7, <3>1 DEF LeftmostOfAll
    <3>2. CASE i = m + 1
      <4>1. \A j \in 1..m : j \in 1..i - 1
        BY <3>2
      <4>2. \A j \in 1..m : t.key \notin KeysIn(first(m)[j])
        BY <2>3, <2>7, <4>1
      <4>3. t.key \notin KeysIn(A)
        BY <2>4, <4>2
      <4> QED
        BY <2>6, <2>7, <3>2, <4>3
    <3> QED
      BY <2>1, <3>1, <3>2
  <2> QED
    BY <2>7 DEF LeftmostOfAll, C
<1>4. n \in S
  <2> HIDE DEF S
  <2> QED
    BY <1>2, <1>3, InductionOnNats
<1>5. LeftmostOfAll(FlattenSeq(first(n)), seqs, n)
  BY <1>4
<1>6. first(n) = seqs
  OBVIOUS
<1> HIDE DEF first, S
<1> QED
  BY <1>5, <1>6

-----------------------------------------------------------------------------
(* What LSMTree sees of a run.                                             *)

(* RunView and LevelsView, of any disk and levels.                         *)
SlotsIn(dsk, run) ==
  FlattenSeq([f \in DOMAIN run |-> SubSeq(dsk[run[f].name], 1, Len(run[f].keys))])

RunViewIn(dsk, run) ==
  [k \in KeysIn(SlotsIn(dsk, run)) |-> FirstWith(SlotsIn(dsk, run), k).slot]

ViewIn(dsk, lvls) ==
  [l \in DOMAIN lvls |-> [r \in DOMAIN lvls[l] |-> RunViewIn(dsk, lvls[l][r])]]

(* They are those of the disk and the levels, before and after a step.     *)
LEMMA ViewsAre ==
  /\ \A run : RunView(run) = RunViewIn(disk, run)
  /\ LevelsView = ViewIn(disk, levels)
  /\ LevelsView' = ViewIn(disk', levels')
  BY DEF RunView, SlotsOf, RunViewIn, SlotsIn, LevelsView, ViewIn

(* Every file of a run is on disk, and its keys ascend.                    *)
RunOnDisk(dsk, run) == KeysAscend(run) /\ \A f \in 1..Len(run) : IsOnDisk(dsk, run[f])

(* The slot of every key of every file is the one its view gives it.       *)
ShowsFiles(view, dsk, run) ==
  /\ view \in [KeysOfRun(run) -> Slot]
  /\ \A f \in 1..Len(run) : \A i \in 1..Len(run[f].keys) :
       view[run[f].keys[i]] = dsk[run[f].name][i].slot

(* The view of a run shows its files: a key is in one place of one file,   *)
(* so it does not matter which one is looked at first.                     *)
LEMMA RunViewShows ==
  ASSUME NEW dsk, NEW run \in RunOfFiles, RunOnDisk(dsk, run)
  PROVE  ShowsFiles(RunViewIn(dsk, run), dsk, run)
<1> DEFINE n == Len(run)
           files == [f \in DOMAIN run |-> SubSeq(dsk[run[f].name], 1, Len(run[f].keys))]
           s == SlotsIn(dsk, run)
<1>1. n \in Nat /\ DOMAIN run = 1..n /\ \A f \in 1..n : run[f] \in File
  BY DEF RunOfFiles
<1>2. ASSUME NEW f \in 1..n
      PROVE  /\ dsk[run[f].name] \in Seq(Slots)
             /\ Len(dsk[run[f].name]) = Len(run[f].keys)
             /\ \A i \in 1..Len(run[f].keys) : dsk[run[f].name][i].key = run[f].keys[i]
             /\ SubSeq(dsk[run[f].name], 1, Len(run[f].keys)) = dsk[run[f].name]
  BY <1>1, OnDiskFile DEF RunOnDisk
<1>3. s = FlattenSeq(files)
  BY DEF SlotsIn
<1>4. files = [f \in 1..n |-> files[f]] /\ \A f \in 1..n : files[f] = dsk[run[f].name]
  BY <1>1, <1>2
<1> HIDE DEF n, files, s
<1>5. \A f \in 1..n : /\ files[f] \in Seq(Slots) /\ Len(files[f]) = Len(run[f].keys)
                      /\ \A i \in 1..Len(run[f].keys) : files[f][i].key = run[f].keys[i]
  BY <1>2, <1>4
<1>6. s \in Seq(Slots) /\ Flattens(s, files, n)
  BY <1>1, <1>3, <1>4, <1>5, FlattenedMap
<1>7. DOMAIN s = 1..Len(s) /\ Len(s) \in Nat /\ \A p \in 1..Len(s) : s[p].slot \in Slot
  <2>1. DOMAIN s = 1..Len(s) /\ Len(s) \in Nat /\ \A p \in 1..Len(s) : s[p] \in Slots
    BY <1>6
  <2> QED
    BY <2>1 DEF Slots
<1>8. ASSUME NEW p \in 1..Len(s)
      PROVE  \E f \in 1..n : \E i \in 1..Len(run[f].keys) :
               s[p] = files[f][i] /\ s[p].key = run[f].keys[i]
  <2>1. PICK f \in 1..n : \E i \in 1..Len(files[f]) : s[p] = files[f][i]
    BY <1>6 DEF Flattens
  <2>2. PICK i \in 1..Len(files[f]) : s[p] = files[f][i]
    BY <2>1
  <2>3. i \in 1..Len(run[f].keys) /\ s[p].key = run[f].keys[i]
    BY <1>5, <2>2
  <2> QED
    BY <2>2, <2>3
<1>9. ASSUME NEW f \in 1..n, NEW i \in 1..Len(run[f].keys)
      PROVE  \E p \in 1..Len(s) : s[p] = files[f][i] /\ s[p].key = run[f].keys[i]
  <2>1. i \in 1..Len(files[f]) /\ files[f][i].key = run[f].keys[i]
    BY <1>5
  <2>2. PICK p \in 1..Len(s) : s[p] = files[f][i]
    BY <1>6, <2>1 DEF Flattens
  <2> QED
    BY <2>1, <2>2
<1>10. KeysIn(s) = KeysOfRun(run)
  <2>1. ASSUME NEW k \in KeysIn(s) PROVE k \in KeysOfRun(run)
    <3>1. PICK p \in 1..Len(s) : k = s[p].key
      BY <1>7, <2>1 DEF KeysIn
    <3>2. PICK f \in 1..n : \E i \in 1..Len(run[f].keys) : s[p].key = run[f].keys[i]
      BY <1>8
    <3> QED
      BY <3>1, <3>2 DEF KeysOfRun, n
  <2>2. ASSUME NEW k \in KeysOfRun(run) PROVE k \in KeysIn(s)
    <3>1. PICK f \in 1..n : \E i \in 1..Len(run[f].keys) : k = run[f].keys[i]
      BY <2>2 DEF KeysOfRun, n
    <3>2. PICK p \in 1..Len(s) : s[p].key = k
      BY <1>9, <3>1
    <3> QED
      BY <1>7, <3>2 DEF KeysIn
  <2> QED
    BY <2>1, <2>2
<1>11. ASSUME NEW k \in KeysIn(s)
       PROVE  \E p \in 1..Len(s) : FirstWith(s, k) = s[p] /\ s[p].key = k
  <2> DEFINE P == {i \in DOMAIN s : s[i].key = k}
  <2>1. P \in SUBSET Nat /\ P # {}
    BY <1>7, <1>11 DEF KeysIn
  <2>2. Min(P) \in P
    BY <2>1, MinOfNats
  <2> QED
    BY <1>7, <2>2 DEF FirstWith
<1>12. ASSUME NEW f \in 1..n, NEW i \in 1..Len(run[f].keys)
       PROVE  FirstWith(s, run[f].keys[i]) = files[f][i]
  <2> DEFINE k == run[f].keys[i]
  <2>1. k \in KeysIn(s)
    <3>1. PICK q \in 1..Len(s) : s[q].key = k
      BY <1>9
    <3> QED
      BY <1>7, <3>1 DEF KeysIn
  <2>2. PICK p \in 1..Len(s) : FirstWith(s, k) = s[p] /\ s[p].key = k
    BY <1>11, <2>1
  <2>3. PICK g \in 1..n : \E j \in 1..Len(run[g].keys) :
               s[p] = files[g][j] /\ s[p].key = run[g].keys[j]
    BY <1>8
  <2>4. PICK j \in 1..Len(run[g].keys) : s[p] = files[g][j] /\ s[p].key = run[g].keys[j]
    BY <2>3
  <2>5. run[g].keys[j] = run[f].keys[i]
    BY <2>2, <2>4
  <2>6. g = f /\ j = i
    <3>1. f \in 1..Len(run) /\ g \in 1..Len(run)
      BY DEF n
    <3>2. run[f].keys \in Seq(Key) /\ run[g].keys \in Seq(Key)
      BY <1>1 DEF File
    <3>3. run[f].keys[i] \in Int /\ i \in Int /\ j \in Int /\ f \in Int /\ g \in Int
      <4>1. run[f].keys[i] \in Key
        BY <3>2
      <4>2. i \in Int /\ j \in Int
        BY <3>2
      <4>3. f \in Int /\ g \in Int
        BY <1>1
      <4>4. run[f].keys[i] \in Int
        BY <4>1, KeysAreInts, Zenon
      <4> QED
        BY <4>2, <4>3, <4>4
    <3>4. ~Before(f, i, g, j) /\ ~Before(g, j, f, i)
      BY <2>5, <3>1, <3>3, SMTT(30) DEF RunOnDisk, KeysAscend
    <3> QED
      BY <3>3, <3>4 DEF Before
  <2> QED
    BY <2>2, <2>4, <2>6
<1>13. ASSUME NEW k \in KeysIn(s) PROVE FirstWith(s, k).slot \in Slot
  BY <1>7, <1>11, <1>13
<1>14. RunViewIn(dsk, run) = [k \in KeysOfRun(run) |-> FirstWith(s, k).slot]
  BY <1>10 DEF RunViewIn, s
<1>15. RunViewIn(dsk, run) \in [KeysOfRun(run) -> Slot]
  BY <1>10, <1>13, <1>14
<1>16. ASSUME NEW f \in 1..n, NEW i \in 1..Len(run[f].keys)
       PROVE  RunViewIn(dsk, run)[run[f].keys[i]] = dsk[run[f].name][i].slot
  <2>1. run[f].keys[i] \in KeysOfRun(run)
    BY DEF KeysOfRun, n
  <2> QED
    BY <1>4, <1>12, <1>14, <2>1
<1> QED
  BY <1>15, <1>16 DEF ShowsFiles, n

-----------------------------------------------------------------------------
(* The newest copy of a key is the leftmost of what is gathered.           *)

(* LSMTree's operators on sets of numbers and on slots are those of here.  *)
LEMMA SameOperators ==
  /\ \A S : Tree!Max(S) = Max(S) /\ Tree!Min(S) = Min(S)
  /\ \A slot : Tree!Read2Tuple(slot) = Read2Tuple(slot)
  /\ \A items : Tree!AppendBin2Vec(items) = AppendBin2Vec(items)
  /\ \A items : Tree!IsDelMarker(items) = IsDelMarker(items)
  /\ Tree!DelMarker = DelMarker
<1>1. \A S : Tree!Max(S) = Max(S) /\ Tree!Min(S) = Min(S)
  BY Zenon DEF Tree!Max, Tree!Min, Max, Min
<1>2. \A slot : Tree!Read2Tuple(slot) = Read2Tuple(slot)
  BY <1>1, Zenon DEF Tree!Read2Tuple, Read2Tuple
<1>3. \A items : Tree!AppendBin2Vec(items) = AppendBin2Vec(items)
  BY <1>1, Zenon DEF Tree!AppendBin2Vec, AppendBin2Vec
<1> QED
  BY <1>1, <1>2, <1>3, Zenon
  DEF Tree!IsDelMarker, IsDelMarker, Tree!DelMarker, DelMarker

(* A key with the items it has in a slot.                                  *)
Copy(k, slot) == [key |-> k, items |-> Read2Tuple(slot)]

(* A run is of keys with one copy each.                                    *)
LEMMA RunNewest ==
  ASSUME NEW run \in RunOfFiles, RunOnDisk(disk, run), NEW k \in KeysOfRun(run)
  PROVE  Leftmost(RunTuples(run), Copy(k, RunView(run)[k]))
<1> DEFINE n == Len(run)
           files == [f \in DOMAIN run |-> FileTuples(run[f])]
           s == RunTuples(run)
<1>1. n \in Nat /\ DOMAIN run = 1..n /\ \A f \in 1..n : run[f] \in File
  BY DEF RunOfFiles
<1>2. ASSUME NEW f \in 1..n
      PROVE  /\ FileTuples(run[f]) \in Seq(Sort!Tuple)
             /\ Len(FileTuples(run[f])) = Len(run[f].keys)
             /\ \A i \in 1..Len(run[f].keys) :
                  /\ FileTuples(run[f])[i].key = run[f].keys[i]
                  /\ FileTuples(run[f])[i].items = Read2Tuple(disk[run[f].name][i].slot)
  BY <1>1, FileReads DEF RunOnDisk
<1>3. s = FlattenSeq(files)
  BY DEF RunTuples
<1>4. files = [f \in 1..n |-> files[f]] /\ \A f \in 1..n : files[f] = FileTuples(run[f])
  BY <1>1
<1>5. /\ s \in Seq(Sort!Tuple)
      /\ \A p, q \in DOMAIN s : p < q => s[p].key < s[q].key
  BY RunReads DEF RunOnDisk
<1>6. ShowsFiles(RunView(run), disk, run)
  BY RunViewShows, ViewsAre
<1> HIDE DEF n, files, s
<1>7. Flattens(s, files, n)
  BY <1>1, <1>2, <1>3, <1>4, FlattenedMap
<1>8. PICK f \in 1..n : \E i \in 1..Len(run[f].keys) : k = run[f].keys[i]
  BY DEF KeysOfRun, n
<1>9. PICK i \in 1..Len(run[f].keys) : k = run[f].keys[i]
  BY <1>8
<1>10. i \in 1..Len(files[f])
  BY <1>2, <1>4
<1>11. PICK p \in 1..Len(s) : s[p] = files[f][i]
  BY <1>7, <1>10 DEF Flattens
<1> DEFINE t == files[f][i]
<1>12. t.key = k /\ t.items = Read2Tuple(RunView(run)[k])
  BY <1>2, <1>4, <1>6, <1>9 DEF ShowsFiles, n
<1>13. t \in Sort!Tuple
  BY <1>2, <1>4, <1>10
<1> HIDE DEF t
<1>14. t = Copy(k, RunView(run)[k])
  BY <1>12, <1>13 DEF Sort!Tuple, Copy
<1>15. DOMAIN s = 1..Len(s) /\ Len(s) \in Nat /\ \A q \in 1..Len(s) : s[q].key \in Key
  <2>1. DOMAIN s = 1..Len(s) /\ Len(s) \in Nat /\ \A q \in 1..Len(s) : s[q] \in Sort!Tuple
    BY <1>5
  <2> QED
    BY <2>1 DEF Sort!Tuple
<1>16. \A q \in 1..p - 1 : s[q].key # t.key
  <2> SUFFICES ASSUME NEW q \in 1..p - 1 PROVE s[q].key # t.key
    OBVIOUS
  <2>1. q \in 1..Len(s) /\ q < p
    BY <1>15
  <2>2. s[q].key < s[p].key /\ s[p].key \in Int
    BY <1>5, <1>15, <2>1, KeysAreInts
  <2> QED
    BY <1>11, <2>2 DEF t
<1>17. s[p] = t
  BY <1>11 DEF t
<1> QED
  BY <1>14, <1>16, <1>17 DEF Leftmost, s

(* What LSMTree sees of a level.                                           *)
LevelView(level) == [r \in DOMAIN level |-> RunView(level[r])]

(* Of a level the newest run that has a key has its newest copy.           *)
LEMMA LevelNewest ==
  ASSUME NEW level \in LevelOfRuns, \A r \in 1..Len(level) : RunOnDisk(disk, level[r]), NEW k
  PROVE  /\ k \in KeysIn(LevelTuples(level)) <=> Tree!InLevel(LevelView(level), k) # {}
         /\ k \in KeysIn(LevelTuples(level)) =>
              Leftmost(LevelTuples(level),
                       [key |-> k, items |-> Tree!LevelCopy(LevelView(level), k)])
<1> DEFINE n == Len(level)
           runs == [r \in DOMAIN level |-> RunTuples(Reverse(level)[r])]
           view == LevelView(level)
           R == Tree!InLevel(view, k)
<1>1. n \in Nat /\ DOMAIN level = 1..n /\ \A r \in 1..n : level[r] \in RunOfFiles
  BY DEF LevelOfRuns
<1>2. \A r \in 1..n : RunOnDisk(disk, level[r])
  OBVIOUS
<1>3. LevelTuples(level) = FlattenSeq(runs)
  BY DEF LevelTuples
<1>4. \A r \in 1..n : n - r + 1 \in 1..n /\ Reverse(level)[r] = level[n - r + 1]
  BY <1>1 DEF Reverse
<1>5. runs = [r \in 1..n |-> runs[r]] /\ \A r \in 1..n : runs[r] = RunTuples(level[n - r + 1])
  BY <1>1, <1>4
<1>6. KeysIn(LevelTuples(level)) = KeysOfLevel(level)
  BY LevelReads DEF RunOnDisk
<1>7. KeysOfLevel(level) = UNION {KeysOfRun(level[r]) : r \in 1..n}
  BY DEF KeysOfLevel
<1>8. Len(view) = n /\ \A r \in 1..n : view[r] = RunView(level[r])
  BY <1>1 DEF LevelView
<1> HIDE DEF runs, n, view
<1>9. \A r \in 1..n : view[r] \in [KeysOfRun(level[r]) -> Slot]
  BY <1>1, <1>2, <1>8, RunViewShows, ViewsAre DEF ShowsFiles
<1>10. R = {r \in 1..n : k \in KeysOfRun(level[r])}
  BY <1>8, <1>9 DEF Tree!InLevel
<1> HIDE DEF R
<1>11. k \in KeysIn(LevelTuples(level)) <=> R # {}
  BY <1>6, <1>7, <1>10
<1>12. ASSUME R # {}
       PROVE  Leftmost(LevelTuples(level), [key |-> k, items |-> Tree!LevelCopy(view, k)])
  <2> DEFINE m == Max(R)
             i == n - m + 1
  <2>1. R \in SUBSET (0..n)
    BY <1>1, <1>10
  <2>2. m \in R /\ \A r \in R : r <= m
    BY <1>1, <1>12, <2>1, MaxOfBoundedNats
  <2> HIDE DEF m
  <2>3. m \in 1..n /\ k \in KeysOfRun(level[m])
    BY <1>10, <2>2
  <2>4. i \in 1..n /\ n - i + 1 = m /\ \A j \in 1..i - 1 : j \in 1..n /\ ~(n - j + 1 <= m)
    BY <1>1, <2>3
  <2>5. Tree!LevelCopy(view, k) = Read2Tuple(view[m][k])
    BY SameOperators DEF Tree!LevelCopy, R, m
  <2>6. Leftmost(runs[i], Copy(k, view[m][k]))
    BY <1>1, <1>2, <1>5, <1>8, <2>3, <2>4, RunNewest
  <2>7. \A r \in 1..n : runs[r] \in Seq(Sort!Tuple)
                        /\ KeysIn(runs[r]) = KeysOfRun(level[n - r + 1])
    <3> SUFFICES ASSUME NEW r \in 1..n
                 PROVE  /\ runs[r] \in Seq(Sort!Tuple)
                        /\ KeysIn(runs[r]) = KeysOfRun(level[n - r + 1])
      OBVIOUS
    <3>1. level[n - r + 1] \in RunOfFiles /\ RunOnDisk(disk, level[n - r + 1])
      BY <1>1, <1>2, <1>4
    <3> QED
      BY <1>5, <3>1, RunReads DEF RunOnDisk, KeysOfRun
  <2>8. \A j \in 1..i - 1 : k \notin KeysIn(runs[j])
    <3> SUFFICES ASSUME NEW j \in 1..i - 1 PROVE k \notin KeysIn(runs[j])
      OBVIOUS
    <3>1. j \in 1..n /\ ~(n - j + 1 <= m) /\ n - j + 1 \in 1..n
      BY <1>4, <2>4
    <3>2. n - j + 1 \notin R
      BY <2>2, <3>1
    <3> QED
      BY <1>10, <2>7, <3>1, <3>2
  <2>9. LeftmostOfAll(FlattenSeq(runs), runs, n)
    BY <1>1, <1>5, <2>7, LeftmostFlattened
  <2>10. Leftmost(FlattenSeq(runs), Copy(k, view[m][k]))
    <3>1. Copy(k, view[m][k]).key = k
      BY DEF Copy
    <3> QED
      BY <2>4, <2>6, <2>8, <2>9, <3>1 DEF LeftmostOfAll
  <2> QED
    BY <1>3, <2>5, <2>10 DEF Copy
<1> QED
  BY <1>11, <1>12 DEF R, view

(* In the buffer it is the last one of its key.                            *)
LEMMA BufferNewest ==
  ASSUME buf \in Seq(Sort!Tuple), NEW k
  PROVE  /\ k \in KeysIn(buf) <=> Tree!InBuffer(k) # {}
         /\ k \in KeysIn(buf) =>
              Leftmost(Reverse(buf), [key |-> k, items |-> Tree!BufferCopy(k)])
<1> DEFINE n == Len(buf)
           B == Tree!InBuffer(k)
           m == Max(B)
           p == n - m + 1
<1>1. n \in Nat /\ DOMAIN buf = 1..n /\ \A i \in 1..n : buf[i] \in Sort!Tuple
  OBVIOUS
<1>2. Reverse(buf) = [i \in 1..n |-> buf[n - i + 1]]
  BY DEF Reverse
<1>3. B = {i \in 1..n : buf[i].key = k}
  BY DEF Tree!InBuffer
<1>4. Tree!BufferCopy(k) = buf[m].items
  BY SameOperators DEF Tree!BufferCopy
<1> HIDE DEF n, B, m
<1>5. k \in KeysIn(buf) <=> B # {}
  BY <1>1, <1>3 DEF KeysIn
<1>6. ASSUME B # {}
      PROVE  Leftmost(Reverse(buf), [key |-> k, items |-> buf[m].items])
  <2>1. B \in SUBSET (0..n)
    BY <1>1, <1>3
  <2>2. m \in B /\ \A i \in B : i <= m
    BY <1>1, <1>6, <2>1, MaxOfBoundedNats DEF m
  <2>3. m \in 1..n /\ buf[m].key = k
    BY <1>3, <2>2
  <2>4. p \in 1..n /\ n - p + 1 = m
        /\ \A q \in 1..p - 1 : q \in 1..n /\ n - q + 1 \in 1..n /\ ~(n - q + 1 <= m)
    BY <1>1, <2>3
  <2> HIDE DEF p
  <2>5. Len(Reverse(buf)) = n /\ \A i \in 1..n : Reverse(buf)[i] = buf[n - i + 1]
    BY <1>1, <1>2
  <2>6. Reverse(buf)[p] = [key |-> k, items |-> buf[m].items]
    <3>1. Reverse(buf)[p] = buf[m] /\ buf[m] \in Sort!Tuple
      BY <1>1, <2>3, <2>4, <2>5
    <3> QED
      BY <2>3, <3>1 DEF Sort!Tuple
  <2>7. \A q \in 1..p - 1 : Reverse(buf)[q].key # k
    <3> SUFFICES ASSUME NEW q \in 1..p - 1 PROVE Reverse(buf)[q].key # k
      OBVIOUS
    <3>1. n - q + 1 \in 1..n /\ n - q + 1 \notin B /\ Reverse(buf)[q] = buf[n - q + 1]
      BY <2>2, <2>4, <2>5
    <3> QED
      BY <1>3, <3>1
  <2> QED
    BY <2>4, <2>5, <2>6, <2>7 DEF Leftmost
<1> QED
  BY <1>4, <1>5, <1>6 DEF B

(* Every run of a tree in order is on disk.                                *)
LEMMA InvOnDisk ==
  ASSUME DiskInv, NEW l \in 1..Len(levels)
  PROVE  /\ levels[l] \in LevelOfRuns
         /\ \A r \in 1..Len(levels[l]) : RunOnDisk(disk, levels[l][r])
  BY DEF DiskInv, AllOnDisk, AllAscend, RunOnDisk

(* Of all that LSM_T::Insert gathers on its way to level t the leftmost    *)
(* copy of a key is the one that LSMTree finds first in the buffer and the *)
(* levels above.                                                           *)
LEMMA GatheredNewest ==
  ASSUME DiskInv, NEW t \in Nat \ {0}, t <= Len(levels) + 1,
         NEW above, Len(above) = t - 1,
         \A l \in 1..t - 1 : above[l] = LevelView(levels[l]), NEW k
  PROVE  /\ k \in KeysIn(Gathered(t)) <=> Tree!Holds(above, k)
         /\ k \in KeysIn(Gathered(t)) =>
              Leftmost(Gathered(t), [key |-> k, items |-> Tree!FirstCopy(above, k)])
<1> DEFINE n == t - 1
           seqs == [l \in 1..t - 1 |-> LevelTuples(levels[l])]
           a == FlattenSeq(seqs)
           b == Reverse(buf)
           L == Tree!InLevels(above, k)
<1>1. /\ n \in Nat /\ Len(levels) \in Nat /\ buf \in Seq(Sort!Tuple)
      /\ \A l \in 1..n : l \in 1..Len(levels) /\ levels[l] \in LevelOfRuns
  BY InvOnDisk DEF DiskInv
<1>2. \A l \in 1..n : \A r \in 1..Len(levels[l]) : RunOnDisk(disk, levels[l][r])
  BY <1>1, InvOnDisk
<1>3. Gathered(t) = b \o a
  BY DEF Gathered
<1>4. seqs = [l \in 1..n |-> seqs[l]] /\ \A l \in 1..n : seqs[l] = LevelTuples(levels[l])
  OBVIOUS
<1>5. b \in Seq(Sort!Tuple) /\ KeysIn(b) = KeysIn(buf)
  BY <1>1, BufferReads
<1>6. L = {l \in 1..n : Tree!InLevel(LevelView(levels[l]), k) # {}}
  BY DEF Tree!InLevels
<1>7. Tree!Holds(above, k) <=> Tree!InBuffer(k) # {} \/ L # {}
  BY DEF Tree!Holds
<1>8. Tree!FirstCopy(above, k) =
        IF Tree!InBuffer(k) # {} THEN Tree!BufferCopy(k)
        ELSE Tree!LevelCopy(above[Min(L)], k)
  BY SameOperators DEF Tree!FirstCopy, Tree!DiskCopy
<1>9. \A l \in 1..n : above[l] = LevelView(levels[l])
  OBVIOUS
<1> HIDE DEF n, seqs, a, b, L
<1>10. ASSUME NEW l \in 1..n
       PROVE  /\ seqs[l] \in Seq(Sort!Tuple)
              /\ k \in KeysIn(seqs[l]) <=> l \in L
              /\ l \in L => Leftmost(seqs[l], [key |-> k, items |-> Tree!LevelCopy(above[l], k)])
  <2>1. /\ seqs[l] = LevelTuples(levels[l]) /\ levels[l] \in LevelOfRuns
        /\ \A r \in 1..Len(levels[l]) : RunOnDisk(disk, levels[l][r])
        /\ above[l] = LevelView(levels[l])
    BY <1>1, <1>2, <1>4, <1>9
  <2>2. seqs[l] \in Seq(Sort!Tuple)
    BY <2>1, LevelReads DEF RunOnDisk
  <2>3. /\ k \in KeysIn(seqs[l]) <=> l \in L
        /\ l \in L => Leftmost(seqs[l], [key |-> k, items |-> Tree!LevelCopy(above[l], k)])
    BY <1>6, <2>1, LevelNewest
  <2> QED
    BY <2>2, <2>3
<1>11. a \in Seq(Sort!Tuple) /\ KeysIn(a) = UNION {KeysIn(seqs[l]) : l \in 1..n}
  BY <1>1, <1>4, <1>10, FlattenedKeys DEF a
<1>12. LeftmostOfAll(a, seqs, n)
  BY <1>1, <1>4, <1>10, LeftmostFlattened DEF a
<1>13. /\ KeysIn(b \o a) = KeysIn(b) \cup KeysIn(a)
       /\ \A u : Leftmost(b, u) => Leftmost(b \o a, u)
       /\ \A u : Leftmost(a, u) /\ u.key \notin KeysIn(b) => Leftmost(b \o a, u)
  BY <1>5, <1>11, LeftmostOfBoth
<1>14. L \subseteq 1..n
  BY <1>6
<1>15. k \in KeysIn(a) <=> L # {}
  BY <1>10, <1>11, <1>14
<1>16. k \in KeysIn(b) <=> Tree!InBuffer(k) # {}
  BY <1>1, <1>5, BufferNewest
<1>17. CASE Tree!InBuffer(k) # {}
  <2>1. Leftmost(b, [key |-> k, items |-> Tree!BufferCopy(k)])
    BY <1>1, <1>5, <1>16, <1>17, BufferNewest DEF b
  <2> QED
    BY <1>3, <1>7, <1>8, <1>13, <1>16, <1>17, <2>1
<1>18. CASE Tree!InBuffer(k) = {} /\ L # {}
  <2> DEFINE l == Min(L)
             u == [key |-> k, items |-> Tree!LevelCopy(above[l], k)]
  <2>1. L \in SUBSET Nat
    BY <1>1, <1>14
  <2>2. l \in L /\ \A j \in L : l <= j
    BY <1>18, <2>1, MinOfNats
  <2> HIDE DEF l
  <2>3. l \in 1..n /\ Leftmost(seqs[l], u) /\ u.key = k
    BY <1>10, <1>14, <2>2
  <2>4. \A j \in 1..l - 1 : k \notin KeysIn(seqs[j])
    <3> SUFFICES ASSUME NEW j \in 1..l - 1 PROVE k \notin KeysIn(seqs[j])
      OBVIOUS
    <3>1. j \in 1..n /\ ~(l <= j)
      BY <1>1, <2>3
    <3> QED
      BY <1>10, <2>2, <3>1
  <2> HIDE DEF u
  <2>5. Leftmost(a, u)
    BY <1>12, <2>3, <2>4 DEF LeftmostOfAll
  <2>6. Leftmost(b \o a, u)
    BY <1>13, <1>16, <1>18, <2>3, <2>5
  <2> QED
    BY <1>3, <1>7, <1>8, <1>13, <1>15, <1>18, <2>6 DEF u, l
<1>19. CASE Tree!InBuffer(k) = {} /\ L = {}
  BY <1>3, <1>7, <1>13, <1>15, <1>16, <1>19
<1> QED
  BY <1>17, <1>18, <1>19

-----------------------------------------------------------------------------
(* The run a flush writes is the one LSMTree says.                         *)

(* What Level::_Sort keeps are leftmost copies.                            *)
LEMMA SortNewest ==
  ASSUME NEW arr \in Seq(Sort!Tuple), NEW p \in DOMAIN Sort!_Sort(arr)
  PROVE  Leftmost(arr, Sort!_Sort(arr)[p])
<1> DEFINE u == Sort!_Sort(arr)[p]
<1>1. arr \in Seq(SortProofs!Tuple)
  BY DEF Sort!Tuple, SortProofs!Tuple
<1>2. SortProofs!TuplesOf(SortProofs!_Sort(arr)) = SortProofs!Firsts(arr)
  BY <1>1, SortAssumed, SortProofs!SortKeepsLeftmost
<1>3. u \in SortProofs!TuplesOf(SortProofs!_Sort(arr))
  BY SameSort DEF SortProofs!TuplesOf
<1> HIDE DEF u
<1>4. PICK q \in DOMAIN arr : u = arr[q] /\ SortProofs!IsFirst(arr, q)
  BY <1>2, <1>3 DEF SortProofs!Firsts
<1>5. q \in 1..Len(arr)
  OBVIOUS
<1> QED
  BY <1>4, <1>5 DEF Leftmost, SortProofs!IsFirst, u

(* The keys of the files of a new run are those of its tuples.             *)
LEMMA NewRunKeys ==
  ASSUME SSTSize = Table!max_tuples_per_file * TupleSize,
         NEW t \in Nat \ {0}, NEW id \in Nat, NEW tuples \in Seq(Sort!Tuple),
         \A p, q \in DOMAIN tuples : p < q => tuples[p].key < tuples[q].key
  PROVE  LET run == NewFiles(t, id, tuples)
             files == Table!Files(tuples)
         IN  /\ KeysOfRun(run) = KeysIn(tuples)
             /\ \A f \in 1..Len(run) : \A i \in 1..Len(run[f].keys) :
                  \E p \in DOMAIN tuples :
                    /\ files[f][i] = tuples[p]
                    /\ run[f].keys[i] = tuples[p].key
                    /\ SlotsFor(files[f])[i].slot = AppendBin2Vec(tuples[p].items)
<1> DEFINE files == Table!Files(tuples)
           run == NewFiles(t, id, tuples)
           n == Len(run)
<1>1. /\ n = Len(files)
      /\ \A f \in 1..n : /\ run[f].keys = [i \in DOMAIN files[f] |-> files[f][i].key]
                         /\ Len(run[f].keys) = Len(files[f])
      /\ KeysIn(tuples) \subseteq KeysOfRun(run)
  <2>1. FilesMade(run, files, t, id)
    BY NewRun
  <2>2. SSTSize = Table!max_tuples_per_file * TupleSize =>
          KeysIn(tuples) \subseteq KeysOfRun(run)
    BY NewRun
  <2> HIDE DEF run, files
  <2> QED
    BY <2>1, <2>2 DEF FilesMade
<1>2. /\ n \in Nat /\ files \in Seq(Seq(Sort!Tuple))
      /\ \A f \in 1..n : \A i \in 1..Len(files[f]) :
           Place(f, i) \in 1..Len(tuples) /\ files[f][i] = tuples[Place(f, i)]
  <2>1. Len(files) \in Nat /\ files \in Seq(Seq(Sort!Tuple))
    BY FilesGive
  <2>2. \A f \in 1..Len(files) : \A i \in 1..Len(files[f]) :
          Place(f, i) \in 1..Len(tuples) /\ files[f][i] = tuples[Place(f, i)]
    BY FilesGive
  <2> QED
    BY <1>1, <2>1, <2>2
<1>3. DOMAIN tuples = 1..Len(tuples)
  OBVIOUS
<1>4. \A f \in 1..n : DOMAIN files[f] = 1..Len(files[f])
  BY <1>1, <1>2
<1> HIDE DEF files, run, n
<1>5. ASSUME NEW f \in 1..n, NEW i \in 1..Len(run[f].keys)
      PROVE  \E p \in DOMAIN tuples :
               /\ files[f][i] = tuples[p]
               /\ run[f].keys[i] = tuples[p].key
               /\ SlotsFor(files[f])[i].slot = AppendBin2Vec(tuples[p].items)
  <2> DEFINE p == Place(f, i)
  <2>1. i \in 1..Len(files[f]) /\ i \in DOMAIN files[f]
    BY <1>1, <1>4
  <2>2. p \in DOMAIN tuples /\ files[f][i] = tuples[p]
    BY <1>2, <1>3, <2>1
  <2> HIDE DEF p
  <2>3. run[f].keys[i] = tuples[p].key
    <3>1. run[f].keys = [j \in DOMAIN files[f] |-> files[f][j].key]
      BY <1>1
    <3> QED
      BY <2>1, <2>2, <3>1
  <2>4. SlotsFor(files[f])[i].slot = AppendBin2Vec(tuples[p].items)
    BY <2>1, <2>2 DEF SlotsFor
  <2> QED
    BY <2>2, <2>3, <2>4
<1>6. KeysOfRun(run) \subseteq KeysIn(tuples)
  BY <1>5 DEF KeysOfRun, KeysIn, n
<1> QED
  BY <1>1, <1>5, <1>6 DEF n, files, run

(* Reading, sorting, cutting and writing what is gathered makes the run    *)
(* that LSMTree makes of the first copies of the keys.                     *)
LEMMA NewRunView ==
  ASSUME DiskInv, SSTSize = Table!max_tuples_per_file * TupleSize,
         NEW t \in Nat \ {0}, t <= Len(levels) + 1,
         NEW above, Len(above) = t - 1,
         \A l \in 1..t - 1 : above[l] = LevelView(levels[l]),
         NEW id \in Nat, NEW old
  PROVE  LET tuples == Sort!_Sort(Gathered(t))
             run == NewFiles(t, id, tuples)
         IN  RunViewIn(Written(old, run, tuples, Len(run)), run) = Tree!NewRun(above)
<1> DEFINE all == Gathered(t)
           tuples == Sort!_Sort(all)
           run == NewFiles(t, id, tuples)
           dsk == Written(old, run, tuples, Len(run))
           files == Table!Files(tuples)
           view == RunViewIn(dsk, run)
<1>1. all \in Seq(Sort!Tuple)
  BY GatheredReads
<1>2. \A k : /\ k \in KeysIn(all) <=> Tree!Holds(above, k)
             /\ k \in KeysIn(all) =>
                  Leftmost(all, [key |-> k, items |-> Tree!FirstCopy(above, k)])
  BY GatheredNewest
<1> HIDE DEF all
<1>3. /\ tuples \in Seq(Sort!Tuple) /\ KeysIn(tuples) = KeysIn(all)
      /\ \A p, q \in DOMAIN tuples : p < q => tuples[p].key < tuples[q].key
      /\ \A p \in DOMAIN tuples : Leftmost(all, tuples[p])
  BY <1>1, SortGives, SortNewest
<1> HIDE DEF tuples
<1>4. run \in RunOfFiles /\ KeysAscend(run)
  BY <1>3, NewRun
<1>5. /\ \A f \in 1..Len(run) : IsOnDisk(dsk, run[f])
      /\ \A f \in 1..Len(run) : dsk[run[f].name] = SlotsFor(files[f])
  <2>1. \A f \in 1..Len(run) : IsOnDisk(dsk, run[f])
    BY <1>3, NewRunOnDisk, SMTT(30)
  <2>2. \A f \in 1..Len(run) : dsk[run[f].name] = SlotsFor(files[f])
    BY <1>3, NewRunOnDisk, SMTT(30)
  <2> QED
    BY <2>1, <2>2
<1>6. /\ KeysOfRun(run) = KeysIn(tuples)
      /\ \A f \in 1..Len(run) : \A i \in 1..Len(run[f].keys) :
           \E p \in DOMAIN tuples :
             /\ files[f][i] = tuples[p]
             /\ run[f].keys[i] = tuples[p].key
             /\ SlotsFor(files[f])[i].slot = AppendBin2Vec(tuples[p].items)
  <2>1. KeysOfRun(run) = KeysIn(tuples)
    BY <1>3, NewRunKeys
  <2>2. \A f \in 1..Len(run) : \A i \in 1..Len(run[f].keys) :
           \E p \in DOMAIN tuples :
             /\ files[f][i] = tuples[p]
             /\ run[f].keys[i] = tuples[p].key
             /\ SlotsFor(files[f])[i].slot = AppendBin2Vec(tuples[p].items)
    BY <1>3, NewRunKeys
  <2> QED
    BY <2>1, <2>2
<1> HIDE DEF files, run, dsk
<1>7. ShowsFiles(view, dsk, run)
  BY <1>4, <1>5, RunViewShows DEF RunOnDisk
<1> HIDE DEF view
<1>8. ASSUME NEW k \in KeysIn(all)
      PROVE  view[k] = AppendBin2Vec(Tree!FirstCopy(above, k))
  <2>1. PICK f \in 1..Len(run) : \E i \in 1..Len(run[f].keys) : k = run[f].keys[i]
    BY <1>3, <1>6 DEF KeysOfRun
  <2>2. PICK i \in 1..Len(run[f].keys) : k = run[f].keys[i]
    BY <2>1
  <2>3. PICK p \in DOMAIN tuples :
          /\ k = tuples[p].key
          /\ SlotsFor(files[f])[i].slot = AppendBin2Vec(tuples[p].items)
    BY <1>6, <2>2
  <2>4. view[k] = AppendBin2Vec(tuples[p].items)
    BY <1>5, <1>7, <2>2, <2>3 DEF ShowsFiles
  <2> DEFINE u == [key |-> k, items |-> Tree!FirstCopy(above, k)]
  <2>5. Leftmost(all, u) /\ Leftmost(all, tuples[p]) /\ u.key = tuples[p].key
    BY <1>2, <1>3, <1>8, <2>3
  <2>6. tuples[p].items = Tree!FirstCopy(above, k)
    <3>1. u = tuples[p]
      <4> HIDE DEF u
      <4> QED
        BY <1>1, <2>5, LeftmostIsOne
    <3>2. u.items = Tree!FirstCopy(above, k)
      OBVIOUS
    <3> HIDE DEF u
    <3> QED
      BY <3>1, <3>2
  <2> QED
    BY <2>4, <2>6
<1>9. KeysIn(all) = {x \in Key : Tree!Holds(above, x)}
  <2>1. DOMAIN all = 1..Len(all) /\ \A p \in DOMAIN all : all[p] \in Sort!Tuple
    BY <1>1
  <2>2. KeysIn(all) \subseteq Key
    BY <2>1 DEF KeysIn, Sort!Tuple
  <2> QED
    BY <1>2, <2>2
<1>10. view = [k \in KeysIn(all) |-> view[k]]
  BY <1>3, <1>6, <1>7 DEF ShowsFiles
<1>11. Tree!NewRun(above) = [k \in KeysIn(all) |-> AppendBin2Vec(Tree!FirstCopy(above, k))]
  BY <1>9, SameOperators DEF Tree!NewRun
<1>12. view = Tree!NewRun(above)
  BY <1>8, <1>10, <1>11
<1> QED
  BY <1>12 DEF view, dsk, run, tuples, all

(* A run whose files did not change on disk shows what it showed.          *)
LEMMA SameFilesSameView ==
  ASSUME NEW dsk, NEW dsk2, NEW run \in RunOfFiles,
         \A f \in 1..Len(run) : dsk2[run[f].name] = dsk[run[f].name]
  PROVE  RunViewIn(dsk2, run) = RunViewIn(dsk, run)
<1>1. \A f \in DOMAIN run : dsk2[run[f].name] = dsk[run[f].name]
  BY DEF RunOfFiles
<1>2. SlotsIn(dsk2, run) = SlotsIn(dsk, run)
  <2>1. [f \in DOMAIN run |-> SubSeq(dsk2[run[f].name], 1, Len(run[f].keys))]
          = [f \in DOMAIN run |-> SubSeq(dsk[run[f].name], 1, Len(run[f].keys))]
    BY <1>1
  <2> QED
    BY <2>1 DEF SlotsIn
<1> QED
  BY <1>2 DEF RunViewIn

(* LSMTree sees as many levels, and in each as many runs, as there are.    *)
LEMMA ViewShape ==
  ASSUME levels \in Seq(LevelOfRuns)
  PROVE  /\ Len(LevelsView) = Len(levels) /\ DOMAIN LevelsView = 1..Len(levels)
         /\ LevelsView \in Seq(Seq({RunView(run) : run \in RunOfFiles}))
         /\ \A l \in 1..Len(levels) : /\ LevelsView[l] = LevelView(levels[l])
                                      /\ Len(LevelsView[l]) = Len(levels[l])
                                      /\ DOMAIN LevelsView[l] = 1..Len(levels[l])
<1> DEFINE V == {RunView(run) : run \in RunOfFiles}
           n == Len(levels)
<1>1. /\ n \in Nat /\ DOMAIN levels = 1..n
      /\ \A l \in 1..n : /\ Len(levels[l]) \in Nat /\ DOMAIN levels[l] = 1..Len(levels[l])
                         /\ \A r \in 1..Len(levels[l]) : levels[l][r] \in RunOfFiles
  BY LevelFacts
<1>2. LevelsView = [l \in 1..n |-> LevelView(levels[l])]
  BY <1>1 DEF LevelsView, LevelView
<1> HIDE DEF n
<1>3. ASSUME NEW l \in 1..n
      PROVE  /\ LevelView(levels[l]) \in Seq(V)
             /\ Len(LevelView(levels[l])) = Len(levels[l])
             /\ DOMAIN LevelView(levels[l]) = 1..Len(levels[l])
  <2>1. LevelView(levels[l]) = [r \in 1..Len(levels[l]) |-> RunView(levels[l][r])]
    BY <1>1 DEF LevelView
  <2>2. \A r \in 1..Len(levels[l]) : RunView(levels[l][r]) \in V
    BY <1>1
  <2> HIDE DEF V
  <2> QED
    BY <1>1, <2>1, <2>2
<1> HIDE DEF V
<1>4. LevelsView \in Seq(Seq(V)) /\ Len(LevelsView) = n
  BY <1>1, <1>2, <1>3
<1> QED
  BY <1>2, <1>3, <1>4 DEF n, V

(* A flush empties the levels before its target, adds the run LSMTree says *)
(* to the target, and leaves what every other run shows as it was.         *)
LEMMA FlushView ==
  ASSUME DiskInv, SSTSize = Table!max_tuples_per_file * TupleSize,
         NEW t \in 1..Len(levels) + 1,
         NEW names \in Unlinked(NamesIn(SubSeq(levels, 1, t - 1))), FlushedTo(t, names)
  PROVE  LevelsView' = Tree!Flushed(t)
<1> DEFINE tuples == Sort!_Sort(Gathered(t))
           id == Len(RunsOf(t))
           run == NewFiles(t, id, tuples)
           above == SubSeq(LevelsView, 1, t - 1)
           new == Tree!NewRun(above)
           n == Len(levels)
           m == IF t > n THEN t ELSE n
<1>1. levels \in Seq(LevelOfRuns) /\ n \in Nat /\ t \in Nat \ {0} /\ t <= n + 1
  BY DEF DiskInv
<1>2. levels' = FlushedLevels(t, run) /\ disk' = Written(Without(names), run, tuples, Len(run))
  BY DEF FlushedTo
<1>3. /\ Len(LevelsView) = n
      /\ \A l \in 1..n : LevelsView[l] = LevelView(levels[l])
      /\ LevelsView \in Seq(Seq({RunView(r) : r \in RunOfFiles}))
  BY <1>1, ViewShape
<1>4. \A l \in 1..n : /\ Len(levels[l]) \in Nat /\ DOMAIN levels[l] = 1..Len(levels[l])
                      /\ \A r \in 1..Len(levels[l]) : levels[l][r] \in RunOfFiles
  BY <1>1, LevelFacts
<1>5. Len(above) = t - 1 /\ \A l \in 1..t - 1 : above[l] = LevelView(levels[l])
  <2> DEFINE V == Seq({RunView(r) : r \in RunOfFiles})
  <2>1. LevelsView \in Seq(V) /\ \A l \in 1..t - 1 : l \in 1..n
    BY <1>1, <1>3
  <2> HIDE DEF V, n
  <2>2. Len(above) = t - 1 /\ \A l \in 1..t - 1 : above[l] = LevelsView[l]
    BY <1>1, <1>3, <2>1
  <2> QED
    BY <1>3, <2>1, <2>2
<1> HIDE DEF above, tuples
<1>6. id \in Nat /\ (t <= n => RunsOf(t) = levels[t]) /\ (t > n => RunsOf(t) = <<>>)
  <2>1. CASE t <= n
    BY <1>1, <1>4, <2>1 DEF RunsOf
  <2>2. CASE t > n
    BY <1>1, <2>2 DEF RunsOf
  <2> QED
    BY <1>1, <2>1, <2>2
<1>7. RunViewIn(disk', run) = new
  BY <1>1, <1>2, <1>5, <1>6, NewRunView DEF tuples
<1> HIDE DEF run, new
<1>8. ASSUME NEW l \in t..n, NEW r \in 1..Len(levels[l])
      PROVE  RunViewIn(disk', levels[l][r]) = RunView(levels[l][r])
  <2>1. \A f \in 1..Len(levels[l][r]) : disk'[levels[l][r][f].name] = disk[levels[l][r][f].name]
    BY OldFilesStay
  <2>2. levels[l][r] \in RunOfFiles
    BY <1>1, <1>4
  <2> QED
    BY <2>1, <2>2, SameFilesSameView, ViewsAre
<1>9. /\ Max({n, t}) = m
      /\ Tree!Max({Len(LevelsView), t}) = m
  BY <1>1, <1>3, LargerOf, SameOperators
<1>10. levels' = [l \in 1..m |-> IF l < t THEN <<>>
                                ELSE IF l = t THEN Append(RunsOf(t), run) ELSE levels[l]]
  BY <1>2, <1>9 DEF FlushedLevels
<1>11. Tree!Flushed(t) = [l \in 1..m |->
           IF l < t THEN <<>>
           ELSE IF l > t THEN LevelsView[l]
           ELSE IF t > n THEN <<new>> ELSE Append(LevelsView[t], new)]
  BY <1>3, <1>9 DEF Tree!Flushed, above, new
<1>12. LevelsView' = [l \in 1..m |-> [r \in DOMAIN levels'[l] |-> RunViewIn(disk', levels'[l][r])]]
  BY <1>10, ViewsAre DEF ViewIn
<1>13. ASSUME NEW l \in 1..m PROVE LevelsView'[l] = Tree!Flushed(t)[l]
  <2>1. LevelsView'[l] = [r \in DOMAIN levels'[l] |-> RunViewIn(disk', levels'[l][r])]
    BY <1>12
  <2>2. CASE l < t
    BY <1>10, <1>11, <2>1, <2>2
  <2>3. CASE l > t
    <3>1. levels'[l] = levels[l] /\ Tree!Flushed(t)[l] = LevelsView[l] /\ l \in t..n /\ l \in 1..n
      BY <1>1, <1>10, <1>11, <2>3
    <3>2. DOMAIN levels[l] = 1..Len(levels[l])
      BY <1>4, <3>1
    <3>3. \A r \in DOMAIN levels[l] : RunViewIn(disk', levels[l][r]) = RunView(levels[l][r])
      BY <1>8, <3>1, <3>2
    <3>4. LevelsView[l] = [r \in DOMAIN levels[l] |-> RunView(levels[l][r])]
      BY <1>3, <3>1 DEF LevelView
    <3> HIDE DEF n
    <3> QED
      BY <2>1, <3>1, <3>3, <3>4
  <2>4. CASE l = t /\ t > n
    <3>1. levels'[l] = <<run>> /\ Tree!Flushed(t)[l] = <<new>>
      BY <1>1, <1>6, <1>10, <1>11, <2>4
    <3> QED
      BY <1>7, <2>1, <3>1
  <2>5. CASE l = t /\ ~(t > n)
    <3> DEFINE runs == levels[t]
               view == LevelsView[t]
    <3>1. t \in 1..n /\ t \in t..n /\ Len(runs) = id
      BY <1>1, <1>6, <2>5
    <3>2. levels'[l] = Append(runs, run) /\ Tree!Flushed(t)[l] = Append(view, new)
      <4>1. RunsOf(t) = runs
        BY <1>6, <3>1
      <4>2. levels'[l] = Append(RunsOf(t), run)
        BY <1>1, <1>10, <2>5
      <4>3. Tree!Flushed(t)[l] = Append(view, new)
        BY <1>1, <1>11, <2>5
      <4> QED
        BY <4>1, <4>2, <4>3
    <3>3. view = [r \in 1..id |-> RunView(runs[r])] /\ DOMAIN runs = 1..id
      BY <1>3, <1>4, <3>1 DEF LevelView
    <3>4. \A r \in 1..id : RunViewIn(disk', runs[r]) = RunView(runs[r])
      BY <1>8, <3>1
    <3>5. runs \in Seq(RunOfFiles)
      BY <1>1, <3>1 DEF LevelOfRuns
    <3> HIDE DEF runs, view, id, n
    <3>6. /\ DOMAIN Append(runs, run) = 1..id + 1
          /\ \A r \in 1..id : Append(runs, run)[r] = runs[r]
          /\ Append(runs, run)[id + 1] = run
      BY <1>6, <3>1, <3>3, <3>5
    <3>7. Append(view, new) = [r \in 1..id + 1 |-> IF r = id + 1 THEN new ELSE RunView(runs[r])]
      BY <1>6, <3>3
    <3>8. \A r \in 1..id + 1 : r = id + 1 \/ r \in 1..id
      BY <1>6
    <3>9. \A r \in 1..id + 1 : RunViewIn(disk', Append(runs, run)[r])
                               = IF r = id + 1 THEN new ELSE RunView(runs[r])
      BY <1>7, <3>4, <3>6, <3>8
    <3> QED
      BY <2>1, <3>2, <3>6, <3>7, <3>9
  <2> QED
    BY <1>1, <2>2, <2>3, <2>4, <2>5
<1> QED
  BY <1>11, <1>12, <1>13

-----------------------------------------------------------------------------
(* Every insert is one of LSMTree.                                         *)

(* A flush has the target LSMTree says.                                    *)
LEMMA SameTarget ==
  ASSUME levels \in Seq(LevelOfRuns), NEW t, IsTarget(t)
  PROVE  Tree!IsTarget(t)
<1>1. /\ t \in 1..Len(levels) + 1 /\ Len(levels) \in Nat
      /\ \A l \in 1..t - 1 : ReadyMerge(levels[l])
      /\ t <= Len(levels) => ~ReadyMerge(levels[t])
  BY DEF IsTarget
<1>2. Len(LevelsView) = Len(levels) /\ \A l \in 1..Len(levels) : Len(LevelsView[l]) = Len(levels[l])
  BY ViewShape
<1>3. \A l \in 1..Len(levels) : Tree!ReadyMerge(LevelsView[l]) <=> ReadyMerge(levels[l])
  BY <1>2 DEF Tree!ReadyMerge, ReadyMerge
<1>4. \A l \in 1..t - 1 : l \in 1..Len(levels)
  BY <1>1
<1>5. t <= Len(levels) => t \in 1..Len(levels)
  BY <1>1
<1> QED
  BY <1>1, <1>2, <1>3, <1>4, <1>5 DEF Tree!IsTarget

(* An append, or a flush and an append, is that of LSMTree.                *)
LEMMA InsertRefines ==
  ASSUME DiskInv, SSTSize = Table!max_tuples_per_file * TupleSize,
         NEW k, NEW items, Insert(k, items)
  PROVE  Tree!Insert(k, items)
<1>1. CASE AppendTuple(k, items)
  <2>1. levels' = levels /\ disk' = disk
    BY <1>1 DEF AppendTuple
  <2>2. LevelsView' = LevelsView
    BY <2>1, ViewsAre
  <2> QED
    BY <1>1, <2>2 DEF AppendTuple, Tree!AppendTuple, Tree!Insert
<1>2. CASE FlushAndAppend(k, items)
  <2>1. levels \in Seq(LevelOfRuns)
    BY DEF DiskInv
  <2>2. PICK t \in 1..Len(levels) + 1 :
          /\ t \in 1..MaxLevels /\ IsTarget(t)
          /\ \E names \in Unlinked(NamesIn(SubSeq(levels, 1, t - 1))) : FlushedTo(t, names)
    BY <1>2, <2>1, FlushIsTo
  <2>3. PICK names \in Unlinked(NamesIn(SubSeq(levels, 1, t - 1))) : FlushedTo(t, names)
    BY <2>2
  <2>4. LevelsView' = Tree!Flushed(t)
    BY <2>3, FlushView
  <2>5. Tree!IsTarget(t)
    BY <2>1, <2>2, SameTarget
  <2>6. Len(buf) >= BufCap /\ buf' = <<[key |-> k, items |-> items]>>
    BY <1>2 DEF FlushAndAppend
  <2> QED
    BY <2>2, <2>4, <2>5, <2>6 DEF Tree!FlushAndAppend, Tree!Insert
<1> QED
  BY <1>1, <1>2 DEF Insert

-----------------------------------------------------------------------------
(* A scan finds the leftmost copy of every asked key of what it has come   *)
(* to.                                                                     *)

(* What was found when the scan has been through the tuples of s.          *)
Answers(found, s, asked) ==
  /\ found = [k \in KeysIn(s) \cap Table!Within(asked) |-> found[k]]
  /\ \A k \in KeysIn(s) \cap Table!Within(asked) : Leftmost(s, [key |-> k, items |-> found[k]])

(* Every hole is in the range it still searches.                           *)
HolesWithin(search, found, asked) ==
  \A k \in Table!Within(asked) \ DOMAIN found : search.begin <= k /\ k <= search.end

(* The state of a scan when it has been through s.                         *)
ScanHolds(state, s, asked) ==
  /\ Answers(state.found, s, asked)
  /\ state.search \in Ranges
  /\ state.finished => Table!Within(asked) \subseteq DOMAIN state.found
  /\ ~state.finished => HolesWithin(state.search, state.found, asked)

(* Taking from t the asked keys that were not found is all there is to do. *)
LEMMA AnswersGrow ==
  ASSUME NEW s \in Seq(Sort!Tuple), NEW t \in Seq(Sort!Tuple), NEW asked,
         NEW found, Answers(found, s, asked), NEW new,
         new = [k \in DOMAIN found \cup (KeysIn(t) \cap Table!Within(asked)) |-> new[k]],
         \A k \in DOMAIN found : new[k] = found[k],
         \A k \in (KeysIn(t) \cap Table!Within(asked)) \ DOMAIN found :
           Leftmost(t, [key |-> k, items |-> new[k]])
  PROVE  Answers(new, s \o t, asked)
<1> DEFINE W == Table!Within(asked)
           u(k) == [key |-> k, items |-> new[k]]
<1>1. /\ KeysIn(s \o t) = KeysIn(s) \cup KeysIn(t)
      /\ \A v : Leftmost(s, v) => Leftmost(s \o t, v)
      /\ \A v : Leftmost(t, v) /\ v.key \notin KeysIn(s) => Leftmost(s \o t, v)
  BY LeftmostOfBoth
<1>2. /\ DOMAIN found = KeysIn(s) \cap W
      /\ \A k \in KeysIn(s) \cap W : Leftmost(s, [key |-> k, items |-> found[k]])
  BY DEF Answers
<1>3. /\ new = [k \in DOMAIN found \cup (KeysIn(t) \cap W) |-> new[k]]
      /\ \A k \in DOMAIN found : new[k] = found[k]
      /\ \A k \in (KeysIn(t) \cap W) \ DOMAIN found : Leftmost(t, u(k))
      /\ \A k : u(k).key = k
  OBVIOUS
<1> HIDE DEF W, u
<1>4. DOMAIN found \cup (KeysIn(t) \cap W) = KeysIn(s \o t) \cap W
  BY <1>1, <1>2
<1>5. ASSUME NEW k \in KeysIn(s \o t) \cap W PROVE Leftmost(s \o t, u(k))
  <2>1. CASE k \in KeysIn(s)
    <3>1. Leftmost(s, u(k))
      BY <1>2, <1>3, <1>5, <2>1 DEF u
    <3> QED
      BY <1>1, <3>1
  <2>2. CASE k \notin KeysIn(s)
    BY <1>1, <1>2, <1>3, <1>5, <2>2
  <2> QED
    BY <2>1, <2>2
<1>6. new = [k \in KeysIn(s \o t) \cap W |-> new[k]]
  BY <1>3, <1>4
<1> QED
  BY <1>5, <1>6 DEF Answers, W, u

(* The operators on files that were proved about are those a scan uses.    *)
LEMMA SameTable ==
  /\ \A range : Table!Within(range) = TableProofs!Within(range)
  /\ \A range, found : Table!ShrinkSearchRange(range, found)
                         = TableProofs!ShrinkSearchRange(range, found)
  /\ \A file, search, wanted : Table!fastBFIndex(file, search, wanted)
                                 = TableProofs!fastBFIndex(file, search, wanted)
  /\ \A file, suggest, slots : Table!Extent(file, suggest, slots)
                                 = TableProofs!Extent(file, suggest, slots)
  /\ \A tuples, extent : Table!TuplesRead(tuples, extent) = TableProofs!TuplesRead(tuples, extent)
<1>1. /\ \A a, b : Table!Least(a, b) = TableProofs!Least(a, b)
      /\ \A a, b : Table!Greatest(a, b) = TableProofs!Greatest(a, b)
      /\ \A S : Table!Min(S) = TableProofs!Min(S) /\ Table!Max(S) = TableProofs!Max(S)
      /\ \A n, size : Table!Pieces(n, size) = TableProofs!Pieces(n, size)
      /\ \A range : Table!Within(range) = TableProofs!Within(range)
      /\ \A i : Table!Wrap(i) = TableProofs!Wrap(i)
      /\ \A filter, key : Table!Query(filter, key) <=> TableProofs!Query(filter, key)
      /\ Table!NoOffset = TableProofs!NoOffset
  BY Zenon DEF Table!Least, TableProofs!Least, Table!Greatest, TableProofs!Greatest,
               Table!Min, TableProofs!Min, Table!Max, TableProofs!Max,
               Table!Pieces, TableProofs!Pieces, Table!Within, TableProofs!Within,
               Table!Wrap, TableProofs!Wrap, Table!Query, TableProofs!Query,
               Table!NoOffset, TableProofs!NoOffset
<1>2. \A tuples, i, size : Table!Piece(tuples, i, size) = TableProofs!Piece(tuples, i, size)
  BY <1>1 DEF Table!Piece, TableProofs!Piece
<1>3. \A range, found : Table!ShrinkSearchRange(range, found)
                          = TableProofs!ShrinkSearchRange(range, found)
  BY <1>1 DEF Table!ShrinkSearchRange, TableProofs!ShrinkSearchRange
<1>4. \A file : Table!BloomFilters(file) = TableProofs!BloomFilters(file)
  BY <1>1, <1>2 DEF Table!BloomFilters, TableProofs!BloomFilters
<1>5. \A file, search, wanted : Table!Candidates(file, search, wanted)
                                  = TableProofs!Candidates(file, search, wanted)
  BY <1>1, <1>4 DEF Table!Candidates, TableProofs!Candidates
<1>6. \A file, search, wanted : Table!fastBFIndex(file, search, wanted)
                                  = TableProofs!fastBFIndex(file, search, wanted)
  BY <1>1, <1>5 DEF Table!fastBFIndex, TableProofs!fastBFIndex
<1>7. \A file : Table!Fences(file) = TableProofs!Fences(file)
  BY <1>1, <1>2 DEF Table!Fences, TableProofs!Fences
<1>8. \A file, key : Table!GetOffset(file, key) = TableProofs!GetOffset(file, key)
  BY <1>1, <1>7, ZenonT(30) DEF Table!GetOffset, TableProofs!GetOffset
<1>9. \A file, key : Table!getTupleOffset(file, key) = TableProofs!getTupleOffset(file, key)
  BY <1>1, <1>4, <1>8 DEF Table!getTupleOffset, TableProofs!getTupleOffset
<1>10. \A slots, first, last : Table!SlotKeys(slots, first, last)
                                 = TableProofs!SlotKeys(slots, first, last)
  BY DEF Table!SlotKeys, TableProofs!SlotKeys
<1>11. \A file, suggest, slots : Table!fastFPIndex(file, suggest, slots)
                                   = TableProofs!fastFPIndex(file, suggest, slots)
  BY <1>1, <1>9, <1>10 DEF Table!fastFPIndex, TableProofs!fastFPIndex
<1>12. \A file, suggest, slots : Table!Extent(file, suggest, slots)
                                   = TableProofs!Extent(file, suggest, slots)
  BY <1>11 DEF Table!Extent, TableProofs!Extent
<1>13. \A tuples, extent : Table!TuplesRead(tuples, extent) = TableProofs!TuplesRead(tuples, extent)
  BY <1>1 DEF Table!TuplesRead, TableProofs!TuplesRead
<1> QED
  BY <1>1, <1>3, <1>6, <1>12, <1>13

-----------------------------------------------------------------------------
(* FileMetaData::Collect.                                                  *)

(* A file of a run as a scan takes it to be: on disk, its keys ascending,  *)
(* and no more of them than its first Bloom filter covers.                 *)
Readable(file) ==
  /\ file \in File /\ IsOnDisk(disk, file)
  /\ file.keys \in TableProofs!SSTFile
  /\ Len(file.keys) <= BFNumTuples

(* A key is in one place of a file, so that has its leftmost copy.         *)
LEMMA FileNewest ==
  ASSUME NEW file, Readable(file)
  PROVE  /\ FileTuples(file) \in Seq(Sort!Tuple)
         /\ KeysIn(FileTuples(file)) = {file.keys[p] : p \in 1..Len(file.keys)}
         /\ \A p \in 1..Len(file.keys) :
              Leftmost(FileTuples(file), Copy(file.keys[p], disk[file.name][p].slot))
<1> DEFINE n == Len(file.keys)
           s == FileTuples(file)
<1>1. /\ s \in Seq(Sort!Tuple) /\ Len(s) = n
      /\ \A p \in 1..n : /\ s[p].key = file.keys[p]
                         /\ s[p].items = Read2Tuple(disk[file.name][p].slot)
  BY FileReads DEF Readable
<1>2. /\ n \in Nat
      /\ \A p \in 1..n : file.keys[p] \in Int
      /\ \A p, q \in 1..n : p < q => file.keys[p] < file.keys[q]
  BY TableAssumed, TableProofs!FileFacts DEF Readable
<1> HIDE DEF n, s
<1>3. DOMAIN s = 1..n /\ \A p \in 1..n : s[p] \in Sort!Tuple
  BY <1>1
<1>4. KeysIn(s) = {file.keys[p] : p \in 1..n}
  BY <1>1, <1>3 DEF KeysIn
<1>5. ASSUME NEW p \in 1..n
      PROVE  Leftmost(s, Copy(file.keys[p], disk[file.name][p].slot))
  <2>1. s[p] = Copy(file.keys[p], disk[file.name][p].slot)
    BY <1>1, <1>3 DEF Sort!Tuple, Copy
  <2>2. \A q \in 1..p - 1 : s[q].key # s[p].key
    BY <1>1, <1>2
  <2> QED
    BY <1>1, <2>1, <2>2 DEF Leftmost
<1> QED
  BY <1>1, <1>4, <1>5 DEF s, n

(* What Collect reads of a file are slots of it.                           *)
SlotsRead(asked, search, found, file) ==
  LET suggest == Table!fastBFIndex(file.keys, search, Table!Within(asked) \ DOMAIN found)
  IN  IF Table!ReadsFile(suggest)
      THEN Table!TuplesRead(disk[file.name], Table!Extent(file.keys, suggest, "own"))
      ELSE <<>>

(* They are slots of the file, and one of them is that of a wanted key, if *)
(* the file has the key and the search range was not shrunk past it.       *)
LEMMA WantedAreRead ==
  ASSUME NEW file, Readable(file), NEW search \in Ranges, NEW asked, NEW found,
         Table!Within(asked) \subseteq Key, HolesWithin(search, found, asked),
         "own" \in StringSlots
  PROVE  LET slots == SlotsRead(asked, search, found, file)
         IN  /\ slots \in Seq(Slots)
             /\ \A i \in 1..Len(slots) : \E p \in 1..Len(file.keys) :
                  slots[i] = disk[file.name][p] /\ slots[i].key = file.keys[p]
             /\ \A p \in 1..Len(file.keys) :
                  file.keys[p] \in Table!Within(asked) \ DOMAIN found =>
                    \E i \in 1..Len(slots) : slots[i].key = file.keys[p]
<1> DEFINE wanted == Table!Within(asked) \ DOMAIN found
           suggest == Table!fastBFIndex(file.keys, search, wanted)
           extent == Table!Extent(file.keys, suggest, "own")
           onDisk == disk[file.name]
           slots == SlotsRead(asked, search, found, file)
           n == Len(file.keys)
<1>1. /\ file.keys \in TableProofs!SSTFile /\ n <= BFNumTuples
      /\ n \in Nat /\ \A p \in 1..n : file.keys[p] \in Int
  BY TableAssumed, TableProofs!FileFacts DEF Readable
<1>2. /\ onDisk \in Seq(Slots) /\ Len(onDisk) = n
      /\ \A p \in 1..n : onDisk[p].key = file.keys[p]
  BY OnDiskFile DEF Readable
<1>3. wanted \in SUBSET Key /\ \A k \in wanted : search.begin <= k /\ k <= search.end
  BY DEF HolesWithin
<1>4. search \in [begin : Int, end : Int]
  BY DEF Ranges
<1>5. suggest = TableProofs!fastBFIndex(file.keys, search, wanted)
  BY SameTable
<1>6. suggest \in [begin : Int, end : Int]
  BY <1>3, <1>4, <1>5, TableAssumed, TableProofs!SuggestionType
<1>7. extent = TableProofs!Extent(file.keys, suggest, "own")
  BY SameTable
<1> HIDE DEF extent
<1>8. extent \in [start : Nat, end : Int]
  BY <1>1, <1>6, <1>7, TableAssumed, TableProofs!ExtentType
<1>9. slots = IF suggest.begin <= suggest.end
              THEN TableProofs!TuplesRead(onDisk, extent) ELSE <<>>
  BY SameTable DEF SlotsRead, Table!ReadsFile, extent
<1> HIDE DEF slots, onDisk, n
<1> DEFINE read == TableProofs!TuplesRead(onDisk, extent)
<1>10. /\ read \in Seq(Slots)
       /\ \A i \in 1..Len(read) : \E p \in 1..n : read[i] = onDisk[p]
       /\ \A p \in 1..n : extent.start < p /\ p <= extent.end =>
            \E i \in 1..Len(read) : read[i] = onDisk[p]
  <2>1. onDisk \in Seq(Slots) /\ extent \in [start : Nat, end : Int]
    BY <1>2, <1>8
  <2>2. read \in Seq(Slots)
    BY <2>1, TableAssumed, TableProofs!ReadsAreStored
  <2>3. \A i \in 1..Len(read) : \E p \in 1..Len(onDisk) : read[i] = onDisk[p]
    BY <2>1, TableAssumed, TableProofs!ReadsAreStored
  <2>4. \A p \in 1..Len(onDisk) : extent.start < p /\ p <= extent.end =>
          \E i \in 1..Len(read) : read[i] = onDisk[p]
    BY <2>1, TableAssumed, TableProofs!ReadsAreStored, ZenonT(30)
  <2> HIDE DEF read
  <2> QED
    BY <1>2, <2>2, <2>3, <2>4
<1> HIDE DEF read
<1>11. /\ slots \in Seq(Slots)
       /\ \A i \in 1..Len(slots) : \E p \in 1..n : slots[i] = onDisk[p]
  <2>1. slots = IF suggest.begin <= suggest.end THEN read ELSE <<>>
    BY <1>9 DEF read
  <2> HIDE DEF suggest
  <2>2. CASE suggest.begin <= suggest.end
    BY <1>10, <2>1, <2>2
  <2>3. CASE ~(suggest.begin <= suggest.end)
    BY <2>1, <2>3
  <2> QED
    BY <2>2, <2>3
<1>12. ASSUME NEW i \in 1..Len(slots)
       PROVE  \E p \in 1..n : slots[i] = onDisk[p] /\ slots[i].key = file.keys[p]
  BY <1>2, <1>11
<1>13. ASSUME NEW p \in 1..n, file.keys[p] \in wanted
       PROVE  \E i \in 1..Len(slots) : slots[i].key = file.keys[p]
  <2>1. search.begin <= file.keys[p] /\ file.keys[p] <= search.end
    BY <1>3, <1>13
  <2> HIDE DEF wanted, suggest
  <2>2. /\ suggest.begin <= file.keys[p] /\ file.keys[p] <= suggest.end
        /\ TableProofs!Query(TableProofs!BloomFilters(file.keys)[1], suggest.begin)
        /\ TableProofs!Query(TableProofs!BloomFilters(file.keys)[1], suggest.end)
    BY <1>1, <1>3, <1>4, <1>5, <1>13, <2>1, TableAssumed, TableProofs!SuggestionContains DEF n
  <2>3. extent.start < p /\ p <= extent.end
    BY <1>1, <1>6, <1>7, <2>2, TableAssumed, TableProofs!ExtentContains DEF n
  <2>4. suggest.begin <= suggest.end
    BY <1>1, <1>6, <2>2
  <2>5. slots = read
    BY <1>9, <2>4 DEF read
  <2>6. PICK i \in 1..Len(slots) : slots[i] = onDisk[p]
    BY <1>10, <2>3, <2>5
  <2> QED
    BY <1>2, <2>6
<1> QED
  BY <1>11, <1>12, <1>13 DEF slots, onDisk, n, wanted

(* What a search reads of memory that is gone or unwritten does no harm.   *)
Faithful(memory) ==
  /\ memory.strings = "own" /\ memory.strings \in StringSlots
  /\ \A name \in DOMAIN disk : memory.heap[name] = <<>>

(* Then it gets nothing from behind a file.                                *)
LEMMA NothingBehind ==
  ASSUME NEW file, Readable(file), NEW extent \in [start : Nat, end : Int],
         NEW memory, Faithful(memory)
  PROVE  ReadBehind(file, extent, memory) = <<>>
<1> DEFINE unwritten == Table!Unwritten(disk[file.name], extent)
           most == Table!Least(unwritten, 0)
<1>1. memory.heap[file.name] = <<>>
  BY DEF Readable, IsOnDisk, Faithful
<1>2. Len(disk[file.name]) \in Nat
  BY OnDiskFile DEF Readable
<1>3. unwritten \in Int
  BY <1>2 DEF Table!Unwritten, Table!Greatest
<1> HIDE DEF unwritten
<1>4. most \in Int /\ most <= 0
  BY <1>3 DEF Table!Least
<1> HIDE DEF most
<1>5. SubSeq(<<>>, 1, most) = <<>>
  BY <1>4
<1> QED
  BY <1>1, <1>5 DEF ReadBehind, unwritten, most

(* So Collect takes from a file what was not found before.                 *)
LEMMA CollectAnswers ==
  ASSUME NEW file, Readable(file), NEW search \in Ranges, NEW asked, NEW found,
         Table!Within(asked) \subseteq Key, HolesWithin(search, found, asked),
         NEW s \in Seq(Sort!Tuple), Answers(found, s, asked),
         NEW memory, Faithful(memory)
  PROVE  /\ Answers(Collect(asked, search, found, file, memory), s \o FileTuples(file), asked)
         /\ DOMAIN found \subseteq DOMAIN Collect(asked, search, found, file, memory)
<1> DEFINE W == Table!Within(asked)
           slots == SlotsRead(asked, search, found, file)
           new == Collect(asked, search, found, file, memory)
           t == FileTuples(file)
           n == Len(file.keys)
<1>1. /\ slots \in Seq(Slots)
      /\ \A i \in 1..Len(slots) : \E p \in 1..n :
           slots[i] = disk[file.name][p] /\ slots[i].key = file.keys[p]
      /\ \A p \in 1..n : file.keys[p] \in W \ DOMAIN found =>
           \E i \in 1..Len(slots) : slots[i].key = file.keys[p]
  BY WantedAreRead DEF Faithful
<1>2. /\ t \in Seq(Sort!Tuple) /\ KeysIn(t) = {file.keys[p] : p \in 1..n}
      /\ \A p \in 1..n : Leftmost(t, Copy(file.keys[p], disk[file.name][p].slot))
  BY FileNewest
<1>3. new = [k \in DOMAIN found \cup (KeysIn(slots) \cap W) |->
               IF k \in DOMAIN found THEN found[k] ELSE Read2Tuple(FirstWith(slots, k).slot)]
  <2> DEFINE suggest == Table!fastBFIndex(file.keys, search, W \ DOMAIN found)
             extent == Table!Extent(file.keys, suggest, "own")
             read[range \in Ranges] ==
               LET reach == Table!Extent(file.keys, range, memory.strings)
               IN  IF Table!ReadsFile(range)
                   THEN Table!TuplesRead(disk[file.name], reach)
                          \o ReadBehind(file, reach, memory)
                   ELSE <<>>
  <2>1. suggest \in [begin : Int, end : Int]
    <3>1. suggest = TableProofs!fastBFIndex(file.keys, search, W \ DOMAIN found)
      BY SameTable
    <3>2. search \in [begin : Int, end : Int] /\ W \ DOMAIN found \in SUBSET Key
      BY DEF Ranges
    <3> QED
      BY <3>1, <3>2, TableAssumed, TableProofs!SuggestionType
  <2>2. slots = IF Table!ReadsFile(suggest)
                THEN Table!TuplesRead(disk[file.name], extent) ELSE <<>>
    BY DEF SlotsRead
  <2>3. read[suggest] = IF Table!ReadsFile(suggest)
                        THEN Table!TuplesRead(disk[file.name], extent)
                               \o ReadBehind(file, extent, memory)
                        ELSE <<>>
    BY <2>1 DEF Faithful, Ranges
  <2>4. new = [k \in DOMAIN found \cup (KeysIn(read[suggest]) \cap W) |->
                 IF k \in DOMAIN found THEN found[k]
                 ELSE Read2Tuple(FirstWith(read[suggest], k).slot)]
    BY Zenon DEF Collect
  <2> HIDE DEF read, suggest, new, slots
  <2>5. ReadBehind(file, extent, memory) = <<>>
    <3>1. extent = TableProofs!Extent(file.keys, suggest, "own")
      BY SameTable
    <3>2. extent \in [start : Nat, end : Int]
      BY <2>1, <3>1, TableAssumed, TableProofs!ExtentType DEF Readable, Faithful
    <3> QED
      BY <3>2, NothingBehind
  <2> HIDE DEF extent
  <2>6. read[suggest] = slots
    BY <1>1, <2>2, <2>3, <2>5, ConcatEmptySeq
  <2> QED
    BY <2>4, <2>6, Zenon
<1>4. \A k \in DOMAIN found : k \in KeysIn(s) /\ k \in W
  BY DEF Answers
<1> HIDE DEF slots, new, t, n, W
<1>5. DOMAIN slots = 1..Len(slots) /\ Len(slots) \in Nat
  BY <1>1
<1>6. \A k \in KeysIn(slots) : k \in KeysIn(t)
  <2> SUFFICES ASSUME NEW k \in KeysIn(slots) PROVE k \in KeysIn(t)
    OBVIOUS
  <2>1. PICK i \in 1..Len(slots) : k = slots[i].key
    BY <1>5 DEF KeysIn
  <2>2. PICK p \in 1..n : slots[i].key = file.keys[p]
    BY <1>1
  <2> QED
    BY <1>2, <2>1, <2>2
<1>7. \A k \in (KeysIn(t) \cap W) \ DOMAIN found : k \in KeysIn(slots)
  <2> SUFFICES ASSUME NEW k \in (KeysIn(t) \cap W) \ DOMAIN found PROVE k \in KeysIn(slots)
    OBVIOUS
  <2>1. PICK p \in 1..n : k = file.keys[p]
    BY <1>2
  <2>2. PICK i \in 1..Len(slots) : slots[i].key = file.keys[p]
    BY <1>1, <2>1
  <2> QED
    BY <1>5, <2>1, <2>2 DEF KeysIn
<1>8. DOMAIN found \cup (KeysIn(slots) \cap W) = DOMAIN found \cup (KeysIn(t) \cap W)
  BY <1>6, <1>7
<1>9. new = [k \in DOMAIN found \cup (KeysIn(t) \cap W) |-> new[k]]
  BY <1>3, <1>8
<1>10. \A k \in DOMAIN found : new[k] = found[k]
  BY <1>3
<1>11. ASSUME NEW k \in (KeysIn(t) \cap W) \ DOMAIN found
       PROVE  Leftmost(t, [key |-> k, items |-> new[k]])
  <2> DEFINE P == {i \in DOMAIN slots : slots[i].key = k}
  <2>1. P \in SUBSET Nat /\ P # {}
    BY <1>5, <1>7 DEF KeysIn
  <2>2. Min(P) \in P
    BY <2>1, MinOfNats
  <2>3. PICK i \in 1..Len(slots) : FirstWith(slots, k) = slots[i] /\ slots[i].key = k
    BY <1>5, <2>2 DEF FirstWith
  <2>4. PICK p \in 1..n : slots[i] = disk[file.name][p] /\ slots[i].key = file.keys[p]
    BY <1>1
  <2>5. new[k] = Read2Tuple(disk[file.name][p].slot) /\ k = file.keys[p]
    BY <1>3, <1>7, <2>3, <2>4
  <2>6. Leftmost(t, Copy(file.keys[p], disk[file.name][p].slot))
    BY <1>2
  <2> QED
    BY <2>5, <2>6 DEF Copy
<1>12. Answers(new, s \o t, asked)
  BY <1>2, <1>9, <1>10, <1>11, AnswersGrow DEF W
<1>13. DOMAIN found \subseteq DOMAIN new
  BY <1>3
<1> QED
  BY <1>12, <1>13 DEF new, t

-----------------------------------------------------------------------------
(* Run::Scan.                                                              *)

(* found[f] is what was found when the first f files were collected.       *)
Collected(found, asked, state, run, memory) ==
  /\ found[0] = state.found
  /\ \A f \in 1..Len(run) : found[f] = Collect(asked, state.search, found[f - 1], run[f], memory)

(* Run::Scan collects file after file and then shrinks the search range.   *)
LEMMA ScanRunDefined ==
  ASSUME NEW asked, NEW state, NEW run, NEW memory, Len(run) \in Nat
  PROVE  \E found :
           /\ Collected(found, asked, state, run, memory)
           /\ ScanRun(asked, state, run, memory) =
                IF state.finished THEN state
                ELSE LET search == Table!ShrinkSearchRange(asked, DOMAIN found[Len(run)])
                     IN  [found |-> found[Len(run)], search |-> search,
                          finished |-> search.begin > search.end]
<1> DEFINE n == Len(run)
           E(m, g) == IF m = 0 THEN state.found
                      ELSE Collect(asked, state.search, g[m - 1], run[m], memory)
           Is(g, m) == g = [f \in 0..m |-> E(f, g)]
           S == {m \in Nat : \E g : Is(g, m)}
           found[f \in 0..Len(run)] ==
             IF f = 0 THEN state.found
             ELSE Collect(asked, state.search, found[f - 1], run[f], memory)
<1>1. ScanRun(asked, state, run, memory) =
        IF state.finished THEN state
        ELSE LET search == Table!ShrinkSearchRange(asked, DOMAIN found[Len(run)])
             IN  [found |-> found[Len(run)], search |-> search,
                  finished |-> search.begin > search.end]
  BY Zenon DEF ScanRun, Shrunken
<1>2. 0 \in S
  <2> DEFINE g == [f \in 0..0 |-> state.found]
  <2>1. \A f \in 0..0 : f = 0
    OBVIOUS
  <2>2. Is(g, 0)
    BY <2>1
  <2> QED
    BY <2>2
<1>3. ASSUME NEW m \in Nat, m \in S PROVE m + 1 \in S
  <2>1. PICK g : Is(g, m)
    BY <1>3
  <2> DEFINE h == [f \in 0..m + 1 |-> IF f = m + 1 THEN E(m + 1, g) ELSE g[f]]
  <2>2. /\ \A f \in 0..m + 1 : f = m + 1 \/ f \in 0..m
        /\ \A f \in 0..m : f \in 0..m + 1 /\ f # m + 1
        /\ \A f \in 1..m + 1 : f - 1 \in 0..m
        /\ \A f \in 0..m + 1 : f = 0 \/ f \in 1..m + 1
    OBVIOUS
  <2>3. \A f \in 0..m : h[f] = g[f]
    BY <2>2
  <2>4. \A f \in 0..m + 1 : E(f, h) = E(f, g)
    BY <2>2, <2>3
  <2>5. \A f \in 0..m : g[f] = E(f, g)
    BY <2>1, Zenon
  <2> HIDE DEF E
  <2>6. \A f \in 0..m + 1 : h[f] = E(f, h)
    BY <2>2, <2>4, <2>5
  <2>7. Is(h, m + 1)
    BY <2>6, Zenon
  <2> HIDE DEF h, Is
  <2>8. \E u : Is(u, m + 1)
    BY <2>7
  <2> QED
    BY <2>8 DEF S
<1> HIDE DEF S
<1>4. n \in S
  BY <1>2, <1>3, InductionOnNats
<1> HIDE DEF E, found
<1>5. found = [f \in 0..n |-> E(f, found)]
  <2>1. PICK g : g = [f \in 0..n |-> E(f, g)]
    BY <1>4 DEF S
  <2> QED
    BY <2>1, Zenon DEF found, E
<1>6. \A f \in 0..n : found[f] = E(f, found)
  BY <1>5, Zenon
<1>7. 0 \in 0..n /\ \A f \in 1..n : f \in 0..n /\ f # 0
  OBVIOUS
<1>8. Collected(found, asked, state, run, memory)
  BY <1>6, <1>7 DEF Collected, E
<1> QED
  BY <1>1, <1>8

(* A shrunk range has the holes in it, and is empty only if there are none *)
(* (the step past the end of the ints, see Wrap, may make it wider).       *)
LEMMA Shrunk ==
  ASSUME NEW asked \in Ranges, NEW found
  PROVE  LET search == Table!ShrinkSearchRange(asked, DOMAIN found)
         IN  /\ search \in Ranges
             /\ HolesWithin(search, found, asked)
             /\ search.begin > search.end => Table!Within(asked) \subseteq DOMAIN found
<1> DEFINE search == Table!ShrinkSearchRange(asked, DOMAIN found)
           W == Table!Within(asked)
<1>1. asked \in [begin : Int, end : Int]
  BY DEF Ranges
<1>2. search = TableProofs!ShrinkSearchRange(asked, DOMAIN found)
      /\ W = TableProofs!Within(asked)
  BY SameTable
<1> HIDE DEF search, W
<1>3. /\ search \in [begin : Int, end : Int]
      /\ \A k \in W \ DOMAIN found : search.begin <= k /\ k <= search.end
      /\ (W \ DOMAIN found # {}) => search.begin <= search.end
  BY <1>1, <1>2, TableAssumed, TableProofs!ShrunkRange
<1>4. search \in Ranges
  BY <1>3 DEF Ranges
<1>5. search.begin > search.end => W \subseteq DOMAIN found
  BY <1>3
<1> QED
  BY <1>3, <1>4, <1>5 DEF HolesWithin, search, W

(* Nothing is left to take when all that was asked is found.               *)
LEMMA FinishedStays ==
  ASSUME NEW s \in Seq(Sort!Tuple), NEW t \in Seq(Sort!Tuple), NEW asked,
         NEW state, ScanHolds(state, s, asked), state.finished
  PROVE  ScanHolds(state, s \o t, asked)
<1> DEFINE found == state.found
<1>1. /\ Answers(found, s, asked) /\ state.search \in Ranges
      /\ Table!Within(asked) \subseteq DOMAIN found
  BY DEF ScanHolds
<1> HIDE DEF found
<1>2. DOMAIN found \cup (KeysIn(t) \cap Table!Within(asked)) = DOMAIN found
  BY <1>1
<1>3. found = [k \in DOMAIN found |-> found[k]]
  BY <1>1, Zenon DEF Answers
<1> DEFINE new == [k \in DOMAIN found \cup (KeysIn(t) \cap Table!Within(asked)) |-> found[k]]
<1>4. new = found
  BY <1>2, <1>3
<1>5. /\ new = [k \in DOMAIN found \cup (KeysIn(t) \cap Table!Within(asked)) |-> new[k]]
      /\ \A k \in DOMAIN found : new[k] = found[k]
  OBVIOUS
<1> HIDE DEF new
<1>6. Answers(new, s \o t, asked)
  BY <1>1, <1>5, AnswersGrow
<1> QED
  BY <1>1, <1>4, <1>6 DEF ScanHolds, found

(* Sequences of tuples, given by a function of their places.               *)
TupleSeqs(seqs, n) ==
  /\ seqs = [i \in 1..n |-> seqs[i]]
  /\ \A i \in 1..n : seqs[i] \in Seq(Sort!Tuple)

(* What a scan that was through s has been through after the first m.      *)
Through(s, seqs, m) == s \o FlattenSeq([i \in 1..m |-> seqs[i]])

(* It begins with s and goes on with one of them after the other.          *)
LEMMA ThroughNext ==
  ASSUME NEW s \in Seq(Sort!Tuple), NEW n \in Nat, NEW seqs, TupleSeqs(seqs, n)
  PROVE  /\ Through(s, seqs, 0) = s
         /\ \A m \in 0..n - 1 :
              /\ Through(s, seqs, m) \in Seq(Sort!Tuple)
              /\ Through(s, seqs, m + 1) = Through(s, seqs, m) \o seqs[m + 1]
<1>0. Through(s, seqs, 0) = s
  <2>1. FlattenSeq([i \in 1..0 |-> seqs[i]]) = <<>>
    BY FlattenNone
  <2> QED
    BY <2>1, ConcatEmptySeq DEF Through
<1> SUFFICES ASSUME NEW m \in 0..n - 1
             PROVE  /\ Through(s, seqs, m) \in Seq(Sort!Tuple)
                    /\ Through(s, seqs, m + 1) = Through(s, seqs, m) \o seqs[m + 1]
  BY <1>0
<1> DEFINE V == Seq(Sort!Tuple)
           longer == [i \in 1..m + 1 |-> seqs[i]]
           shorter == [i \in 1..m |-> seqs[i]]
<1>1. \A i \in 1..n : seqs[i] \in V
  BY DEF TupleSeqs
<1> HIDE DEF V
<1>2. /\ m \in Nat /\ m + 1 \in 1..n /\ m + 1 \in 1..m + 1
      /\ \A i \in 1..m + 1 : i \in 1..n
      /\ \A i \in 1..m : i \in 1..n /\ i \in 1..m + 1
  OBVIOUS
<1>3. /\ longer = [i \in 1..m + 1 |-> longer[i]] /\ \A i \in 1..m + 1 : longer[i] \in V
      /\ shorter = [i \in 1..m |-> shorter[i]] /\ \A i \in 1..m : shorter[i] \in V
      /\ shorter = [i \in 1..m |-> longer[i]] /\ longer[m + 1] = seqs[m + 1]
  BY <1>1, <1>2
<1> HIDE DEF longer, shorter
<1>4. FlattenSeq(longer) = FlattenSeq(shorter) \o seqs[m + 1]
  <2>1. FlattenSeq(longer) = FlattenSeq([i \in 1..m |-> longer[i]]) \o longer[m + 1]
    BY <1>2, <1>3, FlattenStep DEF V
  <2> QED
    BY <1>3, <2>1
<1>5. FlattenSeq(shorter) \in Seq(Sort!Tuple)
  BY <1>2, <1>3, FlattenedKeys DEF V
<1>6. seqs[m + 1] \in Seq(Sort!Tuple)
  BY <1>1, <1>2 DEF V
<1>7. s \o FlattenSeq(shorter) \in Seq(Sort!Tuple)
  BY <1>5
<1> DEFINE a == FlattenSeq(shorter)
           b == seqs[m + 1]
<1>8. s \o FlattenSeq(longer) = (s \o a) \o b
  <2>1. FlattenSeq(longer) = a \o b /\ a \in Seq(Sort!Tuple) /\ b \in Seq(Sort!Tuple)
    BY <1>4, <1>5, <1>6
  <2> HIDE DEF a, b
  <2>2. (s \o a) \o b = s \o (a \o b)
    BY <2>1, ConcatAssociative
  <2> QED
    BY <2>1, <2>2
<1> QED
  BY <1>7, <1>8, Zenon DEF longer, shorter, Through, a, b

(* After Run::Scan the scan has been through the tuples of the run.        *)
LEMMA ScanRunHolds ==
  ASSUME NEW asked \in Ranges, Table!Within(asked) \subseteq Key,
         NEW run \in RunOfFiles, \A f \in 1..Len(run) : Readable(run[f]),
         NEW s \in Seq(Sort!Tuple), NEW state, ScanHolds(state, s, asked),
         NEW memory, Faithful(memory)
  PROVE  ScanHolds(ScanRun(asked, state, run, memory), s \o RunTuples(run), asked)
<1> DEFINE n == Len(run)
           files == [f \in DOMAIN run |-> FileTuples(run[f])]
           upTo(m) == Through(s, files, m)
<1>1. n \in Nat /\ DOMAIN run = 1..n
  BY DEF RunOfFiles
<1>2. \A f \in 1..n : files[f] = FileTuples(run[f]) /\ files[f] \in Seq(Sort!Tuple)
  BY <1>1, FileNewest
<1>3. files = [f \in 1..n |-> files[f]]
  BY <1>1
<1>4. upTo(n) = s \o RunTuples(run)
  BY <1>3 DEF RunTuples, Through
<1>5. RunTuples(run) \in Seq(Sort!Tuple)
  BY RunReads DEF Readable
<1>6. TupleSeqs(files, n)
  BY <1>2, <1>3, Zenon DEF TupleSeqs
<1>7. CASE state.finished
  <2>1. ScanRun(asked, state, run, memory) = state
    BY <1>7, Zenon DEF ScanRun, Shrunken
  <2> QED
    BY <1>5, <1>7, <2>1, FinishedStays
<1>8. CASE ~state.finished
  <2> HIDE DEF files
  <2>1. PICK found :
          /\ Collected(found, asked, state, run, memory)
          /\ ScanRun(asked, state, run, memory) =
               IF state.finished THEN state
               ELSE LET search == Table!ShrinkSearchRange(asked, DOMAIN found[Len(run)])
                    IN  [found |-> found[Len(run)], search |-> search,
                         finished |-> search.begin > search.end]
    BY <1>1, ScanRunDefined
  <2> HIDE DEF n, upTo
  <2>2. /\ Answers(state.found, s, asked) /\ state.search \in Ranges
        /\ HolesWithin(state.search, state.found, asked)
    BY <1>8 DEF ScanHolds
  <2> DEFINE P(m) == /\ Answers(found[m], upTo(m), asked)
                     /\ DOMAIN state.found \subseteq DOMAIN found[m]
             S == {m \in Nat : m <= n => P(m)}
  <2>3. 0 \in S
    <3>1. found[0] = state.found
      BY <2>1 DEF Collected
    <3>2. upTo(0) = s
      BY <1>1, <1>6, ThroughNext DEF upTo
    <3> QED
      BY <2>2, <3>1, <3>2
  <2>4. ASSUME NEW m \in Nat, m \in S PROVE m + 1 \in S
    <3> SUFFICES ASSUME m + 1 <= n PROVE P(m + 1)
      OBVIOUS
    <3>1. m \in 0..n - 1 /\ m + 1 \in 1..n /\ (m + 1) - 1 = m
      BY <1>1
    <3>2. Answers(found[m], upTo(m), asked) /\ DOMAIN state.found \subseteq DOMAIN found[m]
      BY <1>1, <2>4
    <3>3. HolesWithin(state.search, found[m], asked)
      BY <2>2, <3>2 DEF HolesWithin
    <3>4. found[m + 1] = Collect(asked, state.search, found[m], run[m + 1], memory)
      BY <2>1, <3>1 DEF Collected, n
    <3>5. /\ upTo(m) \in Seq(Sort!Tuple)
          /\ upTo(m + 1) = upTo(m) \o FileTuples(run[m + 1])
      <4>1. /\ Through(s, files, m) \in Seq(Sort!Tuple)
            /\ Through(s, files, m + 1) = Through(s, files, m) \o files[m + 1]
        BY <1>1, <1>6, <3>1, ThroughNext
      <4>2. files[m + 1] = FileTuples(run[m + 1])
        BY <1>2, <3>1
      <4> QED
        BY <4>1, <4>2 DEF upTo
    <3>6. Readable(run[m + 1])
      BY <3>1 DEF n
    <3> HIDE DEF S
    <3>7. /\ Answers(found[m + 1], upTo(m + 1), asked)
          /\ DOMAIN found[m] \subseteq DOMAIN found[m + 1]
      BY <2>2, <3>2, <3>3, <3>4, <3>5, <3>6, CollectAnswers
    <3> QED
      BY <3>2, <3>7
  <2>5. n \in S
    <3> HIDE DEF S
    <3> QED
      BY <1>1, <2>3, <2>4, InductionOnNats
  <2>6. Answers(found[n], upTo(n), asked)
    BY <1>1, <2>5
  <2> HIDE DEF S, P
  <2> DEFINE search == Table!ShrinkSearchRange(asked, DOMAIN found[n])
  <2>7. /\ search \in Ranges
        /\ HolesWithin(search, found[n], asked)
        /\ search.begin > search.end => Table!Within(asked) \subseteq DOMAIN found[n]
    BY Shrunk
  <2>8. ScanRun(asked, state, run, memory) =
          [found |-> found[n], search |-> search, finished |-> search.begin > search.end]
    BY <1>8, <2>1 DEF n
  <2> DEFINE after == ScanRun(asked, state, run, memory)
  <2> HIDE DEF search
  <2>9. /\ after.found = found[n] /\ after.search = search
        /\ after.finished = (search.begin > search.end)
    BY <2>8
  <2> HIDE DEF after
  <2>10. ScanHolds(after, upTo(n), asked)
    <3>1. after.finished => Table!Within(asked) \subseteq DOMAIN found[n]
      BY <2>7, <2>9
    <3> QED
      BY <2>6, <2>7, <2>9, <3>1, Zenon DEF ScanHolds
  <2> QED
    BY <1>4, <2>10 DEF after
<1> QED
  BY <1>7, <1>8

-----------------------------------------------------------------------------
(* Level::Scan.                                                            *)

(* after[r] is the state when the last r runs of the level were scanned.   *)
ScannedRuns(after, asked, state, level, memory) ==
  /\ after[0] = state
  /\ \A r \in 1..Len(level) : after[r] = ScanRun(asked, after[r - 1], Reverse(level)[r], memory)

(* Level::Scan scans run after run.                                        *)
LEMMA ScanLevelDefined ==
  ASSUME NEW asked, NEW state, NEW level, NEW memory, Len(level) \in Nat
  PROVE  \E after : /\ ScannedRuns(after, asked, state, level, memory)
                    /\ ScanLevel(asked, state, level, memory) = after[Len(level)]
<1> DEFINE n == Len(level)
           E(m, g) == IF m = 0 THEN state ELSE ScanRun(asked, g[m - 1], Reverse(level)[m], memory)
           Is(g, m) == g = [f \in 0..m |-> E(f, g)]
           S == {m \in Nat : \E g : Is(g, m)}
           after[r \in 0..Len(level)] ==
             IF r = 0 THEN state ELSE ScanRun(asked, after[r - 1], Reverse(level)[r], memory)
<1>1. ScanLevel(asked, state, level, memory) = after[Len(level)]
  BY Zenon DEF ScanLevel
<1>2. 0 \in S
  <2> DEFINE g == [f \in 0..0 |-> state]
  <2>1. \A f \in 0..0 : f = 0
    OBVIOUS
  <2>2. Is(g, 0)
    BY <2>1
  <2> QED
    BY <2>2
<1>3. ASSUME NEW m \in Nat, m \in S PROVE m + 1 \in S
  <2>1. PICK g : Is(g, m)
    BY <1>3
  <2> DEFINE h == [f \in 0..m + 1 |-> IF f = m + 1 THEN E(m + 1, g) ELSE g[f]]
  <2>2. /\ \A f \in 0..m + 1 : f = m + 1 \/ f \in 0..m
        /\ \A f \in 0..m : f \in 0..m + 1 /\ f # m + 1
        /\ \A f \in 1..m + 1 : f - 1 \in 0..m
        /\ \A f \in 0..m + 1 : f = 0 \/ f \in 1..m + 1
    OBVIOUS
  <2>3. \A f \in 0..m : h[f] = g[f]
    BY <2>2
  <2>4. \A f \in 0..m + 1 : E(f, h) = E(f, g)
    BY <2>2, <2>3
  <2>5. \A f \in 0..m : g[f] = E(f, g)
    BY <2>1, Zenon
  <2> HIDE DEF E
  <2>6. \A f \in 0..m + 1 : h[f] = E(f, h)
    BY <2>2, <2>4, <2>5
  <2>7. Is(h, m + 1)
    BY <2>6, Zenon
  <2> HIDE DEF h, Is
  <2>8. \E u : Is(u, m + 1)
    BY <2>7
  <2> QED
    BY <2>8 DEF S
<1> HIDE DEF S
<1>4. n \in S
  BY <1>2, <1>3, InductionOnNats
<1> HIDE DEF E, after
<1>5. after = [f \in 0..n |-> E(f, after)]
  <2>1. PICK g : g = [f \in 0..n |-> E(f, g)]
    BY <1>4 DEF S
  <2> QED
    BY <2>1, Zenon DEF after, E
<1>6. \A f \in 0..n : after[f] = E(f, after)
  BY <1>5, Zenon
<1>7. 0 \in 0..n /\ \A f \in 1..n : f \in 0..n /\ f # 0
  OBVIOUS
<1>8. ScannedRuns(after, asked, state, level, memory)
  BY <1>6, <1>7 DEF ScannedRuns, E
<1> QED
  BY <1>1, <1>8

(* After Level::Scan the scan has been through the tuples of the level, in *)
(* the order in which a merge would gather them.                           *)
LEMMA ScanLevelHolds ==
  ASSUME NEW asked \in Ranges, Table!Within(asked) \subseteq Key,
         NEW level \in LevelOfRuns,
         \A r \in 1..Len(level) : \A f \in 1..Len(level[r]) : Readable(level[r][f]),
         NEW s \in Seq(Sort!Tuple), NEW state, ScanHolds(state, s, asked),
         NEW memory, Faithful(memory)
  PROVE  ScanHolds(ScanLevel(asked, state, level, memory), s \o LevelTuples(level), asked)
<1> DEFINE n == Len(level)
           runs == [r \in DOMAIN level |-> RunTuples(Reverse(level)[r])]
           upTo(m) == Through(s, runs, m)
<1>1. n \in Nat /\ DOMAIN level = 1..n /\ \A r \in 1..n : level[r] \in RunOfFiles
  BY DEF LevelOfRuns
<1>2. \A r \in 1..n : n - r + 1 \in 1..n /\ Reverse(level)[r] = level[n - r + 1]
  BY <1>1 DEF Reverse
<1>3. \A r \in 1..n : Reverse(level)[r] \in RunOfFiles
                      /\ \A f \in 1..Len(Reverse(level)[r]) : Readable(Reverse(level)[r][f])
  BY <1>1, <1>2
<1>4. runs = [r \in 1..n |-> runs[r]] /\ \A r \in 1..n : runs[r] = RunTuples(Reverse(level)[r])
  BY <1>1
<1>5. upTo(n) = s \o LevelTuples(level)
  BY <1>4 DEF LevelTuples, Through
<1> HIDE DEF runs
<1>6. \A r \in 1..n : runs[r] \in Seq(Sort!Tuple)
  <2> SUFFICES ASSUME NEW r \in 1..n PROVE runs[r] \in Seq(Sort!Tuple)
    OBVIOUS
  <2> DEFINE run == Reverse(level)[r]
  <2>1. run \in RunOfFiles /\ \A f \in 1..Len(run) : IsOnDisk(disk, run[f])
    BY <1>3 DEF Readable
  <2>2. runs[r] = RunTuples(run)
    BY <1>4
  <2> HIDE DEF run
  <2> QED
    BY <2>1, <2>2, RunReads
<1>7. /\ Through(s, runs, 0) = s
      /\ \A m \in 0..n - 1 :
           /\ Through(s, runs, m) \in Seq(Sort!Tuple)
           /\ Through(s, runs, m + 1) = Through(s, runs, m) \o runs[m + 1]
  <2>1. n \in Nat
    BY <1>1
  <2>2. TupleSeqs(runs, n)
    BY <1>4, <1>6, Zenon DEF TupleSeqs
  <2> HIDE DEF n
  <2> QED
    BY <2>1, <2>2, ThroughNext
<1>8. PICK after : /\ ScannedRuns(after, asked, state, level, memory)
                   /\ ScanLevel(asked, state, level, memory) = after[Len(level)]
  BY <1>1, ScanLevelDefined
<1> HIDE DEF n, upTo
<1> DEFINE S == {m \in Nat : m <= n => ScanHolds(after[m], upTo(m), asked)}
<1>9. 0 \in S
  <2>1. after[0] = state
    BY <1>8 DEF ScannedRuns
  <2>2. upTo(0) = s
    BY <1>7 DEF upTo
  <2> QED
    BY <2>1, <2>2
<1>10. ASSUME NEW m \in Nat, m \in S PROVE m + 1 \in S
  <2> SUFFICES ASSUME m + 1 <= n PROVE ScanHolds(after[m + 1], upTo(m + 1), asked)
    OBVIOUS
  <2>1. m \in 0..n - 1 /\ m + 1 \in 1..n /\ (m + 1) - 1 = m
    BY <1>1
  <2>2. ScanHolds(after[m], upTo(m), asked)
    BY <1>1, <1>10
  <2> HIDE DEF S
  <2> DEFINE run == Reverse(level)[m + 1]
  <2>3. after[m + 1] = ScanRun(asked, after[m], run, memory)
    BY <1>8, <2>1 DEF ScannedRuns, n
  <2>4. /\ upTo(m) \in Seq(Sort!Tuple)
        /\ upTo(m + 1) = upTo(m) \o RunTuples(run)
    <3>1. /\ Through(s, runs, m) \in Seq(Sort!Tuple)
          /\ Through(s, runs, m + 1) = Through(s, runs, m) \o runs[m + 1]
      BY <1>7, <2>1, Zenon
    <3>2. runs[m + 1] = RunTuples(run)
      BY <1>4, <2>1
    <3> QED
      BY <3>1, <3>2 DEF upTo
  <2>5. run \in RunOfFiles /\ \A f \in 1..Len(run) : Readable(run[f])
    BY <1>3, <2>1
  <2> HIDE DEF run
  <2>6. ScanHolds(ScanRun(asked, after[m], run, memory), upTo(m) \o RunTuples(run), asked)
    BY <2>2, <2>4, <2>5, ScanRunHolds
  <2> QED
    BY <2>3, <2>4, <2>6
<1>11. n \in S
  <2> HIDE DEF S
  <2> QED
    BY <1>1, <1>9, <1>10, InductionOnNats
<1>12. ScanHolds(after[n], upTo(n), asked)
  BY <1>1, <1>11
<1> QED
  BY <1>5, <1>8, <1>12 DEF n

-----------------------------------------------------------------------------
(* LSM_T::Search.                                                          *)

(* after[l] is the state when the first l levels were scanned.             *)
ScannedLevels(after, asked, memory) ==
  /\ after[0] = ScanBuffer(asked)
  /\ \A l \in 1..Len(levels) : after[l] = ScanLevel(asked, after[l - 1], levels[l], memory)

(* LSM_T::Search scans the buffer and level after level.                   *)
LEMMA FoundDefined ==
  ASSUME NEW asked, NEW memory, Len(levels) \in Nat
  PROVE  \E after :
           /\ ScannedLevels(after, asked, memory)
           /\ Found(asked, memory) = re_order(after[Len(levels)].found)
<1> DEFINE n == Len(levels)
           E(m, g) == IF m = 0 THEN ScanBuffer(asked)
                      ELSE ScanLevel(asked, g[m - 1], levels[m], memory)
           Is(g, m) == g = [f \in 0..m |-> E(f, g)]
           S == {m \in Nat : \E g : Is(g, m)}
           after[l \in 0..Len(levels)] ==
             IF l = 0 THEN ScanBuffer(asked)
             ELSE ScanLevel(asked, after[l - 1], levels[l], memory)
<1>1. Found(asked, memory) = re_order(after[Len(levels)].found)
  BY Zenon DEF Found
<1>2. 0 \in S
  <2> DEFINE g == [f \in 0..0 |-> ScanBuffer(asked)]
  <2>1. \A f \in 0..0 : f = 0
    OBVIOUS
  <2>2. Is(g, 0)
    BY <2>1
  <2> QED
    BY <2>2
<1>3. ASSUME NEW m \in Nat, m \in S PROVE m + 1 \in S
  <2>1. PICK g : Is(g, m)
    BY <1>3
  <2> DEFINE h == [f \in 0..m + 1 |-> IF f = m + 1 THEN E(m + 1, g) ELSE g[f]]
  <2>2. /\ \A f \in 0..m + 1 : f = m + 1 \/ f \in 0..m
        /\ \A f \in 0..m : f \in 0..m + 1 /\ f # m + 1
        /\ \A f \in 1..m + 1 : f - 1 \in 0..m
        /\ \A f \in 0..m + 1 : f = 0 \/ f \in 1..m + 1
    OBVIOUS
  <2>3. \A f \in 0..m : h[f] = g[f]
    BY <2>2
  <2>4. \A f \in 0..m + 1 : E(f, h) = E(f, g)
    BY <2>2, <2>3
  <2>5. \A f \in 0..m : g[f] = E(f, g)
    BY <2>1, Zenon
  <2> HIDE DEF E
  <2>6. \A f \in 0..m + 1 : h[f] = E(f, h)
    BY <2>2, <2>4, <2>5
  <2>7. Is(h, m + 1)
    BY <2>6, Zenon
  <2> HIDE DEF h, Is
  <2>8. \E u : Is(u, m + 1)
    BY <2>7
  <2> QED
    BY <2>8 DEF S
<1> HIDE DEF S
<1>4. n \in S
  BY <1>2, <1>3, InductionOnNats
<1> HIDE DEF E, after
<1>5. after = [f \in 0..n |-> E(f, after)]
  <2>1. PICK g : g = [f \in 0..n |-> E(f, g)]
    BY <1>4 DEF S
  <2> QED
    BY <2>1, Zenon DEF after, E
<1>6. \A f \in 0..n : after[f] = E(f, after)
  BY <1>5, Zenon
<1>7. 0 \in 0..n /\ \A f \in 1..n : f \in 0..n /\ f # 0
  OBVIOUS
<1>8. ScannedLevels(after, asked, memory)
  BY <1>6, <1>7 DEF ScannedLevels, E
<1> QED
  BY <1>1, <1>8

(* The first tuple with a key is its leftmost copy.                        *)
LEMMA FirstIsLeftmost ==
  ASSUME NEW s \in Seq(Sort!Tuple), NEW k \in KeysIn(s)
  PROVE  Leftmost(s, [key |-> k, items |-> FirstWith(s, k).items])
<1> DEFINE I == {i \in DOMAIN s : s[i].key = k}
           p == Min(I)
<1>1. DOMAIN s = 1..Len(s) /\ Len(s) \in Nat /\ \A i \in 1..Len(s) : s[i] \in Sort!Tuple
  OBVIOUS
<1>2. I \in SUBSET Nat /\ I # {}
  BY <1>1 DEF KeysIn
<1>3. p \in I /\ \A i \in I : p <= i
  BY <1>2, MinOfNats
<1>4. FirstWith(s, k) = s[p]
  BY DEF FirstWith
<1> HIDE DEF p
<1>5. p \in 1..Len(s) /\ s[p].key = k /\ s[p] \in Sort!Tuple
  BY <1>1, <1>3
<1>6. s[p] = [key |-> k, items |-> FirstWith(s, k).items]
  BY <1>4, <1>5 DEF Sort!Tuple
<1>7. \A q \in 1..p - 1 : s[q].key # k
  <2> SUFFICES ASSUME NEW q \in 1..p - 1 PROVE s[q].key # k
    OBVIOUS
  <2>1. q \in 1..Len(s) /\ ~(p <= q)
    BY <1>1, <1>5
  <2> QED
    BY <1>1, <1>3, <2>1
<1> QED
  BY <1>5, <1>6, <1>7 DEF Leftmost

(* Buffer::Scan has been through the buffer from its back, and is finished *)
(* only when it has as many keys as were asked for.                        *)
LEMMA ScanBufferHolds ==
  ASSUME buf \in Seq(Sort!Tuple), NEW asked \in Ranges
  PROVE  ScanHolds(ScanBuffer(asked), Reverse(buf), asked)
<1> DEFINE W == Table!Within(asked)
           s == Reverse(buf)
           found == [k \in KeysIn(buf) \cap W |-> FirstWith(s, k).items]
           search == Table!ShrinkSearchRange(asked, DOMAIN found)
           state == ScanBuffer(asked)
<1>1. s \in Seq(Sort!Tuple) /\ KeysIn(s) = KeysIn(buf)
  BY BufferReads
<1>2. /\ state.found = found /\ state.search = search
      /\ state.finished = (Cardinality(DOMAIN found) = Cardinality(W))
  BY DEF ScanBuffer
<1> HIDE DEF state, s
<1>3. Answers(found, s, asked)
  <2>1. found = [k \in KeysIn(s) \cap W |-> found[k]]
    BY <1>1
  <2>2. \A k \in KeysIn(s) \cap W : Leftmost(s, [key |-> k, items |-> found[k]])
    BY <1>1, FirstIsLeftmost
  <2> QED
    BY <2>1, <2>2, Zenon DEF Answers
<1>4. DOMAIN found \in SUBSET W
  OBVIOUS
<1> HIDE DEF found
<1>5. search \in Ranges /\ HolesWithin(search, found, asked)
  BY Shrunk
<1>6. Cardinality(DOMAIN found) = Cardinality(W) => W \subseteq DOMAIN found
  <2>1. IsFiniteSet(W)
    <3>1. asked.begin \in Int /\ asked.end \in Int
      BY DEF Ranges
    <3> QED
      BY <3>1, FS_Interval DEF Table!Within
  <2> HIDE DEF W
  <2> QED
    BY <1>4, <2>1, FS_Subset
<1>7. state.finished => W \subseteq DOMAIN found
  BY <1>2, <1>6
<1> HIDE DEF search
<1> QED
  BY <1>2, <1>3, <1>5, <1>7 DEF ScanHolds, state, s, search

(* Every file of the tree is readable.                                     *)
LEMMA FilesReadable ==
  ASSUME DiskInv, TableProofs!OneFilterPerFile
  PROVE  \A l \in 1..Len(levels) : \A r \in 1..Len(levels[l]) :
           \A f \in 1..Len(levels[l][r]) : Readable(levels[l][r][f])
<1> SUFFICES ASSUME NEW l \in 1..Len(levels), NEW r \in 1..Len(levels[l]),
                    NEW f \in 1..Len(levels[l][r])
             PROVE  Readable(levels[l][r][f])
  OBVIOUS
<1> DEFINE run == levels[l][r]
           file == run[f]
           keys == file.keys
<1>1. file \in File /\ keys \in Seq(Key)
  BY LevelFacts DEF DiskInv
<1>2. IsOnDisk(disk, file) /\ KeysAscend(run)
  BY DEF DiskInv, AllOnDisk, AllAscend
<1>3. Len(keys) \in 1..Table!max_tuples_per_file
  BY <1>2 DEF IsOnDisk
<1>4. \A i, j \in 1..Len(keys) : i < j => keys[i] < keys[j]
  BY <1>2 DEF KeysAscend, Before
<1> HIDE DEF keys
<1>5. keys \in TableProofs!SSTFile
  <2>1. keys # <<>> /\ \A i, j \in DOMAIN keys : i < j => keys[i] < keys[j]
    BY <1>1, <1>3, <1>4
  <2> QED
    BY <1>1, <2>1 DEF TableProofs!SSTFile
<1>6. Len(keys) <= BFNumTuples
  <2> DEFINE m == Table!max_tuples_per_file
  <2>1. m \in Int /\ BFNumTuples \in Int /\ m <= BFNumTuples
    BY TableAssumed DEF TableProofs!SSTableAssumption, TableProofs!OneFilterPerFile,
                        TableProofs!max_tuples_per_file, Table!max_tuples_per_file
  <2>2. Len(keys) \in 1..m
    BY <1>3
  <2> HIDE DEF m
  <2> QED
    BY <2>1, <2>2
<1> QED
  BY <1>1, <1>2, <1>5, <1>6 DEF Readable, keys

(* At the end the scan has been through all that a merge of the whole tree *)
(* would gather.                                                           *)
LEMMA SearchHolds ==
  ASSUME DiskInv, TableProofs!OneFilterPerFile, NEW asked \in Ranges,
         Table!Within(asked) \subseteq Key, NEW memory, Faithful(memory)
  PROVE  \E found :
           /\ Answers(found, Gathered(Len(levels) + 1), asked)
           /\ Found(asked, memory) = re_order(found)
<1> DEFINE n == Len(levels)
           s == Reverse(buf)
           tuples == [l \in 1..n |-> LevelTuples(levels[l])]
           upTo(m) == Through(s, tuples, m)
<1>1. /\ n \in Nat /\ buf \in Seq(Sort!Tuple)
      /\ \A l \in 1..n : levels[l] \in LevelOfRuns
  BY InvOnDisk DEF DiskInv
<1>2. \A l \in 1..n : \A r \in 1..Len(levels[l]) : \A f \in 1..Len(levels[l][r]) :
        Readable(levels[l][r][f])
  BY FilesReadable
<1>3. s \in Seq(Sort!Tuple)
  BY <1>1, BufferReads
<1>4. tuples = [l \in 1..n |-> tuples[l]] /\ \A l \in 1..n : tuples[l] = LevelTuples(levels[l])
  OBVIOUS
<1>5. upTo(n) = Gathered(n + 1)
  <2>1. (n + 1) - 1 = n
    BY <1>1
  <2> QED
    BY <1>4, <2>1 DEF Gathered, Through
<1> HIDE DEF tuples
<1>6. \A l \in 1..n : tuples[l] \in Seq(Sort!Tuple)
  <2> SUFFICES ASSUME NEW l \in 1..n PROVE tuples[l] \in Seq(Sort!Tuple)
    OBVIOUS
  <2>1. \A r \in 1..Len(levels[l]) : \A f \in 1..Len(levels[l][r]) : IsOnDisk(disk, levels[l][r][f])
    BY <1>2 DEF Readable
  <2> QED
    BY <1>1, <1>4, <2>1, LevelReads
<1>7. TupleSeqs(tuples, n)
  BY <1>4, <1>6, Zenon DEF TupleSeqs
<1>8. PICK after :
        /\ ScannedLevels(after, asked, memory)
        /\ Found(asked, memory) = re_order(after[Len(levels)].found)
  <2>1. Len(levels) \in Nat
    BY <1>1
  <2> QED
    BY <2>1, FoundDefined, Zenon
<1> HIDE DEF n, upTo
<1> DEFINE S == {m \in Nat : m <= n => ScanHolds(after[m], upTo(m), asked)}
<1>9. 0 \in S
  <2>1. after[0] = ScanBuffer(asked)
    BY <1>8 DEF ScannedLevels
  <2>2. upTo(0) = s
    BY <1>1, <1>3, <1>7, ThroughNext DEF upTo
  <2>3. ScanHolds(ScanBuffer(asked), s, asked)
    BY <1>1, ScanBufferHolds
  <2> QED
    BY <2>1, <2>2, <2>3
<1>10. ASSUME NEW m \in Nat, m \in S PROVE m + 1 \in S
  <2> SUFFICES ASSUME m + 1 <= n PROVE ScanHolds(after[m + 1], upTo(m + 1), asked)
    OBVIOUS
  <2>1. m \in 0..n - 1 /\ m + 1 \in 1..n /\ (m + 1) - 1 = m
    BY <1>1
  <2>2. ScanHolds(after[m], upTo(m), asked)
    BY <1>1, <1>10
  <2> HIDE DEF S
  <2> DEFINE level == levels[m + 1]
  <2>3. after[m + 1] = ScanLevel(asked, after[m], level, memory)
    BY <1>8, <2>1 DEF ScannedLevels, n
  <2>4. /\ upTo(m) \in Seq(Sort!Tuple)
        /\ upTo(m + 1) = upTo(m) \o LevelTuples(level)
    <3>1. /\ Through(s, tuples, m) \in Seq(Sort!Tuple)
          /\ Through(s, tuples, m + 1) = Through(s, tuples, m) \o tuples[m + 1]
      BY <1>1, <1>3, <1>7, <2>1, ThroughNext
    <3>2. tuples[m + 1] = LevelTuples(level)
      BY <1>4, <2>1
    <3> QED
      BY <3>1, <3>2 DEF upTo
  <2>5. /\ level \in LevelOfRuns
        /\ \A r \in 1..Len(level) : \A f \in 1..Len(level[r]) : Readable(level[r][f])
    BY <1>1, <1>2, <2>1
  <2> HIDE DEF level
  <2>6. ScanHolds(ScanLevel(asked, after[m], level, memory), upTo(m) \o LevelTuples(level), asked)
    BY <2>2, <2>4, <2>5, ScanLevelHolds
  <2> QED
    BY <2>3, <2>4, <2>6
<1>11. n \in S
  <2> HIDE DEF S
  <2> QED
    BY <1>1, <1>9, <1>10, InductionOnNats
<1>12. Answers(after[n].found, Gathered(n + 1), asked)
  BY <1>1, <1>5, <1>11 DEF ScanHolds
<1> QED
  BY <1>8, <1>12 DEF n

(* A scan, through fences and filters and however early it stops, answers  *)
(* what LSMTree does.                                                      *)
LEMMA FoundRefines ==
  ASSUME DiskInv, TableProofs!OneFilterPerFile, NEW lo \in Key, NEW hi \in Key,
         NEW memory, Faithful(memory)
  PROVE  Found([begin |-> lo, end |-> hi], memory) = Tree!Found(lo, hi)
<1> DEFINE asked == [begin |-> lo, end |-> hi]
           n == Len(levels)
           s == Gathered(n + 1)
           Newest(k) == Tree!FirstCopy(LevelsView, k)
           D == {x \in Tree!Live : lo <= x /\ x <= hi}
<1>1. asked \in Ranges /\ Key \subseteq Int
  BY KeysAreInts DEF Ranges
<1>2. Table!Within(asked) = lo..hi
  BY DEF Table!Within
<1>3. Table!Within(asked) \subseteq Key
  BY <1>2, TableAssumed DEF TableProofs!SSTableAssumption
<1>4. /\ n \in Nat /\ n + 1 \in Nat \ {0} /\ (n + 1) - 1 = n /\ levels \in Seq(LevelOfRuns)
      /\ Len(LevelsView) = n /\ \A l \in 1..n : LevelsView[l] = LevelView(levels[l])
  BY ViewShape DEF DiskInv
<1> HIDE DEF asked, n
<1>5. PICK found :
        /\ Answers(found, Gathered(Len(levels) + 1), asked)
        /\ Found(asked, memory) = re_order(found)
  BY <1>1, <1>3, SearchHolds
<1>6. s \in Seq(Sort!Tuple)
  BY <1>4, GatheredReads DEF n
<1>7. ASSUME NEW k
      PROVE  /\ k \in KeysIn(s) <=> Tree!Holds(LevelsView, k)
             /\ k \in KeysIn(s) => Leftmost(s, [key |-> k, items |-> Newest(k)])
  BY <1>4, GatheredNewest DEF n
<1>8. /\ found = [k \in KeysIn(s) \cap (lo..hi) |-> found[k]]
      /\ \A k \in KeysIn(s) \cap (lo..hi) : Leftmost(s, [key |-> k, items |-> found[k]])
  BY <1>2, <1>5 DEF Answers, n
<1> HIDE DEF s, Newest
<1>9. \A k \in KeysIn(s) \cap (lo..hi) : found[k] = Newest(k)
  <2> SUFFICES ASSUME NEW k \in KeysIn(s) \cap (lo..hi) PROVE found[k] = Newest(k)
    OBVIOUS
  <2> DEFINE t == [key |-> k, items |-> found[k]]
             u == [key |-> k, items |-> Newest(k)]
  <2>1. Leftmost(s, t) /\ Leftmost(s, u) /\ t.key = u.key
    BY <1>7, <1>8
  <2>2. t = u
    <3> HIDE DEF t, u
    <3> QED
      BY <1>6, <2>1, LeftmostIsOne
  <2> QED
    BY <2>2
<1>10. DOMAIN found = KeysIn(s) \cap (lo..hi)
  BY <1>8
<1>11. Tree!Live = {k \in Key : Tree!Holds(LevelsView, k) /\ ~IsDelMarker(Newest(k))}
  BY SameOperators DEF Tree!Live, Newest
<1>12. {x \in DOMAIN found : ~IsDelMarker(found[x])} = D
  <2>1. lo..hi \subseteq Key
    BY <1>2, <1>3
  <2>2. lo \in Int /\ hi \in Int /\ \A x \in Key : x \in Int
    BY <1>1
  <2>3. \A x \in Key : x \in lo..hi <=> lo <= x /\ x <= hi
    BY <2>2
  <2>4. D = {x \in lo..hi : Tree!Holds(LevelsView, x) /\ ~IsDelMarker(Newest(x))}
    BY <1>11, <2>1, <2>3 DEF D
  <2>5. {x \in DOMAIN found : ~IsDelMarker(found[x])}
          = {x \in lo..hi : Tree!Holds(LevelsView, x) /\ ~IsDelMarker(Newest(x))}
    <3> DEFINE R == lo..hi
               H(x) == Tree!Holds(LevelsView, x)
    <3>1. \A x : x \in KeysIn(s) <=> H(x)
      BY <1>7
    <3>2. DOMAIN found = KeysIn(s) \cap R /\ \A k \in DOMAIN found : found[k] = Newest(k)
      BY <1>9, <1>10
    <3> HIDE DEF R, H
    <3>3. {x \in DOMAIN found : ~IsDelMarker(found[x])}
            = {x \in R : H(x) /\ ~IsDelMarker(Newest(x))}
      BY <3>1, <3>2, Zenon
    <3> QED
      BY <3>3 DEF R, H
  <2> QED
    BY <2>4, <2>5
<1>13. \A k \in D : found[k] = Newest(k)
  BY <1>9, <1>10, <1>12
<1> HIDE DEF D
<1>14. Found(asked, memory) = [k \in D |-> Newest(k)]
  <2>1. Found(asked, memory) = [k \in {x \in DOMAIN found : ~IsDelMarker(found[x])} |-> found[k]]
    BY <1>5, Zenon DEF re_order
  <2> QED
    BY <1>12, <1>13, <2>1
<1> QED
  BY <1>14 DEF asked, D, Newest, Tree!Found

(* So a search is one of LSMTree.                                          *)
LEMMA SearchRefines ==
  ASSUME DiskInv, TableProofs!OneFilterPerFile, DependableReads,
         NEW lo \in Key, NEW hi \in Key, Search(lo, hi)
  PROVE  Tree!Search(lo, hi)
<1>1. PICK memory \in Memory :
        call' = [op |-> "scan", lo |-> lo, hi |-> hi,
                 found |-> Found([begin |-> lo, end |-> hi], memory)]
  BY DEF Search
<1>2. Faithful(memory)
  <2>1. /\ memory.strings = "own" /\ memory.strings \in StringSlots
        /\ memory.heap \in [DOMAIN disk -> SeqOf({}, FPInterval)]
    BY <1>1 DEF DependableReads, Memory
  <2>2. \A s \in SeqOf({}, FPInterval) : s = <<>>
    <3>1. SeqOf({}, FPInterval) = UNION {[1..m -> {}] : m \in 0..FPInterval}
      BY DEF SeqOf
    <3> SUFFICES ASSUME NEW m \in 0..FPInterval, NEW s \in [1..m -> {}] PROVE s = <<>>
      BY <3>1
    <3>2. ~(1 \in 1..m)
      OBVIOUS
    <3>3. m = 0
      BY <3>2
    <3> QED
      BY <3>3
  <2> QED
    BY <2>1, <2>2 DEF Faithful
<1>3. Found([begin |-> lo, end |-> hi], memory) = Tree!Found(lo, hi)
  BY <1>2, FoundRefines
<1>4. LevelsView' = LevelsView /\ UNCHANGED buf
  BY ViewsAre DEF Search, ViewIn, RunViewIn, SlotsIn
<1> QED
  BY <1>1, <1>3, <1>4 DEF Tree!Search

-----------------------------------------------------------------------------
(* The refinement.                                                         *)

(* An empty tree is one to LSMTree too.                                    *)
LEMMA EmptyView ==
  /\ levels = <<>> => LevelsView = <<>>
  /\ levels' = <<>> => LevelsView' = <<>>
BY DEF LevelsView

(* A step is one of LSMTree, or it is a search, which changes nothing.  A  *)
(* flush is one of LSMTree if a file holds a whole number of tuples:       *)
(* without that it drops its last tuples (Run.cpp:319).                    *)
LEMMA StepRefines ==
  ASSUME SSTSize = Table!max_tuples_per_file * TupleSize, DiskInv, [Next]_vars
  PROVE  \/ [Tree!Next]_(Tree!vars)
         \/ \E lo, hi \in Key : lo <= hi /\ Search(lo, hi)
<1>1. ASSUME NEW k \in Key, NEW v \in PutValue, Put(k, v)
      PROVE  Tree!Next
  <2>1. Tree!Put(k, v)
    BY <1>1, InsertRefines DEF Put, Tree!Put
  <2> QED
    BY <2>1 DEF Tree!Next
<1>2. ASSUME NEW k \in Key, Delete(k)
      PROVE  Tree!Next
  <2>1. Tree!Delete(k)
    BY <1>2, InsertRefines, SameOperators DEF Delete, Tree!Delete
  <2> QED
    BY <2>1 DEF Tree!Next
<1>3. CASE Close \/ Kill \/ KillInFlush
  <2>1. Tree!Reopen
    BY <1>3, EmptyView DEF Close, Kill, KillInFlush, Reopen, Tree!Reopen
  <2> QED
    BY <2>1 DEF Tree!Next
<1>4. CASE UNCHANGED vars
  <2>1. LevelsView' = LevelsView
    BY <1>4, ViewsAre DEF vars, ViewIn, RunViewIn, SlotsIn
  <2> QED
    BY <1>4, <2>1 DEF vars, Tree!vars
<1> QED
  BY <1>1, <1>2, <1>3, <1>4 DEF Next

(* What is stored.  Whatever the size of buffer, level, file, fence and    *)
(* filter, however trees end and whatever they leave on the disk, and      *)
(* whatever memory a search reads, the tree of files changes as LSMTree    *)
(* says: a flush adds the run of the newest copies, and a search nothing   *)
(* (LSM_T::Insert, LSM_T::Search and what they call).  What a search       *)
(* answers is left open.  The hypothesis is that the size of a file is a   *)
(* whole number of tuples.                                                 *)
THEOREM DiskTreeStoresAsLSMTree ==
  ASSUME SSTSize = Table!max_tuples_per_file * TupleSize
  PROVE  Spec => StoresAsLSMTree
<1>1. Init => Tree!Init
  BY EmptyView DEF Init, Tree!Init
<1>2. DiskInv /\ [Next]_vars => [Tree!SearchAnyhow \/ Tree!Next]_(Tree!vars)
  <2> SUFFICES ASSUME DiskInv, [Next]_vars
               PROVE  [Tree!SearchAnyhow \/ Tree!Next]_(Tree!vars)
    OBVIOUS
  <2>1. ASSUME NEW lo \in Key, NEW hi \in Key, Search(lo, hi)
        PROVE  Tree!SearchAnyhow
    <3>1. LevelsView' = LevelsView
      BY <2>1, ViewsAre DEF Search, ViewIn, RunViewIn, SlotsIn
    <3>2. call'.op = "scan" /\ UNCHANGED buf
      BY <2>1 DEF Search
    <3> QED
      BY <3>1, <3>2 DEF Tree!SearchAnyhow
  <2> QED
    BY <2>1, StepRefines
<1> QED
  BY <1>1, <1>2, DiskInvariant, PTL DEF Spec, StoresAsLSMTree, Tree!StorageSpec

(* What is answered, too.  A search, through fences and filters and        *)
(* however early it stops, finds of each key the copy that LSMTree says.   *)
(* The hypotheses are that a file holds a whole number of tuples, that its *)
(* first Bloom filter covers it (without that a scan misses keys), and     *)
(* that the two undefined reads of a search do no harm (DependableReads):  *)
(* the pointers of Run.cpp:119-120 into strings that are gone, and the     *)
(* part of the read buffer that Run.cpp:162-179 decodes unwritten.         *)
THEOREM DiskTreeImplementsLSMTree ==
  ASSUME SSTSize = Table!max_tuples_per_file * TupleSize, TableProofs!OneFilterPerFile,
         DependableReads
  PROVE  Spec => ImplementsLSMTree
<1>1. Init => Tree!Init
  BY EmptyView DEF Init, Tree!Init
<1>2. DiskInv /\ [Next]_vars => [Tree!Next]_(Tree!vars)
  <2> SUFFICES ASSUME DiskInv, [Next]_vars
               PROVE  [Tree!Next]_(Tree!vars)
    OBVIOUS
  <2>1. ASSUME NEW lo \in Key, NEW hi \in Key, lo <= hi, Search(lo, hi)
        PROVE  Tree!Next
    <3>1. Tree!Search(lo, hi)
      BY <2>1, SearchRefines
    <3> QED
      BY <2>1, <3>1 DEF Tree!Next
  <2> QED
    BY <2>1, StepRefines
<1> QED
  BY <1>1, <1>2, DiskInvariant, PTL DEF Spec, ImplementsLSMTree, Tree!Spec

-----------------------------------------------------------------------------
(* What clients are promised.                                              *)

TreeProofs == INSTANCE LSMTreeProofs WITH levels <- LevelsView

(* The tree LSMTreeProofs is about is the one implemented here.            *)
LEMMA SameTree ==
  /\ Tree!Init <=> TreeProofs!Init
  /\ [Tree!Next]_(Tree!vars) <=> [TreeProofs!Next]_(TreeProofs!vars)
  /\ [Tree!SearchAnyhow \/ Tree!Next]_(Tree!vars)
       <=> [TreeProofs!SearchAnyhow \/ TreeProofs!Next]_(TreeProofs!vars)
<1>1. \A S : Tree!Max(S) = TreeProofs!Max(S) /\ Tree!Min(S) = TreeProofs!Min(S)
  BY Zenon DEF Tree!Max, Tree!Min, TreeProofs!Max, TreeProofs!Min
<1>2. \A slot : Tree!Read2Tuple(slot) = TreeProofs!Read2Tuple(slot)
  BY <1>1, Zenon DEF Tree!Read2Tuple, TreeProofs!Read2Tuple
<1>3. \A items : Tree!AppendBin2Vec(items) = TreeProofs!AppendBin2Vec(items)
  BY <1>1, Zenon DEF Tree!AppendBin2Vec, TreeProofs!AppendBin2Vec
<1>4. /\ \A items : Tree!IsDelMarker(items) = TreeProofs!IsDelMarker(items)
      /\ Tree!DelMarker = TreeProofs!DelMarker
  BY Zenon DEF Tree!IsDelMarker, TreeProofs!IsDelMarker, Tree!DelMarker, TreeProofs!DelMarker
<1>5. \A k : Tree!InBuffer(k) = TreeProofs!InBuffer(k)
  BY Zenon DEF Tree!InBuffer, TreeProofs!InBuffer
<1>6. \A level, k : Tree!InLevel(level, k) = TreeProofs!InLevel(level, k)
  BY Zenon DEF Tree!InLevel, TreeProofs!InLevel
<1>7. \A lvls, k : Tree!InLevels(lvls, k) = TreeProofs!InLevels(lvls, k)
  BY <1>6, Zenon DEF Tree!InLevels, TreeProofs!InLevels
<1>8. \A lvls, k : Tree!Holds(lvls, k) <=> TreeProofs!Holds(lvls, k)
  BY <1>5, <1>7, Zenon DEF Tree!Holds, TreeProofs!Holds
<1>9. \A lvls, k : Tree!FirstCopy(lvls, k) = TreeProofs!FirstCopy(lvls, k)
  <2>1. \A level, k : Tree!LevelCopy(level, k) = TreeProofs!LevelCopy(level, k)
    BY <1>1, <1>2, <1>6, Zenon DEF Tree!LevelCopy, TreeProofs!LevelCopy
  <2>2. \A lvls, k : Tree!DiskCopy(lvls, k) = TreeProofs!DiskCopy(lvls, k)
    BY <1>1, <1>7, <2>1, Zenon DEF Tree!DiskCopy, TreeProofs!DiskCopy
  <2>3. \A k : Tree!BufferCopy(k) = TreeProofs!BufferCopy(k)
    BY <1>1, <1>5, Zenon DEF Tree!BufferCopy, TreeProofs!BufferCopy
  <2> QED
    BY <1>5, <2>2, <2>3, Zenon DEF Tree!FirstCopy, TreeProofs!FirstCopy
<1>10. Tree!Live = TreeProofs!Live
  BY <1>4, <1>8, <1>9, Zenon DEF Tree!Live, TreeProofs!Live
<1>11. \A lo, hi : Tree!Found(lo, hi) = TreeProofs!Found(lo, hi)
  BY <1>9, <1>10, Zenon DEF Tree!Found, TreeProofs!Found
<1>12. \A lo, hi : Tree!Search(lo, hi) <=> TreeProofs!Search(lo, hi)
  BY <1>11, Zenon DEF Tree!Search, TreeProofs!Search
<1>13. \A above : Tree!NewRun(above) = TreeProofs!NewRun(above)
  BY <1>3, <1>8, <1>9, Zenon DEF Tree!NewRun, TreeProofs!NewRun
<1>14. \A t : Tree!Flushed(t) = TreeProofs!Flushed(t)
  BY <1>1, <1>13, Zenon DEF Tree!Flushed, TreeProofs!Flushed
<1>15. \A t : Tree!IsTarget(t) <=> TreeProofs!IsTarget(t)
  BY Zenon DEF Tree!IsTarget, TreeProofs!IsTarget, Tree!ReadyMerge, TreeProofs!ReadyMerge
<1>16. \A k, items : Tree!Insert(k, items) <=> TreeProofs!Insert(k, items)
  BY <1>14, <1>15, Zenon
  DEF Tree!Insert, TreeProofs!Insert, Tree!AppendTuple, TreeProofs!AppendTuple,
      Tree!FlushAndAppend, TreeProofs!FlushAndAppend
<1>17. /\ \A k, v : Tree!Put(k, v) <=> TreeProofs!Put(k, v)
       /\ \A k : Tree!Delete(k) <=> TreeProofs!Delete(k)
  BY <1>4, <1>16, Zenon DEF Tree!Put, TreeProofs!Put, Tree!Delete, TreeProofs!Delete
<1>18. Tree!Reopen <=> TreeProofs!Reopen
  BY Zenon DEF Tree!Reopen, TreeProofs!Reopen
<1>19. Tree!Next <=> TreeProofs!Next
  BY <1>12, <1>17, <1>18, Zenon DEF Tree!Next, TreeProofs!Next
<1>20. Tree!vars = TreeProofs!vars /\ Tree!vars' = TreeProofs!vars'
  BY Zenon DEF Tree!vars, TreeProofs!vars
<1>21. Tree!SearchAnyhow <=> TreeProofs!SearchAnyhow
  BY Zenon DEF Tree!SearchAnyhow, TreeProofs!SearchAnyhow
<1> QED
  BY <1>19, <1>20, <1>21 DEF Tree!Init, TreeProofs!Init

(* So what it implements is implemented here.                              *)
LEMMA TreeIsProvedAbout ==
  /\ Tree!Spec => TreeProofs!Spec
  /\ Tree!StorageSpec => TreeProofs!StorageSpec
  /\ TreeProofs!TreeAssumption /\ TreeProofs!CodecAssumption
<1>1. TreeProofs!TreeAssumption /\ TreeProofs!CodecAssumption
  BY PartsAssumption, CodecAssumption
  DEF Tree!TreeAssumption, TreeProofs!TreeAssumption, TreeProofs!CodecAssumption
<1> QED
  BY <1>1, SameTree, PTL DEF Tree!Spec, TreeProofs!Spec, Tree!StorageSpec, TreeProofs!StorageSpec

(* What both refinements make together, under the hypotheses of both: a    *)
(* file holds a whole number of tuples, its first filter covers it, the    *)
(* two undefined reads of a search do no harm (DependableReads), and the   *)
(* tuple format stores the values faithfully (ClientValues).  Then the     *)
(* tree of files answers every put, delete and scan as the map KVStore     *)
(* does (DB::put, DB::del, DB::get, DB::scan).                             *)
THEOREM DiskTreeImplementsKVStore ==
  ASSUME SSTSize = Table!max_tuples_per_file * TupleSize, TableProofs!OneFilterPerFile,
         DependableReads, TreeProofs!ClientValues
  PROVE  Spec => TreeProofs!ImplementsKVStore
<1>1. TreeProofs!Spec => TreeProofs!ImplementsKVStore
  BY TreeIsProvedAbout, TreeProofs!TreeImplementsKVStore, PTL
<1> QED
  BY <1>1, TreeIsProvedAbout, DiskTreeImplementsLSMTree, PTL DEF ImplementsLSMTree

(* What is proved of LSMTree's levels is so of their images on disk: every *)
(* flush is accounted for once (Level::ReadyMerge, LSM_T::Insert), and a   *)
(* run of level l holds at most what MaxRuns^(l-1) buffers did, which is   *)
(* all that a merge may take of a run into memory (Level::_AddMergeRuns).  *)
(* For this it does not matter what searches answer.                       *)
THEOREM DiskTreeKeepsCount ==
  ASSUME SSTSize = Table!max_tuples_per_file * TupleSize
  PROVE  Spec => TreeProofs!EveryFlushCountedOnce /\ []TreeProofs!RunsGrowByMaxRuns
<1>1. TreeProofs!StorageSpec => TreeProofs!EveryFlushCountedOnce
  BY TreeIsProvedAbout, TreeProofs!StorageCounted, PTL
<1>2. TreeProofs!StorageSpec => []TreeProofs!RunsGrowByMaxRuns
  BY TreeIsProvedAbout, TreeProofs!StorageRunsBounded, PTL
<1> QED
  BY <1>1, <1>2, TreeIsProvedAbout, DiskTreeStoresAsLSMTree, PTL DEF StoresAsLSMTree

-----------------------------------------------------------------------------
(* How much a merge takes.                                                 *)

(* Tuples with ascending keys are as many as their keys.                   *)
LEMMA AscendingCount ==
  ASSUME NEW s \in Seq(Sort!Tuple),
         \A p, q \in DOMAIN s : p < q => s[p].key < s[q].key
  PROVE  Cardinality(KeysIn(s)) = Len(s)
<1> DEFINE f == [p \in 1..Len(s) |-> s[p].key]
<1>1. Len(s) \in Nat /\ DOMAIN s = 1..Len(s) /\ \A p \in 1..Len(s) : s[p].key \in Int
  <2>1. \A p \in 1..Len(s) : s[p] \in Sort!Tuple
    OBVIOUS
  <2>2. \A t \in Sort!Tuple : t.key \in Key
    BY DEF Sort!Tuple
  <2>3. \A p \in 1..Len(s) : s[p].key \in Int
    BY <2>1, <2>2, KeysAreInts, Zenon
  <2> QED
    BY <2>3
<1>2. KeysIn(s) = {s[p].key : p \in 1..Len(s)}
  BY <1>1 DEF KeysIn
<1>3. \A p, q \in 1..Len(s) : s[p].key = s[q].key => p = q
  <2> SUFFICES ASSUME NEW p \in 1..Len(s), NEW q \in 1..Len(s), p # q
               PROVE  s[p].key # s[q].key
    OBVIOUS
  <2>1. p < q \/ q < p
    OBVIOUS
  <2>2. p < q => s[p].key < s[q].key
    BY <1>1
  <2>3. q < p => s[q].key < s[p].key
    BY <1>1
  <2>4. s[p].key \in Int /\ s[q].key \in Int
    BY <1>1
  <2> QED
    BY <2>1, <2>2, <2>3, <2>4
<1>4. f \in Bijection(1..Len(s), KeysIn(s))
  BY <1>2, <1>3 DEF Bijection, Injection, Surjection, IsInjective
<1>5. ExistsBijection(1..Len(s), KeysIn(s))
  BY <1>4 DEF ExistsBijection
<1> QED
  BY <1>1, <1>5, FS_CountingElements

(* Sequences of at most b put one after the other.                         *)
LEMMA FlattenedLength ==
  ASSUME NEW T, NEW n \in Nat, NEW b \in Nat, NEW seqs, seqs = [i \in 1..n |-> seqs[i]],
         \A i \in 1..n : seqs[i] \in Seq(T) /\ Len(seqs[i]) <= b
  PROVE  FlattenSeq(seqs) \in Seq(T) /\ Len(FlattenSeq(seqs)) <= n * b
<1> DEFINE V == Seq(T)
           first(m) == [i \in 1..m |-> seqs[i]]
           S == {m \in Nat : m <= n => /\ FlattenSeq(first(m)) \in V
                                      /\ Len(FlattenSeq(first(m))) <= m * b}
<1>1. \A i \in 1..n : seqs[i] \in V
  OBVIOUS
<1>2. 0 \in S
  <2>1. FlattenSeq(first(0)) = <<>>
    BY FlattenNone
  <2>2. <<>> \in V /\ Len(<<>>) = 0
    OBVIOUS
  <2>3. 0 * b = 0
    OBVIOUS
  <2> HIDE DEF first, V
  <2>4. Len(FlattenSeq(first(0))) <= 0 * b
    BY <2>1, <2>2, <2>3
  <2> QED
    BY <2>1, <2>2, <2>4
<1>3. ASSUME NEW m \in Nat, m \in S PROVE m + 1 \in S
  <2> SUFFICES ASSUME m + 1 <= n
               PROVE  /\ FlattenSeq(first(m + 1)) \in V
                      /\ Len(FlattenSeq(first(m + 1))) <= (m + 1) * b
    OBVIOUS
  <2> DEFINE A == FlattenSeq(first(m))
             B == seqs[m + 1]
             g == first(m + 1)
  <2>1. /\ A \in V /\ Len(A) <= m * b
        /\ B \in V /\ Len(B) <= b
        /\ \A i \in 1..m + 1 : i \in 1..n
    BY <1>3
  <2> HIDE DEF S, V
  <2>2. /\ g = [i \in 1..m + 1 |-> g[i]]
        /\ \A i \in 1..m + 1 : g[i] \in V
        /\ first(m) = [i \in 1..m |-> g[i]] /\ g[m + 1] = B
    <3>1. m + 1 \in 1..m + 1 /\ \A i \in 1..m : i \in 1..m + 1
      OBVIOUS
    <3>2. \A i \in 1..m + 1 : g[i] = seqs[i]
      OBVIOUS
    <3>3. first(m) = [i \in 1..m |-> g[i]]
      BY <3>1, <3>2
    <3> QED
      BY <1>1, <2>1, <3>1, <3>2, <3>3
  <2> HIDE DEF g, first, B
  <2>3. FlattenSeq(g) = A \o B
    <3>1. FlattenSeq(g) = FlattenSeq([i \in 1..m |-> g[i]]) \o g[m + 1]
      BY <2>2, FlattenStep DEF V
    <3> QED
      BY <2>2, <3>1
  <2> HIDE DEF A
  <2>4. A \o B \in V /\ Len(A \o B) = Len(A) + Len(B) /\ Len(A) \in Nat /\ Len(B) \in Nat
    BY <2>1 DEF V
  <2>5. PICK p \in Nat : p = m * b
    OBVIOUS
  <2>6. (m + 1) * b = p + b
    BY <2>5
  <2>7. Len(A \o B) <= p + b
    BY <2>1, <2>4, <2>5
  <2> QED
    BY <2>3, <2>4, <2>6, <2>7 DEF g
<1>4. n \in S
  <2> HIDE DEF S
  <2> QED
    BY <1>2, <1>3, InductionOnNats
<1>5. first(n) = seqs
  OBVIOUS
<1> HIDE DEF first, V
<1>6. FlattenSeq(first(n)) \in V /\ Len(FlattenSeq(first(n))) <= n * b
  <2>1. n <= n
    OBVIOUS
  <2> QED
    BY <1>4, <2>1, Zenon
<1> QED
  BY <1>5, <1>6, Zenon DEF V

(* As many tuples are read of a run as LSMTree sees keys in it.            *)
LEMMA RunCount ==
  ASSUME NEW run \in RunOfFiles, RunOnDisk(disk, run)
  PROVE  /\ RunTuples(run) \in Seq(Sort!Tuple)
         /\ Len(RunTuples(run)) = Cardinality(DOMAIN RunView(run))
<1>1. /\ RunTuples(run) \in Seq(Sort!Tuple)
      /\ KeysIn(RunTuples(run)) = KeysOfRun(run)
      /\ \A p, q \in DOMAIN RunTuples(run) :
           p < q => RunTuples(run)[p].key < RunTuples(run)[q].key
  BY RunReads DEF RunOnDisk, KeysOfRun
<1>2. DOMAIN RunView(run) = KeysOfRun(run)
  BY RunViewShows, ViewsAre DEF ShowsFiles
<1> QED
  BY <1>1, <1>2, AscendingCount

(* Runs of at most b tuples make a level of at most so many times b.       *)
LEMMA LevelCount ==
  ASSUME NEW level \in LevelOfRuns, \A r \in 1..Len(level) : RunOnDisk(disk, level[r]),
         NEW b \in Nat, \A r \in 1..Len(level) : Cardinality(DOMAIN RunView(level[r])) <= b
  PROVE  /\ LevelTuples(level) \in Seq(Sort!Tuple)
         /\ Len(LevelTuples(level)) <= Len(level) * b
<1> DEFINE n == Len(level)
           runs == [r \in DOMAIN level |-> RunTuples(Reverse(level)[r])]
<1>1. n \in Nat /\ DOMAIN level = 1..n /\ \A r \in 1..n : level[r] \in RunOfFiles
  BY DEF LevelOfRuns
<1>2. \A r \in 1..n : n - r + 1 \in 1..n /\ Reverse(level)[r] = level[n - r + 1]
  BY <1>1 DEF Reverse
<1>3. runs = [r \in 1..n |-> runs[r]] /\ \A r \in 1..n : runs[r] = RunTuples(level[n - r + 1])
  BY <1>1, <1>2
<1>4. LevelTuples(level) = FlattenSeq(runs)
  BY DEF LevelTuples
<1>5. \A r \in 1..n : /\ RunTuples(level[r]) \in Seq(Sort!Tuple)
                      /\ Len(RunTuples(level[r])) <= b
  BY <1>1, RunCount
<1> HIDE DEF runs
<1>6. \A r \in 1..n : runs[r] \in Seq(Sort!Tuple) /\ Len(runs[r]) <= b
  BY <1>2, <1>3, <1>5
<1> QED
  BY <1>1, <1>3, <1>4, <1>6, FlattenedLength
(* On the way to its target a flush holds one buffer and MaxRuns times as  *)
(* much for each level it goes past.                                       *)
LEMMA GatheredCount ==
  ASSUME DiskInv, TreeProofs!TypeOK, TreeProofs!RunsGrowByMaxRuns,
         NEW t \in 1..Len(levels) + 1, IsTarget(t)
  PROVE  Len(Gathered(t)) <= TreeProofs!MostTuples(t)
<1> DEFINE most(l) == TreeProofs!MostTuples(l)
           seqs == [l \in 1..t - 1 |-> LevelTuples(levels[l])]
           first(m) == [l \in 1..m |-> seqs[l]]
           S == {m \in Nat : m <= t - 1 =>
                  /\ FlattenSeq(first(m)) \in Seq(Sort!Tuple)
                  /\ Len(buf) + Len(FlattenSeq(first(m))) <= most(m + 1)}
<1>1. /\ t \in Nat \ {0} /\ Len(levels) \in Nat /\ levels \in Seq(LevelOfRuns)
      /\ buf \in Seq(Sort!Tuple) /\ Len(buf) \in Nat
      /\ \A l \in 1..t - 1 : l \in 1..Len(levels)
  BY DEF DiskInv
<1>2. Len(buf) <= BufCap
  BY DEF TreeProofs!TypeOK
<1>3. TreeProofs!TreeAssumption
  BY TreeIsProvedAbout
<1>4. MaxRuns \in Nat \ {0} /\ BufCap \in Nat
  BY <1>3 DEF TreeProofs!TreeAssumption
<1>5. /\ \A l \in Nat : most(l) \in Nat
      /\ most(1) = BufCap
      /\ \A l \in Nat \ {0} : most(l + 1) = MaxRuns * most(l)
  BY <1>4, TreeIsProvedAbout, TreeProofs!MostTuplesDefined
<1>6. ASSUME NEW l \in 1..t - 1
      PROVE  /\ seqs[l] \in Seq(Sort!Tuple)
             /\ Len(seqs[l]) <= (MaxRuns - 1) * most(l)
  <2>1. l \in 1..Len(levels) /\ l \in Nat
    BY <1>1
  <2>2. levels[l] \in LevelOfRuns /\ \A r \in 1..Len(levels[l]) : RunOnDisk(disk, levels[l][r])
    BY <2>1, InvOnDisk
  <2>3. Len(levels[l]) = MaxRuns - 1
    <3>1. Len(levels[l]) \in Nat
      BY <2>2 DEF LevelOfRuns
    <3> QED
      BY <1>4, <3>1 DEF IsTarget, ReadyMerge
  <2>4. /\ Len(LevelsView) = Len(levels) /\ LevelsView[l] = LevelView(levels[l])
        /\ Len(LevelsView[l]) = Len(levels[l])
    BY <1>1, <2>1, ViewShape
  <2>5. ASSUME NEW r \in 1..Len(levels[l])
        PROVE  Cardinality(DOMAIN RunView(levels[l][r])) <= most(l)
    <3>1. LevelsView[l][r] = RunView(levels[l][r])
      BY <2>2, <2>4 DEF LevelView, LevelOfRuns
    <3>2. l \in 1..Len(LevelsView) /\ r \in 1..Len(LevelsView[l])
      BY <2>1, <2>4, <2>5
    <3>3. \A keys : Cardinality(keys) = TreeProofs!Cardinality(keys)
      BY Zenon DEF Cardinality, TreeProofs!Cardinality
    <3>4. TreeProofs!Cardinality(DOMAIN LevelsView[l][r]) <= most(l)
      BY <3>2, Zenon DEF TreeProofs!RunsGrowByMaxRuns
    <3> QED
      BY <3>1, <3>3, <3>4
  <2>6. most(l) \in Nat
    BY <1>5, <2>1
  <2> HIDE DEF most
  <2>7. /\ LevelTuples(levels[l]) \in Seq(Sort!Tuple)
        /\ Len(LevelTuples(levels[l])) <= Len(levels[l]) * most(l)
    BY <2>2, <2>5, <2>6, LevelCount
  <2> QED
    BY <2>3, <2>7
<1>7. 0 \in S
  <2>1. FlattenSeq(first(0)) = <<>>
    BY FlattenNone
  <2>2. <<>> \in Seq(Sort!Tuple) /\ Len(<<>>) = 0
    OBVIOUS
  <2> HIDE DEF first, most
  <2>3. Len(buf) + Len(FlattenSeq(first(0))) <= most(0 + 1)
    <3>1. 0 + 1 = 1 /\ Len(buf) + 0 = Len(buf)
      BY <1>1
    <3>2. Len(FlattenSeq(first(0))) = 0
      BY <2>1, <2>2, Zenon
    <3> QED
      BY <1>2, <1>5, <3>1, <3>2, Zenon
  <2> QED
    BY <2>1, <2>2, <2>3
<1>8. ASSUME NEW m \in Nat, m \in S PROVE m + 1 \in S
  <2> SUFFICES ASSUME m + 1 <= t - 1
               PROVE  /\ FlattenSeq(first(m + 1)) \in Seq(Sort!Tuple)
                      /\ Len(buf) + Len(FlattenSeq(first(m + 1))) <= most((m + 1) + 1)
    OBVIOUS
  <2> DEFINE A == FlattenSeq(first(m))
             B == seqs[m + 1]
             g == first(m + 1)
  <2>1. /\ m + 1 \in 1..t - 1 /\ m + 1 \in 1..m + 1 /\ m + 1 \in Nat \ {0}
        /\ \A i \in 1..m + 1 : i \in 1..t - 1
        /\ \A i \in 1..m : i \in 1..m + 1
    BY <1>1
  <2>2. A \in Seq(Sort!Tuple) /\ Len(buf) + Len(A) <= most(m + 1)
    BY <1>1, <1>8
  <2> HIDE DEF S, seqs, most
  <2>3. B \in Seq(Sort!Tuple) /\ Len(B) <= (MaxRuns - 1) * most(m + 1)
    BY <1>6, <2>1
  <2>4. \A i \in 1..m + 1 : g[i] = seqs[i]
    OBVIOUS
  <2>5. /\ g = [i \in 1..m + 1 |-> g[i]]
        /\ \A i \in 1..m + 1 : g[i] \in Seq(Sort!Tuple)
        /\ first(m) = [i \in 1..m |-> g[i]] /\ g[m + 1] = B
    BY <1>6, <2>1, <2>4
  <2> HIDE DEF g, first, B
  <2>6. FlattenSeq(g) = A \o B
    <3>1. FlattenSeq(g) = FlattenSeq([i \in 1..m |-> g[i]]) \o g[m + 1]
      BY <2>5, FlattenStep
    <3> QED
      BY <2>5, <3>1
  <2> HIDE DEF A
  <2>7. /\ A \o B \in Seq(Sort!Tuple) /\ Len(A \o B) = Len(A) + Len(B)
        /\ Len(A) \in Nat /\ Len(B) \in Nat
    BY <2>2, <2>3
  <2>8. most(m + 1) \in Nat /\ most((m + 1) + 1) = MaxRuns * most(m + 1)
    BY <1>5, <2>1
  <2> DEFINE b == most(m + 1)
  <2>9. MaxRuns * b = b + (MaxRuns - 1) * b
    BY <1>4, <2>8
  <2>10. (MaxRuns - 1) * b \in Nat
    BY <1>4, <2>8
  <2> HIDE DEF b
  <2>11. PICK p \in Nat : p = (MaxRuns - 1) * b
    BY <2>10
  <2>12. Len(buf) + Len(A \o B) <= b + p
    <3>1. Len(buf) + Len(A) <= b /\ b \in Nat
      BY <2>2, <2>8 DEF b
    <3>2. Len(B) <= p
      BY <2>3, <2>11 DEF b
    <3> DEFINE x == Len(A)
               y == Len(B)
               z == Len(buf)
    <3>3. /\ x \in Nat /\ y \in Nat /\ z \in Nat
          /\ z + x <= b /\ y <= p /\ Len(A \o B) = x + y
      BY <1>1, <2>7, <3>1, <3>2
    <3> HIDE DEF x, y
    <3>4. z + (x + y) <= b + p
      BY <3>1, <3>3
    <3> QED
      BY <3>3, <3>4
  <2>13. most((m + 1) + 1) = b + p
    BY <2>8, <2>9, <2>11 DEF b
  <2> QED
    BY <2>6, <2>7, <2>12, <2>13 DEF g
<1>9. t - 1 \in S
  <2> HIDE DEF S
  <2> QED
    BY <1>1, <1>7, <1>8, InductionOnNats
<1>10. first(t - 1) = seqs
  OBVIOUS
<1>11. Gathered(t) = Reverse(buf) \o FlattenSeq(seqs)
  BY DEF Gathered
<1> HIDE DEF seqs, first, most
<1>12. /\ FlattenSeq(seqs) \in Seq(Sort!Tuple)
       /\ Len(buf) + Len(FlattenSeq(seqs)) <= most((t - 1) + 1)
  <2>1. t - 1 <= t - 1
    BY <1>1
  <2> QED
    BY <1>9, <1>10, <2>1
<1>13. Reverse(buf) \in Seq(Sort!Tuple) /\ Len(Reverse(buf)) = Len(buf)
  BY <1>1, BufferReads DEF Reverse
<1>14. (t - 1) + 1 = t
  BY <1>1
<1>15. Len(Gathered(t)) = Len(buf) + Len(FlattenSeq(seqs))
  <2>1. \A a, b \in Seq(Sort!Tuple) : Len(a \o b) = Len(a) + Len(b)
    OBVIOUS
  <2> QED
    BY <1>11, <1>12, <1>13, <2>1, Zenon
<1> QED
  BY <1>12, <1>14, <1>15 DEF most

(* The tuples a merge has in memory at once, the duplicates among them     *)
(* included, are bounded by its target level, whatever was put, deleted,   *)
(* merged and left behind (Level::_AddMergeRuns).  The hypothesis is that  *)
(* of DiskTreeStoresAsLSMTree, through which the runs are counted.         *)
THEOREM MergesAreBounded ==
  ASSUME SSTSize = Table!max_tuples_per_file * TupleSize
  PROVE  Spec => []MergeIsBounded
<1>1. \A l : Tree!MostTuples(l) = TreeProofs!MostTuples(l)
  BY Zenon DEF Tree!MostTuples, TreeProofs!MostTuples
<1>2. DiskInv /\ TreeProofs!TypeOK /\ TreeProofs!RunsGrowByMaxRuns => MergeIsBounded
  BY <1>1, GatheredCount DEF MergeIsBounded
<1>3. TreeProofs!StorageSpec => []TreeProofs!TypeOK
  BY TreeIsProvedAbout, TreeProofs!StorageTypeCorrect, PTL
<1> QED
  BY <1>2, <1>3, DiskTreeKeepsCount, DiskInvariant, TreeIsProvedAbout,
     DiskTreeStoresAsLSMTree, PTL DEF StoresAsLSMTree
=============================================================================
