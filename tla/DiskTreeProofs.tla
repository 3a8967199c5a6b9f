--------------------------- MODULE DiskTreeProofs ---------------------------
(***************************************************************************)
(* The files of the tree, for every size of a buffer, a level, a file and  *)
(* a tuple, for every way a tree may end and whether or not unlink works.  *)
(***************************************************************************)
EXTENDS DiskTree, TupleCodecProofs, SequenceTheorems

SortProofs == INSTANCE MergeSortProofs WITH Items <- Seq(Word), MaxTuples <- 0,
                                            tuples <- <<>>, run <- <<>>

TableProofs == INSTANCE SSTableProofs WITH HeapKeys <- {slot.key : slot \in HeapSlots}

-----------------------------------------------------------------------------
(* Flattening a sequence of sequences.                                     *)

(* Place <<f, i>> of a sequence of sequences is before place <<g, j>>.     *)
Before(f, i, g, j) == f < g \/ (f = g /\ i < j)

(* s has what is in the first n of seqs, in the same order.                *)
Flattens(s, seqs, n) ==
  /\ \A f \in 1..n : \A i \in 1..Len(seqs[f]) : \E p \in 1..Len(s) : s[p] = seqs[f][i]
  /\ \A p \in 1..Len(s) : \E f \in 1..n : \E i \in 1..Len(seqs[f]) : s[p] = seqs[f][i]
  /\ \A p, q \in 1..Len(s) : p < q =>
       \E f, g \in 1..n : \E i \in 1..Len(seqs[f]) : \E j \in 1..Len(seqs[g]) :
         s[p] = seqs[f][i] /\ s[q] = seqs[g][j] /\ Before(f, i, g, j)

(* One more sequence at the end.                                           *)
LEMMA FlattensNext ==
  ASSUME NEW T, NEW seqs, NEW n \in Nat, NEW s \in Seq(T), Flattens(s, seqs, n),
         seqs[n + 1] \in Seq(T)
  PROVE  s \o seqs[n + 1] \in Seq(T) /\ Flattens(s \o seqs[n + 1], seqs, n + 1)
<1> DEFINE t == seqs[n + 1]
           u == s \o t
           a == Len(s)
           b == Len(t)
<1>1. /\ a \in Nat /\ b \in Nat /\ u \in Seq(T) /\ Len(u) = a + b
      /\ \A p \in 1..a : u[p] = s[p]
      /\ \A p \in 1..b : u[a + p] = t[p]
  OBVIOUS
<1>2. seqs[n + 1] = t /\ Len(seqs[n + 1]) = b /\ Len(s) = a
  OBVIOUS
<1> HIDE DEF u, t, a, b
<1>3. \A p \in 1..a + b : p \in 1..a \/ (p - a \in 1..b /\ a + (p - a) = p)
  BY <1>1
<1>4. /\ \A p \in 1..a : p \in 1..a + b
      /\ \A p \in 1..b : a + p \in 1..a + b
  BY <1>1
<1>5. /\ \A f \in 1..n : f \in 1..n + 1 /\ f < n + 1
      /\ n + 1 \in 1..n + 1
      /\ \A f \in 1..n + 1 : f \in 1..n \/ f = n + 1
  OBVIOUS
<1>6. ASSUME NEW f \in 1..n + 1, NEW i \in 1..Len(seqs[f])
      PROVE  \E p \in 1..a + b : u[p] = seqs[f][i]
  <2>1. CASE f \in 1..n
    <3>1. PICK p \in 1..a : s[p] = seqs[f][i]
      BY <1>2, <2>1 DEF Flattens
    <3> QED
      BY <1>1, <1>4, <3>1
  <2>2. CASE f = n + 1
    <3>1. i \in 1..b /\ a + i \in 1..a + b
      BY <1>2, <1>4, <2>2
    <3>2. u[a + i] = seqs[f][i]
      BY <1>1, <1>2, <2>2, <3>1
    <3> QED
      BY <3>1, <3>2
  <2> QED
    BY <1>5, <2>1, <2>2
<1>7. ASSUME NEW p \in 1..a + b
      PROVE  \E f \in 1..n + 1 : \E i \in 1..Len(seqs[f]) : u[p] = seqs[f][i]
  <2>1. CASE p \in 1..a
    <3>1. PICK f \in 1..n : \E i \in 1..Len(seqs[f]) : s[p] = seqs[f][i]
      BY <1>2, <2>1 DEF Flattens
    <3> QED
      BY <1>1, <1>5, <2>1, <3>1
  <2>2. CASE p - a \in 1..b /\ a + (p - a) = p
    <3>1. u[p] = t[p - a]
      BY <1>1, <2>2
    <3> QED
      BY <1>2, <1>5, <2>2, <3>1
  <2> QED
    BY <1>3, <2>1, <2>2
<1>8. ASSUME NEW p \in 1..a + b, NEW q \in 1..a + b, p < q
      PROVE  \E f, g \in 1..n + 1 : \E i \in 1..Len(seqs[f]) : \E j \in 1..Len(seqs[g]) :
               u[p] = seqs[f][i] /\ u[q] = seqs[g][j] /\ Before(f, i, g, j)
  <2>1. CASE p \in 1..a /\ q \in 1..a
    <3>1. PICK f \in 1..n, g \in 1..n : \E i \in 1..Len(seqs[f]) : \E j \in 1..Len(seqs[g]) :
            s[p] = seqs[f][i] /\ s[q] = seqs[g][j] /\ Before(f, i, g, j)
      BY <1>2, <1>8, <2>1, ZenonT(30) DEF Flattens
    <3> QED
      BY <1>1, <1>5, <2>1, <3>1
  <2>2. CASE p \in 1..a /\ q - a \in 1..b /\ a + (q - a) = q
    <3>1. PICK f \in 1..n : \E i \in 1..Len(seqs[f]) : s[p] = seqs[f][i]
      BY <1>2, <2>2 DEF Flattens
    <3>2. PICK i \in 1..Len(seqs[f]) : s[p] = seqs[f][i]
      BY <3>1
    <3>3. u[p] = seqs[f][i] /\ u[q] = seqs[n + 1][q - a]
      BY <1>1, <1>2, <2>2, <3>2
    <3>4. Before(f, i, n + 1, q - a)
      BY <1>5 DEF Before
    <3>5. f \in 1..n + 1 /\ q - a \in 1..Len(seqs[n + 1])
      BY <1>2, <1>5, <2>2
    <3> QED
      BY <1>5, <3>3, <3>4, <3>5
  <2>3. CASE p - a \in 1..b /\ a + (p - a) = p /\ q - a \in 1..b /\ a + (q - a) = q
    <3>1. u[p] = seqs[n + 1][p - a] /\ u[q] = seqs[n + 1][q - a]
      BY <1>1, <1>2, <2>3
    <3>2. Before(n + 1, p - a, n + 1, q - a)
      BY <1>1, <1>8 DEF Before
    <3>3. p - a \in 1..Len(seqs[n + 1]) /\ q - a \in 1..Len(seqs[n + 1])
      BY <1>2, <2>3
    <3> QED
      BY <1>5, <3>1, <3>2, <3>3
  <2>4. ~(q \in 1..a /\ p \notin 1..a)
    BY <1>1, <1>8
  <2> QED
    BY <1>3, <2>1, <2>2, <2>3, <2>4
<1>9. Flattens(u, seqs, n + 1)
  BY <1>1, <1>6, <1>7, <1>8 DEF Flattens
<1> QED
  BY <1>1, <1>9 DEF u, t

(* flatten[d] is the first d of seqs, one after the other.                 *)
Flattenings(flatten, seqs, n) ==
  \A d \in 1..n : flatten[d] = IF d = 1 THEN seqs[d] ELSE flatten[d - 1] \o seqs[d]

(* FlattenSeq adds one sequence after the other.                           *)
LEMMA FlattenDefined ==
  ASSUME NEW T, NEW seqs \in Seq(Seq(T))
  PROVE  \E f : /\ Flattenings(f, seqs, Len(seqs))
               /\ FlattenSeq(seqs) = IF Len(seqs) = 0 THEN <<>> ELSE f[Len(seqs)]
<1> DEFINE n == Len(seqs)
           D == 1..n
           V == Seq(T)
           E(i, f) == IF i = 1 THEN seqs[i] ELSE f[i - 1] \o seqs[i]
           rank == [d \in D |-> d]
           step == [p \in D \X [D -> V] |-> E(p[1], p[2])]
           flatten[i \in 1..Len(seqs)] ==
             IF i = 1 THEN seqs[i] ELSE flatten[i - 1] \o seqs[i]
<1>1. n \in Nat /\ \A i \in 1..n : seqs[i] \in V
  OBVIOUS
<1>2. FlattenSeq(seqs) = IF n = 0 THEN seqs ELSE flatten[n]
  BY Zenon DEF FlattenSeq
<1>3. n = 0 => seqs = <<>>
  BY EmptySeq
<1> HIDE DEF flatten, n
<1>4. D \subseteq Nat /\ \A d \in D : d # 1 => d - 1 \in D /\ d - 1 < d
  BY <1>1
<1>5. rank \in [D -> Nat] /\ \A d \in D : rank[d] = d
  BY <1>4
<1>6. <<>> \in V
  OBVIOUS
<1>7. \A d \in D : \A f \in [D -> V] : E(d, f) \in V
  <2> SUFFICES ASSUME NEW d \in D, NEW f \in [D -> V] PROVE E(d, f) \in V
    OBVIOUS
  <2>1. d # 1 => f[d - 1] \in V
    BY <1>4
  <2> QED
    BY <1>1, <2>1, ConcatProperties
<1>8. ASSUME NEW d \in D, NEW g \in [D -> V], NEW h \in [D -> V],
             \A y \in D : rank[y] < rank[d] => g[y] = h[y]
      PROVE  E(d, g) = E(d, h)
  <2>1. CASE d # 1
    <3>1. g[d - 1] = h[d - 1]
      BY <1>4, <1>5, <1>8, <2>1
    <3> QED
      BY <2>1, <3>1
  <2> QED
    BY <2>1
<1> HIDE DEF D, V, E, rank
<1>9. /\ step \in [D \X [D -> V] -> V]
      /\ \A d \in D : \A g \in [D -> V] : step[<<d, g>>] = E(d, g)
  BY <1>7
<1> HIDE DEF step
<1>10. ASSUME NEW d \in D, NEW g \in [D -> V], NEW h \in [D -> V],
              \A y \in D : rank[y] < rank[d] => g[y] = h[y]
       PROVE  step[<<d, g>>] = step[<<d, h>>]
  <2>1. E(d, g) = E(d, h)
    BY <1>8, <1>10
  <2> QED
    BY <1>9, <2>1
<1>11. PICK f \in [D -> V] : \A d \in D : f[d] = step[<<d, f>>]
  <2>1. WellFoundedStep(D, V, rank, step)
    BY <1>5, <1>6, <1>9, <1>10 DEF WellFoundedStep
  <2> QED
    BY <2>1, RecursiveFunction
<1>12. f = [d \in D |-> E(d, f)]
  BY <1>9, <1>11
<1>13. flatten = [d \in D |-> E(d, flatten)]
  BY <1>12, Zenon DEF flatten, D, E, n
<1>14. \A d \in D : flatten[d] = E(d, flatten)
  BY <1>13, Zenon
<1> QED
  BY <1>2, <1>3, <1>14 DEF E, D, n, Flattenings

(* FlattenSeq gives what is in all of them, in the same order.             *)
LEMMA Flattened ==
  ASSUME NEW T, NEW seqs \in Seq(Seq(T))
  PROVE  FlattenSeq(seqs) \in Seq(T) /\ Flattens(FlattenSeq(seqs), seqs, Len(seqs))
<1> DEFINE n == Len(seqs)
           D == 1..n
           rank == [d \in D |-> d]
<1>1. n \in Nat /\ \A i \in D : seqs[i] \in Seq(T)
  OBVIOUS
<1>2. PICK flatten : /\ Flattenings(flatten, seqs, n)
                     /\ FlattenSeq(seqs) = IF n = 0 THEN <<>> ELSE flatten[n]
  BY FlattenDefined
<1> HIDE DEF n
<1>3. D \subseteq Nat /\ \A d \in D : d # 1 => d - 1 \in D /\ d - 1 < d
  BY <1>1
<1>4. rank \in [D -> Nat] /\ \A d \in D : rank[d] = d
  BY <1>3
<1> DEFINE S == {d \in D : flatten[d] \in Seq(T) /\ Flattens(flatten[d], seqs, d)}
<1>5. ASSUME NEW d \in D, \A y \in D : rank[y] < rank[d] => y \in S PROVE d \in S
  <2>1. CASE d = 1
    <3>1. flatten[d] = seqs[1] /\ seqs[1] \in Seq(T)
      BY <1>1, <1>2, <2>1 DEF Flattenings
    <3> DEFINE s == seqs[1]
    <3>2. /\ s \in Seq(T) /\ 1 \in 1..1 /\ Len(s) \in Nat
          /\ \A f1 \in 1..1 : f1 = 1
      BY <3>1
    <3>3. \A p, q \in 1..Len(s) : p < q => Before(1, p, 1, q)
      BY DEF Before
    <3>4. Flattens(seqs[1], seqs, 1)
      BY <3>2, <3>3 DEF Flattens
    <3> QED
      BY <2>1, <3>1, <3>4
  <2>2. CASE d # 1
    <3> DEFINE m == d - 1
    <3>1. m \in D /\ rank[m] < rank[d] /\ m \in Nat /\ m + 1 = d
      BY <1>3, <1>4, <2>2
    <3>2. flatten[d] = flatten[m] \o seqs[d]
      BY <1>2, <2>2 DEF Flattenings
    <3> HIDE DEF m
    <3>3. flatten[m] \in Seq(T) /\ Flattens(flatten[m], seqs, m)
      BY <1>5, <3>1
    <3>4. flatten[m] \o seqs[m + 1] \in Seq(T) /\ Flattens(flatten[m] \o seqs[m + 1], seqs, m + 1)
      BY <1>1, <3>1, <3>3, FlattensNext
    <3> QED
      BY <3>1, <3>2, <3>4
  <2> QED
    BY <2>1, <2>2
<1> HIDE DEF S, D, rank
<1>6. D \subseteq S
  BY <1>4, <1>5, InductionOnRank
<1>7. CASE n = 0
  <2>1. Flattens(<<>>, seqs, 0)
    BY DEF Flattens
  <2> QED
    BY <1>2, <1>7, <2>1 DEF n
<1>8. CASE n # 0
  <2>1. n \in D
    BY <1>1, <1>8 DEF D
  <2>2. flatten[n] \in Seq(T) /\ Flattens(flatten[n], seqs, n)
    BY <1>6, <2>1 DEF S
  <2> QED
    BY <1>2, <1>8, <2>2 DEF n
<1> QED
  BY <1>7, <1>8

-----------------------------------------------------------------------------
(* Writing the files of a run.                                             *)

(* The slots a file of these tuples has on disk.                           *)
SlotsFor(tuples) ==
  [i \in DOMAIN tuples |-> [key |-> tuples[i].key, slot |-> AppendBin2Vec(tuples[i].items)]]

(* A written file has the slots of its tuples, whatever was there before.  *)
LEMMA CreatedFile ==
  ASSUME NEW old, NEW file, NEW tuples
  PROVE  /\ Created(old, file, tuples) =
              [name \in DOMAIN old \cup {file.name} |->
                 IF name = file.name THEN SlotsFor(tuples) ELSE old[name]]
  BY DEF Created, SlotsFor

(* The first n files of a run have names of their own.                     *)
OwnNames(run, n) == \A f, g \in 1..n : run[f].name = run[g].name => f = g

(* The disk when the first n files of a run are written.                   *)
WrittenIs(old, run, tuples, n) ==
  /\ DOMAIN Written(old, run, tuples, n) = DOMAIN old \cup {run[f].name : f \in 1..n}
  /\ \A f \in 1..n :
       Written(old, run, tuples, n)[run[f].name] = SlotsFor(Table!Files(tuples)[f])
  /\ \A name \in DOMAIN old :
       (\A f \in 1..n : name # run[f].name) => Written(old, run, tuples, n)[name] = old[name]

(* If the files of a run have names of their own, each has its tuples on   *)
(* disk when they are all written, and no other file has changed.          *)
LEMMA WrittenDisk ==
  ASSUME NEW old, NEW run, NEW tuples, NEW n \in Nat, OwnNames(run, n)
  PROVE  WrittenIs(old, run, tuples, n)
<1> DEFINE D == 0..n
           files == Table!Files(tuples)
           names(m) == {run[f].name : f \in 1..m}
           at(name) == CHOOSE f \in 1..n : run[f].name = name
           whole(m) == IF m = 0 THEN old
                       ELSE [name \in DOMAIN old \cup names(m) |->
                               IF name \in names(m) THEN SlotsFor(files[at(name)])
                                                    ELSE old[name]]
           rank == [d \in D |-> d]
           E(m, g) == IF m = 0 THEN old ELSE Created(g[m - 1], run[m], Table!Files(tuples)[m])
           g0 == [m \in D |-> whole(m)]
           after[f \in 0..n] == IF f = 0 THEN old
                                ELSE Created(after[f - 1], run[f], Table!Files(tuples)[f])
<1>1. Written(old, run, tuples, n) = after[n]
  BY Zenon DEF Written
<1> HIDE DEF after
<1>2. \A f \in 1..n : at(run[f].name) = f
  BY DEF OwnNames
<1>3. \A m \in 1..n : /\ m - 1 \in D /\ m - 1 < m /\ m # 0
                      /\ names(m) = names(m - 1) \cup {run[m].name}
  <2> SUFFICES ASSUME NEW m \in 1..n
               PROVE  /\ m - 1 \in D /\ m - 1 < m /\ m # 0
                      /\ names(m) = names(m - 1) \cup {run[m].name}
    OBVIOUS
  <2>1. /\ m - 1 \in D /\ m - 1 < m /\ m # 0 /\ m \in 1..m
        /\ \A f \in 1..m : f \in 1..m - 1 \/ f = m
        /\ \A f \in 1..m - 1 : f \in 1..m
    OBVIOUS
  <2>2. names(m) \subseteq names(m - 1) \cup {run[m].name}
    BY <2>1
  <2>3. names(m - 1) \cup {run[m].name} \subseteq names(m)
    BY <2>1
  <2> QED
    BY <2>1, <2>2, <2>3
<1>4. \A m \in D : m = 0 \/ m \in 1..n
  OBVIOUS
<1>5. names(0) = {}
  OBVIOUS
<1> HIDE DEF at, names, files
<1>6. ASSUME NEW m \in D
      PROVE  /\ DOMAIN whole(m) = DOMAIN old \cup names(m)
             /\ \A name \in DOMAIN old \cup names(m) :
                  whole(m)[name] = IF name \in names(m) THEN SlotsFor(files[at(name)])
                                                        ELSE old[name]
  BY <1>5
<1>7. ASSUME NEW m \in 1..n PROVE whole(m) = Created(whole(m - 1), run[m], files[m])
  <2> DEFINE N == DOMAIN old \cup names(m)
             c == Created(whole(m - 1), run[m], files[m])
  <2>1. /\ DOMAIN whole(m - 1) = DOMAIN old \cup names(m - 1)
        /\ \A name \in DOMAIN old \cup names(m - 1) :
             whole(m - 1)[name] = IF name \in names(m - 1) THEN SlotsFor(files[at(name)])
                                                           ELSE old[name]
    BY <1>3, <1>6
  <2>2. c = [name \in DOMAIN whole(m - 1) \cup {run[m].name} |->
               IF name = run[m].name THEN SlotsFor(files[m]) ELSE whole(m - 1)[name]]
    BY CreatedFile
  <2>3. N = DOMAIN whole(m - 1) \cup {run[m].name}
    BY <1>3, <2>1
  <2>4. whole(m) = [name \in N |-> IF name \in names(m) THEN SlotsFor(files[at(name)])
                                                        ELSE old[name]]
    BY <1>3
  <2> HIDE DEF N, c, whole
  <2>5. ASSUME NEW name \in N PROVE whole(m)[name] = c[name]
    <3>1. CASE name = run[m].name
      <4>1. name \in names(m) /\ at(name) = m
        BY <1>2, <1>3, <3>1
      <4> QED
        BY <2>2, <2>3, <2>4, <3>1, <4>1
    <3>2. CASE name # run[m].name
      <4>1. name \in names(m) <=> name \in names(m - 1)
        BY <1>3, <3>2
      <4>2. c[name] = whole(m - 1)[name]
        BY <2>2, <2>3, <3>2
      <4> QED
        BY <2>1, <2>3, <2>4, <3>2, <4>1, <4>2
    <3> QED
      BY <3>1, <3>2
  <2>6. c = [name \in N |-> c[name]] /\ whole(m) = [name \in N |-> whole(m)[name]]
    BY <2>2, <2>3, <2>4
  <2> QED
    BY <2>5, <2>6, Zenon DEF c
<1>8. whole(0) = old
  OBVIOUS
<1> HIDE DEF whole
<1>9. g0 = [m \in D |-> E(m, g0)]
  <2>1. \A m \in D : g0[m] = E(m, g0)
    BY <1>3, <1>4, <1>7, <1>8 DEF files
  <2> QED
    BY <2>1, Zenon
<1>10. \A m \in D : g0[m] = whole(m)
  OBVIOUS
<1> HIDE DEF g0, E
<1>11. after = [m \in D |-> E(m, after)]
  BY <1>9, Zenon DEF after, D, E
<1>12. \A m \in D : after[m] = E(m, after)
  BY <1>11, Zenon
<1>13. rank \in [D -> Nat] /\ \A d \in D : rank[d] = d
  OBVIOUS
<1> HIDE DEF rank
<1> DEFINE S == {d \in D : after[d] = whole(d)}
<1>14. ASSUME NEW d \in D, \A y \in D : rank[y] < rank[d] => y \in S PROVE d \in S
  <2>1. CASE d = 0
    BY <1>8, <1>12, <2>1 DEF E
  <2>2. CASE d \in 1..n
    <3>1. after[d - 1] = whole(d - 1) /\ d # 0
      BY <1>3, <1>13, <1>14, <2>2
    <3> QED
      BY <1>7, <1>12, <2>2, <3>1 DEF E, files
  <2> QED
    BY <1>4, <2>1, <2>2
<1> HIDE DEF S, D
<1>15. D \subseteq S
  BY <1>13, <1>14, InductionOnRank
<1>16. after[n] = whole(n) /\ n \in D
  BY <1>15 DEF S, D
<1>17. \A f \in 1..n : run[f].name \in names(n)
  BY DEF names
<1>18. \A name : (\A f \in 1..n : name # run[f].name) => name \notin names(n)
  BY DEF names
<1> DEFINE w == Written(old, run, tuples, n)
<1>19. /\ DOMAIN w = DOMAIN old \cup names(n)
       /\ \A name \in DOMAIN old \cup names(n) :
            w[name] = IF name \in names(n) THEN SlotsFor(files[at(name)]) ELSE old[name]
  BY <1>1, <1>6, <1>16
<1> HIDE DEF w
<1>20. \A f \in 1..n : w[run[f].name] = SlotsFor(files[f])
  BY <1>2, <1>17, <1>19
<1>21. \A name \in DOMAIN old :
         (\A f \in 1..n : name # run[f].name) => w[name] = old[name]
  BY <1>18, <1>19
<1> QED
  BY <1>19, <1>20, <1>21 DEF w, names, files, WrittenIs

(* The same for a sequence that is given by a function of its places.      *)
LEMMA FlattenedMap ==
  ASSUME NEW T, NEW n \in Nat, NEW seqs, seqs = [i \in 1..n |-> seqs[i]],
         \A i \in 1..n : seqs[i] \in Seq(T)
  PROVE  FlattenSeq(seqs) \in Seq(T) /\ Flattens(FlattenSeq(seqs), seqs, n)
<1> DEFINE S == Seq(T)
<1>1. \A i \in 1..n : seqs[i] \in S
  OBVIOUS
<1> HIDE DEF S
<1>2. seqs \in Seq(S) /\ Len(seqs) = n
  BY <1>1
<1> QED
  BY <1>2, Flattened DEF S

-----------------------------------------------------------------------------
(* What the parts promise, said of the instances DiskTree uses.            *)

(* The sort's assumptions hold of the keys and items of this tree.         *)
LEMMA SortAssumed == SortProofs!SortAssumption
  BY PartsAssumption DEF SortProofs!SortAssumption, Sort!SortAssumption

(* So do those of the files.                                               *)
LEMMA TableAssumed == TableProofs!SSTableAssumption
  BY PartsAssumption DEF TableProofs!SSTableAssumption, Table!SSTableAssumption

(* A key is an integer.                                                    *)
LEMMA KeysAreInts == Key \subseteq Int
  BY PartsAssumption DEF Sort!SortAssumption

(* The sort that was proved about is the one the tree uses.                *)
LEMMA SameSort == \A arr : Sort!_Sort(arr) = SortProofs!_Sort(arr)
<1>1. Sort!merge = SortProofs!merge
  BY Zenon DEF Sort!merge, SortProofs!merge, Sort!Tuple, SortProofs!Tuple
<1>2. Sort!mergeSort = SortProofs!mergeSort
  BY <1>1, ZenonT(30) DEF Sort!mergeSort, SortProofs!mergeSort, Sort!Tuple, SortProofs!Tuple
<1>3. \A s : Sort!DropRepeated(s) = SortProofs!DropRepeated(s)
  BY Zenon DEF Sort!DropRepeated, SortProofs!DropRepeated, Sort!Last, SortProofs!Last
<1> QED
  BY <1>2, <1>3 DEF Sort!_Sort, SortProofs!_Sort

(* Level::_Sort: the sorted tuples have the keys of the gathered ones,     *)
(* strictly ascending.                                                     *)
LEMMA SortGives ==
  ASSUME NEW arr \in Seq(Sort!Tuple)
  PROVE  /\ Sort!_Sort(arr) \in Seq(Sort!Tuple)
         /\ KeysIn(Sort!_Sort(arr)) = KeysIn(arr)
         /\ \A i, j \in DOMAIN Sort!_Sort(arr) :
              i < j => Sort!_Sort(arr)[i].key < Sort!_Sort(arr)[j].key
<1>1. arr \in Seq(SortProofs!Tuple)
  BY DEF Sort!Tuple, SortProofs!Tuple
<1>2. /\ SortProofs!_Sort(arr) \in Seq(SortProofs!Tuple)
      /\ SortProofs!Ascends(SortProofs!_Sort(arr))
      /\ SortProofs!KeysOf(SortProofs!_Sort(arr)) = SortProofs!KeysOf(arr)
  BY <1>1, SortAssumed, SortProofs!SortKeepsLeftmost
<1>3. SortProofs!_Sort(arr) \in Seq(Sort!Tuple)
  BY <1>2 DEF Sort!Tuple, SortProofs!Tuple
<1> QED
  BY <1>2, <1>3, SameSort DEF SortProofs!Ascends, SortProofs!KeysOf, KeysIn

(* The place of the i-th tuple of the f-th file among those that are cut.  *)
Place(f, i) == (f - 1) * Table!max_tuples_per_file + i

(* Run::Run: the files of a run, none empty, hold its tuples in order, and *)
(* all of them if the size of a tuple divides that of a file.              *)
LEMMA FilesGive ==
  ASSUME NEW T, NEW tuples \in Seq(T)
  PROVE  LET files == Table!Files(tuples)
         IN  /\ Len(files) \in Nat /\ DOMAIN files = 1..Len(files)
             /\ files \in Seq(Seq(T))
             /\ \A f \in 1..Len(files) :
                  /\ Len(files[f]) \in 1..Table!max_tuples_per_file
                  /\ \A i \in 1..Len(files[f]) :
                       Place(f, i) \in 1..Len(tuples) /\ files[f][i] = tuples[Place(f, i)]
             /\ \A f, g \in 1..Len(files) :
                  \A i \in 1..Len(files[f]), j \in 1..Len(files[g]) :
                    Before(f, i, g, j) => Place(f, i) < Place(g, j)
             /\ SSTSize = Table!max_tuples_per_file * TupleSize =>
                  \A p \in 1..Len(tuples) : \E f \in 1..Len(files) :
                    \E i \in 1..Len(files[f]) : files[f][i] = tuples[p]
<1>1. /\ \A n : Table!files_to_be_created(n) = TableProofs!files_to_be_created(n)
      /\ Table!max_tuples_per_file = TableProofs!max_tuples_per_file
      /\ \A f, i : Place(f, i) = TableProofs!Place(f, i)
  BY DEF Table!files_to_be_created, TableProofs!files_to_be_created,
         Table!Pieces, TableProofs!Pieces, Place, TableProofs!Place,
         Table!max_tuples_per_file, TableProofs!max_tuples_per_file
<1>2. Table!Files(tuples) = TableProofs!Files(tuples)
  BY <1>1 DEF Table!Files, TableProofs!Files, Table!Piece, TableProofs!Piece,
              Table!Least, TableProofs!Least
<1> DEFINE files == Table!Files(tuples)
<1>3. /\ files = TableProofs!Files(tuples)
      /\ TableProofs!files_to_be_created(Len(tuples)) \in Nat
      /\ files \in Seq(Seq(T))
      /\ Len(files) = TableProofs!files_to_be_created(Len(tuples))
      /\ DOMAIN files = 1..Len(files)
  BY <1>2, TableAssumed, TableProofs!FilesInOrder
<1>4. \A f \in 1..Len(files) :
        /\ Len(files[f]) \in 1..Table!max_tuples_per_file
        /\ \A i \in 1..Len(files[f]) :
             Place(f, i) \in 1..Len(tuples) /\ files[f][i] = tuples[Place(f, i)]
  <2>1. \A f \in 1..TableProofs!files_to_be_created(Len(tuples)) :
          /\ Len(TableProofs!Files(tuples)[f]) \in 1..TableProofs!max_tuples_per_file
          /\ \A i \in 1..Len(TableProofs!Files(tuples)[f]) :
               /\ TableProofs!Place(f, i) \in 1..Len(tuples)
               /\ TableProofs!Files(tuples)[f][i] = tuples[TableProofs!Place(f, i)]
    BY TableAssumed, TableProofs!FilesInOrder
  <2> HIDE DEF files
  <2> QED
    BY <1>1, <1>3, <2>1
<1>5. \A f, g \in 1..Len(files) :
        \A i \in 1..Len(files[f]), j \in 1..Len(files[g]) :
          Before(f, i, g, j) => Place(f, i) < Place(g, j)
  BY <1>1, <1>3, TableAssumed, TableProofs!FilesInOrder DEF Before
<1>6. ASSUME SSTSize = Table!max_tuples_per_file * TupleSize, NEW p \in 1..Len(tuples)
      PROVE  \E f \in 1..Len(files) : \E i \in 1..Len(files[f]) : files[f][i] = tuples[p]
  <2>1. SSTSize = TableProofs!max_tuples_per_file * TupleSize
    BY <1>1, <1>6
  <2>2. \E f \in 1..TableProofs!files_to_be_created(Len(tuples)) :
          \E i \in 1..Len(TableProofs!Files(tuples)[f]) :
            TableProofs!Files(tuples)[f][i] = tuples[p]
    BY <2>1, TableAssumed, TableProofs!FilesHoldAll
  <2> HIDE DEF files
  <2> QED
    BY <1>3, <2>2
<1> HIDE DEF files
<1> QED
  BY <1>3, <1>4, <1>5, <1>6 DEF files

-----------------------------------------------------------------------------
(* The inductive invariant.  Each live file is on disk under the name its  *)
(* place gives it and holds what it was created with, and the keys of a    *)
(* run ascend across its files.                                            *)

Name == Int \X Int \X Int

File == [name : Name, keys : Seq(Key)]

RunOfFiles == Seq(File)

LevelOfRuns == Seq(RunOfFiles)

(* What is on disk under the name of a file is what it was created with.   *)
IsOnDisk(dsk, file) ==
  /\ file.name \in DOMAIN dsk
  /\ dsk[file.name] \in Seq(Slots)
  /\ [i \in DOMAIN dsk[file.name] |-> dsk[file.name][i].key] = file.keys
  /\ Len(file.keys) \in 1..Table!max_tuples_per_file

(* Every file has the name its place in the tree gives it                  *)
(* (Run::AddNewFMD).                                                       *)
AllInPlace(lvls) ==
  \A l \in 1..Len(lvls) : \A r \in 1..Len(lvls[l]) : \A f \in 1..Len(lvls[l][r]) :
    lvls[l][r][f].name = <<l - 1, r - 1, f - 1>>

AllOnDisk(lvls, dsk) ==
  \A l \in 1..Len(lvls) : \A r \in 1..Len(lvls[l]) : \A f \in 1..Len(lvls[l][r]) :
    IsOnDisk(dsk, lvls[l][r][f])

(* The keys of a run ascend within its files and from one to the next.     *)
KeysAscend(run) ==
  \A f, g \in 1..Len(run) : \A i \in 1..Len(run[f].keys), j \in 1..Len(run[g].keys) :
    Before(f, i, g, j) => run[f].keys[i] < run[g].keys[j]

AllAscend(lvls) ==
  \A l \in 1..Len(lvls) : \A r \in 1..Len(lvls[l]) : KeysAscend(lvls[l][r])

DiskInv ==
  /\ buf \in Seq(Sort!Tuple)
  /\ levels \in Seq(LevelOfRuns)
  /\ AllInPlace(levels)
  /\ AllOnDisk(levels, disk)
  /\ AllAscend(levels)

(* The lengths and the elements of levels, of their runs and of the files. *)
LEMMA LevelFacts ==
  ASSUME NEW lvls \in Seq(LevelOfRuns)
  PROVE  /\ Len(lvls) \in Nat /\ DOMAIN lvls = 1..Len(lvls)
         /\ \A l \in 1..Len(lvls) :
              /\ lvls[l] \in LevelOfRuns
              /\ Len(lvls[l]) \in Nat /\ DOMAIN lvls[l] = 1..Len(lvls[l])
              /\ \A r \in 1..Len(lvls[l]) :
                   /\ lvls[l][r] \in RunOfFiles
                   /\ Len(lvls[l][r]) \in Nat /\ DOMAIN lvls[l][r] = 1..Len(lvls[l][r])
                   /\ \A f \in 1..Len(lvls[l][r]) :
                        /\ lvls[l][r][f] \in File
                        /\ lvls[l][r][f].keys \in Seq(Key)
                        /\ lvls[l][r][f].name \in Name
<1>1. /\ Len(lvls) \in Nat /\ DOMAIN lvls = 1..Len(lvls)
      /\ \A l \in 1..Len(lvls) : lvls[l] \in LevelOfRuns
  OBVIOUS
<1>2. ASSUME NEW level \in LevelOfRuns
      PROVE  /\ Len(level) \in Nat /\ DOMAIN level = 1..Len(level)
             /\ \A r \in 1..Len(level) : level[r] \in RunOfFiles
  BY DEF LevelOfRuns
<1>3. ASSUME NEW run \in RunOfFiles
      PROVE  /\ Len(run) \in Nat /\ DOMAIN run = 1..Len(run)
             /\ \A f \in 1..Len(run) : run[f] \in File
  BY DEF RunOfFiles
<1>4. \A file \in File : file.keys \in Seq(Key) /\ file.name \in Name
  BY DEF File
<1> QED
  BY <1>1, <1>2, <1>3, <1>4

(* A live run is at a place of some level.                                 *)
LEMMA LiveRunsAre ==
  ASSUME levels \in Seq(LevelOfRuns), NEW p
  PROVE  p \in LiveRuns <=>
           \E l \in 1..Len(levels) : \E r \in 1..Len(levels[l]) : p = <<l, r>>
<1>1. /\ DOMAIN levels = 1..Len(levels)
      /\ \A l \in 1..Len(levels) : DOMAIN levels[l] = 1..Len(levels[l])
  BY LevelFacts
<1> QED
  BY <1>1 DEF LiveRuns

(* The invariant says what FilesAreWhole says of its part of it.           *)
LEMMA InvFilesAreWhole ==
  ASSUME DiskInv
  PROVE  FilesAreWhole
<1>1. levels \in Seq(LevelOfRuns) /\ AllInPlace(levels) /\ AllOnDisk(levels, disk)
  BY DEF DiskInv
<1> DEFINE Whole(run, l, r) ==
             \A f \in DOMAIN run :
               /\ run[f].name = <<l - 1, r - 1, f - 1>>
               /\ run[f].name \in DOMAIN disk
               /\ disk[run[f].name] \in Seq(Slots)
               /\ [i \in DOMAIN disk[run[f].name] |-> disk[run[f].name][i].key] = run[f].keys
               /\ Len(run[f].keys) \in 1..Table!max_tuples_per_file
<1> SUFFICES ASSUME NEW p \in LiveRuns
             PROVE  Whole(levels[p[1]][p[2]], p[1], p[2])
  BY DEF FilesAreWhole
<1>2. PICK l \in 1..Len(levels) : \E x \in 1..Len(levels[l]) : p = <<l, x>>
  BY <1>1, LiveRunsAre
<1> PICK r \in 1..Len(levels[l]) : p = <<l, r>>
  BY <1>2
<1>3. /\ p[1] = l /\ p[2] = r /\ levels[p[1]][p[2]] = levels[l][r]
      /\ DOMAIN levels[l][r] = 1..Len(levels[l][r])
  BY <1>1, LevelFacts
<1>4. \A f \in 1..Len(levels[l][r]) : /\ levels[l][r][f].name = <<l - 1, r - 1, f - 1>>
                                      /\ IsOnDisk(disk, levels[l][r][f])
  BY <1>1 DEF AllInPlace, AllOnDisk
<1>5. Whole(levels[l][r], l, r)
  <2> DEFINE run == levels[l][r]
  <2>1. /\ DOMAIN run = 1..Len(run)
        /\ \A f \in 1..Len(run) : run[f].name = <<l - 1, r - 1, f - 1>> /\ IsOnDisk(disk, run[f])
    BY <1>3, <1>4
  <2> HIDE DEF run
  <2>2. Whole(run, l, r)
    BY <2>1, Zenon DEF IsOnDisk
  <2> QED
    BY <2>2 DEF run
<1> HIDE DEF Whole
<1> QED
  BY <1>3, <1>5

-----------------------------------------------------------------------------
(* What is read of the files of the tree.                                  *)

(* On disk a file has a slot for each key it was created with.             *)
LEMMA OnDiskFile ==
  ASSUME NEW dsk, NEW file \in File, IsOnDisk(dsk, file)
  PROVE  /\ dsk[file.name] \in Seq(Slots)
         /\ Len(dsk[file.name]) = Len(file.keys) /\ Len(file.keys) \in Nat
         /\ \A i \in 1..Len(file.keys) :
              dsk[file.name][i] \in Slots /\ dsk[file.name][i].key = file.keys[i]
         /\ SubSeq(dsk[file.name], 1, Len(file.keys)) = dsk[file.name]
<1> DEFINE stored == dsk[file.name]
           n == Len(file.keys)
<1>1. /\ stored \in Seq(Slots) /\ file.keys \in Seq(Key) /\ n \in Nat
      /\ [i \in DOMAIN stored |-> stored[i].key] = file.keys
  BY DEF IsOnDisk, File
<1> HIDE DEF stored, n
<1>2. DOMAIN stored = 1..Len(stored) /\ Len(stored) \in Nat
  BY <1>1
<1>3. DOMAIN file.keys = 1..n
  BY <1>1 DEF n
<1>4. 1..Len(stored) = 1..n
  BY <1>1, <1>2, <1>3
<1>5. Len(stored) = n
  <2>1. CASE Len(stored) < n
    <3>1. n \in 1..n /\ n \notin 1..Len(stored)
      BY <1>1, <1>2, <2>1
    <3> QED
      BY <1>4, <3>1
  <2>2. CASE n < Len(stored)
    <3>1. Len(stored) \in 1..Len(stored) /\ Len(stored) \notin 1..n
      BY <1>1, <1>2, <2>2
    <3> QED
      BY <1>4, <3>1
  <2>3. n \in Nat /\ Len(stored) \in Nat
    BY <1>1, <1>2
  <2>4. Len(stored) < n \/ n < Len(stored) \/ Len(stored) = n
    BY <2>3
  <2> QED
    BY <2>1, <2>2, <2>4
<1>6. \A i \in 1..n : stored[i] \in Slots /\ stored[i].key = file.keys[i]
  BY <1>1, <1>2, <1>5
<1>7. SubSeq(stored, 1, n) = stored
  BY <1>1, <1>5, SubSeqFull
<1> QED
  BY <1>1, <1>5, <1>6, <1>7 DEF stored, n

(* FileMetaData::GetAllTuples reads a tuple for each key of a file on      *)
(* disk.                                                                   *)
LEMMA FileReads ==
  ASSUME NEW file \in File, IsOnDisk(disk, file)
  PROVE  /\ FileTuples(file) \in Seq(Sort!Tuple)
         /\ Len(FileTuples(file)) = Len(file.keys)
         /\ \A i \in 1..Len(file.keys) :
              /\ FileTuples(file)[i].key = file.keys[i]
              /\ FileTuples(file)[i].items = Read2Tuple(disk[file.name][i].slot)
<1> DEFINE stored == disk[file.name]
           n == Len(file.keys)
<1>1. /\ stored \in Seq(Slots) /\ Len(stored) = n /\ n \in Nat
      /\ SubSeq(stored, 1, n) = stored
  BY OnDiskFile
<1>2. \A i \in 1..n : stored[i] \in Slots /\ stored[i].key = file.keys[i]
  BY OnDiskFile
<1>3. SlotsOf(file) = stored
  BY <1>1 DEF SlotsOf
<1>4. \A s \in Slots : s.key \in Key /\ Read2Tuple(s.slot) \in Seq(Word)
  BY Read2TupleType DEF Slots
<1> DEFINE read == FileTuples(file)
<1>5. read = [i \in 1..n |-> [key |-> stored[i].key, items |-> Read2Tuple(stored[i].slot)]]
  BY <1>1, <1>2, <1>3 DEF FileTuples
<1> HIDE DEF stored, n, read
<1>6. ASSUME NEW i \in 1..n
      PROVE  /\ read[i] \in Sort!Tuple /\ read[i].key = file.keys[i]
             /\ read[i].items = Read2Tuple(stored[i].slot)
  <2>1. read[i] = [key |-> stored[i].key, items |-> Read2Tuple(stored[i].slot)]
    BY <1>5
  <2>2. stored[i].key \in Key /\ Read2Tuple(stored[i].slot) \in Seq(Word)
    BY <1>2, <1>4
  <2> QED
    BY <1>2, <2>1, <2>2 DEF Sort!Tuple
<1>7. read \in Seq(Sort!Tuple) /\ Len(read) = n
  BY <1>1, <1>5, <1>6
<1> QED
  BY <1>6, <1>7 DEF read, n, stored

(* Run::GetAllTuples.                                                      *)
LEMMA RunReads ==
  ASSUME NEW run \in RunOfFiles, \A f \in 1..Len(run) : IsOnDisk(disk, run[f])
  PROVE  /\ RunTuples(run) \in Seq(Sort!Tuple)
         /\ KeysIn(RunTuples(run)) =
              UNION {{run[f].keys[i] : i \in 1..Len(run[f].keys)} : f \in 1..Len(run)}
         /\ KeysAscend(run) => \A p, q \in DOMAIN RunTuples(run) :
              p < q => RunTuples(run)[p].key < RunTuples(run)[q].key
<1> DEFINE n == Len(run)
           files == [f \in DOMAIN run |-> FileTuples(run[f])]
           s == RunTuples(run)
<1>1. n \in Nat /\ DOMAIN run = 1..n /\ \A f \in 1..n : run[f] \in File
  BY DEF RunOfFiles
<1>2. ASSUME NEW f \in 1..n
      PROVE  /\ FileTuples(run[f]) \in Seq(Sort!Tuple)
             /\ Len(FileTuples(run[f])) = Len(run[f].keys)
             /\ \A i \in 1..Len(run[f].keys) : FileTuples(run[f])[i].key = run[f].keys[i]
  BY <1>1, FileReads
<1>3. s = FlattenSeq(files)
  BY DEF RunTuples
<1>4. files = [f \in 1..n |-> files[f]] /\ \A f \in 1..n : files[f] = FileTuples(run[f])
  BY <1>1
<1> HIDE DEF n, files, s
<1>5. \A f \in 1..n : /\ files[f] \in Seq(Sort!Tuple) /\ Len(files[f]) = Len(run[f].keys)
                      /\ \A i \in 1..Len(run[f].keys) : files[f][i].key = run[f].keys[i]
  BY <1>2, <1>4
<1>6. s \in Seq(Sort!Tuple) /\ Flattens(s, files, n)
  BY <1>1, <1>3, <1>4, <1>5, FlattenedMap
<1>7. DOMAIN s = 1..Len(s)
  BY <1>6
<1>8. ASSUME NEW p \in 1..Len(s)
      PROVE  \E f \in 1..n : \E i \in 1..Len(run[f].keys) : s[p].key = run[f].keys[i]
  <2>1. PICK f \in 1..n : \E i \in 1..Len(files[f]) : s[p] = files[f][i]
    BY <1>6 DEF Flattens
  <2>2. PICK i \in 1..Len(files[f]) : s[p] = files[f][i]
    BY <2>1
  <2>3. i \in 1..Len(run[f].keys) /\ s[p].key = run[f].keys[i]
    BY <1>5, <2>2
  <2> QED
    BY <2>3
<1>9. ASSUME NEW f \in 1..n, NEW i \in 1..Len(run[f].keys)
      PROVE  \E p \in 1..Len(s) : s[p].key = run[f].keys[i]
  <2>1. i \in 1..Len(files[f]) /\ files[f][i].key = run[f].keys[i]
    BY <1>5
  <2>2. PICK p \in 1..Len(s) : s[p] = files[f][i]
    BY <1>6, <2>1 DEF Flattens
  <2> QED
    BY <2>1, <2>2
<1>10. KeysIn(s) = UNION {{run[f].keys[i] : i \in 1..Len(run[f].keys)} : f \in 1..n}
  <2>1. ASSUME NEW k \in KeysIn(s)
        PROVE  k \in UNION {{run[f].keys[i] : i \in 1..Len(run[f].keys)} : f \in 1..n}
    <3>1. PICK p \in 1..Len(s) : k = s[p].key
      BY <1>7, <2>1 DEF KeysIn
    <3>2. PICK f \in 1..n : \E i \in 1..Len(run[f].keys) : s[p].key = run[f].keys[i]
      BY <1>8
    <3> QED
      BY <3>1, <3>2
  <2>2. ASSUME NEW k \in UNION {{run[f].keys[i] : i \in 1..Len(run[f].keys)} : f \in 1..n}
        PROVE  k \in KeysIn(s)
    <3>1. PICK f \in 1..n : \E i \in 1..Len(run[f].keys) : k = run[f].keys[i]
      BY <2>2
    <3>2. PICK p \in 1..Len(s) : s[p].key = k
      BY <1>9, <3>1
    <3> QED
      BY <1>7, <3>2 DEF KeysIn
  <2> QED
    BY <2>1, <2>2
<1>11. ASSUME KeysAscend(run), NEW p \in 1..Len(s), NEW q \in 1..Len(s), p < q
       PROVE  s[p].key < s[q].key
  <2>1. PICK f \in 1..n, g \in 1..n : \E i \in 1..Len(files[f]) : \E j \in 1..Len(files[g]) :
          s[p] = files[f][i] /\ s[q] = files[g][j] /\ Before(f, i, g, j)
    BY <1>6, <1>11 DEF Flattens
  <2>2. PICK i \in 1..Len(files[f]), j \in 1..Len(files[g]) :
          s[p] = files[f][i] /\ s[q] = files[g][j] /\ Before(f, i, g, j)
    BY <2>1
  <2>3. /\ i \in 1..Len(run[f].keys) /\ j \in 1..Len(run[g].keys)
        /\ s[p].key = run[f].keys[i] /\ s[q].key = run[g].keys[j]
    BY <1>5, <2>2
  <2>4. run[f].keys[i] < run[g].keys[j]
    BY <1>11, <2>2, <2>3 DEF KeysAscend, n
  <2> QED
    BY <2>3, <2>4
<1> QED
  BY <1>6, <1>7, <1>10, <1>11 DEF s, n

(* The invariant says what RunsAscendAcrossFiles says of what is read.     *)
LEMMA InvRunsAscend ==
  ASSUME DiskInv
  PROVE  RunsAscendAcrossFiles
<1>1. levels \in Seq(LevelOfRuns) /\ AllOnDisk(levels, disk) /\ AllAscend(levels)
  BY DEF DiskInv
<1> SUFFICES ASSUME NEW p \in LiveRuns
             PROVE  LET tuples == RunTuples(levels[p[1]][p[2]])
                    IN  \A i, j \in DOMAIN tuples : i < j => tuples[i].key < tuples[j].key
  BY DEF RunsAscendAcrossFiles
<1>2. PICK l \in 1..Len(levels) : \E x \in 1..Len(levels[l]) : p = <<l, x>>
  BY <1>1, LiveRunsAre
<1> PICK r \in 1..Len(levels[l]) : p = <<l, r>>
  BY <1>2
<1>3. p[1] = l /\ p[2] = r
  OBVIOUS
<1>4. /\ levels[l][r] \in RunOfFiles /\ KeysAscend(levels[l][r])
      /\ \A f \in 1..Len(levels[l][r]) : IsOnDisk(disk, levels[l][r][f])
  BY <1>1, LevelFacts DEF AllOnDisk, AllAscend
<1> QED
  BY <1>3, <1>4, RunReads

(* The keys that the files of a run, or of a level, were created with.     *)
KeysOfRun(run) == UNION {{run[f].keys[i] : i \in 1..Len(run[f].keys)} : f \in 1..Len(run)}

KeysOfLevel(level) == UNION {KeysOfRun(level[r]) : r \in 1..Len(level)}

(* The keys of tuples put one after the other.                             *)
LEMMA FlattenedKeys ==
  ASSUME NEW n \in Nat, NEW seqs, seqs = [i \in 1..n |-> seqs[i]],
         \A i \in 1..n : seqs[i] \in Seq(Sort!Tuple)
  PROVE  /\ FlattenSeq(seqs) \in Seq(Sort!Tuple)
         /\ KeysIn(FlattenSeq(seqs)) = UNION {KeysIn(seqs[i]) : i \in 1..n}
<1> DEFINE s == FlattenSeq(seqs)
<1>1. s \in Seq(Sort!Tuple) /\ Flattens(s, seqs, n)
  BY FlattenedMap
<1> HIDE DEF s
<1>2. DOMAIN s = 1..Len(s) /\ \A i \in 1..n : DOMAIN seqs[i] = 1..Len(seqs[i])
  BY <1>1
<1>3. ASSUME NEW p \in 1..Len(s) PROVE \E i \in 1..n : s[p].key \in KeysIn(seqs[i])
  <2>1. PICK i \in 1..n : \E j \in 1..Len(seqs[i]) : s[p] = seqs[i][j]
    BY <1>1 DEF Flattens
  <2> QED
    BY <1>2, <2>1 DEF KeysIn
<1>4. ASSUME NEW i \in 1..n, NEW j \in 1..Len(seqs[i]) PROVE seqs[i][j].key \in KeysIn(s)
  <2>1. PICK p \in 1..Len(s) : s[p] = seqs[i][j]
    BY <1>1 DEF Flattens
  <2> QED
    BY <1>2, <2>1 DEF KeysIn
<1>5. KeysIn(s) \subseteq UNION {KeysIn(seqs[i]) : i \in 1..n}
  BY <1>2, <1>3, SMTT(30) DEF KeysIn
<1>6. \A i \in 1..n : KeysIn(seqs[i]) \subseteq KeysIn(s)
  BY <1>2, <1>4 DEF KeysIn
<1> QED
  BY <1>1, <1>5, <1>6 DEF s

(* Level::_AddMergeRuns.                                                   *)
LEMMA LevelReads ==
  ASSUME NEW level \in LevelOfRuns,
         \A r \in 1..Len(level) : \A f \in 1..Len(level[r]) : IsOnDisk(disk, level[r][f])
  PROVE  /\ LevelTuples(level) \in Seq(Sort!Tuple)
         /\ KeysIn(LevelTuples(level)) = KeysOfLevel(level)
<1> DEFINE n == Len(level)
           runs == [r \in DOMAIN level |-> RunTuples(Reverse(level)[r])]
<1>1. n \in Nat /\ DOMAIN level = 1..n /\ \A r \in 1..n : level[r] \in RunOfFiles
  BY DEF LevelOfRuns
<1>2. \A r \in 1..n : /\ RunTuples(level[r]) \in Seq(Sort!Tuple)
                      /\ KeysIn(RunTuples(level[r])) = KeysOfRun(level[r])
  BY <1>1, RunReads DEF KeysOfRun
<1>3. LevelTuples(level) = FlattenSeq(runs)
  BY DEF LevelTuples
<1>4. \A r \in 1..n : n - r + 1 \in 1..n /\ Reverse(level)[r] = level[n - r + 1]
  BY <1>1 DEF Reverse
<1>5. runs = [r \in 1..n |-> runs[r]] /\ \A r \in 1..n : runs[r] = RunTuples(level[n - r + 1])
  BY <1>1, <1>4
<1> HIDE DEF runs, n
<1>6. /\ FlattenSeq(runs) \in Seq(Sort!Tuple)
      /\ KeysIn(FlattenSeq(runs)) = UNION {KeysIn(runs[r]) : r \in 1..n}
  <2>1. \A r \in 1..n : runs[r] \in Seq(Sort!Tuple)
    BY <1>2, <1>4, <1>5
  <2> QED
    BY <1>1, <1>5, <2>1, FlattenedKeys
<1>7. \A r \in 1..n : KeysIn(runs[r]) = KeysOfRun(level[n - r + 1])
  BY <1>2, <1>4, <1>5
<1>8. UNION {KeysIn(runs[r]) : r \in 1..n} = KeysOfLevel(level)
  <2>1. ASSUME NEW r \in 1..n PROVE KeysIn(runs[r]) \subseteq KeysOfLevel(level)
    BY <1>4, <1>7 DEF KeysOfLevel, n
  <2>2. ASSUME NEW r \in 1..n PROVE \E q \in 1..n : KeysOfRun(level[r]) = KeysIn(runs[q])
    <3>1. n - r + 1 \in 1..n /\ n - (n - r + 1) + 1 = r
      BY <1>1
    <3> QED
      BY <1>7, <3>1
  <2>3. KeysOfLevel(level) = UNION {KeysOfRun(level[r]) : r \in 1..n}
    BY DEF KeysOfLevel, n
  <2> QED
    BY <2>1, <2>2, <2>3
<1> QED
  BY <1>3, <1>6, <1>8

(* The buffer from its back.                                               *)
LEMMA BufferReads ==
  ASSUME buf \in Seq(Sort!Tuple)
  PROVE  Reverse(buf) \in Seq(Sort!Tuple) /\ KeysIn(Reverse(buf)) = KeysIn(buf)
<1> DEFINE n == Len(buf)
           b == Reverse(buf)
<1>1. n \in Nat /\ DOMAIN buf = 1..n /\ \A i \in 1..n : buf[i] \in Sort!Tuple
  OBVIOUS
<1>2. \A i \in 1..n : n - i + 1 \in 1..n /\ n - (n - i + 1) + 1 = i
  BY <1>1
<1>3. b = [i \in 1..n |-> buf[n - i + 1]]
  BY DEF Reverse
<1> HIDE DEF n, b
<1>4. b \in Seq(Sort!Tuple) /\ DOMAIN b = 1..n /\ \A i \in 1..n : b[i] = buf[n - i + 1]
  BY <1>1, <1>2, <1>3
<1>5. \A i \in 1..n : b[n - i + 1] = buf[i]
  BY <1>2, <1>4
<1>6. KeysIn(b) \subseteq KeysIn(buf)
  BY <1>1, <1>2, <1>4 DEF KeysIn
<1>7. KeysIn(buf) \subseteq KeysIn(b)
  BY <1>1, <1>2, <1>4, <1>5 DEF KeysIn
<1> QED
  BY <1>4, <1>6, <1>7 DEF b

(* What LSM_T::Insert has gathered when it comes to the target.            *)
LEMMA GatheredReads ==
  ASSUME DiskInv, NEW t \in Nat \ {0}, t <= Len(levels) + 1
  PROVE  /\ Gathered(t) \in Seq(Sort!Tuple)
         /\ KeysIn(Gathered(t)) =
              KeysIn(buf) \cup UNION {KeysOfLevel(levels[l]) : l \in 1..t - 1}
<1> DEFINE above == [l \in 1..t - 1 |-> LevelTuples(levels[l])]
           a == FlattenSeq(above)
           b == Reverse(buf)
<1>1. /\ buf \in Seq(Sort!Tuple) /\ levels \in Seq(LevelOfRuns) /\ AllOnDisk(levels, disk)
      /\ Len(levels) \in Nat /\ t - 1 \in Nat
      /\ \A l \in 1..t - 1 : l \in 1..Len(levels)
  BY DEF DiskInv
<1>2. ASSUME NEW l \in 1..t - 1
      PROVE  /\ above[l] \in Seq(Sort!Tuple)
             /\ KeysIn(above[l]) = KeysOfLevel(levels[l])
  <2>1. /\ levels[l] \in LevelOfRuns
        /\ \A r \in 1..Len(levels[l]) : \A f \in 1..Len(levels[l][r]) :
             IsOnDisk(disk, levels[l][r][f])
    <3>1. l \in 1..Len(levels)
      BY <1>1
    <3>2. levels[l] \in LevelOfRuns
      BY <1>1, <3>1
    <3> QED
      BY <1>1, <3>1, <3>2 DEF AllOnDisk
  <2>2. above[l] = LevelTuples(levels[l])
    OBVIOUS
  <2> QED
    BY <2>1, <2>2, LevelReads
<1>3. above = [l \in 1..t - 1 |-> above[l]]
  OBVIOUS
<1>4. Gathered(t) = b \o a
  BY DEF Gathered
<1> HIDE DEF above, a, b
<1>5. a \in Seq(Sort!Tuple) /\ KeysIn(a) = UNION {KeysIn(above[l]) : l \in 1..t - 1}
  BY <1>1, <1>2, <1>3, FlattenedKeys DEF a
<1>6. KeysIn(a) = UNION {KeysOfLevel(levels[l]) : l \in 1..t - 1}
  BY <1>2, <1>5
<1>7. b \in Seq(Sort!Tuple) /\ KeysIn(b) = KeysIn(buf)
  BY <1>1, BufferReads DEF b
<1>8. b \o a \in Seq(Sort!Tuple) /\ KeysIn(b \o a) = KeysIn(b) \cup KeysIn(a)
  <2> DEFINE s == b \o a
             n == Len(b)
             m == Len(a)
  <2>1. /\ s \in Seq(Sort!Tuple) /\ DOMAIN s = 1..n + m /\ DOMAIN b = 1..n /\ DOMAIN a = 1..m
        /\ n \in Nat /\ m \in Nat
        /\ \A i \in 1..n : s[i] = b[i] /\ i \in 1..n + m
        /\ \A i \in 1..m : s[n + i] = a[i] /\ n + i \in 1..n + m
    BY <1>5, <1>7
  <2> HIDE DEF s, n, m
  <2>2. \A i \in 1..n + m : i \in 1..n \/ (i - n \in 1..m /\ n + (i - n) = i)
    BY <2>1
  <2>3. KeysIn(b) \subseteq KeysIn(s) /\ KeysIn(a) \subseteq KeysIn(s)
    BY <2>1, SMTT(30) DEF KeysIn
  <2>4. ASSUME NEW i \in 1..n + m PROVE s[i].key \in KeysIn(b) \cup KeysIn(a)
    <3>1. CASE i \in 1..n
      BY <2>1, <3>1 DEF KeysIn
    <3>2. CASE i - n \in 1..m /\ n + (i - n) = i
      <4>1. s[i] = a[i - n]
        BY <2>1, <3>2
      <4> QED
        BY <2>1, <3>2, <4>1 DEF KeysIn
    <3> QED
      BY <2>2, <3>1, <3>2
  <2>5. KeysIn(s) \subseteq KeysIn(b) \cup KeysIn(a)
    BY <2>1, <2>4 DEF KeysIn
  <2> QED
    BY <2>1, <2>3, <2>5 DEF s
<1> QED
  BY <1>4, <1>6, <1>7, <1>8

(* A file of some levels has this name.                                    *)
NamesFile(lvls, name) ==
  \E l \in 1..Len(lvls) : \E r \in 1..Len(lvls[l]) : \E f \in 1..Len(lvls[l][r]) :
    name = lvls[l][r][f].name

(* The names that are deleted are those of the files, and of all of them.  *)
LEMMA NamesAreOfFiles ==
  ASSUME NEW lvls \in Seq(LevelOfRuns), NEW name
  PROVE  name \in Range(NamesIn(lvls)) <=> NamesFile(lvls, name)
<1> DEFINE N(l) == FlattenSeq([r \in DOMAIN lvls[l] |-> Names(lvls[l][r])])
           all == [l \in DOMAIN lvls |-> N(l)]
<1>1. Len(lvls) \in Nat /\ DOMAIN lvls = 1..Len(lvls)
  OBVIOUS
<1>2. ASSUME NEW l \in 1..Len(lvls)
      PROVE  /\ N(l) \in Seq(Name)
             /\ \A p \in 1..Len(N(l)) : \E r \in 1..Len(lvls[l]) : \E f \in 1..Len(lvls[l][r]) :
                  N(l)[p] = lvls[l][r][f].name
             /\ \A r \in 1..Len(lvls[l]) : \A f \in 1..Len(lvls[l][r]) : \E p \in 1..Len(N(l)) :
                  N(l)[p] = lvls[l][r][f].name
  <2> DEFINE n == Len(lvls[l])
             seqs == [r \in DOMAIN lvls[l] |-> Names(lvls[l][r])]
  <2>1. n \in Nat /\ DOMAIN lvls[l] = 1..n
    BY LevelFacts
  <2>2. ASSUME NEW r \in 1..n
        PROVE  /\ Names(lvls[l][r]) \in Seq(Name)
               /\ Len(Names(lvls[l][r])) = Len(lvls[l][r])
               /\ \A f \in 1..Len(lvls[l][r]) : Names(lvls[l][r])[f] = lvls[l][r][f].name
    <3> DEFINE run == lvls[l][r]
    <3>1. /\ Len(run) \in Nat /\ DOMAIN run = 1..Len(run)
          /\ \A f \in 1..Len(run) : run[f].name \in Name
      BY LevelFacts
    <3> HIDE DEF run
    <3>2. Names(run) = [f \in 1..Len(run) |-> run[f].name]
      BY <3>1 DEF Names
    <3>3. Names(run) \in Seq(Name) /\ Len(Names(run)) = Len(run)
      BY <3>1, <3>2
    <3> QED
      BY <3>2, <3>3 DEF run
  <2>3. seqs = [r \in 1..n |-> seqs[r]] /\ \A r \in 1..n : seqs[r] = Names(lvls[l][r])
    BY <2>1
  <2>4. N(l) = FlattenSeq(seqs)
    OBVIOUS
  <2> HIDE DEF n, seqs, N
  <2>5. N(l) \in Seq(Name) /\ Flattens(N(l), seqs, n)
    <3> DEFINE T == Name
    <3>1. \A r \in 1..n : seqs[r] \in Seq(T)
      BY <2>2, <2>3
    <3>2. seqs = [r \in 1..n |-> seqs[r]]
      BY <2>3
    <3> HIDE DEF T
    <3>3. FlattenSeq(seqs) \in Seq(T) /\ Flattens(FlattenSeq(seqs), seqs, n)
      BY <2>1, <3>1, <3>2, FlattenedMap
    <3> QED
      BY <2>4, <3>3 DEF T
  <2>6. ASSUME NEW p \in 1..Len(N(l))
        PROVE  \E r \in 1..n : \E f \in 1..Len(lvls[l][r]) : N(l)[p] = lvls[l][r][f].name
    <3>1. PICK r \in 1..n : \E f \in 1..Len(seqs[r]) : N(l)[p] = seqs[r][f]
      BY <2>5 DEF Flattens
    <3>2. PICK f \in 1..Len(seqs[r]) : N(l)[p] = seqs[r][f]
      BY <3>1
    <3>3. f \in 1..Len(lvls[l][r]) /\ N(l)[p] = lvls[l][r][f].name
      BY <2>2, <2>3, <3>2
    <3> QED
      BY <3>3
  <2>7. ASSUME NEW r \in 1..n, NEW f \in 1..Len(lvls[l][r])
        PROVE  \E p \in 1..Len(N(l)) : N(l)[p] = lvls[l][r][f].name
    <3>1. f \in 1..Len(seqs[r]) /\ seqs[r][f] = lvls[l][r][f].name
      BY <2>2, <2>3
    <3> QED
      BY <2>5, <3>1 DEF Flattens
  <2> QED
    BY <2>5, <2>6, <2>7 DEF n
<1>3. NamesIn(lvls) = FlattenSeq(all)
  BY DEF NamesIn
<1>4. all = [l \in 1..Len(lvls) |-> all[l]] /\ \A l \in 1..Len(lvls) : all[l] = N(l)
  BY <1>1
<1> HIDE DEF all, N
<1> DEFINE s == NamesIn(lvls)
<1>5. s \in Seq(Name) /\ Flattens(s, all, Len(lvls))
  <2>1. \A l \in 1..Len(lvls) : all[l] \in Seq(Name)
    BY <1>2, <1>4
  <2>2. FlattenSeq(all) \in Seq(Name) /\ Flattens(FlattenSeq(all), all, Len(lvls))
    BY <1>1, <1>4, <2>1, FlattenedMap
  <2> QED
    BY <1>3, <2>2
<1> HIDE DEF s
<1>6. ASSUME name \in Range(s) PROVE NamesFile(lvls, name)
  <2>1. PICK p \in 1..Len(s) : name = s[p]
    BY <1>5, <1>6 DEF Range
  <2>2. PICK l \in 1..Len(lvls) : \E q \in 1..Len(all[l]) : s[p] = all[l][q]
    BY <1>5 DEF Flattens
  <2>3. PICK q \in 1..Len(N(l)) : name = N(l)[q]
    BY <1>4, <2>1, <2>2
  <2> QED
    BY <1>2, <2>3 DEF NamesFile
<1>7. ASSUME NEW l \in 1..Len(lvls), NEW r \in 1..Len(lvls[l]), NEW f \in 1..Len(lvls[l][r])
      PROVE  lvls[l][r][f].name \in Range(s)
  <2>1. all[l] = N(l)
    BY <1>4
  <2>2. PICK q \in 1..Len(N(l)) : N(l)[q] = lvls[l][r][f].name
    BY <1>2
  <2>3. PICK p \in 1..Len(s) : s[p] = all[l][q]
    BY <1>5, <2>1, <2>2 DEF Flattens
  <2> QED
    BY <1>5, <2>1, <2>2, <2>3 DEF Range
<1> QED
  BY <1>6, <1>7 DEF s, NamesFile

-----------------------------------------------------------------------------
(* The run a flush writes.                                                 *)

(* The files of a run have the names of their places, are neither empty    *)
(* nor too long, and are of the keys of these tuples.                      *)
FilesMade(run, files, t, id) ==
  /\ Len(run) = Len(files)
  /\ \A f \in 1..Len(run) :
       /\ run[f].name = <<t - 1, id, f - 1>>
       /\ run[f].keys = [i \in DOMAIN files[f] |-> files[f][i].key]
       /\ Len(run[f].keys) = Len(files[f])
       /\ Len(run[f].keys) \in 1..Table!max_tuples_per_file

(* Run::Run makes such files, and they ascend; they hold every tuple if    *)
(* files are filled with whole tuples.                                     *)
LEMMA NewRun ==
  ASSUME NEW t \in Nat \ {0}, NEW id \in Nat, NEW tuples \in Seq(Sort!Tuple),
         \A p, q \in DOMAIN tuples : p < q => tuples[p].key < tuples[q].key
  PROVE  LET run == NewFiles(t, id, tuples)
         IN  /\ run \in RunOfFiles
             /\ FilesMade(run, Table!Files(tuples), t, id)
             /\ KeysAscend(run)
             /\ SSTSize = Table!max_tuples_per_file * TupleSize =>
                  KeysIn(tuples) \subseteq KeysOfRun(run)
<1> DEFINE files == Table!Files(tuples)
           run == NewFiles(t, id, tuples)
           n == Len(files)
<1>1. /\ n \in Nat /\ DOMAIN files = 1..n
      /\ \A f \in 1..n : files[f] \in Seq(Sort!Tuple)
      /\ \A f \in 1..n :
           /\ Len(files[f]) \in 1..Table!max_tuples_per_file
           /\ \A i \in 1..Len(files[f]) :
                Place(f, i) \in 1..Len(tuples) /\ files[f][i] = tuples[Place(f, i)]
      /\ \A f, g \in 1..n : \A i \in 1..Len(files[f]), j \in 1..Len(files[g]) :
           Before(f, i, g, j) => Place(f, i) < Place(g, j)
  <2>1. files \in Seq(Seq(Sort!Tuple))
    BY FilesGive
  <2>2. \A f \in 1..n : files[f] \in Seq(Sort!Tuple)
    BY <2>1
  <2> QED
    BY <2>2, FilesGive
<1>2. SSTSize = Table!max_tuples_per_file * TupleSize =>
        \A p \in 1..Len(tuples) : \E f \in 1..n : \E i \in 1..Len(files[f]) :
          files[f][i] = tuples[p]
  BY FilesGive
<1>3. run = [f \in 1..n |-> [name |-> <<t - 1, id, f - 1>>,
                             keys |-> [i \in DOMAIN files[f] |-> files[f][i].key]]]
  BY <1>1 DEF NewFiles
<1> HIDE DEF files, run, n
<1>4. ASSUME NEW f \in 1..n
      PROVE  /\ run[f].name = <<t - 1, id, f - 1>>
             /\ run[f].keys = [i \in DOMAIN files[f] |-> files[f][i].key]
             /\ run[f].keys \in Seq(Key)
             /\ Len(run[f].keys) = Len(files[f])
             /\ \A i \in 1..Len(files[f]) : run[f].keys[i] = files[f][i].key
             /\ run[f] \in File
  <2> DEFINE keys == [i \in DOMAIN files[f] |-> files[f][i].key]
             name == <<t - 1, id, f - 1>>
  <2>1. run[f] = [name |-> name, keys |-> keys]
    BY <1>3
  <2>2. files[f] \in Seq(Sort!Tuple)
    BY <1>1
  <2>3. Len(files[f]) \in Nat /\ DOMAIN files[f] = 1..Len(files[f])
    BY <2>2
  <2>4. \A i \in 1..Len(files[f]) : files[f][i].key \in Key
    <3>1. \A i \in 1..Len(files[f]) : files[f][i] \in Sort!Tuple
      BY <2>2, <2>3
    <3> QED
      BY <3>1 DEF Sort!Tuple
  <2>5. /\ keys \in Seq(Key) /\ Len(keys) = Len(files[f])
        /\ \A i \in 1..Len(files[f]) : keys[i] = files[f][i].key
    BY <2>3, <2>4
  <2>6. name \in Name
    BY <1>1 DEF Name
  <2> HIDE DEF keys, name
  <2>7. run[f] \in File /\ run[f].name = name /\ run[f].keys = keys
    BY <2>1, <2>5, <2>6 DEF File
  <2> QED
    BY <2>5, <2>7 DEF keys, name
<1>5. run \in RunOfFiles /\ Len(run) = n
  <2>1. \A f \in 1..n : run[f] \in File
    BY <1>4
  <2>2. run = [f \in 1..n |-> run[f]] /\ n \in Nat
    BY <1>1, <1>3
  <2> QED
    BY <2>1, <2>2, SMTT(30) DEF RunOfFiles
<1>6. DOMAIN tuples = 1..Len(tuples)
  OBVIOUS
<1>7. KeysAscend(run)
  <2> SUFFICES ASSUME NEW f \in 1..n, NEW g \in 1..n,
                      NEW i \in 1..Len(files[f]), NEW j \in 1..Len(files[g]),
                      Before(f, i, g, j)
               PROVE  run[f].keys[i] < run[g].keys[j]
    BY <1>4, <1>5 DEF KeysAscend
  <2>1. Place(f, i) < Place(g, j)
    BY <1>1
  <2>2. Place(f, i) \in 1..Len(tuples) /\ Place(g, j) \in 1..Len(tuples)
    BY <1>1
  <2>3. tuples[Place(f, i)].key < tuples[Place(g, j)].key
    BY <1>6, <2>1, <2>2
  <2>4. run[f].keys[i] = files[f][i].key /\ run[g].keys[j] = files[g][j].key
    BY <1>4
  <2>5. files[f][i] = tuples[Place(f, i)] /\ files[g][j] = tuples[Place(g, j)]
    BY <1>1
  <2> QED
    BY <2>3, <2>4, <2>5
<1>8. ASSUME SSTSize = Table!max_tuples_per_file * TupleSize, NEW p \in 1..Len(tuples)
      PROVE  tuples[p].key \in KeysOfRun(run)
  <2>1. PICK f \in 1..n : \E i \in 1..Len(files[f]) : files[f][i] = tuples[p]
    BY <1>2, <1>8
  <2>2. PICK i \in 1..Len(files[f]) : files[f][i] = tuples[p]
    BY <2>1
  <2>3. i \in 1..Len(run[f].keys) /\ run[f].keys[i] = tuples[p].key
    BY <1>4, <2>2
  <2> QED
    BY <1>5, <2>3 DEF KeysOfRun
<1>9. SSTSize = Table!max_tuples_per_file * TupleSize => KeysIn(tuples) \subseteq KeysOfRun(run)
  BY <1>6, <1>8 DEF KeysIn
<1>10. \A f \in 1..n : Len(run[f].keys) \in 1..Table!max_tuples_per_file
  BY <1>1, <1>4
<1>11. FilesMade(run, files, t, id)
  BY <1>4, <1>5, <1>10 DEF FilesMade, n
<1> QED
  BY <1>5, <1>7, <1>9, <1>11 DEF run, files

(* When the files of a run are written they are on disk with their tuples, *)
(* and every file of another name is as it was.                            *)
LEMMA NewRunOnDisk ==
  ASSUME NEW t \in Nat \ {0}, NEW id \in Nat, NEW tuples \in Seq(Sort!Tuple),
         \A p, q \in DOMAIN tuples : p < q => tuples[p].key < tuples[q].key,
         NEW old
  PROVE  LET run == NewFiles(t, id, tuples)
             dsk == Written(old, run, tuples, Len(run))
         IN  /\ \A f \in 1..Len(run) : IsOnDisk(dsk, run[f])
             /\ \A f \in 1..Len(run) : dsk[run[f].name] = SlotsFor(Table!Files(tuples)[f])
             /\ \A name \in DOMAIN old :
                  (\A f \in 1..Len(run) : name # <<t - 1, id, f - 1>>) =>
                    name \in DOMAIN dsk /\ dsk[name] = old[name]
<1> DEFINE files == Table!Files(tuples)
           run == NewFiles(t, id, tuples)
           n == Len(run)
           dsk == Written(old, run, tuples, n)
<1>1. /\ run \in RunOfFiles /\ n = Len(files) /\ n \in Nat
      /\ \A f \in 1..n :
           /\ run[f].name = <<t - 1, id, f - 1>>
           /\ run[f].keys = [i \in DOMAIN files[f] |-> files[f][i].key]
           /\ Len(run[f].keys) \in 1..Table!max_tuples_per_file
  <2>1. run \in RunOfFiles
    BY NewRun
  <2>2. n \in Nat
    BY <2>1 DEF RunOfFiles
  <2>3. FilesMade(run, files, t, id)
    BY NewRun
  <2> HIDE DEF run, files
  <2> QED
    BY <2>1, <2>2, <2>3 DEF FilesMade
<1>2. \A f \in 1..n : files[f] \in Seq(Sort!Tuple)
  <2>1. files \in Seq(Seq(Sort!Tuple)) /\ Len(files) = n
    BY <1>1, FilesGive
  <2> QED
    BY <2>1
<1> HIDE DEF files, run, n, dsk
<1>3. OwnNames(run, n)
  <2>1. ASSUME NEW f \in 1..n, NEW g \in 1..n, run[f].name = run[g].name PROVE f = g
    <3>1. <<t - 1, id, f - 1>> = <<t - 1, id, g - 1>>
      BY <1>1, <2>1
    <3>2. f - 1 = g - 1
      BY <3>1
    <3> QED
      BY <1>1, <3>2
  <2> QED
    BY <2>1 DEF OwnNames
<1>4. /\ DOMAIN dsk = DOMAIN old \cup {run[f].name : f \in 1..n}
      /\ \A f \in 1..n : dsk[run[f].name] = SlotsFor(files[f])
      /\ \A name \in DOMAIN old :
           (\A f \in 1..n : name # run[f].name) => dsk[name] = old[name]
  <2>1. n \in Nat
    BY <1>1
  <2>2. WrittenIs(old, run, tuples, n)
    BY <1>3, <2>1, WrittenDisk
  <2> QED
    BY <2>2 DEF dsk, files, WrittenIs
<1>5. ASSUME NEW f \in 1..n
      PROVE  /\ SlotsFor(files[f]) \in Seq(Slots)
             /\ [i \in DOMAIN SlotsFor(files[f]) |-> SlotsFor(files[f])[i].key] = run[f].keys
  <2> DEFINE file == files[f]
             slots == SlotsFor(file)
             m == Len(file)
  <2>1. /\ file \in Seq(Sort!Tuple) /\ m \in Nat /\ DOMAIN file = 1..m
        /\ \A i \in 1..m : file[i] \in Sort!Tuple
    BY <1>2
  <2> HIDE DEF file, m
  <2>2. slots = [i \in 1..m |-> [key |-> file[i].key, slot |-> AppendBin2Vec(file[i].items)]]
    BY <2>1 DEF SlotsFor
  <2>3. ASSUME NEW i \in 1..m
        PROVE  [key |-> file[i].key, slot |-> AppendBin2Vec(file[i].items)] \in Slots
    <3>1. file[i].key \in Key /\ file[i].items \in Seq(Word)
      BY <2>1 DEF Sort!Tuple
    <3> QED
      BY <3>1, AppendBin2VecType DEF Slots
  <2> HIDE DEF slots
  <2>4. slots \in Seq(Slots) /\ DOMAIN slots = 1..m
    BY <2>1, <2>2, <2>3
  <2>5. \A i \in 1..m : slots[i].key = file[i].key
    BY <2>2
  <2>6. [i \in DOMAIN slots |-> slots[i].key] = [i \in DOMAIN file |-> file[i].key]
    BY <2>1, <2>4, <2>5
  <2>7. run[f].keys = [i \in DOMAIN file |-> file[i].key]
    BY <1>1 DEF file
  <2> QED
    BY <2>4, <2>6, <2>7 DEF slots, file
<1>6. \A f \in 1..n : IsOnDisk(dsk, run[f])
  BY <1>1, <1>4, <1>5 DEF IsOnDisk
<1>7. \A name \in DOMAIN old :
        (\A f \in 1..n : name # <<t - 1, id, f - 1>>) =>
          name \in DOMAIN dsk /\ dsk[name] = old[name]
  BY <1>1, <1>4, ZenonT(30)
<1> QED
  BY <1>4, <1>6, <1>7 DEF dsk, run, n, files

-----------------------------------------------------------------------------
(* The levels after a flush.                                               *)

(* The larger of two numbers.                                              *)
LEMMA LargerOf ==
  ASSUME NEW a \in Nat, NEW b \in Nat
  PROVE  Max({a, b}) = IF b > a THEN b ELSE a
<1> DEFINE c == IF b > a THEN b ELSE a
<1>1. c \in Nat /\ a <= c /\ b <= c /\ c \in {a, b}
  OBVIOUS
<1>2. Max({a, b}) \in {a, b} /\ \A y \in {a, b} : y <= Max({a, b})
  <2>1. {a, b} \in SUBSET (0..c) /\ {a, b} # {}
    BY <1>1
  <2> HIDE DEF c
  <2> QED
    BY <1>1, <2>1, MaxOfBoundedNats
<1> QED
  BY <1>1, <1>2

FlushedLevels(t, run) ==
  [l \in 1..Max({Len(levels), t}) |->
     IF l < t THEN <<>> ELSE IF l = t THEN Append(RunsOf(t), run) ELSE levels[l]]

(* A flush to level t empties the levels before it, leaves every run from  *)
(* there on in its place, and adds its own as the last of level t.         *)
LEMMA FlushedShape ==
  ASSUME levels \in Seq(LevelOfRuns), NEW t \in 1..Len(levels) + 1, NEW run \in RunOfFiles
  PROVE  LET new == FlushedLevels(t, run)
             last == Len(RunsOf(t)) + 1
         IN  /\ last \in Nat \ {0}
             /\ new \in Seq(LevelOfRuns)
             /\ t \in 1..Len(new) /\ last \in 1..Len(new[t]) /\ new[t][last] = run
             /\ \A l \in t..Len(levels) : \A r \in 1..Len(levels[l]) :
                  /\ l \in 1..Len(new) /\ r \in 1..Len(new[l]) /\ new[l][r] = levels[l][r]
                  /\ <<l, r>> # <<t, last>>
             /\ \A l \in 1..Len(new) : \A r \in 1..Len(new[l]) :
                  \/ l = t /\ r = last
                  \/ l \in t..Len(levels) /\ r \in 1..Len(levels[l])
<1> DEFINE n == Len(levels)
           m == Max({n, t})
           new == FlushedLevels(t, run)
           last == Len(RunsOf(t)) + 1
<1>1. /\ n \in Nat /\ t \in Nat \ {0} /\ m = IF t > n THEN t ELSE n
      /\ \A l \in 1..n : levels[l] \in LevelOfRuns
  BY LargerOf
<1>2. /\ RunsOf(t) \in Seq(RunOfFiles)
      /\ t <= n => RunsOf(t) = levels[t]
      /\ t > n => Len(RunsOf(t)) = 0
  <2>1. CASE t <= n
    <3>1. RunsOf(t) = levels[t] /\ levels[t] \in LevelOfRuns
      BY <1>1, <2>1 DEF RunsOf
    <3> QED
      BY <1>1, <2>1, <3>1 DEF LevelOfRuns
  <2>2. CASE ~(t <= n)
    <3>1. RunsOf(t) = <<>> /\ t > n
      BY <1>1, <2>2 DEF RunsOf
    <3> QED
      BY <2>2, <3>1
  <2> QED
    BY <2>1, <2>2
<1> DEFINE old == RunsOf(t)
           level == Append(old, run)
<1>3. /\ Len(old) \in Nat /\ last = Len(old) + 1 /\ last \in 1..last
      /\ level \in Seq(RunOfFiles) /\ Len(level) = last /\ level[last] = run
      /\ \A r \in 1..Len(old) : level[r] = old[r] /\ r # last /\ r \in 1..last
      /\ \A r \in 1..last : r = last \/ r \in 1..Len(old)
  BY <1>2
<1>4. new = [l \in 1..m |-> IF l < t THEN <<>> ELSE IF l = t THEN level ELSE levels[l]]
  BY DEF FlushedLevels
<1> HIDE DEF n, m, new, last, old, level
<1>5. ASSUME NEW l \in 1..m
      PROVE  (IF l < t THEN <<>> ELSE IF l = t THEN level ELSE levels[l]) \in LevelOfRuns
  <2>1. <<>> \in LevelOfRuns /\ level \in LevelOfRuns
    BY <1>3 DEF LevelOfRuns
  <2>2. l < t \/ l = t \/ l \in 1..n
    BY <1>1
  <2> QED
    BY <1>1, <2>1, <2>2
<1>6. m \in Nat /\ t \in 1..m /\ \A l \in 1..n : l \in 1..m
  BY <1>1
<1>7. new \in Seq(LevelOfRuns) /\ Len(new) = m
  BY <1>4, <1>5, <1>6
<1>8. new[t] = level /\ \A l \in 1..m : /\ l < t => new[l] = <<>>
                                        /\ l > t => new[l] = levels[l] /\ l \in 1..n
  BY <1>1, <1>4, <1>6
<1>9. ASSUME NEW l \in t..n, NEW r \in 1..Len(levels[l])
      PROVE  /\ l \in 1..m /\ r \in 1..Len(new[l]) /\ new[l][r] = levels[l][r]
             /\ <<l, r>> # <<t, last>>
  <2>1. l \in 1..n /\ l \in 1..m /\ (l = t \/ l > t)
    BY <1>1, <1>6
  <2>2. CASE l = t
    <3>1. old = levels[t]
      BY <1>1, <1>2, <2>1, <2>2 DEF old
    <3> QED
      BY <1>3, <1>8, <2>1, <2>2, <3>1
  <2>3. CASE l > t
    BY <1>1, <1>8, <2>1, <2>3
  <2> QED
    BY <2>1, <2>2, <2>3
<1>10. ASSUME NEW l \in 1..m, NEW r \in 1..Len(new[l])
       PROVE  \/ l = t /\ r = last
              \/ l \in t..n /\ r \in 1..Len(levels[l])
  <2>1. CASE l < t
    <3>1. Len(new[l]) = 0
      BY <1>8, <2>1
    <3> QED
      BY <3>1
  <2>2. CASE l = t
    <3>1. r = last \/ r \in 1..Len(old)
      BY <1>3, <1>8, <2>2
    <3>2. CASE t <= n
      BY <1>1, <1>2, <2>2, <3>1, <3>2 DEF old
    <3>3. CASE t > n
      BY <1>1, <1>2, <2>2, <3>1, <3>3 DEF old
    <3> QED
      BY <1>1, <3>2, <3>3
  <2>3. CASE l > t
    BY <1>1, <1>8, <2>3
  <2> QED
    BY <1>1, <2>1, <2>2, <2>3
<1> QED
  BY <1>3, <1>6, <1>7, <1>8, <1>9, <1>10 DEF n, new, last

(* A file of a run is named by its level, its run and its place.           *)
LEMMA FilesNamed ==
  ASSUME NEW t, NEW id, NEW tuples, NewFiles(t, id, tuples) \in Seq(File)
  PROVE  \A f \in 1..Len(NewFiles(t, id, tuples)) :
           NewFiles(t, id, tuples)[f].name = <<t - 1, id, f - 1>>
<1> DEFINE run == NewFiles(t, id, tuples)
           pieces == Table!Files(tuples)
<1>1. run = [f \in DOMAIN pieces |->
               [name |-> <<t - 1, id, f - 1>>,
                keys |-> [i \in DOMAIN pieces[f] |-> pieces[f][i].key]]]
  BY DEF NewFiles
<1> HIDE DEF run, pieces
<1>2. DOMAIN run = 1..Len(run)
  BY DEF run
<1> QED
  BY <1>1, <1>2 DEF run

(* Deleting the files of the levels before t leaves those from there on.   *)
LEMMA OthersStay ==
  ASSUME DiskInv, NEW t \in 1..Len(levels) + 1,
         NEW names \in Unlinked(NamesIn(SubSeq(levels, 1, t - 1))),
         NEW l \in t..Len(levels), NEW r \in 1..Len(levels[l]), NEW f \in 1..Len(levels[l][r])
  PROVE  LET file == levels[l][r][f]
         IN  /\ file.name \in DOMAIN Without(names)
             /\ Without(names)[file.name] = disk[file.name]
<1> DEFINE above == SubSeq(levels, 1, t - 1)
           name == levels[l][r][f].name
<1>1. /\ levels \in Seq(LevelOfRuns) /\ AllInPlace(levels) /\ AllOnDisk(levels, disk)
      /\ Len(levels) \in Nat /\ t \in Nat \ {0} /\ l \in 1..Len(levels) /\ l \in Nat /\ t <= l
  BY DEF DiskInv
<1>2. name = <<l - 1, r - 1, f - 1>> /\ name \in DOMAIN disk
  BY <1>1 DEF AllInPlace, AllOnDisk, IsOnDisk
<1>3. /\ above \in Seq(LevelOfRuns) /\ Len(above) = t - 1
      /\ \A x \in 1..t - 1 : above[x] = levels[x] /\ x \in 1..Len(levels) /\ x < t
  BY <1>1
<1> HIDE DEF name, above
<1>4. name \notin Range(NamesIn(above))
  <2>1. SUFFICES ASSUME name \in Range(NamesIn(above)) PROVE FALSE
    OBVIOUS
  <2>2. PICK x \in 1..Len(above) : \E y \in 1..Len(above[x]) : \E g \in 1..Len(above[x][y]) :
               name = above[x][y][g].name
    <3>1. NamesFile(above, name)
      BY <1>3, <2>1, NamesAreOfFiles
    <3> QED
      BY <3>1 DEF NamesFile
  <2>3. PICK y \in 1..Len(above[x]) : \E g \in 1..Len(above[x][y]) : name = above[x][y][g].name
    BY <2>2
  <2>4. PICK g \in 1..Len(above[x][y]) : name = above[x][y][g].name
    BY <2>3
  <2>5. above[x] = levels[x] /\ x \in 1..Len(levels) /\ x < t /\ x \in Nat
    BY <1>1, <1>3
  <2>6. name = <<x - 1, y - 1, g - 1>>
    <3>1. y \in 1..Len(levels[x]) /\ g \in 1..Len(levels[x][y]) /\ name = levels[x][y][g].name
      BY <2>4, <2>5
    <3> QED
      BY <1>1, <2>5, <3>1 DEF AllInPlace
  <2>7. l - 1 = x - 1
    BY <1>2, <2>6
  <2> QED
    BY <1>1, <2>5, <2>7
<1>5. names = NamesIn(above) \/ names = <<>>
  BY DEF Unlinked, above
<1>6. name \notin Range(names)
  <2>1. Range(<<>>) = {}
    BY DEF Range
  <2> QED
    BY <1>4, <1>5, <2>1
<1>7. name \in DOMAIN Without(names) /\ Without(names)[name] = disk[name]
  BY <1>2, <1>6 DEF Without
<1> QED
  BY <1>7 DEF name

-----------------------------------------------------------------------------
(* The steps.                                                              *)

(* A flush: to level t, of the tuples it gathers, over what is left of the *)
(* disk when it has deleted.                                               *)
FlushedTo(t, names) ==
  LET tuples == Sort!_Sort(Gathered(t))
      run == NewFiles(t, Len(RunsOf(t)), tuples)
  IN  /\ levels' = FlushedLevels(t, run)
      /\ disk' = Written(Without(names), run, tuples, Len(run))

(* A flush goes to its target, a level there is or the next one.           *)
LEMMA FlushIsTo ==
  ASSUME levels \in Seq(LevelOfRuns), NEW k, NEW items, FlushAndAppend(k, items)
  PROVE  \E t \in 1..Len(levels) + 1 :
           /\ t \in 1..MaxLevels /\ IsTarget(t)
           /\ \E names \in Unlinked(NamesIn(SubSeq(levels, 1, t - 1))) : FlushedTo(t, names)
<1>1. PICK t \in 1..MaxLevels :
        /\ IsTarget(t)
        /\ LET tuples == Sort!_Sort(Gathered(t))
               run == NewFiles(t, Len(RunsOf(t)), tuples)
           IN  /\ levels' = FlushedLevels(t, run)
               /\ \E names \in Unlinked(NamesIn(SubSeq(levels, 1, t - 1))) :
                    disk' = Written(Without(names), run, tuples, Len(run))
  BY DEF FlushAndAppend, FlushedLevels
<1>2. t \in 1..Len(levels) + 1
  BY <1>1 DEF IsTarget
<1> QED
  BY <1>1, <1>2 DEF FlushedTo

(* Its files have names of their own, so those below the levels that were  *)
(* emptied are neither deleted nor overwritten.                            *)
LEMMA OldFilesStay ==
  ASSUME DiskInv, NEW t \in 1..Len(levels) + 1,
         NEW names \in Unlinked(NamesIn(SubSeq(levels, 1, t - 1))), FlushedTo(t, names),
         NEW l \in t..Len(levels), NEW r \in 1..Len(levels[l]), NEW f \in 1..Len(levels[l][r])
  PROVE  LET file == levels[l][r][f]
         IN  /\ file.name = <<l - 1, r - 1, f - 1>> /\ IsOnDisk(disk, file)
             /\ file.name \in DOMAIN disk' /\ disk'[file.name] = disk[file.name]
<1> DEFINE tuples == Sort!_Sort(Gathered(t))
           id == Len(RunsOf(t))
           run == NewFiles(t, id, tuples)
           old == Without(names)
           file == levels[l][r][f]
<1>1. /\ levels \in Seq(LevelOfRuns) /\ AllInPlace(levels) /\ AllOnDisk(levels, disk)
      /\ Len(levels) \in Nat /\ t \in Nat \ {0} /\ t <= Len(levels) + 1 /\ l \in 1..Len(levels)
  BY DEF DiskInv
<1>2. Gathered(t) \in Seq(Sort!Tuple)
  BY <1>1, GatheredReads
<1>3. /\ tuples \in Seq(Sort!Tuple)
      /\ \A p, q \in DOMAIN tuples : p < q => tuples[p].key < tuples[q].key
  BY <1>2, SortGives
<1>4. disk' = Written(old, run, tuples, Len(run))
  BY DEF FlushedTo
<1> HIDE DEF tuples
<1>5. id \in Nat /\ (l = t => r <= id)
  <2>1. CASE t <= Len(levels)
    <3>1. RunsOf(t) = levels[t] /\ t \in 1..Len(levels)
      BY <1>1, <2>1 DEF RunsOf
    <3> QED
      BY <1>1, <3>1, LevelFacts
  <2>2. CASE ~(t <= Len(levels))
    BY <1>1, <2>2 DEF RunsOf
  <2> QED
    BY <2>1, <2>2
<1> HIDE DEF id
<1>6. \A name \in DOMAIN old :
        (\A g \in 1..Len(run) : name # <<t - 1, id, g - 1>>) =>
          name \in DOMAIN disk' /\ disk'[name] = old[name]
  BY <1>1, <1>3, <1>4, <1>5, NewRunOnDisk
<1>7. file.name = <<l - 1, r - 1, f - 1>> /\ IsOnDisk(disk, file)
  BY <1>1 DEF AllInPlace, AllOnDisk
<1>8. file.name \in DOMAIN old /\ old[file.name] = disk[file.name]
  BY OthersStay
<1> HIDE DEF old, run
<1>9. ASSUME NEW g \in 1..Len(run) PROVE file.name # <<t - 1, id, g - 1>>
  <2>1. SUFFICES ASSUME file.name = <<t - 1, id, g - 1>> PROVE FALSE
    OBVIOUS
  <2>2. l - 1 = t - 1 /\ r - 1 = id
    BY <1>7, <2>1
  <2>3. l = t /\ r = id + 1
    BY <1>1, <1>5, <2>2
  <2> QED
    BY <1>5, <2>3
<1> QED
  BY <1>6, <1>7, <1>8, <1>9

(* After a flush every live file has the name of its place and its tuples  *)
(* on disk: the old ones were neither deleted nor overwritten.             *)
LEMMA FlushKeepsFiles ==
  ASSUME DiskInv, NEW t \in 1..Len(levels) + 1,
         NEW names \in Unlinked(NamesIn(SubSeq(levels, 1, t - 1))), FlushedTo(t, names)
  PROVE  /\ levels' \in Seq(LevelOfRuns)
         /\ AllInPlace(levels') /\ AllOnDisk(levels', disk') /\ AllAscend(levels')
<1> DEFINE tuples == Sort!_Sort(Gathered(t))
           id == Len(RunsOf(t))
           run == NewFiles(t, id, tuples)
           last == id + 1
           old == Without(names)
<1>1. /\ levels \in Seq(LevelOfRuns) /\ AllInPlace(levels) /\ AllOnDisk(levels, disk)
      /\ AllAscend(levels) /\ Len(levels) \in Nat /\ t \in Nat \ {0} /\ t <= Len(levels) + 1
  BY DEF DiskInv
<1>2. Gathered(t) \in Seq(Sort!Tuple)
  BY <1>1, GatheredReads
<1>3. /\ tuples \in Seq(Sort!Tuple)
      /\ \A p, q \in DOMAIN tuples : p < q => tuples[p].key < tuples[q].key
  BY <1>2, SortGives
<1>4. levels' = FlushedLevels(t, run) /\ disk' = Written(old, run, tuples, Len(run))
  BY DEF FlushedTo
<1> HIDE DEF tuples
<1>5. id \in Nat
  <2>1. CASE t <= Len(levels)
    <3>1. RunsOf(t) = levels[t] /\ t \in 1..Len(levels)
      BY <1>1, <2>1 DEF RunsOf
    <3> QED
      BY <1>1, <3>1, LevelFacts
  <2>2. CASE ~(t <= Len(levels))
    BY <2>2 DEF RunsOf
  <2> QED
    BY <2>1, <2>2
<1> HIDE DEF id, old
<1>6. /\ run \in RunOfFiles
      /\ \A f \in 1..Len(run) : run[f].name = <<t - 1, id, f - 1>>
      /\ KeysAscend(run)
  <2>1. t \in Nat \ {0} /\ id \in Nat
    BY <1>1, <1>5
  <2>2. run \in RunOfFiles /\ KeysAscend(run)
    BY <1>3, <2>1, NewRun
  <2>3. \A f \in 1..Len(run) : run[f].name = <<t - 1, id, f - 1>>
    BY <1>3, <2>2, FilesNamed DEF RunOfFiles
  <2> QED
    BY <2>2, <2>3
<1>7. \A f \in 1..Len(run) : IsOnDisk(disk', run[f])
  BY <1>1, <1>3, <1>4, <1>5, NewRunOnDisk
<1> HIDE DEF run
<1>8. /\ last \in Nat \ {0}
      /\ levels' \in Seq(LevelOfRuns)
      /\ levels'[t][last] = run
      /\ \A l \in t..Len(levels) : \A r \in 1..Len(levels[l]) :
           /\ levels'[l][r] = levels[l][r]
           /\ <<l, r>> # <<t, last>>
      /\ \A l \in 1..Len(levels') : \A r \in 1..Len(levels'[l]) :
           \/ l = t /\ r = last
           \/ l \in t..Len(levels) /\ r \in 1..Len(levels[l])
  BY <1>1, <1>4, <1>6, FlushedShape, SMTT(60) DEF id
<1>9. ASSUME NEW l \in 1..Len(levels'), NEW r \in 1..Len(levels'[l]),
             NEW f \in 1..Len(levels'[l][r])
      PROVE  /\ levels'[l][r][f].name = <<l - 1, r - 1, f - 1>>
             /\ IsOnDisk(disk', levels'[l][r][f])
  <2>1. CASE l = t /\ r = last
    <3>1. levels'[l][r] = run /\ f \in 1..Len(run) /\ id = r - 1
      BY <1>5, <1>8, <2>1
    <3> QED
      BY <1>6, <1>7, <2>1, <3>1
  <2>2. CASE l \in t..Len(levels) /\ r \in 1..Len(levels[l])
    <3> DEFINE file == levels[l][r][f]
    <3>1. /\ levels'[l][r] = levels[l][r] /\ <<l, r>> # <<t, last>>
          /\ f \in 1..Len(levels[l][r]) /\ l \in 1..Len(levels)
      BY <1>1, <1>8, <2>2, SMTT(30)
    <3>2. /\ file.name = <<l - 1, r - 1, f - 1>> /\ IsOnDisk(disk, file)
          /\ file.name \in DOMAIN disk' /\ disk'[file.name] = disk[file.name]
      BY <2>2, <3>1, OldFilesStay
    <3>3. IsOnDisk(disk', file)
      BY <3>2 DEF IsOnDisk
    <3> QED
      BY <3>1, <3>2, <3>3
  <2> QED
    BY <1>8, <2>1, <2>2
<1>10. ASSUME NEW l \in 1..Len(levels'), NEW r \in 1..Len(levels'[l])
       PROVE  KeysAscend(levels'[l][r])
  <2>1. CASE l = t /\ r = last
    BY <1>6, <1>8, <2>1
  <2>2. CASE l \in t..Len(levels) /\ r \in 1..Len(levels[l])
    <3>1. levels'[l][r] = levels[l][r]
      BY <1>8, <2>2
    <3>2. l \in 1..Len(levels)
      BY <1>1, <2>2
    <3>3. KeysAscend(levels[l][r])
      BY <1>1, <2>2, <3>2 DEF AllAscend
    <3> QED
      BY <3>1, <3>3
  <2> QED
    BY <1>8, <2>1, <2>2
<1> QED
  BY <1>8, <1>9, <1>10 DEF AllInPlace, AllOnDisk, AllAscend

(* So a flush preserves the invariant,                                     *)
LEMMA FlushKeepsInv ==
  ASSUME DiskInv, NEW k \in Key, NEW items \in Seq(Word), FlushAndAppend(k, items)
  PROVE  DiskInv'
<1>1. levels \in Seq(LevelOfRuns)
  BY DEF DiskInv
<1>2. PICK t \in 1..Len(levels) + 1 :
        \E names \in Unlinked(NamesIn(SubSeq(levels, 1, t - 1))) : FlushedTo(t, names)
  BY <1>1, FlushIsTo
<1>3. PICK names \in Unlinked(NamesIn(SubSeq(levels, 1, t - 1))) : FlushedTo(t, names)
  BY <1>2
<1>4. /\ levels' \in Seq(LevelOfRuns)
      /\ AllInPlace(levels') /\ AllOnDisk(levels', disk') /\ AllAscend(levels')
  BY <1>3, FlushKeepsFiles
<1>5. buf' \in Seq(Sort!Tuple)
  <2>1. buf' = <<[key |-> k, items |-> items]>>
    BY DEF FlushAndAppend
  <2>2. [key |-> k, items |-> items] \in Sort!Tuple
    BY DEF Sort!Tuple
  <2> QED
    BY <2>1, <2>2
<1> QED
  BY <1>4, <1>5 DEF DiskInv

(* and with it every insert.                                               *)
LEMMA InsertKeepsInv ==
  ASSUME DiskInv, NEW k \in Key, NEW items \in Seq(Word), Insert(k, items)
  PROVE  DiskInv'
<1>1. CASE AppendTuple(k, items)
  <2>1. [key |-> k, items |-> items] \in Sort!Tuple
    BY DEF Sort!Tuple
  <2>2. /\ buf' = Append(buf, [key |-> k, items |-> items])
        /\ levels' = levels /\ disk' = disk
    BY <1>1 DEF AppendTuple
  <2>3. buf' \in Seq(Sort!Tuple)
    BY <2>1, <2>2 DEF DiskInv
  <2> QED
    BY <2>2, <2>3 DEF DiskInv
<1>2. CASE FlushAndAppend(k, items)
  BY <1>2, FlushKeepsInv
<1> QED
  BY <1>1, <1>2 DEF Insert

(* An empty tree has no files.                                             *)
LEMMA EmptyTree ==
  ASSUME NEW dsk
  PROVE  /\ <<>> \in Seq(LevelOfRuns)
         /\ AllInPlace(<<>>) /\ AllOnDisk(<<>>, dsk) /\ AllAscend(<<>>)
         /\ <<>> \in Seq(Sort!Tuple)
<1>1. \A l \in 1..Len(<<>>) : FALSE
  OBVIOUS
<1>2. <<>> \in Seq(LevelOfRuns) /\ <<>> \in Seq(Sort!Tuple)
  OBVIOUS
<1> QED
  BY <1>1, <1>2 DEF AllInPlace, AllOnDisk, AllAscend

(* What is inserted is a sequence of words.                                *)
LEMMA InsertedItems ==
  /\ DelMarker \in Seq(Word)
  /\ \A v \in PutValue : v \in Seq(Word)
  BY CodecAssumption, PartsAssumption DEF DelMarker, Tree!TreeAssumption

(* The buffer and the levels are of tuples and files, every file of a run  *)
(* has the name of its place and its tuples on disk, and a run ascends     *)
(* over its files: for every size of buffer, level, file and tuple,        *)
(* however trees end and whatever of their files they leave behind         *)
(* (LSM_T::Insert, Level::AddNewRun, Run::Run, Run::DeleteFMD).            *)
THEOREM DiskInvariant == Spec => []DiskInv
<1>1. Init => DiskInv
  BY EmptyTree DEF Init, DiskInv
<1>2. DiskInv /\ [Next]_vars => DiskInv'
  <2> SUFFICES ASSUME DiskInv, [Next]_vars
               PROVE  DiskInv'
    OBVIOUS
  <2>1. ASSUME NEW k \in Key, NEW v \in PutValue, Put(k, v)
        PROVE  DiskInv'
    BY <2>1, InsertedItems, InsertKeepsInv DEF Put
  <2>2. ASSUME NEW k \in Key, Delete(k)
        PROVE  DiskInv'
    BY <2>2, InsertedItems, InsertKeepsInv DEF Delete
  <2>3. ASSUME NEW lo \in Key, NEW hi \in Key, Search(lo, hi)
        PROVE  DiskInv'
    BY <2>3 DEF Search, DiskInv
  <2>4. CASE Close \/ Kill \/ KillInFlush
    <3>1. buf' = <<>> /\ levels' = <<>>
      BY <2>4 DEF Close, Kill, KillInFlush, Reopen
    <3> QED
      BY <3>1, EmptyTree DEF DiskInv
  <2>5. CASE UNCHANGED vars
    BY <2>5 DEF vars, DiskInv
  <2> QED
    BY <2>1, <2>2, <2>3, <2>4, <2>5 DEF Next
<1> QED
  BY <1>1, <1>2, PTL DEF Spec

(* No file of another run, level or process shows through a live file: it  *)
(* has on disk the tuples it was created with, under the name of its place *)
(* in the tree, though names are used again and, when unlink does not do   *)
(* its work, are never given up (Run::AddNewFMD, FileMetaData).            *)
THEOREM LiveFilesAreWhole == Spec => []FilesAreWhole
<1>1. DiskInv => FilesAreWhole
  BY InvFilesAreWhole
<1> QED
  BY <1>1, DiskInvariant, PTL

(* What is read of a run, file after file, is strictly ascending: each key *)
(* is in one file of a run, which is what lets Run::Scan stop at it.       *)
THEOREM LiveRunsAscend == Spec => []RunsAscendAcrossFiles
<1>1. DiskInv => RunsAscendAcrossFiles
  BY InvRunsAscend
<1> QED
  BY <1>1, DiskInvariant, PTL

-----------------------------------------------------------------------------
(* What a flush keeps.                                                     *)

KeysOfLevels(lvls) == UNION {KeysOfLevel(lvls[l]) : l \in 1..Len(lvls)}

(* What is read of the tree are the keys its files were created with.      *)
LEMMA HeldAre == DiskInv => KeysHeld = KeysIn(buf) \cup KeysOfLevels(levels)
<1> SUFFICES ASSUME DiskInv
             PROVE  KeysHeld = KeysIn(buf) \cup KeysOfLevels(levels)
  OBVIOUS
<1> DEFINE Read(p) == KeysIn(RunTuples(levels[p[1]][p[2]]))
<1>1. levels \in Seq(LevelOfRuns) /\ AllOnDisk(levels, disk)
  BY DEF DiskInv
<1>2. ASSUME NEW l \in 1..Len(levels), NEW r \in 1..Len(levels[l])
      PROVE  Read(<<l, r>>) = KeysOfRun(levels[l][r])
  <2>1. levels[l][r] \in RunOfFiles
    BY <1>1, LevelFacts
  <2>2. \A f \in 1..Len(levels[l][r]) : IsOnDisk(disk, levels[l][r][f])
    BY <1>1 DEF AllOnDisk
  <2>3. KeysIn(RunTuples(levels[l][r])) = KeysOfRun(levels[l][r])
    BY <2>1, <2>2, RunReads DEF KeysOfRun
  <2> QED
    BY <2>3
<1>3. KeysHeld = KeysIn(buf) \cup UNION {Read(p) : p \in LiveRuns}
  BY DEF KeysHeld
<1> HIDE DEF Read
<1>4. ASSUME NEW p \in LiveRuns PROVE Read(p) \subseteq KeysOfLevels(levels)
  <2>1. PICK l \in 1..Len(levels) : \E r \in 1..Len(levels[l]) : p = <<l, r>>
    BY <1>1, LiveRunsAre
  <2>2. PICK r \in 1..Len(levels[l]) : p = <<l, r>>
    BY <2>1
  <2>3. Read(p) = KeysOfRun(levels[l][r])
    BY <1>2, <2>2
  <2> QED
    BY <2>3 DEF KeysOfLevels, KeysOfLevel
<1>5. ASSUME NEW l \in 1..Len(levels), NEW r \in 1..Len(levels[l])
      PROVE  KeysOfRun(levels[l][r]) \subseteq UNION {Read(p) : p \in LiveRuns}
  <2>1. <<l, r>> \in LiveRuns
    BY <1>1, LiveRunsAre
  <2> QED
    BY <1>2, <2>1
<1>6. KeysOfLevels(levels) \subseteq UNION {Read(p) : p \in LiveRuns}
  BY <1>5, SMTT(30) DEF KeysOfLevels, KeysOfLevel
<1> QED
  BY <1>3, <1>4, <1>6

(* A run holds the tuples it is written of if the size of a file is one of *)
(* a number of tuples, and then a flush loses no key.                      *)
LEMMA FlushKeepsKeys ==
  ASSUME DiskInv, SSTSize = Table!max_tuples_per_file * TupleSize,
         NEW t \in 1..Len(levels) + 1,
         NEW names \in Unlinked(NamesIn(SubSeq(levels, 1, t - 1))), FlushedTo(t, names)
  PROVE  KeysIn(buf) \cup KeysOfLevels(levels) \subseteq KeysOfLevels(levels')
<1> DEFINE tuples == Sort!_Sort(Gathered(t))
           id == Len(RunsOf(t))
           run == NewFiles(t, id, tuples)
           last == id + 1
<1>1. /\ levels \in Seq(LevelOfRuns) /\ Len(levels) \in Nat /\ t \in Nat \ {0}
      /\ t <= Len(levels) + 1
  BY DEF DiskInv
<1>2. /\ Gathered(t) \in Seq(Sort!Tuple)
      /\ KeysIn(Gathered(t)) =
           KeysIn(buf) \cup UNION {KeysOfLevel(levels[l]) : l \in 1..t - 1}
  BY <1>1, GatheredReads
<1>3. /\ tuples \in Seq(Sort!Tuple) /\ KeysIn(tuples) = KeysIn(Gathered(t))
      /\ \A p, q \in DOMAIN tuples : p < q => tuples[p].key < tuples[q].key
  BY <1>2, SortGives
<1>4. levels' = FlushedLevels(t, run)
  BY DEF FlushedTo
<1> HIDE DEF tuples
<1>5. id \in Nat
  <2>1. CASE t <= Len(levels)
    <3>1. RunsOf(t) = levels[t] /\ t \in 1..Len(levels)
      BY <1>1, <2>1 DEF RunsOf
    <3> QED
      BY <1>1, <3>1, LevelFacts
  <2>2. CASE ~(t <= Len(levels))
    BY <2>2 DEF RunsOf
  <2> QED
    BY <2>1, <2>2
<1> HIDE DEF id
<1>6. run \in RunOfFiles /\ KeysIn(tuples) \subseteq KeysOfRun(run)
  BY <1>1, <1>3, <1>5, NewRun
<1> HIDE DEF run
<1>7. /\ t \in 1..Len(levels') /\ last \in 1..Len(levels'[t]) /\ levels'[t][last] = run
      /\ \A l \in t..Len(levels) : \A r \in 1..Len(levels[l]) :
           /\ l \in 1..Len(levels') /\ r \in 1..Len(levels'[l])
           /\ levels'[l][r] = levels[l][r]
  BY <1>1, <1>4, <1>6, FlushedShape, SMTT(60) DEF id
<1>8. KeysOfRun(run) \subseteq KeysOfLevels(levels')
  BY <1>7 DEF KeysOfLevels, KeysOfLevel
<1>9. ASSUME NEW l \in 1..Len(levels) PROVE KeysOfLevel(levels[l]) \subseteq KeysOfLevels(levels')
  <2>1. CASE l \in 1..t - 1
    BY <1>2, <1>3, <1>6, <1>8, <2>1
  <2>2. CASE l \in t..Len(levels)
    <3>1. ASSUME NEW r \in 1..Len(levels[l])
          PROVE  KeysOfRun(levels[l][r]) \subseteq KeysOfLevels(levels')
      <4>1. l \in 1..Len(levels') /\ r \in 1..Len(levels'[l]) /\ levels'[l][r] = levels[l][r]
        BY <1>7, <2>2
      <4> QED
        BY <4>1 DEF KeysOfLevels, KeysOfLevel
    <3> QED
      BY <3>1 DEF KeysOfLevel
  <2> QED
    BY <1>1, <2>1, <2>2
<1>10. KeysOfLevels(levels) \subseteq KeysOfLevels(levels')
  BY <1>9 DEF KeysOfLevels
<1>11. KeysIn(buf) \subseteq KeysOfLevels(levels')
  BY <1>2, <1>3, <1>6, <1>8
<1> QED
  BY <1>10, <1>11

(* An insert keeps every key the tree holds.                               *)
LEMMA InsertKeepsKeys ==
  ASSUME DiskInv, SSTSize = Table!max_tuples_per_file * TupleSize,
         NEW k \in Key, NEW items \in Seq(Word), Insert(k, items)
  PROVE  KeysIn(buf) \cup KeysOfLevels(levels) \subseteq KeysIn(buf') \cup KeysOfLevels(levels')
<1>1. CASE AppendTuple(k, items)
  <2> DEFINE tuple == [key |-> k, items |-> items]
  <2>1. buf' = Append(buf, tuple) /\ levels' = levels /\ buf \in Seq(Sort!Tuple)
    BY <1>1 DEF AppendTuple, DiskInv
  <2> HIDE DEF tuple
  <2>2. /\ DOMAIN buf = 1..Len(buf) /\ DOMAIN buf' = 1..Len(buf) + 1 /\ Len(buf) \in Nat
        /\ \A i \in 1..Len(buf) : buf'[i] = buf[i] /\ i \in 1..Len(buf) + 1
    BY <2>1
  <2>3. KeysIn(buf) \subseteq KeysIn(buf')
    BY <2>2 DEF KeysIn
  <2> QED
    BY <2>1, <2>3
<1>2. CASE FlushAndAppend(k, items)
  <2>1. levels \in Seq(LevelOfRuns)
    BY DEF DiskInv
  <2>2. PICK t \in 1..Len(levels) + 1 :
          \E names \in Unlinked(NamesIn(SubSeq(levels, 1, t - 1))) : FlushedTo(t, names)
    BY <1>2, <2>1, FlushIsTo
  <2>3. PICK names \in Unlinked(NamesIn(SubSeq(levels, 1, t - 1))) : FlushedTo(t, names)
    BY <2>2
  <2> QED
    BY <2>3, FlushKeepsKeys
<1> QED
  BY <1>1, <1>2 DEF Insert

(* No key the tree holds is lost while the tree lives: every tuple a flush *)
(* gathers goes into some file of the new run.  The hypothesis is that the *)
(* size of a file is a whole number of tuples (Run.cpp:319); without it a  *)
(* flush can drop its last tuples.                                         *)
THEOREM FlushDropsNothing ==
  ASSUME SSTSize = Table!max_tuples_per_file * TupleSize
  PROVE  Spec => NothingDropped
<1>1. DiskInv /\ DiskInv' /\ [Next]_vars =>
        [call'.op # "open" => KeysHeld \subseteq KeysHeld']_vars
  <2> SUFFICES ASSUME DiskInv, DiskInv', [Next]_vars, call'.op # "open",
                      ~ UNCHANGED vars
               PROVE  KeysHeld \subseteq KeysHeld'
    OBVIOUS
  <2>1. KeysHeld = KeysIn(buf) \cup KeysOfLevels(levels)
    BY HeldAre
  <2>2. KeysHeld' = KeysIn(buf') \cup KeysOfLevels(levels')
    <3>1. (KeysHeld = KeysIn(buf) \cup KeysOfLevels(levels))'
      BY HeldAre, PTL
    <3> QED
      BY <3>1
  <2> DEFINE Kept == KeysIn(buf) \cup KeysOfLevels(levels)
                       \subseteq KeysIn(buf') \cup KeysOfLevels(levels')
  <2>3. ASSUME NEW k \in Key, NEW v \in PutValue, Put(k, v)
        PROVE  Kept
    BY <2>3, InsertedItems, InsertKeepsKeys DEF Put
  <2>4. ASSUME NEW k \in Key, Delete(k)
        PROVE  Kept
    BY <2>4, InsertedItems, InsertKeepsKeys DEF Delete
  <2>5. ASSUME NEW lo \in Key, NEW hi \in Key, Search(lo, hi)
        PROVE  Kept
    BY <2>5 DEF Search
  <2>6. ~ (Close \/ Kill \/ KillInFlush)
    <3>1. ~ Reopen
      BY DEF Reopen
    <3> QED
      BY <3>1 DEF Close, Kill, KillInFlush
  <2>7. Kept
    BY <2>3, <2>4, <2>5, <2>6 DEF Next
  <2> QED
    BY <2>1, <2>2, <2>7
<1> QED
  BY <1>1, DiskInvariant, PTL DEF Spec, NothingDropped

-----------------------------------------------------------------------------
(* What a flush leaves behind.                                             *)

(* If unlink gets the names it is meant to, a file on disk that is not one *)
(* of the tree was not before the flush: the files of the merged levels    *)
(* are deleted before those of the new run are written, and a name that is *)
(* used again is that of a live file.                                      *)
LEMMA FlushLeavesNothing ==
  ASSUME DiskInv, UnlinkWorks = {TRUE}, NEW t \in 1..Len(levels) + 1,
         NEW names \in Unlinked(NamesIn(SubSeq(levels, 1, t - 1))), FlushedTo(t, names),
         NEW name \in DOMAIN disk', name \notin LiveNames'
  PROVE  name \in DOMAIN disk /\ name \notin LiveNames
<1> DEFINE above == SubSeq(levels, 1, t - 1)
           tuples == Sort!_Sort(Gathered(t))
           id == Len(RunsOf(t))
           run == NewFiles(t, id, tuples)
           new == FlushedLevels(t, run)
<1>1. /\ levels \in Seq(LevelOfRuns) /\ Len(levels) \in Nat
      /\ t \in Nat \ {0} /\ t <= Len(levels) + 1
  BY DEF DiskInv
<1>2. /\ above \in Seq(LevelOfRuns) /\ Len(above) = t - 1
      /\ \A l \in 1..t - 1 : above[l] = levels[l]
  BY <1>1
<1>3. /\ tuples \in Seq(Sort!Tuple)
      /\ \A p, q \in DOMAIN tuples : p < q => tuples[p].key < tuples[q].key
  BY <1>1, GatheredReads, SortGives
<1>4. levels' = new /\ disk' = Written(Without(names), run, tuples, Len(run))
  BY DEF FlushedTo
<1> HIDE DEF tuples, above
<1>5. id \in Nat
  <2>1. CASE t <= Len(levels)
    BY <1>1, <2>1, LevelFacts DEF RunsOf
  <2>2. CASE ~(t <= Len(levels))
    BY <1>1, <2>2 DEF RunsOf
  <2> QED
    BY <2>1, <2>2
<1>6. run \in RunOfFiles /\ Len(run) \in Nat
  <2>1. run \in RunOfFiles
    BY <1>1, <1>3, <1>5, NewRun
  <2> QED
    BY <2>1 DEF RunOfFiles
<1>7. \A f \in 1..Len(run) : run[f].name = <<t - 1, id, f - 1>>
  BY <1>6, FilesNamed DEF RunOfFiles
<1> HIDE DEF run, id
<1> DEFINE last == Len(RunsOf(t)) + 1
<1>8. /\ new \in Seq(LevelOfRuns)
      /\ t \in 1..Len(new) /\ last \in 1..Len(new[t]) /\ new[t][last] = run
      /\ \A l \in t..Len(levels) : \A r \in 1..Len(levels[l]) :
           l \in 1..Len(new) /\ r \in 1..Len(new[l]) /\ new[l][r] = levels[l][r]
  BY <1>1, <1>6, FlushedShape, SMTT(60)
<1> HIDE DEF new, last
<1>9. ~NamesFile(new, name)
  BY <1>4, <1>8, NamesAreOfFiles DEF LiveNames
<1>10. \A f \in 1..Len(run) : name # run[f].name
  BY <1>8, <1>9 DEF NamesFile
<1>11. names = NamesIn(above)
  BY DEF Unlinked, above
<1>12. DOMAIN disk' = DOMAIN Without(names) \cup {run[f].name : f \in 1..Len(run)}
  <2>1. ASSUME NEW f \in 1..Len(run), NEW g \in 1..Len(run), run[f].name = run[g].name
        PROVE  f = g
    <3>1. <<t - 1, id, f - 1>> = <<t - 1, id, g - 1>>
      BY <1>7, <2>1
    <3>2. f - 1 = g - 1
      BY <3>1
    <3> QED
      BY <1>6, <3>2
  <2>2. WrittenIs(Without(names), run, tuples, Len(run))
    BY <1>6, <2>1, WrittenDisk DEF OwnNames
  <2> QED
    BY <1>4, <2>2 DEF WrittenIs
<1>13. name \in DOMAIN disk /\ ~NamesFile(above, name)
  <2>1. name \in DOMAIN Without(names)
    BY <1>10, <1>12
  <2> QED
    BY <1>2, <1>11, <2>1, NamesAreOfFiles DEF Without
<1>14. ~NamesFile(levels, name)
  <2> SUFFICES ASSUME NamesFile(levels, name) PROVE FALSE
    OBVIOUS
  <2>1. PICK l \in 1..Len(levels) :
          \E r \in 1..Len(levels[l]) : \E f \in 1..Len(levels[l][r]) : name = levels[l][r][f].name
    BY DEF NamesFile
  <2>2. l \notin t..Len(levels)
    <3> SUFFICES ASSUME l \in t..Len(levels) PROVE FALSE
      OBVIOUS
    <3>1. PICK r \in 1..Len(levels[l]) : \E f \in 1..Len(levels[l][r]) : name = levels[l][r][f].name
      BY <2>1
    <3>2. l \in 1..Len(new) /\ r \in 1..Len(new[l]) /\ new[l][r] = levels[l][r]
      BY <1>8, <3>1
    <3>3. PICK f \in 1..Len(new[l][r]) : name = new[l][r][f].name
      BY <3>1, <3>2
    <3>4. NamesFile(new, name)
      BY <3>2, <3>3 DEF NamesFile
    <3> QED
      BY <1>9, <3>4
  <2>3. l \in 1..Len(above) /\ above[l] = levels[l]
    BY <1>1, <1>2, <2>2
  <2> QED
    BY <1>13, <2>1, <2>3 DEF NamesFile
<1> QED
  BY <1>1, <1>13, <1>14, NamesAreOfFiles DEF LiveNames

(* So no insert adds to what is on disk and not in the tree.               *)
LEMMA InsertLeavesNothing ==
  ASSUME DiskInv, UnlinkWorks = {TRUE}, NEW k, NEW items, Insert(k, items)
  PROVE  DOMAIN disk' \ LiveNames' \subseteq DOMAIN disk \ LiveNames
<1>1. CASE AppendTuple(k, items)
  BY <1>1 DEF AppendTuple, LiveNames
<1>2. CASE FlushAndAppend(k, items)
  <2>1. levels \in Seq(LevelOfRuns)
    BY DEF DiskInv
  <2>2. PICK t \in 1..Len(levels) + 1 :
          \E names \in Unlinked(NamesIn(SubSeq(levels, 1, t - 1))) : FlushedTo(t, names)
    BY <1>2, <2>1, FlushIsTo
  <2>3. PICK names \in Unlinked(NamesIn(SubSeq(levels, 1, t - 1))) : FlushedTo(t, names)
    BY <2>2
  <2> QED
    BY <2>3, FlushLeavesNothing
<1> QED
  BY <1>1, <1>2 DEF Insert

(* While a tree lives it leaves no file behind, if unlink is given the     *)
(* names of the files.  So the dangling pointer of DeleteFMD (Run.cpp:356) *)
(* is the one cause of the orphans that its merges leave: no order of      *)
(* merges, deletions and writes forgets a file or takes a name from one    *)
(* that is still there (Level::_Clear, Run::DeleteFMD, Run::AddNewFMD).    *)
THEOREM NoOrphansIfUnlinkWorks ==
  ASSUME UnlinkWorks = {TRUE}
  PROVE  Spec => NoFileLeftBehind
<1> DEFINE Same == DOMAIN disk' \ LiveNames' \subseteq DOMAIN disk \ LiveNames
<1>1. DiskInv /\ [Next]_vars =>
        [call'.op # "open" => (LiveNames \ LiveNames') \cap DOMAIN disk' = {}]_vars
  <2> SUFFICES ASSUME DiskInv, Next, call'.op # "open"
               PROVE  Same
    BY Zenon
  <2>1. ASSUME NEW k \in Key, NEW v \in PutValue, Put(k, v)
        PROVE  Same
    BY <2>1, InsertLeavesNothing DEF Put
  <2>2. ASSUME NEW k \in Key, Delete(k)
        PROVE  Same
    BY <2>2, InsertLeavesNothing DEF Delete
  <2>3. ASSUME NEW lo \in Key, NEW hi \in Key, Search(lo, hi)
        PROVE  Same
    BY <2>3 DEF Search, LiveNames
  <2>4. ~ (Close \/ Kill \/ KillInFlush)
    <3>1. ~ Reopen
      BY DEF Reopen
    <3> QED
      BY <3>1 DEF Close, Kill, KillInFlush
  <2> QED
    BY <2>1, <2>2, <2>3, <2>4 DEF Next
<1> QED
  BY <1>1, DiskInvariant, PTL DEF Spec, NoFileLeftBehind

(* And if no process is killed, the directory is the tree: there are the   *)
(* files of the live runs and no others, and none when a tree is closed    *)
(* (~LSM_T, ~Level, ~Run).                                                 *)
DirectoryIsTheTree == DOMAIN disk = LiveNames

THEOREM DirectoryStaysTheTree ==
  ASSUME UnlinkWorks = {TRUE}, Ends \subseteq {"close"}
  PROVE  Spec => []DirectoryIsTheTree
<1> DEFINE NothingElse == DOMAIN disk \subseteq LiveNames
<1>1. Init => NothingElse
  BY DEF Init
<1>2. DiskInv /\ NothingElse /\ [Next]_vars => NothingElse'
  <2> SUFFICES ASSUME DiskInv, NothingElse, [Next]_vars
               PROVE  DOMAIN disk' \subseteq LiveNames'
    OBVIOUS
  <2>1. ASSUME NEW k \in Key, NEW v \in PutValue, Put(k, v)
        PROVE  DOMAIN disk' \subseteq LiveNames'
    BY <2>1, InsertLeavesNothing DEF Put
  <2>2. ASSUME NEW k \in Key, Delete(k)
        PROVE  DOMAIN disk' \subseteq LiveNames'
    BY <2>2, InsertLeavesNothing DEF Delete
  <2>3. ASSUME NEW lo \in Key, NEW hi \in Key, Search(lo, hi)
        PROVE  DOMAIN disk' \subseteq LiveNames'
    BY <2>3 DEF Search, LiveNames
  <2>4. CASE Close
    <3>1. disk' = Without(NamesIn(levels))
      BY <2>4 DEF Close, Unlinked
    <3> QED
      BY <3>1 DEF Without, LiveNames
  <2>5. ~ (Kill \/ KillInFlush)
    BY DEF Kill, KillInFlush
  <2>6. CASE UNCHANGED vars
    BY <2>6 DEF vars, LiveNames
  <2> QED
    BY <2>1, <2>2, <2>3, <2>4, <2>5, <2>6 DEF Next
<1>3. DiskInv /\ NothingElse => DirectoryIsTheTree
  <2> SUFFICES ASSUME DiskInv, NothingElse, NEW name \in LiveNames
               PROVE  name \in DOMAIN disk
    BY DEF DirectoryIsTheTree
  <2>1. levels \in Seq(LevelOfRuns) /\ AllOnDisk(levels, disk)
    BY DEF DiskInv
  <2>2. NamesFile(levels, name)
    BY <2>1, NamesAreOfFiles DEF LiveNames
  <2> QED
    BY <2>1, <2>2 DEF NamesFile, AllOnDisk, IsOnDisk
<1> QED
  BY <1>1, <1>2, <1>3, DiskInvariant, PTL DEF Spec
=============================================================================
