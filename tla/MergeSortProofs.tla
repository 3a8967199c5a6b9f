-------------------------- MODULE MergeSortProofs ---------------------------
(***************************************************************************)
(* The sort of a merge does what a merge needs, for tuples of any kind.    *)
(*                                                                         *)
(* That the leftmost copy of a key stays is stated of the set Firsts of    *)
(* the leftmost copies: a merge of ordered halves keeps those of the left  *)
(* half and adds those of the right half that have a key of their own, as  *)
(* putting the halves one after the other does.                            *)
(***************************************************************************)
EXTENDS MergeSort, BasicProofs, SequenceTheorems

KeysOf(s) == {s[i].key : i \in DOMAIN s}

IsFirst(s, p) == \A q \in 1..p - 1 : s[q].key # s[p].key

(* The leftmost copy of every key.                                         *)
Firsts(s) == {s[p] : p \in {i \in DOMAIN s : IsFirst(s, i)}}

Ordered(s) == \A i, j \in DOMAIN s : i <= j => s[i].key <= s[j].key

Ascends(s) == \A i, j \in DOMAIN s : i < j => s[i].key < s[j].key

-----------------------------------------------------------------------------
(* Sequences of tuples.                                                    *)

(* The key of a tuple is an integer.                                       *)
LEMMA TupleFacts == \A t \in Tuple : t.key \in Key /\ t.key \in Int
  BY SortAssumption DEF Tuple

(* The elements of a sequence of tuples.                                   *)
LEMMA TuplesFacts ==
  ASSUME NEW s \in Seq(Tuple)
  PROVE  /\ Len(s) \in Nat /\ DOMAIN s = 1..Len(s)
         /\ \A i \in 1..Len(s) : s[i] \in Tuple /\ s[i].key \in Int
  BY TupleFacts

(* A single tuple is the first of its key.                                 *)
LEMMA OneTuple ==
  ASSUME NEW t \in Tuple
  PROVE  /\ <<t>> \in Seq(Tuple)
         /\ KeysOf(<<t>>) = {t.key}
         /\ Firsts(<<t>>) = {t}
<1>1. DOMAIN <<t>> = {1} /\ <<t>>[1] = t
  OBVIOUS
<1>2. IsFirst(<<t>>, 1)
  BY DEF IsFirst
<1> QED
  BY <1>1, <1>2 DEF KeysOf, Firsts

(* One sequence after another: of a key in both the first tuple is in the  *)
(* left one.                                                               *)
LEMMA Concatenated ==
  ASSUME NEW A \in Seq(Tuple), NEW B \in Seq(Tuple)
  PROVE  /\ A \o B \in Seq(Tuple)
         /\ KeysOf(A \o B) = KeysOf(A) \cup KeysOf(B)
         /\ Firsts(A \o B) = Firsts(A) \cup {t \in Firsts(B) : t.key \notin KeysOf(A)}
<1> DEFINE s == A \o B
           a == Len(A)
           b == Len(B)
<1>1. /\ a \in Nat /\ b \in Nat /\ DOMAIN A = 1..a /\ DOMAIN B = 1..b
      /\ s \in Seq(Tuple) /\ DOMAIN s = 1..a + b
      /\ \A i \in 1..a : s[i] = A[i]
      /\ \A i \in 1..b : s[a + i] = B[i]
  OBVIOUS
<1> HIDE DEF s, a, b
<1>2. \A i \in 1..a + b : i \in 1..a \/ (i - a \in 1..b /\ a + (i - a) = i)
  BY <1>1
<1>3. KeysOf(s) = KeysOf(A) \cup KeysOf(B)
  <2>1. KeysOf(A) \subseteq KeysOf(s) /\ KeysOf(B) \subseteq KeysOf(s)
    <3>1. ASSUME NEW i \in 1..a PROVE A[i].key \in KeysOf(s)
      <4>1. i \in DOMAIN s /\ s[i] = A[i]
        BY <1>1
      <4> QED
        BY <4>1 DEF KeysOf
    <3>2. ASSUME NEW i \in 1..b PROVE B[i].key \in KeysOf(s)
      <4>1. a + i \in DOMAIN s /\ s[a + i] = B[i]
        BY <1>1
      <4> QED
        BY <4>1 DEF KeysOf
    <3> QED
      BY <1>1, <3>1, <3>2 DEF KeysOf
  <2>2. KeysOf(s) \subseteq KeysOf(A) \cup KeysOf(B)
    <3> SUFFICES ASSUME NEW i \in 1..a + b PROVE s[i].key \in KeysOf(A) \cup KeysOf(B)
      BY <1>1 DEF KeysOf
    <3>1. CASE i \in 1..a
      BY <1>1, <3>1 DEF KeysOf
    <3>2. CASE i - a \in 1..b /\ a + (i - a) = i
      <4>1. s[i] = B[i - a]
        BY <1>1, <3>2
      <4> QED
        BY <1>1, <3>2, <4>1 DEF KeysOf
    <3> QED
      BY <1>2, <3>1, <3>2
  <2> QED
    BY <2>1, <2>2
<1>4. ASSUME NEW i \in 1..a PROVE IsFirst(s, i) <=> IsFirst(A, i)
  <2>1. \A q \in 1..i - 1 : q \in 1..a
    BY <1>1
  <2> QED
    BY <1>1, <2>1 DEF IsFirst
<1>5. ASSUME NEW i \in 1..b
      PROVE  IsFirst(s, a + i) <=> IsFirst(B, i) /\ B[i].key \notin KeysOf(A)
  <2>1. ASSUME IsFirst(s, a + i) PROVE IsFirst(B, i) /\ B[i].key \notin KeysOf(A)
    <3>1. \A q \in 1..a + i - 1 : s[q].key # B[i].key
      BY <1>1, <2>1 DEF IsFirst
    <3>2. \A q \in 1..i - 1 : a + q \in 1..a + i - 1 /\ q \in 1..b
      BY <1>1
    <3>3. \A q \in 1..a : q \in 1..a + i - 1
      BY <1>1
    <3> QED
      BY <1>1, <3>1, <3>2, <3>3 DEF IsFirst, KeysOf
  <2>2. ASSUME IsFirst(B, i), B[i].key \notin KeysOf(A) PROVE IsFirst(s, a + i)
    <3> SUFFICES ASSUME NEW q \in 1..a + i - 1 PROVE s[q].key # B[i].key
      BY <1>1 DEF IsFirst
    <3>1. CASE q \in 1..a
      BY <1>1, <2>2, <3>1 DEF KeysOf
    <3>2. CASE q \notin 1..a
      <4>1. q - a \in 1..i - 1 /\ q - a \in 1..b /\ a + (q - a) = q
        BY <1>1, <3>2
      <4>2. s[q] = B[q - a]
        BY <1>1, <4>1
      <4> QED
        BY <2>2, <4>1, <4>2 DEF IsFirst
    <3> QED
      BY <3>1, <3>2
  <2> QED
    BY <2>1, <2>2
<1>6. Firsts(s) = Firsts(A) \cup {t \in Firsts(B) : t.key \notin KeysOf(A)}
  <2>1. ASSUME NEW t \in Firsts(A) PROVE t \in Firsts(s)
    <3>1. PICK i \in 1..a : IsFirst(A, i) /\ t = A[i]
      BY <1>1 DEF Firsts
    <3>2. i \in DOMAIN s /\ s[i] = t /\ IsFirst(s, i)
      BY <1>1, <1>4, <3>1
    <3> QED
      BY <3>2 DEF Firsts
  <2>2. ASSUME NEW t \in Firsts(B), t.key \notin KeysOf(A) PROVE t \in Firsts(s)
    <3>1. PICK i \in 1..b : IsFirst(B, i) /\ t = B[i]
      BY <1>1 DEF Firsts
    <3>2. a + i \in DOMAIN s /\ s[a + i] = t /\ IsFirst(s, a + i)
      BY <1>1, <1>5, <2>2, <3>1
    <3> QED
      BY <3>2 DEF Firsts
  <2>3. ASSUME NEW t \in Firsts(s)
        PROVE  t \in Firsts(A) \/ (t \in Firsts(B) /\ t.key \notin KeysOf(A))
    <3>1. PICK i \in 1..a + b : IsFirst(s, i) /\ t = s[i]
      BY <1>1 DEF Firsts
    <3>2. CASE i \in 1..a
      BY <1>1, <1>4, <3>1, <3>2 DEF Firsts
    <3>3. CASE i - a \in 1..b /\ a + (i - a) = i
      <4> DEFINE j == i - a
      <4>1. j \in 1..b /\ a + j = i
        BY <3>3
      <4> HIDE DEF j
      <4>2. t = B[j] /\ IsFirst(B, j) /\ B[j].key \notin KeysOf(A)
        BY <1>1, <1>5, <3>1, <4>1
      <4> QED
        BY <1>1, <4>1, <4>2 DEF Firsts
    <3> QED
      BY <1>2, <3>2, <3>3
  <2> QED
    BY <2>1, <2>2, <2>3
<1> QED
  BY <1>1, <1>3, <1>6 DEF s

(* The same with one tuple on the left.                                    *)
LEMMA Prepended ==
  ASSUME NEW t \in Tuple, NEW s \in Seq(Tuple)
  PROVE  /\ <<t>> \o s \in Seq(Tuple)
         /\ KeysOf(<<t>> \o s) = {t.key} \cup KeysOf(s)
         /\ Firsts(<<t>> \o s) = {t} \cup {u \in Firsts(s) : u.key # t.key}
<1> DEFINE one == <<t>>
<1>1. one \in Seq(Tuple) /\ KeysOf(one) = {t.key} /\ Firsts(one) = {t}
  BY OneTuple
<1> HIDE DEF one
<1>2. /\ one \o s \in Seq(Tuple)
      /\ KeysOf(one \o s) = KeysOf(one) \cup KeysOf(s)
      /\ Firsts(one \o s) = Firsts(one) \cup {u \in Firsts(s) : u.key \notin KeysOf(one)}
  BY <1>1, Concatenated
<1>3. Firsts(one \o s) = {t} \cup {u \in Firsts(s) : u.key # t.key}
  BY <1>1, <1>2
<1> QED
  BY <1>1, <1>2, <1>3 DEF one

(* A sequence is its first element and the rest.                           *)
LEMMA FirstAndRest ==
  ASSUME NEW s \in Seq(Tuple), s # <<>>
  PROVE  /\ s[1] \in Tuple /\ Tail(s) \in Seq(Tuple)
         /\ Len(Tail(s)) = Len(s) - 1 /\ Len(s) \in Nat \ {0}
         /\ s = <<s[1]>> \o Tail(s)
         /\ \A i \in 1..Len(Tail(s)) : Tail(s)[i] = s[i + 1]
<1>1. Len(s) \in Nat \ {0}
  BY EmptySeq
<1>2. /\ s[1] \in Tuple /\ Tail(s) \in Seq(Tuple) /\ Len(Tail(s)) = Len(s) - 1
      /\ \A i \in 1..Len(Tail(s)) : Tail(s)[i] = s[i + 1]
  BY <1>1
<1> DEFINE t == <<s[1]>> \o Tail(s)
<1>3. t \in Seq(Tuple) /\ Len(t) = Len(s)
  BY <1>1, <1>2
<1>4. ASSUME NEW i \in 1..Len(s) PROVE t[i] = s[i]
  BY <1>1, <1>2
<1> HIDE DEF t
<1>5. t = s
  BY <1>3, <1>4, SeqEqual
<1> QED
  BY <1>1, <1>2, <1>5 DEF t

(* An ordered sequence after a tuple with no greater key is ordered.       *)
LEMMA OrderedAfter ==
  ASSUME NEW t \in Tuple, NEW s \in Seq(Tuple), Ordered(s),
         \A k \in KeysOf(s) : t.key <= k
  PROVE  Ordered(<<t>> \o s)
<1> DEFINE u == <<t>> \o s
<1>1. /\ u \in Seq(Tuple) /\ DOMAIN u = 1..Len(s) + 1 /\ Len(s) \in Nat
      /\ u[1] = t /\ \A i \in 1..Len(s) : u[i + 1] = s[i]
  OBVIOUS
<1>2. DOMAIN s = 1..Len(s) /\ \A i \in 1..Len(s) : s[i].key \in KeysOf(s)
  BY DEF KeysOf
<1> HIDE DEF u
<1>3. ASSUME NEW i \in 2..Len(s) + 1
      PROVE  i - 1 \in 1..Len(s) /\ u[i] = s[i - 1]
  <2>1. i - 1 \in 1..Len(s) /\ (i - 1) + 1 = i
    BY <1>1
  <2> QED
    BY <1>1, <2>1
<1>4. ASSUME NEW i \in 1..Len(s) + 1, NEW j \in 1..Len(s) + 1, i <= j
      PROVE  u[i].key <= u[j].key
  <2>1. CASE i = 1 /\ j = 1
    BY <1>1, <2>1, TupleFacts
  <2>2. CASE i = 1 /\ j # 1
    <3>1. j \in 2..Len(s) + 1
      BY <1>1, <2>2
    <3> QED
      BY <1>1, <1>2, <1>3, <2>2, <3>1
  <2>3. CASE i # 1
    <3>1. i \in 2..Len(s) + 1 /\ j \in 2..Len(s) + 1 /\ i - 1 <= j - 1
      BY <1>1, <1>4, <2>3
    <3> QED
      BY <1>2, <1>3, <3>1 DEF Ordered
  <2> QED
    BY <2>1, <2>2, <2>3
<1> QED
  BY <1>1, <1>4 DEF Ordered, u

(* An ordered sequence begins with a least key, and its rest is ordered.   *)
LEMMA OrderedRest ==
  ASSUME NEW s \in Seq(Tuple), s # <<>>, Ordered(s)
  PROVE  /\ Ordered(Tail(s))
         /\ \A k \in KeysOf(s) : s[1].key <= k
<1>1. /\ Len(s) \in Nat \ {0} /\ Tail(s) \in Seq(Tuple) /\ Len(Tail(s)) = Len(s) - 1
      /\ \A i \in 1..Len(Tail(s)) : Tail(s)[i] = s[i + 1]
      /\ DOMAIN s = 1..Len(s)
  BY FirstAndRest
<1>2. DOMAIN Tail(s) = 1..Len(s) - 1
  BY <1>1
<1>3. Ordered(Tail(s))
  <2> SUFFICES ASSUME NEW i \in 1..Len(s) - 1, NEW j \in 1..Len(s) - 1, i <= j
               PROVE  Tail(s)[i].key <= Tail(s)[j].key
    BY <1>2 DEF Ordered
  <2>1. Tail(s)[i] = s[i + 1] /\ Tail(s)[j] = s[j + 1]
    BY <1>1
  <2>2. i + 1 \in DOMAIN s /\ j + 1 \in DOMAIN s /\ i + 1 <= j + 1
    BY <1>1
  <2> QED
    BY <2>1, <2>2 DEF Ordered
<1>4. ASSUME NEW i \in 1..Len(s) PROVE s[1].key <= s[i].key
  BY <1>1 DEF Ordered
<1> QED
  BY <1>1, <1>3, <1>4 DEF KeysOf

-----------------------------------------------------------------------------
(* merge.                                                                  *)

(* The recursion of merge ends: it is the function its definition says.    *)
LEMMA MergeDefined ==
  /\ merge \in [Seq(Tuple) \X Seq(Tuple) -> Seq(Tuple)]
  /\ \A L, R \in Seq(Tuple) :
       merge[<<L, R>>] =
         IF L = <<>> THEN R
         ELSE IF R = <<>> THEN L
         ELSE IF L[1].key <= R[1].key
              THEN <<L[1]>> \o merge[<<Tail(L), R>>]
              ELSE <<R[1]>> \o merge[<<L, Tail(R)>>]
<1> DEFINE D == Seq(Tuple) \X Seq(Tuple)
           V == Seq(Tuple)
           E(halves, f) ==
             LET L == halves[1]
                 R == halves[2]
             IN  IF L = <<>> THEN R
                 ELSE IF R = <<>> THEN L
                 ELSE IF L[1].key <= R[1].key
                      THEN <<L[1]>> \o f[<<Tail(L), R>>]
                      ELSE <<R[1]>> \o f[<<L, Tail(R)>>]
           rank == [d \in D |-> Len(d[1]) + Len(d[2])]
           step == [p \in D \X [D -> V] |-> E(p[1], p[2])]
<1>1. ASSUME NEW d \in D, NEW g \in [D -> V] PROVE E(d, g) \in V
  <2>1. d[1] \in V /\ d[2] \in V
    OBVIOUS
  <2>2. CASE d[1] # <<>> /\ d[2] # <<>>
    <3>1. <<Tail(d[1]), d[2]>> \in D /\ <<d[1], Tail(d[2])>> \in D
      BY <2>1, <2>2, FirstAndRest
    <3>2. d[1][1] \in Tuple /\ d[2][1] \in Tuple
      BY <2>1, <2>2, FirstAndRest
    <3>3. g[<<Tail(d[1]), d[2]>>] \in V /\ g[<<d[1], Tail(d[2])>>] \in V
      BY <3>1
    <3> QED
      BY <2>2, <3>2, <3>3, ConcatProperties, OneTuple
  <2> QED
    BY <2>1, <2>2
<1>2. ASSUME NEW d \in D, NEW g, NEW h, \A y \in D : rank[y] < rank[d] => g[y] = h[y]
      PROVE  E(d, g) = E(d, h)
  <2>1. d[1] \in V /\ d[2] \in V
    OBVIOUS
  <2>2. CASE d[1] # <<>> /\ d[2] # <<>>
    <3>1. <<Tail(d[1]), d[2]>> \in D /\ <<d[1], Tail(d[2])>> \in D
      BY <2>1, <2>2, FirstAndRest
    <3>2. rank[<<Tail(d[1]), d[2]>>] < rank[d] /\ rank[<<d[1], Tail(d[2])>>] < rank[d]
      BY <2>1, <2>2, <3>1, FirstAndRest
    <3> QED
      BY <1>2, <2>2, <3>1, <3>2
  <2> QED
    BY <2>1, <2>2
<1>3. rank \in [D -> Nat]
  <2>1. \A d \in D : d[1] \in V /\ d[2] \in V
    OBVIOUS
  <2>2. \A s \in V : Len(s) \in Nat
    BY LenProperties
  <2>3. ASSUME NEW d \in D PROVE Len(d[1]) + Len(d[2]) \in Nat
    <3>1. Len(d[1]) \in Nat /\ Len(d[2]) \in Nat
      BY <2>1, <2>2
    <3> QED
      BY <3>1
  <2> QED
    BY <2>3
<1> HIDE DEF E, rank, D, V
<1>4. /\ step \in [D \X [D -> V] -> V]
      /\ \A d \in D : \A g \in [D -> V] : step[<<d, g>>] = E(d, g)
  BY <1>1
<1> HIDE DEF step
<1>5. ASSUME NEW d \in D, NEW g \in [D -> V], NEW h \in [D -> V],
             \A y \in D : rank[y] < rank[d] => g[y] = h[y]
      PROVE  step[<<d, g>>] = step[<<d, h>>]
  <2>1. E(d, g) = E(d, h)
    BY <1>2, <1>5
  <2> QED
    BY <1>4, <2>1
<1>6. V # {}
  <2>1. <<>> \in V
    BY DEF V
  <2> QED
    BY <2>1 DEF V
<1>7. PICK f \in [D -> V] : \A d \in D : f[d] = step[<<d, f>>]
  <2>1. WellFoundedStep(D, V, rank, step)
    BY <1>3, <1>4, <1>5, <1>6 DEF WellFoundedStep
  <2> QED
    BY <2>1, RecursiveFunction
<1>8. f = [d \in D |-> E(d, f)]
  BY <1>4, <1>7
<1>9. merge = [d \in D |-> E(d, merge)]
  BY <1>8, Zenon DEF merge, D, E
<1>10. D \subseteq {d \in D : merge[d] = f[d]}
  <2> DEFINE S == {d \in D : merge[d] = f[d]}
  <2>1. ASSUME NEW d \in D, \A y \in D : rank[y] < rank[d] => y \in S
        PROVE  d \in S
    <3>1. E(d, merge) = E(d, f)
      BY <1>2, <2>1
    <3>2. merge[d] = E(d, merge) /\ f[d] = E(d, f)
      BY <1>8, <1>9, Zenon
    <3> QED
      BY <3>1, <3>2
  <2> HIDE DEF S
  <2>2. D \subseteq S
    BY <1>3, <2>1, InductionOnRank
  <2> QED
    BY <2>2 DEF S
<1>11. merge \in [D -> V]
  <2>1. \A d \in D : merge[d] \in V
    BY <1>7, <1>10
  <2> QED
    BY <1>9, <2>1
<1>12. \A L, R \in V : merge[<<L, R>>] = E(<<L, R>>, merge)
  <2>1. \A L, R \in V : <<L, R>> \in D
    BY DEF D, V
  <2> QED
    BY <1>9, <2>1, Zenon
<1> QED
  BY <1>11, <1>12, ZenonT(30) DEF D, V, E

(* What merging is to give: an ordered sequence with what L \o R has.      *)
Merged(m, L, R) ==
  /\ m \in Seq(Tuple)
  /\ Ordered(m)
  /\ KeysOf(m) = KeysOf(L) \cup KeysOf(R)
  /\ Firsts(m) = Firsts(L) \cup {t \in Firsts(R) : t.key \notin KeysOf(L)}

(* Of no tuples.                                                           *)
LEMMA NoTuples == KeysOf(<<>>) = {} /\ Firsts(<<>>) = {} /\ Ordered(<<>>)
  BY DEF KeysOf, Firsts, Ordered

(* The first tuples of keys have keys that are there.                      *)
LEMMA KeysOfFirsts == \A s : \A t \in Firsts(s) : t.key \in KeysOf(s)
  BY DEF Firsts, KeysOf

(* One step of merge, the left half having the tuple of the lower key or   *)
(* the right half.                                                         *)
LEMMA TakeLeft ==
  ASSUME NEW L \in Seq(Tuple), NEW R \in Seq(Tuple), Ordered(L), Ordered(R),
         L # <<>>, R # <<>>, L[1].key <= R[1].key,
         NEW m, Merged(m, Tail(L), R)
  PROVE  Merged(<<L[1]>> \o m, L, R)
<1> DEFINE t == L[1]
<1>1. /\ t \in Tuple /\ Tail(L) \in Seq(Tuple) /\ m \in Seq(Tuple) /\ Ordered(m)
      /\ L = <<t>> \o Tail(L)
  BY FirstAndRest DEF Merged
<1>2. /\ KeysOf(L) = {t.key} \cup KeysOf(Tail(L))
      /\ Firsts(L) = {t} \cup {u \in Firsts(Tail(L)) : u.key # t.key}
  BY <1>1, Prepended
<1>3. /\ <<t>> \o m \in Seq(Tuple)
      /\ KeysOf(<<t>> \o m) = {t.key} \cup KeysOf(m)
      /\ Firsts(<<t>> \o m) = {t} \cup {u \in Firsts(m) : u.key # t.key}
  BY <1>1, Prepended
<1>4. ASSUME NEW k \in KeysOf(m) PROVE t.key <= k
  <2>1. k \in KeysOf(L) \/ k \in KeysOf(R)
    BY <1>2 DEF Merged
  <2>2. \A r \in KeysOf(R) : R[1].key <= r /\ r \in Int
    BY OrderedRest, TuplesFacts DEF KeysOf
  <2>3. \A l \in KeysOf(L) : t.key <= l
    BY OrderedRest
  <2>4. t.key \in Int /\ R[1].key \in Int
    BY <1>1, FirstAndRest, TupleFacts
  <2> QED
    BY <2>1, <2>2, <2>3, <2>4
<1>5. Ordered(<<t>> \o m)
  BY <1>1, <1>4, OrderedAfter
<1> HIDE DEF t
<1>6. /\ KeysOf(<<t>> \o m) = KeysOf(L) \cup KeysOf(R)
      /\ Firsts(<<t>> \o m) = Firsts(L) \cup {u \in Firsts(R) : u.key \notin KeysOf(L)}
  BY <1>2, <1>3 DEF Merged
<1> QED
  BY <1>3, <1>5, <1>6 DEF Merged, t

(* The same for the right half, whose key is then not in the left one.     *)
LEMMA TakeRight ==
  ASSUME NEW L \in Seq(Tuple), NEW R \in Seq(Tuple), Ordered(L), Ordered(R),
         L # <<>>, R # <<>>, ~(L[1].key <= R[1].key),
         NEW m, Merged(m, L, Tail(R))
  PROVE  Merged(<<R[1]>> \o m, L, R)
<1> DEFINE t == R[1]
<1>1. /\ t \in Tuple /\ Tail(R) \in Seq(Tuple) /\ m \in Seq(Tuple) /\ Ordered(m)
      /\ R = <<t>> \o Tail(R)
  BY FirstAndRest DEF Merged
<1>2. /\ KeysOf(R) = {t.key} \cup KeysOf(Tail(R))
      /\ Firsts(R) = {t} \cup {u \in Firsts(Tail(R)) : u.key # t.key}
  BY <1>1, Prepended
<1>3. /\ <<t>> \o m \in Seq(Tuple)
      /\ KeysOf(<<t>> \o m) = {t.key} \cup KeysOf(m)
      /\ Firsts(<<t>> \o m) = {t} \cup {u \in Firsts(m) : u.key # t.key}
  BY <1>1, Prepended
<1>4. /\ \A l \in KeysOf(L) : l \in Int /\ t.key < l
      /\ \A r \in KeysOf(R) : t.key <= r
      /\ t.key \in Int
  <2>1. \A l \in KeysOf(L) : L[1].key <= l /\ l \in Int
    BY OrderedRest, TuplesFacts DEF KeysOf
  <2>2. \A r \in KeysOf(R) : t.key <= r
    BY OrderedRest
  <2>3. t.key \in Int /\ L[1].key \in Int
    BY <1>1, FirstAndRest, TupleFacts
  <2> QED
    BY <2>1, <2>2, <2>3
<1> HIDE DEF t
<1>5. \A k \in KeysOf(m) : t.key <= k
  BY <1>2, <1>4 DEF Merged
<1>6. Ordered(<<t>> \o m)
  BY <1>1, <1>5, OrderedAfter
<1>7. t.key \notin KeysOf(L)
  BY <1>4
<1>8. \A u \in Firsts(L) : u.key # t.key
  BY <1>7, KeysOfFirsts
<1>9. /\ KeysOf(<<t>> \o m) = KeysOf(L) \cup KeysOf(R)
      /\ Firsts(<<t>> \o m) = Firsts(L) \cup {u \in Firsts(R) : u.key \notin KeysOf(L)}
  BY <1>2, <1>3, <1>7, <1>8 DEF Merged
<1> QED
  BY <1>3, <1>6, <1>9 DEF Merged, t

(* merge gives that of ordered halves, by induction on how long they are.  *)
LEMMA MergeMerges ==
  ASSUME NEW L \in Seq(Tuple), NEW R \in Seq(Tuple), Ordered(L), Ordered(R)
  PROVE  Merged(merge[<<L, R>>], L, R)
<1> DEFINE D == Seq(Tuple) \X Seq(Tuple)
           rank == [d \in D |-> Len(d[1]) + Len(d[2])]
           S == {d \in D : Ordered(d[1]) /\ Ordered(d[2]) => Merged(merge[d], d[1], d[2])}
<1>1. rank \in [D -> Nat] /\ \A A, B \in Seq(Tuple) : rank[<<A, B>>] = Len(A) + Len(B)
  <2>1. ASSUME NEW d \in D PROVE Len(d[1]) + Len(d[2]) \in Nat
    <3>1. Len(d[1]) \in Nat /\ Len(d[2]) \in Nat
      BY LenProperties
    <3> QED
      BY <3>1
  <2> QED
    BY <2>1
<1>2. \A A, B \in Seq(Tuple) :
        <<A, B>> \in S <=> (Ordered(A) /\ Ordered(B) => Merged(merge[<<A, B>>], A, B))
  OBVIOUS
<1>3. S \subseteq D
  OBVIOUS
<1> HIDE DEF rank, S
<1>4. ASSUME NEW A \in Seq(Tuple), NEW B \in Seq(Tuple),
             \A y \in D : rank[y] < rank[<<A, B>>] => y \in S,
             Ordered(A), Ordered(B)
      PROVE  Merged(merge[<<A, B>>], A, B)
  <2>1. CASE A = <<>>
    BY <1>4, <2>1, NoTuples, MergeDefined DEF Merged
  <2>2. CASE A # <<>> /\ B = <<>>
    BY <1>4, <2>2, NoTuples, MergeDefined DEF Merged
  <2>3. CASE A # <<>> /\ B # <<>>
    <3>1. /\ Tail(A) \in Seq(Tuple) /\ Tail(B) \in Seq(Tuple)
          /\ Len(Tail(A)) = Len(A) - 1 /\ Len(Tail(B)) = Len(B) - 1
          /\ Len(A) \in Nat /\ Len(B) \in Nat
          /\ Ordered(Tail(A)) /\ Ordered(Tail(B))
      BY <1>4, <2>3, FirstAndRest, OrderedRest
    <3>2. <<Tail(A), B>> \in D /\ <<A, Tail(B)>> \in D
      BY <3>1
    <3>3. rank[<<Tail(A), B>>] < rank[<<A, B>>] /\ rank[<<A, Tail(B)>>] < rank[<<A, B>>]
      <4>1. /\ rank[<<A, B>>] = Len(A) + Len(B)
            /\ rank[<<Tail(A), B>>] = Len(A) - 1 + Len(B)
            /\ rank[<<A, Tail(B)>>] = Len(A) + (Len(B) - 1)
        BY <1>1, <3>1
      <4> QED
        BY <3>1, <4>1
    <3>4. <<Tail(A), B>> \in S /\ <<A, Tail(B)>> \in S
      BY <1>4, <3>2, <3>3
    <3>5. /\ Merged(merge[<<Tail(A), B>>], Tail(A), B)
          /\ Merged(merge[<<A, Tail(B)>>], A, Tail(B))
      BY <1>2, <1>4, <3>1, <3>4
    <3>6. CASE A[1].key <= B[1].key
      <4>1. merge[<<A, B>>] = <<A[1]>> \o merge[<<Tail(A), B>>]
        BY <2>3, <3>6, MergeDefined
      <4> QED
        BY <1>4, <2>3, <3>5, <3>6, <4>1, TakeLeft
    <3>7. CASE ~(A[1].key <= B[1].key)
      <4>1. merge[<<A, B>>] = <<B[1]>> \o merge[<<A, Tail(B)>>]
        BY <2>3, <3>7, MergeDefined
      <4> QED
        BY <1>4, <2>3, <3>5, <3>7, <4>1, TakeRight
    <3> QED
      BY <3>6, <3>7
  <2> QED
    BY <2>1, <2>2, <2>3
<1>5. ASSUME NEW d \in D, \A y \in D : rank[y] < rank[d] => y \in S PROVE d \in S
  <2>1. PICK A \in Seq(Tuple), B \in Seq(Tuple) : d = <<A, B>>
    OBVIOUS
  <2> QED
    BY <1>2, <1>4, <1>5, <2>1
<1> HIDE DEF D
<1>6. D \subseteq S
  BY <1>1, <1>5, InductionOnRank
<1> QED
  BY <1>2, <1>6 DEF D

-----------------------------------------------------------------------------
(* mergeSort.                                                              *)

Half(arr) == (Len(arr) - 1) \div 2 + 1

LeftHalf(arr) == SubSeq(arr, 1, Half(arr))

RightHalf(arr) == SubSeq(arr, Half(arr) + 1, Len(arr))

(* Both halves are shorter than the whole, and make it up.                 *)
LEMMA Halves ==
  ASSUME NEW arr \in Seq(Tuple), Len(arr) > 1
  PROVE  /\ LeftHalf(arr) \in Seq(Tuple) /\ RightHalf(arr) \in Seq(Tuple)
         /\ Len(LeftHalf(arr)) < Len(arr) /\ Len(RightHalf(arr)) < Len(arr)
         /\ arr = LeftHalf(arr) \o RightHalf(arr)
<1> DEFINE n == Len(arr)
           h == Half(arr)
           A == LeftHalf(arr)
           B == RightHalf(arr)
<1>1. n \in Nat /\ n > 1 /\ h \in 1..n - 1
  BY DEF Half
<1>2. \A i \in 1..n : arr[i] \in Tuple
  OBVIOUS
<1>3. /\ A \in Seq(Tuple) /\ Len(A) = h
      /\ \A i \in 1..h : A[i] = arr[i]
  BY <1>1, <1>2, SubSeqProperties DEF LeftHalf
<1>4. /\ B \in Seq(Tuple) /\ Len(B) = n - h
      /\ \A i \in 1..n - h : B[i] = arr[h + i]
  BY <1>1, <1>2, SubSeqProperties DEF RightHalf
<1> HIDE DEF n, h, A, B
<1> DEFINE s == A \o B
<1>5. s \in Seq(Tuple) /\ Len(s) = n
  <2>1. s \in Seq(Tuple) /\ Len(s) = Len(A) + Len(B)
    BY <1>3, <1>4, ConcatProperties
  <2> QED
    BY <1>1, <1>3, <1>4, <2>1
<1>6. ASSUME NEW i \in 1..n PROVE s[i] = arr[i]
  <2>1. CASE i \in 1..h
    BY <1>3, <1>4, <2>1
  <2>2. CASE i \notin 1..h
    <3>1. i - h \in 1..n - h /\ h + (i - h) = i
      BY <1>1, <2>2
    <3>2. s[i] = B[i - h]
      BY <1>1, <1>3, <1>4, <2>2
    <3> QED
      BY <1>4, <3>1, <3>2
  <2> QED
    BY <2>1, <2>2
<1> HIDE DEF s
<1>7. s = arr
  BY <1>5, <1>6, SeqEqual DEF n
<1>8. Len(A) < n /\ Len(B) < n
  BY <1>1, <1>3, <1>4
<1> QED
  BY <1>3, <1>4, <1>7, <1>8 DEF s, A, B, n

(* The recursion of mergeSort ends: both halves are shorter.               *)
LEMMA MergeSortDefined ==
  /\ mergeSort \in [Seq(Tuple) -> Seq(Tuple)]
  /\ \A arr \in Seq(Tuple) :
       mergeSort[arr] =
         IF Len(arr) <= 1 THEN arr
         ELSE merge[<<mergeSort[LeftHalf(arr)], mergeSort[RightHalf(arr)]>>]
<1> DEFINE D == Seq(Tuple)
           E(arr, f) ==
             LET n == Len(arr)
                 half == (n - 1) \div 2 + 1
             IN  IF n <= 1 THEN arr
                 ELSE merge[<<f[SubSeq(arr, 1, half)], f[SubSeq(arr, half + 1, n)]>>]
           rank == [d \in D |-> Len(d)]
           step == [p \in D \X [D -> D] |-> E(p[1], p[2])]
<1>1. \A arr, f : E(arr, f) = IF Len(arr) <= 1 THEN arr
                              ELSE merge[<<f[LeftHalf(arr)], f[RightHalf(arr)]>>]
  BY DEF LeftHalf, RightHalf, Half
<1>2. rank \in [D -> Nat] /\ \A d \in D : rank[d] = Len(d)
  BY LenProperties
<1>3. D # {}
  <2>1. <<>> \in D
    OBVIOUS
  <2> QED
    BY <2>1
<1>4. \A A, B \in D : merge[<<A, B>>] \in D
  <2>1. \A A, B \in D : <<A, B>> \in Seq(Tuple) \X Seq(Tuple)
    OBVIOUS
  <2> QED
    BY <2>1, MergeDefined
<1> HIDE DEF E, rank
<1>5. ASSUME NEW d \in D, NEW g \in [D -> D] PROVE E(d, g) \in D
  <2>1. CASE Len(d) <= 1
    BY <1>1, <2>1
  <2>2. CASE Len(d) > 1
    <3>1. g[LeftHalf(d)] \in D /\ g[RightHalf(d)] \in D
      BY <2>2, Halves
    <3>2. ~(Len(d) <= 1)
      BY <2>2, LenProperties
    <3> QED
      BY <1>1, <1>4, <3>1, <3>2
  <2>3. Len(d) \in Nat
    BY LenProperties
  <2> QED
    BY <2>1, <2>2, <2>3
<1>6. ASSUME NEW d \in D, NEW g, NEW h, \A y \in D : rank[y] < rank[d] => g[y] = h[y]
      PROVE  E(d, g) = E(d, h)
  <2>1. CASE Len(d) <= 1
    BY <1>1, <2>1
  <2>2. CASE Len(d) > 1
    <3>1. /\ LeftHalf(d) \in D /\ RightHalf(d) \in D
          /\ rank[LeftHalf(d)] < rank[d] /\ rank[RightHalf(d)] < rank[d]
      BY <1>2, <2>2, Halves
    <3> QED
      BY <1>1, <1>6, <3>1
  <2>3. Len(d) \in Nat
    BY LenProperties
  <2> QED
    BY <2>1, <2>2, <2>3
<1> HIDE DEF D
<1>7. /\ step \in [D \X [D -> D] -> D]
      /\ \A d \in D : \A g \in [D -> D] : step[<<d, g>>] = E(d, g)
  BY <1>5
<1> HIDE DEF step
<1>8. ASSUME NEW d \in D, NEW g \in [D -> D], NEW h \in [D -> D],
             \A y \in D : rank[y] < rank[d] => g[y] = h[y]
      PROVE  step[<<d, g>>] = step[<<d, h>>]
  <2>1. E(d, g) = E(d, h)
    BY <1>6, <1>8
  <2> QED
    BY <1>7, <2>1
<1>9. PICK f \in [D -> D] : \A d \in D : f[d] = step[<<d, f>>]
  <2>1. WellFoundedStep(D, D, rank, step)
    BY <1>2, <1>3, <1>7, <1>8 DEF WellFoundedStep
  <2> QED
    BY <2>1, RecursiveFunction
<1>10. f = [d \in D |-> E(d, f)]
  BY <1>7, <1>9
<1>11. mergeSort = [d \in D |-> E(d, mergeSort)]
  BY <1>10, Zenon DEF mergeSort, D, E
<1>12. D \subseteq {d \in D : mergeSort[d] = f[d]}
  <2> DEFINE S == {d \in D : mergeSort[d] = f[d]}
  <2>1. ASSUME NEW d \in D, \A y \in D : rank[y] < rank[d] => y \in S
        PROVE  d \in S
    <3>1. E(d, mergeSort) = E(d, f)
      BY <1>6, <2>1
    <3>2. mergeSort[d] = E(d, mergeSort) /\ f[d] = E(d, f)
      BY <1>10, <1>11, Zenon
    <3> QED
      BY <3>1, <3>2
  <2> HIDE DEF S
  <2>2. D \subseteq S
    BY <1>2, <2>1, InductionOnRank
  <2> QED
    BY <2>2 DEF S
<1>13. mergeSort \in [D -> D]
  <2>1. \A d \in D : mergeSort[d] \in D
    BY <1>9, <1>12
  <2> QED
    BY <1>11, <2>1
<1>14. \A d \in D : mergeSort[d] = E(d, mergeSort)
  BY <1>11, Zenon
<1> QED
  BY <1>1, <1>13, <1>14 DEF D

(* What a sort is to give: the tuples in order, each key's leftmost kept   *)
(* in front of its other copies.                                           *)
StablySorted(s, arr) ==
  /\ s \in Seq(Tuple)
  /\ Ordered(s)
  /\ KeysOf(s) = KeysOf(arr)
  /\ Firsts(s) = Firsts(arr)

(* mergeSort is a stable sort, by induction on the length.                 *)
LEMMA MergeSortSorts ==
  ASSUME NEW arr \in Seq(Tuple)
  PROVE  StablySorted(mergeSort[arr], arr)
<1> DEFINE D == Seq(Tuple)
           rank == [d \in D |-> Len(d)]
           S == {d \in D : StablySorted(mergeSort[d], d)}
<1>1. rank \in [D -> Nat] /\ \A d \in D : rank[d] = Len(d)
  BY LenProperties
<1>2. ASSUME NEW d \in D, \A y \in D : rank[y] < rank[d] => y \in S
      PROVE  StablySorted(mergeSort[d], d)
  <2>1. Len(d) \in Nat
    BY LenProperties
  <2>2. CASE Len(d) <= 1
    <3>1. Ordered(d)
      <4>1. \A i, j \in DOMAIN d : i = j /\ d[i].key <= d[i].key
        BY <2>1, <2>2, TuplesFacts
      <4> QED
        BY <4>1 DEF Ordered
    <3> QED
      BY <2>2, <3>1, MergeSortDefined DEF StablySorted
  <2>3. CASE Len(d) > 1
    <3> DEFINE A == LeftHalf(d)
               B == RightHalf(d)
               SA == mergeSort[A]
               SB == mergeSort[B]
    <3>1. A \in D /\ B \in D /\ rank[A] < rank[d] /\ rank[B] < rank[d] /\ d = A \o B
      BY <1>1, <2>3, Halves
    <3>2. StablySorted(SA, A) /\ StablySorted(SB, B)
      BY <1>2, <3>1
    <3>3. mergeSort[d] = merge[<<SA, SB>>]
      BY <2>1, <2>3, MergeSortDefined
    <3> HIDE DEF A, B, SA, SB
    <3>4. Merged(merge[<<SA, SB>>], SA, SB)
      BY <3>2, MergeMerges DEF StablySorted
    <3>5. /\ KeysOf(d) = KeysOf(A) \cup KeysOf(B)
          /\ Firsts(d) = Firsts(A) \cup {t \in Firsts(B) : t.key \notin KeysOf(A)}
      BY <3>1, Concatenated
    <3> QED
      BY <3>2, <3>3, <3>4, <3>5 DEF StablySorted, Merged
  <2> QED
    BY <2>1, <2>2, <2>3
<1> HIDE DEF rank
<1>3. ASSUME NEW d \in D, \A y \in D : rank[y] < rank[d] => y \in S PROVE d \in S
  BY <1>2, <1>3
<1> HIDE DEF S, D
<1>4. D \subseteq S
  BY <1>1, <1>3, InductionOnRank
<1> QED
  BY <1>4 DEF S, D

-----------------------------------------------------------------------------
(* DropRepeated.                                                           *)

TuplesOf(s) == {s[i] : i \in DOMAIN s}

(* What is kept of the first i of an ordered sequence: the leftmost copies *)
(* of their keys, the one of the last key at the end.                      *)
KeptOf(kept, s, i) ==
  /\ kept \in Seq(Tuple)
  /\ Ascends(kept)
  /\ TuplesOf(kept) = {s[p] : p \in {q \in 1..i : IsFirst(s, q)}}
  /\ i = 0 => kept = <<>>
  /\ i > 0 => kept # <<>> /\ kept[Len(kept)].key = s[i].key

(* A tuple of a greater key at the end of an ascending sequence.           *)
LEMMA AppendedTuple ==
  ASSUME NEW s \in Seq(Tuple), NEW t \in Tuple, Ascends(s),
         s # <<>> => s[Len(s)].key < t.key
  PROVE  /\ Append(s, t) \in Seq(Tuple) /\ Append(s, t) # <<>>
         /\ Append(s, t)[Len(Append(s, t))] = t
         /\ Ascends(Append(s, t))
         /\ TuplesOf(Append(s, t)) = TuplesOf(s) \cup {t}
<1> DEFINE u == Append(s, t)
           n == Len(s)
<1>1. /\ n \in Nat /\ u \in Seq(Tuple) /\ Len(u) = n + 1
      /\ DOMAIN s = 1..n /\ DOMAIN u = 1..n + 1
      /\ u[n + 1] = t /\ \A i \in 1..n : u[i] = s[i]
  OBVIOUS
<1>2. \A i \in 1..n : s[i].key \in Int
  BY TuplesFacts
<1>3. t.key \in Int
  BY TupleFacts
<1>4. n > 0 => s[n].key < t.key
  BY <1>1
<1> HIDE DEF u, n
<1>5. ASSUME NEW i \in 1..n + 1, NEW j \in 1..n + 1, i < j PROVE u[i].key < u[j].key
  <2>1. i \in 1..n
    BY <1>1, <1>5
  <2>2. CASE j \in 1..n
    BY <1>1, <1>5, <2>1, <2>2 DEF Ascends
  <2>3. CASE j = n + 1 /\ i = n
    BY <1>1, <1>4, <2>1, <2>3
  <2>4. CASE j = n + 1 /\ i < n
    <3>1. n \in 1..n /\ n > 0
      BY <1>1, <2>1
    <3>2. s[i].key < s[n].key
      BY <1>1, <2>1, <2>4, <3>1 DEF Ascends
    <3> QED
      BY <1>1, <1>2, <1>3, <1>4, <2>1, <2>4, <3>1, <3>2
  <2> QED
    BY <1>1, <2>1, <2>2, <2>3, <2>4
<1>6. Ascends(u)
  BY <1>1, <1>5 DEF Ascends
<1>7. \A i \in 1..n + 1 : i \in 1..n \/ i = n + 1
  BY <1>1
<1>8. n + 1 \in 1..n + 1 /\ \A i \in 1..n : i \in 1..n + 1
  BY <1>1
<1>9. TuplesOf(u) = TuplesOf(s) \cup {t}
  <2>1. TuplesOf(u) \subseteq TuplesOf(s) \cup {t}
    BY <1>1, <1>7 DEF TuplesOf
  <2>2. TuplesOf(s) \cup {t} \subseteq TuplesOf(u)
    BY <1>1, <1>8 DEF TuplesOf
  <2> QED
    BY <2>1, <2>2
<1>10. u # <<>>
  BY <1>1, EmptySeq
<1> QED
  BY <1>1, <1>6, <1>9, <1>10 DEF u

(* One round of the loop of _Sort.                                         *)
LEMMA KeepNext ==
  ASSUME NEW s \in Seq(Tuple), Ordered(s), NEW i \in 1..Len(s),
         NEW before, KeptOf(before, s, i - 1)
  PROVE  KeptOf(IF before # <<>> /\ Last(before).key = s[i].key
                THEN before ELSE Append(before, s[i]), s, i)
<1> DEFINE Old(m) == {s[p] : p \in {q \in 1..m : IsFirst(s, q)}}
<1>1. /\ Len(s) \in Nat /\ DOMAIN s = 1..Len(s) /\ i \in Nat /\ i > 0 /\ i \in Int
      /\ \A q \in 1..Len(s) : s[q] \in Tuple /\ s[q].key \in Int
      /\ \A q \in 1..i : q \in 1..Len(s)
  BY TuplesFacts
<1>2. /\ before \in Seq(Tuple) /\ Ascends(before) /\ TuplesOf(before) = Old(i - 1)
      /\ i - 1 = 0 => before = <<>>
      /\ i - 1 > 0 => before # <<>> /\ before[Len(before)].key = s[i - 1].key
  BY DEF KeptOf
<1>3. Last(before) = before[Len(before)]
  BY DEF Last
<1>4. \A q \in 1..i : q \in 1..i - 1 \/ q = i
  BY <1>1
<1>5. /\ \A q \in 1..i - 1 : q \in 1..i /\ q <= i - 1
      /\ i \in 1..i
  BY <1>1
<1>6. i # 1 => i - 1 > 0 /\ i - 1 \in 1..i - 1 /\ i - 1 <= i
  BY <1>1
<1>7. CASE before # <<>> /\ Last(before).key = s[i].key
  <2>1. i # 1
    BY <1>2, <1>7
  <2>2. s[i - 1].key = s[i].key
    BY <1>2, <1>3, <1>6, <1>7, <2>1
  <2>3. ~IsFirst(s, i)
    BY <1>6, <2>1, <2>2 DEF IsFirst
  <2>4. Old(i) = Old(i - 1)
    BY <1>4, <1>5, <2>3
  <2> HIDE DEF Old
  <2>5. TuplesOf(before) = Old(i)
    BY <1>2, <2>4
  <2>6. before # <<>> /\ before[Len(before)].key = s[i].key
    BY <1>3, <1>7
  <2>7. i # 0
    BY <1>1
  <2>8. KeptOf(before, s, i)
    BY <1>2, <2>5, <2>6, <2>7, Zenon DEF KeptOf, Old
  <2> QED
    BY <1>7, <2>8
<1>8. CASE ~(before # <<>> /\ Last(before).key = s[i].key)
  <2>1. IsFirst(s, i) /\ (before # <<>> => before[Len(before)].key < s[i].key)
    <3>1. CASE i = 1
      BY <1>2, <3>1 DEF IsFirst
    <3>2. CASE i # 1
      <4>1. i - 1 \in 1..Len(s)
        BY <1>1, <1>5, <1>6, <3>2
      <4>2. before # <<>> /\ before[Len(before)].key = s[i - 1].key
        BY <1>2, <1>6, <3>2
      <4>3. s[i - 1].key # s[i].key
        BY <1>3, <1>8, <4>2
      <4>4. s[i - 1].key <= s[i].key
        BY <1>1, <1>6, <3>2, <4>1 DEF Ordered
      <4>5. s[i - 1].key < s[i].key
        BY <1>1, <4>1, <4>3, <4>4
      <4>6. ASSUME NEW q \in 1..i - 1 PROVE s[q].key # s[i].key
        <5>1. q \in 1..Len(s) /\ q <= i - 1
          BY <1>1, <1>5
        <5>2. s[q].key <= s[i - 1].key
          BY <1>1, <4>1, <5>1 DEF Ordered
        <5> QED
          BY <1>1, <4>1, <4>5, <5>1, <5>2
      <4> QED
        BY <4>2, <4>5, <4>6 DEF IsFirst
    <3> QED
      BY <3>1, <3>2
  <2> DEFINE k == Append(before, s[i])
  <2>2. /\ k \in Seq(Tuple) /\ k # <<>> /\ k[Len(k)] = s[i] /\ Ascends(k)
        /\ TuplesOf(k) = TuplesOf(before) \cup {s[i]}
    BY <1>1, <1>2, <2>1, AppendedTuple
  <2>3. Old(i) = Old(i - 1) \cup {s[i]}
    <3>1. Old(i) \subseteq Old(i - 1) \cup {s[i]}
      BY <1>4
    <3>2. Old(i - 1) \cup {s[i]} \subseteq Old(i)
      BY <1>5, <2>1
    <3> QED
      BY <3>1, <3>2
  <2> HIDE DEF k
  <2>4. KeptOf(k, s, i)
    BY <1>1, <1>2, <2>2, <2>3 DEF KeptOf
  <2> QED
    BY <1>8, <2>4 DEF k
<1> QED
  BY <1>7, <1>8

(* The second half of _Sort keeps the first tuple of every key.            *)
LEMMA DropRepeatedKeeps ==
  ASSUME NEW s \in Seq(Tuple), Ordered(s)
  PROVE  KeptOf(DropRepeated(s), s, Len(s))
<1> DEFINE n == Len(s)
           D == 0..n
           V == Seq(Tuple)
           E(i, f) == IF i = 0 THEN <<>>
                      ELSE IF f[i - 1] # <<>> /\ Last(f[i - 1]).key = s[i].key
                           THEN f[i - 1]
                           ELSE Append(f[i - 1], s[i])
           rank == [d \in D |-> d]
           step == [p \in D \X [D -> V] |-> E(p[1], p[2])]
           kept[i \in 0..Len(s)] ==
             IF i = 0 THEN <<>>
             ELSE LET before == kept[i - 1]
                  IN  IF before # <<>> /\ Last(before).key = s[i].key
                      THEN before
                      ELSE Append(before, s[i])
<1>1. DropRepeated(s) = kept[n]
  BY Zenon DEF DropRepeated
<1>2. n \in Nat /\ \A i \in 1..n : s[i] \in Tuple
  BY LenProperties
<1> HIDE DEF kept, n
<1>3. D \subseteq Nat /\ \A d \in D : d # 0 => d - 1 \in D /\ d - 1 < d /\ d \in 1..n
  BY <1>2
<1>4. rank \in [D -> Nat] /\ \A d \in D : rank[d] = d
  BY <1>3
<1>5. <<>> \in V
  OBVIOUS
<1>6. \A d \in D : \A f \in [D -> V] : E(d, f) \in V
  BY <1>2, <1>3
<1>7. ASSUME NEW d \in D, NEW g \in [D -> V], NEW h \in [D -> V],
             \A y \in D : rank[y] < rank[d] => g[y] = h[y]
      PROVE  E(d, g) = E(d, h)
  <2>1. CASE d # 0
    <3>1. g[d - 1] = h[d - 1]
      BY <1>3, <1>4, <1>7, <2>1
    <3> QED
      BY <3>1
  <2> QED
    BY <2>1
<1> HIDE DEF D, V, E, rank
<1>8. /\ step \in [D \X [D -> V] -> V]
      /\ \A d \in D : \A g \in [D -> V] : step[<<d, g>>] = E(d, g)
  BY <1>6
<1> HIDE DEF step
<1>9. ASSUME NEW d \in D, NEW g \in [D -> V], NEW h \in [D -> V],
             \A y \in D : rank[y] < rank[d] => g[y] = h[y]
      PROVE  step[<<d, g>>] = step[<<d, h>>]
  <2>1. E(d, g) = E(d, h)
    BY <1>7, <1>9
  <2> QED
    BY <1>8, <2>1
<1>10. PICK f \in [D -> V] : \A d \in D : f[d] = step[<<d, f>>]
  <2>1. WellFoundedStep(D, V, rank, step)
    BY <1>4, <1>5, <1>8, <1>9 DEF WellFoundedStep
  <2> QED
    BY <2>1, RecursiveFunction
<1>11. f = [d \in D |-> E(d, f)]
  BY <1>8, <1>10
<1>12. kept = [d \in D |-> E(d, kept)]
  BY <1>11, Zenon DEF kept, D, E, n
<1>13. \A d \in D : kept[d] = E(d, kept)
  BY <1>12, Zenon
<1> DEFINE S == {d \in D : KeptOf(kept[d], s, d)}
<1>14. ASSUME NEW d \in D, \A y \in D : rank[y] < rank[d] => y \in S PROVE d \in S
  <2>1. CASE d = 0
    <3>1. kept[d] = <<>>
      BY <1>13, <2>1 DEF E
    <3>2. KeptOf(<<>>, s, 0)
      <4>1. TuplesOf(<<>>) = {} /\ Ascends(<<>>) /\ <<>> \in Seq(Tuple)
        BY DEF TuplesOf, Ascends
      <4> QED
        BY <4>1 DEF KeptOf
    <3> QED
      BY <2>1, <3>1, <3>2
  <2>2. CASE d # 0
    <3>1. d - 1 \in D /\ rank[d - 1] < rank[d] /\ d \in 1..Len(s)
      BY <1>3, <1>4, <2>2 DEF n
    <3>2. KeptOf(kept[d - 1], s, d - 1)
      BY <1>14, <3>1
    <3>3. KeptOf(IF kept[d - 1] # <<>> /\ Last(kept[d - 1]).key = s[d].key
                 THEN kept[d - 1] ELSE Append(kept[d - 1], s[d]), s, d)
      BY <3>1, <3>2, KeepNext
    <3>4. kept[d] = IF kept[d - 1] # <<>> /\ Last(kept[d - 1]).key = s[d].key
                    THEN kept[d - 1] ELSE Append(kept[d - 1], s[d])
      BY <1>13, <2>2 DEF E
    <3> QED
      BY <3>3, <3>4
  <2> QED
    BY <2>1, <2>2
<1> HIDE DEF S
<1>15. D \subseteq S
  BY <1>4, <1>14, InductionOnRank
<1>16. n \in D
  BY <1>2 DEF D
<1> QED
  BY <1>1, <1>15, <1>16 DEF S, n

-----------------------------------------------------------------------------
(* _Sort as a whole.                                                       *)

(* Every key there is has a leftmost copy.                                 *)
LEMMA FirstExists ==
  ASSUME NEW s \in Seq(Tuple)
  PROVE  KeysOf(s) = {t.key : t \in Firsts(s)}
<1>1. ASSUME NEW k \in KeysOf(s) PROVE \E t \in Firsts(s) : t.key = k
  <2> DEFINE P == {p \in 1..Len(s) : s[p].key = k}
             m == Min(P)
  <2>1. Len(s) \in Nat /\ DOMAIN s = 1..Len(s)
    OBVIOUS
  <2>2. P # {} /\ P \in SUBSET Nat
    BY <1>1, <2>1 DEF KeysOf
  <2>3. m \in P /\ \A p \in P : m <= p
    BY <2>2, MinOfNats
  <2> HIDE DEF m
  <2>4. ASSUME NEW q \in 1..m - 1 PROVE s[q].key # k
    <3>1. m \in 1..Len(s)
      BY <2>3
    <3>2. q \in 1..Len(s) /\ ~(m <= q)
      BY <2>1, <3>1
    <3> QED
      BY <2>3, <3>2
  <2>5. IsFirst(s, m)
    BY <2>3, <2>4 DEF IsFirst
  <2>6. s[m] \in Firsts(s) /\ s[m].key = k
    BY <2>1, <2>3, <2>5 DEF Firsts
  <2> QED
    BY <2>6
<1>2. \A t \in Firsts(s) : t.key \in KeysOf(s)
  BY KeysOfFirsts
<1> QED
  BY <1>1, <1>2

(* What Level::_Sort gives for tuples of any kind: strictly ascending, the *)
(* leftmost copy of every key and nothing else.                            *)
LEMMA SortKeepsLeftmost ==
  ASSUME NEW arr \in Seq(Tuple)
  PROVE  /\ _Sort(arr) \in Seq(Tuple)
         /\ Ascends(_Sort(arr))
         /\ TuplesOf(_Sort(arr)) = Firsts(arr)
         /\ KeysOf(_Sort(arr)) = KeysOf(arr)
<1> DEFINE s == mergeSort[arr]
           k == _Sort(arr)
<1>1. /\ s \in Seq(Tuple) /\ Ordered(s) /\ Firsts(s) = Firsts(arr)
  BY MergeSortSorts DEF StablySorted
<1>2. k = DropRepeated(s)
  BY DEF _Sort
<1> HIDE DEF s, k
<1>3. KeptOf(k, s, Len(s))
  BY <1>1, <1>2, DropRepeatedKeeps
<1>4. DOMAIN s = 1..Len(s)
  BY <1>1
<1>5. TuplesOf(k) = Firsts(arr)
  BY <1>1, <1>3, <1>4 DEF KeptOf, Firsts
<1>6. KeysOf(k) = {t.key : t \in TuplesOf(k)}
  BY DEF KeysOf, TuplesOf
<1>7. KeysOf(k) = KeysOf(arr)
  BY <1>5, <1>6, FirstExists
<1> QED
  BY <1>3, <1>5, <1>7 DEF KeptOf, k

-----------------------------------------------------------------------------
(* The specification: the run, once there is one, is what _Sort gives.     *)
SortInv ==
  /\ tuples \in Seq(Tuple)
  /\ run # <<>> => run = _Sort(tuples)

(* Level::AddNewRun leaves the tuples it was given as they are and makes   *)
(* the run of them that _Sort gives.                                       *)
THEOREM SortInvariant == Spec => []SortInv
<1>1. Init => SortInv
  <2> SUFFICES ASSUME Init PROVE SortInv
    OBVIOUS
  <2>1. PICK n \in 1..MaxTuples : tuples \in [1..n -> Tuple]
    BY DEF Init
  <2>2. n \in Nat
    BY SortAssumption
  <2>3. tuples \in Seq(Tuple)
    BY <2>1, <2>2, SeqDef
  <2> QED
    BY <2>3 DEF Init, SortInv
<1>2. SortInv /\ [Next]_vars => SortInv'
  <2> SUFFICES ASSUME SortInv, [Next]_vars PROVE SortInv'
    OBVIOUS
  <2>1. CASE AddNewRun
    <3>1. tuples' = tuples /\ run' = _Sort(tuples)
      BY <2>1 DEF AddNewRun
    <3>2. (_Sort(tuples))' = _Sort(tuples')
      OBVIOUS
    <3> QED
      BY <3>1, <3>2 DEF SortInv
  <2>2. CASE UNCHANGED vars
    BY <2>2 DEF vars, SortInv
  <2> QED
    BY <2>1, <2>2 DEF Next
<1> QED
  BY <1>1, <1>2, PTL DEF Spec

(* A merged run is strictly ascending, however many tuples were merged and *)
(* whatever their keys are: Run::Scan and the fence pointers rely on it.   *)
THEOREM SortIsStrictlyAscending == Spec => []RunIsStrictlyAscending
<1>1. SortInv => RunIsStrictlyAscending
  <2> SUFFICES ASSUME SortInv PROVE RunIsStrictlyAscending
    OBVIOUS
  <2>1. CASE run = <<>>
    BY <2>1 DEF RunIsStrictlyAscending
  <2>2. CASE run # <<>>
    BY <2>2, SortKeepsLeftmost DEF SortInv, Ascends, RunIsStrictlyAscending
  <2> QED
    BY <2>1, <2>2
<1> QED
  BY <1>1, SortInvariant, PTL

(* It has every key it was given, each with its leftmost copy: the newest, *)
(* since Level::AddNewRun puts the newest run first (Level.cpp:146).       *)
THEOREM SortKeepsNewest == Spec => []RunKeepsLeftmost
<1>1. SortInv => RunKeepsLeftmost
  <2> SUFFICES ASSUME SortInv, run # <<>> PROVE RunKeepsLeftmost
    BY DEF RunKeepsLeftmost
  <2>1. tuples \in Seq(Tuple) /\ run = _Sort(tuples)
    BY DEF SortInv
  <2>2. /\ TuplesOf(run) = Firsts(tuples)
        /\ KeysOf(run) = KeysOf(tuples)
    BY <2>1, SortKeepsLeftmost
  <2>3. ASSUME NEW i \in DOMAIN run
        PROVE  \E p \in DOMAIN tuples :
                 /\ run[i] = tuples[p]
                 /\ \A q \in 1..p - 1 : tuples[q].key # run[i].key
    <3>1. run[i] \in Firsts(tuples)
      BY <2>2 DEF TuplesOf
    <3> QED
      BY <3>1 DEF Firsts, IsFirst
  <2> QED
    BY <2>2, <2>3 DEF RunKeepsLeftmost, KeysOf
<1> QED
  BY <1>1, SortInvariant, PTL
=============================================================================
