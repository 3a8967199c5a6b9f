----------------------------- MODULE BasicProofs ----------------------------
(***************************************************************************)
(* Facts the proofs of this project rest on and that are not about the     *)
(* store: least and greatest elements, and induction stated with sets, so  *)
(* that it can be cited for any set that can be written down.              *)
(***************************************************************************)
EXTENDS Integers, FiniteSetsExt, WellFoundedInduction, TLAPS

(* A non-empty set of naturals has a least element, and Min is it.         *)
LEMMA MinOfNats ==
  ASSUME NEW S \in SUBSET Nat, S # {}
  PROVE  /\ Min(S) \in S
         /\ \A y \in S : Min(S) <= y
<1>1. IsWellFoundedOn(OpToRel(<, Nat), Nat)
  BY NatLessThanWellFounded
<1>2. PICK m \in S : \A y \in S : <<y, m>> \notin OpToRel(<, Nat)
  BY <1>1, WFMin, Zenon
<1>3. \A y \in S : ~(y < m)
  BY <1>2, Zenon DEF OpToRel
<1>4. \A y \in S : m <= y
  BY <1>3
<1> QED
  BY <1>4 DEF Min

(* A non-empty set of naturals with an upper bound has a greatest element. *)
LEMMA MaxOfBoundedNats ==
  ASSUME NEW n \in Nat, NEW S \in SUBSET (0..n), S # {}
  PROVE  /\ Max(S) \in S
         /\ \A y \in S : y <= Max(S)
<1> DEFINE U == {n - y : y \in S}
<1>1. U \in SUBSET Nat
  OBVIOUS
<1>2. U # {}
  OBVIOUS
<1> DEFINE m == Min(U)
<1>3. m \in U /\ \A u \in U : m <= u
  BY <1>1, <1>2, MinOfNats
<1> HIDE DEF m
<1>4. PICK x \in S : m = n - x
  BY <1>3
<1>5. \A y \in S : m <= n - y
  BY <1>3
<1>6. \A y \in S : x >= y
  BY <1>4, <1>5
<1> QED
  BY <1>6 DEF Max

(* The same of integers with a lower or an upper bound.                    *)
LEMMA MinOfInts ==
  ASSUME NEW b \in Int, NEW S \in SUBSET Int, S # {}, \A y \in S : b <= y
  PROVE  /\ Min(S) \in S
         /\ \A y \in S : Min(S) <= y
<1> DEFINE U == {y - b : y \in S}
<1>1. U \in SUBSET Nat
  OBVIOUS
<1>2. U # {}
  OBVIOUS
<1>3. Min(U) \in U /\ \A u \in U : Min(U) <= u
  BY <1>1, <1>2, MinOfNats
<1> DEFINE m == Min(U)
<1> HIDE DEF m
<1>4. PICK x \in S : m = x - b
  BY <1>3 DEF m
<1>5. \A y \in S : m <= y - b
  BY <1>3 DEF m
<1>6. \A y \in S : x <= y
  BY <1>4, <1>5
<1> QED
  BY <1>6 DEF Min

(* A set of integers that is bounded above has a greatest element.         *)
LEMMA MaxOfInts ==
  ASSUME NEW b \in Int, NEW S \in SUBSET Int, S # {}, \A y \in S : y <= b
  PROVE  /\ Max(S) \in S
         /\ \A y \in S : y <= Max(S)
<1> DEFINE U == {b - y : y \in S}
<1>1. U \in SUBSET Nat
  OBVIOUS
<1>2. U # {}
  OBVIOUS
<1>3. Min(U) \in U /\ \A u \in U : Min(U) <= u
  BY <1>1, <1>2, MinOfNats
<1> DEFINE m == Min(U)
<1> HIDE DEF m
<1>4. PICK x \in S : m = b - x
  BY <1>3 DEF m
<1>5. \A y \in S : m <= b - y
  BY <1>3 DEF m
<1>6. \A y \in S : x >= y
  BY <1>4, <1>5
<1> QED
  BY <1>6 DEF Max

-----------------------------------------------------------------------------
(* Induction on the naturals, of the membership in a set.                  *)
LEMMA InductionOnNats ==
  ASSUME NEW S, 0 \in S, \A n \in Nat : n \in S => n + 1 \in S
  PROVE  Nat \subseteq S
<1> DEFINE Out == Nat \ S
<1> SUFFICES ASSUME Out # {} PROVE FALSE
  OBVIOUS
<1>1. Min(Out) \in Out /\ \A y \in Out : Min(Out) <= y
  BY MinOfNats
<1> DEFINE m == Min(Out)
<1> HIDE DEF m
<1>2. m \in Nat /\ m \notin S /\ \A y \in Nat \ S : m <= y
  BY <1>1 DEF m
<1>3. m - 1 \in Nat
  BY <1>2
<1>4. m - 1 \in S
  BY <1>2, <1>3
<1> QED
  BY <1>2, <1>3, <1>4

(* The same for a set whose elements have a rank: what holds of an element *)
(* if it holds of all those of a lower rank holds of all.                  *)
LEMMA InductionOnRank ==
  ASSUME NEW D, NEW rank \in [D -> Nat], NEW S,
         \A x \in D : (\A y \in D : rank[y] < rank[x] => y \in S) => x \in S
  PROVE  D \subseteq S
<1> DEFINE Below == {n \in Nat : \A x \in D : rank[x] < n => x \in S}
<1>1. 0 \in Below
  OBVIOUS
<1>2. ASSUME NEW n \in Nat, n \in Below PROVE n + 1 \in Below
  <2> SUFFICES ASSUME NEW x \in D, rank[x] < n + 1 PROVE x \in S
    OBVIOUS
  <2>1. ASSUME NEW y \in D, rank[y] < rank[x] PROVE y \in S
    <3>1. rank[x] \in Nat /\ rank[y] \in Nat
      OBVIOUS
    <3>2. rank[y] < n
      BY <2>1, <3>1
    <3> QED
      BY <1>2, <3>2
  <2> QED
    BY <2>1
<1>3. Nat \subseteq Below
  <2> HIDE DEF Below
  <2> QED
    BY <1>1, <1>2, InductionOnNats
<1>4. ASSUME NEW x \in D PROVE x \in S
  <2>1. rank[x] + 1 \in Below /\ rank[x] < rank[x] + 1
    <3>1. rank[x] \in Nat
      OBVIOUS
    <3> HIDE DEF Below
    <3> QED
      BY <1>3, <3>1
  <2> QED
    BY <2>1
<1> QED
  BY <1>4

-----------------------------------------------------------------------------
(* Recursive functions.  A definition f[x \in D] == ... f[y] ... says what *)
(* it seems to if there is such a function, and there is one if the        *)
(* recursion only goes to arguments of a lower rank.  What is on the right *)
(* is given as a function as well, step.                                   *)
WellFoundedStep(D, V, rank, step) ==
  /\ V # {}
  /\ rank \in [D -> Nat]
  /\ step \in [D \X [D -> V] -> V]
  /\ \A x \in D : \A g, h \in [D -> V] :
       (\A y \in D : rank[y] < rank[x] => g[y] = h[y]) =>
         step[<<x, g>>] = step[<<x, h>>]

(* If it so descends, there is a function that does what the step says.    *)
LEMMA RecursiveFunction ==
  ASSUME NEW D, NEW V, NEW rank, NEW step, WellFoundedStep(D, V, rank, step)
  PROVE  \E f \in [D -> V] : \A x \in D : f[x] = step[<<x, f>>]
<1> USE DEF WellFoundedStep
<1> DEFINE Upto(n) == {f \in [D -> V] : \A x \in D : rank[x] < n => f[x] = step[<<x, f>>]}
           Some == {n \in Nat : Upto(n) # {}}
           Same == {n \in Nat : \A g, h \in Upto(n) : \A x \in D : rank[x] < n => g[x] = h[x]}
<1>1. 0 \in Some
  <2>1. PICK v \in V : TRUE
    OBVIOUS
  <2>2. [x \in D |-> v] \in Upto(0)
    OBVIOUS
  <2> QED
    BY <2>2
<1>2. ASSUME NEW n \in Nat, n \in Some PROVE n + 1 \in Some
  <2>1. PICK f \in [D -> V] : \A x \in D : rank[x] < n => f[x] = step[<<x, f>>]
    BY <1>2
  <2> DEFINE g == [x \in D |-> step[<<x, f>>]]
  <2>2. g \in [D -> V]
    OBVIOUS
  <2>3. ASSUME NEW x \in D, rank[x] < n + 1 PROVE g[x] = step[<<x, g>>]
    <3>1. \A y \in D : rank[y] < rank[x] => f[y] = g[y]
      BY <2>1, <2>3
    <3>2. step[<<x, f>>] = step[<<x, g>>]
      BY <2>2, <3>1
    <3> QED
      BY <3>2
  <2> HIDE DEF g
  <2> QED
    BY <2>2, <2>3
<1>3. 0 \in Same
  OBVIOUS
<1> HIDE DEF Upto
<1>4. ASSUME NEW n \in Nat, n \in Same PROVE n + 1 \in Same
  <2> SUFFICES ASSUME NEW g \in Upto(n + 1), NEW h \in Upto(n + 1),
                      NEW x \in D, rank[x] < n + 1
               PROVE  g[x] = h[x]
    OBVIOUS
  <2>1. g \in Upto(n) /\ h \in Upto(n)
    BY DEF Upto
  <2>2. \A y \in D : rank[y] < rank[x] => g[y] = h[y]
    <3> SUFFICES ASSUME NEW y \in D, rank[y] < rank[x] PROVE g[y] = h[y]
      OBVIOUS
    <3>1. rank[y] < n
      <4>1. rank[x] \in Nat /\ rank[y] \in Nat
        OBVIOUS
      <4> QED
        BY <4>1
    <3> QED
      BY <1>4, <2>1, <3>1
  <2>3. /\ g \in [D -> V] /\ g[x] = step[<<x, g>>]
        /\ h \in [D -> V] /\ h[x] = step[<<x, h>>]
    BY DEF Upto
  <2> QED
    BY <2>2, <2>3
<1>5. Nat \subseteq Some
  <2> HIDE DEF Some
  <2> QED
    BY <1>1, <1>2, InductionOnNats
<1>6. Nat \subseteq Same
  <2> HIDE DEF Same
  <2> QED
    BY <1>3, <1>4, InductionOnNats
<1> DEFINE at == [n \in Nat |-> CHOOSE g : g \in Upto(n)]
           f == [x \in D |-> at[rank[x] + 1][x]]
<1>7. \A n \in Nat : at[n] \in Upto(n)
  BY <1>5, Zenon
<1> HIDE DEF at
<1>8. \A n \in Nat : /\ at[n] \in [D -> V]
                     /\ \A x \in D : rank[x] < n => at[n][x] = step[<<x, at[n]>>]
  BY <1>7 DEF Upto
<1>9. ASSUME NEW m \in Nat, NEW n \in Nat, m <= n, NEW x \in D, rank[x] < m
      PROVE  at[m][x] = at[n][x]
  <2>1. \A y \in D : rank[y] < m => rank[y] < n
    <3> SUFFICES ASSUME NEW y \in D, rank[y] < m PROVE rank[y] < n
      OBVIOUS
    <3>1. rank[y] \in Nat
      OBVIOUS
    <3> QED
      BY <1>9, <3>1
  <2>2. at[n] \in Upto(m)
    BY <1>8, <2>1 DEF Upto
  <2> QED
    BY <1>6, <1>7, <1>9, <2>2
<1>10. f \in [D -> V]
  BY <1>8
<1>11. ASSUME NEW x \in D PROVE f[x] = step[<<x, f>>]
  <2> DEFINE n == rank[x] + 1
  <2>1. n \in Nat /\ rank[x] < n
    OBVIOUS
  <2>2. f[x] = step[<<x, at[n]>>]
    BY <1>8, <2>1
  <2>3. ASSUME NEW y \in D, rank[y] < rank[x] PROVE f[y] = at[n][y]
    <3>1. rank[y] + 1 \in Nat /\ rank[y] + 1 <= n /\ rank[y] < rank[y] + 1
      BY <2>3
    <3> QED
      BY <1>9, <2>1, <3>1
  <2> HIDE DEF f
  <2>4. step[<<x, at[n]>>] = step[<<x, f>>]
    BY <1>8, <1>10, <2>1, <2>3
  <2> QED
    BY <2>2, <2>4
<1> HIDE DEF f
<1> QED
  BY <1>10, <1>11
=============================================================================
