--------------------------- MODULE LSMTreeProofs ---------------------------
(***************************************************************************)
(* The LSM tree keeps its shape, and implements the key-value store, for   *)
(* every set of keys, every capacity and every number of levels, whenever  *)
(* clients put values the tuple format stores faithfully (ClientValues).   *)
(* Whatever they put, its levels count the flushes and bound their runs.   *)
(***************************************************************************)
EXTENDS LSMTree, TupleCodecProofs, FiniteSetTheorems

(* The copies of a key in a level: the last run that holds it exists.      *)
LEMMA NewestRun ==
  ASSUME NEW level \in Seq(Run), NEW k, InLevel(level, k) # {}
  PROVE  /\ Max(InLevel(level, k)) \in InLevel(level, k)
         /\ \A r \in InLevel(level, k) : r <= Max(InLevel(level, k))
<1>1. InLevel(level, k) \in SUBSET (0..Len(level)) /\ Len(level) \in Nat
  BY DEF InLevel
<1> QED
  BY <1>1, MaxOfBoundedNats

(* The first level that holds a key exists.                                *)
LEMMA ClosestLevel ==
  ASSUME NEW lvls \in Seq(Seq(Run)), NEW k, InLevels(lvls, k) # {}
  PROVE  /\ Min(InLevels(lvls, k)) \in InLevels(lvls, k)
         /\ \A l \in InLevels(lvls, k) : Min(InLevels(lvls, k)) <= l
<1>1. InLevels(lvls, k) \in SUBSET Nat
  BY DEF InLevels
<1> QED
  BY <1>1, MinOfNats

(* The last tuple of a key in the buffer exists.                           *)
LEMMA NewestInBuffer ==
  ASSUME TypeOK, NEW k, InBuffer(k) # {}
  PROVE  /\ Max(InBuffer(k)) \in InBuffer(k)
         /\ \A i \in InBuffer(k) : i <= Max(InBuffer(k))
<1>1. InBuffer(k) \in SUBSET (0..Len(buf)) /\ Len(buf) \in Nat
  BY DEF InBuffer, TypeOK
<1> QED
  BY <1>1, MaxOfBoundedNats

(* A least element stays the least one in a set that adds greater ones.    *)
LEMMA LeastIsMin ==
  ASSUME NEW S \in SUBSET Nat, NEW m \in S, \A y \in S : m <= y
  PROVE  Min(S) = m
<1>1. S # {}
  OBVIOUS
<1>2. Min(S) \in S /\ \A y \in S : Min(S) <= y
  BY <1>1, MinOfNats
<1>3. m \in Nat /\ Min(S) \in Nat /\ m <= Min(S) /\ Min(S) <= m
  BY <1>2
<1> QED
  BY <1>3

(* An element that no other exceeds is the maximum.                        *)
LEMMA GreatestIsMax ==
  ASSUME NEW n \in Nat, NEW S \in SUBSET (0..n), NEW m \in S, \A y \in S : y <= m
  PROVE  Max(S) = m
<1>1. S # {}
  OBVIOUS
<1>2. Max(S) \in S /\ \A y \in S : y <= Max(S)
  BY <1>1, MaxOfBoundedNats
<1>3. \A y \in S : y \in Nat
  OBVIOUS
<1>4. m \in Nat /\ Max(S) \in Nat
  BY <1>2, <1>3
<1>5. m <= Max(S) /\ Max(S) <= m
  BY <1>2
<1> QED
  BY <1>4, <1>5

-----------------------------------------------------------------------------
(* The first copy of a key anywhere is a well-formed one.                  *)
LEMMA FirstCopyType ==
  ASSUME TypeOK, NEW lvls \in Seq(Seq(Run)), NEW k \in Key, Holds(lvls, k)
  PROVE  FirstCopy(lvls, k) \in Seq(Word)
<1>1. CASE InBuffer(k) # {}
  <2>1. Max(InBuffer(k)) \in 1..Len(buf)
    BY <1>1, NewestInBuffer DEF InBuffer
  <2>2. buf[Max(InBuffer(k))] \in Tuples
    BY <2>1 DEF TypeOK
  <2> QED
    BY <1>1, <2>2 DEF FirstCopy, BufferCopy, Tuples
<1>2. CASE InBuffer(k) = {}
  <2> DEFINE l == Min(InLevels(lvls, k))
             r == Max(InLevel(lvls[l], k))
  <2>1. l \in 1..Len(lvls) /\ InLevel(lvls[l], k) # {}
    BY <1>2, ClosestLevel DEF Holds, InLevels
  <2>2. lvls[l] \in Seq(Run)
    BY <2>1
  <2>3. r \in 1..Len(lvls[l]) /\ k \in DOMAIN lvls[l][r]
    BY <2>1, <2>2, NewestRun DEF InLevel
  <2>4. lvls[l][r] \in Run
    BY <2>2, <2>3
  <2>5. lvls[l][r][k] \in Slot
    BY <2>3, <2>4 DEF Run
  <2> QED
    BY <1>2, <2>5, Read2TupleType DEF FirstCopy, DiskCopy, LevelCopy
<1> QED
  BY <1>1, <1>2

(* The levels above the target of a flush.                                 *)
LEMMA Above ==
  ASSUME TypeOK, NEW t, IsTarget(t)
  PROVE  /\ t \in Nat \ {0} /\ t <= Len(levels) + 1
         /\ SubSeq(levels, 1, t - 1) \in Seq(Seq(Run))
         /\ Len(SubSeq(levels, 1, t - 1)) = t - 1
         /\ \A l \in 1..t - 1 : SubSeq(levels, 1, t - 1)[l] = levels[l]
<1>1. t \in Nat \ {0} /\ t <= Len(levels) + 1 /\ levels \in Seq(Seq(Run))
  BY DEF IsTarget, TypeOK
<1> QED
  BY <1>1

(* The run a flush writes is a run.                                        *)
LEMMA NewRunType ==
  ASSUME TypeOK, NEW lvls \in Seq(Seq(Run))
  PROVE  NewRun(lvls) \in Run
<1> DEFINE keys == {x \in Key : Holds(lvls, x)}
<1>1. \A x \in keys : AppendBin2Vec(FirstCopy(lvls, x)) \in Slot
  BY FirstCopyType, AppendBin2VecType
<1>2. NewRun(lvls) \in [keys -> Slot]
  BY <1>1 DEF NewRun
<1> QED
  BY <1>2 DEF Run

(* What a flush leaves of the levels: those above the target are empty,    *)
(* the target has one more run, those below are as they were.              *)
LEMMA FlushShape ==
  ASSUME TypeOK, NEW t \in 1..MaxLevels, IsTarget(t)
  PROVE  LET old == IF t > Len(levels) THEN <<>> ELSE levels[t]
             run == NewRun(SubSeq(levels, 1, t - 1))
         IN  /\ Flushed(t) \in Seq(Seq(Run))
             /\ Len(Flushed(t)) = IF t > Len(levels) THEN t ELSE Len(levels)
             /\ old \in Seq(Run) /\ Len(old) + 1 < MaxRuns
             /\ Flushed(t)[t] = Append(old, run)
             /\ \A l \in 1..t - 1 : Flushed(t)[l] = <<>>
             /\ \A l \in t + 1..Len(levels) : Flushed(t)[l] = levels[l]
<1> DEFINE old == IF t > Len(levels) THEN <<>> ELSE levels[t]
           run == NewRun(SubSeq(levels, 1, t - 1))
           n == Max({Len(levels), t})
<1>1. t \in Nat \ {0} /\ Len(levels) \in Nat /\ levels \in Seq(Seq(Run))
  BY Above DEF TypeOK
<1>2. n = IF t > Len(levels) THEN t ELSE Len(levels)
  <2> DEFINE big == IF t > Len(levels) THEN t ELSE Len(levels)
  <2>1. big \in Nat /\ big \in {Len(levels), t} /\ {Len(levels), t} \in SUBSET (0..big)
    BY <1>1
  <2>2. \A y \in {Len(levels), t} : y <= big
    BY <1>1
  <2> HIDE DEF big
  <2>3. Max({Len(levels), t}) = big
    BY <2>1, <2>2, GreatestIsMax
  <2> QED
    BY <2>3 DEF big
<1>3. run \in Run
  BY Above, NewRunType
<1>4. old \in Seq(Run) /\ Len(old) + 1 < MaxRuns
  <2>1. CASE t > Len(levels)
    <3>1. old = <<>>
      BY <2>1
    <3>2. MaxRuns \in Nat /\ 2 <= MaxRuns
      BY TreeAssumption
    <3>3. <<>> \in Seq(Run) /\ Len(<<>>) = 0
      OBVIOUS
    <3> HIDE DEF old
    <3> QED
      BY <3>1, <3>2, <3>3
  <2>2. CASE t <= Len(levels)
    <3>1. old = levels[t] /\ t \in 1..Len(levels)
      BY <1>1, <2>2
    <3>2. levels[t] \in Seq(Run) /\ Len(levels[t]) < MaxRuns
      BY <1>1, <3>1 DEF TypeOK
    <3>3. MaxRuns # Len(levels[t]) + 1
      BY <2>2 DEF IsTarget, ReadyMerge
    <3> QED
      BY <3>1, <3>2, <3>3, TreeAssumption
  <2> QED
    BY <1>1, <2>1, <2>2
<1> HIDE DEF run
<1> DEFINE new(l) == IF l < t THEN <<>>
                     ELSE IF l > t THEN levels[l]
                     ELSE IF t > Len(levels) THEN <<run>> ELSE Append(levels[t], run)
<1>5. Flushed(t) = [l \in 1..n |-> new(l)]
  BY DEF Flushed, run
<1>6. new(t) = Append(old, run)
  <2>1. CASE t > Len(levels)
    BY <2>1, <1>1
  <2>2. CASE ~(t > Len(levels))
    BY <2>2, <1>1
  <2> QED
    BY <2>1, <2>2
<1>7. new(t) \in Seq(Run)
  BY <1>3, <1>4, <1>6
<1> HIDE DEF old, n
<1>8. \A l \in 1..n : new(l) \in Seq(Run)
  <2> TAKE l \in 1..n
  <2>1. CASE l < t
    BY <2>1
  <2>2. CASE l = t
    BY <2>2, <1>7
  <2>3. CASE l > t
    <3>1. l \in 1..Len(levels)
      BY <1>1, <1>2, <2>3
    <3>2. levels[l] \in Seq(Run)
      BY <3>1, <1>1
    <3> QED
      BY <2>3, <3>2, <1>1
  <2> QED
    BY <1>1, <1>2, <2>1, <2>2, <2>3
<1>9. \A l \in 1..t - 1 : new(l) = <<>>
  BY <1>1
<1>10. \A l \in t + 1..Len(levels) : new(l) = levels[l]
  BY <1>1
<1> HIDE DEF new
<1>11. Flushed(t) \in Seq(Seq(Run)) /\ Len(Flushed(t)) = n
  BY <1>1, <1>2, <1>5, <1>8
<1>12. \A l \in 1..n : Flushed(t)[l] = new(l)
  BY <1>5
<1>13. t \in 1..n /\ (\A l \in 1..t - 1 : l \in 1..n) /\ \A l \in t + 1..Len(levels) : l \in 1..n
  BY <1>1, <1>2
<1> QED
  BY <1>2, <1>4, <1>6, <1>9, <1>10, <1>11, <1>12, <1>13 DEF old, run

-----------------------------------------------------------------------------
(* A key with a copy in the buffer or above the target is in the new run,  *)
(* which is where the disk now has its first copy: the same copy, written  *)
(* to disk once more.                                                      *)
LEMMA FlushMovesCopy ==
  ASSUME TypeOK, NEW t \in 1..MaxLevels, IsTarget(t), NEW x \in Key,
         Holds(SubSeq(levels, 1, t - 1), x)
  PROVE  /\ Holds(levels, x)
         /\ FirstCopy(SubSeq(levels, 1, t - 1), x) = FirstCopy(levels, x)
         /\ InLevels(Flushed(t), x) # {}
         /\ DiskCopy(Flushed(t), x) = Stored(FirstCopy(levels, x))
<1> DEFINE above == SubSeq(levels, 1, t - 1)
           old == IF t > Len(levels) THEN <<>> ELSE levels[t]
           run == NewRun(above)
           new == Flushed(t)
<1>1. /\ t \in Nat \ {0} /\ t <= Len(levels) + 1 /\ Len(levels) \in Nat
      /\ above \in Seq(Seq(Run)) /\ Len(above) = t - 1
      /\ \A l \in 1..t - 1 : above[l] = levels[l]
      /\ levels \in Seq(Seq(Run))
  BY Above DEF TypeOK
<1>2. /\ new \in Seq(Seq(Run))
      /\ Len(new) = IF t > Len(levels) THEN t ELSE Len(levels)
      /\ old \in Seq(Run)
      /\ new[t] = Append(old, run)
      /\ \A l \in 1..t - 1 : new[l] = <<>>
  BY FlushShape
<1>3. x \in DOMAIN run /\ run[x] = AppendBin2Vec(FirstCopy(above, x))
  BY DEF NewRun
<1> HIDE DEF above, old, run, new
<1>4. \A l \in 1..t - 1 : InLevel(above[l], x) = InLevel(levels[l], x)
  BY <1>1
<1>5. FirstCopy(above, x) = FirstCopy(levels, x) /\ Holds(levels, x)
  <2>1. CASE InBuffer(x) # {}
    BY <2>1 DEF FirstCopy, Holds
  <2>2. CASE InBuffer(x) = {}
    <3> DEFINE m == Min(InLevels(above, x))
    <3>1. InLevels(above, x) # {}
      BY <2>2 DEF Holds, above
    <3>2. m \in InLevels(above, x) /\ \A l \in InLevels(above, x) : m <= l
      BY <3>1, <1>1, ClosestLevel
    <3>3. m \in 1..t - 1 /\ InLevel(above[m], x) # {}
      BY <3>2, <1>1 DEF InLevels
    <3> HIDE DEF m
    <3>4. m \in InLevels(levels, x)
      BY <3>3, <1>1, <1>4 DEF InLevels
    <3>5. \A l \in InLevels(levels, x) : m <= l
      <4> TAKE l \in InLevels(levels, x)
      <4>1. l \in 1..Len(levels) /\ InLevel(levels[l], x) # {}
        BY DEF InLevels
      <4>2. CASE l \in 1..t - 1
        <5>1. l \in InLevels(above, x)
          BY <4>1, <4>2, <1>1, <1>4 DEF InLevels
        <5> QED
          BY <5>1, <3>2 DEF m
      <4>3. CASE l \notin 1..t - 1
        <5>1. l >= t
          BY <4>1, <4>3, <1>1
        <5> QED
          BY <5>1, <4>1, <3>3, <1>1
      <4> QED
        BY <4>2, <4>3
    <3>6. InLevels(levels, x) \in SUBSET Nat
      BY DEF InLevels
    <3>7. Min(InLevels(levels, x)) = m
      BY <3>4, <3>5, <3>6, LeastIsMin
    <3>8. DiskCopy(above, x) = DiskCopy(levels, x)
      BY <3>3, <3>7, <1>1 DEF DiskCopy, m
    <3> QED
      BY <2>2, <3>4, <3>8 DEF FirstCopy, Holds
  <2> QED
    BY <2>1, <2>2
<1>6. t \in InLevels(new, x) /\ \A l \in InLevels(new, x) : t <= l
  <2>1. t \in 1..Len(new) /\ InLevel(new[t], x) # {}
    <3>1. Len(old) + 1 \in InLevel(new[t], x)
      BY <1>2, <1>3 DEF InLevel
    <3> QED
      BY <3>1, <1>1, <1>2
  <2>2. \A l \in 1..t - 1 : InLevel(new[l], x) = {}
    BY <1>2 DEF InLevel
  <2>3. \A l \in InLevels(new, x) : l \in Nat /\ l >= 1 /\ l \notin 1..t - 1
    BY <2>2 DEF InLevels
  <2>4. t \in InLevels(new, x)
    BY <2>1 DEF InLevels
  <2>5. ASSUME NEW l \in InLevels(new, x)
        PROVE  t <= l
    <3>1. l \in Nat /\ l >= 1 /\ l \notin 1..t - 1
      BY <2>3
    <3> QED
      BY <3>1, <1>1
  <2> QED
    BY <2>4, <2>5
<1>7. Min(InLevels(new, x)) = t
  <2>1. InLevels(new, x) \in SUBSET Nat
    BY DEF InLevels
  <2> QED
    BY <2>1, <1>6, LeastIsMin
<1>8. Max(InLevel(new[t], x)) = Len(old) + 1
  <2>1. Len(old) + 1 \in InLevel(new[t], x)
    BY <1>2, <1>3 DEF InLevel
  <2>2. InLevel(new[t], x) \in SUBSET (0..Len(old) + 1) /\ Len(old) + 1 \in Nat
    BY <1>2 DEF InLevel
  <2>3. \A r \in InLevel(new[t], x) : r <= Len(old) + 1
    BY <2>2
  <2> QED
    BY <2>1, <2>2, <2>3, GreatestIsMax
<1>9. new[t][Len(old) + 1] = run
  BY <1>2
<1>10. DiskCopy(new, x) = Stored(FirstCopy(above, x))
  BY <1>3, <1>7, <1>8, <1>9 DEF DiskCopy, LevelCopy, Stored
<1> QED
  BY <1>5, <1>6, <1>10 DEF above, new

(* Of a key with no copy there, the disk keeps the copies it has.          *)
LEMMA FlushLeavesCopy ==
  ASSUME TypeOK, NEW t \in 1..MaxLevels, IsTarget(t), NEW x \in Key,
         ~Holds(SubSeq(levels, 1, t - 1), x)
  PROVE  /\ InBuffer(x) = {}
         /\ InLevels(Flushed(t), x) = InLevels(levels, x)
         /\ InLevels(levels, x) # {} => DiskCopy(Flushed(t), x) = DiskCopy(levels, x)
<1> DEFINE above == SubSeq(levels, 1, t - 1)
           old == IF t > Len(levels) THEN <<>> ELSE levels[t]
           run == NewRun(above)
           new == Flushed(t)
<1>1. /\ t \in Nat \ {0} /\ t <= Len(levels) + 1 /\ Len(levels) \in Nat
      /\ above \in Seq(Seq(Run)) /\ Len(above) = t - 1
      /\ \A l \in 1..t - 1 : above[l] = levels[l]
      /\ levels \in Seq(Seq(Run))
  BY Above DEF TypeOK
<1>2. /\ new \in Seq(Seq(Run))
      /\ Len(new) = IF t > Len(levels) THEN t ELSE Len(levels)
      /\ old \in Seq(Run)
      /\ new[t] = Append(old, run)
      /\ \A l \in 1..t - 1 : new[l] = <<>>
      /\ \A l \in t + 1..Len(levels) : new[l] = levels[l]
  BY FlushShape
<1>3. x \notin DOMAIN run
  BY DEF NewRun
<1>4. InBuffer(x) = {} /\ InLevels(above, x) = {}
  BY DEF Holds
<1>5. t <= Len(levels) => old = levels[t]
  BY <1>1
<1>6. t > Len(levels) => old = <<>>
  BY <1>1
<1> HIDE DEF above, old, run, new
<1>7. \A l \in 1..t - 1 : InLevel(levels[l], x) = {} /\ InLevel(new[l], x) = {}
  <2>1. \A l \in 1..t - 1 : InLevel(above[l], x) = {}
    BY <1>1, <1>4 DEF InLevels
  <2>2. \A l \in 1..t - 1 : InLevel(levels[l], x) = {}
    BY <2>1, <1>1
  <2>3. \A l \in 1..t - 1 : InLevel(new[l], x) = {}
    BY <1>2 DEF InLevel
  <2> QED
    BY <2>2, <2>3
<1>8. InLevel(new[t], x) = InLevel(old, x)
  BY <1>2, <1>3 DEF InLevel
<1>9. \A r \in InLevel(old, x) : new[t][r] = old[r]
  BY <1>2 DEF InLevel
<1>10. ASSUME NEW l \in InLevels(new, x)
       PROVE  l \in InLevels(levels, x) /\ LevelCopy(new[l], x) = LevelCopy(levels[l], x)
  <2>1. l \in Nat /\ l \in 1..Len(new) /\ InLevel(new[l], x) # {}
    BY <1>10 DEF InLevels
  <2>2. l >= t
    <3>1. l \notin 1..t - 1
      BY <2>1, <1>7
    <3> QED
      BY <2>1, <3>1, <1>1
  <2>3. CASE l = t
    <3>1. InLevel(old, x) # {}
      BY <2>1, <2>3, <1>8
    <3>2. old # <<>>
      BY <3>1 DEF InLevel
    <3>3. t <= Len(levels) /\ old = levels[t]
      BY <3>2, <1>1, <1>5, <1>6
    <3>4. Max(InLevel(old, x)) \in InLevel(old, x)
      BY <3>1, <1>2, NewestRun
    <3>5. LevelCopy(new[t], x) = LevelCopy(old, x)
      BY <3>4, <1>8, <1>9 DEF LevelCopy
    <3> QED
      BY <2>3, <3>1, <3>3, <3>5, <1>1 DEF InLevels
  <2>4. CASE l > t
    <3>1. l \in t + 1..Len(levels)
      BY <2>1, <2>4, <1>1, <1>2
    <3>2. new[l] = levels[l]
      BY <3>1, <1>2
    <3> QED
      BY <2>1, <3>1, <3>2, <1>1 DEF InLevels
  <2> QED
    BY <2>1, <2>2, <2>3, <2>4, <1>1
<1>11. ASSUME NEW l \in InLevels(levels, x)
       PROVE  l \in InLevels(new, x)
  <2>1. l \in Nat /\ l \in 1..Len(levels) /\ InLevel(levels[l], x) # {}
    BY <1>11 DEF InLevels
  <2>2. l >= t /\ l \in 1..Len(new)
    <3>1. l \notin 1..t - 1
      BY <2>1, <1>7
    <3> QED
      BY <2>1, <3>1, <1>1, <1>2
  <2>3. CASE l = t
    BY <2>1, <2>2, <2>3, <1>5, <1>8 DEF InLevels
  <2>4. CASE l > t
    <3>1. l \in t + 1..Len(levels)
      BY <2>1, <2>4, <1>1
    <3> QED
      BY <2>1, <2>2, <3>1, <1>2 DEF InLevels
  <2> QED
    BY <2>1, <2>2, <2>3, <2>4, <1>1
<1>12. InLevels(new, x) = InLevels(levels, x)
  BY <1>10, <1>11
<1>13. ASSUME InLevels(levels, x) # {}
       PROVE  DiskCopy(new, x) = DiskCopy(levels, x)
  <2>1. Min(InLevels(new, x)) \in InLevels(new, x)
    BY <1>2, <1>12, <1>13, ClosestLevel
  <2> QED
    BY <2>1, <1>10, <1>12 DEF DiskCopy
<1> QED
  BY <1>4, <1>12, <1>13 DEF new

-----------------------------------------------------------------------------
(* What an insert does to the first copy of every key: the inserted key    *)
(* has the inserted value, any other key keeps its copy, as it was or as   *)
(* it reads after one more trip to disk.                                   *)
LEMMA InsertEffect ==
  ASSUME TypeOK, NEW k \in Key, NEW items \in Seq(Word), Insert(k, items)
  PROVE  /\ Holds(levels, k)' /\ FirstCopy(levels, k)' = items
         /\ \A x \in Key \ {k} :
              /\ Holds(levels, x)' <=> Holds(levels, x)
              /\ Holds(levels, x) =>
                   FirstCopy(levels, x)' \in {FirstCopy(levels, x), Stored(FirstCopy(levels, x))}
<1> DEFINE tuple == [key |-> k, items |-> items]
<1>0. buf \in Seq(Tuples)
  BY DEF TypeOK
<1>1. CASE AppendTuple(k, items)
  <2>1. /\ buf' = Append(buf, tuple) /\ levels' = levels
        /\ Len(buf') = Len(buf) + 1 /\ buf'[Len(buf) + 1] = tuple
        /\ \A i \in 1..Len(buf) : buf'[i] = buf[i]
    BY <1>0, <1>1 DEF AppendTuple
  <2>2. InBuffer(k)' = InBuffer(k) \cup {Len(buf) + 1}
    BY <1>0, <2>1 DEF InBuffer
  <2>3. Max(InBuffer(k)') = Len(buf) + 1
    <3>1. InBuffer(k)' \in SUBSET (0..Len(buf) + 1) /\ Len(buf) + 1 \in Nat
      BY <1>0, <2>2 DEF InBuffer
    <3>2. \A i \in InBuffer(k)' : i <= Len(buf) + 1
      BY <3>1
    <3>3. Len(buf) + 1 \in InBuffer(k)'
      BY <2>2
    <3> QED
      BY <3>1, <3>2, <3>3, GreatestIsMax
  <2>4. Holds(levels, k)' /\ FirstCopy(levels, k)' = items
    BY <2>1, <2>2, <2>3 DEF Holds, FirstCopy, BufferCopy
  <2>5. ASSUME NEW x \in Key \ {k}
        PROVE  /\ Holds(levels, x)' <=> Holds(levels, x)
               /\ Holds(levels, x) => FirstCopy(levels, x)' = FirstCopy(levels, x)
    <3>1. InBuffer(x)' = InBuffer(x)
      BY <1>0, <2>1 DEF InBuffer
    <3>2. InBuffer(x) # {} => BufferCopy(x)' = BufferCopy(x)
      <4>1. InBuffer(x) # {} => Max(InBuffer(x)) \in 1..Len(buf)
        BY NewestInBuffer DEF InBuffer
      <4> QED
        BY <2>1, <3>1, <4>1 DEF BufferCopy
    <3>3. InLevels(levels, x)' = InLevels(levels, x) /\ DiskCopy(levels, x)' = DiskCopy(levels, x)
      BY <2>1 DEF InLevels, DiskCopy
    <3> QED
      BY <3>1, <3>2, <3>3 DEF Holds, FirstCopy
  <2> QED
    BY <2>4, <2>5
<1>2. CASE FlushAndAppend(k, items)
  <2>1. PICK t \in 1..MaxLevels : IsTarget(t) /\ levels' = Flushed(t)
    BY <1>2 DEF FlushAndAppend
  <2>2. buf' = <<tuple>> /\ Len(buf') = 1 /\ buf'[1] = tuple
    BY <1>2 DEF FlushAndAppend
  <2>3. InBuffer(k)' = {1}
    BY <2>2 DEF InBuffer
  <2>4. Max(InBuffer(k)') = 1
    <3>1. {1} \in SUBSET (0..1) /\ 1 \in {1} /\ \A i \in {1} : i <= 1
      OBVIOUS
    <3>2. Max({1}) = 1
      BY <3>1, GreatestIsMax
    <3> QED
      BY <2>3, <3>2
  <2>5. Holds(levels, k)' /\ FirstCopy(levels, k)' = items
    BY <2>2, <2>3, <2>4 DEF Holds, FirstCopy, BufferCopy
  <2>6. ASSUME NEW x \in Key \ {k}
        PROVE  /\ Holds(levels, x)' <=> Holds(levels, x)
               /\ Holds(levels, x) =>
                    FirstCopy(levels, x)' \in {FirstCopy(levels, x), Stored(FirstCopy(levels, x))}
    <3>1. InBuffer(x)' = {}
      BY <2>2 DEF InBuffer
    <3>2. FirstCopy(levels, x)' = DiskCopy(levels', x)
      BY <3>1 DEF FirstCopy, DiskCopy
    <3>3. Holds(levels, x)' <=> InLevels(levels', x) # {}
      BY <3>1 DEF Holds, InLevels
    <3>4. CASE Holds(SubSeq(levels, 1, t - 1), x)
      BY <2>1, <3>2, <3>3, <3>4, FlushMovesCopy
    <3>5. CASE ~Holds(SubSeq(levels, 1, t - 1), x)
      <4>1. /\ InBuffer(x) = {}
            /\ InLevels(levels', x) = InLevels(levels, x)
            /\ InLevels(levels, x) # {} => DiskCopy(levels', x) = DiskCopy(levels, x)
        BY <2>1, <3>5, FlushLeavesCopy
      <4> QED
        BY <3>2, <3>3, <4>1 DEF Holds, FirstCopy
    <3> QED
      BY <3>4, <3>5
  <2> QED
    BY <2>5, <2>6
<1> QED
  BY <1>1, <1>2 DEF Insert

-----------------------------------------------------------------------------
(* The buffer stays within its capacity and a level below MaxRuns runs.    *)
LEMMA TypeOKInsert ==
  ASSUME TypeOK, NEW k \in Key, NEW items \in Seq(Word), Insert(k, items)
  PROVE  TypeOK'
<1> DEFINE tuple == [key |-> k, items |-> items]
<1>1. tuple \in Tuples
  BY DEF Tuples
<1>2. CASE AppendTuple(k, items)
  BY <1>1, <1>2, TreeAssumption DEF AppendTuple, TypeOK
<1>3. CASE FlushAndAppend(k, items)
  <2>1. PICK t \in 1..MaxLevels : IsTarget(t) /\ levels' = Flushed(t)
    BY <1>3 DEF FlushAndAppend
  <2>2. buf' \in Seq(Tuples) /\ Len(buf') <= BufCap
    <3>1. buf' = <<tuple>>
      BY <1>3 DEF FlushAndAppend
    <3>2. BufCap \in Nat /\ 1 <= BufCap
      BY TreeAssumption
    <3> QED
      BY <1>1, <3>1, <3>2
  <2> DEFINE old == IF t > Len(levels) THEN <<>> ELSE levels[t]
             run == NewRun(SubSeq(levels, 1, t - 1))
  <2>3. /\ levels' \in Seq(Seq(Run))
        /\ Len(levels') = IF t > Len(levels) THEN t ELSE Len(levels)
        /\ old \in Seq(Run) /\ Len(old) + 1 < MaxRuns
        /\ levels'[t] = Append(old, run)
        /\ \A l \in 1..t - 1 : levels'[l] = <<>>
        /\ \A l \in t + 1..Len(levels) : levels'[l] = levels[l]
    BY <2>1, FlushShape
  <2> HIDE DEF old, run
  <2>4. Len(levels') <= MaxLevels
    BY <2>1, <2>3, TreeAssumption DEF TypeOK
  <2>5. ASSUME NEW l \in 1..Len(levels')
        PROVE  Len(levels'[l]) < MaxRuns
    <3>1. CASE l < t
      <4>1. levels'[l] = <<>>
        BY <2>1, <2>3, <3>1
      <4>2. MaxRuns \in Nat /\ 2 <= MaxRuns
        BY TreeAssumption
      <4> QED
        BY <4>1, <4>2
    <3>2. CASE l = t
      BY <2>3, <3>2
    <3>3. CASE l > t
      <4>1. l \in t + 1..Len(levels)
        BY <2>1, <2>3, <3>3 DEF TypeOK
      <4> QED
        BY <2>3, <4>1, SMTT(30) DEF TypeOK
    <3> QED
      BY <2>1, <3>1, <3>2, <3>3
  <2> QED
    BY <2>2, <2>3, <2>4, <2>5 DEF TypeOK
<1> QED
  BY <1>2, <1>3 DEF Insert

(* With the answers of searches left out, the steps are still those of     *)
(* the tree.                                                               *)
LEMMA StorageIsOfTree == Spec => StorageSpec
<1>1. [Next]_vars => [SearchAnyhow \/ Next]_vars
  OBVIOUS
<1> QED
  BY <1>1, PTL DEF Spec, StorageSpec

(* TypeOK is inductive, whatever searches answer.                          *)
LEMMA StorageTypeCorrect == StorageSpec => []TypeOK
<1>1. Init => TypeOK
  BY TreeAssumption DEF Init, TypeOK
<1>2. TypeOK /\ [SearchAnyhow \/ Next]_vars => TypeOK'
  <2> SUFFICES ASSUME TypeOK, [SearchAnyhow \/ Next]_vars
               PROVE  TypeOK'
    OBVIOUS
  <2>1. ASSUME NEW k \in Key, NEW v \in PutValue, Put(k, v)
        PROVE  TypeOK'
    BY <2>1, TypeOKInsert, TreeAssumption DEF Put
  <2>2. ASSUME NEW k \in Key, Delete(k)
        PROVE  TypeOK'
    <3>1. DelMarker \in Seq(Word)
      BY CodecAssumption DEF DelMarker
    <3> QED
      BY <2>2, <3>1, TypeOKInsert DEF Delete
  <2>3. ASSUME NEW lo \in Key, NEW hi \in Key, Search(lo, hi)
        PROVE  TypeOK'
    BY <2>3 DEF Search, TypeOK
  <2>4. CASE Reopen
    BY <2>4, TreeAssumption DEF Reopen, TypeOK
  <2>5. CASE UNCHANGED vars
    BY <2>5 DEF vars, TypeOK
  <2>6. CASE SearchAnyhow
    BY <2>6 DEF SearchAnyhow, TypeOK
  <2> QED
    BY <2>1, <2>2, <2>3, <2>4, <2>5, <2>6 DEF Next
<1> QED
  BY <1>1, <1>2, PTL DEF StorageSpec

(* TypeOK is inductive: the buffer and every level stay within bounds and  *)
(* every run is one.                                                       *)
THEOREM TypeCorrect == Spec => []TypeOK
BY StorageTypeCorrect, StorageIsOfTree, PTL

-----------------------------------------------------------------------------
(* What a flush makes of the copies the tree holds.                        *)
LEMMA StoredCopies ==
  ASSUME ClientValues
  PROVE  /\ \A v \in PutValue : Stored(v) = v /\ v # <<>> /\ ~IsDelMarker(v)
         /\ Stored(DelMarker) = <<>> /\ Stored(<<>>) = <<>>
         /\ IsDelMarker(DelMarker) /\ ~IsDelMarker(<<>>)
BY DelMarkerBecomesEmpty DEF ClientValues, RoundTrips

(* The first copy of a key is one that came from a client.                 *)
LEMMA FirstCopyFromClients ==
  ASSUME TypeOK, CopiesFromClients, NEW k \in Key, Holds(levels, k)
  PROVE  FirstCopy(levels, k) \in PutValue \cup {DelMarker, <<>>}
<1>1. CASE InBuffer(k) # {}
  <2>1. Max(InBuffer(k)) \in 1..Len(buf)
    BY <1>1, NewestInBuffer DEF InBuffer
  <2> QED
    BY <1>1, <2>1 DEF FirstCopy, BufferCopy, CopiesFromClients
<1>2. CASE InBuffer(k) = {}
  <2> DEFINE l == Min(InLevels(levels, k))
             r == Max(InLevel(levels[l], k))
  <2>1. l \in 1..Len(levels) /\ InLevel(levels[l], k) # {}
    BY <1>2, ClosestLevel DEF Holds, InLevels, TypeOK
  <2>2. levels[l] \in Seq(Run)
    BY <2>1 DEF TypeOK
  <2>3. r \in 1..Len(levels[l]) /\ k \in DOMAIN levels[l][r]
    BY <2>1, <2>2, NewestRun DEF InLevel
  <2> HIDE DEF l, r
  <2>4. Read2Tuple(levels[l][r][k]) \in PutValue \cup {<<>>}
    BY <2>1, <2>3 DEF CopiesFromClients
  <2> QED
    BY <1>2, <2>4 DEF FirstCopy, DiskCopy, LevelCopy, l, r
<1> QED
  BY <1>1, <1>2

(* An insert of a client's value or of a marker keeps what is stored of    *)
(* the kind CopiesFromClients says.                                        *)
LEMMA CopiesFromClientsInsert ==
  ASSUME ClientValues, TypeOK, CopiesFromClients,
         NEW k \in Key, NEW items \in PutValue \cup {DelMarker}, Insert(k, items)
  PROVE  CopiesFromClients'
<1> DEFINE tuple == [key |-> k, items |-> items]
<1>0. buf \in Seq(Tuples) /\ levels \in Seq(Seq(Run))
  BY DEF TypeOK
<1>1. CASE AppendTuple(k, items)
  <2>1. /\ levels' = levels /\ Len(buf') = Len(buf) + 1
        /\ buf'[Len(buf) + 1] = tuple
        /\ \A i \in 1..Len(buf) : buf'[i] = buf[i]
    BY <1>0, <1>1 DEF AppendTuple
  <2>2. \A i \in 1..Len(buf') : buf'[i].items \in PutValue \cup {DelMarker}
    BY <1>0, <2>1, SMTT(30) DEF CopiesFromClients
  <2> QED
    BY <2>1, <2>2 DEF CopiesFromClients
<1>2. CASE FlushAndAppend(k, items)
  <2>1. PICK t \in 1..MaxLevels : IsTarget(t) /\ levels' = Flushed(t)
    BY <1>2 DEF FlushAndAppend
  <2>2. \A i \in 1..Len(buf') : buf'[i].items \in PutValue \cup {DelMarker}
    BY <1>2 DEF FlushAndAppend
  <2> DEFINE above == SubSeq(levels, 1, t - 1)
             old == IF t > Len(levels) THEN <<>> ELSE levels[t]
             run == NewRun(above)
  <2>3. /\ levels' \in Seq(Seq(Run))
        /\ Len(levels') = IF t > Len(levels) THEN t ELSE Len(levels)
        /\ old \in Seq(Run)
        /\ levels'[t] = Append(old, run)
        /\ \A l \in 1..t - 1 : levels'[l] = <<>>
        /\ \A l \in t + 1..Len(levels) : levels'[l] = levels[l]
    BY <2>1, FlushShape
  <2>4. ASSUME NEW x \in DOMAIN run
        PROVE  Read2Tuple(run[x]) \in PutValue \cup {<<>>}
    <3>1. x \in Key /\ Holds(above, x) /\ run[x] = AppendBin2Vec(FirstCopy(above, x))
      BY <2>4 DEF NewRun
    <3>2. Holds(levels, x) /\ FirstCopy(above, x) = FirstCopy(levels, x)
      BY <2>1, <3>1, FlushMovesCopy
    <3>3. Read2Tuple(run[x]) = Stored(FirstCopy(levels, x))
      BY <3>1, <3>2 DEF Stored
    <3>4. FirstCopy(levels, x) \in PutValue \cup {DelMarker, <<>>}
      BY <3>1, <3>2, FirstCopyFromClients
    <3> QED
      BY <3>3, <3>4, StoredCopies
  <2>5. t <= Len(levels) => old = levels[t]
    BY <2>1, <1>0
  <2>6. t > Len(levels) => old = <<>>
    OBVIOUS
  <2> HIDE DEF old, run, above
  <2>7. ASSUME NEW l \in 1..Len(levels'), NEW r \in 1..Len(levels'[l]),
               NEW x \in DOMAIN levels'[l][r]
        PROVE  Read2Tuple(levels'[l][r][x]) \in PutValue \cup {<<>>}
    <3>1. CASE l < t
      <4>1. levels'[l] = <<>>
        BY <2>1, <2>3, <3>1
      <4> QED
        BY <4>1
    <3>2. CASE l = t /\ r = Len(old) + 1
      <4>1. levels'[l][r] = run
        BY <2>3, <3>2
      <4> QED
        BY <4>1, <2>4
    <3>3. CASE l = t /\ r # Len(old) + 1
      <4>1. r \in 1..Len(old) /\ levels'[l][r] = old[r]
        BY <2>3, <3>3
      <4>2. t <= Len(levels) /\ old = levels[t]
        BY <4>1, <2>1, <2>5, <2>6, <1>0
      <4>3. t \in 1..Len(levels) /\ r \in 1..Len(levels[t]) /\ x \in DOMAIN levels[t][r]
        BY <4>1, <4>2, <2>1, <1>0
      <4> QED
        BY <4>1, <4>2, <4>3 DEF CopiesFromClients
    <3>4. CASE l > t
      <4>1. l \in t + 1..Len(levels)
        BY <2>1, <2>3, <3>4, <1>0
      <4>2. levels'[l] = levels[l] /\ l \in 1..Len(levels)
        BY <4>1, <2>1, <2>3
      <4> QED
        BY <4>2 DEF CopiesFromClients
    <3> QED
      BY <2>1, <3>1, <3>2, <3>3, <3>4
  <2> QED
    BY <2>2, <2>7 DEF CopiesFromClients
<1> QED
  BY <1>1, <1>2 DEF Insert

(* The inductive invariant: the tree keeps its shape and holds nothing but *)
(* what clients put, delete markers, and what those read back as.          *)
THEOREM CopiesInvariant ==
  ASSUME ClientValues
  PROVE  Spec => [](TypeOK /\ CopiesFromClients)
<1>1. Init => CopiesFromClients
  BY DEF Init, CopiesFromClients
<1>2. TypeOK /\ CopiesFromClients /\ [Next]_vars => CopiesFromClients'
  <2> SUFFICES ASSUME TypeOK, CopiesFromClients, [Next]_vars
               PROVE  CopiesFromClients'
    OBVIOUS
  <2>1. ASSUME NEW k \in Key, NEW v \in PutValue, Put(k, v)
        PROVE  CopiesFromClients'
    BY <2>1, CopiesFromClientsInsert DEF Put
  <2>2. ASSUME NEW k \in Key, Delete(k)
        PROVE  CopiesFromClients'
    BY <2>2, CopiesFromClientsInsert DEF Delete
  <2>3. ASSUME NEW lo \in Key, NEW hi \in Key, Search(lo, hi)
        PROVE  CopiesFromClients'
    BY <2>3 DEF Search, CopiesFromClients
  <2>4. CASE Reopen
    BY <2>4 DEF Reopen, CopiesFromClients
  <2>5. CASE UNCHANGED vars
    BY <2>5 DEF vars, CopiesFromClients
  <2> QED
    BY <2>1, <2>2, <2>3, <2>4, <2>5 DEF Next
<1> QED
  BY <1>1, <1>2, TypeCorrect, PTL DEF Spec

-----------------------------------------------------------------------------
(* An insert makes its own key visible or not, and leaves the value every  *)
(* other key shows its client as it was: a copy a flush changes is a       *)
(* delete marker, and neither that nor what becomes of it is visible.      *)
LEMMA InsertView ==
  ASSUME ClientValues, TypeOK, CopiesFromClients,
         NEW k \in Key, NEW items \in PutValue \cup {DelMarker}, Insert(k, items)
  PROVE  /\ k \in Visible' <=> items \in PutValue
         /\ FirstCopy(levels, k)' = items
         /\ \A x \in Key \ {k} :
              /\ x \in Visible' <=> x \in Visible
              /\ x \in Visible => FirstCopy(levels, x)' = FirstCopy(levels, x)
<1>1. items \in Seq(Word)
  <2>1. DelMarker \in Seq(Word)
    BY CodecAssumption DEF DelMarker
  <2> QED
    BY <2>1, TreeAssumption
<1>2. /\ Holds(levels, k)' /\ FirstCopy(levels, k)' = items
      /\ \A x \in Key \ {k} :
           /\ Holds(levels, x)' <=> Holds(levels, x)
           /\ Holds(levels, x) =>
                FirstCopy(levels, x)' \in {FirstCopy(levels, x), Stored(FirstCopy(levels, x))}
  BY <1>1, InsertEffect
<1>3. \A x : x \in Visible <=>
        x \in Key /\ Holds(levels, x) /\ ~IsDelMarker(FirstCopy(levels, x))
          /\ FirstCopy(levels, x) # <<>>
  BY DEF Visible, Live
<1>4. \A x : x \in Visible' <=>
        x \in Key /\ Holds(levels, x)' /\ ~IsDelMarker(FirstCopy(levels, x)')
          /\ FirstCopy(levels, x)' # <<>>
  BY DEF Visible, Live
<1>5. k \in Visible' <=> items \in PutValue
  BY <1>2, <1>4, StoredCopies
<1>6. ASSUME NEW x \in Key \ {k}
      PROVE  /\ x \in Visible' <=> x \in Visible
             /\ x \in Visible => FirstCopy(levels, x)' = FirstCopy(levels, x)
  <2>1. CASE ~Holds(levels, x)
    BY <1>2, <1>3, <1>4, <2>1
  <2>2. CASE Holds(levels, x)
    <3>1. FirstCopy(levels, x) \in PutValue \cup {DelMarker, <<>>}
      BY <2>2, FirstCopyFromClients
    <3>2. Holds(levels, x)' /\
          FirstCopy(levels, x)' \in {FirstCopy(levels, x), Stored(FirstCopy(levels, x))}
      BY <1>2, <2>2
    <3>3. CASE FirstCopy(levels, x) \in PutValue
      <4>1. FirstCopy(levels, x)' = FirstCopy(levels, x)
        BY <3>2, <3>3, StoredCopies
      <4> QED
        BY <1>3, <1>4, <2>2, <3>2, <4>1
    <3>4. CASE FirstCopy(levels, x) \in {DelMarker, <<>>}
      <4>1. x \notin Visible
        BY <1>3, <3>4, StoredCopies
      <4>2. FirstCopy(levels, x)' \in {DelMarker, <<>>}
        BY <3>2, <3>4, StoredCopies
      <4>3. x \notin Visible'
        BY <1>4, <4>2, StoredCopies
      <4> QED
        BY <4>1, <4>3
    <3> QED
      BY <3>1, <3>3, <3>4
  <2> QED
    BY <2>1, <2>2
<1> QED
  BY <1>2, <1>5, <1>6

(* Puts, deletes and scans are those of the map.                           *)
LEMMA PutRefines ==
  ASSUME ClientValues, TypeOK, CopiesFromClients,
         NEW k \in Key, NEW v \in PutValue, Put(k, v)
  PROVE  KV!Put(k, v)
<1>1. /\ Insert(k, v)
      /\ call' = [op |-> "put", key |-> k, value |-> v]
  BY DEF Put
<1>2. CallView' = [op |-> "put", key |-> k, value |-> v]
  BY <1>1 DEF CallView
<1>3. /\ k \in Visible' /\ FirstCopy(levels, k)' = v
      /\ \A x \in Key \ {k} :
           /\ x \in Visible' <=> x \in Visible
           /\ x \in Visible => FirstCopy(levels, x)' = FirstCopy(levels, x)
  BY <1>1, InsertView
<1>4. Visible \subseteq Key /\ Visible' \subseteq Key
  BY DEF Visible, Live
<1>5. Visible' = Visible \cup {k}
  BY <1>3, <1>4
<1>6. DOMAIN View = Visible /\ \A x \in Visible : View[x] = FirstCopy(levels, x)
  BY DEF View
<1>7. View' = [x \in Visible' |-> FirstCopy(levels, x)']
  BY DEF View
<1>8. View' = [x \in DOMAIN View \cup {k} |-> IF x = k THEN v ELSE View[x]]
  <2>1. \A x \in Visible \cup {k} :
          FirstCopy(levels, x)' = IF x = k THEN v ELSE View[x]
    BY <1>3, <1>4, <1>6
  <2> QED
    BY <1>5, <1>6, <1>7, <2>1
<1> QED
  BY <1>2, <1>8 DEF KV!Put, KV!Assigned

(* A delete does what it does to the map.                                  *)
LEMMA DeleteRefines ==
  ASSUME ClientValues, TypeOK, CopiesFromClients, NEW k \in Key, Delete(k)
  PROVE  KV!Del(k)
<1>1. /\ Insert(k, DelMarker)
      /\ call' = [op |-> "del", key |-> k]
  BY DEF Delete
<1>2. CallView' = [op |-> "del", key |-> k]
  BY <1>1 DEF CallView
<1>3. DelMarker \notin PutValue
  BY StoredCopies
<1>4. /\ k \notin Visible'
      /\ \A x \in Key \ {k} :
           /\ x \in Visible' <=> x \in Visible
           /\ x \in Visible => FirstCopy(levels, x)' = FirstCopy(levels, x)
  BY <1>1, <1>3, InsertView
<1>5. Visible \subseteq Key /\ Visible' \subseteq Key
  BY DEF Visible, Live
<1>6. Visible' = Visible \ {k}
  BY <1>4, <1>5
<1>7. DOMAIN View = Visible /\ \A x \in Visible : View[x] = FirstCopy(levels, x)
  BY DEF View
<1>8. View' = [x \in Visible' |-> FirstCopy(levels, x)']
  BY DEF View
<1>9. View' = [x \in DOMAIN View \ {k} |-> View[x]]
  <2>1. \A x \in Visible \ {k} : FirstCopy(levels, x)' = View[x]
    BY <1>4, <1>5, <1>7
  <2> QED
    BY <1>6, <1>7, <1>8, <2>1
<1> QED
  BY <1>2, <1>9 DEF KV!Del, KV!Restrict

(* A search answers as the map does.                                       *)
LEMMA SearchRefines ==
  ASSUME TypeOK, NEW lo \in Key, NEW hi \in Key, Search(lo, hi)
  PROVE  KV!Scan(lo, hi)
<1> DEFINE found == Found(lo, hi)
           kept == {x \in DOMAIN found : found[x] # <<>>}
           asked == {k \in DOMAIN View : lo <= k /\ k <= hi}
<1>1. /\ call' = [op |-> "scan", lo |-> lo, hi |-> hi, found |-> found]
      /\ buf' = buf /\ levels' = levels
  BY DEF Search
<1>2. View' = View
  BY <1>1 DEF View, Visible, Live, FirstCopy, Holds, InBuffer, BufferCopy
<1>3. kept = asked
  BY DEF Found, View, Visible
<1>4. [k \in kept |-> found[k]] = [k \in asked |-> View[k]]
  <2>1. \A k \in kept : found[k] = FirstCopy(levels, k)
    BY DEF Found
  <2>2. \A k \in asked : View[k] = FirstCopy(levels, k)
    BY DEF View
  <2> QED
    BY <1>3, <2>1, <2>2
<1>5. CallView' = [op |-> "scan", lo |-> lo, hi |-> hi, found |-> [k \in kept |-> found[k]]]
  <2> HIDE DEF found
  <2> QED
    BY <1>1 DEF CallView
<1> HIDE DEF found, kept, asked
<1>6. CallView' = [op |-> "scan", lo |-> lo, hi |-> hi, found |-> [k \in asked |-> View[k]]]
  BY <1>4, <1>5
<1> QED
  BY <1>2, <1>6 DEF KV!Scan, KV!Between, KV!Restrict, asked

(* A new tree is an empty map.                                             *)
LEMMA ReopenRefines ==
  ASSUME Reopen
  PROVE  KV!Reopen
<1>1. buf' = <<>> /\ levels' = <<>> /\ call' = [op |-> "open"]
  BY DEF Reopen
<1>2. Visible' = {}
  BY <1>1 DEF Visible, Live, Holds, InBuffer, InLevels
<1>3. View' = [k \in {} |-> {}]
  BY <1>2 DEF View
<1>4. CallView' = [op |-> "open"]
  BY <1>1 DEF CallView
<1> QED
  BY <1>3, <1>4 DEF KV!Reopen

(* The main theorem.  Whatever clients put, delete and scan, and whatever  *)
(* is flushed and merged in between, the tree answers as a map does, if    *)
(* clients put faithful values and take an empty value for an absent key.  *)
THEOREM TreeImplementsKVStore ==
  ASSUME ClientValues
  PROVE  Spec => ImplementsKVStore
<1>1. Init => KV!Init
  <2> SUFFICES ASSUME Init
               PROVE  KV!Init
    OBVIOUS
  <2>1. Visible = {}
    BY DEF Init, Visible, Live, Holds, InBuffer, InLevels
  <2>2. View = [k \in {} |-> {}]
    BY <2>1 DEF View
  <2>3. CallView = [op |-> "none"]
    BY DEF Init, CallView
  <2> QED
    BY <2>2, <2>3 DEF KV!Init
<1>2. TypeOK /\ CopiesFromClients /\ [Next]_vars => [KV!Next]_(KV!kvVars)
  <2> SUFFICES ASSUME TypeOK, CopiesFromClients, [Next]_vars
               PROVE  [KV!Next]_(KV!kvVars)
    OBVIOUS
  <2>1. ASSUME NEW k \in Key, NEW v \in PutValue, Put(k, v)
        PROVE  KV!Next
    BY <2>1, PutRefines DEF KV!Next
  <2>2. ASSUME NEW k \in Key, Delete(k)
        PROVE  KV!Next
    BY <2>2, DeleteRefines DEF KV!Next
  <2>3. ASSUME NEW lo \in Key, NEW hi \in Key, lo <= hi, Search(lo, hi)
        PROVE  KV!Next
    BY <2>3, SearchRefines DEF KV!Next
  <2>4. CASE Reopen
    BY <2>4, ReopenRefines DEF KV!Next
  <2>5. CASE UNCHANGED vars
    <3>1. View' = View /\ CallView' = CallView
      BY <2>5 DEF vars, View, CallView, Visible, Live, FirstCopy, Holds, InBuffer, BufferCopy
    <3> QED
      BY <3>1 DEF KV!kvVars
  <2> QED
    BY <2>1, <2>2, <2>3, <2>4, <2>5 DEF Next
<1> QED
  BY <1>1, <1>2, CopiesInvariant, PTL DEF Spec, ImplementsKVStore, KV!Spec

-----------------------------------------------------------------------------
(* The recursion of FlushCount ends below the deepest level, so that there *)
(* is the function it is defined by.                                       *)
LEMMA FlushCountDefined ==
  ASSUME NEW lvls \in Seq(Seq(Run))
  PROVE  \E count \in [1..Len(lvls) + 1 -> Nat] :
           /\ FlushCount(lvls) = count[1]
           /\ count[Len(lvls) + 1] = 0
           /\ \A l \in 1..Len(lvls) : count[l] = Len(lvls[l]) + MaxRuns * count[l + 1]
<1> DEFINE n == Len(lvls)
           D == 1..n + 1
           E(l, g) == IF l > n THEN 0 ELSE Len(lvls[l]) + MaxRuns * g[l + 1]
           step == [x \in D \X [D -> Nat] |-> E(x[1], x[2])]
           rank == [l \in D |-> n + 1 - l]
           count[l \in 1..Len(lvls) + 1] ==
             IF l > Len(lvls) THEN 0 ELSE Len(lvls[l]) + MaxRuns * count[l + 1]
<1>1. n \in Nat /\ MaxRuns \in Nat
  BY TreeAssumption
<1>2. \A a \in Nat, b \in Nat : a + MaxRuns * b \in Nat
  BY <1>1
<1>3. \A l \in 1..n : Len(lvls[l]) \in Nat
  OBVIOUS
<1> HIDE DEF n, count
<1>4. \A l \in D, g \in [D -> Nat] : E(l, g) \in Nat
  <2> TAKE l \in D, g \in [D -> Nat]
  <2>1. CASE l > n
    BY <2>1
  <2>2. CASE ~(l > n)
    <3>1. l \in 1..n /\ l + 1 \in D
      BY <1>1, <2>2
    <3>2. Len(lvls[l]) \in Nat /\ g[l + 1] \in Nat
      BY <1>3, <3>1
    <3> QED
      BY <1>2, <2>2, <3>2
  <2> QED
    BY <2>1, <2>2
<1>5. ASSUME NEW l \in D, NEW g \in [D -> Nat], NEW h \in [D -> Nat],
             \A y \in D : rank[y] < rank[l] => g[y] = h[y]
      PROVE  E(l, g) = E(l, h)
  <2>1. CASE l > n
    BY <2>1
  <2>2. CASE ~(l > n)
    <3>1. l + 1 \in D /\ rank[l + 1] < rank[l]
      BY <1>1, <2>2
    <3> QED
      BY <1>5, <3>1
  <2> QED
    BY <2>1, <2>2
<1>6. rank \in [D -> Nat]
  BY <1>1
<1> HIDE DEF rank, E
<1>7. /\ step \in [D \X [D -> Nat] -> Nat]
      /\ \A l \in D, g \in [D -> Nat] : step[<<l, g>>] = E(l, g)
  BY <1>4
<1> HIDE DEF step, D
<1>8. PICK f \in [D -> Nat] : \A l \in D : f[l] = step[<<l, f>>]
  <2>1. ASSUME NEW l \in D, NEW g \in [D -> Nat], NEW h \in [D -> Nat],
               \A y \in D : rank[y] < rank[l] => g[y] = h[y]
        PROVE  step[<<l, g>>] = step[<<l, h>>]
    <3>1. E(l, g) = E(l, h)
      BY <1>5, <2>1
    <3> QED
      BY <1>7, <3>1
  <2>2. WellFoundedStep(D, Nat, rank, step)
    BY <1>6, <1>7, <2>1 DEF WellFoundedStep
  <2> QED
    BY <2>2, RecursiveFunction
<1>9. f = [l \in D |-> E(l, f)]
  BY <1>7, <1>8
<1>10. count = [l \in D |-> E(l, count)]
  BY <1>9, Zenon DEF count, D, E, n
<1>11. \A l \in D : count[l] = E(l, count)
  BY <1>10, Zenon
<1> DEFINE S == {l \in D : count[l] \in Nat}
<1>12. ASSUME NEW l \in D, \A y \in D : rank[y] < rank[l] => y \in S PROVE l \in S
  <2>1. CASE l > n
    BY <1>11, <2>1 DEF E
  <2>2. CASE ~(l > n)
    <3>1. l \in 1..n /\ l + 1 \in D /\ rank[l + 1] < rank[l]
      BY <1>1, <2>2 DEF D, rank
    <3>2. count[l + 1] \in Nat /\ Len(lvls[l]) \in Nat
      BY <1>3, <1>12, <3>1
    <3>3. count[l] = Len(lvls[l]) + MaxRuns * count[l + 1]
      BY <1>11, <2>2 DEF E
    <3> QED
      BY <1>2, <3>2, <3>3
  <2> QED
    BY <2>1, <2>2
<1>13. D \subseteq S
  <2> HIDE DEF S
  <2> QED
    BY <1>6, <1>12, InductionOnRank
<1>14. count \in [D -> Nat]
  BY <1>10, <1>13
<1>15. count[n + 1] = 0
  BY <1>1, <1>11 DEF D, E
<1>16. \A l \in 1..n : count[l] = Len(lvls[l]) + MaxRuns * count[l + 1]
  BY <1>1, <1>11 DEF D, E
<1>17. FlushCount(lvls) = count[1]
  BY Zenon DEF FlushCount, count
<1> QED
  BY <1>14, <1>15, <1>16, <1>17 DEF D, n

(* A flush adds one to the count.  Below its target nothing changes, the   *)
(* target counts one run more, and each full level above it that is        *)
(* emptied loses MaxRuns - 1, which one more of the level below makes up.  *)
LEMMA FlushAddsOne ==
  ASSUME TypeOK, NEW t \in 1..MaxLevels, IsTarget(t)
  PROVE  FlushCount(Flushed(t)) = FlushCount(levels) + 1
<1> DEFINE n == Len(levels)
           new == Flushed(t)
           old == IF t > n THEN <<>> ELSE levels[t]
<1>1. /\ t \in Nat \ {0} /\ t <= n + 1 /\ n \in Nat
      /\ levels \in Seq(Seq(Run)) /\ MaxRuns \in Nat \ {0}
  BY Above, TreeAssumption DEF TypeOK
<1>2. /\ new \in Seq(Seq(Run)) /\ Len(new) = (IF t > n THEN t ELSE n)
      /\ old \in Seq(Run) /\ Len(new[t]) = Len(old) + 1
      /\ \A l \in 1..t - 1 : new[l] = <<>>
      /\ \A l \in t + 1..n : new[l] = levels[l]
  BY FlushShape
<1>3. t <= n => old = levels[t]
  BY <1>1
<1>4. t > n => Len(old) = 0
  OBVIOUS
<1>5. \A l \in 1..t - 1 : Len(levels[l]) = MaxRuns - 1 /\ Len(new[l]) = 0
  <2> TAKE l \in 1..t - 1
  <2>1. MaxRuns = Len(levels[l]) + 1 /\ l \in 1..n
    BY <1>1 DEF IsTarget, ReadyMerge
  <2>2. Len(levels[l]) \in Nat
    BY <1>1, <2>1
  <2> QED
    BY <1>1, <1>2, <2>1, <2>2
<1> HIDE DEF old, new
<1>6. PICK c \in [1..n + 1 -> Nat] :
        /\ FlushCount(levels) = c[1] /\ c[n + 1] = 0
        /\ \A l \in 1..n : c[l] = Len(levels[l]) + MaxRuns * c[l + 1]
  BY <1>1, FlushCountDefined
<1>7. PICK d \in [1..Len(new) + 1 -> Nat] :
        /\ FlushCount(new) = d[1] /\ d[Len(new) + 1] = 0
        /\ \A l \in 1..Len(new) : d[l] = Len(new[l]) + MaxRuns * d[l + 1]
  BY <1>2, FlushCountDefined
<1> HIDE DEF n
<1>8. d[t] = c[t] + 1
  <2>1. CASE t > n
    <3>1. t = n + 1 /\ Len(new) = t /\ t \in 1..Len(new)
      BY <1>1, <1>2, <2>1
    <3>2. d[t + 1] = 0 /\ c[t] = 0
      BY <1>6, <1>7, <3>1
    <3>3. d[t] = Len(new[t]) + MaxRuns * 0
      BY <1>7, <3>1, <3>2
    <3>4. Len(new[t]) = 1
      BY <1>2, <1>4, <2>1
    <3> QED
      BY <1>1, <3>2, <3>3, <3>4
  <2>2. CASE t <= n
    <3>1. Len(new) = n /\ t \in 1..n
      BY <1>1, <1>2, <2>2
    <3> DEFINE S == {i \in Nat : i <= n - t => d[n + 1 - i] = c[n + 1 - i]}
    <3>2. 0 \in S
      BY <1>1, <1>6, <1>7, <3>1
    <3>3. ASSUME NEW i \in Nat, i \in S PROVE i + 1 \in S
      <4> SUFFICES ASSUME i + 1 <= n - t PROVE d[n - i] = c[n - i]
        BY <1>1
      <4>1. n - i \in t + 1..n /\ n - i \in 1..n /\ (n - i) + 1 = n + 1 - i
        BY <1>1, <3>1
      <4>2. d[(n - i) + 1] = c[(n - i) + 1]
        BY <1>1, <3>3, <4>1
      <4>3. d[n - i] = Len(new[n - i]) + MaxRuns * d[(n - i) + 1]
        BY <1>7, <3>1, <4>1
      <4>4. c[n - i] = Len(levels[n - i]) + MaxRuns * c[(n - i) + 1]
        BY <1>6, <4>1
      <4> QED
        BY <1>2, <4>1, <4>2, <4>3, <4>4
    <3>4. Nat \subseteq S
      <4> HIDE DEF S
      <4> QED
        BY <3>2, <3>3, InductionOnNats
    <3>5. n - t \in Nat /\ n + 1 - (n - t) = t + 1
      BY <1>1, <2>2
    <3>6. d[t + 1] = c[t + 1]
      <4>1. n - t \in S
        <5> HIDE DEF S
        <5> QED
          BY <3>4, <3>5
      <4> QED
        BY <3>5, <4>1
    <3>7. d[t] = Len(old) + 1 + MaxRuns * c[t + 1]
      BY <1>2, <1>7, <3>1, <3>6
    <3>8. c[t] = Len(old) + MaxRuns * c[t + 1]
      BY <1>3, <1>6, <2>2, <3>1
    <3>9. Len(old) \in Nat /\ MaxRuns * c[t + 1] \in Nat
      <4>1. t + 1 \in 1..n + 1
        BY <1>1, <2>2
      <4>2. c[t + 1] \in Nat
        BY <4>1
      <4>3. Len(old) \in Nat
        BY <1>2
      <4> QED
        BY <1>1, <4>2, <4>3
    <3> QED
      BY <3>7, <3>8, <3>9
  <2> QED
    BY <1>1, <2>1, <2>2
<1> DEFINE S == {i \in Nat : i <= t - 1 => d[t - i] = c[t - i] + 1}
<1>9. 0 \in S
  BY <1>1, <1>8
<1>10. ASSUME NEW i \in Nat, i \in S PROVE i + 1 \in S
  <2> DEFINE l == t - (i + 1)
  <2> SUFFICES ASSUME i + 1 <= t - 1 PROVE d[l] = c[l] + 1
    OBVIOUS
  <2>1. l \in 1..t - 1 /\ l \in 1..n /\ l \in 1..Len(new) /\ l + 1 = t - i /\ l + 1 \in 1..n + 1
    BY <1>1, <1>2
  <2>2. d[l + 1] = c[l + 1] + 1
    BY <1>1, <1>10, <2>1
  <2> HIDE DEF l
  <2>3. d[l] = 0 + MaxRuns * (c[l + 1] + 1)
    BY <1>5, <1>7, <2>1, <2>2
  <2>4. c[l] = (MaxRuns - 1) + MaxRuns * c[l + 1]
    BY <1>5, <1>6, <2>1
  <2>5. c[l + 1] \in Nat
    BY <2>1
  <2> QED
    BY <1>1, <2>3, <2>4, <2>5
<1>11. Nat \subseteq S
  <2> HIDE DEF S
  <2> QED
    BY <1>9, <1>10, InductionOnNats
<1>12. d[1] = c[1] + 1
  <2>1. t - 1 \in Nat /\ t - (t - 1) = 1
    BY <1>1
  <2>2. t - 1 \in S
    BY <1>11, <2>1
  <2> QED
    BY <2>1, <2>2
<1> QED
  BY <1>6, <1>7, <1>12 DEF new

LEMMA FlushCountType ==
  ASSUME TypeOK
  PROVE  FlushCount(levels) \in Nat
<1>1. levels \in Seq(Seq(Run)) /\ Len(levels) \in Nat
  BY DEF TypeOK
<1>2. PICK count \in [1..Len(levels) + 1 -> Nat] : FlushCount(levels) = count[1]
  BY <1>1, FlushCountDefined
<1>3. 1 \in 1..Len(levels) + 1
  BY <1>1
<1> QED
  BY <1>2, <1>3

(* An insert adds one flush if it flushes and none if it does not.         *)
LEMMA InsertCounted ==
  ASSUME TypeOK, NEW k, NEW items, Insert(k, items), call'.op \in {"put", "del"}
  PROVE  FlushCount(levels') = FlushCount(levels) + IF Flushes THEN 1 ELSE 0
<1>1. Len(buf) \in Nat /\ buf \in Seq(Tuples)
  BY DEF TypeOK
<1>2. CASE AppendTuple(k, items)
  <2>1. levels' = levels /\ Len(buf') = Len(buf) + 1
    BY <1>1, <1>2 DEF AppendTuple
  <2>2. ~Flushes
    BY <1>1, <2>1 DEF Flushes
  <2>3. FlushCount(levels) \in Nat
    BY FlushCountType
  <2> QED
    BY <2>1, <2>2, <2>3
<1>3. CASE FlushAndAppend(k, items)
  <2>1. Len(buf') = 1 /\ Len(buf) >= BufCap /\ BufCap \in Nat \ {0}
    BY <1>3, TreeAssumption DEF FlushAndAppend
  <2>2. Flushes
    BY <1>1, <2>1 DEF Flushes
  <2>3. FlushCount(levels') = FlushCount(levels) + 1
    BY <1>3, FlushAddsOne DEF FlushAndAppend
  <2> QED
    BY <2>2, <2>3
<1> QED
  BY <1>2, <1>3 DEF Insert

(* Whatever searches answer, every call counts as it flushes.              *)
LEMMA StorageCounted == StorageSpec => EveryFlushCountedOnce
<1> DEFINE Counted == FlushCount(levels') = FlushCount(levels) + IF Flushes THEN 1 ELSE 0
<1>1. TypeOK /\ [SearchAnyhow \/ Next]_vars => [call'.op # "open" => Counted]_vars
  <2> SUFFICES ASSUME TypeOK, SearchAnyhow \/ Next, call'.op # "open"
               PROVE  Counted
    OBVIOUS
  <2>1. ASSUME NEW k \in Key, NEW v \in PutValue, Put(k, v)
        PROVE  Counted
    BY <2>1, InsertCounted DEF Put
  <2>2. ASSUME NEW k \in Key, Delete(k)
        PROVE  Counted
    BY <2>2, InsertCounted DEF Delete
  <2>3. ASSUME call'.op = "scan", levels' = levels
        PROVE  Counted
    <3>1. FlushCount(levels) \in Nat /\ ~Flushes
      BY <2>3, FlushCountType DEF Flushes
    <3> QED
      BY <2>3, <3>1
  <2>4. (\E lo, hi \in Key : lo <= hi /\ Search(lo, hi)) \/ SearchAnyhow
          => call'.op = "scan" /\ levels' = levels
    BY DEF Search, SearchAnyhow
  <2>5. ~Reopen
    BY DEF Reopen
  <2> HIDE DEF Counted
  <2> QED
    BY <2>1, <2>2, <2>3, <2>4, <2>5 DEF Next
<1> QED
  BY <1>1, StorageTypeCorrect, PTL DEF StorageSpec, EveryFlushCountedOnce

(* Every flush is counted once, however many levels it merges, and nothing *)
(* else is: no flush and no run is lost, merged twice or left behind by    *)
(* the merge that consumed it.                                             *)
THEOREM FlushesAreCounted == Spec => EveryFlushCountedOnce
BY StorageCounted, StorageIsOfTree, PTL

-----------------------------------------------------------------------------
(* What MostTuples says: one buffer for the first level, and from there    *)
(* MaxRuns times as much on each.                                          *)
LEMMA MostTuplesDefined ==
  /\ \A l \in Nat : MostTuples(l) \in Nat
  /\ MostTuples(1) = BufCap
  /\ \A l \in Nat \ {0} : MostTuples(l + 1) = MaxRuns * MostTuples(l)
<1> DEFINE E(m, g) == IF m <= 1 THEN BufCap ELSE MaxRuns * g[m - 1]
           step == [x \in Nat \X [Nat -> Nat] |-> E(x[1], x[2])]
           rank == [m \in Nat |-> m]
           most[m \in Nat] == IF m <= 1 THEN BufCap ELSE MaxRuns * most[m - 1]
<1>1. BufCap \in Nat /\ MaxRuns \in Nat
  BY TreeAssumption
<1>2. \A l : MostTuples(l) = most[l]
  BY Zenon DEF MostTuples
<1> HIDE DEF most
<1>3. \A m \in Nat : ~(m <= 1) => m - 1 \in Nat \ {0}
  OBVIOUS
<1>4. \A m \in Nat, g \in [Nat -> Nat] : E(m, g) \in Nat
  <2> TAKE m \in Nat, g \in [Nat -> Nat]
  <2>1. CASE m <= 1
    BY <1>1, <2>1
  <2>2. CASE ~(m <= 1)
    <3>1. g[m - 1] \in Nat
      BY <1>3, <2>2
    <3>2. MaxRuns * g[m - 1] \in Nat
      BY <1>1, <3>1
    <3> QED
      BY <2>2, <3>2
  <2> QED
    BY <2>1, <2>2
<1>5. ASSUME NEW m \in Nat, NEW g \in [Nat -> Nat], NEW h \in [Nat -> Nat],
             \A y \in Nat : rank[y] < rank[m] => g[y] = h[y]
      PROVE  E(m, g) = E(m, h)
  <2>1. ~(m <= 1) => m - 1 \in Nat /\ rank[m - 1] < rank[m]
    OBVIOUS
  <2> QED
    BY <1>5, <2>1
<1>6. rank \in [Nat -> Nat]
  OBVIOUS
<1> HIDE DEF rank, E
<1>7. /\ step \in [Nat \X [Nat -> Nat] -> Nat]
      /\ \A m \in Nat, g \in [Nat -> Nat] : step[<<m, g>>] = E(m, g)
  BY <1>4
<1> HIDE DEF step
<1>8. PICK f \in [Nat -> Nat] : \A m \in Nat : f[m] = step[<<m, f>>]
  <2>1. ASSUME NEW m \in Nat, NEW g \in [Nat -> Nat], NEW h \in [Nat -> Nat],
               \A y \in Nat : rank[y] < rank[m] => g[y] = h[y]
        PROVE  step[<<m, g>>] = step[<<m, h>>]
    <3>1. E(m, g) = E(m, h)
      BY <1>5, <2>1
    <3> QED
      BY <1>7, <3>1
  <2>2. WellFoundedStep(Nat, Nat, rank, step)
    BY <1>6, <1>7, <2>1 DEF WellFoundedStep
  <2> QED
    BY <2>2, RecursiveFunction
<1>9. f = [m \in Nat |-> E(m, f)]
  BY <1>7, <1>8
<1>10. most = [m \in Nat |-> E(m, most)]
  BY <1>9, Zenon DEF most, E
<1>11. \A m \in Nat : most[m] = E(m, most)
  BY <1>10, Zenon
<1>12. most[0] = BufCap /\ most[1] = BufCap
  BY <1>11 DEF E
<1>13. \A m \in Nat \ {0} : most[m + 1] = MaxRuns * most[m]
  <2> TAKE m \in Nat \ {0}
  <2>1. m + 1 \in Nat /\ ~(m + 1 <= 1) /\ (m + 1) - 1 = m
    OBVIOUS
  <2>2. most[m + 1] = E(m + 1, most)
    BY <1>11, <2>1
  <2> QED
    BY <2>1, <2>2 DEF E
<1> DEFINE S == {m \in Nat : most[m] \in Nat}
<1>14. ASSUME NEW m \in Nat, m \in S PROVE m + 1 \in S
  <2>1. most[m] \in Nat
    BY <1>14
  <2>2. MaxRuns * most[m] \in Nat
    BY <1>1, <2>1
  <2>3. CASE m = 0
    BY <1>1, <1>12, <2>3
  <2>4. CASE m # 0
    BY <1>13, <2>2, <2>4
  <2> QED
    BY <2>3, <2>4
<1>15. 0 \in S
  BY <1>1, <1>12
<1>16. Nat \subseteq S
  <2> HIDE DEF S
  <2> QED
    BY <1>14, <1>15, InductionOnNats
<1> QED
  BY <1>2, <1>12, <1>13, <1>16

(* A set with an element in one of n sets of at most b has at most n * b.  *)
LEMMA UnionOfBounded ==
  ASSUME NEW n \in Nat, NEW b \in Nat, NEW F,
         \A i \in 1..n : IsFiniteSet(F[i]) /\ Cardinality(F[i]) <= b
  PROVE  /\ IsFiniteSet(UNION {F[i] : i \in 1..n})
         /\ Cardinality(UNION {F[i] : i \in 1..n}) <= n * b
<1> DEFINE U(m) == UNION {F[i] : i \in 1..m}
           S == {m \in Nat : m <= n => IsFiniteSet(U(m)) /\ Cardinality(U(m)) <= m * b}
<1>1. 0 \in S
  <2>1. U(0) = {}
    OBVIOUS
  <2>2. 0 * b = 0
    OBVIOUS
  <2> QED
    BY <2>1, <2>2, FS_EmptySet
<1>2. ASSUME NEW m \in Nat, m \in S PROVE m + 1 \in S
  <2> SUFFICES ASSUME m + 1 <= n
               PROVE  IsFiniteSet(U(m + 1)) /\ Cardinality(U(m + 1)) <= (m + 1) * b
    OBVIOUS
  <2>1. IsFiniteSet(U(m)) /\ Cardinality(U(m)) <= m * b
    BY <1>2
  <2>2. IsFiniteSet(F[m + 1]) /\ Cardinality(F[m + 1]) <= b
    OBVIOUS
  <2>3. U(m + 1) = U(m) \cup F[m + 1]
    <3>1. \A i : i \in 1..m + 1 <=> i \in 1..m \/ i = m + 1
      OBVIOUS
    <3> QED
      BY <3>1
  <2> HIDE DEF U
  <2>4. /\ IsFiniteSet(U(m) \cup F[m + 1])
        /\ Cardinality(U(m) \cup F[m + 1])
             = Cardinality(U(m)) + Cardinality(F[m + 1]) - Cardinality(U(m) \cap F[m + 1])
    BY <2>1, <2>2, FS_Union
  <2>5. /\ Cardinality(U(m)) \in Nat /\ Cardinality(F[m + 1]) \in Nat
        /\ Cardinality(U(m) \cap F[m + 1]) \in Nat
    BY <2>1, <2>2, FS_CardinalityType, FS_Intersection
  <2>6. PICK p \in Nat : p = m * b
    OBVIOUS
  <2>7. (m + 1) * b = p + b
    BY <2>6
  <2> DEFINE x == Cardinality(U(m))
             y == Cardinality(F[m + 1])
             z == Cardinality(U(m) \cap F[m + 1])
  <2>8. x \in Nat /\ y \in Nat /\ z \in Nat /\ x <= p /\ y <= b
    BY <2>1, <2>2, <2>5, <2>6
  <2>9. Cardinality(U(m + 1)) = x + y - z
    BY <2>3, <2>4
  <2> HIDE DEF x, y, z
  <2>10. Cardinality(U(m + 1)) <= p + b
    BY <2>8, <2>9
  <2> QED
    BY <2>3, <2>4, <2>7, <2>10
<1>3. Nat \subseteq S
  <2> HIDE DEF S
  <2> QED
    BY <1>1, <1>2, InductionOnNats
<1>4. n \in S
  BY <1>3
<1> QED
  BY <1>4

(* What is needed to count the tuples of a run.                            *)
RunsFinite ==
  \A l \in 1..Len(levels) : \A r \in 1..Len(levels[l]) : IsFiniteSet(DOMAIN levels[l][r])

(* A merge gathers one tuple per key, so that it keeps at most BufCap of   *)
(* the buffer and MaxRuns times as many for each level it goes past: of    *)
(* the MaxRuns - 1 runs there and of what it brings from above.            *)
LEMMA GatheredBounded ==
  ASSUME TypeOK, RunsFinite, RunsGrowByMaxRuns, NEW t \in 1..MaxLevels, IsTarget(t)
  PROVE  LET run == NewRun(SubSeq(levels, 1, t - 1))
         IN  /\ IsFiniteSet(DOMAIN run)
             /\ Cardinality(DOMAIN run) <= MostTuples(t)
<1> DEFINE above == SubSeq(levels, 1, t - 1)
           K(m) == {x \in Key : InBuffer(x) # {} \/ \E l \in 1..m : InLevel(levels[l], x) # {}}
           S == {m \in Nat : m <= t - 1 => /\ IsFiniteSet(K(m))
                                          /\ Cardinality(K(m)) <= MostTuples(m + 1)}
<1>1. /\ t \in Nat \ {0} /\ t <= Len(levels) + 1 /\ Len(levels) \in Nat
      /\ above \in Seq(Seq(Run)) /\ Len(above) = t - 1
      /\ \A l \in 1..t - 1 : above[l] = levels[l]
      /\ levels \in Seq(Seq(Run))
  BY Above DEF TypeOK
<1>2. /\ MaxRuns \in Nat \ {0}
      /\ \A l \in Nat : MostTuples(l) \in Nat
      /\ MostTuples(1) = BufCap
      /\ \A l \in Nat \ {0} : MostTuples(l + 1) = MaxRuns * MostTuples(l)
  BY MostTuplesDefined, TreeAssumption
<1>3. 0 \in S
  <2> DEFINE F == [i \in 1..Len(buf) |-> {buf[i].key}]
             U == UNION {F[i] : i \in 1..Len(buf)}
  <2>1. Len(buf) \in Nat /\ Len(buf) <= BufCap
    BY DEF TypeOK
  <2>2. \A i \in 1..Len(buf) : IsFiniteSet(F[i]) /\ Cardinality(F[i]) <= 1
    <3> TAKE i \in 1..Len(buf)
    <3>1. F[i] = {buf[i].key}
      OBVIOUS
    <3>2. IsFiniteSet({buf[i].key}) /\ Cardinality({buf[i].key}) = 1
      BY FS_Singleton
    <3> QED
      BY <3>1, <3>2
  <2>3. K(0) \subseteq U
    BY DEF InBuffer
  <2> HIDE DEF F
  <2>4. IsFiniteSet(U) /\ Cardinality(U) <= Len(buf) * 1
    BY <2>1, <2>2, UnionOfBounded
  <2> HIDE DEF U, K
  <2>5. IsFiniteSet(K(0)) /\ Cardinality(K(0)) <= Cardinality(U)
    BY <2>3, <2>4, FS_Subset
  <2>6. Cardinality(K(0)) \in Nat /\ Cardinality(U) \in Nat
    BY <2>4, <2>5, FS_CardinalityType
  <2>7. Cardinality(K(0)) <= BufCap
    BY <2>1, <2>4, <2>5, <2>6, TreeAssumption
  <2> QED
    BY <1>2, <2>5, <2>7
<1>4. ASSUME NEW m \in Nat, m \in S PROVE m + 1 \in S
  <2> SUFFICES ASSUME m + 1 <= t - 1
               PROVE  /\ IsFiniteSet(K(m + 1))
                      /\ Cardinality(K(m + 1)) <= MostTuples((m + 1) + 1)
    OBVIOUS
  <2> DEFINE b == MostTuples(m + 1)
             level == levels[m + 1]
             F == [i \in 1..MaxRuns |-> IF i = MaxRuns THEN K(m) ELSE DOMAIN level[i]]
             U == UNION {F[i] : i \in 1..MaxRuns}
  <2>1. IsFiniteSet(K(m)) /\ Cardinality(K(m)) <= b
    BY <1>1, <1>4
  <2>2. m + 1 \in 1..Len(levels) /\ m + 1 \in 1..t - 1
    BY <1>1
  <2>3. level \in Seq(Run) /\ MaxRuns = Len(level) + 1
    BY <1>1, <2>2 DEF IsTarget, ReadyMerge
  <2>4. \A i \in 1..Len(level) : IsFiniteSet(DOMAIN level[i]) /\ Cardinality(DOMAIN level[i]) <= b
    BY <2>2 DEF RunsFinite, RunsGrowByMaxRuns
  <2>5. K(m + 1) \subseteq U
    <3> SUFFICES ASSUME NEW x \in K(m + 1) PROVE \E i \in 1..MaxRuns : x \in F[i]
      OBVIOUS
    <3>1. MaxRuns \in 1..MaxRuns
      BY <1>2
    <3>2. CASE x \in K(m)
      BY <3>1, <3>2
    <3>3. CASE x \notin K(m)
      <4>1. PICK l \in 1..m + 1 : InLevel(levels[l], x) # {}
        BY <3>3
      <4>2. l = m + 1
        <5>1. l \notin 1..m
          BY <3>3, <4>1
        <5> QED
          BY <5>1
      <4>3. PICK i \in 1..Len(level) : x \in DOMAIN level[i]
        BY <4>1, <4>2 DEF InLevel
      <4>4. i \in 1..MaxRuns /\ i # MaxRuns
        BY <2>3, <4>3
      <4> QED
        BY <4>3, <4>4
    <3> QED
      BY <3>2, <3>3
  <2> HIDE DEF K, level, b
  <2>6. \A i \in 1..MaxRuns : IsFiniteSet(F[i]) /\ Cardinality(F[i]) <= b
    <3> TAKE i \in 1..MaxRuns
    <3>1. i # MaxRuns => i \in 1..Len(level)
      BY <2>3
    <3> QED
      BY <2>1, <2>4, <3>1
  <2>7. b \in Nat
    BY <1>2 DEF b
  <2> HIDE DEF F
  <2>8. IsFiniteSet(U) /\ Cardinality(U) <= MaxRuns * b
    BY <1>2, <2>6, <2>7, UnionOfBounded
  <2> HIDE DEF U
  <2>9. IsFiniteSet(K(m + 1)) /\ Cardinality(K(m + 1)) <= Cardinality(U)
    BY <2>5, <2>8, FS_Subset
  <2>10. MostTuples((m + 1) + 1) = MaxRuns * b
    BY <1>2 DEF b
  <2>11. Cardinality(K(m + 1)) \in Nat /\ Cardinality(U) \in Nat /\ MaxRuns * b \in Nat
    BY <1>2, <2>7, <2>8, <2>9, FS_CardinalityType
  <2>12. Cardinality(K(m + 1)) <= MaxRuns * b
    BY <2>8, <2>9, <2>11
  <2> QED
    BY <2>9, <2>10, <2>12
<1>5. Nat \subseteq S
  <2> HIDE DEF S
  <2> QED
    BY <1>3, <1>4, InductionOnNats
<1>6. t - 1 \in S /\ (t - 1) + 1 = t
  <2> HIDE DEF S
  <2> QED
    BY <1>1, <1>5
<1>7. DOMAIN NewRun(above) = K(t - 1)
  <2>1. DOMAIN NewRun(above) = {x \in Key : Holds(above, x)}
    BY DEF NewRun
  <2>2. \A x : InLevels(above, x) # {} <=> \E l \in 1..t - 1 : InLevel(levels[l], x) # {}
    BY <1>1 DEF InLevels
  <2> HIDE DEF above
  <2> QED
    BY <2>1, <2>2 DEF Holds
<1> QED
  BY <1>6, <1>7

(* The inductive invariant, whatever searches answer: runs are finite, and *)
(* bounded by their level.                                                 *)
LEMMA StorageRunsBounded == StorageSpec => [](RunsFinite /\ RunsGrowByMaxRuns)
<1> DEFINE Inv == RunsFinite /\ RunsGrowByMaxRuns
<1> USE DEF RunsFinite, RunsGrowByMaxRuns
<1>1. Init => Inv
  BY DEF Init
<1>2. ASSUME TypeOK, Inv, NEW k, NEW items, Insert(k, items)
      PROVE  Inv'
  <2>1. CASE AppendTuple(k, items)
    BY <1>2, <2>1 DEF AppendTuple
  <2>2. CASE FlushAndAppend(k, items)
    <3>1. PICK t \in 1..MaxLevels : IsTarget(t) /\ levels' = Flushed(t)
      BY <2>2 DEF FlushAndAppend
    <3> DEFINE old == IF t > Len(levels) THEN <<>> ELSE levels[t]
               run == NewRun(SubSeq(levels, 1, t - 1))
    <3>2. /\ Len(levels') = IF t > Len(levels) THEN t ELSE Len(levels)
          /\ old \in Seq(Run)
          /\ levels'[t] = Append(old, run)
          /\ \A l \in 1..t - 1 : levels'[l] = <<>>
          /\ \A l \in t + 1..Len(levels) : levels'[l] = levels[l]
      BY <1>2, <3>1, FlushShape
    <3>3. IsFiniteSet(DOMAIN run) /\ Cardinality(DOMAIN run) <= MostTuples(t)
      BY <1>2, <3>1, GatheredBounded
    <3>4. Len(levels) \in Nat /\ t \in Nat
      BY <1>2 DEF TypeOK
    <3>5. t <= Len(levels) => old = levels[t]
      BY <3>4
    <3>6. t > Len(levels) => old = <<>>
      OBVIOUS
    <3> HIDE DEF old, run
    <3>7. ASSUME NEW l \in 1..Len(levels'), NEW r \in 1..Len(levels'[l])
          PROVE  /\ IsFiniteSet(DOMAIN levels'[l][r])
                 /\ Cardinality(DOMAIN levels'[l][r]) <= MostTuples(l)
      <4>1. CASE l < t
        <5>1. levels'[l] = <<>>
          BY <3>2, <3>4, <4>1
        <5> QED
          BY <5>1
      <4>2. CASE l = t /\ r = Len(old) + 1
        <5>1. levels'[l][r] = run
          BY <3>2, <4>2
        <5> QED
          BY <3>3, <4>2, <5>1
      <4>3. CASE l = t /\ r # Len(old) + 1
        <5>1. r \in 1..Len(old) /\ levels'[l][r] = old[r]
          BY <3>2, <4>3
        <5>2. t \in 1..Len(levels) /\ old = levels[t]
          BY <5>1, <3>1, <3>4, <3>5, <3>6
        <5> QED
          BY <1>2, <4>3, <5>1, <5>2
      <4>4. CASE l > t
        <5>1. l \in t + 1..Len(levels) /\ l \in 1..Len(levels)
          BY <3>1, <3>2, <3>4, <4>4
        <5> QED
          BY <1>2, <3>2, <5>1
      <4> QED
        BY <3>4, <4>1, <4>2, <4>3, <4>4
    <3> QED
      BY <3>7
  <2> QED
    BY <1>2, <2>1, <2>2 DEF Insert
<1>3. TypeOK /\ Inv /\ [SearchAnyhow \/ Next]_vars => Inv'
  <2> HIDE DEF Inv
  <2> SUFFICES ASSUME TypeOK, Inv, [SearchAnyhow \/ Next]_vars
               PROVE  Inv'
    OBVIOUS
  <2>1. ASSUME NEW k \in Key, NEW v \in PutValue, Put(k, v)
        PROVE  Inv'
    BY <1>2, <2>1 DEF Put
  <2>2. ASSUME NEW k \in Key, Delete(k)
        PROVE  Inv'
    BY <1>2, <2>2 DEF Delete
  <2>3. ASSUME NEW lo \in Key, NEW hi \in Key, Search(lo, hi)
        PROVE  Inv'
    BY <2>3 DEF Search, Inv
  <2>4. CASE Reopen
    BY <2>4 DEF Reopen, Inv
  <2>5. CASE UNCHANGED vars
    BY <2>5 DEF vars, Inv
  <2>6. CASE SearchAnyhow
    BY <2>6 DEF SearchAnyhow, Inv
  <2> QED
    BY <2>1, <2>2, <2>3, <2>4, <2>5, <2>6 DEF Next
<1> QED
  BY <1>1, <1>3, StorageTypeCorrect, PTL DEF StorageSpec

(* Runs are finite, and no larger than their level allows.                 *)
THEOREM RunsStayBounded == Spec => [](RunsFinite /\ RunsGrowByMaxRuns)
BY StorageRunsBounded, StorageIsOfTree, PTL

-----------------------------------------------------------------------------
(* Under ClientValues a scan returns what clients put, word for word, or   *)
(* an empty value: a stored copy is of one of those kinds, and re_order    *)
(* drops the third kind, the delete markers.                               *)
THEOREM ScansReturnPutValues ==
  ASSUME ClientValues
  PROVE  Spec => []ScanReturnsPutValues
<1>1. Init => ScanReturnsPutValues
  BY DEF Init, ScanReturnsPutValues
<1>2. ASSUME TypeOK, CopiesFromClients, NEW lo, NEW hi, Search(lo, hi)
      PROVE  ScanReturnsPutValues'
  <2>1. \A k \in DOMAIN Found(lo, hi) : Found(lo, hi)[k] \in PutValue \cup {<<>>}
    <3> TAKE k \in DOMAIN Found(lo, hi)
    <3>1. k \in Live /\ Found(lo, hi)[k] = FirstCopy(levels, k)
      BY DEF Found
    <3>2. k \in Key /\ Holds(levels, k) /\ ~IsDelMarker(FirstCopy(levels, k))
      BY <3>1 DEF Live
    <3>3. FirstCopy(levels, k) \in PutValue \cup {DelMarker, <<>>}
      BY <1>2, <3>2, FirstCopyFromClients
    <3> QED
      BY <3>1, <3>2, <3>3, StoredCopies
  <2> QED
    BY <1>2, <2>1 DEF Search, ScanReturnsPutValues
<1>3. /\ TypeOK /\ CopiesFromClients /\ ScanReturnsPutValues
      /\ [Next]_vars
      => ScanReturnsPutValues'
  <2> SUFFICES ASSUME TypeOK, CopiesFromClients, ScanReturnsPutValues, [Next]_vars
               PROVE  ScanReturnsPutValues'
    OBVIOUS
  <2>1. ASSUME NEW k \in Key, NEW v \in PutValue, Put(k, v)
        PROVE  ScanReturnsPutValues'
    BY <2>1 DEF Put, ScanReturnsPutValues
  <2>2. ASSUME NEW k \in Key, Delete(k)
        PROVE  ScanReturnsPutValues'
    BY <2>2 DEF Delete, ScanReturnsPutValues
  <2>3. CASE Reopen
    BY <2>3 DEF Reopen, ScanReturnsPutValues
  <2>4. CASE UNCHANGED vars
    BY <2>4 DEF vars, ScanReturnsPutValues
  <2> QED
    BY <1>2, <2>1, <2>2, <2>3, <2>4 DEF Next
<1> QED
  BY <1>1, <1>3, CopiesInvariant, PTL DEF Spec
=============================================================================
