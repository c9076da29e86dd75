---------------------------- MODULE XpsCoreProofs ----------------------------
(***************************************************************************)
(* Proofs about the core: its lists hold what exists whichever handlers    *)
(* ran, their NULLs are counted, and how a shutdown can end.               *)
(***************************************************************************)
EXTENDS XpsCore, XpsLoopProofs

\* What HoldsOnce says, position by position.
Holding(list, objects) ==
  /\ list \in Seq(objects \cup {NULL})
  /\ \A x \in objects : \E i \in DOMAIN list : list[i] = x
  /\ \A i, j \in DOMAIN list : list[i] = list[j] /\ list[i] # NULL => i = j

-----------------------------------------------------------------------------
(***************************************************************************)
(* The operations on a list.                                               *)
(***************************************************************************)
LEMMA Counting ==
  ASSUME NEW n \in Nat
  PROVE  IsFiniteSet(1..n) /\ Cardinality(1..n) = n
<1>1. IsFiniteSet(1..n) /\ Cardinality(1..n) = IF 1 > n THEN 0 ELSE n - 1 + 1
  BY FS_Interval
<1> QED
  BY <1>1

\* The positions that are left are as many as the objects.
LEMMA LeftCounted ==
  ASSUME NEW objects, IsFiniteSet(objects), NULL \notin objects, NEW list,
         Holding(list, objects)
  PROVE  /\ IsFiniteSet(Left(list)) /\ Cardinality(Left(list)) = Cardinality(objects)
         /\ Left(list) \subseteq 1..Len(list) /\ Len(list) \in Nat
         /\ DOMAIN list = 1..Len(list)
<1> DEFINE f == [i \in Left(list) |-> list[i]]
<1>1. /\ Len(list) \in Nat /\ DOMAIN list = 1..Len(list)
      /\ \A i \in DOMAIN list : list[i] \in objects \cup {NULL}
  BY DEF Holding
<1>2. Left(list) \subseteq 1..Len(list)
  BY <1>1 DEF Left
<1>3. IsFiniteSet(Left(list))
  <2>1. IsFiniteSet(1..Len(list))
    BY <1>1, FS_Interval
  <2> QED
    BY <1>2, <2>1, FS_Subset
<1>4. f \in [Left(list) -> objects]
  BY <1>1 DEF Left
<1>5. \A i, j \in Left(list) : f[i] = f[j] => i = j
  BY DEF Left, Holding
<1>6. \A x \in objects : \E i \in Left(list) : f[i] = x
  BY DEF Left, Holding
<1>7. f \in Bijection(Left(list), objects)
  <2> HIDE DEF f
  <2>1. DOMAIN f = Left(list)
    BY <1>4
  <2>2. f \in Injection(Left(list), objects)
    BY <1>4, <1>5, <2>1 DEF Injection, IsInjective
  <2>3. f \in Surjection(Left(list), objects)
    BY <1>4, <1>6 DEF Surjection
  <2> QED
    BY <2>2, <2>3 DEF Bijection
<1>8. ExistsBijection(Left(list), objects)
  BY <1>7 DEF ExistsBijection
<1> QED
  BY <1>1, <1>2, <1>3, <1>8, FS_Bijection

LEMMA HoldingMeans ==
  ASSUME NEW objects, IsFiniteSet(objects), NULL \notin objects, NEW list,
         Holding(list, objects)
  PROVE  /\ HoldsOnce(list, objects)
         /\ Nulls(list) \in Nat /\ Nulls(list) = Len(list) - Cardinality(objects)
         /\ Objects(list) = objects
<1> DEFINE D == 1..Len(list)
           Z == {i \in DOMAIN list : list[i] = NULL}
<1>1. /\ IsFiniteSet(Left(list)) /\ Cardinality(Left(list)) = Cardinality(objects)
      /\ Len(list) \in Nat /\ DOMAIN list = D
  BY LeftCounted
<1>2. \A i \in DOMAIN list : list[i] \in objects \cup {NULL}
  BY DEF Holding
<1>3. {list[i] : i \in DOMAIN list} \ {NULL} = objects
  BY <1>2 DEF Holding
<1>4. Z \cup Left(list) = D /\ Z \cap Left(list) = {} /\ Z \subseteq D
  BY <1>1 DEF Left
<1>5. IsFiniteSet(D) /\ Cardinality(D) = Len(list)
  BY <1>1, Counting
<1>6. IsFiniteSet(Z) /\ Cardinality(Z) \in Nat
  BY <1>4, <1>5, FS_Subset, FS_CardinalityType
<1>7. Cardinality(D) = Cardinality(Z) + Cardinality(Left(list)) - 0
  <2> HIDE DEF D, Z
  <2> QED
    BY <1>1, <1>4, <1>6, FS_Union, FS_EmptySet
<1>8. Cardinality(objects) \in Nat
  BY FS_CardinalityType
<1>9. Len(list) = Nulls(list) + Cardinality(objects) /\ Nulls(list) \in Nat
  BY <1>1, <1>5, <1>6, <1>7, <1>8 DEF Nulls
<1>10. Nulls(list) = Len(list) - Cardinality(objects)
  BY <1>1, <1>8, <1>9
<1>11. SequenceOps!ToSet(list) \ {NULL} = objects
  BY <1>3 DEF SequenceOps!ToSet
<1> QED
  BY <1>3, <1>9, <1>10, <1>11 DEF HoldsOnce, Objects

\* A destructor nulls the positions of what it destroys.
LEMMA NulledHolds ==
  ASSUME NEW objects, IsFiniteSet(objects), NULL \notin objects, NEW list,
         Holding(list, objects), NEW gone, gone \subseteq objects
  PROVE  /\ Holding(Nulled(list, gone), objects \ gone)
         /\ Nulls(Nulled(list, gone)) = Nulls(list) + Cardinality(gone)
<1> DEFINE l == Nulled(list, gone)
<1>1. /\ Len(list) \in Nat /\ DOMAIN list = 1..Len(list)
      /\ \A i \in DOMAIN list : list[i] \in objects \cup {NULL}
  BY DEF Holding
<1>2. DOMAIN l = DOMAIN list /\ \A i \in DOMAIN list : l[i] = IF list[i] \in gone THEN NULL ELSE list[i]
  BY DEF Nulled
<1>3. l \in Seq((objects \ gone) \cup {NULL}) /\ Len(l) = Len(list)
  <2>1. l \in [1..Len(list) -> (objects \ gone) \cup {NULL}]
    BY <1>1 DEF Nulled
  <2> QED
    BY <1>1, <2>1
<1>4. \A x \in objects \ gone : \E i \in DOMAIN l : l[i] = x
  <2> HIDE DEF l
  <2> QED
    BY <1>2 DEF Holding
<1>5. \A i, j \in DOMAIN l : l[i] = l[j] /\ l[i] # NULL => i = j
  <2> HIDE DEF l
  <2> QED
    BY <1>2 DEF Holding
<1>6. Holding(l, objects \ gone)
  <2> HIDE DEF l
  <2> QED
    BY <1>3, <1>4, <1>5 DEF Holding
<1>7. /\ IsFiniteSet(gone) /\ IsFiniteSet(objects \ gone)
      /\ Cardinality(gone) \in Nat /\ Cardinality(objects \ gone) \in Nat /\ Cardinality(objects) \in Nat
  BY FS_Subset, FS_CardinalityType
<1>8. Cardinality(objects) = Cardinality(gone) + Cardinality(objects \ gone) - 0
  <2>1. gone \cup (objects \ gone) = objects /\ gone \cap (objects \ gone) = {}
    OBVIOUS
  <2> QED
    BY <1>7, <2>1, FS_Union, FS_EmptySet
<1>9. Nulls(l) = Len(l) - Cardinality(objects \ gone) /\ Nulls(list) = Len(list) - Cardinality(objects)
  <2> HIDE DEF l
  <2> QED
    BY <1>6, <1>7, HoldingMeans
<1> QED
  BY <1>1, <1>3, <1>6, <1>7, <1>8, <1>9

\* A constructor pushes what it creates.
LEMMA PushedHolds ==
  ASSUME NEW objects, IsFiniteSet(objects), NULL \notin objects, NEW list,
         Holding(list, objects), NEW new, IsFiniteSet(new), NULL \notin new,
         objects \cap new = {}
  PROVE  /\ Holding(Pushed(list, new), objects \cup new)
         /\ Nulls(Pushed(list, new)) = Nulls(list)
<1> DEFINE n == Cardinality(new)
           s == SequenceOps!SetToSeq(new)
           l == Pushed(list, new)
<1>1. n \in Nat /\ ExistsBijection(1..n, new)
  BY FS_CardinalityType
<1>2. \E f \in [1..n -> new] : \A i, j \in 1..n : f[i] = f[j] => i = j
  <2>1. PICK f \in Injection(1..n, new) : TRUE
    BY <1>1 DEF ExistsBijection, Bijection
  <2>2. f \in [1..n -> new] /\ DOMAIN f = 1..n /\ IsInjective(f)
    BY <2>1 DEF Injection
  <2> QED
    BY <2>2 DEF IsInjective
<1>3. s \in [1..n -> new] /\ \A i, j \in 1..n : s[i] = s[j] => i = j
  <2>1. \E f \in [1..n -> new] : SequenceOps!IsInjective(f)
    BY <1>2 DEF SequenceOps!IsInjective
  <2>2. SequenceOps!Cardinality(new) = n
    BY DEF SequenceOps!Cardinality, Cardinality, SequenceOps!IsFiniteSet, IsFiniteSet
  <2>3. s = CHOOSE f \in [1..n -> new] : SequenceOps!IsInjective(f)
    BY <2>2 DEF SequenceOps!SetToSeq
  <2>4. s \in [1..n -> new] /\ SequenceOps!IsInjective(s)
    <3> HIDE DEF s, n
    <3> QED
      BY <2>1, <2>3
  <2> QED
    <3> HIDE DEF s, n
    <3> QED
      BY <2>4 DEF SequenceOps!IsInjective
<1>4. \A x \in new : \E i \in 1..n : s[i] = x
  <2>1. s \in Injection(1..n, new)
    <3> HIDE DEF s, n
    <3> QED
      BY <1>3 DEF Injection, IsInjective
  <2>2. IsFiniteSet(1..n) /\ Cardinality(1..n) = n
    BY <1>1, Counting
  <2>3. s \in Surjection(1..n, new)
    <3> HIDE DEF s
    <3> QED
      BY <2>1, <2>2, FS_Injection
  <2> QED
    BY <2>3 DEF Surjection
<1>5. s \in Seq(new) /\ Len(s) = n /\ DOMAIN s = 1..n
  <2> HIDE DEF s, n
  <2> QED
    BY <1>1, <1>3
<1> HIDE DEF s
<1>6. /\ Len(list) \in Nat /\ DOMAIN list = 1..Len(list) /\ list \in Seq(objects \cup {NULL})
      /\ \A i \in DOMAIN list : list[i] \in objects \cup {NULL}
  BY DEF Holding
<1>7. /\ l \in Seq((objects \cup new) \cup {NULL}) /\ Len(l) = Len(list) + n
      /\ \A i \in 1..Len(list) : l[i] = list[i]
      /\ \A i \in 1..n : l[Len(list) + i] = s[i]
      /\ DOMAIN l = 1..(Len(list) + n)
  <2>1. /\ list \in Seq((objects \cup new) \cup {NULL}) /\ s \in Seq((objects \cup new) \cup {NULL})
        /\ l = list \o s
    BY <1>5, <1>6 DEF Pushed, s
  <2> HIDE DEF l, n
  <2>2. l \in Seq((objects \cup new) \cup {NULL}) /\ Len(l) = Len(list) + n
    <3> DEFINE T == (objects \cup new) \cup {NULL}
    <3>1. list \in Seq(T) /\ s \in Seq(T)
      BY <2>1
    <3> HIDE DEF T
    <3>2. l \in Seq(T)
      BY <2>1, <3>1
    <3>3. Len(l) = Len(list) + Len(s)
      BY <2>1, <3>1
    <3> QED
      BY <1>5, <3>2, <3>3 DEF T
  <2>3. /\ \A i \in 1..Len(list) : l[i] = list[i]
        /\ \A i \in 1..n : l[Len(list) + i] = s[i]
    BY <1>1, <1>5, <1>6, <2>1
  <2>4. DOMAIN l = 1..(Len(list) + n)
    BY <1>1, <1>6, <2>2
  <2> QED
    BY <2>2, <2>3, <2>4
<1> HIDE DEF l, n
<1>8. \A x \in objects \cup new : \E i \in DOMAIN l : l[i] = x
  <2>1. ASSUME NEW x \in objects PROVE \E i \in DOMAIN l : l[i] = x
    <3>1. PICK i \in 1..Len(list) : list[i] = x
      BY <1>6 DEF Holding
    <3> QED
      BY <1>1, <1>6, <1>7, <3>1
  <2>2. ASSUME NEW x \in new PROVE \E i \in DOMAIN l : l[i] = x
    <3>1. PICK i \in 1..n : s[i] = x
      BY <1>4
    <3>2. Len(list) + i \in DOMAIN l
      BY <1>1, <1>6, <1>7, <3>1
    <3> QED
      BY <1>7, <3>1, <3>2
  <2> QED
    BY <2>1, <2>2
<1>9. \A i, j \in DOMAIN l : l[i] = l[j] /\ l[i] # NULL => i = j
  <2> SUFFICES ASSUME NEW i \in DOMAIN l, NEW j \in DOMAIN l, l[i] = l[j], l[i] # NULL
               PROVE  i = j
    OBVIOUS
  <2>1. \A h \in DOMAIN l : h \in 1..Len(list) \/ (h - Len(list) \in 1..n /\ h = Len(list) + (h - Len(list)))
    BY <1>1, <1>6, <1>7
  <2>2. \A h \in 1..Len(list) : l[h] # NULL => l[h] \in objects
    BY <1>6, <1>7
  <2>3. \A h \in DOMAIN l : h - Len(list) \in 1..n => l[h] \in new /\ l[h] = s[h - Len(list)]
    BY <1>1, <1>3, <1>6, <1>7, <2>1
  <2>4. CASE i \in 1..Len(list) /\ j \in 1..Len(list)
    BY <1>6, <1>7, <2>4 DEF Holding
  <2>5. CASE i - Len(list) \in 1..n /\ j - Len(list) \in 1..n
    <3>1. i - Len(list) = j - Len(list)
      BY <1>3, <2>3, <2>5
    <3> QED
      BY <1>1, <1>6, <1>7, <3>1
  <2> QED
    BY <2>1, <2>2, <2>3, <2>4, <2>5
<1>10. Holding(l, objects \cup new)
  BY <1>7, <1>8, <1>9 DEF Holding
<1>11. /\ IsFiniteSet(objects \cup new) /\ Cardinality(objects) \in Nat
       /\ Cardinality(objects \cup new) = Cardinality(objects) + n
  <2>1. Cardinality(objects \cap new) = 0
    BY FS_EmptySet
  <2>2. Cardinality(objects) \in Nat
    BY FS_CardinalityType
  <2>3. n = Cardinality(new)
    BY DEF n
  <2>4. /\ IsFiniteSet(objects \cup new)
        /\ Cardinality(objects \cup new) =
             Cardinality(objects) + Cardinality(new) - Cardinality(objects \cap new)
    BY FS_Union
  <2> QED
    BY <1>1, <2>1, <2>2, <2>3, <2>4
<1>12. Nulls(l) = Len(l) - Cardinality(objects \cup new) /\ Nulls(list) = Len(list) - Cardinality(objects)
  BY <1>10, <1>11, HoldingMeans
<1> QED
  BY <1>1, <1>6, <1>7, <1>10, <1>11, <1>12 DEF l

\* What a step does to a list; some objects of the list may never go.
LEMMA UpdatedHolds ==
  ASSUME NEW before, NEW after, NEW others, NEW list,
         IsFiniteSet(before), IsFiniteSet(after), IsFiniteSet(others),
         NULL \notin before \cup after \cup others, others \cap (before \cup after) = {},
         Holding(list, before \cup others)
  PROVE  /\ Holding(Updated(list, before, after), after \cup others)
         /\ Nulls(Updated(list, before, after)) = Nulls(list) + Cardinality(before \ after)
<1> DEFINE l == Nulled(list, before \ after)
           objects == (before \cup others) \ (before \ after)
<1>1. IsFiniteSet(before \cup others)
  BY FS_Union
<1>2. Holding(l, objects) /\ Nulls(l) = Nulls(list) + Cardinality(before \ after)
  BY <1>1, NulledHolds
<1>3. IsFiniteSet(objects) /\ IsFiniteSet(after \ before) /\ NULL \notin objects
  BY <1>1, FS_Subset
<1>4. objects \cap (after \ before) = {} /\ objects \cup (after \ before) = after \cup others
  OBVIOUS
<1>5. Holding(Pushed(l, after \ before), objects \cup (after \ before))
      /\ Nulls(Pushed(l, after \ before)) = Nulls(l)
  <2> HIDE DEF l, objects
  <2> QED
    BY <1>2, <1>3, <1>4, PushedHolds
<1> QED
  BY <1>2, <1>4, <1>5 DEF Updated

\* The rank of a position among those that are left grows with it.
LEMMA RanksGrow ==
  ASSUME NEW objects, IsFiniteSet(objects), NULL \notin objects, NEW list,
         Holding(list, objects)
  PROVE  /\ \A i, j \in Left(list) : i < j => RankIn(list, i) < RankIn(list, j)
         /\ \A i \in Left(list) : RankIn(list, i) \in 1..Cardinality(objects)
<1>1. /\ IsFiniteSet(Left(list)) /\ Cardinality(Left(list)) = Cardinality(objects)
      /\ Left(list) \subseteq 1..Len(list) /\ Len(list) \in Nat
  BY LeftCounted
<1> DEFINE Upto(i) == {j \in Left(list) : j <= i}
<1>2. ASSUME NEW i \in Left(list)
      PROVE  /\ IsFiniteSet(Upto(i)) /\ Cardinality(Upto(i)) \in Nat
             /\ Cardinality(Upto(i)) <= Cardinality(Left(list)) /\ Cardinality(Upto(i)) # 0
  <2>1. Upto(i) \in SUBSET Left(list) /\ i \in Upto(i)
    BY <1>1
  <2> HIDE DEF Upto
  <2> QED
    BY <1>1, <2>1, FS_Subset, FS_CardinalityType, FS_EmptySet
<1>3. ASSUME NEW i \in Left(list), NEW j \in Left(list), i < j
      PROVE  Cardinality(Upto(i)) < Cardinality(Upto(j))
  <2>1. Upto(i) \in SUBSET Upto(j) /\ j \in Upto(j) /\ j \notin Upto(i)
    BY <1>1, <1>3
  <2>2. IsFiniteSet(Upto(j)) /\ Cardinality(Upto(i)) \in Nat /\ Cardinality(Upto(j)) \in Nat
    BY <1>2
  <2> HIDE DEF Upto
  <2>3. Cardinality(Upto(i)) <= Cardinality(Upto(j)) /\ Cardinality(Upto(i)) # Cardinality(Upto(j))
    BY <2>1, <2>2, FS_Subset
  <2> QED
    BY <2>2, <2>3
<1>4. Cardinality(objects) \in Nat
  BY FS_CardinalityType
<1> QED
  BY <1>1, <1>2, <1>3, <1>4 DEF RankIn

\* Each rank is the rank of one position.
LEMMA RanksReached ==
  ASSUME NEW objects, IsFiniteSet(objects), NULL \notin objects, NEW list,
         Holding(list, objects)
  PROVE  /\ \A i, j \in Left(list) : RankIn(list, i) = RankIn(list, j) => i = j
         /\ \A n \in 1..Cardinality(objects) : \E i \in Left(list) : RankIn(list, i) = n
<1> DEFINE f == [i \in Left(list) |-> RankIn(list, i)]
           R == 1..Cardinality(objects)
<1>1. /\ IsFiniteSet(Left(list)) /\ Cardinality(Left(list)) = Cardinality(objects)
      /\ Left(list) \subseteq 1..Len(list) /\ Len(list) \in Nat
  BY LeftCounted
<1>2. Cardinality(objects) \in Nat
  BY FS_CardinalityType
<1>3. IsFiniteSet(R) /\ Cardinality(R) = Cardinality(objects)
  BY <1>2, Counting
<1>4. \A i, j \in Left(list) : RankIn(list, i) = RankIn(list, j) => i = j
  <2> SUFFICES ASSUME NEW i \in Left(list), NEW j \in Left(list),
                      RankIn(list, i) = RankIn(list, j), i # j
               PROVE  FALSE
    OBVIOUS
  <2>1. i \in Nat /\ j \in Nat
    BY <1>1
  <2>2. i < j \/ j < i
    BY <2>1
  <2>3. RankIn(list, i) < RankIn(list, j) \/ RankIn(list, j) < RankIn(list, i)
    BY <2>2, RanksGrow
  <2>4. RankIn(list, i) \in Nat
    BY <1>2, RanksGrow
  <2> QED
    BY <2>3, <2>4
<1>5. f \in [Left(list) -> R]
  BY RanksGrow
<1>6. \A i \in Left(list) : f[i] = RankIn(list, i)
  OBVIOUS
<1> HIDE DEF f, R
<1>7. f \in Injection(Left(list), R)
  BY <1>4, <1>5, <1>6 DEF Injection, IsInjective
<1>8. f \in Surjection(Left(list), R)
  BY <1>1, <1>3, <1>7, FS_Injection
<1>9. \A n \in R : \E i \in Left(list) : f[i] = n
  BY <1>8 DEF Surjection
<1> QED
  BY <1>4, <1>6, <1>9 DEF R

\* Compaction loses nothing and leaves no NULL.
LEMMA CompactHolds ==
  ASSUME NEW objects, IsFiniteSet(objects), NULL \notin objects, NEW list,
         Holding(list, objects)
  PROVE  Holding(Compact(list), objects) /\ Nulls(Compact(list)) = 0
<1> DEFINE l == Compact(list)
           At_(n) == CHOOSE i \in Left(list) : RankIn(list, i) = n
           m == Cardinality(objects)
<1>1. /\ Cardinality(Left(list)) = m
      /\ Left(list) \subseteq 1..Len(list) /\ Len(list) \in Nat
      /\ DOMAIN list = 1..Len(list)
  BY LeftCounted
<1>2. m \in Nat
  BY FS_CardinalityType
<1>3. \A n \in 1..m : At_(n) \in Left(list) /\ RankIn(list, At_(n)) = n
  BY RanksReached
<1>4. \A i \in Left(list) : RankIn(list, i) \in 1..m /\ At_(RankIn(list, i)) = i
  <2>1. ASSUME NEW i \in Left(list) PROVE RankIn(list, i) \in 1..m /\ At_(RankIn(list, i)) = i
    <3>1. RankIn(list, i) \in 1..m
      BY RanksGrow
    <3>2. At_(RankIn(list, i)) \in Left(list) /\ RankIn(list, At_(RankIn(list, i))) = RankIn(list, i)
      BY <1>3, <3>1
    <3> HIDE DEF At_
    <3> QED
      BY <3>1, <3>2, RanksReached
  <2> QED
    BY <2>1
<1>5. l = [n \in 1..m |-> list[At_(n)]]
  BY <1>1 DEF Compact
<1> HIDE DEF l, At_, m
<1>6. \A n \in 1..m : l[n] = list[At_(n)] /\ l[n] \in objects /\ l[n] # NULL
  BY <1>1, <1>3, <1>5 DEF Left, Holding
<1>7. l \in [1..m -> objects \cup {NULL}]
  BY <1>5, <1>6
<1>8. l \in Seq(objects \cup {NULL}) /\ DOMAIN l = 1..m /\ Len(l) = m
  BY <1>2, <1>7
<1>9. \A x \in objects : \E n \in DOMAIN l : l[n] = x
  <2>1. ASSUME NEW x \in objects PROVE \E n \in DOMAIN l : l[n] = x
    <3>1. PICK i \in Left(list) : list[i] = x
      BY DEF Holding, Left
    <3> QED
      BY <1>4, <1>6, <1>8, <3>1
  <2> QED
    BY <2>1
<1>10. \A i, j \in DOMAIN l : l[i] = l[j] /\ l[i] # NULL => i = j
  <2> SUFFICES ASSUME NEW i \in 1..m, NEW j \in 1..m, l[i] = l[j] PROVE i = j
    BY <1>8
  <2>1. At_(i) = At_(j)
    BY <1>1, <1>3, <1>6 DEF Left, Holding
  <2> QED
    BY <1>3, <2>1
<1>11. Holding(l, objects)
  BY <1>8, <1>9, <1>10 DEF Holding
<1>12. Nulls(l) = Len(l) - Cardinality(objects)
  BY <1>11, HoldingMeans
<1> QED
  BY <1>2, <1>8, <1>11, <1>12 DEF l, m

-----------------------------------------------------------------------------
(***************************************************************************)
(* The running core: what a step does to the objects and to its place.     *)
(***************************************************************************)
LEMMA ObjectsFinite ==
  /\ \A S \in SUBSET Conn : IsFiniteSet(S)
  /\ \A S \in SUBSET Client : IsFiniteSet(S)
  /\ IsFiniteSet({Listener}) /\ IsFiniteSet({})
<1>1. IsFiniteSet({"client", "upstream"})
  <2>1. IsFiniteSet({"client"} \cup {"upstream"})
    BY FS_Singleton, FS_AddElement
  <2>2. {"client"} \cup {"upstream"} = {"client", "upstream"}
    OBVIOUS
  <2> QED
    BY <2>1, <2>2
<1>2. IsFiniteSet(Client)
  BY PipeAssumption
<1>3. IsFiniteSet(Conn)
  BY <1>1, <1>2, FS_Product DEF Conn
<1>4. ASSUME NEW T, IsFiniteSet(T), NEW S \in SUBSET T PROVE IsFiniteSet(S)
  BY <1>4, FS_Subset
<1>5. IsFiniteSet({Listener}) /\ IsFiniteSet({})
  BY FS_Singleton, FS_EmptySet
<1> QED
  BY <1>2, <1>3, <1>4, <1>5

LEMMA KindsOfObjects ==
  /\ Registered \subseteq Conn /\ Open \subseteq Conn /\ LiveSessions \subseteq Client
  /\ IsFiniteSet(Registered) /\ IsFiniteSet(Open) /\ IsFiniteSet(LiveSessions)
  /\ IsFiniteSet(Registered \cup {Listener})
  /\ NULL \notin Registered \cup {Listener} /\ NULL \notin Open /\ NULL \notin LiveSessions
<1>1. Registered \subseteq Conn /\ Open \subseteq Conn /\ LiveSessions \subseteq Client
  BY DEF Registered, Open, LiveSessions
<1>2. IsFiniteSet(Registered) /\ IsFiniteSet(Open) /\ IsFiniteSet(LiveSessions)
  BY <1>1, ObjectsFinite
<1>3. IsFiniteSet(Registered \cup {Listener})
  BY <1>2, ObjectsFinite, FS_Union
<1> QED
  BY <1>1, <1>2, <1>3, CoreAssumption

LEMMA NextKindsOfObjects ==
  /\ Registered' \subseteq Conn /\ Open' \subseteq Conn /\ LiveSessions' \subseteq Client
  /\ IsFiniteSet(Registered') /\ IsFiniteSet(Open') /\ IsFiniteSet(LiveSessions')
<1>1. Registered' \subseteq Conn /\ Open' \subseteq Conn /\ LiveSessions' \subseteq Client
  BY DEF Registered, Open, LiveSessions
<1> QED
  BY <1>1, ObjectsFinite

\* The steps of the loop that bring it back to "source" from "events" are its
\* iterations' ends, and only they bring it to the first position.
LEMMA IterationEnds ==
  ASSUME TypeOK, xps_loop_run
  PROVE  /\ pc = "events" /\ pc' = "source" => EventsDone
         /\ ~(pc' = "source" /\ pc = "events") => ~(pc' = "source" /\ idx' = 1)
<1>1. idx \in Nat /\ idx # 0
  BY DEF TypeOK
<1>2. CASE SkipNull \/ PassDone
  BY <1>1, <1>2 DEF SkipNull, PassDone, NextPosition, GoTo
<1>3. ASSUME NEW p \in Pipe, DestroyDead(p) \/ SourceStep(p) \/ SinkStep(p) \/ CloseStep(p)
      PROVE  pc # "events" /\ ~(pc' = "source" /\ idx' = 1)
  BY <1>1, <1>3 DEF DestroyDead, SourceStep, SinkStep, CloseStep, At, NextPosition, GoTo
<1>4. CASE epoll_wait
  BY <1>4 DEF epoll_wait
<1>5. ASSUME NEW e \in batch, HandleEvent(e)
      PROVE  pc' # "source"
  BY <1>5 DEF HandleEvent
<1>6. ASSUME NEW k \in Conn, HandleOut(k)
      PROVE  pc' # "source"
  BY <1>6 DEF HandleOut
<1>7. CASE ListenerEvent \/ AcceptDone
  BY <1>7 DEF ListenerEvent, AcceptDone, GoTo
<1>8. CASE EventsDone
  BY <1>8 DEF EventsDone
<1>9. ASSUME NEW c \in Client, Accept(c)
      PROVE  pc' # "source"
  BY <1>9 DEF Accept, loopVars
<1> QED
  BY <1>2, <1>3, <1>4, <1>5, <1>6, <1>7, <1>8, <1>9
     DEF xps_loop_run, handle_pipes, handle_epoll_events

LEMMA IterationEndKeeps ==
  ASSUME EventsDone
  PROVE  /\ Registered' = Registered /\ Open' = Open /\ LiveSessions' = LiveSessions
BY DEF EventsDone, sockVars, sessionVars, Registered, Open, LiveSessions, ConnOpen

\* The peers create and destroy nothing.
LEMMA PeersKeep ==
  ASSUME TypeOK, PeerStep
  PROVE  /\ Registered' = Registered /\ Open' = Open /\ LiveSessions' = LiveSessions
         /\ UNCHANGED <<pc, idx>>
<1>1. sock \in [Conn -> Socket]
  BY DEF TypeOK, SocketTypeOK
<1>2. \A k \in Conn : sock'[k].reg = sock[k].reg /\ (ConnOpen(k)' <=> ConnOpen(k))
  <2> SUFFICES ASSUME NEW k \in Conn
               PROVE  sock'[k].reg = sock[k].reg /\ (ConnOpen(k)' <=> ConnOpen(k))
    OBVIOUS
  <2>1. ASSUME NEW c \in Client, Connect(c) \/ Establish(c) \/ Refuse(c)
        PROVE  sock'[k].reg = sock[k].reg /\ (ConnOpen(k)' <=> ConnOpen(k))
    <3>1. ClientConn(c) \in Conn /\ UpstreamConn(c) \in Conn
      BY Names
    <3>2. ASSUME Connect(c), ClientConn(c) = k
          PROVE  sock[k].st = "none" /\ sock'[k].st = "backlog" /\ sock'[k].reg = sock[k].reg
      BY <1>1, <3>2 DEF Connect, Socket
    <3>3. ASSUME Establish(c), UpstreamConn(c) = k
          PROVE  sock[k].st = "pending" /\ sock'[k].st = "up" /\ sock'[k].reg = sock[k].reg
      BY <1>1, <3>3 DEF Establish, Socket
    <3>4. ASSUME Refuse(c), UpstreamConn(c) = k
          PROVE  sock'[k].st = sock[k].st /\ sock'[k].reg = sock[k].reg
      BY <1>1, <3>4 DEF Refuse, Socket
    <3>5. Connect(c) /\ ClientConn(c) # k => sock'[k] = sock[k]
      BY <1>1 DEF Connect
    <3>6. (Establish(c) \/ Refuse(c)) /\ UpstreamConn(c) # k => sock'[k] = sock[k]
      BY <1>1 DEF Establish, Refuse
    <3> QED
      BY <2>1, <3>2, <3>3, <3>4, <3>5, <3>6 DEF ConnOpen
  <2>2. ASSUME NEW h \in Conn, PeerSend(h) \/ PeerFin(h) \/ PeerReset(h) \/ PeerDrain(h)
        PROVE  sock'[k].reg = sock[k].reg /\ (ConnOpen(k)' <=> ConnOpen(k))
    <3>1. h # k => sock'[k] = sock[k]
      BY <1>1, <2>2 DEF PeerSend, PeerFin, PeerReset, PeerDrain
    <3>2. h = k => sock'[k].reg = sock[k].reg /\ sock'[k].st = sock[k].st
      <4> SUFFICES ASSUME h = k PROVE sock'[k].reg = sock[k].reg /\ sock'[k].st = sock[k].st
        OBVIOUS
      <4>0. sock[k] \in Socket
        BY <1>1
      <4>1. CASE PeerSend(k)
        BY <1>1, <4>0, <4>1 DEF PeerSend, Socket
      <4>2. CASE PeerFin(k)
        BY <1>1, <4>0, <4>2 DEF PeerFin, Socket
      <4>3. CASE PeerReset(k)
        BY <1>1, <4>0, <4>3 DEF PeerReset, Socket
      <4>4. CASE PeerDrain(k)
        <5> DEFINE e == sock[k].reg /\ (sock[k].edge \/ sock[k].nospace)
        <5>1. sock' = [sock EXCEPT ![k] = [sock[k] EXCEPT !.room = Room, !.nospace = FALSE, !.edge = e]]
          BY <1>1, <4>4 DEF PeerDrain
        <5> HIDE DEF e
        <5> QED
          BY <1>1, <4>0, <5>1 DEF Socket
      <4> QED
        BY <2>2, <4>1, <4>2, <4>3, <4>4
    <3> QED
      BY <3>1, <3>2 DEF ConnOpen
  <2> QED
    BY <2>1, <2>2 DEF PeerStep, Peers
<1>3. UNCHANGED <<ses, pc, idx>>
  BY DEF PeerStep, sessionVars, loopVars
<1> QED
  BY <1>2, <1>3 DEF Registered, Open, LiveSessions

-----------------------------------------------------------------------------
(***************************************************************************)
(* The invariant of the running core.                                      *)
(***************************************************************************)
ListsInv ==
  /\ Holding(events, Registered \cup {Listener})
  /\ Holding(connections, Open)
  /\ Holding(sessions, LiveSessions)

\* The counters, and what they are when the loop starts an iteration.
CountsInv ==
  /\ n_null_events = Nulls(events) /\ n_null_sessions = Nulls(sessions)
  /\ pc = "source" /\ idx = 1 => Nulls(events) <= NullsThresh /\ Nulls(sessions) <= NullsThresh

RunInv == TypeOK /\ EndsOwned /\ EventInv /\ ListsInv /\ CountsInv

LEMMA RunInit == CoreInit => RunInv
<1> SUFFICES ASSUME CoreInit PROVE RunInv
  OBVIOUS
<1>1. TypeOK /\ EndsOwned /\ EventInv
  BY TypeInit, OwnedInit, EventInit DEF CoreInit
<1>2. Registered = {} /\ Open = {} /\ LiveSessions = {}
  <2>1. sock = [k \in Conn |-> NoSocket] /\ ses = [c \in Client |-> NoSession]
    BY DEF CoreInit, Init, SocketInit, SessionInit
  <2> QED
    BY <2>1 DEF Registered, Open, LiveSessions, ConnOpen, NoSocket, NoSession
<1>3. events = <<Listener>> /\ connections = <<>> /\ sessions = <<>>
      /\ n_null_events = 0 /\ n_null_sessions = 0
  BY DEF CoreInit, xps_core_create
<1>4. ListsInv
  <2>1. Holding(events, {Listener})
    BY <1>3 DEF Holding
  <2>2. Holding(connections, {}) /\ Holding(sessions, {})
    BY <1>3 DEF Holding
  <2>3. Registered \cup {Listener} = {Listener}
    BY <1>2
  <2> QED
    BY <1>2, <2>1, <2>2, <2>3 DEF ListsInv
<1>5. Nulls(events) = 0 /\ Nulls(sessions) = 0
  <2>1. {i \in DOMAIN events : events[i] = NULL} = {} /\ {i \in DOMAIN sessions : sessions[i] = NULL} = {}
    BY <1>3, CoreAssumption
  <2> QED
    BY <2>1, FS_EmptySet DEF Nulls
<1> QED
  BY <1>1, <1>3, <1>4, <1>5, PipeAssumption DEF RunInv, CountsInv

LEMMA ListsFollowed ==
  ASSUME ListsInv, CountsInv, ListsFollow, ~(pc' = "source" /\ idx' = 1)
  PROVE  ListsInv' /\ CountsInv'
<1> DEFINE R == Registered   Rn == Registered'
           O == Open         On == Open'
           L == LiveSessions Ln == LiveSessions'
<1>1. /\ IsFiniteSet(R) /\ IsFiniteSet(Rn) /\ IsFiniteSet(O) /\ IsFiniteSet(On)
      /\ IsFiniteSet(L) /\ IsFiniteSet(Ln)
      /\ R \subseteq Conn /\ Rn \subseteq Conn /\ O \subseteq Conn /\ On \subseteq Conn
      /\ L \subseteq Client /\ Ln \subseteq Client
  BY KindsOfObjects, NextKindsOfObjects
<1>2. /\ Holding(events, R \cup {Listener}) /\ Holding(connections, O \cup {}) /\ Holding(sessions, L \cup {})
  BY DEF ListsInv
<1>3. /\ events' = Updated(events, R, Rn) /\ connections' = Updated(connections, O, On)
      /\ sessions' = Updated(sessions, L, Ln)
      /\ n_null_events' = n_null_events + Cardinality(R \ Rn)
      /\ n_null_sessions' = n_null_sessions + Cardinality(L \ Ln)
  BY DEF ListsFollow, DetachedCount, DestroyedSessions
<1> HIDE DEF R, Rn, O, On, L, Ln
<1>4. /\ IsFiniteSet({Listener}) /\ IsFiniteSet({})
      /\ NULL \notin R \cup Rn \cup {Listener} /\ {Listener} \cap (R \cup Rn) = {}
      /\ NULL \notin O \cup On \cup {} /\ NULL \notin L \cup Ln \cup {}
  BY <1>1, ObjectsFinite, CoreAssumption
<1>5. Holding(events', Rn \cup {Listener}) /\ Nulls(events') = Nulls(events) + Cardinality(R \ Rn)
  BY <1>1, <1>2, <1>3, <1>4, UpdatedHolds
<1>6. Holding(connections', On \cup {})
  BY <1>1, <1>2, <1>3, <1>4, UpdatedHolds
<1>7. Holding(sessions', Ln \cup {}) /\ Nulls(sessions') = Nulls(sessions) + Cardinality(L \ Ln)
  BY <1>1, <1>2, <1>3, <1>4, UpdatedHolds
<1>8. ListsInv'
  <2>1. On \cup {} = On /\ Ln \cup {} = Ln
    OBVIOUS
  <2> QED
    BY <1>5, <1>6, <1>7, <2>1 DEF ListsInv, Rn, On, Ln, Holding
<1>9. Nulls(events)' = Nulls(events') /\ Nulls(sessions)' = Nulls(sessions')
  BY DEF Nulls
<1> QED
  BY <1>3, <1>5, <1>7, <1>8, <1>9 DEF CountsInv

LEMMA ListsFiltered ==
  ASSUME ListsInv, CountsInv, filter_nulls,
         Registered' = Registered, Open' = Open, LiveSessions' = LiveSessions
  PROVE  ListsInv' /\ CountsInv'
<1>1. /\ IsFiniteSet(Registered \cup {Listener}) /\ NULL \notin Registered \cup {Listener}
      /\ IsFiniteSet(LiveSessions) /\ NULL \notin LiveSessions
  BY KindsOfObjects
<1>2. /\ Holding(events, Registered \cup {Listener}) /\ Holding(connections, Open)
      /\ Holding(sessions, LiveSessions)
  BY DEF ListsInv
<1>3. /\ Holding(Compact(events), Registered \cup {Listener}) /\ Nulls(Compact(events)) = 0
      /\ Holding(Compact(sessions), LiveSessions) /\ Nulls(Compact(sessions)) = 0
  BY <1>1, <1>2, CompactHolds
<1>4. Nulls(events) \in Nat /\ Nulls(sessions) \in Nat
  BY <1>1, <1>2, HoldingMeans
<1>5. /\ Holding(events', Registered \cup {Listener}) /\ n_null_events' = Nulls(events')
      /\ Nulls(events') <= NullsThresh
  BY <1>2, <1>3, <1>4, PipeAssumption DEF filter_nulls, CountsInv
<1>6. /\ Holding(sessions', LiveSessions) /\ n_null_sessions' = Nulls(sessions')
      /\ Nulls(sessions') <= NullsThresh
  BY <1>2, <1>3, <1>4, PipeAssumption DEF filter_nulls, CountsInv
<1>7. Holding(connections', Open)
  BY <1>2 DEF filter_nulls
<1>8. Nulls(events)' = Nulls(events') /\ Nulls(sessions)' = Nulls(sessions')
  BY DEF Nulls
<1>9. ListsInv'
  BY <1>5, <1>6, <1>7 DEF ListsInv, Holding
<1> QED
  BY <1>5, <1>6, <1>8, <1>9 DEF CountsInv

LEMMA ListsLeft ==
  ASSUME ListsInv, CountsInv, UNCHANGED listVars, UNCHANGED <<pc, idx>>,
         Registered' = Registered, Open' = Open, LiveSessions' = LiveSessions
  PROVE  ListsInv' /\ CountsInv'
<1>1. UNCHANGED <<events, connections, sessions, n_null_events, n_null_sessions>>
  BY DEF listVars
<1> QED
  BY <1>1 DEF ListsInv, CountsInv, Holding, Nulls

LEMMA RunStep == RunInv /\ Running => RunInv'
<1> SUFFICES ASSUME RunInv, Running PROVE RunInv'
  OBVIOUS
<1>1. [Next]_vars
  BY DEF Running, Next
<1>2. TypeOK' /\ EndsOwned' /\ EventInv'
  BY <1>1, TypeStep, OwnedStep, EventStep DEF RunInv
<1>3. CASE xps_loop_run /\ pc' = "source" /\ pc = "events" /\ filter_nulls
  BY <1>2, <1>3, IterationEnds, IterationEndKeeps, ListsFiltered DEF RunInv
<1>4. CASE xps_loop_run /\ ~(pc' = "source" /\ pc = "events") /\ ListsFollow
  BY <1>2, <1>4, IterationEnds, ListsFollowed DEF RunInv
<1>5. CASE PeerStep /\ UNCHANGED listVars
  BY <1>2, <1>5, PeersKeep, ListsLeft DEF RunInv
<1>6. CASE Idle /\ UNCHANGED listVars
  <2>1. Registered' = Registered /\ Open' = Open /\ LiveSessions' = LiveSessions
        /\ UNCHANGED <<pc, idx>>
    BY <1>6 DEF Idle, vars, sockVars, sessionVars, loopVars, Registered, Open, LiveSessions, ConnOpen
  <2> QED
    BY <1>2, <1>6, <2>1, ListsLeft DEF RunInv
<1> QED
  BY <1>3, <1>4, <1>5, <1>6 DEF Running

-----------------------------------------------------------------------------
(***************************************************************************)
(* The shutdown: what each sweep of xps_core_destroy finds and leaves.     *)
(***************************************************************************)
PhaseIn(phases) == phase \in phases

\* An open connection may have left epoll, but a registered socket is open.
\* The ends of the open connections stay attached until they are destroyed.
SweepInv ==
  /\ PhaseIn({"sessions"}) => EndsOwned /\ Holding(sessions, LiveSessions)
  /\ PhaseIn({"sessions", "pipes", "connections"}) =>
       /\ sock \in [Conn -> Socket] /\ Registered \subseteq Open
       /\ Holding(connections, Open)
       /\ (\A k \in Open : src[SourcePipe(k)].on) /\ atSignal = Open
  /\ PhaseIn({"running", "sessions", "pipes", "connections"}) => wild = {}
  /\ PhaseIn({"listeners", "loop", "exited", "faulted"}) => wild = atSignal
  /\ PhaseIn({"faulted"}) => wild # {}
  /\ PhaseIn({"pipes", "connections", "listeners", "loop", "exited", "faulted"}) =>
       LiveSessions = {}
  /\ PhaseIn({"connections", "listeners", "loop", "exited", "faulted"}) => Listed = {}
  /\ PhaseIn({"listeners", "loop", "exited"}) => Open = {} /\ Registered = {}
  /\ PhaseIn({"exited"}) => Objects(events) = {}

CoreInv ==
  /\ phase \in {"running", "sessions", "pipes", "connections", "listeners", "loop",
               "exited", "faulted"}
  /\ phase = "running" => RunInv
  /\ SweepInv

LEMMA InOrder ==
  ASSUME NEW what, Destroying(what)
  PROVE  /\ what = "sessions" => phase' = "pipes"
         /\ what = "pipes" => phase' = "connections"
         /\ what = "connections" => phase' = "listeners"
         /\ what = "listeners" => phase' = "loop"
         /\ what = "loop" => phase' = "exited"
         /\ phase = what /\ atSignal' = atSignal
<1>1. Order = <<"sessions", "pipes", "connections", "listeners", "loop", "exited">>
  BY DEF Order
<1>2. DOMAIN Order = 1..6
  BY <1>1
<1>3. PICK i \in 1..6 : Order[i] = what /\ phase' = Order[i + 1]
  BY <1>2 DEF Destroying
<1>4. \A n \in 1..6 : n = 1 \/ n = 2 \/ n = 3 \/ n = 4 \/ n = 5 \/ n = 6
  OBVIOUS
<1> QED
  BY <1>1, <1>3, <1>4 DEF Destroying

LEMMA SignalSweeps ==
  ASSUME CoreInv, sigint_handler
  PROVE  CoreInv'
<1>1. phase = "running" /\ phase' = "sessions" /\ RunInv
  BY DEF sigint_handler, CoreInv, Order
<1>2. UNCHANGED <<slot, src, snk, sock, ses, file, sessions, connections, wild>> /\ atSignal' = Open
  BY DEF sigint_handler, pipeVars, sockVars, sessionVars, listVars
<1>3. EndsOwned' /\ Registered' = Registered /\ Open' = Open /\ LiveSessions' = LiveSessions
  BY <1>1, <1>2 DEF RunInv, EndsOwned, ConnOpen, Registered, Open, LiveSessions
<1>4. sock \in [Conn -> Socket] /\ Registered \subseteq Open
  BY <1>1 DEF RunInv, TypeOK, SocketTypeOK, EventInv, WakeInv, Wake, Registered, Open
<1>5. Holding(sessions', LiveSessions) /\ Holding(connections', Open)
  BY <1>1, <1>2 DEF RunInv, ListsInv
<1>6. Holding(sessions, LiveSessions)' /\ Holding(connections, Open)'
  BY <1>3, <1>5 DEF Holding
<1>7. \A k \in Open' : src'[SourcePipe(k)].on
  BY <1>1, <1>2, <1>3 DEF RunInv, EndsOwned, Open
<1>8. wild' = {} /\ atSignal' = Open'
  BY <1>1, <1>2, <1>3 DEF CoreInv, SweepInv, PhaseIn
<1> QED
  BY <1>1, <1>2, <1>3, <1>4, <1>6, <1>7, <1>8 DEF CoreInv, SweepInv, PhaseIn

\* Attached ends lie in pipes that have not been freed.
LEMMA NoneDangles ==
  ASSUME EndsOwned, NEW c \in Client
  PROVE  ~SessionDangles(c)
BY Names DEF SessionDangles, Dangling, EndsOwned

LEMMA SessionsSwept ==
  ASSUME CoreInv, DestroySessions
  PROVE  CoreInv'
<1>1. phase = "sessions" /\ phase' = "pipes"
  BY InOrder DEF DestroySessions
<1>0. EndsOwned /\ wild = {} /\ atSignal' = atSignal /\ atSignal = Open
      /\ \A k \in Open : src[SourcePipe(k)].on
  BY <1>1, InOrder DEF DestroySessions, CoreInv, SweepInv, PhaseIn
<1>2. Holding(sessions, LiveSessions) /\ sock \in [Conn -> Socket] /\ Registered \subseteq Open
      /\ Holding(connections, Open)
  BY <1>1 DEF CoreInv, SweepInv, PhaseIn
<1>3. Objects(sessions) = LiveSessions
  BY <1>2, KindsOfObjects, HoldingMeans
<1>4. ses' = [c \in Client |-> IF c \in LiveSessions THEN NoSession ELSE ses[c]]
  BY <1>3 DEF DestroySessions
<1>5. LiveSessions' = {}
  BY <1>4 DEF LiveSessions, NoSession
<1>6. UNCHANGED <<sock, connections>>
  BY DEF DestroySessions, sockVars
<1>7. Registered' = Registered /\ Open' = Open
  BY <1>6 DEF Registered, Open, ConnOpen
<1>8. Holding(connections, Open)'
  BY <1>2, <1>6, <1>7 DEF Holding
<1>9. \A k \in Open' : src'[SourcePipe(k)].on
  <2> SUFFICES ASSUME NEW k \in Open PROVE src'[SourcePipe(k)].on
    BY <1>7
  <2>1. k \in Conn /\ SourcePipe(k) \in Pipe /\ src[SourcePipe(k)].on
    BY <1>0, KindsOfObjects, ConnPipeTypes
  <2>2. SourcePipe(k)[1] \notin {"s2c", "s2u"}
    BY DEF SourcePipe, C2S, U2S
  <2>3. src'[SourcePipe(k)] = src[SourcePipe(k)]
    BY <2>1, <2>2 DEF DestroySessions
  <2> QED
    BY <2>1, <2>3
<1>10. wild' = {}
  <2>1. Objects(sessions) \subseteq Client
    BY <1>3, KindsOfObjects
  <2>2. wild' = wild \cup {c \in Objects(sessions) : SessionDangles(c)}
    BY DEF DestroySessions
  <2> QED
    BY <1>0, <2>1, <2>2, NoneDangles
<1> QED
  BY <1>0, <1>1, <1>2, <1>5, <1>6, <1>7, <1>8, <1>9, <1>10 DEF CoreInv, SweepInv, PhaseIn

LEMMA PipesSwept ==
  ASSUME CoreInv, DestroyPipes
  PROVE  CoreInv'
<1>1. phase = "pipes" /\ phase' = "connections"
  BY InOrder DEF DestroyPipes
<1>0. wild' = {} /\ atSignal' = atSignal /\ atSignal = Open /\ src' = src
      /\ \A k \in Open : src[SourcePipe(k)].on
  BY <1>1, InOrder DEF DestroyPipes, CoreInv, SweepInv, PhaseIn
<1>2. sock \in [Conn -> Socket] /\ Registered \subseteq Open /\ Holding(connections, Open)
      /\ LiveSessions = {}
  BY <1>1 DEF CoreInv, SweepInv, PhaseIn
<1>3. Listed' = {}
  BY DEF DestroyPipes, Listed
<1>4. UNCHANGED <<sock, ses, connections>>
  BY DEF DestroyPipes, sockVars, sessionVars, listVars
<1>5. Registered' = Registered /\ Open' = Open /\ LiveSessions' = LiveSessions
  BY <1>4 DEF Registered, Open, ConnOpen, LiveSessions
<1>6. Holding(connections, Open)'
  BY <1>2, <1>4, <1>5 DEF Holding
<1> QED
  BY <1>0, <1>1, <1>2, <1>3, <1>4, <1>5, <1>6 DEF CoreInv, SweepInv, PhaseIn

LEMMA ConnectionsSwept ==
  ASSUME CoreInv, DestroyConnections
  PROVE  CoreInv'
<1>1. phase = "connections" /\ phase' = "listeners"
  BY InOrder DEF DestroyConnections
<1>2. sock \in [Conn -> Socket] /\ Registered \subseteq Open /\ Holding(connections, Open)
      /\ LiveSessions = {} /\ Listed = {}
  BY <1>1 DEF CoreInv, SweepInv, PhaseIn
<1>3. Objects(connections) = Open
  BY <1>2, KindsOfObjects, HoldingMeans
<1>4. sock' = [k \in Conn |-> IF k \in Open THEN ClosedSocket(k) ELSE sock[k]]
  BY <1>3 DEF DestroyConnections
<1>5. \A k \in Conn : ClosedSocket(k).st = "closed" /\ ~ClosedSocket(k).reg
  <2> SUFFICES ASSUME NEW k \in Conn PROVE ClosedSocket(k).st = "closed" /\ ~ClosedSocket(k).reg
    OBVIOUS
  <2>1. sock[k] \in Socket
    BY <1>2
  <2>2. xps_loop_detach(sock[k]) \in Socket /\ ~xps_loop_detach(sock[k]).reg
    BY <2>1, SocketTypes DEF xps_loop_detach, Socket
  <2> QED
    BY <2>2 DEF ClosedSocket, Socket
<1>6. Open' = {} /\ Registered' = {}
  <2>1. \A k \in Conn : sock'[k].st \notin {"pending", "up"} /\ ~sock'[k].reg
    BY <1>2, <1>4, <1>5 DEF Open, Registered, ConnOpen
  <2> QED
    BY <2>1 DEF Open, Registered, ConnOpen
<1>7. UNCHANGED <<ses, slot>>
  BY DEF DestroyConnections, sessionVars
<1>8. LiveSessions' = {} /\ Listed' = {}
  BY <1>2, <1>7 DEF LiveSessions, Listed
<1>9. wild' = atSignal /\ atSignal' = atSignal
  <2>1. wild = {} /\ atSignal' = atSignal /\ atSignal = Open
        /\ \A k \in Open : src[SourcePipe(k)].on
    BY <1>1, InOrder DEF DestroyConnections, CoreInv, SweepInv, PhaseIn
  <2>2. wild' = wild \cup {k \in Open : ConnDangles(k)}
    BY <1>3 DEF DestroyConnections
  <2>3. \A k \in Open : ConnDangles(k)
    BY <1>2, <2>1, KindsOfObjects, ConnPipeTypes DEF ConnDangles, Dangling, Listed
  <2> QED
    BY <2>1, <2>2, <2>3
<1> QED
  BY <1>1, <1>6, <1>8, <1>9 DEF CoreInv, SweepInv, PhaseIn

LEMMA RestSwept ==
  ASSUME CoreInv, DestroyListeners \/ DestroyLoop
  PROVE  CoreInv'
<1>1. \/ phase = "listeners" /\ phase' = "loop"
      \/ phase = "loop" /\ phase' = "exited" /\ events' = Nulled(events, Objects(events))
  BY InOrder DEF DestroyListeners, DestroyLoop
<1>2. LiveSessions = {} /\ Listed = {} /\ Open = {} /\ Registered = {}
  BY <1>1 DEF CoreInv, SweepInv, PhaseIn
<1>3. UNCHANGED <<sock, ses, slot, wild, atSignal>>
  BY InOrder DEF DestroyListeners, DestroyLoop, vars, pipeVars, sockVars, sessionVars
<1>4. LiveSessions' = {} /\ Listed' = {} /\ Open' = {} /\ Registered' = {}
  BY <1>2, <1>3 DEF LiveSessions, Listed, Open, Registered, ConnOpen
<1>5. phase' = "exited" => Objects(events') = {}
  BY <1>1 DEF Objects, Nulled
<1>6. Objects(events)' = Objects(events')
  BY DEF Objects
<1>7. wild = atSignal
  BY <1>1 DEF CoreInv, SweepInv, PhaseIn
<1> QED
  BY <1>1, <1>3, <1>4, <1>5, <1>6, <1>7 DEF CoreInv, SweepInv, PhaseIn

\* A write into a freed pipe has happened only once the pipes are gone.
LEMMA FaultKeeps ==
  ASSUME CoreInv, Fault
  PROVE  CoreInv'
<1>1. /\ wild # {} /\ phase # "running" /\ phase' = "faulted"
      /\ UNCHANGED <<ses, slot, wild, atSignal>>
  <2>1. \A i \in DOMAIN Order \ {Len(Order)} : Order[i] # "running"
    <3>1. Order = <<"sessions", "pipes", "connections", "listeners", "loop", "exited">>
      BY DEF Order
    <3>2. DOMAIN Order = 1..6
      BY <3>1
    <3>3. \A n \in 1..6 : n = 1 \/ n = 2 \/ n = 3 \/ n = 4 \/ n = 5 \/ n = 6
      OBVIOUS
    <3> QED
      BY <3>1, <3>2, <3>3
  <2> QED
    BY <2>1 DEF Fault, vars, pipeVars, sessionVars
<1>2. phase \in {"listeners", "loop", "exited", "faulted"}
  BY <1>1 DEF CoreInv, SweepInv, PhaseIn
<1>3. wild = atSignal /\ LiveSessions = {} /\ Listed = {}
  BY <1>2 DEF CoreInv, SweepInv, PhaseIn
<1>4. LiveSessions' = {} /\ Listed' = {}
  BY <1>1, <1>3 DEF LiveSessions, Listed
<1> QED
  BY <1>1, <1>3, <1>4 DEF CoreInv, SweepInv, PhaseIn

LEMMA CoreInvInit == CoreInit => CoreInv
BY RunInit DEF CoreInit, xps_core_create, CoreInv, SweepInv, PhaseIn

LEMMA CoreUnchanged ==
  ASSUME CoreInv, UNCHANGED coreVars
  PROVE  CoreInv'
<1>1. UNCHANGED <<vars, pipeVars, sockVars, sessionVars, loopVars, listVars, phase, atSignal, wild, slot, pipes_length,
                  n_null_pipes, src, snk, buf, sock, sent, fed, ses, file, pc, idx, batch, lsn, cur,
                  events, n_null_events, connections, sessions, n_null_sessions>>
  BY DEF coreVars, shutdownVars, vars, pipeVars, sockVars, sessionVars, loopVars, listVars
<1>2. Registered' = Registered /\ Open' = Open /\ LiveSessions' = LiveSessions /\ Listed' = Listed
  BY <1>1 DEF Registered, Open, LiveSessions, Listed, ConnOpen
<1>3. phase = "running" => RunInv'
  <2> SUFFICES ASSUME RunInv PROVE RunInv'
    BY DEF CoreInv
  <2>1. TypeOK' /\ EndsOwned' /\ EventInv'
    BY <1>1, TypeStep, OwnedStep, EventStep DEF RunInv
  <2> QED
    BY <1>1, <1>2, <2>1, ListsLeft DEF RunInv
<1>4. EndsOwned => EndsOwned'
  BY <1>1 DEF EndsOwned, ConnOpen
<1>5. /\ Holding(sessions, LiveSessions) => Holding(sessions, LiveSessions)'
      /\ Holding(connections, Open) => Holding(connections, Open)'
      /\ Objects(events)' = Objects(events)
      /\ (\A k \in Open : src[SourcePipe(k)].on) => \A k \in Open' : src'[SourcePipe(k)].on
  BY <1>1, <1>2 DEF Holding, Objects
<1> QED
  BY <1>1, <1>2, <1>3, <1>4, <1>5 DEF CoreInv, SweepInv, PhaseIn

LEMMA CoreInvStep == CoreInv /\ [CoreNext]_coreVars => CoreInv'
<1> SUFFICES ASSUME CoreInv, [CoreNext]_coreVars PROVE CoreInv'
  OBVIOUS
<1>1. CASE Running
  BY <1>1, RunStep DEF Running, shutdownVars, CoreInv, SweepInv, PhaseIn
<1>2. CASE sigint_handler
  BY <1>2, SignalSweeps
<1>3. CASE xps_core_destroy
  BY <1>3, SessionsSwept, PipesSwept, ConnectionsSwept, RestSwept, FaultKeeps DEF xps_core_destroy
<1>4. CASE Exited \/ UNCHANGED coreVars
  BY <1>4, CoreUnchanged DEF Exited
<1> QED
  BY <1>1, <1>2, <1>3, <1>4 DEF CoreNext

LEMMA CoreAlways == CoreSpec => []CoreInv
BY CoreInvInit, CoreInvStep, PTL DEF CoreSpec

LEMMA CoreMeans ==
  ASSUME CoreInv
  PROVE  ListsHoldTheLiving /\ NullsFiltered /\ SessionsDetachFromLivePipes /\ ShutdownOutcome
<1>1. ListsHoldTheLiving
  BY KindsOfObjects, HoldingMeans DEF ListsHoldTheLiving, CoreInv, RunInv, ListsInv
<1>2. NullsFiltered
  BY DEF NullsFiltered, TopOfLoop, CoreInv, RunInv, CountsInv
<1>3. SessionsDetachFromLivePipes
  BY NoneDangles DEF SessionsDetachFromLivePipes, CoreInv, SweepInv, PhaseIn
<1>4. ShutdownOutcome
  BY DEF ShutdownOutcome, CoreInv, SweepInv, PhaseIn
<1> QED
  BY <1>1, <1>2, <1>3, <1>4

\* Each list holds exactly the objects that exist, each once, whatever handlers
\* ran and however often it was compacted: the search of xps_loop.c:265-270 and
\* the sweeps of xps_core_destroy miss nothing and meet nothing twice.
THEOREM ListsAreExact == CoreSpec => []ListsHoldTheLiving
BY CoreAlways, CoreMeans, PTL

\* The NULLs of the events and sessions are counted exactly, and filter_nulls
\* leaves no more than NullsThresh of them at the top of the loop.
THEOREM NullsAreBounded == CoreSpec => []NullsFiltered
BY CoreAlways, CoreMeans, PTL

\* Whenever the signal comes, the sessions are destroyed while the pipes they
\* point to still exist, as the comment at xps_core.c:40 asks.
THEOREM SessionsGoFirst == CoreSpec => []SessionsDetachFromLivePipes
BY CoreAlways, CoreMeans, PTL

\* From whatever state of the loop a shutdown starts: if it reaches the exit, it
\* leaves no session, open or registered socket, pipe or event behind, and the
\* destructors of exactly the connections open at the signal have written into
\* freed pipes (xps_pipe.c:165-167, 236-238); it can die of such a write only if
\* a connection was open, and then sessions and pipes are gone.
THEOREM ShutdownEnds == CoreSpec => []ShutdownOutcome
BY CoreAlways, CoreMeans, PTL
=============================================================================
