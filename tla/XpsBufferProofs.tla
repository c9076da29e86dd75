--------------------------- MODULE XpsBufferProofs ---------------------------
(***************************************************************************)
(* Proofs about the buffer list: it implements the queue of bytes that     *)
(* XpsPipe takes it for, for buffers of every size and any number of them. *)
(*                                                                         *)
(* Reads and clears walk over the list; what they compute is proved by     *)
(* induction on the buffers, as the absence of a least buffer at which it  *)
(* fails.                                                                  *)
(***************************************************************************)
EXTENDS XpsBuffer, StepwiseInduction, SequenceTheorems

-----------------------------------------------------------------------------
(***************************************************************************)
(* The bytes of a list, buffer by buffer.                                  *)
(***************************************************************************)
Flat(l) == SequenceOps!FlattenSeq(l)

\* h holds the bytes of the first buffers of l, for every number of them.
Chain(h, l) == h[0] = <<>> /\ \A i \in 0..(Len(l) - 1) : h[i + 1] = h[i] \o l[i + 1]

LEMMA Buffers ==
  ASSUME NEW B, NEW l \in Seq(Seq(B))
  PROVE  /\ Len(l) \in Nat /\ DOMAIN l = 1..Len(l)
         /\ \A i \in 1..Len(l) : l[i] \in Seq(B)
         /\ \A i \in 0..(Len(l) - 1) : i \in 0..Len(l) /\ i + 1 \in 1..Len(l) /\ l[i + 1] \in Seq(B)
<1> DEFINE D == Seq(B)
<1> HIDE DEF D
<1>1. l \in Seq(D)
  BY DEF D
<1>2. Len(l) \in Nat /\ DOMAIN l = 1..Len(l) /\ \A i \in 1..Len(l) : l[i] \in D
  BY <1>1
<1>3. \A i \in 0..(Len(l) - 1) : i \in 0..Len(l) /\ i + 1 \in 1..Len(l)
  BY <1>2
<1> QED
  BY <1>2, <1>3 DEF D

LEMMA ChainExists ==
  ASSUME NEW B, NEW l \in Seq(Seq(B))
  PROVE  \E h \in [0..Len(l) -> Seq(B)] : Chain(h, l)
<1> DEFINE N == Len(l)
           D == Seq(B)
           e == <<>>
           F == [x \in D \X (1..N) |-> x[1] \o l[x[2]]]
<1>1. N \in Nat /\ e \in D
  BY Buffers, EmptySeq, Zenon
<1>2. \A i \in 1..N : l[i] \in D
  BY Buffers, Zenon
<1>2a. \A i \in 0..(N - 1) : i \in 0..N /\ i + 1 \in 1..N
  BY Buffers, Zenon
<1>3. F \in [D \X (1..N) -> D]
  <2>1. \A x \in D \X (1..N) : x[1] \o l[x[2]] \in D
    BY <1>2, ConcatProperties
  <2> QED
    BY <2>1
<1>4. \A s \in D, i \in 1..N : F[<<s, i>>] = s \o l[i]
  <2> SUFFICES ASSUME NEW s \in D, NEW i \in 1..N PROVE F[<<s, i>>] = s \o l[i]
    OBVIOUS
  <2> DEFINE x == <<s, i>>
  <2>1. x \in D \X (1..N) /\ x[1] = s /\ x[2] = i
    OBVIOUS
  <2> HIDE DEF x
  <2>2. F[x] = x[1] \o l[x[2]]
    BY <2>1, Zenon
  <2>3. F[x] = s \o l[i]
    BY <2>1, <2>2, Zenon
  <2> HIDE DEF F
  <2> QED
    BY <2>3 DEF x
<1> HIDE DEF F, D, N, e
<1>5. PICK g : IsWalk(g, N, D, e, F)
  BY <1>1, <1>3, Walk, Zenon
<1>5a. g \in [0..N -> D] /\ g[0] = e /\ \A i \in 0..(N - 1) : g[i + 1] = F[<<g[i], i + 1>>]
  BY <1>5 DEF IsWalk
<1>6. \A i \in 0..(N - 1) : g[i] \in D /\ i + 1 \in 1..N
  BY <1>2a, <1>5a
<1>7. \A i \in 0..(N - 1) : g[i + 1] = g[i] \o l[i + 1]
  BY <1>4, <1>5a, <1>6, Zenon
<1>8. Chain(g, l)
  BY <1>5a, <1>7, Zenon DEF Chain, N, e
<1> QED
  BY <1>5a, <1>8 DEF D, N

LEMMA Chained ==
  ASSUME NEW B, NEW l \in Seq(Seq(B)), NEW h \in [0..Len(l) -> Seq(B)], Chain(h, l)
  PROVE  Flat(l) = h[Len(l)]
<1> DEFINE N == Len(l)
<1>1. /\ N \in Nat /\ h[0] = <<>>
      /\ \A i \in 0..(N - 1) : h[i + 1] = h[i] \o l[i + 1]
      /\ \A i \in 0..(N - 1) : i \in 0..N /\ i + 1 \in 1..N /\ l[i + 1] \in Seq(B)
  BY Buffers, Zenon DEF Chain
<1>2. CASE N = 0
  <2>1. l = <<>>
    BY <1>2, EmptySeq
  <2>2. Flat(l) = <<>>
    BY <2>1 DEF Flat, SequenceOps!FlattenSeq
  <2> QED
    BY <1>1, <1>2, <2>2, Zenon
<1>3. CASE N # 0
  <2> DEFINE flatten[i \in 1..Len(l)] == IF i = 1 THEN l[i] ELSE flatten[i - 1] \o l[i]
             Body(f) == [i \in 1..Len(l) |-> IF i = 1 THEN l[i] ELSE f[i - 1] \o l[i]]
  <2>1. Flat(l) = flatten[N]
    BY <1>3 DEF Flat, SequenceOps!FlattenSeq
  <2>2. flatten = CHOOSE f : f = Body(f)
    OBVIOUS
  <2> HIDE DEF flatten
  <2> DEFINE g == [i \in 1..N |-> h[i]]
  <2>3. h[1] = l[1]
    <3>1. 0 \in 0..(N - 1) /\ 0 + 1 = 1
      BY <1>1, <1>3
    <3>2. h[0 + 1] = h[0] \o l[0 + 1] /\ l[0 + 1] \in Seq(B)
      BY <1>1, <3>1, Zenon
    <3>3. h[1] = <<>> \o l[1] /\ l[1] \in Seq(B)
      BY <1>1, <3>1, <3>2, Zenon
    <3>4. <<>> \o l[1] = l[1]
      BY <3>3, ConcatEmptySeq, Zenon
    <3> QED
      BY <3>3, <3>4, Zenon
  <2>4. \A i \in 1..N : i # 1 => i - 1 \in 1..N /\ h[i] = h[i - 1] \o l[i]
    <3> SUFFICES ASSUME NEW i \in 1..N, i # 1 PROVE i - 1 \in 1..N /\ h[i] = h[i - 1] \o l[i]
      OBVIOUS
    <3>1. i - 1 \in 1..N /\ i - 1 \in 0..(N - 1) /\ (i - 1) + 1 = i
      BY <1>1
    <3>2. h[(i - 1) + 1] = h[i - 1] \o l[(i - 1) + 1]
      BY <1>1, <3>1, Zenon
    <3> QED
      BY <3>1, <3>2, Zenon
  <2>5. \A i \in 1..N : g[i] = h[i] /\ (i # 1 => g[i - 1] = h[i - 1])
    BY <2>4
  <2>6. g = Body(g)
    <3>1. \A i \in 1..N : h[i] = IF i = 1 THEN l[i] ELSE g[i - 1] \o l[i]
      BY <2>3, <2>4, <2>5, Zenon
    <3> QED
      BY <3>1, Zenon
  <2>7. flatten = Body(flatten)
    <3> HIDE DEF Body, g
    <3> QED
      BY <2>2, <2>6
  <2>8. \A i \in 1..N : flatten[i] = IF i = 1 THEN l[i] ELSE flatten[i - 1] \o l[i]
    BY <2>7, Zenon
  <2> HIDE DEF Body, g, N
  <2> DEFINE T == {i \in 0..N : i = 0 \/ flatten[i] = h[i]}
  <2>9. 0 \in T
    BY <1>1
  <2>10. ASSUME NEW k \in 0..(N - 1), k \in T PROVE k + 1 \in T
    <3>1. k + 1 \in 0..N /\ k + 1 \in 1..N /\ (k + 1) - 1 = k /\ (k = 0 => k + 1 = 1) /\ (k # 0 => k + 1 # 1)
      BY <1>1
    <3>2. CASE k = 0
      <4>1. flatten[k + 1] = l[k + 1]
        BY <2>8, <3>1, <3>2, Zenon
      <4>2. flatten[k + 1] = h[k + 1]
        BY <2>3, <3>1, <3>2, <4>1, Zenon
      <4> QED
        BY <3>1, <4>2, Zenon
    <3>3. CASE k # 0
      <4>1. flatten[k + 1] = flatten[(k + 1) - 1] \o l[k + 1]
        BY <2>8, <3>1, <3>3, Zenon
      <4>2. flatten[k] = h[k]
        BY <2>10, <3>3, Zenon
      <4>3. flatten[k + 1] = h[k + 1]
        BY <1>1, <3>1, <4>1, <4>2, Zenon
      <4> QED
        BY <3>1, <4>3, Zenon
    <3> QED
      BY <3>2, <3>3
  <2>11. N \in T
    <3> HIDE DEF T
    <3>1. \A k \in 0..(N - 1) : k \in T => k + 1 \in T
      BY <2>10
    <3>2. \A k \in 0..N : k \in T
      BY <1>1, <2>9, <3>1, Upward
    <3>3. N \in 0..N
      BY <1>1
    <3> QED
      BY <3>2, <3>3, Zenon
  <2>12. flatten[N] = h[N]
    BY <1>3, <2>11, Zenon
  <2> QED
    BY <2>1, <2>12, Zenon DEF N
<1> QED
  BY <1>2, <1>3

LEMMA FlatTypes ==
  ASSUME NEW B, NEW l \in Seq(Seq(B))
  PROVE  Flat(l) \in Seq(B)
<1>1. PICK h \in [0..Len(l) -> Seq(B)] : Chain(h, l)
  BY ChainExists
<1>2. Flat(l) = h[Len(l)]
  BY <1>1, Chained
<1>3. Len(l) \in 0..Len(l)
  BY LenProperties
<1> QED
  BY <1>1, <1>2, <1>3, Zenon

LEMMA FlatEmpty == Flat(<<>>) = <<>>
BY DEF Flat, SequenceOps!FlattenSeq

LEMMA FlatAppend ==
  ASSUME NEW B, NEW l \in Seq(Seq(B)), NEW b \in Seq(B)
  PROVE  Append(l, b) \in Seq(Seq(B)) /\ Flat(Append(l, b)) = Flat(l) \o b
<1> DEFINE D == Seq(B)
           a == Append(l, b)
           N == Len(l)
<1>1. PICK h \in [0..N -> D] : Chain(h, l)
  BY ChainExists
<1>2. /\ N \in Nat /\ h[0] = <<>>
      /\ \A i \in 0..(N - 1) : h[i + 1] = h[i] \o l[i + 1]
      /\ \A i \in 0..(N - 1) : i \in 0..N /\ i + 1 \in 1..N
  BY <1>1, Buffers, Zenon DEF Chain
<1>3. a \in Seq(D) /\ Len(a) = N + 1 /\ a[N + 1] = b /\ \A i \in 1..N : a[i] = l[i]
  <2> HIDE DEF D
  <2>1. l \in Seq(D) /\ b \in D
    BY DEF D
  <2> QED
    BY <2>1, AppendProperties
<1> DEFINE g == [i \in 0..(N + 1) |-> IF i <= N THEN h[i] ELSE h[N] \o b]
<1>4. h[N] \in D /\ h[N] \o b \in D
  <2>1. h[N] \in D
    BY <1>2
  <2> QED
    BY <2>1, ConcatProperties
<1>5. g \in [0..Len(a) -> D]
  <2>1. \A i \in 0..(N + 1) : (IF i <= N THEN h[i] ELSE h[N] \o b) \in D
    <3> DEFINE x == h[N] \o b
    <3>1. x \in D /\ \A i \in 0..N : h[i] \in D
      BY <1>4
    <3> HIDE DEF D, x
    <3>2. \A i \in 0..(N + 1) : (IF i <= N THEN h[i] ELSE x) \in D
      BY <1>2, <3>1
    <3> QED
      BY <3>2 DEF x
  <2> QED
    BY <1>3, <2>1, Zenon
<1>6. g[N + 1] = h[N] \o b /\ \A i \in 0..N : g[i] = h[i]
  <2> DEFINE x == h[N] \o b
  <2> HIDE DEF x
  <2>1. [i \in 0..(N + 1) |-> IF i <= N THEN h[i] ELSE x][N + 1] = x
    BY <1>2
  <2>2. \A i \in 0..N : [j \in 0..(N + 1) |-> IF j <= N THEN h[j] ELSE x][i] = h[i]
    BY <1>2
  <2> QED
    BY <2>1, <2>2 DEF x
<1> HIDE DEF g
<1>7. Chain(g, a)
  <2>1. 0 \in 0..N
    BY <1>2
  <2>2. ASSUME NEW i \in 0..(Len(a) - 1) PROVE g[i + 1] = g[i] \o a[i + 1]
    <3>1. i \in 0..N /\ (i # N => i \in 0..(N - 1))
      BY <1>2, <1>3
    <3>2. CASE i = N
      BY <1>3, <1>6, <3>1, <3>2, Zenon
    <3>3. CASE i # N
      <4>1. g[i + 1] = h[i + 1] /\ g[i] = h[i] /\ a[i + 1] = l[i + 1]
        <5>1. i \in 0..N /\ i + 1 \in 1..N /\ i + 1 \in 0..N
          BY <1>2, <3>1, <3>3
        <5> QED
          BY <1>3, <1>6, <5>1, Zenon
      <4> QED
        BY <1>2, <3>1, <3>3, <4>1, Zenon
    <3> QED
      BY <3>2, <3>3
  <2> QED
    BY <1>2, <1>6, <2>1, <2>2, Zenon DEF Chain
<1>8. Flat(a) = g[Len(a)]
  BY <1>3, <1>5, <1>7, Chained, Zenon
<1>9. Flat(l) = h[N]
  BY <1>1, Chained, Zenon
<1> QED
  BY <1>3, <1>6, <1>8, <1>9, Zenon

-----------------------------------------------------------------------------
(***************************************************************************)
(* The front of a sequence and what is behind it.                          *)
(***************************************************************************)
Front(s, n) == IF Len(s) <= n THEN s ELSE SubSeq(s, 1, n)
Behind(s, n) == IF Len(s) <= n THEN <<>> ELSE SubSeq(s, n + 1, Len(s))

LEMMA FrontGrows ==
  ASSUME NEW B, NEW s \in Seq(B), NEW b \in Seq(B), NEW n \in Nat
  PROVE  /\ Front(s, n) \in Seq(B)
         /\ CopyFrom(n, Front(s, n), b) = Front(s \o b, n)
<1>1. Len(s) \in Nat /\ Len(b) \in Nat /\ s \o b \in Seq(B) /\ Len(s \o b) = Len(s) + Len(b)
  BY LenProperties, ConcatProperties
<1>2. CASE Len(s) + Len(b) <= n
  <2>1. Len(s) <= n /\ Len(s \o b) <= n
    BY <1>1, <1>2
  <2>2. Front(s, n) = s /\ Front(s \o b, n) = s \o b
    BY <2>1, Zenon DEF Front
  <2> QED
    BY <1>2, <2>2, Zenon DEF CopyFrom
<1>3. CASE Len(s) <= n /\ Len(s) + Len(b) > n
  <2>1. SubSeq(b, 1, n - Len(s)) \in Seq(B) /\ s \o SubSeq(b, 1, n - Len(s)) = SubSeq(s \o b, 1, n)
    BY <1>1, <1>3
  <2> QED
    BY <1>1, <1>3, <2>1 DEF Front, CopyFrom
<1>4. CASE Len(s) > n
  <2>1. SubSeq(s, 1, n) \in Seq(B) /\ Len(SubSeq(s, 1, n)) = n /\ SubSeq(s \o b, 1, n) = SubSeq(s, 1, n)
    BY <1>1, <1>4
  <2>2. SubSeq(s, 1, n) \o b = SubSeq(s, 1, n) \/ Len(b) # 0
    BY <1>1, <2>1
  <2>3. SubSeq(b, 1, n - n) = <<>> /\ SubSeq(s, 1, n) \o <<>> = SubSeq(s, 1, n)
    BY <1>1, <2>1
  <2>4. Front(s, n) = SubSeq(s, 1, n) /\ Front(s \o b, n) = SubSeq(s, 1, n)
    BY <1>1, <1>4, <2>1 DEF Front
  <2>5. CopyFrom(n, Front(s, n), b) = SubSeq(s, 1, n)
    BY <1>1, <2>1, <2>2, <2>3, <2>4 DEF CopyFrom
  <2> QED
    BY <2>1, <2>4, <2>5
<1> QED
  BY <1>1, <1>2, <1>3, <1>4

\* What is behind n bytes when b follows s.
BehindBoth(s, b, n) ==
  /\ Len(s) > n => Behind(s \o b, n) = Behind(s, n) \o b
  /\ Len(s) <= n /\ Len(s) + Len(b) > n =>
       Behind(s \o b, n) = SubSeq(b, (n - Len(s)) + 1, Len(b))
  /\ Len(s) + Len(b) <= n => Behind(s \o b, n) = <<>>

LEMMA BehindGrows ==
  ASSUME NEW B, NEW s \in Seq(B), NEW b \in Seq(B), NEW n \in Nat
  PROVE  Behind(s, n) \in Seq(B) /\ BehindBoth(s, b, n)
<1>1. Len(s) \in Nat /\ Len(b) \in Nat /\ s \o b \in Seq(B) /\ Len(s \o b) = Len(s) + Len(b)
  BY LenProperties, ConcatProperties
<1>2. Behind(s, n) \in Seq(B)
  BY <1>1 DEF Behind
<1>3. Len(s) > n => Behind(s \o b, n) = Behind(s, n) \o b
  <2> SUFFICES ASSUME Len(s) > n PROVE Behind(s \o b, n) = Behind(s, n) \o b
    OBVIOUS
  <2>1. /\ 1 \in 1..(n + 1) /\ n + 1 \in 1..(Len(s) + 1)
        /\ Len(s) \in n..Len(s \o b) /\ Len(s) \in ((n + 1) - 1)..Len(s \o b)
        /\ Len(s \o b) \in Len(s)..Len(s \o b)
    BY <1>1
  <2>2. SubSeq(s \o b, n + 1, Len(s)) \o SubSeq(s \o b, Len(s) + 1, Len(s \o b))
          = SubSeq(s \o b, n + 1, Len(s \o b))
    <3>1. n + 1 \in 1..(Len(s \o b) + 1)
      BY <1>1
    <3> QED
      BY <1>1, <2>1, <3>1, ConcatAdjacentSubSeq, Zenon
  <2>3. SubSeq(s \o b, n + 1, Len(s)) = SubSeq(s, n + 1, Len(s))
    BY <1>1
  <2>4. SubSeq(s \o b, Len(s) + 1, Len(s \o b)) = b
    BY <1>1
  <2>5. Len(s \o b) > n
    BY <1>1
  <2>6. ~(Len(s) <= n) /\ ~(Len(s \o b) <= n)
    BY <1>1, <2>5
  <2> QED
    BY <2>2, <2>3, <2>4, <2>6, Zenon DEF Behind
<1>4. Len(s) <= n /\ Len(s) + Len(b) > n => Behind(s \o b, n) = SubSeq(b, (n - Len(s)) + 1, Len(b))
  BY <1>1 DEF Behind
<1>5. Len(s) + Len(b) <= n => Behind(s \o b, n) = <<>>
  BY <1>1 DEF Behind
<1> QED
  BY <1>2, <1>3, <1>4, <1>5 DEF BehindBoth

-----------------------------------------------------------------------------
(***************************************************************************)
(* The loops of a read and of a clear.                                     *)
(***************************************************************************)
LEMMA Back ==
  ASSUME NEW N \in Nat, NEW i \in 0..N, i # 0
  PROVE  i - 1 \in 0..(N - 1) /\ i - 1 \in 0..N /\ (i - 1) + 1 = i /\ i \in 1..N
OBVIOUS

LEMMA Forth ==
  ASSUME NEW N \in Nat, NEW i \in 0..(N - 1)
  PROVE  i + 1 \in 0..N /\ i + 1 \in 1..N /\ i + 1 # 0 /\ (i + 1) - 1 = i /\ i \in 0..N
OBVIOUS

LEMMA CopiedIsFront ==
  ASSUME NEW B, NEW l \in Seq(Seq(B)), NEW n \in Nat
  PROVE  Copied(l, n) = Front(Flat(l), n)
<1> DEFINE N == Len(l)
<1>1. PICK h \in [0..N -> Seq(B)] : Chain(h, l)
  BY ChainExists
<1>2. /\ N \in Nat /\ h[0] = <<>>
      /\ \A i \in 0..(N - 1) : h[i + 1] = h[i] \o l[i + 1]
      /\ \A i \in 1..N : l[i] \in Seq(B)
  BY <1>1, Buffers, Zenon DEF Chain
<1>3. Flat(l) = h[N]
  BY <1>1, Chained, Zenon
<1> DEFINE out[i \in 0..Len(l)] == IF i = 0 THEN <<>> ELSE CopyFrom(n, out[i - 1], l[i])
           Body(f) == [i \in 0..N |-> IF i = 0 THEN <<>> ELSE CopyFrom(n, f[i - 1], l[i])]
           g == [i \in 0..N |-> Front(h[i], n)]
<1>4. Copied(l, n) = out[N]
  BY DEF Copied
<1>5. out = CHOOSE f : f = Body(f)
  OBVIOUS
<1> HIDE DEF out
<1>6. \A i \in 0..N : g[i] = Front(h[i], n)
  OBVIOUS
<1>7. \A i \in 0..(N - 1) : g[i + 1] = CopyFrom(n, g[i], l[i + 1])
  <2> SUFFICES ASSUME NEW i \in 0..(N - 1) PROVE g[i + 1] = CopyFrom(n, g[i], l[i + 1])
    OBVIOUS
  <2>1. /\ i + 1 \in 0..N /\ i \in 0..N /\ i + 1 \in 1..N
    BY <1>2, Forth
  <2>2. h[i] \in Seq(B) /\ l[i + 1] \in Seq(B) /\ h[i + 1] = h[i] \o l[i + 1]
    BY <1>1, <1>2, <2>1, Zenon
  <2>3. CopyFrom(n, Front(h[i], n), l[i + 1]) = Front(h[i] \o l[i + 1], n)
    BY <2>2, FrontGrows, Zenon
  <2>4. g[i] = Front(h[i], n) /\ g[i + 1] = Front(h[i + 1], n)
    BY <1>6, <2>1, Zenon
  <2> HIDE DEF g
  <2> QED
    BY <2>2, <2>3, <2>4, Zenon
<1>8. g[0] = <<>>
  <2>1. 0 \in 0..N /\ Front(h[0], n) = <<>>
    BY <1>2 DEF Front
  <2> QED
    BY <1>6, <2>1, Zenon
<1>9. g = Body(g)
  <2>1. ASSUME NEW i \in 0..N
        PROVE  Front(h[i], n) = IF i = 0 THEN <<>> ELSE CopyFrom(n, g[i - 1], l[i])
    <3>1. CASE i = 0
      BY <1>6, <1>8, <3>1, Zenon
    <3>2. CASE i # 0
      <4>1. i - 1 \in 0..(N - 1) /\ (i - 1) + 1 = i
        BY <1>2, <3>2, Back
      <4>2. g[(i - 1) + 1] = CopyFrom(n, g[i - 1], l[(i - 1) + 1])
        BY <1>7, <4>1, Zenon
      <4>3. g[i] = CopyFrom(n, g[i - 1], l[i])
        <5> HIDE DEF g
        <5> QED
          BY <4>1, <4>2, Zenon
      <4> QED
        BY <1>6, <3>2, <4>3, Zenon
    <3> QED
      BY <3>1, <3>2
  <2> QED
    BY <2>1, Zenon
<1>10. out = Body(out)
  <2> HIDE DEF Body, g
  <2> QED
    BY <1>5, <1>9
<1>11. \A i \in 0..N : out[i] = IF i = 0 THEN <<>> ELSE CopyFrom(n, out[i - 1], l[i])
  BY <1>10, Zenon
<1> HIDE DEF Body, g, N
<1> DEFINE T == {i \in 0..N : out[i] = g[i]}
<1>12. 0 \in T
  <2>1. 0 \in 0..N
    BY <1>2
  <2> QED
    BY <1>8, <1>11, <2>1, Zenon
<1>13. ASSUME NEW k \in 0..(N - 1), k \in T PROVE k + 1 \in T
  <2>1. k + 1 \in 0..N /\ k + 1 # 0 /\ (k + 1) - 1 = k
    BY <1>2, Forth
  <2>2. out[k + 1] = CopyFrom(n, out[(k + 1) - 1], l[k + 1])
    BY <1>11, <2>1, Zenon
  <2>3. out[k] = g[k]
    BY <1>13, Zenon
  <2>4. out[k + 1] = g[k + 1]
    BY <1>7, <2>1, <2>2, <2>3, Zenon
  <2> QED
    BY <2>1, <2>4, Zenon
<1>14. out[N] = g[N]
  <2> HIDE DEF T
  <2>1. \A k \in 0..(N - 1) : k \in T => k + 1 \in T
    BY <1>13
  <2>2. \A k \in 0..N : k \in T
    BY <1>2, <1>12, <2>1, Upward
  <2>3. N \in 0..N
    BY <1>2
  <2> QED
    BY <2>2, <2>3, Zenon DEF T
<1>15. N \in 0..N
  BY <1>2
<1> QED
  BY <1>3, <1>4, <1>6, <1>14, <1>15, Zenon

Acc(B) == [left : Nat, kept : Seq(Seq(B))]
NoEmpty(l) == \A i \in 1..Len(l) : l[i] # <<>>

\* What a clear of n bytes has come to when it has passed the bytes s.
Passed(x, s, n) ==
  /\ x.left = IF Len(s) <= n THEN n - Len(s) ELSE 0
  /\ Len(s) <= n => x.kept = <<>>
  /\ Flat(x.kept) = Behind(s, n)
  /\ NoEmpty(x.kept)

LEMMA KeepTypes ==
  ASSUME NEW B, NEW x \in Acc(B), NEW b \in Seq(B)
  PROVE  KeepFrom(x, b) \in Acc(B)
<1> DEFINE D == Seq(B)
<1>1. x.left \in Nat /\ x.kept \in Seq(D) /\ x = [left |-> x.left, kept |-> x.kept]
  BY DEF Acc
<1>2. Len(b) \in Nat /\ SubSeq(b, x.left + 1, Len(b)) \in D
  BY <1>1, LenProperties
<1>3. x.left >= Len(b) => [x EXCEPT !.left = @ - Len(b)] \in Acc(B)
  <2> SUFFICES ASSUME x.left >= Len(b) PROVE [x EXCEPT !.left = @ - Len(b)] \in Acc(B)
    OBVIOUS
  <2>1. x.left - Len(b) \in Nat
    BY <1>1, <1>2
  <2> HIDE DEF D
  <2>2. [x EXCEPT !.left = @ - Len(b)] = [left |-> x.left - Len(b), kept |-> x.kept]
    BY <1>1
  <2> QED
    BY <1>1, <2>1, <2>2 DEF Acc, D
<1>4. Append(x.kept, SubSeq(b, x.left + 1, Len(b))) \in Seq(D)
  <2> DEFINE e == SubSeq(b, x.left + 1, Len(b))
  <2>1. e \in D
    BY <1>2
  <2> HIDE DEF D, e
  <2>2. Append(x.kept, e) \in Seq(D)
    BY <1>1, <2>1
  <2> QED
    BY <2>2 DEF e
<1>5. [left |-> 0, kept |-> Append(x.kept, SubSeq(b, x.left + 1, Len(b)))] \in Acc(B)
  <2> DEFINE e == Append(x.kept, SubSeq(b, x.left + 1, Len(b)))
  <2>1. e \in Seq(D)
    BY <1>4
  <2> HIDE DEF e
  <2>2. [left |-> 0, kept |-> e] \in Acc(B)
    BY <2>1 DEF Acc
  <2> QED
    BY <2>2 DEF e
<1> QED
  BY <1>3, <1>5, Zenon DEF KeepFrom

LEMMA NoEmptyAppend ==
  ASSUME NEW B, NEW l \in Seq(Seq(B)), NoEmpty(l), NEW b \in Seq(B), b # <<>>
  PROVE  NoEmpty(Append(l, b))
<1> DEFINE D == Seq(B)
           a == Append(l, b)
           N == Len(l)
<1>1. N \in Nat /\ a \in Seq(D) /\ Len(a) = N + 1 /\ a[N + 1] = b /\ \A i \in 1..N : a[i] = l[i]
  <2> HIDE DEF D
  <2>1. l \in Seq(D) /\ b \in D
    BY DEF D
  <2> QED
    BY <2>1, AppendProperties, LenProperties
<1> HIDE DEF a
<1>2. ASSUME NEW i \in 1..Len(a) PROVE a[i] # <<>>
  <2>1. i = N + 1 \/ i \in 1..N
    BY <1>1
  <2>2. CASE i = N + 1
    BY <1>1, <2>2, Zenon
  <2>3. CASE i \in 1..N
    BY <1>1, <2>3, Zenon DEF NoEmpty
  <2> QED
    BY <2>1, <2>2, <2>3
<1> QED
  BY <1>2 DEF NoEmpty, a

LEMMA RestOfBuffer ==
  ASSUME NEW B, NEW b \in Seq(B), NEW m \in Nat, m < Len(b)
  PROVE  SubSeq(b, m + 1, Len(b)) \in Seq(B) /\ SubSeq(b, m + 1, Len(b)) # <<>>
<1> DEFINE e == SubSeq(b, m + 1, Len(b))
<1>1. e \in Seq(B) /\ Len(e) = Len(b) - m
  BY LenProperties
<1> HIDE DEF e
<1>2. Len(e) # 0
  BY <1>1, LenProperties
<1>3. e # <<>>
  BY <1>2
<1> QED
  BY <1>1, <1>3 DEF e

LEMMA KeepPasses ==
  ASSUME NEW B, NEW x \in Acc(B), NEW s \in Seq(B), NEW b \in Seq(B), b # <<>>,
         NEW n \in Nat, Passed(x, s, n)
  PROVE  Passed(KeepFrom(x, b), s \o b, n)
<1> DEFINE e == SubSeq(b, x.left + 1, Len(b))
           y == Append(x.kept, e)
           t == s \o b
<1>1. /\ Len(s) \in Nat /\ Len(b) \in Nat /\ Len(b) > 0
      /\ t \in Seq(B) /\ Len(t) = Len(s) + Len(b)
  <2>1. Len(b) # 0
    BY EmptySeq
  <2> QED
    BY <2>1, LenProperties, ConcatProperties
<1>2. /\ x.left \in Nat /\ x.kept \in Seq(Seq(B))
      /\ x.left = IF Len(s) <= n THEN n - Len(s) ELSE 0
      /\ Len(s) <= n => x.kept = <<>>
      /\ Flat(x.kept) = Behind(s, n)
      /\ NoEmpty(x.kept)
  BY DEF Passed, Acc
<1>3. /\ Behind(s, n) \in Seq(B)
      /\ Len(s) > n => Behind(t, n) = Behind(s, n) \o b
      /\ Len(s) <= n /\ Len(s) + Len(b) > n => Behind(t, n) = SubSeq(b, (n - Len(s)) + 1, Len(b))
      /\ Len(s) + Len(b) <= n => Behind(t, n) = <<>>
  <2>1. Behind(s, n) \in Seq(B) /\ BehindBoth(s, b, n)
    BY BehindGrows, Zenon
  <2> QED
    BY <2>1, Zenon DEF BehindBoth
<1>4. CASE x.left > 0 /\ x.left >= Len(b)
  <2>1. Len(s) <= n /\ Len(s) + Len(b) <= n /\ x.left - Len(b) = n - Len(t) /\ Len(t) <= n
    BY <1>1, <1>2, <1>4
  <2> DEFINE z == [x EXCEPT !.left = @ - Len(b)]
  <2>2. z.left = x.left - Len(b) /\ z.kept = x.kept
    BY DEF Acc
  <2>3. KeepFrom(x, b) = z
    BY <1>4, Zenon DEF KeepFrom
  <2>4. z.kept = <<>> /\ Flat(z.kept) = <<>>
    BY <1>2, <2>1, <2>2, FlatEmpty, Zenon
  <2> HIDE DEF z, t
  <2>5. Passed(z, t, n)
    BY <1>2, <1>3, <2>1, <2>2, <2>4, Zenon DEF Passed
  <2> QED
    BY <2>3, <2>5, Zenon DEF t
<1>5. CASE ~(x.left > 0 /\ x.left >= Len(b))
  <2>1. Len(t) > n /\ x.left < Len(b)
    BY <1>1, <1>2, <1>5
  <2>2. e \in Seq(B) /\ e # <<>>
    BY <1>2, <2>1, RestOfBuffer, Zenon
  <2>4. y \in Seq(Seq(B)) /\ Flat(y) = Flat(x.kept) \o e /\ NoEmpty(y)
    <3> HIDE DEF e
    <3> QED
      BY <1>2, <2>2, FlatAppend, NoEmptyAppend, Zenon
  <2>5. Flat(y) = Behind(t, n)
    <3>1. CASE Len(s) <= n
      <4>1. x.left = n - Len(s) /\ Flat(x.kept) = <<>>
        BY <1>2, <3>1, FlatEmpty, Zenon
      <4>2. Behind(t, n) = e
        BY <1>1, <1>3, <2>1, <3>1, <4>1
      <4>3. <<>> \o e = e
        BY <2>2, ConcatEmptySeq, Zenon
      <4> QED
        BY <2>4, <4>1, <4>2, <4>3, Zenon
    <3>2. CASE ~(Len(s) <= n)
      <4>1. x.left = 0 /\ Len(s) > n
        BY <1>1, <1>2, <3>2
      <4>2. e = b
        BY <1>1, <4>1
      <4> QED
        BY <1>2, <1>3, <2>4, <4>1, <4>2, Zenon
    <3> QED
      BY <3>1, <3>2
  <2> DEFINE z == [left |-> 0, kept |-> y]
  <2>6. z.left = 0 /\ z.kept = y
    <3> HIDE DEF y
    <3> QED
      OBVIOUS
  <2>7. KeepFrom(x, b) = z
    BY <1>5, Zenon DEF KeepFrom
  <2>8. ~(Len(t) <= n)
    BY <1>1, <2>1
  <2> HIDE DEF z, y, t
  <2>9. Passed(z, t, n)
    BY <2>4, <2>5, <2>6, <2>8, Zenon DEF Passed
  <2> QED
    BY <2>7, <2>9, Zenon DEF t
<1> QED
  BY <1>4, <1>5

LEMMA KeptIsBehind ==
  ASSUME NEW B, NEW l \in Seq(Seq(B)), NoEmpty(l), NEW n \in Nat
  PROVE  /\ Kept(l, n) \in Seq(Seq(B)) /\ NoEmpty(Kept(l, n))
         /\ Flat(Kept(l, n)) = Behind(Flat(l), n)
<1> DEFINE N == Len(l)
           D == Acc(B)
           e == [left |-> n, kept |-> <<>>]
           F == [x \in D \X (1..N) |-> KeepFrom(x[1], l[x[2]])]
<1>1. PICK h \in [0..N -> Seq(B)] : Chain(h, l)
  BY ChainExists
<1>2. /\ N \in Nat /\ h[0] = <<>>
      /\ \A i \in 0..(N - 1) : h[i + 1] = h[i] \o l[i + 1]
      /\ \A i \in 1..N : l[i] \in Seq(B) /\ l[i] # <<>>
  BY <1>1, Buffers, Zenon DEF Chain, NoEmpty
<1>3. Flat(l) = h[N]
  BY <1>1, Chained, Zenon
<1>4. e \in D /\ e.left = n /\ e.kept = <<>>
  <2>1. <<>> \in Seq(Seq(B))
    BY EmptySeq
  <2> QED
    BY <2>1 DEF Acc
<1>5. F \in [D \X (1..N) -> D] /\ \A x \in D, i \in 1..N : F[<<x, i>>] = KeepFrom(x, l[i])
  <2>1. \A z \in D \X (1..N) : z[1] \in D /\ z[2] \in 1..N
    OBVIOUS
  <2>2. \A z \in D \X (1..N) : KeepFrom(z[1], l[z[2]]) \in D
    <3> HIDE DEF D
    <3>1. \A x \in D, i \in 1..N : KeepFrom(x, l[i]) \in D
      BY <1>2, KeepTypes, Zenon DEF D
    <3> QED
      BY <2>1, <3>1, Zenon
  <2>3. ASSUME NEW x \in D, NEW i \in 1..N PROVE F[<<x, i>>] = KeepFrom(x, l[i])
    <3> DEFINE z == <<x, i>>
    <3>1. z \in D \X (1..N) /\ z[1] = x /\ z[2] = i
      OBVIOUS
    <3> HIDE DEF z
    <3>2. F[z] = KeepFrom(z[1], l[z[2]])
      BY <3>1, Zenon
    <3>3. F[z] = KeepFrom(x, l[i])
      BY <3>1, <3>2, Zenon
    <3> HIDE DEF F
    <3> QED
      BY <3>3 DEF z
  <2> QED
    BY <2>2, <2>3, Zenon
<1> DEFINE acc[i \in 0..Len(l)] == IF i = 0 THEN [left |-> n, kept |-> <<>>] ELSE KeepFrom(acc[i - 1], l[i])
           Body(f) == [i \in 0..N |-> IF i = 0 THEN e ELSE KeepFrom(f[i - 1], l[i])]
<1>6. Kept(l, n) = acc[N].kept
  BY DEF Kept
<1>7. acc = CHOOSE f : f = Body(f)
  OBVIOUS
<1> HIDE DEF acc, F, e
<1>8. PICK g : IsWalk(g, N, D, e, F)
  <2> HIDE DEF D, N
  <2>1. N \in Nat
    BY <1>2
  <2> QED
    BY <1>4, <1>5, <2>1, Walk, Zenon
<1>9. g \in [0..N -> D] /\ g[0] = e /\ \A i \in 0..(N - 1) : g[i + 1] = F[<<g[i], i + 1>>]
  BY <1>8 DEF IsWalk
<1>10. \A i \in 0..(N - 1) : g[i + 1] = KeepFrom(g[i], l[i + 1])
  <2> SUFFICES ASSUME NEW i \in 0..(N - 1) PROVE g[i + 1] = KeepFrom(g[i], l[i + 1])
    OBVIOUS
  <2>1. i \in 0..N /\ i + 1 \in 1..N
    BY <1>2, Forth
  <2>2. g[i] \in D
    BY <1>9, <2>1, Zenon
  <2> QED
    BY <1>5, <1>9, <2>1, <2>2, Zenon
<1>11. g = Body(g)
  <2>1. ASSUME NEW i \in 0..N
        PROVE  g[i] = IF i = 0 THEN e ELSE KeepFrom(g[i - 1], l[i])
    <3>1. CASE i = 0
      BY <1>9, <3>1, Zenon
    <3>2. CASE i # 0
      <4>1. i - 1 \in 0..(N - 1) /\ (i - 1) + 1 = i
        BY <1>2, <3>2, Back
      <4>2. g[(i - 1) + 1] = KeepFrom(g[i - 1], l[(i - 1) + 1])
        BY <1>10, <4>1, Zenon
      <4> QED
        BY <3>2, <4>1, <4>2, Zenon
    <3> QED
      BY <3>1, <3>2
  <2>2. g = [i \in 0..N |-> g[i]]
    BY <1>9, Zenon
  <2> QED
    BY <2>1, <2>2, Zenon
<1>12. acc = Body(acc)
  <2> HIDE DEF Body
  <2> QED
    BY <1>7, <1>11
<1>13. \A i \in 0..N : acc[i] = IF i = 0 THEN e ELSE KeepFrom(acc[i - 1], l[i])
  BY <1>12, Zenon
<1> HIDE DEF Body, N, D
<1> DEFINE T == {i \in 0..N : acc[i] \in D /\ Passed(acc[i], h[i], n)}
<1>14. 0 \in T
  <2>0. 0 \in 0..N
    BY <1>2
  <2>1. 0 \in 0..N /\ acc[0] = e
    BY <1>13, <2>0, Zenon
  <2>2. Passed(e, <<>>, n)
    <3>1. Len(<<>>) = 0 /\ 0 <= n /\ n - 0 = n
      BY EmptySeq
    <3>2. Behind(<<>>, n) = <<>>
      BY <3>1 DEF Behind
    <3>3. NoEmpty(<<>>)
      BY <3>1 DEF NoEmpty
    <3> QED
      BY <1>4, <3>1, <3>2, <3>3, FlatEmpty, Zenon DEF Passed
  <2> QED
    BY <1>2, <1>4, <2>1, <2>2, Zenon
<1>15. ASSUME NEW k \in 0..(N - 1), k \in T PROVE k + 1 \in T
  <2>1. k \in 0..N /\ k + 1 \in 0..N /\ k + 1 # 0 /\ (k + 1) - 1 = k /\ k + 1 \in 1..N
    BY <1>2, Forth
  <2>2. acc[k + 1] = KeepFrom(acc[(k + 1) - 1], l[k + 1])
    BY <1>13, <2>1, Zenon
  <2>3. acc[k + 1] = KeepFrom(acc[k], l[k + 1]) /\ h[k + 1] = h[k] \o l[k + 1]
    BY <1>2, <2>1, <2>2, Zenon
  <2>4. acc[k] \in D /\ Passed(acc[k], h[k], n) /\ h[k] \in Seq(B)
        /\ l[k + 1] \in Seq(B) /\ l[k + 1] # <<>>
    BY <1>1, <1>2, <1>15, <2>1, Zenon DEF N
  <2>5. KeepFrom(acc[k], l[k + 1]) \in D
    BY <2>4, KeepTypes, Zenon DEF D
  <2>6. Passed(KeepFrom(acc[k], l[k + 1]), h[k] \o l[k + 1], n)
    BY <2>4, KeepPasses, Zenon DEF D
  <2> QED
    BY <2>1, <2>3, <2>5, <2>6, Zenon
<1>16. acc[N] \in D /\ Passed(acc[N], h[N], n)
  <2> HIDE DEF T
  <2>1. \A k \in 0..(N - 1) : k \in T => k + 1 \in T
    BY <1>15
  <2>2. \A k \in 0..N : k \in T
    BY <1>2, <1>14, <2>1, Upward
  <2>3. N \in 0..N
    BY <1>2
  <2> QED
    BY <2>2, <2>3, Zenon DEF T
<1>17. acc[N].kept \in Seq(Seq(B))
  BY <1>16 DEF D, Acc
<1> QED
  BY <1>3, <1>6, <1>16, <1>17, Zenon DEF Passed

-----------------------------------------------------------------------------
(***************************************************************************)
(* The invariant.  That len is what the list holds rests on the absence of *)
(* empty buffers, and both on what a clear does across them.               *)
(***************************************************************************)
Byte == 1..MaxBytes

BufferInv == TypeOK /\ LengthInStep /\ NoEmptyBuffer /\ len <= appended

LEMMA BufferMeans ==
  ASSUME BufferInv
  PROVE  /\ MaxBytes \in Nat /\ MaxChunk \in Nat
         /\ list \in Seq(Seq(Byte)) /\ NoEmpty(list) /\ Flat(list) \in Seq(Byte)
         /\ len = Len(Flat(list)) /\ len \in Nat /\ appended \in Nat
         /\ len <= appended /\ appended <= MaxBytes
<1>1. list \in Seq(Seq(Byte))
  BY Zenon DEF BufferInv, TypeOK, Byte
<1>2. Flat(list) \in Seq(Byte)
  BY <1>1, FlatTypes, Zenon
<1>3. NoEmpty(list) /\ len = Len(Flat(list))
  BY Zenon DEF BufferInv, LengthInStep, NoEmptyBuffer, NoEmpty, Flat
<1>4. len \in 0..MaxBytes /\ appended \in 0..MaxBytes /\ len <= appended
  BY Zenon DEF BufferInv, TypeOK
<1>5. MaxBytes \in Nat /\ MaxChunk \in Nat
  BY BufferAssumption
<1> QED
  BY <1>1, <1>2, <1>3, <1>4, <1>5

LEMMA BytesAre ==
  ASSUME NEW a \in Nat, NEW n \in Nat, a + n <= MaxBytes
  PROVE  Bytes(a, n) \in Seq(Byte) /\ Len(Bytes(a, n)) = n
<1>1. MaxBytes \in Nat
  BY BufferAssumption
<1>2. \A i \in 1..n : a + i \in Byte
  BY <1>1 DEF Byte
<1>3. Bytes(a, n) \in [1..n -> Byte]
  BY <1>2 DEF Bytes
<1> QED
  BY <1>3, LenProperties

LEMMA BufferInit == Init => BufferInv
<1> SUFFICES ASSUME Init PROVE BufferInv
  OBVIOUS
<1>1. list = <<>> /\ len = 0 /\ request = <<"none", 0>> /\ answer = <<>> /\ appended = 0
  BY DEF Init, xps_buffer_list_create
<1>2. <<>> \in Seq(Seq(1..MaxBytes)) /\ <<>> \in Seq(1..MaxBytes) /\ Len(<<>>) = 0
  BY EmptySeq
<1>3. SequenceOps!FlattenSeq(<<>>) = <<>>
  BY FlatEmpty DEF Flat
<1>4. 0 \in 0..MaxBytes /\ 0 \in 0..(MaxBytes + 1)
  BY BufferAssumption
<1>5. TypeOK
  BY <1>1, <1>2, <1>4 DEF TypeOK
<1>6. LengthInStep
  BY <1>1, <1>2, <1>3, Zenon DEF LengthInStep
<1>7. NoEmptyBuffer
  BY <1>1, <1>2 DEF NoEmptyBuffer
<1> QED
  BY <1>1, <1>5, <1>6, <1>7 DEF BufferInv

\* A step keeps the invariant when the new list is well-formed and len is
\* its length.
LEMMA BufferKept ==
  ASSUME MaxBytes \in Nat, list' \in Seq(Seq(Byte)), NoEmpty(list'), len' = Len(Flat(list')),
         len' \in Nat, appended' \in Nat, len' <= appended', appended' <= MaxBytes,
         answer' \in Seq(Byte),
         request' \in {"none", "append", "read", "clear"} \X (0..(MaxBytes + 1))
  PROVE  BufferInv'
<1>1. len' \in 0..MaxBytes /\ appended' \in 0..MaxBytes
  OBVIOUS
<1>2. TypeOK'
  BY <1>1, Zenon DEF TypeOK, Byte
<1> QED
  BY <1>2, Zenon DEF BufferInv, LengthInStep, NoEmptyBuffer, NoEmpty, Flat

LEMMA AppendKeeps ==
  ASSUME BufferInv, NEW n \in 1..MaxChunk, xps_buffer_list_append(n)
  PROVE  BufferInv' /\ Queue!Next
<1> DEFINE b == Bytes(appended, n)
<1>1. /\ MaxBytes \in Nat /\ MaxChunk \in Nat
      /\ list \in Seq(Seq(Byte)) /\ NoEmpty(list) /\ Flat(list) \in Seq(Byte)
      /\ len = Len(Flat(list)) /\ len \in Nat /\ appended \in Nat
      /\ len <= appended /\ appended <= MaxBytes
  BY BufferMeans
<1>2. /\ appended + n <= MaxBytes /\ list' = Append(list, b) /\ len' = len + n
      /\ appended' = appended + n /\ request' = <<"append", n>> /\ answer' = answer
  BY DEF xps_buffer_list_append
<1>3. b \in Seq(Byte) /\ Len(b) = n /\ b # <<>>
  <2>1. n \in Nat /\ n # 0
    BY <1>1
  <2>2. b \in Seq(Byte) /\ Len(b) = n
    BY <1>1, <1>2, <2>1, BytesAre
  <2> HIDE DEF b
  <2> QED
    BY <2>1, <2>2, EmptySeq
<1> HIDE DEF b
<1>4. list' \in Seq(Seq(Byte)) /\ Flat(list') = Flat(list) \o b /\ NoEmpty(list')
  BY <1>1, <1>2, <1>3, FlatAppend, NoEmptyAppend, Zenon
<1>5. Len(Flat(list')) = len'
  <2>1. Len(Flat(list) \o b) = Len(Flat(list)) + Len(b)
    BY <1>1, <1>3, ConcatProperties
  <2> QED
    BY <1>1, <1>2, <1>3, <1>4, <2>1, Zenon
<1>6. answer' \in Seq(Byte)
  BY <1>2, Zenon DEF BufferInv, TypeOK, Byte
<1>7. /\ len' \in Nat /\ appended' \in Nat /\ len' <= appended' /\ appended' <= MaxBytes
      /\ request' \in {"none", "append", "read", "clear"} \X (0..(MaxBytes + 1))
  BY <1>1, <1>2
<1>8. BufferInv'
  BY <1>1, <1>4, <1>5, <1>6, <1>7, BufferKept
<1>9. Queue!Next
  <2>1. b \in {Bytes(a, m) : a \in 0..MaxBytes, m \in 1..MaxChunk}
    BY <1>1 DEF b
  <2>2. Queue!Enqueue(b)
    BY <1>2, <1>3, <1>4, Zenon DEF Queue!Enqueue, Flat
  <2> QED
    BY <2>1, <2>2 DEF Queue!Next
<1> QED
  BY <1>8, <1>9

LEMMA ReadKeeps ==
  ASSUME BufferInv, NEW n \in 1..(len + 1), xps_buffer_list_read(n)
  PROVE  BufferInv' /\ Queue!Next
<1> DEFINE s == Flat(list)
<1>1. /\ MaxBytes \in Nat /\ MaxChunk \in Nat
      /\ list \in Seq(Seq(Byte)) /\ NoEmpty(list) /\ s \in Seq(Byte)
      /\ len = Len(s) /\ len \in Nat /\ appended \in Nat
      /\ len <= appended /\ appended <= MaxBytes
  BY BufferMeans
<1>2. /\ list' = list /\ len' = len /\ appended' = appended /\ request' = <<"read", n>>
      /\ answer' = IF len < n THEN <<>> ELSE Copied(list, n)
  BY DEF xps_buffer_list_read
<1>3. n \in Nat
  BY <1>1
<1>4. Copied(list, n) = Front(s, n)
  BY <1>1, <1>3, CopiedIsFront, Zenon
<1> HIDE DEF s
<1>5. answer' = (IF n <= Len(s) THEN SubSeq(s, 1, n) ELSE <<>>) /\ answer' \in Seq(Byte)
  <2>1. CASE n <= Len(s)
    <3>1. ~(len < n) /\ (Len(s) <= n => n = Len(s))
      BY <1>1, <1>3, <2>1
    <3>2. Front(s, n) = SubSeq(s, 1, n)
      <4>1. SubSeq(s, 1, Len(s)) = s
        BY <1>1, SubSeqFull
      <4> QED
        BY <3>1, <4>1, Zenon DEF Front
    <3>3. SubSeq(s, 1, n) \in Seq(Byte)
      BY <1>1, <1>3, <2>1
    <3> QED
      BY <1>2, <1>4, <2>1, <3>1, <3>2, <3>3, Zenon
  <2>2. CASE ~(n <= Len(s))
    <3>1. len < n /\ <<>> \in Seq(Byte)
      BY <1>1, <1>3, <2>2, EmptySeq
    <3> QED
      BY <1>2, <2>2, <3>1, Zenon
  <2> QED
    BY <2>1, <2>2
<1>6. /\ request' \in {"none", "append", "read", "clear"} \X (0..(MaxBytes + 1))
  BY <1>1, <1>2
<1>7. BufferInv'
  BY <1>1, <1>2, <1>5, <1>6, BufferKept DEF s
<1>8. Queue!Next
  <2>1. n \in 1..(Len(s) + 1)
    BY <1>1
  <2>2. Queue!Read(n)
    BY <1>2, <1>5, Zenon DEF Queue!Read, s, Flat
  <2> QED
    BY <2>1, <2>2 DEF Queue!Next, s, Flat
<1> QED
  BY <1>7, <1>8

LEMMA ClearKeeps ==
  ASSUME BufferInv, NEW n \in 1..(len + 1), xps_buffer_list_clear(n)
  PROVE  BufferInv' /\ Queue!Next
<1> DEFINE s == Flat(list)
<1>1. /\ MaxBytes \in Nat /\ MaxChunk \in Nat
      /\ list \in Seq(Seq(Byte)) /\ NoEmpty(list) /\ s \in Seq(Byte)
      /\ len = Len(s) /\ len \in Nat /\ appended \in Nat
      /\ len <= appended /\ appended <= MaxBytes
  BY BufferMeans
<1>2. /\ request' = <<"clear", n>> /\ answer' = answer /\ appended' = appended
      /\ len < n => list' = list /\ len' = len
      /\ ~(len < n) => list' = Kept(list, n) /\ len' = len - n
  BY DEF xps_buffer_list_clear
<1>3. n \in Nat
  BY <1>1
<1>4. /\ Kept(list, n) \in Seq(Seq(Byte)) /\ NoEmpty(Kept(list, n))
      /\ Flat(Kept(list, n)) = Behind(s, n)
  BY <1>1, <1>3, KeptIsBehind, Zenon
<1> HIDE DEF s
<1>5. /\ list' \in Seq(Seq(Byte)) /\ NoEmpty(list') /\ len' = Len(Flat(list')) /\ len' \in Nat
      /\ len' <= len
      /\ Flat(list') = IF n <= Len(s) THEN SubSeq(s, n + 1, Len(s)) ELSE s
  <2>1. CASE n <= Len(s)
    <3>1. ~(len < n) /\ (Len(s) <= n => n = Len(s)) /\ len - n \in Nat /\ len - n <= len
      BY <1>1, <1>3, <2>1
    <3>2. Behind(s, n) = SubSeq(s, n + 1, Len(s))
      <4>1. CASE Len(s) <= n
        <5>1. SubSeq(s, n + 1, Len(s)) = <<>>
          BY <1>1, <3>1, <4>1, SubSeqEmpty
        <5> QED
          BY <4>1, <5>1, Zenon DEF Behind
      <4>2. CASE ~(Len(s) <= n)
        BY <4>2, Zenon DEF Behind
      <4> QED
        BY <4>1, <4>2
    <3>3. Len(SubSeq(s, n + 1, Len(s))) = len - n
      BY <1>1, <1>3, <2>1
    <3> QED
      BY <1>2, <1>4, <2>1, <3>1, <3>2, <3>3, Zenon
  <2>2. CASE ~(n <= Len(s))
    <3>1. len < n /\ len <= len
      BY <1>1, <1>3, <2>2
    <3> QED
      BY <1>1, <1>2, <2>2, <3>1, Zenon DEF s
  <2> QED
    BY <2>1, <2>2
<1>6. /\ request' \in {"none", "append", "read", "clear"} \X (0..(MaxBytes + 1))
      /\ appended' \in Nat /\ len' <= appended' /\ appended' <= MaxBytes
  <2>1. n \in 0..(MaxBytes + 1) /\ request' = <<"clear", n>>
    BY <1>1, <1>2
  <2>2. len' \in Nat /\ len' <= len /\ appended' = appended
    BY <1>2, <1>5
  <2> QED
    BY <1>1, <2>1, <2>2
<1>7. answer' \in Seq(Byte)
  BY <1>2, Zenon DEF BufferInv, TypeOK, Byte
<1>8. BufferInv'
  BY <1>1, <1>5, <1>6, <1>7, BufferKept
<1>9. Queue!Next
  <2>1. n \in 1..(Len(s) + 1)
    BY <1>1
  <2>2. Queue!Clear(n)
    BY <1>2, <1>5, Zenon DEF Queue!Clear, s, Flat
  <2> QED
    BY <2>1, <2>2 DEF Queue!Next, s, Flat
<1> QED
  BY <1>8, <1>9

LEMMA BufferStep ==
  ASSUME BufferInv, [Next]_vars
  PROVE  BufferInv' /\ [Queue!Next]_<<SequenceOps!FlattenSeq(list), request, answer>>
<1>1. ASSUME NEW n \in 1..MaxChunk, xps_buffer_list_append(n)
      PROVE  BufferInv' /\ Queue!Next
  BY <1>1, AppendKeeps
<1>2. ASSUME NEW n \in 1..(len + 1), xps_buffer_list_read(n)
      PROVE  BufferInv' /\ Queue!Next
  BY <1>2, ReadKeeps
<1>3. ASSUME NEW n \in 1..(len + 1), xps_buffer_list_clear(n)
      PROVE  BufferInv' /\ Queue!Next
  BY <1>3, ClearKeeps
<1>4. CASE UNCHANGED vars
  <2>1. list' = list /\ len' = len /\ request' = request /\ answer' = answer /\ appended' = appended
    BY <1>4 DEF vars
  <2>2. BufferInv'
    BY <2>1, Zenon DEF BufferInv, TypeOK, LengthInStep, NoEmptyBuffer
  <2> QED
    BY <2>1, <2>2, Zenon
<1> QED
  BY <1>1, <1>2, <1>3, <1>4, Zenon DEF Next

LEMMA BufferAlways == Spec => []BufferInv
<1>1. BufferInv /\ [Next]_vars => BufferInv'
  BY BufferStep
<1> QED
  BY BufferInit, <1>1, PTL DEF Spec

\* The lengths and bounds of the list's bookkeeping are numbers in their ranges,
\* whatever sequence of appends, reads and clears ran (utils/xps_buffer.c).
THEOREM BufferTypesHold == Spec => []TypeOK
<1>1. BufferInv => TypeOK
  BY DEF BufferInv
<1> QED
  BY BufferAlways, <1>1, PTL

\* buff_list->len is the number of bytes in the list, after any appends and
\* clears (xps_buffer.c:109 and 180).
THEOREM LengthIsExact == Spec => []LengthInStep
<1>1. BufferInv => LengthInStep
  BY DEF BufferInv
<1> QED
  BY BufferAlways, <1>1, PTL

\* A clear leaves no empty buffer behind (xps_buffer.c:167-177).
THEOREM BuffersAreNotEmpty == Spec => []NoEmptyBuffer
<1>1. BufferInv => NoEmptyBuffer
  BY DEF BufferInv
<1> QED
  BY BufferAlways, <1>1, PTL

\* The list is the queue of bytes that the pipes take it for: every append, read
\* and clear is one of the queue's, wherever the borders of the buffers fall.
THEOREM ListIsAQueue == Spec => ImplementsQueue
<1>1. Init => Queue!Init
  <2> SUFFICES ASSUME Init PROVE Queue!Init
    OBVIOUS
  <2>1. list = <<>> /\ request = <<"none", 0>> /\ answer = <<>>
    BY DEF Init, xps_buffer_list_create
  <2>2. SequenceOps!FlattenSeq(list) = <<>>
    BY <2>1, FlatEmpty, Zenon DEF Flat
  <2> QED
    BY <2>1, <2>2, Zenon DEF Queue!Init
<1>2. BufferInv /\ [Next]_vars => [Queue!Next]_<<SequenceOps!FlattenSeq(list), request, answer>>
  BY BufferStep
<1> QED
  BY BufferAlways, <1>1, <1>2, PTL DEF Spec, ImplementsQueue, Queue!Spec
=============================================================================
