-------------------------- MODULE StepwiseInduction --------------------------
(***************************************************************************)
(* Induction over numbers, as statements about sets and functions: what    *)
(* the other modules of proofs need to say what a function does that is    *)
(* defined one place after the other.                                      *)
(***************************************************************************)
EXTENDS Integers, WellFoundedInduction, TLAPS

LEMMA Least ==
  ASSUME NEW T, T \subseteq Nat, T # {}
  PROVE  \E n \in T : \A m \in T : n <= m
<1> DEFINE R == OpToRel(<, Nat)
<1>1. IsWellFoundedOn(R, Nat)
  BY NatLessThanWellFounded
<1>2. \A x, y \in Nat : y < x => <<y, x>> \in R
  BY DEF OpToRel
<1> HIDE DEF R
<1>3. PICK n \in T : \A m \in T : <<m, n>> \notin R
  BY <1>1, WFMin
<1>4. ASSUME NEW m \in T PROVE n <= m
  <2>1. m \in Nat /\ n \in Nat /\ <<m, n>> \notin R
    BY <1>3
  <2>2. ~(m < n)
    BY <1>2, <2>1
  <2> QED
    BY <2>1, <2>2
<1> QED
  BY <1>4

LEMMA Upward ==
  ASSUME NEW N \in Nat, NEW T, 0 \in T, \A k \in 0..(N - 1) : k \in T => k + 1 \in T
  PROVE  \A k \in 0..N : k \in T
<1> SUFFICES ASSUME NEW k \in 0..N, k \notin T PROVE FALSE
  OBVIOUS
<1> DEFINE Out == {i \in 0..N : i \notin T}
<1>1. Out \subseteq Nat /\ Out # {}
  OBVIOUS
<1>2. PICK n \in Out : \A m \in Out : n <= m
  BY <1>1, Least
<1>3. n \in 1..N
  BY <1>2
<1>4. n - 1 \in 0..(N - 1) /\ n - 1 \notin Out
  BY <1>2, <1>3
<1>5. n - 1 \in T
  BY <1>3, <1>4
<1>6. (n - 1) + 1 \in T
  BY <1>4, <1>5
<1> QED
  BY <1>2, <1>3, <1>6

\* g is a walk over N places, which F leads from one to the next.
IsWalk(g, N, D, base, F) ==
  /\ g \in [0..N -> D]
  /\ g[0] = base
  /\ \A i \in 0..(N - 1) : g[i + 1] = F[<<g[i], i + 1>>]

LEMMA Walk ==
  ASSUME NEW N \in Nat, NEW D, NEW base \in D, NEW F \in [D \X (1..N) -> D]
  PROVE  \E g : IsWalk(g, N, D, base, F)
<1> DEFINE T == {k \in 0..N : \E g \in [0..k -> D] :
                                g[0] = base /\ \A i \in 0..(k - 1) : g[i + 1] = F[<<g[i], i + 1>>]}
<1>1. 0 \in T
  <2> DEFINE g == [i \in 0..0 |-> base]
  <2>1. g \in [0..0 -> D] /\ g[0] = base /\ \A i \in 0..(0 - 1) : g[i + 1] = F[<<g[i], i + 1>>]
    OBVIOUS
  <2> HIDE DEF g
  <2> QED
    BY <2>1
<1>2. ASSUME NEW k \in 0..(N - 1), k \in T PROVE k + 1 \in T
  <2>1. PICK g \in [0..k -> D] : g[0] = base /\ \A i \in 0..(k - 1) : g[i + 1] = F[<<g[i], i + 1>>]
    BY <1>2
  <2> DEFINE h == [i \in 0..(k + 1) |-> IF i <= k THEN g[i] ELSE F[<<g[k], k + 1>>]]
  <2>2. h[k + 1] = F[<<g[k], k + 1>>] /\ h[k] = g[k] /\ h[0] = g[0]
    OBVIOUS
  <2>3. \A i \in 0..(k - 1) : h[i] = g[i] /\ h[i + 1] = g[i + 1]
    OBVIOUS
  <2>4. h \in [0..(k + 1) -> D]
    <3>1. <<g[k], k + 1>> \in D \X (1..N)
      OBVIOUS
    <3>2. \A i \in 0..(k + 1) : (IF i <= k THEN g[i] ELSE F[<<g[k], k + 1>>]) \in D
      BY <3>1
    <3> QED
      BY <3>2
  <2> HIDE DEF h
  <2>5. \A i \in 0..((k + 1) - 1) : h[i + 1] = F[<<h[i], i + 1>>]
    <3> SUFFICES ASSUME NEW i \in 0..((k + 1) - 1) PROVE h[i + 1] = F[<<h[i], i + 1>>]
      OBVIOUS
    <3>1. CASE i = k
      BY <2>2, <3>1
    <3>2. CASE i \in 0..(k - 1)
      BY <2>1, <2>3, <3>2
    <3> QED
      BY <3>1, <3>2
  <2>6. h[0] = base
    BY <2>1, <2>2
  <2> QED
    BY <2>4, <2>5, <2>6
<1> HIDE DEF T
<1>3. N \in T
  BY <1>1, <1>2, Upward
<1> QED
  BY <1>3 DEF T, IsWalk
=============================================================================
