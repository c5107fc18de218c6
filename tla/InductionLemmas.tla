-------------------------- MODULE InductionLemmas --------------------------
(* Induction on the natural numbers in a form the provers can use: a set   *)
(* instead of a predicate, and what it gives for functions defined by      *)
(* recursion along 1, 2, 3, ...                                            *)
EXTENDS Integers, WellFoundedInduction, TLAPS

\* Every set of naturals that is not empty has a least element.
LEMMA LeastNat ==
  ASSUME NEW T \in SUBSET Nat, T # {}
  PROVE  \E n \in T : \A m \in T : n <= m
<1>1. \E R : /\ IsWellFoundedOn(R, Nat)
             /\ \A x, y \in Nat : y < x => <<y, x>> \in R
  <2>1. \A x, y \in Nat : y < x => <<y, x>> \in OpToRel(<, Nat)
    BY DEF OpToRel
  <2> QED
    BY <2>1, NatLessThanWellFounded, Zenon
<1>2. PICK R : /\ IsWellFoundedOn(R, Nat)
               /\ \A x, y \in Nat : y < x => <<y, x>> \in R
  BY <1>1
<1>3. PICK n \in T : \A m \in T : ~ (<<m, n>> \in R)
  BY <1>2, WFMin
<1>4. \A m \in T : ~ (m < n)
  BY <1>2, <1>3, Zenon
<1>5. \A m \in T : n <= m
  BY <1>4
<1> QED
  BY <1>5

\* Induction for sets: a set that has 0, and n + 1 with n up to N, has
\* every number up to N.
LEMMA InductionUpTo ==
  ASSUME NEW N \in Nat, NEW S,
         0 \in S,
         \A n \in 0 .. N - 1 : n \in S => n + 1 \in S
  PROVE  0 .. N \subseteq S
<1> DEFINE T == {n \in 0 .. N : n \notin S}
<1> SUFFICES ASSUME T # {} PROVE FALSE
  OBVIOUS
<1>1. T \in SUBSET Nat
  OBVIOUS
<1>2. PICK n \in T : \A m \in T : n <= m
  BY <1>1, LeastNat
<1>3. n # 0 /\ n - 1 \in 0 .. N - 1 /\ n - 1 \notin T
  BY <1>2
<1> QED
  BY <1>2, <1>3

\* Steps from each n - 1 to n, and a function on 0 .. N that follows them.
Steps(N, S) == [1 .. N -> [S -> S]]

Follows(g, N, S, a, F) ==
    g \in [0 .. N -> S] /\ g[0] = a /\ \A n \in 1 .. N : g[n] = F[n][g[n - 1]]

\* A value for 0 and a step from each n - 1 to n define a function on 0 .. N.
LEMMA RecursionUpTo ==
  ASSUME NEW N \in Nat, NEW S, NEW a \in S, NEW F \in Steps(N, S)
  PROVE  \E g : Follows(g, N, S, a, F)
<1> USE DEF Steps
<1> DEFINE Good(n, g) == /\ g \in [0 .. n -> S] /\ g[0] = a
                         /\ \A k \in 1 .. n : g[k] = F[k][g[k - 1]]
           T == {n \in 0 .. N : \E g : Good(n, g)}
<1>1. 0 \in T
  <2> DEFINE z == [k \in 0 .. 0 |-> a]
  <2>1. Good(0, z)
    OBVIOUS
  <2>2. \E g : Good(0, g)
    BY <2>1, Zenon
  <2> QED
    BY <2>2
<1>2. ASSUME NEW n \in 0 .. N - 1, n \in T PROVE n + 1 \in T
  <2>1. PICK g : Good(n, g)
    BY <1>2
  <2>2. n \in Nat /\ n + 1 \in 1 .. N /\ g[n] \in S /\ F[n + 1][g[n]] \in S
    BY <2>1
  <2> DEFINE h == [k \in 0 .. n + 1 |-> IF k <= n THEN g[k] ELSE F[n + 1][g[n]]]
  <2>3. h \in [0 .. n + 1 -> S] /\ \A k \in 0 .. n : h[k] = g[k]
    BY <2>1, <2>2
  <2>4. h[n + 1] = F[n + 1][g[n]]
    BY <2>2
  <2> HIDE DEF h
  <2>5. ASSUME NEW k \in 1 .. n + 1 PROVE h[k] = F[k][h[k - 1]]
    <3>1. CASE k \in 1 .. n
      <4>1. k \in 0 .. n /\ k - 1 \in 0 .. n
        BY <2>2, <3>1
      <4> QED
        BY <2>1, <2>3, <3>1, <4>1
    <3>2. CASE k = n + 1
      <4>1. k - 1 = n /\ n \in 0 .. n
        BY <2>2, <3>2
      <4> QED
        BY <2>3, <2>4, <3>2, <4>1
    <3> QED
      BY <2>2, <3>1, <3>2
  <2>6. h[0] = a
    BY <2>1, <2>2, <2>3
  <2>7. \E f : Good(n + 1, f)
    BY <2>3, <2>5, <2>6
  <2> QED
    BY <2>2, <2>7
<1>3. 0 .. N \subseteq T
  <2> HIDE DEF T
  <2> QED
    BY <1>1, <1>2, InductionUpTo
<1> QED
  BY <1>3 DEF Follows
=============================================================================
