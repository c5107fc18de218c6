--------------------------- MODULE SequenceLemmas ---------------------------
(* The elements of sequences that are built by Append, Tail and \o, and    *)
(* how often elements of some kind occur in them.                          *)
EXTENDS Integers, Sequences, SequencesExt, FiniteSetTheorems, TLAPS

\* Every element of a sequence over S is in S, and none is in the empty one.
LEMMA ElementsIn ==
  ASSUME NEW S, NEW s \in Seq(S)
  PROVE  ToSet(s) \subseteq S /\ s \in Seq(ToSet(s)) /\ (s = <<>> <=> ToSet(s) = {})
<1>1. ToSet(s) = {s[i] : i \in 1 .. Len(s)} /\ Len(s) \in Nat
  BY DEF ToSet
<1>2. ToSet(s) \subseteq S
  BY <1>1
<1>3. s \in Seq(ToSet(s))
  BY <1>1
<1>4. s = <<>> => ToSet(s) = {}
  BY <1>1
<1>5. s # <<>> => s[1] \in ToSet(s)
  BY <1>1
<1> QED
  BY <1>2, <1>3, <1>4, <1>5

\* The elements of the empty sequence.
LEMMA ElementsOfEmpty == ToSet(<<>>) = {}
BY DEF ToSet

\* The elements after one is appended.
LEMMA ElementsOfAppend ==
  ASSUME NEW S, NEW s \in Seq(S), NEW e \in S
  PROVE  Append(s, e) \in Seq(S) /\ ToSet(Append(s, e)) = ToSet(s) \cup {e}
<1> DEFINE t == Append(s, e)
<1>1. /\ t \in Seq(S) /\ Len(t) = Len(s) + 1 /\ Len(s) \in Nat
      /\ t[Len(s) + 1] = e /\ \A i \in 1 .. Len(s) : t[i] = s[i]
  OBVIOUS
<1> HIDE DEF t
<1>2. ToSet(t) = {t[i] : i \in 1 .. Len(s) + 1} /\ ToSet(s) = {s[i] : i \in 1 .. Len(s)}
  BY <1>1 DEF ToSet
<1>3. ASSUME NEW x \in ToSet(t) PROVE x \in ToSet(s) \cup {e}
  <2>1. PICK i \in 1 .. Len(s) + 1 : x = t[i]
    BY <1>2
  <2> QED
    BY <1>1, <1>2, <2>1
<1>4. ASSUME NEW x \in ToSet(s) PROVE x \in ToSet(t)
  <2>1. PICK i \in 1 .. Len(s) : x = s[i]
    BY <1>2
  <2>2. i \in 1 .. Len(s) + 1 /\ x = t[i]
    BY <1>1, <2>1
  <2> QED
    BY <1>2, <2>2
<1>5. e \in ToSet(t)
  <2>1. Len(s) + 1 \in 1 .. Len(s) + 1 /\ t[Len(s) + 1] = e
    BY <1>1
  <2> QED
    BY <1>2, <2>1
<1> QED
  BY <1>1, <1>3, <1>4, <1>5 DEF t

\* The elements of a concatenation.
LEMMA ElementsOfConcatenation ==
  ASSUME NEW S, NEW s \in Seq(S), NEW t \in Seq(S)
  PROVE  s \o t \in Seq(S) /\ ToSet(s \o t) = ToSet(s) \cup ToSet(t)
<1> DEFINE u == s \o t
           m == Len(s)
           n == Len(t)
<1>1. /\ u \in Seq(S) /\ Len(u) = m + n /\ m \in Nat /\ n \in Nat
      /\ \A i \in 1 .. m : u[i] = s[i]
      /\ \A i \in 1 .. m + n : i > m => u[i] = t[i - m]
  OBVIOUS
<1>2. /\ ToSet(u) = {u[i] : i \in 1 .. m + n}
      /\ ToSet(s) = {s[i] : i \in 1 .. m} /\ ToSet(t) = {t[i] : i \in 1 .. n}
  <2>1. DOMAIN s = 1 .. m /\ DOMAIN t = 1 .. n
    OBVIOUS
  <2> HIDE DEF u, m, n
  <2>2. DOMAIN u = 1 .. m + n
    BY <1>1
  <2> QED
    BY <2>1, <2>2 DEF ToSet
<1> HIDE DEF u, m, n
<1>3. ASSUME NEW x \in ToSet(u) PROVE x \in ToSet(s) \cup ToSet(t)
  <2>1. PICK i \in 1 .. m + n : x = u[i]
    BY <1>2
  <2>2. CASE i <= m
    BY <1>1, <1>2, <2>1, <2>2
  <2>3. CASE i > m
    <3>1. i - m \in 1 .. n /\ x = t[i - m]
      BY <1>1, <2>1, <2>3
    <3> QED
      BY <1>2, <3>1
  <2> QED
    BY <1>1, <2>1, <2>2, <2>3
<1>4. ASSUME NEW x \in ToSet(s) PROVE x \in ToSet(u)
  <2>1. PICK i \in 1 .. m : x = s[i]
    BY <1>2
  <2>2. i \in 1 .. m + n /\ x = u[i]
    BY <1>1, <2>1
  <2> QED
    BY <1>2, <2>2
<1>5. ASSUME NEW x \in ToSet(t) PROVE x \in ToSet(u)
  <2>1. PICK i \in 1 .. n : x = t[i]
    BY <1>2
  <2>2. m + i \in 1 .. m + n /\ m + i > m /\ (m + i) - m = i
    BY <1>1, <2>1
  <2>3. x = u[m + i]
    BY <1>1, <2>1, <2>2
  <2> QED
    BY <1>2, <2>2, <2>3
<1>6. ToSet(u) = ToSet(s) \cup ToSet(t)
  BY <1>3, <1>4, <1>5
<1> QED
  BY <1>1, <1>6 DEF u

\* The head is an element, and the tail has no others.
LEMMA ElementsOfTail ==
  ASSUME NEW S, NEW s \in Seq(S), s # <<>>
  PROVE  /\ Head(s) \in S /\ Head(s) \in ToSet(s)
         /\ Tail(s) \in Seq(S) /\ ToSet(Tail(s)) \subseteq ToSet(s)
<1> DEFINE t == Tail(s)
<1>1. /\ t \in Seq(S) /\ Len(t) = Len(s) - 1 /\ Len(s) \in Nat \ {0}
      /\ \A i \in 1 .. Len(s) - 1 : t[i] = s[i + 1]
      /\ Head(s) = s[1]
  OBVIOUS
<1> HIDE DEF t
<1>2. ToSet(t) = {t[i] : i \in 1 .. Len(s) - 1} /\ ToSet(s) = {s[i] : i \in 1 .. Len(s)}
  BY <1>1 DEF ToSet
<1>3. Head(s) \in S /\ Head(s) \in ToSet(s)
  <2>1. 1 \in 1 .. Len(s)
    BY <1>1
  <2> QED
    BY <1>1, <1>2, <2>1
<1>4. ASSUME NEW x \in ToSet(t) PROVE x \in ToSet(s)
  <2>1. PICK i \in 1 .. Len(s) - 1 : x = t[i]
    BY <1>2
  <2>2. i + 1 \in 1 .. Len(s) /\ x = s[i + 1]
    BY <1>1, <2>1
  <2> QED
    BY <1>2, <2>2
<1> QED
  BY <1>1, <1>3, <1>4 DEF t
\* A sequence over a set is one over every larger set.
LEMMA SequencesOver ==
  ASSUME NEW A, NEW B, A \subseteq B, NEW s \in Seq(A)
  PROVE  s \in Seq(B)
OBVIOUS

-----------------------------------------------------------------------------

\* The places of s that hold an element of S.
Places(s, S) == {j \in DOMAIN s : s[j] \in S}

\* The places of a sequence can be counted.
LEMMA PlacesAreFinite ==
  ASSUME NEW T, NEW s \in Seq(T), NEW S
  PROVE  IsFiniteSet(Places(s, S)) /\ Cardinality(Places(s, S)) \in Nat
<1>1. IsFiniteSet(1 .. Len(s))
  <2>1. 1 \in Int /\ Len(s) \in Int
    OBVIOUS
  <2> QED
    BY <2>1, FS_Interval
<1>2. Places(s, S) \in SUBSET (1 .. Len(s))
  BY DEF Places
<1>3. IsFiniteSet(Places(s, S))
  BY <1>1, <1>2, FS_Subset
<1> QED
  BY <1>3, FS_CardinalityType

\* The empty sequence has none.
LEMMA PlacesOfEmpty ==
  ASSUME NEW S
  PROVE  Cardinality(Places(<<>>, S)) = 0
<1>1. Places(<<>>, S) = {}
  BY DEF Places
<1> QED
  BY <1>1, FS_EmptySet

\* An element that is appended adds its place.
LEMMA PlacesOfAppend ==
  ASSUME NEW T, NEW s \in Seq(T), NEW e \in T, NEW S
  PROVE  Cardinality(Places(Append(s, e), S))
            = Cardinality(Places(s, S)) + IF e \in S THEN 1 ELSE 0
<1>1. PICK n, t : n = Len(s) /\ t = Append(s, e)
  OBVIOUS
<1>2. /\ n \in Nat /\ DOMAIN s = 1 .. n /\ DOMAIN t = 1 .. n + 1
      /\ t[n + 1] = e /\ \A j \in 1 .. n : t[j] = s[j]
  BY <1>1
<1>3. \A j : j \in 1 .. n + 1 <=> j \in 1 .. n \/ j = n + 1
  BY <1>2
<1>4. IsFiniteSet(Places(s, S)) /\ Cardinality(Places(s, S)) \in Nat
  BY PlacesAreFinite
<1>5. CASE e \in S
  <2>1. Places(t, S) = Places(s, S) \cup {n + 1}
    BY <1>2, <1>3, <1>5 DEF Places
  <2>2. n + 1 \notin Places(s, S)
    BY <1>2 DEF Places
  <2>3. Cardinality(Places(s, S) \cup {n + 1}) = Cardinality(Places(s, S)) + 1
    BY <1>4, <2>2, FS_AddElement
  <2> QED
    BY <1>1, <1>5, <2>1, <2>3
<1>6. CASE e \notin S
  <2>1. Places(t, S) = Places(s, S)
    BY <1>2, <1>3, <1>6 DEF Places
  <2> QED
    BY <1>1, <1>4, <1>6, <2>1
<1> QED
  BY <1>5, <1>6

\* The head that is taken off takes its place away.
LEMMA PlacesOfTail ==
  ASSUME NEW T, NEW s \in Seq(T), s # <<>>, NEW S
  PROVE  Cardinality(Places(s, S))
            = Cardinality(Places(Tail(s), S)) + IF Head(s) \in S THEN 1 ELSE 0
<1>1. PICK n, t : n = Len(s) /\ t = Tail(s)
  OBVIOUS
<1>2. /\ n \in Nat /\ DOMAIN s = 1 .. n /\ DOMAIN t = 1 .. n - 1
      /\ Head(s) = s[1] /\ 1 \in 1 .. n /\ \A j \in 1 .. n - 1 : t[j] = s[j + 1]
  BY <1>1
<1>3. t \in Seq(T)
  BY <1>1
<1>4. PICK V, W : V = Places(s, S) \ {1} /\ W = Places(t, S)
  OBVIOUS
<1>5. V = {j \in 2 .. n : s[j] \in S} /\ W = {j \in 1 .. n - 1 : s[j + 1] \in S}
  <2>1. \A j : j \in 2 .. n <=> j \in 1 .. n /\ j # 1
    BY <1>2
  <2> QED
    BY <1>2, <1>4, <2>1 DEF Places
<1>6. IsFiniteSet(W) /\ Cardinality(W) \in Nat
  BY <1>3, <1>4, PlacesAreFinite
<1>7. Cardinality(V) = Cardinality(W)
  <2> DEFINE f == [j \in W |-> j + 1]
  <2>1. f \in [W -> V] /\ \A j, k \in W : f[j] = f[k] => j = k
    BY <1>2, <1>5
  <2>2. ASSUME NEW k \in V PROVE \E j \in W : f[j] = k
    <3>1. k - 1 \in 1 .. n - 1 /\ (k - 1) + 1 = k
      BY <1>2, <1>5
    <3>2. k - 1 \in W
      BY <1>5, <3>1
    <3> QED
      BY <3>1, <3>2
  <2> HIDE DEF f
  <2>3. f \in Bijection(W, V)
    BY <2>1, <2>2 DEF Bijection, Injection, Surjection, IsInjective
  <2>4. ExistsBijection(W, V)
    BY <2>3 DEF ExistsBijection
  <2> QED
    BY <1>6, <2>4, FS_Bijection
<1>8. IsFiniteSet(Places(s, S)) /\ Cardinality(Places(s, S)) \in Nat
  BY PlacesAreFinite
<1>9. 1 \in Places(s, S) <=> Head(s) \in S
  BY <1>2 DEF Places
<1>10. Cardinality(V) = IF 1 \in Places(s, S) THEN Cardinality(Places(s, S)) - 1
                        ELSE Cardinality(Places(s, S))
  BY <1>4, <1>8, FS_RemoveElement
<1> QED
  BY <1>1, <1>4, <1>6, <1>7, <1>8, <1>9, <1>10
=============================================================================
