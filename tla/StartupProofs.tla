--------------------------- MODULE StartupProofs ---------------------------
(***************************************************************************)
(* The codec inverts itself for values nested to any depth, a torrent file *)
(* that is cut short is refused, and what main tells the parts of the      *)
(* program agrees.                                                         *)
(***************************************************************************)
EXTENDS Startup, SequenceLemmas, InductionLemmas, SequenceTheorems

-----------------------------------------------------------------------------
(* What the recursive functions of the codec compute, step by step.        *)

\* The states of a call that reads d, token by token.
Reads(c, d, g) ==
    g = [n \in 0 .. Len(d) |-> IF n = 0 THEN c ELSE Step(g[n - 1], d[n])]

\* The recursion in Run defines a function.
LEMMA RunExists ==
  ASSUME NEW c, NEW T, NEW d \in Seq(T)
  PROVE  \E g : Reads(c, d, g)
<1>0. Len(d) \in Nat
  OBVIOUS
<1> DEFINE V(n, g) == IF n = 0 THEN c ELSE Step(g[n - 1], d[n])
           Good(m, g) == g = [n \in 0 .. m |-> V(n, g)]
           S == {m \in 0 .. Len(d) : \E g : Good(m, g)}
<1>1. 0 \in S
  <2> DEFINE z == [n \in 0 .. 0 |-> c]
  <2>1. Good(0, z)
    OBVIOUS
  <2>2. \E g : Good(0, g)
    BY <2>1, Zenon
  <2> QED
    BY <1>0, <2>2
<1>2. ASSUME NEW m \in 0 .. Len(d) - 1, m \in S PROVE m + 1 \in S
  <2>0. m \in Nat
    BY <1>0
  <2>1. PICK g : Good(m, g)
    BY <1>2
  <2> DEFINE h == [n \in 0 .. m + 1 |-> IF n <= m THEN g[n] ELSE Step(g[m], d[m + 1])]
  <2>2. \A n \in 0 .. m : h[n] = g[n]
    BY <2>0
  <2>3. h[m + 1] = Step(g[m], d[m + 1])
    BY <2>0
  <2>4. h = [n \in 0 .. m + 1 |-> h[n]]
    OBVIOUS
  <2>5. ASSUME NEW n \in 0 .. m + 1 PROVE h[n] = V(n, h)
    <3> HIDE DEF h
    <3>1. CASE n \in 0 .. m
      <4>1. g[n] = V(n, g)
        BY <2>1, <3>1
      <4>2. n # 0 => n - 1 \in 0 .. m
        BY <2>0, <3>1
      <4> QED
        BY <2>2, <3>1, <4>1, <4>2
    <3>2. CASE n = m + 1
      <4>1. n # 0 /\ n - 1 = m /\ m \in 0 .. m
        BY <2>0, <3>2
      <4> QED
        BY <2>2, <2>3, <3>2, <4>1
    <3> QED
      BY <2>0, <3>1, <3>2
  <2> HIDE DEF h
  <2>6. Good(m + 1, h)
    BY <2>4, <2>5
  <2>7. \E f : Good(m + 1, f)
    BY <2>6, Zenon
  <2> QED
    BY <1>0, <2>7
<1>3. 0 .. Len(d) \subseteq S
  <2> HIDE DEF S
  <2> QED
    BY <1>0, <1>1, <1>2, InductionUpTo
<1> QED
  BY <1>0, <1>3 DEF Reads

\* A call that reads nothing, and one that reads a token after others.
LEMMA RunFacts ==
  ASSUME NEW c, NEW T, NEW d \in Seq(T), NEW b \in T
  PROVE  /\ Run(c, <<>>) = c
         /\ Run(c, Append(d, b)) = Step(Run(c, d), b)
<1> DEFINE G(e) == CHOOSE g : Reads(c, e, g)
<1>1. ASSUME NEW e \in Seq(T) PROVE Reads(c, e, G(e)) /\ Run(c, e) = G(e)[Len(e)]
  <2>1. \E g : Reads(c, e, g)
    BY RunExists, Zenon
  <2>2. Reads(c, e, G(e))
    BY <2>1, Zenon
  <2>3. Run(c, e) = G(e)[Len(e)]
    BY Zenon DEF Run, Reads
  <2> QED
    BY <2>2, <2>3
<1>2. PICK e : e = Append(d, b)
  OBVIOUS
<1>3. e \in Seq(T) /\ Len(e) = Len(d) + 1 /\ Len(d) \in Nat /\ e[Len(d) + 1] = b
      /\ \A i \in 1 .. Len(d) : e[i] = d[i]
  BY <1>2
<1> HIDE DEF G
<1>4. PICK g : g = G(d) /\ Reads(c, d, g)
  BY <1>1, Zenon
<1>5. PICK h : h = G(e) /\ Reads(c, e, h)
  BY <1>1, <1>3, Zenon
<1>6. \A n \in 0 .. Len(d) : g[n] = IF n = 0 THEN c ELSE Step(g[n - 1], d[n])
  BY <1>4 DEF Reads
<1>7. \A n \in 0 .. Len(d) + 1 : h[n] = IF n = 0 THEN c ELSE Step(h[n - 1], e[n])
  BY <1>3, <1>5 DEF Reads
<1> DEFINE S == {n \in 0 .. Len(d) : h[n] = g[n]}
<1>8. 0 \in S
  BY <1>3, <1>6, <1>7
<1>9. ASSUME NEW n \in 0 .. Len(d) - 1, n \in S PROVE n + 1 \in S
  <2>1. n + 1 \in 0 .. Len(d) /\ n + 1 \in 0 .. Len(d) + 1 /\ n + 1 \in 1 .. Len(d)
        /\ n + 1 # 0 /\ (n + 1) - 1 = n
    BY <1>3
  <2>2. h[n + 1] = Step(h[n], e[n + 1]) /\ g[n + 1] = Step(g[n], d[n + 1])
    BY <1>6, <1>7, <2>1
  <2> QED
    BY <1>3, <1>9, <2>1, <2>2
<1>10. 0 .. Len(d) \subseteq S
  <2> HIDE DEF S
  <2> QED
    BY <1>3, <1>8, <1>9, InductionUpTo
<1>11. h[Len(d)] = g[Len(d)]
  BY <1>3, <1>10
<1>12. h[Len(d) + 1] = Step(h[Len(d)], b)
  <2>1. Len(d) + 1 \in 0 .. Len(d) + 1 /\ Len(d) + 1 # 0 /\ (Len(d) + 1) - 1 = Len(d)
    BY <1>3
  <2> QED
    BY <1>3, <1>7, <2>1
<1>13. Run(c, e) = h[Len(d) + 1] /\ Run(c, d) = g[Len(d)]
  BY <1>1, <1>3, <1>4, <1>5
<1>14. Run(c, <<>>) = c
  <2>1. <<>> \in Seq(T) /\ Len(<<>>) = 0
    OBVIOUS
  <2>2. PICK z : z = G(<<>>) /\ Reads(c, <<>>, z)
    BY <1>1, <2>1, Zenon
  <2>3. z[0] = c
    BY <2>1, <2>2 DEF Reads
  <2>4. Run(c, <<>>) = z[0]
    BY <1>1, <2>1, <2>2
  <2> QED
    BY <2>3, <2>4
<1> QED
  BY <1>2, <1>11, <1>12, <1>13, <1>14

\* Two sequences put together.
Join(a, b) == a \o b

\* The first n of the sequences of d put together.
Joins(d, g) ==
    g = [n \in 0 .. Len(d) |-> IF n = 0 THEN <<>> ELSE Join(g[n - 1], d[n])]

\* The recursion in Concat defines a function.
LEMMA ConcatExists ==
  ASSUME NEW T, NEW d \in Seq(T)
  PROVE  \E g : Joins(d, g)
<1>0. Len(d) \in Nat
  OBVIOUS
<1> DEFINE V(n, g) == IF n = 0 THEN <<>> ELSE Join(g[n - 1], d[n])
           Good(m, g) == g = [n \in 0 .. m |-> V(n, g)]
           S == {m \in 0 .. Len(d) : \E g : Good(m, g)}
<1>1. 0 \in S
  <2> DEFINE z == [n \in 0 .. 0 |-> <<>>]
  <2>1. Good(0, z)
    OBVIOUS
  <2>2. \E g : Good(0, g)
    BY <2>1, Zenon
  <2> QED
    BY <1>0, <2>2
<1>2. ASSUME NEW m \in 0 .. Len(d) - 1, m \in S PROVE m + 1 \in S
  <2>0. m \in Nat
    BY <1>0
  <2>1. PICK g : Good(m, g)
    BY <1>2
  <2> DEFINE h == [n \in 0 .. m + 1 |-> IF n <= m THEN g[n] ELSE Join(g[m], d[m + 1])]
  <2>2. \A n \in 0 .. m : h[n] = g[n]
    BY <2>0
  <2>3. h[m + 1] = Join(g[m], d[m + 1])
    BY <2>0
  <2>4. h = [n \in 0 .. m + 1 |-> h[n]]
    OBVIOUS
  <2>5. ASSUME NEW n \in 0 .. m + 1 PROVE h[n] = V(n, h)
    <3> HIDE DEF h
    <3>1. CASE n \in 0 .. m
      <4>1. g[n] = V(n, g)
        BY <2>1, <3>1
      <4>2. n # 0 => n - 1 \in 0 .. m
        BY <2>0, <3>1
      <4> QED
        BY <2>2, <3>1, <4>1, <4>2
    <3>2. CASE n = m + 1
      <4>1. n # 0 /\ n - 1 = m /\ m \in 0 .. m
        BY <2>0, <3>2
      <4> QED
        BY <2>2, <2>3, <3>2, <4>1
    <3> QED
      BY <2>0, <3>1, <3>2
  <2> HIDE DEF h
  <2>6. Good(m + 1, h)
    BY <2>4, <2>5
  <2>7. \E f : Good(m + 1, f)
    BY <2>6, Zenon
  <2> QED
    BY <1>0, <2>7
<1>3. 0 .. Len(d) \subseteq S
  <2> HIDE DEF S
  <2> QED
    BY <1>0, <1>1, <1>2, InductionUpTo
<1> QED
  BY <1>0, <1>3 DEF Joins

\* The parts of a concatenation one by one.
LEMMA ConcatFacts ==
  ASSUME NEW T, NEW d \in Seq(T), NEW b \in T
  PROVE  /\ Concat(<<>>) = <<>>
         /\ Concat(Append(d, b)) = Concat(d) \o b
<1> DEFINE G(e) == CHOOSE g : Joins(e, g)
<1>1. ASSUME NEW e \in Seq(T) PROVE Joins(e, G(e)) /\ Concat(e) = G(e)[Len(e)]
  <2>1. \E g : Joins(e, g)
    BY ConcatExists, Zenon
  <2>2. Joins(e, G(e))
    BY <2>1, Zenon
  <2>3. Concat(e) = G(e)[Len(e)]
    BY Zenon DEF Concat, Joins, Join
  <2> QED
    BY <2>2, <2>3
<1>2. PICK e : e = Append(d, b)
  OBVIOUS
<1>3. e \in Seq(T) /\ Len(e) = Len(d) + 1 /\ Len(d) \in Nat /\ e[Len(d) + 1] = b
      /\ \A i \in 1 .. Len(d) : e[i] = d[i]
  BY <1>2
<1> HIDE DEF G
<1>4. PICK g : g = G(d) /\ Joins(d, g)
  BY <1>1, Zenon
<1>5. PICK h : h = G(e) /\ Joins(e, h)
  BY <1>1, <1>3, Zenon
<1>6. \A n \in 0 .. Len(d) : g[n] = IF n = 0 THEN <<>> ELSE Join(g[n - 1], d[n])
  BY <1>4 DEF Joins
<1>7. \A n \in 0 .. Len(d) + 1 : h[n] = IF n = 0 THEN <<>> ELSE Join(h[n - 1], e[n])
  BY <1>3, <1>5 DEF Joins
<1> DEFINE S == {n \in 0 .. Len(d) : h[n] = g[n]}
<1>8. 0 \in S
  BY <1>3, <1>6, <1>7
<1>9. ASSUME NEW n \in 0 .. Len(d) - 1, n \in S PROVE n + 1 \in S
  <2>1. n + 1 \in 0 .. Len(d) /\ n + 1 \in 0 .. Len(d) + 1 /\ n + 1 \in 1 .. Len(d)
        /\ n + 1 # 0 /\ (n + 1) - 1 = n
    BY <1>3
  <2>2. h[n + 1] = Join(h[n], e[n + 1]) /\ g[n + 1] = Join(g[n], d[n + 1])
    BY <1>6, <1>7, <2>1
  <2> QED
    BY <1>3, <1>9, <2>1, <2>2
<1>10. 0 .. Len(d) \subseteq S
  <2> HIDE DEF S
  <2> QED
    BY <1>3, <1>8, <1>9, InductionUpTo
<1>11. h[Len(d)] = g[Len(d)]
  BY <1>3, <1>10
<1>12. h[Len(d) + 1] = Join(h[Len(d)], b)
  <2>1. Len(d) + 1 \in 0 .. Len(d) + 1 /\ Len(d) + 1 # 0 /\ (Len(d) + 1) - 1 = Len(d)
    BY <1>3
  <2> QED
    BY <1>3, <1>7, <2>1
<1>13. Concat(e) = h[Len(d) + 1] /\ Concat(d) = g[Len(d)]
  BY <1>1, <1>3, <1>4, <1>5
<1>14. Concat(<<>>) = <<>>
  <2>1. <<>> \in Seq(T) /\ Len(<<>>) = 0
    OBVIOUS
  <2>2. PICK z : z = G(<<>>) /\ Joins(<<>>, z)
    BY <1>1, <2>1, Zenon
  <2>3. z[0] = <<>>
    BY <2>1, <2>2 DEF Joins
  <2>4. Concat(<<>>) = z[0]
    BY <1>1, <2>1, <2>2
  <2> QED
    BY <2>3, <2>4
<1> QED
  BY <1>2, <1>11, <1>12, <1>13, <1>14 DEF Join

\* The sums of the first n numbers of d.
Sums(d, g) ==
    g = [n \in 0 .. Len(d) |-> IF n = 0 THEN 0 ELSE g[n - 1] + d[n]]

\* The recursion in SumOf defines a function.
LEMMA SumExists ==
  ASSUME NEW d \in Seq(Int)
  PROVE  \E g : Sums(d, g)
<1>0. Len(d) \in Nat
  OBVIOUS
<1> DEFINE V(n, g) == IF n = 0 THEN 0 ELSE g[n - 1] + d[n]
           Good(m, g) == g = [n \in 0 .. m |-> V(n, g)]
           S == {m \in 0 .. Len(d) : \E g : Good(m, g)}
<1>1. 0 \in S
  <2> DEFINE z == [n \in 0 .. 0 |-> 0]
  <2>1. Good(0, z)
    OBVIOUS
  <2>2. \E g : Good(0, g)
    BY <2>1, Zenon
  <2> QED
    BY <1>0, <2>2
<1>2. ASSUME NEW m \in 0 .. Len(d) - 1, m \in S PROVE m + 1 \in S
  <2>0. m \in Nat
    BY <1>0
  <2>1. PICK g : Good(m, g)
    BY <1>2
  <2> DEFINE h == [n \in 0 .. m + 1 |-> IF n <= m THEN g[n] ELSE g[m] + d[m + 1]]
  <2>2. \A n \in 0 .. m : h[n] = g[n]
    BY <2>0
  <2>3. h[m + 1] = g[m] + d[m + 1]
    BY <2>0
  <2>4. h = [n \in 0 .. m + 1 |-> h[n]]
    OBVIOUS
  <2>5. ASSUME NEW n \in 0 .. m + 1 PROVE h[n] = V(n, h)
    <3> HIDE DEF h
    <3>1. CASE n \in 0 .. m
      <4>1. g[n] = V(n, g)
        BY <2>1, <3>1
      <4>2. n # 0 => n - 1 \in 0 .. m
        BY <2>0, <3>1
      <4> QED
        BY <2>2, <3>1, <4>1, <4>2
    <3>2. CASE n = m + 1
      <4>1. n # 0 /\ n - 1 = m /\ m \in 0 .. m
        BY <2>0, <3>2
      <4> QED
        BY <2>2, <2>3, <3>2, <4>1
    <3> QED
      BY <2>0, <3>1, <3>2
  <2> HIDE DEF h
  <2>6. Good(m + 1, h)
    BY <2>4, <2>5
  <2>7. \E f : Good(m + 1, f)
    BY <2>6, Zenon
  <2> QED
    BY <1>0, <2>7
<1>3. 0 .. Len(d) \subseteq S
  <2> HIDE DEF S
  <2> QED
    BY <1>0, <1>1, <1>2, InductionUpTo
<1> QED
  BY <1>0, <1>3 DEF Sums

\* A sum number by number.
LEMMA SumFacts ==
  ASSUME NEW d \in Seq(Int), NEW b \in Int
  PROVE  /\ SumOf(<<>>) = 0
         /\ SumOf(Append(d, b)) = SumOf(d) + b
<1> DEFINE G(e) == CHOOSE g : Sums(e, g)
<1>1. ASSUME NEW e \in Seq(Int) PROVE Sums(e, G(e)) /\ SumOf(e) = G(e)[Len(e)]
  <2>1. \E g : Sums(e, g)
    BY SumExists, Zenon
  <2>2. Sums(e, G(e))
    BY <2>1, Zenon
  <2>3. SumOf(e) = G(e)[Len(e)]
    BY Zenon DEF SumOf, Sums
  <2> QED
    BY <2>2, <2>3
<1>2. PICK e : e = Append(d, b)
  OBVIOUS
<1>3. e \in Seq(Int) /\ Len(e) = Len(d) + 1 /\ Len(d) \in Nat /\ e[Len(d) + 1] = b
      /\ \A i \in 1 .. Len(d) : e[i] = d[i]
  BY <1>2
<1> HIDE DEF G
<1>4. PICK g : g = G(d) /\ Sums(d, g)
  BY <1>1, Zenon
<1>5. PICK h : h = G(e) /\ Sums(e, h)
  BY <1>1, <1>3, Zenon
<1>6. \A n \in 0 .. Len(d) : g[n] = IF n = 0 THEN 0 ELSE g[n - 1] + d[n]
  BY <1>4 DEF Sums
<1>7. \A n \in 0 .. Len(d) + 1 : h[n] = IF n = 0 THEN 0 ELSE h[n - 1] + e[n]
  BY <1>3, <1>5 DEF Sums
<1> DEFINE S == {n \in 0 .. Len(d) : h[n] = g[n]}
<1>8. 0 \in S
  BY <1>3, <1>6, <1>7
<1>9. ASSUME NEW n \in 0 .. Len(d) - 1, n \in S PROVE n + 1 \in S
  <2>1. n + 1 \in 0 .. Len(d) /\ n + 1 \in 0 .. Len(d) + 1 /\ n + 1 \in 1 .. Len(d)
        /\ n + 1 # 0 /\ (n + 1) - 1 = n
    BY <1>3
  <2>2. h[n + 1] = h[n] + e[n + 1] /\ g[n + 1] = g[n] + d[n + 1]
    BY <1>6, <1>7, <2>1
  <2> QED
    BY <1>3, <1>9, <2>1, <2>2
<1>10. 0 .. Len(d) \subseteq S
  <2> HIDE DEF S
  <2> QED
    BY <1>3, <1>8, <1>9, InductionUpTo
<1>11. h[Len(d)] = g[Len(d)]
  BY <1>3, <1>10
<1>12. h[Len(d) + 1] = h[Len(d)] + b
  <2>1. Len(d) + 1 \in 0 .. Len(d) + 1 /\ Len(d) + 1 # 0 /\ (Len(d) + 1) - 1 = Len(d)
    BY <1>3
  <2> QED
    BY <1>3, <1>7, <2>1
<1>13. SumOf(e) = h[Len(d) + 1] /\ SumOf(d) = g[Len(d)]
  BY <1>1, <1>3, <1>4, <1>5
<1>14. SumOf(<<>>) = 0
  <2>1. <<>> \in Seq(Int) /\ Len(<<>>) = 0
    OBVIOUS
  <2>2. PICK z : z = G(<<>>) /\ Sums(<<>>, z)
    BY <1>1, <2>1, Zenon
  <2>3. z[0] = 0
    BY <2>1, <2>2 DEF Sums
  <2>4. SumOf(<<>>) = z[0]
    BY <1>1, <2>1, <2>2
  <2> QED
    BY <2>3, <2>4
<1> QED
  BY <1>2, <1>11, <1>12, <1>13, <1>14

\* Reading one token.
LEMMA RunOne ==
  ASSUME NEW c, NEW b
  PROVE  Run(c, <<b>>) = Step(c, b) /\ Run(c, <<>>) = c
<1>1. PICK T, e : T = {b} /\ e = <<>>
  OBVIOUS
<1>2. e \in Seq(T) /\ b \in T /\ Append(e, b) = <<b>>
  BY <1>1
<1>3. Run(c, <<>>) = c /\ Run(c, Append(e, b)) = Step(Run(c, e), b)
  <2>1. \A d \in Seq(T) : Run(c, Append(d, b)) = Step(Run(c, d), b)
    BY <1>2, RunFacts
  <2>2. Run(c, <<>>) = c
    BY <1>2, RunFacts
  <2> QED
    BY <1>2, <2>1, <2>2
<1> QED
  BY <1>1, <1>2, <1>3, Zenon

\* Reading two sequences of tokens is reading one and then the other.
LEMMA RunConcat ==
  ASSUME NEW T, NEW c, NEW a \in Seq(T), NEW b \in Seq(T)
  PROVE  Run(c, a \o b) = Run(Run(c, a), b)
<1> DEFINE S == {n \in 0 .. Len(b) : Run(c, a \o SubSeq(b, 1, n)) = Run(Run(c, a), SubSeq(b, 1, n))}
<1>0. Len(b) \in Nat
  OBVIOUS
<1>1. 0 \in S
  <2>1. SubSeq(b, 1, 0) = <<>>
    BY SubSeqEmpty
  <2>2. a \o <<>> = a
    BY ConcatEmptySeq
  <2>3. Run(Run(c, a), <<>>) = Run(c, a)
    BY RunOne
  <2>4. Run(c, a \o SubSeq(b, 1, 0)) = Run(Run(c, a), SubSeq(b, 1, 0))
    BY <2>1, <2>2, <2>3, Zenon
  <2> QED
    BY <1>0, <2>4
<1>2. ASSUME NEW n \in 0 .. Len(b) - 1, n \in S PROVE n + 1 \in S
  <2>1. n + 1 \in 1 .. Len(b) /\ (n + 1) - 1 = n /\ b[n + 1] \in T /\ n + 1 \in 0 .. Len(b)
    BY <1>0
  <2>2. PICK p : p = SubSeq(b, 1, n)
    OBVIOUS
  <2>3. p \in Seq(T)
    <3>1. \A i \in 1 .. n : b[i] \in T
      BY <1>0
    <3> QED
      BY <1>0, <2>2, <3>1, SubSeqProperties
  <2>4. SubSeq(b, 1, n + 1) = p \o <<b[n + 1]>>
    <3>1. 1 \in 1 .. Len(b) /\ n + 1 \in 1 .. Len(b)
      BY <1>0, <2>1
    <3> QED
      BY <2>1, <2>2, <3>1, SubSeqRecursiveSecond
  <2>5. SubSeq(b, 1, n + 1) = Append(p, b[n + 1])
    BY <2>1, <2>3, <2>4, AppendIsConcat
  <2>6. PICK q : q = a \o p
    OBVIOUS
  <2>7. q \in Seq(T)
    BY <2>3, <2>6
  <2>8. a \o Append(p, b[n + 1]) = Append(q, b[n + 1])
    <3>1. PICK u : u = <<b[n + 1]>>
      OBVIOUS
    <3>2. u \in Seq(T)
      BY <2>1, <3>1
    <3>3. (a \o p) \o u = a \o (p \o u)
      BY <2>3, <3>2, ConcatAssociative
    <3>4. q \o <<b[n + 1]>> = a \o (p \o <<b[n + 1]>>)
      BY <2>6, <3>1, <3>3, Zenon
    <3>5. Append(q, b[n + 1]) = q \o <<b[n + 1]>>
      BY <2>1, <2>7, AppendIsConcat
    <3>6. Append(p, b[n + 1]) = p \o <<b[n + 1]>>
      BY <2>4, <2>5
    <3> QED
      BY <3>4, <3>5, <3>6, Zenon
  <2>9. Run(c, q) = Run(Run(c, a), p)
    BY <1>2, <2>2, <2>6
  <2>10. Run(c, Append(q, b[n + 1])) = Step(Run(c, q), b[n + 1])
    BY <2>1, <2>7, RunFacts
  <2>11. Run(Run(c, a), Append(p, b[n + 1])) = Step(Run(Run(c, a), p), b[n + 1])
    BY <2>1, <2>3, RunFacts
  <2> QED
    BY <2>1, <2>5, <2>8, <2>9, <2>10, <2>11
<1>3. 0 .. Len(b) \subseteq S
  <2> HIDE DEF S
  <2> QED
    BY <1>0, <1>1, <1>2, InductionUpTo
<1>4. SubSeq(b, 1, Len(b)) = b
  BY SubSeqFull
<1>5. Len(b) \in S
  BY <1>0, <1>3
<1>6. Run(c, a \o SubSeq(b, 1, Len(b))) = Run(Run(c, a), SubSeq(b, 1, Len(b)))
  BY <1>5
<1> QED
  BY <1>4, <1>6, Zenon

-----------------------------------------------------------------------------
(* Values.                                                                 *)

\* The recursive definition of ValuesTo defines a function.
LEMMA ValuesExist ==
  \E g : g = [n \in 0 .. MaxDepth |-> IF n = 0 THEN Plain ELSE Plain \cup Nested(g[n - 1])]
<1>0. MaxDepth \in Nat
  BY BencodeAssumption
<1> DEFINE V(n, g) == IF n = 0 THEN Plain ELSE Plain \cup Nested(g[n - 1])
           Good(m, g) == g = [n \in 0 .. m |-> V(n, g)]
           S == {m \in 0 .. MaxDepth : \E g : Good(m, g)}
<1>1. 0 \in S
  <2> DEFINE z == [n \in 0 .. 0 |-> Plain]
  <2>1. Good(0, z)
    OBVIOUS
  <2>2. \E g : Good(0, g)
    BY <2>1, Zenon
  <2> QED
    BY <1>0, <2>2
<1>2. ASSUME NEW m \in 0 .. MaxDepth - 1, m \in S PROVE m + 1 \in S
  <2>0. m \in Nat
    BY <1>0
  <2>1. PICK g : Good(m, g)
    BY <1>2
  <2> DEFINE h == [n \in 0 .. m + 1 |-> IF n <= m THEN g[n] ELSE Plain \cup Nested(g[m])]
  <2>2. \A n \in 0 .. m : h[n] = g[n]
    BY <2>0
  <2>3. h[m + 1] = Plain \cup Nested(g[m])
    BY <2>0
  <2>4. h = [n \in 0 .. m + 1 |-> h[n]]
    OBVIOUS
  <2>5. ASSUME NEW n \in 0 .. m + 1 PROVE h[n] = V(n, h)
    <3> HIDE DEF h
    <3>1. CASE n \in 0 .. m
      <4>1. g[n] = V(n, g)
        BY <2>1, <3>1
      <4>2. n # 0 => n - 1 \in 0 .. m
        BY <2>0, <3>1
      <4> QED
        BY <2>2, <3>1, <4>1, <4>2
    <3>2. CASE n = m + 1
      <4>1. n # 0 /\ n - 1 = m /\ m \in 0 .. m
        BY <2>0, <3>2
      <4> QED
        BY <2>2, <2>3, <3>2, <4>1
    <3> QED
      BY <2>0, <3>1, <3>2
  <2> HIDE DEF h
  <2>6. Good(m + 1, h)
    BY <2>4, <2>5
  <2>7. \E f : Good(m + 1, f)
    BY <2>6, Zenon
  <2> QED
    BY <1>0, <2>7
<1>3. 0 .. MaxDepth \subseteq S
  <2> HIDE DEF S
  <2> QED
    BY <1>0, <1>1, <1>2, InductionUpTo
<1> QED
  BY <1>0, <1>3

\* What the values of each depth are.
LEMMA ValuesEquation ==
  /\ MaxDepth \in Nat /\ 0 \in 0 .. MaxDepth /\ MaxDepth \in 0 .. MaxDepth
  /\ ValuesTo[0] = Plain
  /\ \A n \in 0 .. MaxDepth - 1 : ValuesTo[n + 1] = Plain \cup Nested(ValuesTo[n])
<1>0. MaxDepth \in Nat
  BY BencodeAssumption
<1> DEFINE g == ValuesTo
<1>1. g = [n \in 0 .. MaxDepth |-> IF n = 0 THEN Plain ELSE Plain \cup Nested(g[n - 1])]
  BY ValuesExist DEF ValuesTo
<1> HIDE DEF g
<1>2. g[0] = Plain
  BY <1>0, <1>1
<1>3. ASSUME NEW n \in 0 .. MaxDepth - 1 PROVE g[n + 1] = Plain \cup Nested(g[n])
  <2>1. n + 1 \in 0 .. MaxDepth /\ n + 1 # 0 /\ (n + 1) - 1 = n
    BY <1>0
  <2> QED
    BY <1>1, <2>1
<1> QED
  BY <1>0, <1>2, <1>3 DEF g

-----------------------------------------------------------------------------
(* Encoding.                                                               *)

\* The encodings of the values of depth n, given those of the values in them.
Level(n, x) == [v \in ValuesTo[n] |-> EncodeLevel(v, x)]

\* The recursive definition of encode defines a function.
LEMMA EncodeExists ==
  \E g : g = [n \in 0 .. MaxDepth |-> Level(n, IF n = 0 THEN <<>> ELSE g[n - 1])]
<1>0. MaxDepth \in Nat
  BY BencodeAssumption
<1> DEFINE V(n, g) == Level(n, IF n = 0 THEN <<>> ELSE g[n - 1])
           Good(m, g) == g = [n \in 0 .. m |-> V(n, g)]
           S == {m \in 0 .. MaxDepth : \E g : Good(m, g)}
<1>1. 0 \in S
  <2> DEFINE z == [n \in 0 .. 0 |-> Level(0, <<>>)]
  <2>1. Good(0, z)
    OBVIOUS
  <2>2. \E g : Good(0, g)
    BY <2>1, Zenon
  <2> QED
    BY <1>0, <2>2
<1>2. ASSUME NEW m \in 0 .. MaxDepth - 1, m \in S PROVE m + 1 \in S
  <2>0. m \in Nat
    BY <1>0
  <2>1. PICK g : Good(m, g)
    BY <1>2
  <2> DEFINE h == [n \in 0 .. m + 1 |-> IF n <= m THEN g[n] ELSE Level(m + 1, g[m])]
  <2>2. \A n \in 0 .. m : h[n] = g[n]
    BY <2>0
  <2>3. h[m + 1] = Level(m + 1, g[m])
    BY <2>0
  <2>4. h = [n \in 0 .. m + 1 |-> h[n]]
    OBVIOUS
  <2>5. ASSUME NEW n \in 0 .. m + 1 PROVE h[n] = V(n, h)
    <3> HIDE DEF h
    <3>1. CASE n \in 0 .. m
      <4>1. g[n] = V(n, g)
        BY <2>1, <3>1
      <4>2. n # 0 => n - 1 \in 0 .. m
        BY <2>0, <3>1
      <4> QED
        BY <2>2, <3>1, <4>1, <4>2
    <3>2. CASE n = m + 1
      <4>1. n # 0 /\ n - 1 = m /\ m \in 0 .. m
        BY <2>0, <3>2
      <4> QED
        BY <2>2, <2>3, <3>2, <4>1
    <3> QED
      BY <2>0, <3>1, <3>2
  <2> HIDE DEF h
  <2>6. Good(m + 1, h)
    BY <2>4, <2>5
  <2>7. \E f : Good(m + 1, f)
    BY <2>6, Zenon
  <2> QED
    BY <1>0, <2>7
<1>3. 0 .. MaxDepth \subseteq S
  <2> HIDE DEF S
  <2> QED
    BY <1>0, <1>1, <1>2, InductionUpTo
<1> QED
  BY <1>0, <1>3

\* How the values of each depth are encoded.
LEMMA EncodeEquation ==
  /\ \A v \in ValuesTo[0] : encode[0][v] = EncodeLevel(v, <<>>)
  /\ \A n \in 0 .. MaxDepth - 1 : \A v \in ValuesTo[n + 1] :
        encode[n + 1][v] = EncodeLevel(v, encode[n])
<1>0. MaxDepth \in Nat
  BY BencodeAssumption
<1> DEFINE g == encode
<1>1. g = [n \in 0 .. MaxDepth |-> Level(n, IF n = 0 THEN <<>> ELSE g[n - 1])]
  BY EncodeExists DEF encode, Level
<1> HIDE DEF g
<1>2. g[0] = Level(0, <<>>)
  BY <1>0, <1>1
<1>3. ASSUME NEW n \in 0 .. MaxDepth - 1 PROVE g[n + 1] = Level(n + 1, g[n])
  <2>1. n + 1 \in 0 .. MaxDepth /\ n + 1 # 0 /\ (n + 1) - 1 = n
    BY <1>0
  <2> QED
    BY <1>1, <2>1
<1>4. \A v \in ValuesTo[0] : g[0][v] = EncodeLevel(v, <<>>)
  BY <1>2 DEF Level
<1>5. \A n \in 0 .. MaxDepth - 1 : \A v \in ValuesTo[n + 1] : g[n + 1][v] = EncodeLevel(v, g[n])
  BY <1>3 DEF Level
<1> QED
  BY <1>4, <1>5 DEF g

-----------------------------------------------------------------------------
(* Reading.                                                                *)

\* The calls that read a token.
Reading == {"top", "list", "dict"}

\* The tokens of an encoding.
Tokens == ({"i"} \X Int) \cup ({"s"} \X (Strings \cup STRING)) \cup {<<"l">>, <<"d">>, <<"e">>}

\* A call is what it was made of.
LEMMA CallFields ==
  ASSUME NEW kind, NEW value, NEW key, NEW caller
  PROVE  /\ Call(kind, value, key, caller).kind = kind
         /\ Call(kind, value, key, caller).value = value
         /\ Call(kind, value, key, caller).key = key
         /\ Call(kind, value, key, caller).caller = caller
BY DEF Call

\* A list appends the value that it is given.
LEMMA GiveToList ==
  ASSUME NEW x, NEW v, NEW c
  PROVE  Give(Call("list", x, Absent, c), v) = Call("list", Append(x, v), Absent, c)
BY CallFields DEF Give

\* A dictionary takes a string for a key ...
LEMMA GiveKey ==
  ASSUME NEW x, NEW k, NEW c
  PROVE  Give(Call("dict", x, Absent, c), <<"str", k>>) = Call("dict", x, <<"str", k>>, c)
BY CallFields DEF Give

\* d with the value v for the key k.
WithEntry(d, k, v) == [d EXCEPT ![k] = v]

\* ... and then a value for it.
LEMMA GiveEntry ==
  ASSUME NEW x, NEW v, NEW k, NEW c
  PROVE  Give(Call("dict", x, <<"str", k>>, c), v) = Call("dict", WithEntry(x, k, v), Absent, c)
<1>1. <<"str", k>> # Absent /\ <<"str", k>>[2] = k
  BY DEF Absent
<1> QED
  BY <1>1, CallFields DEF Give, WithEntry

\* What each token does to a call that reads it.
LEMMA StepFacts ==
  ASSUME NEW x, NEW n, NEW c, c.kind \in Reading
  PROVE  /\ Step(c, <<"i", n>>) = Give(c, <<"int", n>>)
         /\ Step(c, <<"s", n>>) = Give(c, <<"str", n>>)
         /\ Step(c, <<"l">>) = Call("list", <<>>, Absent, c)
         /\ Step(c, <<"d">>) = Call("dict", NoEntries, Absent, c)
         /\ Step(Call("list", x, Absent, c), <<"e">>) = Give(c, <<"list", x>>)
         /\ Step(Call("dict", x, Absent, c), <<"e">>) = Give(c, <<"dict", x>>)
<1>1. \A b : Step(c, b) = Read(c, b)
  BY DEF Step, Reading
<1>2. \A b : /\ Step(Call("list", x, Absent, c), b) = Read(Call("list", x, Absent, c), b)
             /\ Step(Call("dict", x, Absent, c), b) = Read(Call("dict", x, Absent, c), b)
  BY CallFields DEF Step
<1>3. Read(c, <<"i", n>>) = Give(c, <<"int", n>>)
  BY DEF Read
<1>4. Read(c, <<"s", n>>) = Give(c, <<"str", n>>)
  BY DEF Read
<1>5. Read(c, <<"l">>) = Call("list", <<>>, Absent, c)
  BY DEF Read
<1>6. Read(c, <<"d">>) = Call("dict", NoEntries, Absent, c)
  BY DEF Read
<1>7. Read(Call("list", x, Absent, c), <<"e">>) = Give(c, <<"list", x>>)
  BY CallFields DEF Read
<1>8. Read(Call("dict", x, Absent, c), <<"e">>) = Give(c, <<"dict", x>>)
  BY CallFields DEF Read
<1> QED
  BY <1>1, <1>2, <1>3, <1>4, <1>5, <1>6, <1>7, <1>8

\* The tokens e of a value v are read as v by every call that asks for a
\* value.
ReadsAs(e, v) ==
    /\ e \in Seq(Tokens)
    /\ \A c : c.kind \in Reading => Run(c, e) = Give(c, v)

\* Integers and strings are read back.
LEMMA PlainReadBack ==
  ASSUME NEW v \in Plain, NEW inner
  PROVE  ReadsAs(EncodeLevel(v, inner), v)
<1>1. CASE v \in {"int"} \X Int
  <2>1. PICK n \in Int : v = <<"int", n>>
    BY <1>1
  <2>2. EncodeLevel(v, inner) = <<<<"i", n>>>>
    BY <2>1 DEF EncodeLevel
  <2>3. <<"i", n>> \in Tokens
    BY DEF Tokens
  <2>4. <<<<"i", n>>>> \in Seq(Tokens)
    BY <2>3
  <2>5. ASSUME NEW c, c.kind \in Reading PROVE Run(c, <<<<"i", n>>>>) = Give(c, v)
    <3>1. Step(c, <<"i", n>>) = Give(c, <<"int", n>>)
      BY <2>5, StepFacts
    <3>2. PICK t : t = <<"i", n>>
      OBVIOUS
    <3>3. Run(c, <<t>>) = Step(c, t)
      BY RunOne
    <3> QED
      BY <2>1, <3>1, <3>2, <3>3, Zenon
  <2> QED
    BY <2>2, <2>4, <2>5 DEF ReadsAs
<1>2. CASE v \in {"str"} \X Strings
  <2>1. PICK s \in Strings : v = <<"str", s>>
    BY <1>2
  <2>2. EncodeLevel(v, inner) = <<<<"s", s>>>>
    BY <2>1 DEF EncodeLevel
  <2>3. <<"s", s>> \in Tokens
    BY DEF Tokens
  <2>4. <<<<"s", s>>>> \in Seq(Tokens)
    BY <2>3
  <2>5. ASSUME NEW c, c.kind \in Reading PROVE Run(c, <<<<"s", s>>>>) = Give(c, v)
    <3>1. Step(c, <<"s", s>>) = Give(c, <<"str", s>>)
      BY <2>5, StepFacts
    <3>2. PICK t : t = <<"s", s>>
      OBVIOUS
    <3>3. Run(c, <<t>>) = Step(c, t)
      BY RunOne
    <3> QED
      BY <2>1, <3>1, <3>2, <3>3, Zenon
  <2> QED
    BY <2>2, <2>4, <2>5 DEF ReadsAs
<1> QED
  BY <1>1, <1>2 DEF Plain

\* A sequence grows by one element at a time.
LEMMA PrefixGrows ==
  ASSUME NEW T, NEW s \in Seq(T), NEW m \in 0 .. Len(s) - 1
  PROVE  /\ SubSeq(s, 1, m) \in Seq(T) /\ s[m + 1] \in T
         /\ SubSeq(s, 1, m + 1) = Append(SubSeq(s, 1, m), s[m + 1])
<1>1. Len(s) \in Nat /\ m \in Nat /\ 1 \in 1 .. Len(s) /\ m + 1 \in 1 .. Len(s)
      /\ (m + 1) - 1 = m /\ s[m + 1] \in T
  OBVIOUS
<1>2. SubSeq(s, 1, m) \in Seq(T)
  <2>1. \A i \in 1 .. m : s[i] \in T
    BY <1>1
  <2> QED
    BY <1>1, <2>1, SubSeqProperties
<1>3. SubSeq(s, 1, m + 1) = SubSeq(s, 1, m) \o <<s[m + 1]>>
  BY <1>1, SubSeqRecursiveSecond
<1>4. Append(SubSeq(s, 1, m), s[m + 1]) = SubSeq(s, 1, m) \o <<s[m + 1]>>
  BY <1>1, <1>2, AppendIsConcat
<1> QED
  BY <1>1, <1>2, <1>3, <1>4

\* The parts of a concatenation are put together one at a time.
LEMMA ConcatGrows ==
  ASSUME NEW T, NEW p \in Seq(Seq(T)), NEW m \in 0 .. Len(p) - 1
  PROVE  /\ Concat(SubSeq(p, 1, 0)) = <<>>
         /\ Concat(SubSeq(p, 1, m + 1)) = Concat(SubSeq(p, 1, m)) \o p[m + 1]
<1>1. PICK a : a = SubSeq(p, 1, m)
  OBVIOUS
<1>2. a \in Seq(Seq(T)) /\ p[m + 1] \in Seq(T) /\ SubSeq(p, 1, m + 1) = Append(a, p[m + 1])
  BY <1>1, PrefixGrows
<1>3. Concat(Append(a, p[m + 1])) = Concat(a) \o p[m + 1] /\ Concat(<<>>) = <<>>
  BY <1>2, ConcatFacts
<1>4. SubSeq(p, 1, 0) = <<>>
  BY SubSeqEmpty
<1> QED
  BY <1>1, <1>2, <1>3, <1>4

\* What stands between the first and the last token of a list or dictionary.
LEMMA RunBracket ==
  ASSUME NEW c, NEW a \in Tokens, NEW d \in Seq(Tokens), NEW z \in Tokens
  PROVE  /\ <<a>> \o d \o <<z>> \in Seq(Tokens)
         /\ Run(c, <<a>> \o d \o <<z>>) = Step(Run(Step(c, a), d), z)
<1>1. PICK s, t : s = <<a>> /\ t = <<z>>
  OBVIOUS
<1>2. s \in Seq(Tokens) /\ t \in Seq(Tokens) /\ s \o d \in Seq(Tokens)
  BY <1>1
<1>3. PICK u : u = s \o d
  OBVIOUS
<1>4. u \in Seq(Tokens) /\ u \o t \in Seq(Tokens)
  BY <1>2, <1>3
<1>5. Run(c, u \o t) = Run(Run(c, u), t)
  BY <1>2, <1>4, RunConcat
<1>6. Run(c, s \o d) = Run(Run(c, s), d)
  BY <1>2, RunConcat
<1>7. Run(c, s) = Step(c, a)
  BY <1>1, RunOne
<1>8. Run(Run(Step(c, a), d), t) = Step(Run(Step(c, a), d), z)
  BY <1>1, RunOne
<1> QED
  BY <1>1, <1>4, <1>5, <1>6, <1>7, <1>8, <1>3, Zenon

\* Nothing put together is nothing.
LEMMA ConcatEmpty == Concat(<<>>) = <<>>
<1>1. PICK T, b, q : T = {b} /\ b = 0 /\ q = <<>>
  OBVIOUS
<1>2. q \in Seq(T) /\ b \in T
  BY <1>1
<1>3. \A r \in Seq(T) : Concat(<<>>) = <<>>
  BY <1>2, ConcatFacts
<1> QED
  BY <1>2, <1>3

\* A list is read back if its items are.
LEMMA ListReadBack ==
  ASSUME NEW V, NEW e, \A v \in V : ReadsAs(e[v], v), NEW l \in Seq(V)
  PROVE  ReadsAs(EncodeLevel(<<"list", l>>, e), <<"list", l>>)
<1> DEFINE p == [i \in 1 .. Len(l) |-> e[l[i]]]
<1>0. Len(l) \in Nat /\ \A i \in 1 .. Len(l) : l[i] \in V /\ ReadsAs(e[l[i]], l[i])
  OBVIOUS
<1>1. p \in Seq(Seq(Tokens)) /\ Len(p) = Len(l) /\ \A i \in 1 .. Len(l) : p[i] = e[l[i]]
  BY <1>0 DEF ReadsAs
<1>2. EncodeLevel(<<"list", l>>, e) = <<<<"l">>>> \o Concat(p) \o <<<<"e">>>>
  BY DEF EncodeLevel, EncodeItems
<1> HIDE DEF p
<1> DEFINE Items(m) == Concat(SubSeq(p, 1, m))
           Have(m, c) == Call("list", SubSeq(l, 1, m), Absent, c)
           S == {m \in 0 .. Len(l) : /\ Items(m) \in Seq(Tokens)
                                     /\ \A c : c.kind \in Reading =>
                                          Run(Call("list", <<>>, Absent, c), Items(m)) = Have(m, c)}
<1>3. 0 \in S
  <2>1. SubSeq(p, 1, 0) = <<>> /\ SubSeq(l, 1, 0) = <<>>
    BY SubSeqEmpty
  <2>2. Items(0) = <<>>
    BY <2>1, ConcatEmpty, Zenon
  <2>3. ASSUME NEW c PROVE Run(Call("list", <<>>, Absent, c), Items(0)) = Have(0, c)
    <3>1. PICK k : k = Call("list", <<>>, Absent, c)
      OBVIOUS
    <3>2. Run(k, <<>>) = k
      BY RunOne
    <3> QED
      BY <2>1, <2>2, <3>1, <3>2, Zenon
  <2>4. Items(0) \in Seq(Tokens)
    <3>1. <<>> \in Seq(Tokens)
      OBVIOUS
    <3> QED
      BY <2>2, <3>1, Zenon
  <2> HIDE DEF Items, Have
  <2> QED
    BY <1>0, <2>3, <2>4
<1>4. ASSUME NEW m \in 0 .. Len(l) - 1, m \in S PROVE m + 1 \in S
  <2>1. m + 1 \in 0 .. Len(l) /\ m + 1 \in 1 .. Len(l) /\ m \in 0 .. Len(p) - 1
    BY <1>0, <1>1
  <2>2. PICK a, b, v : a = Items(m) /\ b = p[m + 1] /\ v = l[m + 1]
    OBVIOUS
  <2>3. Items(m + 1) = a \o b
    BY <1>1, <2>1, <2>2, ConcatGrows
  <2>4. a \in Seq(Tokens) /\ ReadsAs(b, v)
    BY <1>0, <1>1, <1>4, <2>1, <2>2
  <2>5. b \in Seq(Tokens) /\ a \o b \in Seq(Tokens)
    BY <2>4 DEF ReadsAs
  <2>6. SubSeq(l, 1, m + 1) = Append(SubSeq(l, 1, m), v)
    BY <2>2, PrefixGrows
  <2>7. ASSUME NEW c, c.kind \in Reading
        PROVE  Run(Call("list", <<>>, Absent, c), Items(m + 1)) = Have(m + 1, c)
    <3>1. PICK k : k = Call("list", <<>>, Absent, c)
      OBVIOUS
    <3>2. Run(k, a \o b) = Run(Run(k, a), b)
      BY <2>4, <2>5, RunConcat
    <3>3. Run(k, a) = Have(m, c)
      BY <1>4, <2>2, <2>7, <3>1
    <3>4. Have(m, c).kind \in Reading
      BY CallFields DEF Reading
    <3>5. Run(Have(m, c), b) = Give(Have(m, c), v)
      BY <2>4, <3>4 DEF ReadsAs
    <3>6. Give(Have(m, c), v) = Have(m + 1, c)
      <4>1. PICK x : x = SubSeq(l, 1, m)
        OBVIOUS
      <4>2. Give(Call("list", x, Absent, c), v) = Call("list", Append(x, v), Absent, c)
        BY GiveToList
      <4> QED
        BY <2>6, <4>1, <4>2, Zenon
    <3> QED
      BY <2>3, <3>1, <3>2, <3>3, <3>5, <3>6, Zenon
  <2>8. Items(m + 1) \in Seq(Tokens)
    BY <2>3, <2>5, Zenon
  <2> HIDE DEF Items, Have
  <2> QED
    BY <2>1, <2>7, <2>8
<1>5. 0 .. Len(l) \subseteq S
  <2> HIDE DEF S
  <2> QED
    BY <1>0, <1>3, <1>4, InductionUpTo
<1>6. SubSeq(p, 1, Len(l)) = p /\ SubSeq(l, 1, Len(l)) = l
  BY <1>1, SubSeqFull
<1>7. Concat(p) \in Seq(Tokens)
      /\ \A c : c.kind \in Reading =>
            Run(Call("list", <<>>, Absent, c), Concat(p)) = Call("list", l, Absent, c)
  <2>1. Len(l) \in S
    BY <1>0, <1>5
  <2>2. Items(Len(l)) = Concat(p) /\ \A c : Have(Len(l), c) = Call("list", l, Absent, c)
    BY <1>6, Zenon
  <2> HIDE DEF Items, Have
  <2> QED
    BY <2>1, <2>2
<1>8. PICK d : d = Concat(p)
  OBVIOUS
<1>9. <<"l">> \in Tokens /\ <<"e">> \in Tokens
  BY DEF Tokens
<1>10. <<<<"l">>>> \o d \o <<<<"e">>>> \in Seq(Tokens)
  BY <1>7, <1>8, <1>9, RunBracket
<1>11. ASSUME NEW c, c.kind \in Reading
       PROVE  Run(c, <<<<"l">>>> \o d \o <<<<"e">>>>) = Give(c, <<"list", l>>)
  <2>1. Run(c, <<<<"l">>>> \o d \o <<<<"e">>>>) = Step(Run(Step(c, <<"l">>), d), <<"e">>)
    BY <1>7, <1>8, <1>9, RunBracket
  <2>2. Step(c, <<"l">>) = Call("list", <<>>, Absent, c)
    BY <1>11, StepFacts
  <2>3. Run(Call("list", <<>>, Absent, c), d) = Call("list", l, Absent, c)
    BY <1>7, <1>8, <1>11
  <2>4. Step(Call("list", l, Absent, c), <<"e">>) = Give(c, <<"list", l>>)
    BY <1>11, StepFacts
  <2> QED
    BY <2>1, <2>2, <2>3, <2>4, Zenon
<1> QED
  BY <1>2, <1>8, <1>10, <1>11 DEF ReadsAs

\* A dictionary is read back if its values are.
LEMMA DictReadBack ==
  ASSUME NEW V, NEW e, \A v \in V : ReadsAs(e[v], v), NEW d \in [Keys -> V \cup {Absent}]
  PROVE  ReadsAs(EncodeLevel(<<"dict", d>>, e), <<"dict", d>>)
<1> DEFINE K == KeyOrder
           Entry(i) == IF d[K[i]] = Absent THEN <<>> ELSE <<<<"s", K[i]>>>> \o e[d[K[i]]]
           p == [i \in 1 .. Len(K) |-> Entry(i)]
<1>0. Len(K) \in Nat /\ K \in Seq(STRING) /\ \A i \in 1 .. Len(K) : K[i] \in STRING /\ K[i] \in Keys
  <2>1. PICK T : T = STRING
    OBVIOUS
  <2>2. K \in Seq(T)
    BY <2>1, BencodeAssumption
  <2>3. Len(K) \in Nat /\ DOMAIN K = 1 .. Len(K) /\ \A i \in 1 .. Len(K) : K[i] \in T
    BY <2>2
  <2>4. \A i \in 1 .. Len(K) : K[i] \in Keys
    BY <2>3 DEF Keys, ToSet
  <2> QED
    BY <2>1, <2>2, <2>3, <2>4
<1>1. EncodeLevel(<<"dict", d>>, e) = <<<<"d">>>> \o Concat(p) \o <<<<"e">>>>
  BY DEF EncodeLevel, EncodeEntries
<1>2. ASSUME NEW i \in 1 .. Len(K)
      PROVE  <<"s", K[i]>> \in Tokens /\ <<<<"s", K[i]>>>> \in Seq(Tokens)
  <2>1. <<"s", K[i]>> \in Tokens
    BY <1>0 DEF Tokens
  <2> QED
    BY <2>1
<1>3. ASSUME NEW i \in 1 .. Len(K), d[K[i]] # Absent PROVE ReadsAs(e[d[K[i]]], d[K[i]])
  BY <1>0, <1>3
<1>4. ASSUME NEW i \in 1 .. Len(K) PROVE Entry(i) \in Seq(Tokens)
  <2>1. CASE d[K[i]] = Absent
    BY <2>1
  <2>2. CASE d[K[i]] # Absent
    BY <1>2, <1>3, <2>2 DEF ReadsAs
  <2> QED
    BY <2>1, <2>2
<1> HIDE DEF K, Entry
<1>5. p \in Seq(Seq(Tokens)) /\ Len(p) = Len(K) /\ \A i \in 1 .. Len(K) : p[i] = Entry(i)
  BY <1>0, <1>4
<1> HIDE DEF p
<1> DEFINE Entries(m) == Concat(SubSeq(p, 1, m))
           Set(m) == [k \in Keys |-> IF \E j \in 1 .. m : K[j] = k THEN d[k] ELSE Absent]
           Have(m, c) == Call("dict", Set(m), Absent, c)
           S == {m \in 0 .. Len(K) : /\ Entries(m) \in Seq(Tokens)
                                     /\ \A c : c.kind \in Reading =>
                                          Run(Call("dict", NoEntries, Absent, c), Entries(m))
                                             = Have(m, c)}
<1>6. 0 \in S
  <2>1. SubSeq(p, 1, 0) = <<>>
    BY SubSeqEmpty
  <2>2. Entries(0) = <<>>
    BY <2>1, ConcatEmpty, Zenon
  <2>3. Set(0) = NoEntries
    BY DEF NoEntries
  <2>4. ASSUME NEW c PROVE Run(Call("dict", NoEntries, Absent, c), Entries(0)) = Have(0, c)
    <3>1. PICK k : k = Call("dict", NoEntries, Absent, c)
      OBVIOUS
    <3>2. Run(k, <<>>) = k
      BY RunOne
    <3> QED
      BY <2>2, <2>3, <3>1, <3>2, Zenon
  <2>5. Entries(0) \in Seq(Tokens)
    <3>1. <<>> \in Seq(Tokens)
      OBVIOUS
    <3> QED
      BY <2>2, <3>1, Zenon
  <2> HIDE DEF Entries, Have
  <2> QED
    BY <1>0, <2>4, <2>5
<1>7. ASSUME NEW m \in 0 .. Len(K) - 1, m \in S PROVE m + 1 \in S
  <2>1. m + 1 \in 0 .. Len(K) /\ m + 1 \in 1 .. Len(K) /\ m \in 0 .. Len(p) - 1 /\ m \in Nat
    BY <1>0, <1>5
  <2>2. PICK a, b, k, x : a = Entries(m) /\ b = p[m + 1] /\ k = K[m + 1] /\ x = Set(m)
    OBVIOUS
  <2>3. Entries(m + 1) = a \o b
    BY <1>5, <2>1, <2>2, ConcatGrows
  <2>4. a \in Seq(Tokens) /\ b \in Seq(Tokens) /\ b = Entry(m + 1) /\ k \in Keys
    BY <1>0, <1>4, <1>5, <1>7, <2>1, <2>2
  <2>5. a \o b \in Seq(Tokens)
    BY <2>4
  <2>6. \A j : j \in 1 .. m + 1 <=> j \in 1 .. m \/ j = m + 1
    BY <2>1
  <2>7. Set(m + 1) = WithEntry(x, k, d[k])
    BY <2>2, <2>4, <2>6 DEF WithEntry
  <2>8. x \in [Keys -> V \cup {Absent}]
    BY <2>2
  <2>9. ASSUME NEW c, c.kind \in Reading
        PROVE  Run(Call("dict", NoEntries, Absent, c), Entries(m + 1)) = Have(m + 1, c)
    <3>1. PICK z : z = Call("dict", NoEntries, Absent, c)
      OBVIOUS
    <3>2. Run(z, a \o b) = Run(Run(z, a), b)
      BY <2>4, RunConcat
    <3>3. Run(z, a) = Call("dict", x, Absent, c)
      BY <1>7, <2>2, <2>9, <3>1
    <3>4. CASE d[k] = Absent
      <4>1. b = <<>>
        BY <2>2, <2>4, <3>4 DEF Entry
      <4>2. Set(m + 1) = x
        <5>1. x[k] = Absent
          BY <2>2, <2>4, <3>4
        <5> QED
          BY <2>7, <2>8, <3>4, <5>1 DEF WithEntry
      <4>3. Run(Run(z, a), <<>>) = Run(z, a)
        BY RunOne
      <4> QED
        BY <2>3, <3>1, <3>2, <3>3, <4>1, <4>2, <4>3, Zenon
    <3>5. CASE d[k] # Absent
      <4>1. PICK t, f, v : t = <<<<"s", k>>>> /\ v = d[k] /\ f = e[v]
        OBVIOUS
      <4>2. b = t \o f
        BY <2>2, <2>4, <3>5, <4>1 DEF Entry
      <4>3. t \in Seq(Tokens) /\ ReadsAs(f, v)
        BY <1>2, <1>3, <2>1, <2>2, <3>5, <4>1
      <4>4. f \in Seq(Tokens)
        BY <4>3 DEF ReadsAs
      <4>5. PICK y : y = Call("dict", x, Absent, c)
        OBVIOUS
      <4>6. Run(y, t \o f) = Run(Run(y, t), f)
        BY <4>3, <4>4, RunConcat
      <4>7. Run(y, t) = Step(y, <<"s", k>>)
        <5>1. PICK tok : tok = <<"s", k>>
          OBVIOUS
        <5>2. Run(y, <<tok>>) = Step(y, tok)
          BY RunOne
        <5> QED
          BY <4>1, <5>1, <5>2, Zenon
      <4>8. y.kind \in Reading
        BY <4>5, CallFields DEF Reading
      <4>9. Step(y, <<"s", k>>) = Give(y, <<"str", k>>)
        BY <4>8, StepFacts
      <4>10. PICK w : w = Call("dict", x, <<"str", k>>, c)
        OBVIOUS
      <4>11. Give(y, <<"str", k>>) = w /\ Give(w, v) = Call("dict", WithEntry(x, k, v), Absent, c)
        <5>1. Give(Call("dict", x, Absent, c), <<"str", k>>) = Call("dict", x, <<"str", k>>, c)
          BY GiveKey
        <5>2. Give(Call("dict", x, <<"str", k>>, c), v)
                 = Call("dict", WithEntry(x, k, v), Absent, c)
          BY GiveEntry
        <5> QED
          BY <4>5, <4>10, <5>1, <5>2, Zenon
      <4>12. w.kind \in Reading
        BY <4>10, CallFields DEF Reading
      <4>13. Run(w, f) = Give(w, v)
        BY <4>3, <4>12 DEF ReadsAs
      <4>14. Call("dict", WithEntry(x, k, v), Absent, c) = Have(m + 1, c)
        BY <2>7, <4>1, Zenon
      <4> QED
        BY <2>3, <3>1, <3>2, <3>3, <4>2, <4>5, <4>6, <4>7, <4>9, <4>11, <4>13, <4>14, Zenon
    <3> QED
      BY <3>4, <3>5
  <2>10. Entries(m + 1) \in Seq(Tokens)
    BY <2>3, <2>5, Zenon
  <2> HIDE DEF Entries, Have
  <2> QED
    BY <2>1, <2>9, <2>10
<1>8. 0 .. Len(K) \subseteq S
  <2> HIDE DEF S
  <2> QED
    BY <1>0, <1>6, <1>7, InductionUpTo
<1>9. Concat(p) \in Seq(Tokens)
      /\ \A c : c.kind \in Reading =>
            Run(Call("dict", NoEntries, Absent, c), Concat(p)) = Call("dict", d, Absent, c)
  <2>1. Len(K) \in S
    <3> HIDE DEF S
    <3> QED
      BY <1>0, <1>8
  <2>2. SubSeq(p, 1, Len(K)) = p
    BY <1>5, SubSeqFull
  <2>3. \A k \in Keys : \E j \in 1 .. Len(K) : K[j] = k
    BY <1>0 DEF Keys, ToSet, K
  <2>4. Set(Len(K)) = d
    BY <2>3
  <2>5. Entries(Len(K)) = Concat(p) /\ \A c : Have(Len(K), c) = Call("dict", d, Absent, c)
    BY <2>2, <2>4, Zenon
  <2> HIDE DEF Entries, Have
  <2> QED
    BY <2>1, <2>5
<1>10. PICK q : q = Concat(p)
  OBVIOUS
<1>11. <<"d">> \in Tokens /\ <<"e">> \in Tokens
  BY DEF Tokens
<1>12. <<<<"d">>>> \o q \o <<<<"e">>>> \in Seq(Tokens)
  BY <1>9, <1>10, <1>11, RunBracket
<1>13. ASSUME NEW c, c.kind \in Reading
       PROVE  Run(c, <<<<"d">>>> \o q \o <<<<"e">>>>) = Give(c, <<"dict", d>>)
  <2>1. Run(c, <<<<"d">>>> \o q \o <<<<"e">>>>) = Step(Run(Step(c, <<"d">>), q), <<"e">>)
    BY <1>9, <1>10, <1>11, RunBracket
  <2>2. Step(c, <<"d">>) = Call("dict", NoEntries, Absent, c)
    BY <1>13, StepFacts
  <2>3. Run(Call("dict", NoEntries, Absent, c), q) = Call("dict", d, Absent, c)
    BY <1>9, <1>10, <1>13
  <2>4. Step(Call("dict", d, Absent, c), <<"e">>) = Give(c, <<"dict", d>>)
    BY <1>13, StepFacts
  <2> QED
    BY <2>1, <2>2, <2>3, <2>4, Zenon
<1> QED
  BY <1>1, <1>10, <1>12, <1>13 DEF ReadsAs

\* A value is read back if the values in it are.
LEMMA LevelReadBack ==
  ASSUME NEW V, NEW e, \A v \in V : ReadsAs(e[v], v), NEW v \in Plain \cup Nested(V)
  PROVE  ReadsAs(EncodeLevel(v, e), v)
<1>1. CASE v \in Plain
  BY <1>1, PlainReadBack
<1>2. CASE v \in {"list"} \X Seq(V)
  <2>1. PICK l \in Seq(V) : v = <<"list", l>>
    BY <1>2
  <2> QED
    BY <2>1, ListReadBack
<1>3. CASE v \in {"dict"} \X [Keys -> V \cup {Absent}]
  <2>1. PICK d \in [Keys -> V \cup {Absent}] : v = <<"dict", d>>
    BY <1>3
  <2> QED
    BY <2>1, DictReadBack
<1> QED
  BY <1>1, <1>2, <1>3 DEF Nested

\* Values of any depth are read back.
LEMMA EncodingReadBack ==
  ASSUME NEW v \in ValuesTo[MaxDepth]
  PROVE  ReadsAs(encodeValue(v), v)
<1> DEFINE S == {n \in 0 .. MaxDepth : \A w \in ValuesTo[n] : ReadsAs(encode[n][w], w)}
<1>0. MaxDepth \in Nat
  BY ValuesEquation
<1>1. 0 \in S
  <2>1. ASSUME NEW w \in ValuesTo[0] PROVE ReadsAs(encode[0][w], w)
    <3>1. w \in Plain /\ encode[0][w] = EncodeLevel(w, <<>>)
      BY ValuesEquation, EncodeEquation
    <3> QED
      BY <3>1, PlainReadBack
  <2> QED
    BY <1>0, <2>1
<1>2. ASSUME NEW n \in 0 .. MaxDepth - 1, n \in S PROVE n + 1 \in S
  <2>1. n + 1 \in 0 .. MaxDepth
    BY <1>0
  <2>2. PICK V, e : V = ValuesTo[n] /\ e = encode[n]
    OBVIOUS
  <2>3. \A w \in V : ReadsAs(e[w], w)
    BY <1>2, <2>2
  <2>4. ASSUME NEW w \in ValuesTo[n + 1] PROVE ReadsAs(encode[n + 1][w], w)
    <3>1. w \in Plain \cup Nested(V) /\ encode[n + 1][w] = EncodeLevel(w, e)
      BY <2>2, ValuesEquation, EncodeEquation
    <3> QED
      BY <2>3, <3>1, LevelReadBack
  <2> QED
    BY <2>1, <2>4
<1>3. 0 .. MaxDepth \subseteq S
  <2> HIDE DEF S
  <2> QED
    BY <1>0, <1>1, <1>2, InductionUpTo
<1>4. MaxDepth \in S
  <2> HIDE DEF S
  <2> QED
    BY <1>0, <1>3
<1> QED
  BY <1>4 DEF encodeValue

\* The calls that have a value.
Complete == {"done", "more"}

\* The encoding of a value is decoded as that value, and to the end.
LEMMA WholeIsDone ==
  ASSUME NEW v \in ValuesTo[MaxDepth]
  PROVE  /\ encodeValue(v) \in Seq(Tokens)
         /\ Run(Start, encodeValue(v)) = Call("done", v, Absent, Absent)
<1>1. Start.kind = "top" /\ Start.kind \in Reading
  BY CallFields DEF Start, Reading
<1>2. Give(Start, v) = Call("done", v, Absent, Absent)
  BY <1>1 DEF Give
<1>3. ReadsAs(encodeValue(v), v)
  BY EncodingReadBack
<1> QED
  BY <1>1, <1>2, <1>3 DEF ReadsAs

\* Whatever follows a value is noticed.
LEMMA MoreAfterDone ==
  ASSUME NEW T, NEW c, c.kind \in Complete, NEW t \in Seq(T), t # <<>>
  PROVE  Run(c, t).kind = "more"
<1> DEFINE P(m) == Run(c, SubSeq(t, 1, m)).kind
           S == {m \in 0 .. Len(t) : P(m) \in Complete /\ (m > 0 => P(m) = "more")}
<1>0. Len(t) \in Nat /\ Len(t) > 0
  OBVIOUS
<1>1. 0 \in S
  <2>1. SubSeq(t, 1, 0) = <<>>
    BY SubSeqEmpty
  <2>2. Run(c, <<>>) = c
    BY RunOne
  <2>3. P(0) = c.kind
    BY <2>1, <2>2, Zenon
  <2> QED
    BY <1>0, <2>3
<1>2. ASSUME NEW m \in 0 .. Len(t) - 1, m \in S PROVE m + 1 \in S
  <2>1. PICK a, b, r : a = SubSeq(t, 1, m) /\ b = t[m + 1] /\ r = Run(c, a)
    OBVIOUS
  <2>2. a \in Seq(T) /\ b \in T /\ SubSeq(t, 1, m + 1) = Append(a, b)
    BY <2>1, PrefixGrows
  <2>3. Run(c, Append(a, b)) = Step(r, b)
    <3>1. Run(c, Append(a, b)) = Step(Run(c, a), b)
      BY <2>2, RunFacts
    <3> QED
      BY <2>1, <3>1, Zenon
  <2>4. r.kind \in Complete
    BY <1>2, <2>1
  <2>5. Step(r, b) = Call("more", r.value, Absent, Absent)
    BY <2>4 DEF Step, Complete
  <2>6. P(m + 1) = "more"
    <3>1. Call("more", r.value, Absent, Absent).kind = "more"
      BY CallFields
    <3> QED
      BY <2>2, <2>3, <2>5, <3>1, Zenon
  <2> HIDE DEF P
  <2> QED
    BY <1>0, <2>6 DEF Complete
<1>3. 0 .. Len(t) \subseteq S
  <2> HIDE DEF S
  <2> QED
    BY <1>0, <1>1, <1>2, InductionUpTo
<1>4. Len(t) \in S
  <2> HIDE DEF S
  <2> QED
    BY <1>0, <1>3
<1>5. SubSeq(t, 1, Len(t)) = t
  BY SubSeqFull
<1>6. P(Len(t)) = "more"
  BY <1>0, <1>4
<1> QED
  BY <1>5, <1>6, Zenon

\* The beginning of an encoding is not enough, and neither is it with a token
\* cut short at its end.
LEMMA BeginningIsNot ==
  ASSUME NEW v \in ValuesTo[MaxDepth], NEW n \in 0 .. Len(encodeValue(v)) - 1
  PROVE  /\ Run(Start, SubSeq(encodeValue(v), 1, n)).kind \notin Complete
         /\ Run(Start, Append(SubSeq(encodeValue(v), 1, n), <<"cut">>)).kind \notin Complete
<1>1. PICK e : e = encodeValue(v)
  OBVIOUS
<1>2. e \in Seq(Tokens) /\ Run(Start, e) = Call("done", v, Absent, Absent) /\ Len(e) \in Nat
  BY <1>1, WholeIsDone
<1>3. PICK a, b : a = SubSeq(e, 1, n) /\ b = SubSeq(e, n + 1, Len(e))
  OBVIOUS
<1>4. n \in 0 .. Len(e) - 1 /\ n \in Nat
  BY <1>1, <1>2
<1>5. a \in Seq(Tokens) /\ b \in Seq(Tokens) /\ b # <<>>
  <2>1. \A i \in 1 .. n : e[i] \in Tokens
    BY <1>2, <1>4
  <2>2. \A i \in n + 1 .. Len(e) : e[i] \in Tokens
    BY <1>2, <1>4
  <2>3. a \in Seq(Tokens)
    BY <1>3, <1>4, <2>1, SubSeqProperties
  <2>4. b \in Seq(Tokens) /\ Len(b) = (Len(e) - (n + 1)) + 1
    BY <1>2, <1>3, <1>4, <2>2, SubSeqProperties
  <2>5. Len(b) > 0
    BY <1>2, <1>4, <2>4
  <2> QED
    BY <2>3, <2>4, <2>5
<1>6. a \o b = e
  <2>1. 1 \in 1 .. Len(e) + 1 /\ n \in 1 - 1 .. Len(e) /\ Len(e) \in n .. Len(e)
    BY <1>2, <1>4
  <2>2. SubSeq(e, 1, n) \o SubSeq(e, n + 1, Len(e)) = SubSeq(e, 1, Len(e))
    BY <1>2, <2>1, ConcatAdjacentSubSeq
  <2>3. SubSeq(e, 1, Len(e)) = e
    BY <1>2, SubSeqFull
  <2> QED
    BY <1>3, <2>2, <2>3, Zenon
<1>7. PICK r : r = Run(Start, a)
  OBVIOUS
<1>8. Run(Start, e) = Run(r, b)
  <2>1. Run(Start, a \o b) = Run(Run(Start, a), b)
    BY <1>5, RunConcat
  <2> QED
    BY <1>6, <1>7, <2>1, Zenon
<1>9. Run(Start, e).kind = "done"
  BY <1>2, CallFields
<1>10. r.kind \notin Complete
  BY <1>5, <1>8, <1>9, MoreAfterDone
<1>11. Run(Start, Append(a, <<"cut">>)) = Step(r, <<"cut">>)
  <2>1. PICK T, t : T = Tokens \cup {t} /\ t = <<"cut">>
    OBVIOUS
  <2>2. a \in Seq(T) /\ t \in T
    BY <1>5, <2>1
  <2>3. Run(Start, Append(a, t)) = Step(Run(Start, a), t)
    BY <2>2, RunFacts
  <2> QED
    BY <1>7, <2>1, <2>3, Zenon
<1>12. Step(r, <<"cut">>) = Failed
  <2>1. Read(r, <<"cut">>) = Failed
    BY DEF Read
  <2> QED
    BY <1>10, <2>1 DEF Step, Complete
<1>13. Failed.kind \notin Complete
  BY CallFields DEF Failed, Complete
<1> QED
  BY <1>1, <1>3, <1>7, <1>10, <1>11, <1>12, <1>13

\* What is read from the file of a torrent, from its beginning only, and from
\* one with something after it.
LEMMA DecodeAnswers ==
  ASSUME NEW v \in Torrents
  PROVE  /\ v \in ValuesTo[MaxDepth]
         /\ Decode(encodeValue(v)) = Ok(v) /\ decodeValue(encodeValue(v)) = Ok(v)
         /\ Decode(encodeValue(v) \o <<<<"i", 0>>>>) = Error
         /\ decodeValue(encodeValue(v) \o <<<<"i", 0>>>>) = Ok(v)
         /\ \A n \in 0 .. Len(encodeValue(v)) - 1 :
               \A data \in {SubSeq(encodeValue(v), 1, n),
                            Append(SubSeq(encodeValue(v), 1, n), <<"cut">>)} :
                  Decode(data) = Error /\ decodeValue(data) = Error
<1>1. v \in ValuesTo[MaxDepth]
  BY StartupAssumption
<1>2. PICK e, r : e = encodeValue(v) /\ r = Call("done", v, Absent, Absent)
  OBVIOUS
<1>3. e \in Seq(Tokens) /\ Run(Start, e) = r
  BY <1>1, <1>2, WholeIsDone
<1>4. r.kind = "done" /\ r.value = v
  BY <1>2, CallFields
<1>5. Decode(e) = Ok(v) /\ decodeValue(e) = Ok(v)
  <2>1. AtEnd(r) = Ok(v)
    BY <1>4 DEF AtEnd
  <2> QED
    BY <1>3, <1>4, <2>1 DEF Decode, decodeValue
<1>6. PICK t : t = <<<<"i", 0>>>>
  OBVIOUS
<1>7. Run(Start, e \o t) = Call("more", v, Absent, Absent)
  <2>1. <<"i", 0>> \in Tokens
    BY DEF Tokens
  <2>2. t \in Seq(Tokens)
    BY <1>6, <2>1
  <2>3. Run(Start, e \o t) = Run(Run(Start, e), t)
    BY <1>3, <2>2, RunConcat
  <2>4. PICK b : b = <<"i", 0>>
    OBVIOUS
  <2>5. Run(r, <<b>>) = Step(r, b)
    BY RunOne
  <2>6. Step(r, b) = Call("more", v, Absent, Absent)
    BY <1>4 DEF Step
  <2> QED
    BY <1>3, <1>6, <2>3, <2>4, <2>5, <2>6, Zenon
<1>8. Decode(e \o t) = Error /\ decodeValue(e \o t) = Ok(v)
  <2>1. PICK s : s = Call("more", v, Absent, Absent)
    OBVIOUS
  <2>2. s.kind = "more" /\ s.value = v
    BY <2>1, CallFields
  <2>3. AtEnd(s) = Ok(v)
    BY <2>2 DEF AtEnd
  <2>4. Run(Start, e \o t) = s
    BY <1>7, <2>1
  <2> QED
    BY <2>2, <2>3, <2>4, Zenon DEF Decode, decodeValue
<1>9. ASSUME NEW n \in 0 .. Len(e) - 1,
             NEW data \in {SubSeq(e, 1, n), Append(SubSeq(e, 1, n), <<"cut">>)}
      PROVE  Decode(data) = Error /\ decodeValue(data) = Error
  <2>1. Run(Start, data).kind \notin Complete
    <3>1. n \in 0 .. Len(encodeValue(v)) - 1
      BY <1>2
    <3>2. /\ Run(Start, SubSeq(e, 1, n)).kind \notin Complete
          /\ Run(Start, Append(SubSeq(e, 1, n), <<"cut">>)).kind \notin Complete
      BY <1>1, <1>2, <3>1, BeginningIsNot, Zenon
    <3>3. data = SubSeq(e, 1, n) \/ data = Append(SubSeq(e, 1, n), <<"cut">>)
      BY <1>9, Zenon
    <3> QED
      BY <3>2, <3>3, Zenon
  <2>2. AtEnd(Run(Start, data)) = Error
    BY <2>1 DEF AtEnd, Complete
  <2> QED
    BY <2>2 DEF Decode, decodeValue
<1> QED
  BY <1>1, <1>2, <1>5, <1>6, <1>8, <1>9, Zenon

-----------------------------------------------------------------------------
(* The fields of a MetaInfo.                                               *)

\* The values of any depth, and the dictionaries of them.
AnyValue == UNION {ValuesTo[n] : n \in 0 .. MaxDepth}

Dicts == [Keys -> AnyValue \cup {Absent}]

\* The MetaInfos there are.
MetaInfos == [announce : Strings, pieceLength : Int, pieces : Strings, name : Strings,
              length : Int, files : Seq(Int)]

\* The parts of a value, by its kind.
LEMMA ValueParts ==
  ASSUME NEW v \in AnyValue
  PROVE  /\ v[1] = "int" => v[2] \in Int
         /\ v[1] = "str" => v[2] \in Strings
         /\ v[1] = "list" => v[2] \in Seq(AnyValue)
         /\ v[1] = "dict" => v[2] \in Dicts
<1>1. PICK n \in 0 .. MaxDepth : v \in ValuesTo[n]
  BY DEF AnyValue
<1>2. CASE v \in {"int"} \X Int
  BY <1>2
<1>3. CASE v \in {"str"} \X Strings
  BY <1>3
<1>4. CASE v \notin Plain
  <2>1. n # 0
    BY <1>1, <1>4, ValuesEquation
  <2>2. PICK m \in 0 .. MaxDepth - 1 : n = m + 1
    <3>1. n - 1 \in 0 .. MaxDepth - 1 /\ n = (n - 1) + 1
      BY <1>1, <2>1, ValuesEquation
    <3> QED
      BY <3>1
  <2>3. PICK V : V = ValuesTo[m]
    OBVIOUS
  <2>4. v \in Nested(V)
    BY <1>1, <1>4, <2>2, <2>3, ValuesEquation
  <2>5. V \subseteq AnyValue
    <3>1. m \in 0 .. MaxDepth
      BY ValuesEquation
    <3> QED
      BY <2>3, <3>1 DEF AnyValue
  <2>6. CASE v \in {"list"} \X Seq(V)
    <3>1. PICK l \in Seq(V) : v = <<"list", l>>
      BY <2>6
    <3>2. l \in Seq(AnyValue)
      BY <2>5, SequencesOver
    <3> QED
      BY <3>1, <3>2
  <2>7. CASE v \in {"dict"} \X [Keys -> V \cup {Absent}]
    <3>1. PICK d \in [Keys -> V \cup {Absent}] : v = <<"dict", d>>
      BY <2>7
    <3>2. d \in Dicts
      BY <2>5 DEF Dicts
    <3> QED
      BY <3>1, <3>2
  <2> QED
    BY <2>4, <2>6, <2>7 DEF Nested
<1> QED
  BY <1>2, <1>3, <1>4 DEF Plain

\* A field that fits is of its kind.
LEMMA FieldTypes ==
  ASSUME NEW d \in Dicts, NEW k \in Keys
  PROVE  /\ Fits(d, k, "int") => Field(d, k, 0) \in Int
         /\ Fits(d, k, "str") => Field(d, k, "") \in Strings
         /\ Fits(d, k, "list") => Field(d, k, <<>>) \in Seq(AnyValue)
         /\ Fits(d, k, "dict") => Field(d, k, NoEntries) \in Dicts
<1>1. CASE d[k] = Absent
  <2>1. \A z : Field(d, k, z) = z
    BY <1>1 DEF Field
  <2>2. "" \in Strings
    BY BencodeAssumption
  <2>3. <<>> \in Seq(AnyValue) /\ 0 \in Int
    OBVIOUS
  <2>4. NoEntries \in Dicts
    BY DEF NoEntries, Dicts
  <2> QED
    BY <2>1, <2>2, <2>3, <2>4
<1>2. CASE d[k] # Absent
  <2>1. PICK v \in AnyValue : v = d[k]
    BY <1>2 DEF Dicts
  <2>2. \A z : Field(d, k, z) = v[2]
    BY <1>2, <2>1 DEF Field
  <2>3. \A kind : Fits(d, k, kind) => v[1] = kind
    BY <1>2, <2>1 DEF Fits
  <2> QED
    BY <2>2, <2>3, ValueParts
<1> QED
  BY <1>1, <1>2

\* The keys that fields are looked up by.
LEMMA FieldKeys ==
  /\ "announce" \in Keys /\ "info" \in Keys /\ "piece length" \in Keys /\ "pieces" \in Keys
  /\ "name" \in Keys /\ LengthKey \in Keys /\ FilesKey \in Keys /\ "length" \in Keys
BY StartupAssumption

\* What is populated from a value is a MetaInfo.
LEMMA PopulatedType ==
  ASSUME NEW v \in AnyValue, Populates(v)
  PROVE  populateValue(v) \in MetaInfos
<1>1. v[2] \in Dicts /\ Fits(v[2], "announce", "str") /\ Fits(v[2], "info", "dict")
      /\ InfoFits(Field(v[2], "info", NoEntries))
  BY ValueParts DEF Populates
<1>2. PICK info : info = Field(v[2], "info", NoEntries)
  OBVIOUS
<1>3. info \in Dicts /\ InfoFits(info)
  BY <1>1, <1>2, FieldKeys, FieldTypes
<1>4. PICK F : F = Field(info, FilesKey, <<>>)
  OBVIOUS
<1>5. F \in Seq(AnyValue) /\ FilesFit(F)
  BY <1>3, <1>4, FieldKeys, FieldTypes DEF InfoFits
<1>6. Field(v[2], "announce", "") \in Strings
  BY <1>1, FieldKeys, FieldTypes
<1>7. Field(info, "piece length", 0) \in Int
  BY <1>3, FieldKeys, FieldTypes DEF InfoFits
<1>8. Field(info, "pieces", "") \in Strings
  BY <1>3, FieldKeys, FieldTypes DEF InfoFits
<1>9. Field(info, "name", "") \in Strings
  BY <1>3, FieldKeys, FieldTypes DEF InfoFits
<1>10. Field(info, LengthKey, 0) \in Int
  BY <1>3, FieldKeys, FieldTypes DEF InfoFits
<1>11. [i \in DOMAIN F |-> Field(F[i][2], "length", 0)] \in Seq(Int)
  <2>1. Len(F) \in Nat /\ DOMAIN F = 1 .. Len(F)
    BY <1>5
  <2>2. ASSUME NEW i \in 1 .. Len(F) PROVE Field(F[i][2], "length", 0) \in Int
    <3>1. F[i] \in AnyValue /\ F[i][1] = "dict" /\ Fits(F[i][2], "length", "int")
      BY <1>5, <2>1 DEF FilesFit
    <3>2. F[i][2] \in Dicts
      BY <3>1, ValueParts
    <3> QED
      BY <3>1, <3>2, FieldKeys, FieldTypes
  <2> QED
    BY <2>1, <2>2
<1> QED
  BY <1>2, <1>4, <1>6, <1>7, <1>8, <1>9, <1>10, <1>11 DEF populateValue, MetaInfos

-----------------------------------------------------------------------------
(* The invariant of main's stages.                                         *)

\* What main may be given.
Inputs == Intact \cup CutShort \cup Trailing \cup Links \cup Bad

\* What main does next.
Stages == {"input", "hash", "trackers", "files", "torrent", "attach", "download", "exit"}

\* The stages at which the file has been made.
Made == {"torrent", "attach", "download"}

\* What is read is typed, and only a torrent that can be hashed gets on.
MetaInv ==
    /\ input \in Inputs /\ stage \in Stages /\ meta \in MetaInfos
    /\ stage \notin {"input", "exit"} => BytesIn[meta.pieces] # 0
    /\ stage \in {"trackers", "files"} \cup Made => meta.length > 0 \/ meta.files = <<>>

\* The file is as long as the torrent says.
FileInv ==
    /\ file.made \in BOOLEAN /\ file.size \in Nat
    /\ file.made => stage \in Made \cup {"exit"}
    /\ stage \in Made => Lengths(meta) = <<file.size>>

\* The Torrent and the file manager are told what the file was made from.
PartsInv ==
    /\ left \in Nat /\ fm.open \in BOOLEAN
    /\ stage \in {"attach", "download"} => left = TotalLength(meta)
    /\ stage = "download" => fm.lengths = Lengths(meta) /\ (fm.open => fm.total = left)

\* Pieces are there once the Torrent is, and none is longer than a piece.
PiecesInv ==
    /\ stage \notin {"attach", "download"} => pieces = <<>>
    /\ meta.pieceLength > 0 => \A i \in DOMAIN pieces : pieces[i] \in 0 .. meta.pieceLength

\* The inductive invariant.
StartInv ==
    /\ MetaInv /\ FileInv /\ PartsInv /\ PiecesInv
    /\ LossOnlyIfUnusable /\ CutIsRefused /\ Len(trackers) <= NumTrackers + 1

\* What stands in a file that was cut short.
LEMMA CutInputs ==
  ASSUME NEW i \in CutShort
  PROVE  \E v \in Torrents : \E n \in 0 .. Len(encodeValue(v)) - 1 :
            \E data \in {SubSeq(encodeValue(v), 1, n),
                         Append(SubSeq(encodeValue(v), 1, n), <<"cut">>)} :
               i = FileInput(v, data)
<1>1. PICK v \in Torrents : \/ i \in {FileInput(v, d) : d \in Beginnings(v)}
                            \/ i \in {FileInput(v, Append(d, <<"cut">>)) : d \in Beginnings(v)}
  BY DEF CutShort
<1>2. PICK d \in Beginnings(v) : i = FileInput(v, d) \/ i = FileInput(v, Append(d, <<"cut">>))
  BY <1>1, Zenon
<1>3. PICK n \in 0 .. Len(encodeValue(v)) - 1 : d = SubSeq(encodeValue(v), 1, n)
  BY <1>2, Zenon DEF Beginnings
<1> QED
  BY <1>2, <1>3, Zenon

\* A torrent file is one that was cut short, or one that is decoded.
LEMMA FileInputs ==
  ASSUME NEW i \in Inputs, i.kind = "file"
  PROVE  \/ i \in CutShort
         \/ \E v \in Torrents : \/ i = FileInput(v, encodeValue(v))
                                \/ i = FileInput(v, encodeValue(v) \o <<<<"i", 0>>>>)
<1>1. i \notin Links \cup Bad
  BY DEF Links, Bad
<1>2. CASE i \in Intact
  BY <1>2, Zenon DEF Intact
<1>3. CASE i \in Trailing
  BY <1>3, Zenon DEF Trailing
<1> QED
  BY <1>1, <1>2, <1>3 DEF Inputs

\* The fields of an input from a file.
LEMMA FileInputFields ==
  ASSUME NEW v, NEW data
  PROVE  /\ FileInput(v, data).kind = "file"
         /\ FileInput(v, data).value = v /\ FileInput(v, data).data = data
BY DEF FileInput

\* What is decoded from a file that was cut short.
LEMMA CutDecodes ==
  ASSUME NEW i \in CutShort
  PROVE  i.kind = "file" /\ i.value \in Torrents
         /\ Decode(i.data) = Error /\ decodeValue(i.data) = Error
<1>1. PICK v \in Torrents : \E n \in 0 .. Len(encodeValue(v)) - 1 :
            \E data \in {SubSeq(encodeValue(v), 1, n),
                         Append(SubSeq(encodeValue(v), 1, n), <<"cut">>)} :
               i = FileInput(v, data)
  BY CutInputs
<1>2. PICK n \in 0 .. Len(encodeValue(v)) - 1 :
            \E data \in {SubSeq(encodeValue(v), 1, n),
                         Append(SubSeq(encodeValue(v), 1, n), <<"cut">>)} :
               i = FileInput(v, data)
  BY <1>1
<1>3. PICK data \in {SubSeq(encodeValue(v), 1, n),
                     Append(SubSeq(encodeValue(v), 1, n), <<"cut">>)} :
               i = FileInput(v, data)
  BY <1>2
<1>4. Decode(data) = Error /\ decodeValue(data) = Error
  BY DecodeAnswers, Zenon
<1> QED
  BY <1>3, <1>4, FileInputFields

\* What is decoded from a file that was not.
LEMMA UncutDecodes ==
  ASSUME NEW i \in Inputs, i.kind = "file", i \notin CutShort
  PROVE  /\ i.value \in Torrents /\ decodeValue(i.data) = Ok(i.value)
         /\ i.data # encodeValue(i.value) => Decode(i.data) = Error
<1>1. PICK v \in Torrents : \/ i = FileInput(v, encodeValue(v))
                            \/ i = FileInput(v, encodeValue(v) \o <<<<"i", 0>>>>)
  BY FileInputs
<1>2. PICK data : i = FileInput(v, data) /\ decodeValue(data) = Ok(v)
                  /\ (data # encodeValue(v) => Decode(data) = Error)
  <2>1. CASE i = FileInput(v, encodeValue(v))
    BY <2>1, DecodeAnswers, Zenon
  <2>2. CASE i = FileInput(v, encodeValue(v) \o <<<<"i", 0>>>>)
    BY <2>2, DecodeAnswers, Zenon
  <2> QED
    BY <1>1, <2>1, <2>2
<1> QED
  BY <1>2, FileInputFields

\* The answers of Decode are told apart.
LEMMA Answers ==
  ASSUME NEW v
  PROVE  Ok(v).ok = TRUE /\ Ok(v).value = v /\ Error.ok = FALSE
BY DEF Ok, Error

\* What ParseMetaInfo accepts was not cut short, and has what it requires.
LEMMA ParsedFacts ==
  ASSUME NEW i \in Inputs, i.kind = "file", ParseMetaInfo(i.data).ok
  PROVE  /\ i \notin CutShort /\ ParseMetaInfo(i.data).meta \in MetaInfos
         /\ BytesIn[ParseMetaInfo(i.data).meta.pieces] # 0
<1>1. PICK r : r = decodeValue(i.data)
  OBVIOUS
<1>2. /\ r.ok /\ Populates(r.value) /\ Required(populateValue(r.value))
      /\ ParseMetaInfo(i.data).meta = populateValue(r.value)
  BY <1>1 DEF ParseMetaInfo
<1>3. i \notin CutShort
  BY <1>1, <1>2, CutDecodes, Answers
<1>4. r.value = i.value /\ i.value \in Torrents
  BY <1>1, <1>3, UncutDecodes, Answers
<1>5. i.value \in AnyValue
  <2>1. i.value \in ValuesTo[MaxDepth]
    BY <1>4, DecodeAnswers
  <2> QED
    BY <2>1, ValuesEquation DEF AnyValue
<1>6. populateValue(r.value) \in MetaInfos
  BY <1>2, <1>4, <1>5, PopulatedType
<1> QED
  BY <1>2, <1>3, <1>6 DEF Required

\* A magnet link gives a MetaInfo with one hash.
LEMMA LinkFacts ==
  ASSUME NEW i \in Inputs, i.kind = "magnet"
  PROVE  /\ i \notin CutShort /\ ConvertToMetaInfo(i.magnet) \in MetaInfos
         /\ BytesIn[ConvertToMetaInfo(i.magnet).pieces] # 0
<1>1. i \notin CutShort
  BY CutDecodes
<1>2. i \in Links
  BY <1>1, FileInputFields DEF Inputs, Intact, Trailing, Bad
<1>3. PICK m \in Magnets : i.magnet = m
  BY <1>2 DEF Links
<1>4. m.hash \in Strings /\ BytesIn[m.hash] = HashLength /\ m.name \in Strings
      /\ m.trackers \in Seq(Strings) /\ "" \in Strings
  BY StartupAssumption, BencodeAssumption
<1>5. HashLength # 0 /\ MagnetPiece \in Int
  BY MetaInfoAssumption
<1>6. PICK a : a = IF m.trackers = <<>> THEN "" ELSE Head(m.trackers)
  OBVIOUS
<1>7. a \in Strings
  <2>1. CASE m.trackers = <<>>
    BY <1>4, <1>6, <2>1
  <2>2. CASE m.trackers # <<>>
    <3>1. PICK t, T : t = m.trackers /\ T = Strings
      OBVIOUS
    <3>2. t \in Seq(T) /\ t # <<>>
      BY <1>4, <2>2, <3>1
    <3>3. Head(t) \in T
      BY <3>2, HeadTailProperties
    <3> QED
      BY <1>6, <2>2, <3>1, <3>3
  <2> QED
    BY <2>1, <2>2
<1>8. ConvertToMetaInfo(m) \in MetaInfos /\ ConvertToMetaInfo(m).pieces = m.hash
  <2>1. PICK M, h, n, f : M = ConvertToMetaInfo(m) /\ h = m.hash /\ n = m.name /\ f = <<>>
    OBVIOUS
  <2>2. M = [announce |-> a, pieceLength |-> MagnetPiece, pieces |-> h, name |-> n,
             length |-> 0, files |-> f]
    BY <1>6, <2>1, Zenon DEF ConvertToMetaInfo
  <2>3. h \in Strings /\ n \in Strings
    BY <1>4, <2>1, Zenon
  <2>4. f \in Seq(Int) /\ h \in Strings /\ n \in Strings
    BY <2>1, <2>3
  <2>5. M \in MetaInfos /\ M.pieces = h
    BY <1>5, <1>7, <2>2, <2>4 DEF MetaInfos
  <2> QED
    BY <2>1, <2>5
<1> QED
  BY <1>1, <1>3, <1>4, <1>5, <1>8

-----------------------------------------------------------------------------
(* Lengths.                                                                *)

\* The sums of no number and of one.
LEMMA SmallSums ==
  ASSUME NEW x \in Int
  PROVE  SumOf(<<>>) = 0 /\ SumOf(<<x>>) = x
<1>1. PICK e : e = <<>>
  OBVIOUS
<1>2. e \in Seq(Int) /\ Append(e, x) = <<x>>
  BY <1>1
<1>3. \A d \in Seq(Int) : SumOf(<<>>) = 0 /\ SumOf(Append(d, x)) = SumOf(d) + x
  BY SumFacts
<1>4. SumOf(<<>>) = 0 /\ SumOf(Append(e, x)) = SumOf(e) + x
  BY <1>2, <1>3
<1> QED
  BY <1>1, <1>2, <1>4

\* The length of a torrent that can be hashed is not negative.
LEMMA TotalType ==
  ASSUME NEW m \in MetaInfos, m.length > 0 \/ m.files = <<>>
  PROVE  TotalLength(m) \in Nat /\ (~(m.length > 0) => TotalLength(m) = 0)
<1>1. m.length \in Int
  BY DEF MetaInfos
<1>2. SumOf(<<>>) = 0
  BY <1>1, SmallSums
<1>3. CASE m.length > 0
  BY <1>1, <1>3 DEF TotalLength
<1>4. CASE ~(m.length > 0)
  BY <1>1, <1>2, <1>4 DEF TotalLength
<1> QED
  BY <1>3, <1>4

\* Where there is one file, its length is all that CreateFiles is told.
LEMMA OneLength ==
  ASSUME NEW m \in MetaInfos, Len(Lengths(m)) = 1
  PROVE  Head(Lengths(m)) \in Int /\ Lengths(m) = <<Head(Lengths(m))>>
<1>1. PICK s : s = Lengths(m)
  OBVIOUS
<1>2. m.length \in Int /\ m.files \in Seq(Int)
  BY DEF MetaInfos
<1>3. <<m.length>> \in Seq(Int)
  BY <1>2
<1>4. s \in Seq(Int)
  BY <1>1, <1>2, <1>3 DEF Lengths
<1>5. s[1] \in Int /\ Head(s) = s[1]
  BY <1>1, <1>4
<1>6. s = <<s[1]>>
  BY <1>1, <1>4
<1> QED
  BY <1>1, <1>5, <1>6

\* There is a first length.
LEMMA FirstLength ==
  ASSUME NEW m \in MetaInfos
  PROVE  Head(Lengths(m)) \in Int
<1>1. PICK s : s = Lengths(m)
  OBVIOUS
<1>2. m.length \in Int /\ m.files \in Seq(Int)
  BY DEF MetaInfos
<1>3. <<m.length>> \in Seq(Int) /\ <<m.length>> # <<>>
  BY <1>2
<1>4. s \in Seq(Int) /\ s # <<>>
  BY <1>1, <1>2, <1>3 DEF Lengths
<1>5. Head(s) \in Int
  BY <1>4
<1> QED
  BY <1>1, <1>5

\* The number of pieces, and what it is to have none.
LEMMA NumPiecesFacts ==
  ASSUME NEW m \in MetaInfos, BytesIn[m.pieces] # 0
  PROVE  /\ NumPieces(m) \in Nat
         /\ ~(NumPieces(m) > 0) => BytesIn[m.pieces] \in 1 .. HashLength - 1
<1>1. PICK b : b = BytesIn[m.pieces]
  OBVIOUS
<1>2. b \in Nat /\ b # 0
  <2>1. m.pieces \in Strings
    BY DEF MetaInfos
  <2> QED
    BY <1>1, <2>1, BencodeAssumption
<1>3. HashLength \in Nat /\ HashLength > 0
  BY MetaInfoAssumption
<1>4. b \div HashLength \in Nat
  BY <1>2, <1>3
<1>5. ~(b \div HashLength > 0) => b \in 1 .. HashLength - 1
  BY <1>2, <1>3
<1> QED
  BY <1>1, <1>4, <1>5 DEF NumPieces

\* No piece is longer than the piece length.
LEMMA PieceLengthBound ==
  ASSUME NEW m \in MetaInfos, m.length > 0 \/ m.files = <<>>, m.pieceLength > 0, NEW i
  PROVE  calculatePieceLength(m, i) \in 0 .. m.pieceLength
<1>1. PICK t, p : t = TotalLength(m) /\ p = m.pieceLength
  OBVIOUS
<1>2. t \in Nat /\ p \in Nat /\ p > 0
  BY <1>1, TotalType DEF MetaInfos
<1>3. t % p \in 0 .. p
  BY <1>2
<1>4. p \in 0 .. p
  BY <1>2
<1>5. calculatePieceLength(m, i) = IF i = NumPieces(m) - 1 THEN t % p ELSE p
  BY <1>1, <1>2 DEF calculatePieceLength
<1> QED
  BY <1>1, <1>3, <1>4, <1>5

-----------------------------------------------------------------------------
(* Every step keeps the invariant.                                         *)

\* A MetaInfo with nothing in it is one.
LEMMA NoMetaInfoType == NoMetaInfo \in MetaInfos
<1>1. PICK e, f : e = "" /\ f = <<>>
  OBVIOUS
<1>2. e \in Strings
  BY <1>1, BencodeAssumption, Zenon
<1>3. <<>> \in Seq(Int)
  OBVIOUS
<1>4. f \in Seq(Int)
  BY <1>1, <1>3, Zenon
<1>5. NoMetaInfo = [announce |-> e, pieceLength |-> 0, pieces |-> e, name |-> e, length |-> 0,
                    files |-> f]
  BY <1>1 DEF NoMetaInfo
<1> QED
  BY <1>2, <1>4, <1>5 DEF MetaInfos

\* main's own trackers and the one of the torrent.
LEMMA TrackerCount ==
  ASSUME NEW k \in {0, 1}, NEW n \in 0 .. NumTrackers + k, NEW h
  PROVE  Len([i \in 1 .. n |-> h]) <= NumTrackers + 1
<1>1. NumTrackers \in Nat
  BY StartupAssumption
<1>2. n \in Nat /\ n <= NumTrackers + 1
  BY <1>1
<1>3. Len([i \in 1 .. n |-> h]) = n
  BY <1>2
<1> QED
  BY <1>2, <1>3

\* The initial states satisfy the invariant.
LEMMA StartInit == Init => StartInv
<1> SUFFICES ASSUME Init PROVE StartInv
  OBVIOUS
<1> USE DEF Init
<1>1. input \in Inputs /\ stage = "input"
  BY DEF Inputs
<1>2. meta \in MetaInfos
  BY NoMetaInfoType
<1>3. MetaInv
  BY <1>1, <1>2 DEF MetaInv, Stages, Made
<1>4. FileInv
  BY <1>1, StartupAssumption DEF FileInv, Made
<1>5. PartsInv /\ PiecesInv
  BY <1>1 DEF PartsInv, PiecesInv
<1>6. LossOnlyIfUnusable /\ CutIsRefused
  BY <1>1 DEF LossOnlyIfUnusable, CutIsRefused
<1>7. Len(trackers) <= NumTrackers + 1
  <2>1. NumTrackers \in Nat
    BY StartupAssumption
  <2>2. Len(<<>>) = 0
    OBVIOUS
  <2> QED
    BY <2>1, <2>2
<1> QED
  BY <1>3, <1>4, <1>5, <1>6, <1>7 DEF StartInv

\* Giving up leaves everything but the stage as it is.
LEMMA ExitStep ==
  ASSUME StartInv, Exit, stage \notin {"attach", "download"},
         file.made => stage = "torrent" /\ BytesIn[meta.pieces] \in 1 .. HashLength - 1
  PROVE  StartInv'
<1> USE DEF StartInv
<1>1. MetaInv'
  BY DEF MetaInv, Exit, Stages, Made
<1>2. FileInv'
  BY DEF FileInv, Exit, Made
<1>3. PartsInv' /\ PiecesInv'
  BY DEF PartsInv, PiecesInv, Exit
<1>4. LossOnlyIfUnusable'
  BY DEF LossOnlyIfUnusable, Exit
<1>5. CutIsRefused' /\ Len(trackers)' <= NumTrackers + 1
  BY DEF CutIsRefused, Exit
<1> QED
  BY <1>1, <1>2, <1>3, <1>4, <1>5

\* Reading the torrent file or the link.
LEMMA MetaStep ==
  ASSUME StartInv, stage = "input", input \notin CutShort, meta' \in MetaInfos,
         BytesIn[meta'.pieces] # 0, stage' = "hash",
         UNCHANGED <<at, input, infoHash, trackers, file, pieces, left, fm>>
  PROVE  StartInv'
<1> USE DEF StartInv
<1>1. MetaInv'
  BY DEF MetaInv, Stages, Made
<1>2. FileInv'
  BY DEF FileInv, Made
<1>3. pieces = <<>> /\ DOMAIN <<>> = {}
  BY DEF PiecesInv
<1>4. PartsInv' /\ PiecesInv'
  BY <1>3 DEF PartsInv, PiecesInv
<1>5. LossOnlyIfUnusable' /\ CutIsRefused' /\ Len(trackers)' <= NumTrackers + 1
  BY DEF LossOnlyIfUnusable, CutIsRefused
<1> QED
  BY <1>1, <1>2, <1>4, <1>5

\* Every step keeps the invariant.
LEMMA StartStep == StartInv /\ [Next]_vars => StartInv'
<1> SUFFICES ASSUME StartInv, [Next]_vars PROVE StartInv'
  OBVIOUS
<1> USE DEF StartInv
<1>1. CASE InputFails
  BY <1>1, ExitStep DEF InputFails, FileInv, Made
<1>2. CASE ParseFile
  <2>1. /\ input \notin CutShort /\ meta' \in MetaInfos /\ BytesIn[meta'.pieces] # 0
    BY <1>2, ParsedFacts DEF ParseFile, MetaInv
  <2> QED
    BY <1>2, <2>1, MetaStep DEF ParseFile
<1>3. CASE ParseMagnetLink
  <2>1. /\ input \notin CutShort /\ meta' \in MetaInfos /\ BytesIn[meta'.pieces] # 0
    BY <1>3, LinkFacts DEF ParseMagnetLink, MetaInv
  <2> QED
    BY <1>3, <2>1, MetaStep DEF ParseMagnetLink
<1>4. CASE Hash
  <2>1. CASE InfoHash(meta).ok
    <3>1. meta.length > 0 \/ meta.files = <<>>
      BY <2>1 DEF InfoHash
    <3>2. /\ stage = "hash" /\ stage' = "trackers"
          /\ UNCHANGED <<at, input, meta, trackers, file, pieces, left, fm>>
      BY <1>4, <2>1 DEF Hash
    <3>3. MetaInv' /\ FileInv'
      BY <3>1, <3>2 DEF MetaInv, FileInv, Stages, Made
    <3>4. PartsInv' /\ PiecesInv' /\ LossOnlyIfUnusable' /\ CutIsRefused'
      BY <3>2 DEF PartsInv, PiecesInv, LossOnlyIfUnusable, CutIsRefused
    <3> QED
      BY <3>2, <3>3, <3>4
  <2>2. CASE ~InfoHash(meta).ok
    BY <1>4, <2>2, ExitStep DEF Hash, FileInv, Made
  <2> QED
    BY <2>1, <2>2
<1>5. CASE AddTrackers
  <2>1. /\ stage = "trackers" /\ stage' = "files"
        /\ UNCHANGED <<at, input, meta, infoHash, file, pieces, left, fm>>
    BY <1>5 DEF AddTrackers
  <2>2. MetaInv' /\ FileInv'
    BY <2>1 DEF MetaInv, FileInv, Stages, Made
  <2>3. PartsInv' /\ PiecesInv' /\ LossOnlyIfUnusable' /\ CutIsRefused'
    BY <2>1 DEF PartsInv, PiecesInv, LossOnlyIfUnusable, CutIsRefused
  <2>4. Len(trackers)' <= NumTrackers + 1
    <3>1. PICK n \in 0 .. NumTrackers + (IF meta.announce = "" THEN 0 ELSE 1) :
             trackers' = [i \in 1 .. n |-> infoHash]
      BY <1>5 DEF AddTrackers
    <3>2. PICK k, h : k = (IF meta.announce = "" THEN 0 ELSE 1) /\ h = infoHash
      OBVIOUS
    <3>3. k \in {0, 1} /\ n \in 0 .. NumTrackers + k /\ trackers' = [i \in 1 .. n |-> h]
      BY <3>1, <3>2, Zenon
    <3> QED
      BY <3>3, TrackerCount
  <2> QED
    BY <2>2, <2>3, <2>4
<1>6. CASE CreateFiles
  <2>1. /\ stage = "files" /\ stage' = "torrent" /\ Len(Lengths(meta)) = 1
        /\ Head(Lengths(meta)) >= 0 /\ file' = [made |-> TRUE, size |-> Head(Lengths(meta))]
        /\ UNCHANGED <<at, input, meta, infoHash, trackers, pieces, left, fm>>
    BY <1>6 DEF CreateFiles, FilesSize
  <2>2. MetaInv'
    BY <2>1 DEF MetaInv, Stages, Made
  <2>3. Head(Lengths(meta)) \in Int /\ Lengths(meta) = <<Head(Lengths(meta))>>
    BY <2>1, OneLength DEF MetaInv
  <2>4. file'.made = TRUE /\ file'.size = Head(Lengths(meta)) /\ file'.size \in Nat
    BY <2>1, <2>3
  <2>5. Lengths(meta') = <<file'.size>>
    BY <2>1, <2>3, <2>4
  <2>6. FileInv'
    BY <2>1, <2>4, <2>5 DEF FileInv, Made
  <2>7. PartsInv' /\ PiecesInv' /\ LossOnlyIfUnusable' /\ CutIsRefused'
    BY <2>1 DEF PartsInv, PiecesInv, LossOnlyIfUnusable, CutIsRefused
  <2> QED
    BY <2>1, <2>2, <2>6, <2>7
<1>7. CASE CreateFilesFails \/ DiskFails
  <2>1. /\ stage = "files" /\ stage' = "exit"
        /\ UNCHANGED <<input, meta, infoHash, trackers, pieces, left, fm>>
    BY <1>7 DEF CreateFilesFails, DiskFails
  <2>2. \/ file' = file
        \/ file' = [made |-> TRUE, size |-> 0]
        \/ FilesSize >= 0 /\ file' = [made |-> TRUE, size |-> FilesSize]
    BY <1>7 DEF CreateFilesFails, DiskFails
  <2>3. ~file.made /\ FilesSize \in Int
    BY <2>1, FirstLength DEF FileInv, MetaInv, Made, FilesSize
  <2>4. file'.made \in BOOLEAN /\ file'.size \in Nat
    <3>1. CASE file' = file
      BY <3>1 DEF FileInv
    <3>2. CASE file' = [made |-> TRUE, size |-> 0]
      BY <3>2
    <3>3. CASE FilesSize >= 0 /\ file' = [made |-> TRUE, size |-> FilesSize]
      <4>1. FilesSize \in Nat
        BY <2>3, <3>3
      <4> QED
        BY <3>3, <4>1
    <3> QED
      BY <2>2, <3>1, <3>2, <3>3
  <2>5. MetaInv' /\ FileInv'
    BY <2>1, <2>4 DEF MetaInv, FileInv, Stages, Made
  <2>6. PartsInv' /\ PiecesInv' /\ CutIsRefused'
    BY <2>1 DEF PartsInv, PiecesInv, CutIsRefused
  <2>7. \/ at' = "disk" \/ file' = file
        \/ at' = "files" /\ (FilesSize < 0 \/ Len(Lengths(meta)) > 1)
    BY <1>7 DEF CreateFilesFails, DiskFails
  <2>8. LossOnlyIfUnusable'
    BY <2>1, <2>3, <2>7 DEF LossOnlyIfUnusable, FilesSize
  <2> QED
    BY <2>1, <2>5, <2>6, <2>8
<1>8. CASE NewTorrent
  <2>0. stage = "torrent" /\ (meta.length > 0 \/ meta.files = <<>>) /\ BytesIn[meta.pieces] # 0
        /\ meta \in MetaInfos /\ InfoHash(meta).ok
    BY <1>8 DEF NewTorrent, MetaInv, Made, InfoHash
  <2>1. CASE NumPieces(meta) > 0
    <3>1. /\ stage' = "attach" /\ left' = TotalLength(meta)
          /\ pieces' = [i \in 1 .. NumPieces(meta) |-> calculatePieceLength(meta, i - 1)]
          /\ UNCHANGED <<at, input, meta, infoHash, trackers, file, fm>>
      BY <1>8, <2>0, <2>1 DEF NewTorrent
    <3>2. MetaInv' /\ FileInv'
      BY <2>0, <3>1 DEF MetaInv, FileInv, Stages, Made
    <3>3. PartsInv'
      BY <2>0, <3>1, TotalType DEF PartsInv
    <3>4. PiecesInv'
      BY <2>0, <3>1, PieceLengthBound DEF PiecesInv
    <3>5. LossOnlyIfUnusable' /\ CutIsRefused'
      BY <2>0, <3>1 DEF LossOnlyIfUnusable, CutIsRefused
    <3> QED
      BY <3>1, <3>2, <3>3, <3>4, <3>5
  <2>2. CASE ~(NumPieces(meta) > 0)
    <3>1. Exit
      BY <1>8, <2>2 DEF NewTorrent
    <3>2. BytesIn[meta.pieces] \in 1 .. HashLength - 1
      BY <2>0, <2>2, NumPiecesFacts
    <3> QED
      BY <2>0, <3>1, <3>2, ExitStep
  <2> QED
    BY <2>1, <2>2
<1>9. CASE SetFileManager
  <2>1. /\ stage = "attach" /\ stage' = "download"
        /\ UNCHANGED <<at, input, meta, infoHash, trackers, file, pieces, left>>
    BY <1>9 DEF SetFileManager
  <2>2. PICK opened \in BOOLEAN :
           fm' = [open |-> opened, lengths |-> Lengths(meta),
                  total |-> IF opened THEN TotalLength(meta) ELSE 0]
    BY <1>9 DEF SetFileManager
  <2>3. MetaInv' /\ FileInv'
    BY <2>1 DEF MetaInv, FileInv, Stages, Made
  <2>4. /\ fm'.open \in BOOLEAN /\ fm'.lengths = Lengths(meta)
        /\ fm'.open => fm'.total = TotalLength(meta)
    BY <2>2
  <2>5. PartsInv'
    BY <2>1, <2>4 DEF PartsInv
  <2>6. PiecesInv' /\ LossOnlyIfUnusable' /\ CutIsRefused'
    BY <2>1 DEF PiecesInv, LossOnlyIfUnusable, CutIsRefused
  <2> QED
    BY <2>1, <2>3, <2>5, <2>6
<1>10. CASE UNCHANGED vars
  BY <1>10 DEF vars, MetaInv, FileInv, PartsInv, PiecesInv, LossOnlyIfUnusable, FilesSize, CutIsRefused
<1>11. CASE Over
  BY <1>10, <1>11 DEF Over
<1> QED
  BY <1>1, <1>2, <1>3, <1>4, <1>5, <1>6, <1>7, <1>8, <1>9, <1>10, <1>11 DEF Next

-----------------------------------------------------------------------------
(* Theorems.                                                               *)

\* main never leaves the invariant.
THEOREM StartInvariant == Spec => []StartInv
BY StartInit, StartStep, PTL DEF Spec

(***************************************************************************)
(* What main holds at every step has its type: integers of any sign from   *)
(* the torrent file, a file size and a number of bytes left that are not   *)
(* negative, no piece above the piece length, no tracker given twice.      *)
(***************************************************************************)
THEOREM StartupTypes == Spec => []TypeOK
<1>1. StartInv => TypeOK
  <2> SUFFICES ASSUME StartInv PROVE TypeOK
    OBVIOUS
  <2>1. meta.pieceLength \in Int /\ meta.length \in Int /\ meta.files \in Seq(Int)
    BY DEF StartInv, MetaInv, MetaInfos
  <2>2. stage \in {"input", "hash", "trackers", "files", "torrent", "attach", "download", "exit"}
    BY DEF StartInv, MetaInv, Stages
  <2> QED
    BY <2>1, <2>2 DEF StartInv, FileInv, PartsInv, PiecesInv, TypeOK
<1> QED
  BY <1>1, StartInvariant, PTL

(***************************************************************************)
(* Decode inverts Encode for the torrent files of any set, with any keys,  *)
(* strings and depth, and refuses what is cut short or goes on.            *)
(***************************************************************************)
THEOREM DecodingInverts == Spec => []RoundTrip
<1>1. StartInv => RoundTrip
  <2> SUFFICES ASSUME StartInv, input.kind = "file"
               PROVE  LET whole == encodeValue(input.value)
                      IN  /\ Decode(whole).ok /\ Decode(whole).value = input.value
                          /\ input.data # whole => ~Decode(input.data).ok
    BY DEF RoundTrip
  <2>1. input \in Inputs
    BY DEF StartInv, MetaInv
  <2>2. /\ input.value \in Torrents
        /\ input.data # encodeValue(input.value) => Decode(input.data) = Error
    BY <2>1, CutDecodes, UncutDecodes
  <2>3. Decode(encodeValue(input.value)) = Ok(input.value)
    BY <2>2, DecodeAnswers
  <2> QED
    BY <2>2, <2>3, Answers
<1> QED
  BY <1>1, StartInvariant, PTL

(***************************************************************************)
(* However much of its end is missing, a torrent file is refused before    *)
(* anything is done with it.                                               *)
(***************************************************************************)
THEOREM CutFilesAreRefused == Spec => []CutIsRefused
<1>1. StartInv => CutIsRefused
  BY DEF StartInv
<1> QED
  BY <1>1, StartInvariant, PTL

(***************************************************************************)
(* A program that gives up has emptied an old file of the torrent's name   *)
(* only if the disk failed, or the torrent has a negative length, several  *)
(* files, or fewer bytes of hashes than one piece needs.                   *)
(***************************************************************************)
THEOREM LossIsRare == Spec => []LossOnlyIfUnusable
<1>1. StartInv => LossOnlyIfUnusable
  BY DEF StartInv
<1> QED
  BY <1>1, StartInvariant, PTL

(***************************************************************************)
(* The file that CreateFiles made, the length that the file manager was    *)
(* told and what the Torrent has left to get agree when the download       *)
(* starts, unless the torrent gives both a length and a file list.         *)
(***************************************************************************)
THEOREM PartsAgree == Spec => []StartAgrees
<1>1. StartInv => StartAgrees
  <2> SUFFICES ASSUME StartInv, stage = "download", meta.length > 0 => meta.files = <<>>
               PROVE  /\ file.size = SumOf(fm.lengths) /\ left = file.size
                      /\ fm.open => fm.total = left
    BY DEF StartAgrees
  <2>1. /\ meta \in MetaInfos /\ meta.length \in Int
        /\ meta.length > 0 \/ meta.files = <<>>
    BY DEF StartInv, MetaInv, MetaInfos, Made
  <2>2. meta.files = <<>>
    BY <2>1
  <2>3. Lengths(meta) = <<file.size>> /\ file.size \in Nat
    BY DEF StartInv, FileInv, Made
  <2>4. Lengths(meta) = <<meta.length>>
    BY <2>2 DEF Lengths
  <2>5. file.size = meta.length
    BY <2>3, <2>4
  <2>6. left = TotalLength(meta) /\ fm.lengths = <<file.size>> /\ (fm.open => fm.total = left)
    BY <2>3 DEF StartInv, PartsInv
  <2>7. SumOf(<<file.size>>) = file.size
    BY <2>3, SmallSums
  <2>8. TotalLength(meta) = file.size
    <3>1. CASE meta.length > 0
      BY <2>5, <3>1 DEF TotalLength
    <3>2. CASE ~(meta.length > 0)
      <4>1. TotalLength(meta) = 0
        BY <2>1, <3>2, TotalType
      <4> QED
        BY <2>1, <2>3, <2>5, <3>2, <4>1
    <3> QED
      BY <3>1, <3>2
  <2> QED
    BY <2>6, <2>7, <2>8
<1> QED
  BY <1>1, StartInvariant, PTL
=============================================================================
