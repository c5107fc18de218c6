------------------------- MODULE FileManagerProofs -------------------------
(* Theorems about FileManager, for every layout of the files, every piece  *)
(* size and every call.                                                    *)
EXTENDS FileManager, InductionLemmas, FiniteSetTheorems

-----------------------------------------------------------------------------
(* The layout.  What FileManager defines from its variables, as operators  *)
(* of their values: L the lengths of the files and C their bytes.          *)

OffsetsOf(L) ==
    CHOOSE g : g = [f \in 1 .. Len(L) + 1 |-> IF f = 1 THEN 0 ELSE g[f - 1] + L[f - 1]]

TotalOf(L) == OffsetsOf(L)[Len(L) + 1]

FileAt(L, c) == CHOOSE f \in 1 .. Len(L) : OffsetsOf(L)[f] <= c /\ c < OffsetsOf(L)[f + 1]

FlatOf(L, C) == [c \in 0 .. TotalOf(L) - 1 |->
                    C[FileAt(L, c)][c - OffsetsOf(L)[FileAt(L, c)]]]

\* FileManager's definitions are these operators of the lengths and the bytes.
LEMMA LayoutNow ==
  /\ pieceOffsets = OffsetsOf(Lengths) /\ totalLength = TotalOf(Lengths)
  /\ flat = FlatOf(Lengths, content)
<1>1. pieceOffsets = OffsetsOf(Lengths)
  BY DEF pieceOffsets, OffsetsOf, NumFiles
<1>2. totalLength = TotalOf(Lengths)
  BY <1>1 DEF totalLength, TotalOf, NumFiles
<1>3. ASSUME NEW c PROVE FileOf(c) = FileAt(Lengths, c)
  BY <1>1 DEF FileOf, FileAt, Files, NumFiles
<1> QED
  BY <1>1, <1>2, <1>3 DEF flat, FlatOf

\* So are they after a step.
LEMMA LayoutNext ==
  /\ pieceOffsets' = OffsetsOf(Lengths') /\ totalLength' = TotalOf(Lengths')
  /\ flat' = FlatOf(Lengths', content')
<1>1. pieceOffsets' = OffsetsOf(Lengths')
  BY DEF pieceOffsets, OffsetsOf, NumFiles
<1>2. totalLength' = TotalOf(Lengths')
  BY <1>1 DEF totalLength, TotalOf, NumFiles
<1>3. ASSUME NEW c PROVE FileOf(c)' = FileAt(Lengths', c)
  BY <1>1 DEF FileOf, FileAt, Files, NumFiles
<1> QED
  BY <1>1, <1>2, <1>3 DEF flat, FlatOf

\* The loop of NewFileManager defines an offset for every file.
LEMMA OffsetsExist ==
  ASSUME NEW L \in Seq(Nat)
  PROVE  \E g \in [1 .. Len(L) + 1 -> Nat] :
            g = [f \in 1 .. Len(L) + 1 |-> IF f = 1 THEN 0 ELSE g[f - 1] + L[f - 1]]
<1> DEFINE N == Len(L)
           Good(n, g) == /\ g \in [1 .. n + 1 -> Nat]
                         /\ \A f \in 1 .. n + 1 : g[f] = IF f = 1 THEN 0 ELSE g[f - 1] + L[f - 1]
           S == {n \in 0 .. N : \E g : Good(n, g)}
<1>0. N \in Nat /\ L \in [1 .. N -> Nat]
  OBVIOUS
<1>1. 0 \in S
  <2> DEFINE z == [f \in 1 .. 0 + 1 |-> 0]
  <2>1. z \in [1 .. 0 + 1 -> Nat] /\ \A f \in 1 .. 0 + 1 : f = 1 /\ z[f] = 0
    OBVIOUS
  <2>2. Good(0, z)
    BY <2>1
  <2>3. \E g : Good(0, g)
    BY <2>2, Zenon
  <2> QED
    BY <1>0, <2>3
<1>2. ASSUME NEW n \in 0 .. N - 1, n \in S PROVE n + 1 \in S
  <2>1. PICK g : Good(n, g)
    BY <1>2
  <2> DEFINE h == [f \in 1 .. n + 2 |-> IF f <= n + 1 THEN g[f] ELSE g[n + 1] + L[n + 1]]
  <2>2. n \in Nat /\ g[n + 1] \in Nat /\ L[n + 1] \in Nat
    BY <1>0, <2>1
  <2>3. \A f \in 1 .. n + 1 : h[f] = g[f]
    BY <2>2
  <2>4. h[n + 2] = g[n + 1] + L[n + 1]
    BY <2>2
  <2>5. h \in [1 .. n + 2 -> Nat]
    BY <2>1, <2>2
  <2> HIDE DEF h
  <2>6. ASSUME NEW f \in 1 .. n + 2
        PROVE  h[f] = IF f = 1 THEN 0 ELSE h[f - 1] + L[f - 1]
    <3>1. CASE f \in 1 .. n + 1
      <4>1. f # 1 => f - 1 \in 1 .. n + 1
        BY <2>2, <3>1
      <4>2. g[f] = IF f = 1 THEN 0 ELSE g[f - 1] + L[f - 1]
        BY <2>1, <3>1
      <4> QED
        BY <2>3, <3>1, <4>1, <4>2
    <3>2. CASE f = n + 2
      <4>1. f - 1 = n + 1 /\ n + 1 \in 1 .. n + 1 /\ f # 1
        BY <2>2, <3>2
      <4> QED
        BY <2>3, <2>4, <3>2, <4>1
    <3> QED
      BY <2>2, <3>1, <3>2
  <2>7. (n + 1) + 1 = n + 2 /\ n + 1 \in 0 .. N
    BY <1>0
  <2>8. Good(n + 1, h)
    BY <2>5, <2>6, <2>7
  <2> QED
    BY <2>7, <2>8
<1>3. N \in S
  <2> HIDE DEF N, S
  <2>1. N \in Nat /\ N \in 0 .. N
    BY <1>0
  <2>2. \A n \in 0 .. N - 1 : n \in S => n + 1 \in S
    BY <1>2
  <2>3. 0 .. N \subseteq S
    BY <1>1, <2>1, <2>2, InductionUpTo
  <2> QED
    BY <2>1, <2>3
<1>4. PICK g : Good(N, g)
  BY <1>3
<1>5. g = [f \in 1 .. N + 1 |-> IF f = 1 THEN 0 ELSE g[f - 1] + L[f - 1]]
  BY <1>4
<1>6. g \in [1 .. N + 1 -> Nat]
  BY <1>4
<1> QED
  BY <1>5, <1>6, Zenon

\* The offset of a file is the sum of the lengths of those before it.
LEMMA OffsetsFacts ==
  ASSUME NEW L \in Seq(Nat)
  PROVE  /\ OffsetsOf(L) \in [1 .. Len(L) + 1 -> Nat]
         /\ OffsetsOf(L)[1] = 0
         /\ \A f \in 1 .. Len(L) : OffsetsOf(L)[f + 1] = OffsetsOf(L)[f] + L[f]
         /\ TotalOf(L) \in Nat
<1> DEFINE O == OffsetsOf(L)
<1>0. Len(L) \in Nat /\ L \in [1 .. Len(L) -> Nat]
  OBVIOUS
<1>1. O = [f \in 1 .. Len(L) + 1 |-> IF f = 1 THEN 0 ELSE O[f - 1] + L[f - 1]]
  BY OffsetsExist DEF OffsetsOf
<1> HIDE DEF O
<1>2. O[1] = 0
  BY <1>0, <1>1
<1>3. ASSUME NEW f \in 1 .. Len(L) PROVE O[f + 1] = O[f] + L[f]
  <2>1. f + 1 \in 1 .. Len(L) + 1 /\ f + 1 # 1 /\ (f + 1) - 1 = f
    BY <1>0
  <2> QED
    BY <1>1, <2>1
<1> DEFINE S == {n \in 0 .. Len(L) : O[n + 1] \in Nat}
<1>4. 0 \in S
  BY <1>0, <1>2
<1>5. ASSUME NEW n \in 0 .. Len(L) - 1, n \in S PROVE n + 1 \in S
  <2>1. n + 1 \in 1 .. Len(L) /\ L[n + 1] \in Nat /\ O[n + 1] \in Nat
    BY <1>0, <1>5
  <2> QED
    BY <1>0, <1>3, <2>1
<1>6. 0 .. Len(L) \subseteq S
  <2> HIDE DEF S
  <2> QED
    BY <1>0, <1>4, <1>5, InductionUpTo
<1>7. ASSUME NEW f \in 1 .. Len(L) + 1 PROVE O[f] \in Nat
  <2>1. f - 1 \in 0 .. Len(L) /\ (f - 1) + 1 = f
    BY <1>0
  <2> QED
    BY <1>6, <2>1
<1>8. O \in [1 .. Len(L) + 1 -> Nat]
  <2>1. O = [f \in 1 .. Len(L) + 1 |-> O[f]]
    BY <1>1
  <2> QED
    BY <1>7, <2>1
<1>9. TotalOf(L) \in Nat
  BY <1>0, <1>7 DEF TotalOf, O
<1> QED
  BY <1>2, <1>3, <1>8, <1>9 DEF O

\* A file ends where a later one begins, or before.
LEMMA OffsetsGrow ==
  ASSUME NEW L \in Seq(Nat), NEW f \in 1 .. Len(L) + 1, NEW h \in 1 .. Len(L) + 1, f <= h
  PROVE  OffsetsOf(L)[f] <= OffsetsOf(L)[h]
<1> DEFINE O == OffsetsOf(L)
           S == {n \in 0 .. h - f : O[f] <= O[f + n]}
<1>0. Len(L) \in Nat /\ L \in [1 .. Len(L) -> Nat] /\ O \in [1 .. Len(L) + 1 -> Nat]
  BY OffsetsFacts
<1>1. \A e \in 1 .. Len(L) : O[e + 1] = O[e] + L[e]
  BY OffsetsFacts
<1> HIDE DEF O
<1>2. 0 \in S
  BY <1>0
<1>3. ASSUME NEW n \in 0 .. (h - f) - 1, n \in S PROVE n + 1 \in S
  <2>1. f + n \in 1 .. Len(L) /\ (f + n) + 1 = f + (n + 1)
    BY <1>0
  <2>2. O[f] <= O[f + n]
    BY <1>3
  <2>3. L[f + n] \in Nat /\ O[f + n] \in Nat /\ O[f] \in Nat
    BY <1>0, <2>1
  <2>4. O[f + (n + 1)] = O[f + n] + L[f + n]
    BY <1>1, <2>1
  <2>5. O[f] <= O[f + (n + 1)]
    BY <2>2, <2>3, <2>4
  <2>6. n + 1 \in 0 .. h - f
    BY <1>0
  <2> QED
    BY <2>5, <2>6
<1>4. h - f \in S
  <2> HIDE DEF S
  <2>1. h - f \in Nat /\ h - f \in 0 .. h - f
    BY <1>0
  <2> DEFINE D == h - f
  <2>2. D \in Nat /\ \A n \in 0 .. D - 1 : n \in S => n + 1 \in S
    BY <1>3, <2>1
  <2> HIDE DEF D
  <2>3. 0 .. D \subseteq S
    BY <1>2, <2>2, InductionUpTo
  <2> QED
    BY <2>1, <2>3 DEF D
<1>5. f + (h - f) = h
  BY <1>0
<1> QED
  BY <1>4, <1>5 DEF O

\* The arithmetic of one file, in the form it is used below.
LEMMA OneFile ==
  ASSUME NEW L \in Seq(Nat), NEW f \in 1 .. Len(L)
  PROVE  /\ f \in Nat /\ f \in 1 .. Len(L) + 1 /\ f + 1 \in 1 .. Len(L) + 1
         /\ L[f] \in Nat /\ OffsetsOf(L)[f] \in Nat /\ OffsetsOf(L)[f + 1] \in Nat
         /\ OffsetsOf(L)[f + 1] = OffsetsOf(L)[f] + L[f]
         /\ OffsetsOf(L)[f + 1] <= TotalOf(L)
<1>1. /\ Len(L) \in Nat /\ Len(L) + 1 \in 1 .. Len(L) + 1
      /\ f \in Nat /\ f \in 1 .. Len(L) + 1 /\ f + 1 \in 1 .. Len(L) + 1
      /\ f + 1 <= Len(L) + 1 /\ L[f] \in Nat
  OBVIOUS
<1>2. OffsetsOf(L)[f] \in Nat /\ OffsetsOf(L)[f + 1] \in Nat
  BY <1>1, OffsetsFacts
<1>3. OffsetsOf(L)[f + 1] = OffsetsOf(L)[f] + L[f]
  BY OffsetsFacts
<1>4. OffsetsOf(L)[f + 1] <= OffsetsOf(L)[Len(L) + 1]
  BY <1>1, OffsetsGrow
<1> QED
  BY <1>1, <1>2, <1>3, <1>4 DEF TotalOf

\* Two files do not overlap.
LEMMA FilesApart ==
  ASSUME NEW L \in Seq(Nat), NEW f \in 1 .. Len(L), NEW h \in 1 .. Len(L), f < h
  PROVE  OffsetsOf(L)[f + 1] <= OffsetsOf(L)[h]
<1>1. f + 1 \in 1 .. Len(L) + 1 /\ h \in 1 .. Len(L) + 1 /\ f + 1 <= h
  OBVIOUS
<1> QED
  BY <1>1, OffsetsGrow

\* A byte of a file is a byte of the torrent, and FileAt finds its file.
LEMMA FileAtIs ==
  ASSUME NEW L \in Seq(Nat), NEW f \in 1 .. Len(L), NEW o \in 0 .. L[f] - 1
  PROVE  /\ OffsetsOf(L)[f] + o \in 0 .. TotalOf(L) - 1
         /\ FileAt(L, OffsetsOf(L)[f] + o) = f
<1>1. PICK c : c = OffsetsOf(L)[f] + o
  OBVIOUS
<1>2. /\ OffsetsOf(L)[f] <= c /\ c < OffsetsOf(L)[f + 1] /\ c \in Nat /\ c < TotalOf(L)
      /\ TotalOf(L) \in Nat
  <2>1. /\ OffsetsOf(L)[f] \in Nat /\ L[f] \in Nat /\ OffsetsOf(L)[f + 1] \in Nat
        /\ OffsetsOf(L)[f + 1] = OffsetsOf(L)[f] + L[f]
        /\ OffsetsOf(L)[f + 1] <= TotalOf(L)
    BY OneFile
  <2>2. TotalOf(L) \in Nat
    BY OffsetsFacts
  <2>3. o \in Nat /\ o < L[f]
    BY <2>1
  <2>4. ASSUME NEW a \in Nat, NEW b \in Nat, NEW d \in Nat, NEW e \in Nat, NEW l \in Nat,
               b = a + l, b <= d, c = a + e, e < l
        PROVE  a <= c /\ c < b /\ c \in Nat /\ c < d
    BY <2>4
  <2> QED
    BY <1>1, <2>1, <2>2, <2>3, <2>4
<1>3. ASSUME NEW h \in 1 .. Len(L), OffsetsOf(L)[h] <= c, c < OffsetsOf(L)[h + 1]
      PROVE  h = f
  <2>1. /\ OffsetsOf(L)[h] \in Nat /\ OffsetsOf(L)[h + 1] \in Nat
        /\ OffsetsOf(L)[f] \in Nat /\ OffsetsOf(L)[f + 1] \in Nat /\ f \in Nat /\ h \in Nat
    BY OneFile
  <2>2. ~(h < f)
    BY <1>2, <1>3, <2>1, FilesApart
  <2>3. ~(f < h)
    BY <1>2, <1>3, <2>1, FilesApart
  <2> QED
    BY <2>1, <2>2, <2>3
<1>4. FileAt(L, c) = f
  BY <1>2, <1>3 DEF FileAt
<1> QED
  BY <1>1, <1>2, <1>4

\* Every byte of the torrent is a byte of some file.
LEMMA FileAtExists ==
  ASSUME NEW L \in Seq(Nat), NEW c \in 0 .. TotalOf(L) - 1
  PROVE  \E f \in 1 .. Len(L) : \E o \in 0 .. L[f] - 1 : c = OffsetsOf(L)[f] + o
<1> DEFINE T == {n \in 1 .. Len(L) + 1 : c < OffsetsOf(L)[n]}
<1>1. Len(L) \in Nat /\ Len(L) + 1 \in 1 .. Len(L) + 1 /\ c \in Nat
  BY OffsetsFacts
<1>2. Len(L) + 1 \in T
  BY <1>1, OffsetsFacts DEF TotalOf
<1>3. T \in SUBSET Nat /\ T # {}
  BY <1>1, <1>2
<1>4. PICK n \in T : \A m \in T : n <= m
  BY <1>3, LeastNat
<1>5. n # 1
  BY <1>1, OffsetsFacts
<1>6. PICK f \in 1 .. Len(L) : f + 1 = n
  <2>1. n - 1 \in 1 .. Len(L) /\ (n - 1) + 1 = n
    BY <1>1, <1>5
  <2> QED
    BY <2>1
<1>7. f \notin T
  BY <1>1, <1>4, <1>6
<1>8. /\ OffsetsOf(L)[f] <= c /\ c < OffsetsOf(L)[f + 1]
      /\ OffsetsOf(L)[f] \in Nat /\ L[f] \in Nat
      /\ OffsetsOf(L)[f + 1] = OffsetsOf(L)[f] + L[f]
  BY <1>1, <1>6, <1>7, OneFile
<1>9. c - OffsetsOf(L)[f] \in 0 .. L[f] - 1 /\ c = OffsetsOf(L)[f] + (c - OffsetsOf(L)[f])
  BY <1>1, <1>8
<1> QED
  BY <1>9

\* The byte array that the files are.
LEMMA FlatFacts ==
  ASSUME NEW L \in Seq(Nat), NEW C
  PROVE  /\ FlatOf(L, C) = [c \in 0 .. TotalOf(L) - 1 |-> FlatOf(L, C)[c]]
         /\ \A f \in 1 .. Len(L) : \A o \in 0 .. L[f] - 1 :
               FlatOf(L, C)[OffsetsOf(L)[f] + o] = C[f][o]
<1>1. FlatOf(L, C) = [c \in 0 .. TotalOf(L) - 1 |-> FlatOf(L, C)[c]]
  BY DEF FlatOf
<1>2. ASSUME NEW f \in 1 .. Len(L), NEW o \in 0 .. L[f] - 1
      PROVE  FlatOf(L, C)[OffsetsOf(L)[f] + o] = C[f][o]
  <2>0. PICK c : c = OffsetsOf(L)[f] + o
    OBVIOUS
  <2>1. c \in 0 .. TotalOf(L) - 1 /\ FileAt(L, c) = f
    BY <2>0, FileAtIs
  <2>2. c - OffsetsOf(L)[f] = o
    BY <2>0, OneFile
  <2> QED
    BY <2>0, <2>1, <2>2 DEF FlatOf
<1> QED
  BY <1>1, <1>2

-----------------------------------------------------------------------------
(* The inductive invariant.                                                *)

\* Nothing is asked of files that are not open yet, and only a call that
\* works on open files meets an error.
CallsWhenOpen ==
    /\ mode \in {"new", "exited"} => call = Idle
    /\ err => call # Idle /\ mode \in {"ready", "crashed"}

\* The next byte of a call in progress is the byte at pos of file i: what
\* WritePiece and ReadPiece have subtracted from the offset for the files
\* they skipped, and the bytes they have dealt with, add up.
InStep ==
    (call # Idle /\ ~err /\ mode = "ready") =>
        IF i <= NumFiles THEN call.off + k = pieceOffsets[i] + pos
        ELSE k = call.len \/ call.off + k = totalLength + pos

\* A call never does more than it was asked or goes past the end, and has
\* read the bytes that are there.
Progress ==
    /\ k <= call.len
    /\ k > 0 => call.off + k <= totalLength
    /\ IF call.op = "read"
       THEN /\ buf \in [0 .. k - 1 -> Bytes]
            /\ \A j \in 0 .. k - 1 : buf[j] = flat[call.off + j]
       ELSE buf = Empty

Whole == DOMAIN content = Files

\* Files that are open, or that CreateFiles has made, or that it does not
\* make, have their full size.
Sizes ==
    (mode \in {"ready", "closed", "crashed"} \/ NumFiles > 1 \/ ci = NumFiles)
        => size = Lengths

IInv == TypeOK /\ Sizes /\ Whole /\ CallsWhenOpen /\ InStep /\ Progress

-----------------------------------------------------------------------------
(* The layout in a state, and byte strings and calls.                      *)

\* The files of a state lie one after the other, from 0 to totalLength.
LEMMA Layout ==
  ASSUME TypeOK
  PROVE  /\ Lengths \in Seq(Nat) /\ NumFiles \in Nat \ {0} /\ Files = 1 .. NumFiles
         /\ DOMAIN Lengths = Files
         /\ totalLength \in Nat /\ pieceOffsets[1] = 0
         /\ pieceOffsets[NumFiles + 1] = totalLength
<1>1. Lengths \in Seq(Nat) /\ Lengths # <<>>
  BY FilesAssumption DEF TypeOK
<1>2. NumFiles \in Nat \ {0} /\ DOMAIN Lengths = 1 .. NumFiles
  BY <1>1 DEF NumFiles
<1>3. TotalOf(Lengths) \in Nat /\ OffsetsOf(Lengths)[1] = 0
  BY <1>1, OffsetsFacts
<1> QED
  BY <1>1, <1>2, <1>3, LayoutNow DEF TotalOf, NumFiles, Files

\* One of them, from its offset to the offset of the next.
LEMMA FileLayout ==
  ASSUME TypeOK, NEW f \in Files
  PROVE  /\ f \in Nat /\ f # 0 /\ f <= NumFiles /\ Lengths[f] \in Nat
         /\ pieceOffsets[f] \in Nat /\ pieceOffsets[f + 1] \in Nat
         /\ pieceOffsets[f + 1] = pieceOffsets[f] + Lengths[f]
         /\ pieceOffsets[f + 1] <= totalLength
<1>1. f \in 1 .. Len(Lengths)
  BY DEF Files, NumFiles
<1>2. f \in Nat /\ f # 0 /\ f <= NumFiles
  BY Layout
<1> QED
  BY <1>1, <1>2, Layout, LayoutNow, OneFile

\* Files have the lengths the torrent gives them, for ever.
LEMMA LayoutKept ==
  ASSUME Lengths' = Lengths
  PROVE  /\ NumFiles' = NumFiles /\ Files' = Files
         /\ pieceOffsets' = pieceOffsets /\ totalLength' = totalLength
         /\ content' = content => flat' = flat
BY LayoutNow, LayoutNext DEF NumFiles, Files

\* The bytes of the torrent are those of its files, one after the other.
LEMMA FlatBytes ==
  ASSUME TypeOK, Lengths' = Lengths
  PROVE  /\ flat = [c \in 0 .. totalLength - 1 |-> flat[c]]
         /\ flat' = [c \in 0 .. totalLength - 1 |-> flat'[c]]
         /\ \A f \in Files : \A o \in 0 .. Lengths[f] - 1 :
               /\ flat[pieceOffsets[f] + o] = content[f][o]
               /\ flat'[pieceOffsets[f] + o] = content'[f][o]
         /\ \A c \in 0 .. totalLength - 1 :
               \E f \in Files : \E o \in 0 .. Lengths[f] - 1 : c = pieceOffsets[f] + o
<1>1. /\ Lengths \in Seq(Nat) /\ Files = 1 .. Len(Lengths)
      /\ pieceOffsets = OffsetsOf(Lengths) /\ totalLength = TotalOf(Lengths)
      /\ flat = FlatOf(Lengths, content) /\ flat' = FlatOf(Lengths, content')
  BY Layout, LayoutNow, LayoutNext DEF Files, NumFiles
<1>2. ASSUME NEW C
      PROVE  /\ FlatOf(Lengths, C) = [c \in 0 .. TotalOf(Lengths) - 1 |-> FlatOf(Lengths, C)[c]]
             /\ \A f \in 1 .. Len(Lengths) : \A o \in 0 .. Lengths[f] - 1 :
                   FlatOf(Lengths, C)[OffsetsOf(Lengths)[f] + o] = C[f][o]
  <2>1. Lengths \in Seq(Nat)
    BY <1>1
  <2> QED
    BY <2>1, FlatFacts
<1>3. /\ flat = [c \in 0 .. totalLength - 1 |-> flat[c]]
      /\ flat' = [c \in 0 .. totalLength - 1 |-> flat'[c]]
  BY <1>1, <1>2, Zenon
<1>4. ASSUME NEW f \in Files, NEW o \in 0 .. Lengths[f] - 1
      PROVE  /\ flat[pieceOffsets[f] + o] = content[f][o]
             /\ flat'[pieceOffsets[f] + o] = content'[f][o]
  BY <1>1, <1>2, Zenon
<1>5. ASSUME NEW c \in 0 .. totalLength - 1
      PROVE  \E f \in Files : \E o \in 0 .. Lengths[f] - 1 : c = pieceOffsets[f] + o
  BY <1>1, FileAtExists, Zenon
<1> QED
  BY <1>3, <1>4, <1>5

\* Data of n bytes is a byte string of length n.
LEMMA StringFacts ==
  ASSUME NEW n \in 0 .. MaxLen, NEW d \in [0 .. n - 1 -> Bytes]
  PROVE  d \in Flat!Strings /\ Flat!Length(d) = n
<1>0. MaxLen \in Nat
  BY FilesAssumption
<1>1. d \in Flat!Strings
  BY DEF Flat!Strings
<1>2. CASE n = 0
  <2>1. DOMAIN d = {}
    BY <1>2
  <2> QED
    BY <1>1, <1>2, <2>1 DEF Flat!Length
<1>3. CASE n # 0
  <2>1. DOMAIN d = 0 .. n - 1 /\ DOMAIN d # {} /\ n \in 1 .. MaxLen
    BY <1>0, <1>3
  <2>2. ASSUME NEW m \in 1 .. MaxLen, DOMAIN d = 0 .. m - 1 PROVE m = n
    <3>1. n - 1 \in 0 .. m - 1 /\ m - 1 \in 0 .. n - 1
      BY <1>0, <2>1, <2>2
    <3> QED
      BY <1>0, <3>1
  <2> QED
    BY <1>1, <2>1, <2>2 DEF Flat!Length
<1> QED
  BY <1>2, <1>3

\* The empty data, as the data of any call that asks for nothing.
LEMMA EmptyFacts ==
  /\ Empty \in Flat!Strings /\ Empty \in [0 .. 0 - 1 -> Bytes]
  /\ \A n \in Int : n <= 0 => Empty \in [0 .. n - 1 -> Bytes]
<1>1. ASSUME NEW n \in Int, n <= 0 PROVE Empty \in [0 .. n - 1 -> Bytes]
  <2>1. 0 .. n - 1 = {}
    BY <1>1
  <2> QED
    BY <2>1 DEF Empty, Flat!Empty
<1>2. Empty \in [0 .. 0 - 1 -> Bytes]
  BY <1>1
<1>3. 0 \in 0 .. MaxLen
  BY FilesAssumption
<1> QED
  BY <1>1, <1>2, <1>3, StringFacts

\* The parts of the record that stands for no call.
LEMMA IdleFacts == Idle.op = "none" /\ Idle.off = 0 /\ Idle.data = Empty /\ Idle.len = 0
BY DEF Idle, Flat!Idle, Empty, Flat!Empty

\* The parts of a call.
LEMMA CallFacts ==
  ASSUME NEW c \in Flat!Calls \cup {Idle}
  PROVE  /\ c.op \in {"none", "write", "read"} /\ c.off \in Nat
         /\ c.len \in Nat /\ c.len \in 0 .. MaxLen
         /\ c = Idle <=> c.op = "none"
         /\ c.op = "write" => c.data \in [0 .. c.len - 1 -> Bytes]
<1>0. MaxLen \in Nat /\ Offsets \subseteq Nat
  <2>1. ASSUME NEW o \in Offsets PROVE o \in Nat
    <3>1. PICK index \in 0 .. NumPieces - 1, begin \in 0 .. PieceSize - 1 :
             o = index * PieceSize + begin
      BY DEF Offsets
    <3>2. index \in Nat /\ PieceSize \in Nat /\ begin \in Nat
      BY FilesAssumption
    <3>3. index * PieceSize \in Nat
      BY <3>2
    <3> QED
      BY <3>1, <3>2, <3>3
  <2> QED
    BY <2>1, FilesAssumption
<1>1. CASE c \in Flat!WriteCalls
  <2>1. PICK o \in Offsets, d \in Flat!Strings :
           c = [op |-> "write", off |-> o, data |-> d, len |-> Flat!Length(d)]
    BY <1>1 DEF Flat!WriteCalls
  <2>2. PICK n \in 0 .. MaxLen : d \in [0 .. n - 1 -> Bytes]
    BY DEF Flat!Strings
  <2>3. Flat!Length(d) = n
    BY <2>2, StringFacts
  <2> QED
    BY <1>0, <2>1, <2>2, <2>3, IdleFacts
<1>2. CASE c \in Flat!ReadCalls
  <2>1. c.op = "read" /\ c.off \in Offsets /\ c.len \in 0 .. MaxLen
    BY <1>2 DEF Flat!ReadCalls
  <2>2. c.off \in Nat /\ c.len \in Nat
    <3>1. 0 .. MaxLen \subseteq Nat
      OBVIOUS
    <3> QED
      BY <1>0, <2>1, <3>1, Zenon
  <2>3. c # Idle
    BY <2>1, IdleFacts
  <2> QED
    BY <2>1, <2>2, <2>3
<1>3. CASE c = Idle
  BY <1>0, <1>3, IdleFacts
<1> QED
  BY <1>1, <1>2, <1>3 DEF Flat!Calls

-----------------------------------------------------------------------------
(* The invariant holds at first and is kept.                               *)

\* The invariant holds before CreateFiles.
LEMMA InitIInv == ASSUME FullSizes PROVE Init => IInv
<1> SUFFICES ASSUME Init PROVE IInv
  OBVIOUS
<1>0. PICK l \in Layouts : Lengths = l.lengths /\ size = l.sizes
  BY DEF Init
<1>1. /\ mode = "new" /\ ci = -1
      /\ handle = [f \in Files |-> "none"]
      /\ call = Idle /\ i = 1 /\ pos = 0 /\ k = 0 /\ buf = Empty /\ err = FALSE
      /\ ret = [op |-> "none", ok |-> TRUE, data |-> Empty]
  BY DEF Init
<1>2. Lengths \in Seq(Nat) /\ NumFiles \in Nat \ {0} /\ Files = 1 .. NumFiles
  BY <1>0, FilesAssumption DEF NumFiles, Files
<1>3. DOMAIN content = Files /\ \A f \in Files : content[f] \in [0 .. Lengths[f] - 1 -> Bytes]
  <2>1. /\ content \in [Files -> UNION {[0 .. Lengths[f] - 1 -> Bytes] : f \in Files}]
        /\ \A f \in Files : DOMAIN content[f] = 0 .. Lengths[f] - 1
    BY DEF Init
  <2>2. ASSUME NEW f \in Files PROVE content[f] \in [0 .. Lengths[f] - 1 -> Bytes]
    <3>1. PICK g \in Files : content[f] \in [0 .. Lengths[g] - 1 -> Bytes]
      BY <2>1
    <3> QED
      BY <2>1, <3>1
  <2> QED
    BY <2>1, <2>2
<1>4. size \in [Files -> Nat]
  <2>1. l.sizes \in Seq(Nat) /\ Len(l.sizes) = Len(l.lengths)
    BY FilesAssumption
  <2>2. size \in Seq(Nat) /\ Len(size) = NumFiles
    BY <1>0, <2>1 DEF NumFiles
  <2> QED
    BY <1>2, <2>2
<1>5. ret \in Flat!Answers
  BY <1>1, EmptyFacts DEF Flat!Answers
<1>6. i \in 1 .. NumFiles + 1 /\ pos \in Nat /\ k \in 0 .. MaxLen /\ ci \in -1 .. NumFiles
  BY <1>1, <1>2, FilesAssumption
<1>7. TypeOK
  BY <1>0, <1>1, <1>3, <1>4, <1>5, <1>6, EmptyFacts DEF TypeOK
<1>8. Whole /\ CallsWhenOpen /\ InStep
  BY <1>1, <1>3, Zenon DEF Whole, CallsWhenOpen, InStep
<1>8a. Sizes
  BY <1>0, <1>1, <1>2 DEF Sizes, FullSizes, NumFiles
<1>9. Progress
  BY <1>1, IdleFacts DEF Progress
<1> QED
  BY <1>7, <1>8, <1>8a, <1>9 DEF IInv

\* A step that leaves the files and the call alone.
LEMMA CallUntouched ==
  ASSUME IInv, UNCHANGED <<Lengths, content, size, call, i, pos, k, buf>>,
         handle' \in [Files -> {"none", "open", "closed", "nil"}],
         mode' \in {"new", "ready", "closed", "exited", "crashed"},
         ci' \in -1 .. NumFiles, err' \in BOOLEAN, ret' \in Flat!Answers,
         Sizes', CallsWhenOpen', InStep'
  PROVE  IInv'
<1>1. TypeOK /\ Whole /\ Progress
  BY DEF IInv
<1>2. /\ NumFiles' = NumFiles /\ Files' = Files
      /\ pieceOffsets' = pieceOffsets /\ totalLength' = totalLength /\ flat' = flat
  BY LayoutKept
<1>3. TypeOK'
  BY <1>1, <1>2 DEF TypeOK
<1>4. Whole'
  BY <1>1, <1>2 DEF Whole
<1>5. Progress'
  BY <1>1, <1>2 DEF Progress
<1> QED
  BY <1>3, <1>4, <1>5 DEF IInv

\* Steps that open, close or give up files, and those that only set a flag.
LEMMA SetupStep ==
  ASSUME IInv,
         BeginCreate \/ CreateFails \/ Initialize \/ Crash \/ ReadFails \/ Close \/ UNCHANGED vars
  PROVE  IInv'
<1> USE DEF fileVars, callVars
<1>0. TypeOK /\ Sizes /\ CallsWhenOpen /\ InStep
  BY DEF IInv
<1>1. /\ NumFiles \in Nat \ {0} /\ ci \in -1 .. NumFiles /\ err \in BOOLEAN
      /\ ret \in Flat!Answers
      /\ handle \in [Files -> {"none", "open", "closed", "nil"}]
      /\ mode \in {"new", "ready", "closed", "exited", "crashed"}
  BY <1>0, Layout DEF TypeOK
<1>2. Lengths' = Lengths => /\ NumFiles' = NumFiles /\ Files' = Files
                            /\ pieceOffsets' = pieceOffsets /\ totalLength' = totalLength
  BY LayoutKept
<1>3. CASE BeginCreate
  <2>1. Sizes' /\ CallsWhenOpen' /\ InStep'
    BY <1>0, <1>1, <1>2, <1>3 DEF BeginCreate, Sizes, CallsWhenOpen, InStep
  <2> QED
    BY <1>1, <1>3, <2>1, CallUntouched DEF BeginCreate
<1>4. CASE CreateFails
  <2>1. Sizes' /\ CallsWhenOpen' /\ InStep'
    BY <1>0, <1>1, <1>2, <1>4 DEF CreateFails, Sizes, CallsWhenOpen, InStep
  <2> QED
    BY <1>1, <1>4, <2>1, CallUntouched DEF CreateFails
<1>5. CASE Initialize
  <2>1. Sizes' /\ CallsWhenOpen' /\ InStep'
    BY <1>0, <1>1, <1>2, <1>5 DEF Initialize, Sizes, CallsWhenOpen, InStep
  <2> QED
    BY <1>1, <1>5, <2>1, CallUntouched DEF Initialize
<1>6. CASE Crash
  <2>1. Sizes' /\ CallsWhenOpen' /\ InStep'
    BY <1>0, <1>1, <1>2, <1>6 DEF Crash, Round, Sizes, CallsWhenOpen, InStep
  <2> QED
    BY <1>1, <1>6, <2>1, CallUntouched DEF Crash
<1>7. CASE ReadFails
  <2>1. Sizes' /\ CallsWhenOpen' /\ InStep'
    <3>1. /\ err' = TRUE /\ mode' = "ready" /\ call' = call /\ call.op = "read"
          /\ mode = "ready" /\ UNCHANGED <<Lengths, size>>
      BY <1>7 DEF ReadFails, Round
    <3> QED
      BY <1>0, <3>1, IdleFacts DEF Sizes, CallsWhenOpen, InStep
  <2> QED
    BY <1>1, <1>7, <2>1, CallUntouched DEF ReadFails
<1>8. CASE Close
  <2>0. call = Idle /\ mode \in {"ready", "closed"} /\ UNCHANGED <<call, err, Lengths, size>>
    BY <1>8 DEF Close
  <2>2. handle' \in [Files -> {"none", "open", "closed", "nil"}]
    BY <1>1, <1>8 DEF Close
  <2>3. mode' \in {"ready", "closed", "crashed"}
    BY <1>1, <1>8 DEF Close
  <2>4. ret' \in Flat!Answers
    <3>1. \/ UNCHANGED ret
          \/ ret' = [op |-> "close", ok |-> TRUE, data |-> Empty]
          \/ ret' = [op |-> "close", ok |-> FALSE, data |-> Empty]
      BY <1>8, Zenon DEF Close
    <3> QED
      <4>1. ASSUME NEW b \in BOOLEAN PROVE [op |-> "close", ok |-> b, data |-> Empty] \in Flat!Answers
        BY EmptyFacts DEF Flat!Answers
      <4> QED
        BY <1>1, <3>1, <4>1, Zenon
  <2>1. Sizes' /\ CallsWhenOpen' /\ InStep'
    BY <1>0, <2>0, <2>3 DEF Sizes, CallsWhenOpen, InStep
  <2> QED
    BY <1>1, <1>8, <2>1, <2>2, <2>3, <2>4, CallUntouched DEF Close
<1>9. CASE UNCHANGED vars
  <2>1. Sizes' /\ CallsWhenOpen' /\ InStep'
    BY <1>0, <1>1, <1>2, <1>9 DEF vars, Sizes, CallsWhenOpen, InStep
  <2> QED
    BY <1>1, <1>9, <2>1, CallUntouched DEF vars
<1> QED
  BY <1>3, <1>4, <1>5, <1>6, <1>7, <1>8, <1>9

\* CreateFiles finds no call in progress.
LEMMA CreateStep == ASSUME IInv, CreateFile PROVE IInv'
<1> USE DEF fileVars, callVars
<1>0. TypeOK /\ Sizes /\ Whole /\ CallsWhenOpen /\ Progress
  BY DEF IInv
<1>1. /\ mode = "new" /\ ci \in -1 .. NumFiles /\ ci >= 0 /\ ci < NumFiles /\ ci' = ci + 1
      /\ UNCHANGED <<Lengths, handle, mode, call, i, pos, k, buf, err, ret>>
  BY <1>0 DEF CreateFile, TypeOK
<1>2. /\ NumFiles' = NumFiles /\ Files' = Files
      /\ pieceOffsets' = pieceOffsets /\ totalLength' = totalLength
  BY <1>1, LayoutKept
<1>3. NumFiles \in Nat \ {0} /\ ci' \in -1 .. NumFiles
  BY <1>0, <1>1, Layout
<1>4. size' = Lengths /\ Lengths \in [Files -> Nat]
  <2>1. NumFiles # 1 => NumFiles > 1
    BY <1>3
  <2> QED
    BY <1>0, <2>1, Layout DEF CreateFile, Sizes
<1>5. DOMAIN content' = Files /\ \A f \in Files : content'[f] \in [0 .. Lengths[f] - 1 -> Bytes]
  <2>1. CASE content' = [f \in Files |-> [o \in 0 .. Lengths[f] - 1 |-> Zero]]
    BY <2>1, FilesAssumption
  <2>2. CASE content' = content
    BY <1>0, <2>2 DEF TypeOK, Whole
  <2> QED
    BY <2>1, <2>2 DEF CreateFile
<1>6. TypeOK'
  BY <1>0, <1>1, <1>2, <1>3, <1>4, <1>5 DEF TypeOK
<1>7. Sizes' /\ Whole'
  BY <1>1, <1>2, <1>4, <1>5 DEF Sizes, Whole
<1>8. call = Idle
  BY <1>0, <1>1 DEF CallsWhenOpen
<1>9. CallsWhenOpen' /\ InStep'
  BY <1>0, <1>1, <1>8, Zenon DEF CallsWhenOpen, InStep
<1>10. k = 0
  BY <1>0, <1>8, IdleFacts, FilesAssumption DEF Progress, TypeOK
<1>11. Progress'
  BY <1>0, <1>1, <1>8, <1>10, IdleFacts DEF Progress
<1> QED
  BY <1>6, <1>7, <1>9, <1>11 DEF IInv

\* WritePiece and ReadPiece start at the first file.
LEMMA CallStarts ==
  ASSUME IInv, mode \in {"ready", "closed"}, call' \in Flat!Calls,
         i' = 1, pos' = call'.off, k' = 0, buf' = Empty, err' = FALSE,
         UNCHANGED <<Lengths, content, size, handle, mode, ci, ret>>
  PROVE  IInv'
<1>0. TypeOK /\ Sizes /\ Whole
  BY DEF IInv
<1>1. /\ NumFiles' = NumFiles /\ Files' = Files
      /\ pieceOffsets' = pieceOffsets /\ totalLength' = totalLength
  BY LayoutKept
<1>2. /\ call'.off \in Nat /\ call'.len \in Nat /\ call' # Idle
  <2>1. PICK c \in Flat!Calls : c = call'
    OBVIOUS
  <2>2. c.off \in Nat /\ c.len \in Nat
    BY CallFacts
  <2>3. c # Idle
    BY IdleFacts DEF Flat!Calls, Flat!WriteCalls, Flat!ReadCalls
  <2> QED
    BY <2>1, <2>2, <2>3
<1>3. NumFiles \in Nat \ {0} /\ pieceOffsets[1] = 0
  BY <1>0, Layout
<1>4. i' \in 1 .. NumFiles + 1 /\ k' \in 0 .. MaxLen
  BY <1>3, FilesAssumption
<1>5. TypeOK'
  BY <1>0, <1>1, <1>2, <1>4, EmptyFacts DEF TypeOK
<1>6. Sizes' /\ Whole'
  BY <1>0, <1>1 DEF Sizes, Whole
<1>7. CallsWhenOpen'
  BY DEF CallsWhenOpen
<1>8. InStep'
  BY <1>1, <1>2, <1>3 DEF InStep
<1>9. Progress'
  BY <1>2, EmptyFacts DEF Progress
<1> QED
  BY <1>5, <1>6, <1>7, <1>8, <1>9 DEF IInv

\* What WritePiece and ReadPiece are called with makes a call of FlatStore.
LEMMA NewCalls ==
  ASSUME NEW index \in 0 .. NumPieces - 1, NEW begin \in 0 .. PieceSize - 1
  PROVE  /\ \A data \in Flat!Strings :
               [op |-> "write", off |-> index * PieceSize + begin, data |-> data,
                len |-> Flat!Length(data)] \in Flat!Calls
         /\ \A length \in 0 .. MaxLen :
               [op |-> "read", off |-> index * PieceSize + begin, data |-> Empty,
                len |-> length] \in Flat!Calls
<1>1. PICK o \in Offsets : o = index * PieceSize + begin
  BY DEF Offsets
<1>2. ASSUME NEW data \in Flat!Strings
      PROVE  [op |-> "write", off |-> o, data |-> data, len |-> Flat!Length(data)]
                \in Flat!Calls
  BY DEF Flat!Calls, Flat!WriteCalls
<1>3. ASSUME NEW length \in 0 .. MaxLen
      PROVE  [op |-> "read", off |-> o, data |-> Empty, len |-> length] \in Flat!Calls
  BY DEF Flat!Calls, Flat!ReadCalls, Empty
<1> QED
  BY <1>1, <1>2, <1>3

\* A call begins: WritePiece and ReadPiece before their loops.
LEMMA BeginStep ==
  ASSUME IInv, NEW index \in 0 .. NumPieces - 1, NEW begin \in 0 .. PieceSize - 1,
         \/ \E data \in Flat!Strings : WritePiece(index, begin, data)
         \/ \E length \in 0 .. MaxLen : ReadPiece(index, begin, length)
  PROVE  IInv' /\ call = Idle /\ mode \in {"ready", "closed"} /\ call' \in Flat!Calls
<1> USE DEF fileVars, callVars
<1>1. ASSUME NEW data \in Flat!Strings, WritePiece(index, begin, data)
      PROVE  /\ IInv' /\ call = Idle /\ mode \in {"ready", "closed"}
             /\ call' \in Flat!Calls
  <2>1. call' \in Flat!Calls /\ pos' = call'.off
    BY <1>1, NewCalls DEF WritePiece
  <2> QED
    BY <1>1, <2>1, CallStarts DEF WritePiece
<1>2. ASSUME NEW length \in 0 .. MaxLen, ReadPiece(index, begin, length)
      PROVE  /\ IInv' /\ call = Idle /\ mode \in {"ready", "closed"}
             /\ call' \in Flat!Calls
  <2>1. call' \in Flat!Calls /\ pos' = call'.off
    BY <1>2, NewCalls DEF ReadPiece
  <2> QED
    BY <1>2, <2>1, CallStarts DEF ReadPiece
<1> QED
  BY <1>1, <1>2

\* The bound of the model is a number.
LEMMA MaxLenIsNat == MaxLen \in Nat
BY FilesAssumption

\* A round of a loop over the files.
LEMMA RoundFacts ==
  ASSUME IInv, NEW op \in {"write", "read"}, Round(op)
  PROVE  /\ mode = "ready" /\ call # Idle /\ call.op = op /\ ~err
         /\ i \in Files /\ i \in Nat /\ i # 0 /\ i <= NumFiles /\ NumFiles \in Nat
         /\ pos \in Nat /\ k \in Nat /\ call.off \in Nat /\ call.len \in Nat
         /\ call.len <= MaxLen /\ k <= call.len
         /\ Lengths[i] \in Nat /\ pieceOffsets[i] \in Nat /\ totalLength \in Nat
         /\ pieceOffsets[i + 1] = pieceOffsets[i] + Lengths[i]
         /\ pieceOffsets[i + 1] <= totalLength
         /\ i = NumFiles => pieceOffsets[i + 1] = totalLength
         /\ call.off + k = pieceOffsets[i] + pos
<1>0. TypeOK /\ InStep /\ Progress
  BY DEF IInv
<1>1. mode = "ready" /\ call.op = op /\ ~err /\ i <= NumFiles
  BY DEF Round
<1>2. call # Idle
  BY <1>1, IdleFacts
<1>3. i \in 1 .. NumFiles + 1 /\ pos \in Nat /\ k \in 0 .. MaxLen
      /\ call \in Flat!Calls \cup {Idle}
  BY <1>0 DEF TypeOK
<1>4. /\ NumFiles \in Nat \ {0} /\ Files = 1 .. NumFiles /\ totalLength \in Nat
      /\ pieceOffsets[NumFiles + 1] = totalLength
  BY <1>0, Layout
<1>5. i \in Files
  BY <1>1, <1>3, <1>4
<1>6. call.off \in Nat /\ call.len \in Nat /\ call.len \in 0 .. MaxLen
  BY <1>3, CallFacts
<1>7. call.off + k = pieceOffsets[i] + pos
  BY <1>0, <1>1, <1>2 DEF InStep
<1>8. k <= call.len
  BY <1>0 DEF Progress
<1> QED
  <2>1. /\ i \in Nat /\ i # 0 /\ i <= NumFiles /\ Lengths[i] \in Nat
        /\ pieceOffsets[i] \in Nat
        /\ pieceOffsets[i + 1] = pieceOffsets[i] + Lengths[i]
        /\ pieceOffsets[i + 1] <= totalLength
    BY <1>0, <1>5, FileLayout
  <2>2. k \in Nat /\ call.len <= MaxLen
    BY <1>3, <1>6, MaxLenIsNat
  <2> QED
    BY <1>1, <1>2, <1>3, <1>4, <1>5, <1>6, <1>7, <1>8, <2>1, <2>2

\* Both loops subtract the length of a file they skip.
LEMMA SkipStep == ASSUME IInv, WriteSkip \/ ReadSkip PROVE IInv'
<1> USE DEF fileVars, callVars
<1>0. TypeOK /\ Sizes /\ Whole /\ CallsWhenOpen /\ Progress
  BY DEF IInv
<1>1. PICK op \in {"write", "read"} : Round(op)
  BY DEF WriteSkip, ReadSkip
<1>2. /\ pos >= Lengths[i] /\ pos' = pos - Lengths[i] /\ i' = i + 1
      /\ UNCHANGED <<Lengths, content, size, handle, mode, ci, call, k, buf, err, ret>>
  BY <1>0 DEF WriteSkip, ReadSkip, Skipped, Sizes, Round
<1>3. /\ NumFiles' = NumFiles /\ Files' = Files /\ flat' = flat
      /\ pieceOffsets' = pieceOffsets /\ totalLength' = totalLength
  BY <1>2, LayoutKept
<1>4. i' \in 1 .. NumFiles + 1 /\ pos' \in Nat
  BY <1>1, <1>2, RoundFacts
<1>5. TypeOK'
  BY <1>0, <1>2, <1>3, <1>4 DEF TypeOK
<1>6. Sizes' /\ Whole' /\ CallsWhenOpen' /\ Progress'
  BY <1>0, <1>2, <1>3 DEF Sizes, Whole, CallsWhenOpen, Progress
<1>7. InStep'
  <2>1. call.off + k = pieceOffsets[i + 1] + pos'
    BY <1>1, <1>2, RoundFacts
  <2>2. i + 1 <= NumFiles \/ pieceOffsets[i + 1] = totalLength
    BY <1>1, RoundFacts
  <2> QED
    BY <1>2, <1>3, <2>1, <2>2 DEF InStep
<1> QED
  BY <1>5, <1>6, <1>7 DEF IInv

\* What reaches file i lies inside it, so its size stays, and inside the
\* torrent; the bytes are those of the data.
LEMMA WriteAtFacts ==
  ASSUME IInv, Round("write"), pos < Lengths[i], NEW n \in 0 .. WriteLength, WriteAt(n),
         UNCHANGED Lengths
  PROVE  /\ n \in Nat /\ n <= call.len - k /\ n <= Lengths[i] - pos
         /\ size' = size
         /\ DOMAIN content' = Files
         /\ \A f \in Files : content'[f] \in [0 .. Lengths[f] - 1 -> Bytes]
         /\ k' = k + n /\ k' \in 0 .. MaxLen /\ k' <= call.len
         /\ k' > 0 => call.off + k' <= totalLength
<1>0. TypeOK /\ Sizes /\ Whole /\ Progress
  BY DEF IInv
<1>1. /\ i \in Files /\ pos \in Nat /\ k \in Nat /\ call.len \in Nat /\ k <= call.len
      /\ Lengths[i] \in Nat /\ call.len <= MaxLen /\ call.op = "write"
  BY RoundFacts
<1>2. n \in Nat /\ n <= call.len - k /\ n <= Lengths[i] - pos
  BY <1>1 DEF WriteLength
<1>3. size' = size
  <2>1. size[i] = Lengths[i] /\ size \in [Files -> Nat]
    BY <1>0 DEF Sizes, TypeOK, Round
  <2>2. ~(n > 0 /\ pos + n > size[i])
    BY <1>1, <1>2, <2>1
  <2>3. size' = [size EXCEPT ![i] = size[i]]
    BY <2>2 DEF WriteAt
  <2> QED
    BY <1>1, <2>1, <2>3
<1>4. call.data \in [0 .. call.len - 1 -> Bytes]
  BY <1>0, <1>1, CallFacts DEF TypeOK
<1>5. content[i] \in [0 .. Lengths[i] - 1 -> Bytes]
  BY <1>0, <1>1 DEF TypeOK
<1>6. content' = [content EXCEPT ![i] =
                      [o \in 0 .. Lengths[i] - 1 |->
                          IF pos <= o /\ o < pos + n THEN call.data[k + o - pos]
                          ELSE content[i][o]]]
  BY <1>5 DEF WriteAt
<1>7. ASSUME NEW o \in 0 .. Lengths[i] - 1
      PROVE  (IF pos <= o /\ o < pos + n THEN call.data[k + o - pos] ELSE content[i][o])
                \in Bytes
  <2>1. CASE pos <= o /\ o < pos + n
    <3>1. k + o - pos \in 0 .. call.len - 1
      BY <1>1, <1>2, <2>1
    <3> QED
      BY <1>4, <2>1, <3>1
  <2>2. CASE ~(pos <= o /\ o < pos + n)
    BY <1>5, <2>2
  <2> QED
    BY <2>1, <2>2
<1>8. DOMAIN content' = Files
  BY <1>0, <1>6 DEF Whole
<1>9. ASSUME NEW f \in Files PROVE content'[f] \in [0 .. Lengths[f] - 1 -> Bytes]
  <2>1. CASE f = i
    BY <1>0, <1>1, <1>6, <1>7, <2>1 DEF Whole
  <2>2. CASE f # i
    BY <1>0, <1>6, <2>2 DEF Whole, TypeOK
  <2> QED
    BY <2>1, <2>2
<1>10. k' = k + n /\ k' \in 0 .. MaxLen /\ k' <= call.len
  <2>1. k' = k + n
    BY DEF WriteAt
  <2> QED
    BY <1>1, <1>2, <2>1, FilesAssumption
<1>11. k' > 0 => call.off + k' <= totalLength
  <2>1. /\ call.off + k = pieceOffsets[i] + pos /\ call.off \in Nat
        /\ pieceOffsets[i] \in Nat /\ totalLength \in Nat
        /\ pieceOffsets[i] + Lengths[i] <= totalLength
    BY RoundFacts
  <2> QED
    BY <1>1, <1>2, <1>10, <2>1
<1> QED
  BY <1>2, <1>3, <1>8, <1>9, <1>10, <1>11

\* The parts of the invariant that a write keeps whether it fails or not.
LEMMA WrittenKept ==
  ASSUME IInv, Round("write"), pos < Lengths[i], NEW n \in 0 .. WriteLength, WriteAt(n),
         i' \in 1 .. NumFiles + 1, pos' \in Nat, err' \in BOOLEAN,
         UNCHANGED <<Lengths, handle, mode, ci, call, buf, ret>>
  PROVE  /\ TypeOK' /\ Sizes' /\ Whole' /\ CallsWhenOpen' /\ Progress'
<1>0. TypeOK /\ Sizes /\ Whole /\ Progress
  BY DEF IInv
<1>1. /\ size' = size
      /\ DOMAIN content' = Files
      /\ \A f \in Files : content'[f] \in [0 .. Lengths[f] - 1 -> Bytes]
      /\ k' \in 0 .. MaxLen /\ k' <= call.len
      /\ k' > 0 => call.off + k' <= totalLength
  BY WriteAtFacts
<1>2. /\ NumFiles' = NumFiles /\ Files' = Files
      /\ pieceOffsets' = pieceOffsets /\ totalLength' = totalLength
  BY LayoutKept
<1>3. TypeOK'
  BY <1>0, <1>1, <1>2 DEF TypeOK
<1>4. Sizes' /\ Whole'
  BY <1>0, <1>1, <1>2 DEF Sizes, Whole
<1>5. mode = "ready" /\ call # Idle /\ call.op = "write"
  BY RoundFacts
<1>6. CallsWhenOpen'
  BY <1>5 DEF CallsWhenOpen
<1>7. Progress'
  BY <1>0, <1>1, <1>2, <1>5 DEF Progress
<1> QED
  BY <1>3, <1>4, <1>6, <1>7

\* A round of WritePiece that writes.
LEMMA WriteStep == ASSUME IInv, WriteFile PROVE IInv'
<1>1. /\ Round("write") /\ pos < Lengths[i] /\ WriteAt(WriteLength)
      /\ i' = (IF k' = call.len THEN NumFiles + 1 ELSE i + 1) /\ pos' = 0
      /\ UNCHANGED <<Lengths, handle, mode, ci, call, buf, err, ret>>
  BY DEF WriteFile
<1>2. /\ mode = "ready" /\ call # Idle /\ call.op = "write" /\ ~err
      /\ i \in Files /\ i \in Nat /\ i # 0 /\ i <= NumFiles /\ NumFiles \in Nat
      /\ pos \in Nat /\ k \in Nat /\ call.off \in Nat /\ call.len \in Nat
      /\ k <= call.len
      /\ Lengths[i] \in Nat /\ pieceOffsets[i] \in Nat /\ totalLength \in Nat
      /\ pieceOffsets[i + 1] = pieceOffsets[i] + Lengths[i]
      /\ i = NumFiles => pieceOffsets[i + 1] = totalLength
      /\ call.off + k = pieceOffsets[i] + pos
  BY <1>1, RoundFacts
<1>3. /\ WriteLength \in Nat
      /\ WriteLength = call.len - k \/ WriteLength = Lengths[i] - pos
  BY <1>1, <1>2 DEF WriteLength
<1>4. WriteLength \in 0 .. WriteLength
  BY <1>3
<1>5. i' \in 1 .. NumFiles + 1 /\ pos' \in Nat
  BY <1>1, <1>2
<1>6. err' \in BOOLEAN
  BY <1>1 DEF IInv, TypeOK
<1>7. TypeOK' /\ Sizes' /\ Whole' /\ CallsWhenOpen' /\ Progress'
  BY <1>1, <1>4, <1>5, <1>6, WrittenKept
<1>8. InStep'
  <2>1. k' = k + WriteLength
    BY <1>1 DEF WriteAt
  <2>2. /\ NumFiles' = NumFiles /\ pieceOffsets' = pieceOffsets
        /\ totalLength' = totalLength
    BY <1>1, LayoutKept
  <2>3. CASE k' = call.len
    BY <1>1, <1>2, <2>2, <2>3 DEF InStep
  <2>4. CASE k' # call.len
    <3>1. call.off + k' = pieceOffsets[i + 1] + pos' /\ i' = i + 1
      BY <1>1, <1>2, <1>3, <2>1, <2>4
    <3> QED
      BY <1>1, <1>2, <2>2, <3>1 DEF InStep
  <2> QED
    BY <2>3, <2>4
<1> QED
  BY <1>7, <1>8 DEF IInv

\* A round of WritePiece that the disk breaks off.
LEMMA WriteFailsStep == ASSUME IInv, WriteFails PROVE IInv'
<1>0. TypeOK
  BY DEF IInv
<1>1. /\ Round("write") /\ pos < Lengths[i] /\ err' = TRUE
      /\ UNCHANGED <<Lengths, handle, mode, ci, call, i, pos, buf, ret>>
  BY DEF WriteFails
<1>2. InStep'
  BY <1>1 DEF InStep
<1>3. CASE UNCHANGED <<content, size, k>>
  <2>1. Sizes' /\ CallsWhenOpen'
    <3>1. Sizes /\ mode = "ready" /\ call # Idle
      BY <1>1, RoundFacts DEF IInv
    <3> QED
      BY <1>1, <1>3, <3>1 DEF Sizes, CallsWhenOpen
  <2> QED
    BY <1>0, <1>1, <1>2, <1>3, <2>1, CallUntouched DEF TypeOK
<1>4. ASSUME NEW n \in 0 .. WriteLength - 1, WriteAt(n) PROVE IInv'
  <2>1. WriteLength \in Nat
    BY <1>1, RoundFacts DEF WriteLength
  <2>2. n \in 0 .. WriteLength
    BY <2>1
  <2>3. i' \in 1 .. NumFiles + 1 /\ pos' \in Nat /\ err' \in BOOLEAN
    BY <1>0, <1>1 DEF TypeOK
  <2> QED
    BY <1>1, <1>2, <1>4, <2>2, <2>3, WrittenKept DEF IInv
<1> QED
  BY <1>3, <1>4 DEF WriteFails

\* A round of ReadPiece that reads.
LEMMA ReadStep == ASSUME IInv, ReadFile PROVE IInv'
<1> USE DEF fileVars, callVars
<1>0. TypeOK /\ Sizes /\ Whole /\ CallsWhenOpen /\ Progress
  BY DEF IInv
<1>1. PICK n :
      /\ n = (IF call.len - k < size[i] - pos THEN call.len - k ELSE size[i] - pos)
      /\ Round("read") /\ pos < size[i]
      /\ buf' = [j \in 0 .. k + n - 1 |-> IF j < k THEN buf[j] ELSE content[i][pos + j - k]]
      /\ k' = k + n
      /\ i' = (IF k' = call.len THEN NumFiles + 1 ELSE i + 1) /\ pos' = 0
      /\ UNCHANGED <<Lengths, content, size, handle, mode, ci, call, err, ret>>
  BY DEF ReadFile, SeekTo
<1>2. /\ mode = "ready" /\ call # Idle /\ call.op = "read" /\ ~err
      /\ i \in Files /\ i \in Nat /\ i # 0 /\ i <= NumFiles /\ NumFiles \in Nat
      /\ pos \in Nat /\ k \in Nat /\ call.off \in Nat /\ call.len \in Nat
      /\ k <= call.len /\ call.len <= MaxLen
      /\ Lengths[i] \in Nat /\ pieceOffsets[i] \in Nat /\ totalLength \in Nat
      /\ pieceOffsets[i + 1] = pieceOffsets[i] + Lengths[i]
      /\ pieceOffsets[i + 1] <= totalLength
      /\ i = NumFiles => pieceOffsets[i + 1] = totalLength
      /\ call.off + k = pieceOffsets[i] + pos
  BY <1>1, RoundFacts
<1>3. size[i] = Lengths[i]
  BY <1>0, <1>2 DEF Sizes
<1>4. /\ n \in Nat /\ n <= call.len - k /\ n <= Lengths[i] - pos
      /\ n = call.len - k \/ n = Lengths[i] - pos
  <2>1. n = (IF call.len - k < Lengths[i] - pos THEN call.len - k ELSE Lengths[i] - pos)
    BY <1>1, <1>3
  <2>2. pos < Lengths[i]
    BY <1>1, <1>3
  <2> QED
    BY <1>2, <2>1, <2>2
<1>5. /\ NumFiles' = NumFiles /\ Files' = Files /\ flat' = flat
      /\ pieceOffsets' = pieceOffsets /\ totalLength' = totalLength
  BY <1>1, LayoutKept
<1>6. k' \in 0 .. MaxLen /\ k' \in Nat /\ k' <= call.len /\ call.off + k' <= totalLength
  <2>1. k' = k + n
    BY <1>1
  <2>2. pieceOffsets[i] + Lengths[i] <= totalLength
    BY <1>2
  <2>3. k' \in Nat /\ k' <= call.len /\ call.off + k' <= totalLength
    BY <1>2, <1>4, <2>1, <2>2
  <2> QED
    BY <1>2, <2>3, FilesAssumption
<1>6a. buf' = [j \in 0 .. k' - 1 |-> IF j < k THEN buf[j] ELSE content[i][pos + j - k]]
  <2>1. /\ k' = k + n
        /\ buf' = [j \in 0 .. k + n - 1 |->
                      IF j < k THEN buf[j] ELSE content[i][pos + j - k]]
    BY <1>1
  <2>2. k' - 1 = k + n - 1
    BY <1>2, <1>4, <2>1
  <2> QED
    BY <2>1, <2>2
<1>7. /\ buf \in [0 .. k - 1 -> Bytes]
      /\ \A j \in 0 .. k - 1 : buf[j] = flat[call.off + j]
  BY <1>0, <1>2 DEF Progress
<1>8. ASSUME NEW j \in 0 .. k' - 1
      PROVE  buf'[j] \in Bytes /\ buf'[j] = flat[call.off + j]
  <2>1. buf'[j] = IF j < k THEN buf[j] ELSE content[i][pos + j - k]
    BY <1>6a, Zenon
  <2>2. CASE j < k
    <3>1. j \in 0 .. k - 1
      BY <1>2, <2>2
    <3> QED
      BY <1>7, <2>1, <2>2, <3>1
  <2>3. CASE ~(j < k)
    <3>1. PICK o : o = pos + j - k
      OBVIOUS
    <3>2. o \in 0 .. Lengths[i] - 1 /\ call.off + j = pieceOffsets[i] + o
      <4>1. k' = k + n
        BY <1>1
      <4> QED
        BY <1>2, <1>4, <2>3, <3>1, <4>1
    <3>3. flat[pieceOffsets[i] + o] = content[i][o]
      BY <1>0, <1>1, <1>2, <3>2, FlatBytes
    <3>4. content[i][o] \in Bytes
      BY <1>0, <1>2, <3>2 DEF TypeOK
    <3> QED
      BY <2>1, <2>3, <3>1, <3>2, <3>3, <3>4
  <2> QED
    BY <2>2, <2>3
<1>9. buf' \in [0 .. k' - 1 -> Bytes]
  <2>1. buf' = [j \in 0 .. k' - 1 |-> buf'[j]]
    BY <1>6a, Zenon
  <2> QED
    BY <1>8, <2>1
<1>10. buf' \in Flat!Strings
  BY <1>6, <1>9, StringFacts
<1>11. i' \in 1 .. NumFiles + 1 /\ pos' \in Nat
  <2>1. (i' = NumFiles + 1 \/ i' = i + 1) /\ pos' = 0
    BY <1>1
  <2> QED
    BY <1>2, <2>1
<1>12. TypeOK'
  BY <1>0, <1>1, <1>5, <1>6, <1>10, <1>11 DEF TypeOK
<1>13. Sizes' /\ Whole' /\ CallsWhenOpen'
  BY <1>0, <1>1, <1>5 DEF Sizes, Whole, CallsWhenOpen
<1>14. Progress'
  BY <1>1, <1>2, <1>5, <1>6, <1>8, <1>9 DEF Progress
<1>15. InStep'
  <2>1. CASE k' = call.len
    BY <1>1, <1>2, <1>5, <2>1 DEF InStep
  <2>2. CASE k' # call.len
    <3>1. call.off + k' = pieceOffsets[i + 1] + pos' /\ i' = i + 1
      <4>1. k' = k + n /\ pos' = 0 /\ i' = i + 1
        BY <1>1, <2>2
      <4> QED
        BY <1>2, <1>4, <2>2, <4>1
    <3> QED
      BY <1>1, <1>2, <1>5, <3>1 DEF InStep
  <2> QED
    BY <2>1, <2>2
<1> QED
  BY <1>12, <1>13, <1>14, <1>15 DEF IInv

\* The end of a call.
LEMMA ReturnStep == ASSUME IInv, Return PROVE IInv'
<1> USE DEF fileVars, callVars
<1>0. TypeOK /\ Sizes /\ Whole /\ CallsWhenOpen
  BY DEF IInv
<1>1. /\ call' = Idle /\ i' = 1 /\ pos' = 0 /\ k' = 0 /\ buf' = Empty /\ err' = FALSE
      /\ UNCHANGED <<Lengths, content, size, handle, mode, ci>>
  BY DEF Return
<1>2. /\ NumFiles' = NumFiles /\ Files' = Files
      /\ pieceOffsets' = pieceOffsets /\ totalLength' = totalLength
  BY <1>1, LayoutKept
<1>4. ret' \in Flat!Answers
  <2>1. call \in Flat!Calls \cup {Idle} /\ buf \in Flat!Strings /\ (~err) \in BOOLEAN
    BY <1>0 DEF TypeOK
  <2>2. call.op \in {"none", "write", "read"}
    BY <2>1, CallFacts
  <2>3. (IF ~err THEN buf ELSE Empty) \in Flat!Strings
    BY <2>1, EmptyFacts
  <2>4. ret' = [op |-> call.op, ok |-> ~err, data |-> IF ~err THEN buf ELSE Empty]
    BY DEF Return, Succeeds
  <2> QED
    BY <2>1, <2>2, <2>3, <2>4 DEF Flat!Answers
<1>5. i' \in 1 .. NumFiles + 1 /\ pos' \in Nat /\ k' \in 0 .. MaxLen
  BY <1>0, <1>1, Layout, FilesAssumption
<1>6. TypeOK'
  BY <1>0, <1>1, <1>2, <1>4, <1>5, EmptyFacts DEF TypeOK
<1>7. Sizes' /\ Whole' /\ CallsWhenOpen' /\ InStep'
  BY <1>0, <1>1, <1>2 DEF Sizes, Whole, CallsWhenOpen, InStep
<1>8. Progress'
  BY <1>1, IdleFacts DEF Progress
<1> QED
  BY <1>6, <1>7, <1>8 DEF IInv

\* Every step keeps the invariant.
LEMMA IInvStep == IInv /\ [Next]_vars => IInv'
<1> SUFFICES ASSUME IInv, [Next]_vars PROVE IInv'
  OBVIOUS
<1>1. CASE BeginCreate \/ CreateFails \/ Initialize \/ Crash \/ ReadFails \/ Close
           \/ Stopped \/ UNCHANGED vars
  BY <1>1, SetupStep DEF Stopped
<1>2. CASE \E index \in 0 .. NumPieces - 1, begin \in 0 .. PieceSize - 1 :
              \/ \E data \in Flat!Strings : WritePiece(index, begin, data)
              \/ \E length \in 0 .. MaxLen : ReadPiece(index, begin, length)
  BY <1>2, BeginStep
<1>3. CASE CreateFile \/ WriteSkip \/ ReadSkip \/ WriteFile \/ WriteFails \/ ReadFile \/ Return
  BY <1>3, CreateStep, SkipStep, WriteStep, WriteFailsStep, ReadStep, ReturnStep
<1> QED
  BY <1>1, <1>2, <1>3 DEF Next

-----------------------------------------------------------------------------
(* The files implement FlatStore.                                          *)

\* FlatStore's array has the length of the torrent.
LEMMA TotalIs == ASSUME TypeOK PROVE Flat!Total = totalLength
<1>1. DOMAIN flat = 0 .. totalLength - 1
  BY DEF flat
<1>2. totalLength \in Nat
  BY Layout
<1>3. Cardinality(0 .. totalLength - 1) = totalLength
  BY <1>2, FS_Interval
<1>4. ASSUME NEW S PROVE Flat!Cardinality(S) = Cardinality(S)
  BY DEF Flat!Cardinality, Cardinality
<1> QED
  BY <1>1, <1>3, <1>4 DEF Flat!Total

\* n bytes of a call that lie in the torrent are within its reach.
LEMMA WithinReach ==
  ASSUME TypeOK, NEW n \in Nat, call.off \in Nat, call.len \in Nat,
         n <= call.len, call.off + n <= totalLength, n > 0
  PROVE  n <= Flat!Reach(call)
<1>1. Flat!Total = totalLength /\ totalLength \in Nat
  BY TotalIs, Layout
<1>2. /\ ~(call.off >= totalLength)
      /\ ~(call.len <= totalLength - call.off) => n <= totalLength - call.off
  BY <1>1
<1> QED
  BY <1>1, <1>2 DEF Flat!Reach

\* A step that FlatStore does not see.
LEMMA Unseen ==
  ASSUME TypeOK, UNCHANGED <<Lengths, content, mode, call, k, buf, ret>>
  PROVE  UNCHANGED Flat!flatVars
<1>1. flat' = flat
  BY LayoutKept
<1> QED
  BY <1>1 DEF Flat!flatVars

\* The initial states are initial states of FlatStore.
LEMMA InitRefines == ASSUME FullSizes PROVE Init => Flat!FlatInit
<1> SUFFICES ASSUME Init PROVE Flat!FlatInit
  OBVIOUS
<1>1. TypeOK
  BY InitIInv DEF IInv
<1>2. Flat!Total = totalLength /\ DOMAIN flat = 0 .. totalLength - 1
  BY <1>1, TotalIs DEF flat
<1>3. ASSUME NEW c \in DOMAIN flat PROVE flat[c] \in Bytes
  <2>1. PICK f \in 1 .. Len(Lengths) : \E o \in 0 .. Lengths[f] - 1 :
           c = OffsetsOf(Lengths)[f] + o
    BY <1>1, <1>2, Layout, LayoutNow, FileAtExists
  <2>2. PICK o \in 0 .. Lengths[f] - 1 : c = OffsetsOf(Lengths)[f] + o
    BY <2>1
  <2>3. flat[c] = content[f][o]
    <3>1. Lengths \in Seq(Nat) /\ flat = FlatOf(Lengths, content)
      BY <1>1, Layout, LayoutNow
    <3>2. FlatOf(Lengths, content)[OffsetsOf(Lengths)[f] + o] = content[f][o]
      BY <3>1, FlatFacts
    <3> QED
      BY <2>2, <3>1, <3>2
  <2>4. f \in Files
    BY DEF Files, NumFiles
  <2> QED
    BY <1>1, <2>3, <2>4 DEF TypeOK
<1>4. /\ mode = "new" /\ call = Idle /\ k = 0 /\ buf = Empty
      /\ ret = [op |-> "none", ok |-> TRUE, data |-> Empty]
  BY DEF Init
<1> QED
  BY <1>2, <1>3, <1>4 DEF Flat!FlatInit, Idle, Empty

\* CreateFiles, Initialize and Close in terms of FlatStore.
LEMMA SetupRefines ==
  ASSUME IInv, BeginCreate \/ CreateFile \/ CreateFails \/ Initialize \/ Crash \/ Close
  PROVE  [Flat!FlatNext]_(Flat!flatVars)
<1> USE DEF fileVars, callVars
<1>0. TypeOK /\ Whole
  BY DEF IInv
<1>1. CASE BeginCreate
  BY <1>0, <1>1, Unseen DEF BeginCreate
<1>2. CASE CreateFile
  <2>1. UNCHANGED <<Lengths, mode, call, k, buf, ret>> /\ mode = "new"
    BY <1>2 DEF CreateFile
  <2>2. CASE UNCHANGED content
    BY <1>0, <2>1, <2>2, Unseen
  <2>3. CASE content' = [f \in Files |-> [o \in 0 .. Lengths[f] - 1 |-> Zero]]
    <3>1. ASSUME NEW c \in 0 .. totalLength - 1 PROVE flat'[c] = Zero
      <4>1. PICK f \in Files : \E o \in 0 .. Lengths[f] - 1 : c = pieceOffsets[f] + o
        BY <1>0, <2>1, FlatBytes
      <4>2. PICK o \in 0 .. Lengths[f] - 1 : c = pieceOffsets[f] + o
        BY <4>1
      <4>3. flat'[c] = content'[f][o]
        BY <1>0, <2>1, <4>2, FlatBytes
      <4> QED
        BY <2>3, <4>3
    <3>2. flat' = [c \in 0 .. totalLength - 1 |-> flat'[c]]
      BY <1>0, <2>1, FlatBytes
    <3>3. flat' = [c \in 0 .. Flat!Total - 1 |-> Zero]
      BY <1>0, <3>1, <3>2, TotalIs
    <3> QED
      BY <2>1, <3>3 DEF Flat!FlatNext, Flat!Format
  <2> QED
    BY <1>2, <2>2, <2>3 DEF CreateFile
<1>3. CASE CreateFails \/ Crash
  <2>1. UNCHANGED <<Lengths, content, call, k, buf, ret>> /\ mode' \in {"exited", "crashed"}
    BY <1>3 DEF CreateFails, Crash
  <2>2. flat' = flat
    BY <2>1, LayoutKept
  <2> QED
    BY <2>1, <2>2 DEF Flat!FlatNext, Flat!Vanish
<1>4. CASE Initialize
  <2>1. UNCHANGED <<Lengths, content, call, k, buf, ret>> /\ mode = "new" /\ mode' = "ready"
    BY <1>4 DEF Initialize
  <2>2. flat' = flat
    BY <2>1, LayoutKept
  <2> QED
    BY <2>1, <2>2 DEF Flat!FlatNext, Flat!Attach
<1>5. CASE Close
  <2>1. UNCHANGED <<Lengths, content, call, k, buf>> /\ mode \in {"ready", "closed"} /\ call = Idle
    BY <1>5 DEF Close
  <2>2. flat' = flat
    BY <2>1, LayoutKept
  <2>3. \/ mode' = "closed" /\ ret' = [op |-> "close", ok |-> TRUE, data |-> Empty]
        \/ mode' = mode /\ ret' = [op |-> "close", ok |-> FALSE, data |-> Empty]
        \/ mode' = "crashed" /\ ret' = ret
    BY <1>5 DEF Close
  <2>4. CASE mode' = "closed" /\ ret' = [op |-> "close", ok |-> TRUE, data |-> Empty]
    BY <2>1, <2>2, <2>4 DEF Flat!FlatNext, Flat!CloseStore, Idle, Empty
  <2>5. CASE mode' = mode /\ ret' = [op |-> "close", ok |-> FALSE, data |-> Empty]
    BY <2>1, <2>2, <2>5 DEF Flat!FlatNext, Flat!CloseStore, Idle, Empty
  <2>6. CASE mode' = "crashed" /\ ret' = ret
    BY <2>1, <2>2, <2>6 DEF Flat!FlatNext, Flat!Vanish
  <2> QED
    BY <2>3, <2>4, <2>5, <2>6
<1> QED
  BY <1>1, <1>2, <1>3, <1>4, <1>5

\* A round that writes n bytes is a Put of FlatStore, or nothing at all.
LEMMA WriteRefines ==
  ASSUME IInv, Round("write"), pos < Lengths[i], NEW n \in 0 .. WriteLength, WriteAt(n),
         UNCHANGED <<Lengths, mode, call, buf, ret>>
  PROVE  [Flat!FlatNext]_(Flat!flatVars)
<1>0. TypeOK /\ Whole
  BY DEF IInv
<1>1. /\ mode = "ready" /\ call.op = "write"
      /\ i \in Files /\ i \in Nat /\ pos \in Nat /\ k \in Nat
      /\ call.off \in Nat /\ call.len \in Nat /\ k <= call.len /\ call.len <= MaxLen
      /\ Lengths[i] \in Nat /\ pieceOffsets[i] \in Nat /\ totalLength \in Nat
      /\ pieceOffsets[i] + Lengths[i] <= totalLength
      /\ call.off + k = pieceOffsets[i] + pos
  BY RoundFacts
<1>2. /\ n \in Nat /\ n <= call.len - k /\ n <= Lengths[i] - pos /\ k' = k + n
  BY WriteAtFacts
<1>3. content[i] \in [0 .. Lengths[i] - 1 -> Bytes]
  BY <1>0, <1>1 DEF TypeOK
<1>4. content' = [content EXCEPT ![i] =
                      [o \in 0 .. Lengths[i] - 1 |->
                          IF pos <= o /\ o < pos + n THEN call.data[k + o - pos]
                          ELSE content[i][o]]]
  BY <1>3 DEF WriteAt
<1>5. ASSUME NEW c \in 0 .. totalLength - 1
      PROVE  flat'[c] = IF call.off + k <= c /\ c < call.off + k + n
                        THEN call.data[c - call.off] ELSE flat[c]
  <2>1. PICK f \in Files : \E o \in 0 .. Lengths[f] - 1 : c = pieceOffsets[f] + o
    BY <1>0, FlatBytes
  <2>2. PICK o \in 0 .. Lengths[f] - 1 : c = pieceOffsets[f] + o
    BY <2>1
  <2>3. flat'[c] = content'[f][o] /\ flat[c] = content[f][o]
    BY <1>0, <2>2, FlatBytes
  <2>4. /\ f \in Nat /\ Lengths[f] \in Nat /\ pieceOffsets[f] \in Nat
    BY <1>0, FileLayout
  <2>5. CASE f = i
    <3>1. content'[f][o] = IF pos <= o /\ o < pos + n THEN call.data[k + o - pos]
                           ELSE content[f][o]
      BY <1>0, <1>1, <1>4, <2>5 DEF Whole
    <3>2. (pos <= o /\ o < pos + n) <=> (call.off + k <= c /\ c < call.off + k + n)
      BY <1>1, <1>2, <2>2, <2>4, <2>5
    <3>3. k + o - pos = c - call.off
      BY <1>1, <2>2, <2>4, <2>5
    <3> QED
      BY <2>3, <3>1, <3>2, <3>3
  <2>6. CASE f # i
    <3>1. content'[f] = content[f]
      BY <1>0, <1>4, <2>6 DEF Whole
    <3>2. ~(call.off + k <= c /\ c < call.off + k + n)
      <4>1. f < i => pieceOffsets[f] + Lengths[f] <= pieceOffsets[i]
        <5>1. f < i => pieceOffsets[f + 1] <= pieceOffsets[i]
          BY <1>0, <1>1, Layout, LayoutNow, FilesApart DEF Files, NumFiles
        <5> QED
          BY <1>0, <5>1, FileLayout
      <4>2. i < f => pieceOffsets[i] + Lengths[i] <= pieceOffsets[f]
        <5>1. i < f => pieceOffsets[i + 1] <= pieceOffsets[f]
          BY <1>0, <1>1, Layout, LayoutNow, FilesApart DEF Files, NumFiles
        <5> QED
          BY <1>0, <1>1, <5>1, FileLayout
      <4>3. o \in Nat /\ o < Lengths[f]
        BY <2>4
      <4>4. CASE f < i
        BY <1>1, <1>2, <2>2, <2>4, <4>1, <4>3, <4>4
      <4>5. CASE i < f
        BY <1>1, <1>2, <2>2, <2>4, <4>2, <4>3, <4>5
      <4> QED
        BY <1>1, <2>4, <2>6, <4>4, <4>5
    <3> QED
      BY <2>3, <3>1, <3>2
  <2> QED
    BY <2>5, <2>6
<1>6. /\ flat' = [c \in 0 .. totalLength - 1 |-> flat'[c]]
      /\ flat = [c \in 0 .. totalLength - 1 |-> flat[c]]
      /\ Flat!Total = totalLength
  BY <1>0, FlatBytes, TotalIs
<1>7. CASE n = 0
  <2>1. ASSUME NEW c \in 0 .. totalLength - 1 PROVE flat'[c] = flat[c]
    <3>1. c \in Nat
      BY <1>1
    <3>2. ~(call.off + k <= c /\ c < call.off + k + n)
      BY <1>1, <1>7, <3>1
    <3> QED
      BY <1>5, <3>2
  <2>2. flat' = flat /\ k' = k
    BY <1>1, <1>2, <1>6, <1>7, <2>1
  <2> QED
    BY <2>2 DEF Flat!flatVars
<1>8. CASE n # 0
  <2>1. n \in 1 .. MaxLen
    BY <1>1, <1>2, <1>8, FilesAssumption
  <2>2. k + n <= Flat!Reach(call)
    <3>1. /\ k + n <= call.len /\ call.off + (k + n) <= totalLength
          /\ k + n > 0 /\ k + n \in Nat
      BY <1>1, <1>2, <1>8
    <3> QED
      BY <1>0, <1>1, <3>1, WithinReach
  <2>3. flat' = [c \in 0 .. Flat!Total - 1 |->
                    IF call.off + k <= c /\ c < call.off + k + n
                    THEN call.data[c - call.off] ELSE flat[c]]
    BY <1>5, <1>6
  <2>4. Flat!Put(n)
    BY <1>1, <1>2, <2>2, <2>3 DEF Flat!Put
  <2> QED
    BY <2>1, <2>4 DEF Flat!FlatNext
<1> QED
  BY <1>7, <1>8

\* A round that reads n bytes is a Get of FlatStore, or nothing at all.
LEMMA ReadRefines ==
  ASSUME IInv, ReadFile
  PROVE  [Flat!FlatNext]_(Flat!flatVars)
<1> USE DEF fileVars
<1>0. TypeOK /\ Sizes /\ Progress
  BY DEF IInv
<1>1. PICK n :
      /\ n = (IF call.len - k < size[i] - pos THEN call.len - k ELSE size[i] - pos)
      /\ Round("read") /\ pos < size[i]
      /\ buf' = [j \in 0 .. k + n - 1 |-> IF j < k THEN buf[j] ELSE content[i][pos + j - k]]
      /\ k' = k + n
      /\ UNCHANGED <<Lengths, content, mode, call, ret>>
  BY DEF ReadFile, SeekTo
<1>2. /\ mode = "ready" /\ call.op = "read"
      /\ i \in Files /\ pos \in Nat /\ k \in Nat
      /\ call.off \in Nat /\ call.len \in Nat /\ k <= call.len /\ call.len <= MaxLen
      /\ Lengths[i] \in Nat /\ pieceOffsets[i] \in Nat /\ totalLength \in Nat
      /\ pieceOffsets[i] + Lengths[i] <= totalLength
      /\ call.off + k = pieceOffsets[i] + pos
  BY <1>1, RoundFacts
<1>3. size[i] = Lengths[i]
  BY <1>0, <1>2 DEF Sizes
<1>4. /\ n \in Nat /\ n <= call.len - k /\ n <= Lengths[i] - pos
  <2>1. n = (IF call.len - k < Lengths[i] - pos THEN call.len - k ELSE Lengths[i] - pos)
    BY <1>1, <1>3
  <2>2. pos < Lengths[i]
    BY <1>1, <1>3
  <2> QED
    BY <1>2, <2>1, <2>2
<1>5. flat' = flat
  BY <1>1, LayoutKept
<1>6. buf \in [0 .. k - 1 -> Bytes]
  BY <1>0, <1>2 DEF Progress
<1>7. CASE n = 0
  <2>0. k' = k + n
    BY <1>1
  <2>1. k' = k /\ k + n - 1 = k - 1
    BY <1>2, <1>7, <2>0
  <2>2. buf' = [j \in 0 .. k - 1 |-> IF j < k THEN buf[j] ELSE content[i][pos + j - k]]
    BY <1>1, <2>1
  <2>3. \A j \in 0 .. k - 1 : j < k
    BY <1>2
  <2>4. buf' = buf
    BY <1>6, <2>2, <2>3
  <2> QED
    BY <1>1, <1>5, <2>1, <2>4 DEF Flat!flatVars
<1>8. CASE n # 0
  <2>1. n \in 1 .. MaxLen
    BY <1>2, <1>4, <1>8, FilesAssumption
  <2>2. k + n <= Flat!Reach(call)
    <3>1. /\ k + n <= call.len /\ call.off + (k + n) <= totalLength
          /\ k + n > 0 /\ k + n \in Nat
      BY <1>2, <1>4, <1>8
    <3> QED
      BY <1>0, <1>2, <3>1, WithinReach
  <2>3. ASSUME NEW j \in 0 .. k + n - 1, ~(j < k)
        PROVE  content[i][pos + j - k] = flat[call.off + j]
    <3>1. PICK o : o = pos + j - k
      OBVIOUS
    <3>2. o \in 0 .. Lengths[i] - 1 /\ call.off + j = pieceOffsets[i] + o
      BY <1>2, <1>4, <2>3, <3>1
    <3>3. flat[pieceOffsets[i] + o] = content[i][o]
      BY <1>0, <1>1, <1>2, <3>2, FlatBytes
    <3> QED
      BY <3>1, <3>2, <3>3
  <2>4. buf' = [j \in 0 .. k + n - 1 |-> IF j < k THEN buf[j] ELSE flat[call.off + j]]
    BY <1>1, <2>3
  <2>5. Flat!Get(n)
    BY <1>1, <1>2, <1>5, <2>2, <2>4 DEF Flat!Get
  <2> QED
    BY <2>1, <2>5 DEF Flat!FlatNext
<1> QED
  BY <1>7, <1>8

\* A call that went through all the files has done what lies in them.
LEMMA DoneIsReach ==
  ASSUME IInv, call # Idle, ~err, mode = "ready", i > NumFiles
  PROVE  k = Flat!Reach(call)
<1>0. TypeOK /\ InStep /\ Progress
  BY DEF IInv
<1>1. /\ call.off \in Nat /\ call.len \in Nat /\ k \in Nat /\ pos \in Nat /\ k <= call.len
      /\ totalLength \in Nat
      /\ k > 0 => call.off + k <= totalLength
  BY <1>0, CallFacts, Layout DEF TypeOK, Progress
<1>2. i \in 1 .. NumFiles + 1 /\ NumFiles \in Nat
  BY <1>0, Layout DEF TypeOK
<1>3. k = call.len \/ call.off + k = totalLength + pos
  BY <1>0, <1>2 DEF InStep
<1>4. Flat!Total = totalLength
  BY <1>0, TotalIs
<1> QED
  BY <1>1, <1>3, <1>4 DEF Flat!Reach

\* A call returns what FlatStore promises.
LEMMA ReturnRefines == ASSUME IInv, Return PROVE [Flat!FlatNext]_(Flat!flatVars)
<1> USE DEF fileVars, callVars
<1>0. TypeOK /\ CallsWhenOpen
  BY DEF IInv
<1>1. /\ call # Idle /\ (err \/ i > NumFiles \/ mode = "closed") /\ mode # "crashed"
      /\ ret' = [op |-> call.op, ok |-> ~err, data |-> IF ~err THEN buf ELSE Empty]
      /\ call' = Idle /\ k' = 0 /\ buf' = Empty
      /\ UNCHANGED <<Lengths, content, mode>>
  BY DEF Return, Succeeds
<1>2. flat' = flat
  BY <1>1, LayoutKept
<1>3. mode \in {"ready", "closed"}
  BY <1>0, <1>1 DEF TypeOK, CallsWhenOpen
<1>4. CASE err
  <2>1. mode = "ready" /\ ret' = [op |-> call.op, ok |-> FALSE, data |-> Empty]
    BY <1>0, <1>1, <1>4 DEF CallsWhenOpen
  <2> QED
    BY <1>1, <1>2, <2>1 DEF Flat!FlatNext, Flat!Fail, Flat!Answer, Idle, Empty
<1>5. CASE ~err
  <2>1. ret' = [op |-> call.op, ok |-> TRUE, data |-> buf]
    BY <1>1, <1>5
  <2>2. mode = "ready" => k = Flat!Reach(call)
    BY <1>1, <1>5, DoneIsReach
  <2> QED
    BY <1>1, <1>2, <1>3, <2>1, <2>2 DEF Flat!FlatNext, Flat!Succeed, Flat!Answer, Idle, Empty
<1> QED
  BY <1>4, <1>5

\* Every step is a step of FlatStore or one it does not see.
LEMMA StepRefines == IInv /\ [Next]_vars => [Flat!FlatNext]_(Flat!flatVars)
<1> SUFFICES ASSUME IInv, [Next]_vars PROVE [Flat!FlatNext]_(Flat!flatVars)
  OBVIOUS
<1> USE DEF fileVars, callVars
<1>0. TypeOK
  BY DEF IInv
<1>1. CASE BeginCreate \/ CreateFile \/ CreateFails \/ Initialize \/ Crash \/ Close
  BY <1>1, SetupRefines
<1>2. ASSUME NEW index \in 0 .. NumPieces - 1, NEW begin \in 0 .. PieceSize - 1,
             \/ \E data \in Flat!Strings : WritePiece(index, begin, data)
             \/ \E length \in 0 .. MaxLen : ReadPiece(index, begin, length)
      PROVE  [Flat!FlatNext]_(Flat!flatVars)
  <2>1. call = Idle /\ mode \in {"ready", "closed"} /\ call' \in Flat!Calls
    BY <1>2, BeginStep
  <2>2. k' = 0 /\ buf' = Empty /\ UNCHANGED <<Lengths, content, mode, ret>>
    BY <1>2 DEF WritePiece, ReadPiece
  <2>3. flat' = flat
    BY <2>2, LayoutKept
  <2>4. Flat!Begin(call')
    BY <2>1, <2>2, <2>3 DEF Flat!Begin, Idle, Empty
  <2> QED
    BY <2>1, <2>4 DEF Flat!FlatNext
<1>3. CASE WriteSkip \/ ReadSkip \/ ReadFails \/ Stopped \/ UNCHANGED vars
  BY <1>0, <1>3, Unseen DEF WriteSkip, ReadSkip, ReadFails, Stopped, vars
<1>4. CASE WriteFile
  <2>1. WriteLength \in 0 .. WriteLength
    BY <1>4, RoundFacts DEF WriteFile, WriteLength
  <2> QED
    BY <1>4, <2>1, WriteRefines DEF WriteFile
<1>5. CASE WriteFails
  <2>1. Round("write") /\ pos < Lengths[i] /\ UNCHANGED <<Lengths, mode, call, buf, ret>>
    BY <1>5 DEF WriteFails
  <2>2. CASE UNCHANGED <<content, size, k>>
    BY <1>0, <2>1, <2>2, Unseen
  <2>3. ASSUME NEW n \in 0 .. WriteLength - 1, WriteAt(n)
        PROVE  [Flat!FlatNext]_(Flat!flatVars)
    <3>1. n \in 0 .. WriteLength
      BY <2>1, RoundFacts DEF WriteLength
    <3> QED
      BY <2>1, <2>3, <3>1, WriteRefines
  <2> QED
    BY <1>5, <2>2, <2>3 DEF WriteFails
<1>6. CASE ReadFile
  BY <1>6, ReadRefines
<1>7. CASE Return
  BY <1>7, ReturnRefines
<1> QED
  BY <1>1, <1>2, <1>3, <1>4, <1>5, <1>6, <1>7 DEF Next

-----------------------------------------------------------------------------
(* Theorems.                                                               *)

\* The inductive invariant holds in every state.
LEMMA Invariance == ASSUME FullSizes PROVE Spec => []IInv
BY InitIInv, IInvStep, PTL DEF Spec

(***************************************************************************)
(* Every variable of the file manager keeps its type, for every layout of  *)
(* the files and every offset and length that WritePiece and ReadPiece are *)
(* called with.                                                            *)
(***************************************************************************)
THEOREM FileTypes == ASSUME FullSizes PROVE Spec => []TypeOK
<1>1. IInv => TypeOK
  BY DEF IInv
<1> QED
  BY <1>1, Invariance, PTL

(***************************************************************************)
(* WritePiece never makes a file longer than the torrent says, so ReadPiece*)
(* finds the same boundaries on disk.                                      *)
(***************************************************************************)
THEOREM SizesStay == ASSUME FullSizes PROVE Spec => []SizesKept
<1>1. IInv => SizesKept
  BY DEF IInv, Sizes, SizesKept
<1> QED
  BY <1>1, Invariance, PTL

(***************************************************************************)
(* The file manager implements FlatStore: to the download engine the files *)
(* of a torrent are one array of bytes, whatever their number and lengths, *)
(* wherever a call begins and ends, and wherever the disk fails.           *)
(***************************************************************************)
THEOREM FilesAreFlat == ASSUME FullSizes PROVE Spec => IsFlatStore
<1>1. Init => Flat!FlatInit
  BY InitRefines
<1>2. IInv /\ [Next]_vars => [Flat!FlatNext]_(Flat!flatVars)
  BY StepRefines
<1> QED
  BY <1>1, <1>2, Invariance, PTL DEF Spec, IsFlatStore, Flat!FlatSpec
=============================================================================
