--------------------------- MODULE TorrentProofs ---------------------------
(* Theorems about Torrent, for every value of its constants.               *)
EXTENDS Torrent, InductionLemmas, TLAPS

-----------------------------------------------------------------------------
(* Arithmetic of piece boundaries.                                         *)

\* Products of naturals are naturals.
LEMMA MulNat == ASSUME NEW m \in Nat, NEW n \in Nat PROVE m * n \in Nat
  OBVIOUS

\* A piece ends where the next one begins, or before.
LEMMA PiecesApart ==
  ASSUME NEW i \in Nat, NEW j \in Nat, NEW n \in Nat, i < j
  PROVE  i * n + n <= j * n
<1> DEFINE k == j - i - 1
<1>1. k \in Nat
  OBVIOUS
<1>2. k * n \in Nat
  BY <1>1, MulNat
<1>3. j = i + 1 + k
  OBVIOUS
<1> HIDE DEF k
<1>4. (i + 1 + k) * n = i * n + n + k * n
  BY <1>1
<1> QED
  BY <1>1, <1>2, <1>3, <1>4, MulNat

\* Lengths of pieces, as NewTorrent computes them and as the torrent has
\* them, never exceed PieceLength, and no piece of content is empty.
LEMMA PieceLengths ==
  ASSUME NEW i \in Pieces
  PROVE  /\ i \in Nat
         /\ i * PieceLength \in Nat
         /\ calculatePieceLength(i) \in Nat
         /\ calculatePieceLength(i) <= PieceLength
         /\ ContentOf(i) \in Nat \ {0}
         /\ ContentOf(i) <= PieceLength
<1>1. /\ PieceLength \in Nat \ {0} /\ InfoLength \in Nat
      /\ NumPieces \in Nat \ {0} /\ ContentLength \in Nat
  BY LengthsAssumption
<1>2. i \in Nat
  BY <1>1 DEF Pieces
<1>3. i * PieceLength \in Nat
  BY <1>1, <1>2, MulNat
<1>4. InfoLength % PieceLength \in 0 .. PieceLength - 1
  BY <1>1
<1>5. /\ calculatePieceLength(i) \in Nat
      /\ calculatePieceLength(i) <= PieceLength
  BY <1>1, <1>4 DEF calculatePieceLength
<1>6. CASE i = NumPieces - 1
  <2>1. NumPieces * PieceLength = i * PieceLength + PieceLength
    BY <1>1, <1>2, <1>6
  <2>2. i * PieceLength < ContentLength /\ ContentLength <= NumPieces * PieceLength
    BY <1>6, LengthsAssumption
  <2>3. ContentOf(i) = ContentLength - i * PieceLength
    BY <1>6 DEF ContentOf
  <2> QED
    BY <1>1, <1>2, <1>3, <1>5, <2>1, <2>2, <2>3
<1>7. CASE i # NumPieces - 1
  BY <1>1, <1>2, <1>3, <1>5, <1>7 DEF ContentOf
<1> QED
  BY <1>6, <1>7

\* The fields of a block and where it lies.
LEMMA BlockFacts ==
  ASSUME NEW b \in Blocks
  PROVE  /\ b.index \in Pieces /\ b.begin \in Nat /\ b.len \in Nat
         /\ b.good \in BOOLEAN
         /\ Start(b) \in Nat
         /\ Start(b) = b.index * PieceLength + b.begin
         /\ b.index * PieceLength <= Start(b)
<1>1. b \in [index : Pieces, begin : Nat, len : Nat, good : BOOLEAN]
  BY BlocksAssumption
<1>2. b.index \in Pieces /\ b.begin \in Nat /\ b.len \in Nat /\ b.good \in BOOLEAN
  BY <1>1
<1>3. b.index * PieceLength \in Nat
  BY <1>2, PieceLengths
<1> QED
  BY <1>2, <1>3 DEF Start

-----------------------------------------------------------------------------
(* Type correctness.  A message being worked on must be one of Blocks,     *)
(* which the second conjunct of Discipline says; so the two go together.   *)

\* The types of a new torrent.
LEMMA InitTypeOK == Init => TypeOK
<1> SUFFICES ASSUME Init PROVE TypeOK
  OBVIOUS
<1>1. /\ disk \in [Cells -> BOOLEAN] /\ downloaded \in [Pieces -> BOOLEAN]
      /\ pc \in [Peers -> {"read", "lock", "done"} \cup Holding]
      /\ msg \in [Peers -> Blocks \cup {NoBlock}]
  BY DEF Init
<1>2. Downloaded \in Int /\ Left \in Int /\ vi \in 0 .. NumPieces
  BY LengthsAssumption DEF Init
<1>3. /\ clock \in 0 .. LastPieceTicks
      /\ received \in 0 .. MaxBlocks /\ ioErrors \in 0 .. MaxIOErrors
  BY BoundsAssumption DEF Init
<1> QED
  BY <1>1, <1>2, <1>3 DEF Init, TypeOK

\* The handler of a processPiece in progress has a block of the torrent.
LEMMA WorkingBlock ==
  ASSUME Discipline, NEW p \in Peers, pc[p] \in {"lock"} \cup Holding
  PROVE  msg[p] \in Blocks
BY DEF Discipline

\* Every step keeps the types.
LEMMA TypeOKStep == TypeOK /\ Discipline /\ [Next]_vars => TypeOK'
<1> SUFFICES ASSUME TypeOK, Discipline, [Next]_vars PROVE TypeOK'
  OBVIOUS
<1> USE LengthsAssumption, BoundsAssumption DEF TypeOK, Holding, Working
<1>1. ASSUME NEW p \in Peers, ReceivePiece(p) PROVE TypeOK'
  BY <1>1 DEF ReceivePiece, storeVars, loopVars
<1>2. ASSUME NEW p \in Peers, HandlerExit(p) PROVE TypeOK'
  BY <1>2 DEF HandlerExit, storeVars, loopVars
<1>3. ASSUME NEW p \in Peers, LockPiece(p) PROVE TypeOK'
  BY <1>3 DEF LockPiece, storeVars, loopVars, Resume
<1>4. ASSUME NEW p \in Peers, WriteBlock(p) PROVE TypeOK'
  BY <1>4, WorkingBlock, BlockFacts, PieceLengths DEF WriteBlock, storeVars,
     loopVars, WritePiece
<1>5. ASSUME NEW p \in Peers, WriteBlockFails(p) PROVE TypeOK'
  BY <1>5, WorkingBlock, BlockFacts, PieceLengths DEF WriteBlockFails,
     storeVars, loopVars, WritePiece, IOError
<1>6. ASSUME NEW p \in Peers, CountBlock(p) PROVE TypeOK'
  BY <1>6, WorkingBlock, BlockFacts, PieceLengths DEF CountBlock, storeVars,
     loopVars
<1>7. ASSUME NEW p \in Peers, VerifyBlock(p) PROVE TypeOK'
  BY <1>7, WorkingBlock, BlockFacts, PieceLengths DEF VerifyBlock, storeVars,
     loopVars
<1>8. ASSUME NEW p \in Peers, VerifyBlockFails(p) PROVE TypeOK'
  BY <1>8 DEF VerifyBlockFails, storeVars, loopVars, IOError
<1>9. ASSUME NEW p \in Peers, UndoPiece(p) PROVE TypeOK'
  BY <1>9, WorkingBlock, BlockFacts, PieceLengths DEF UndoPiece, storeVars,
     loopVars
<1>10. ASSUME NEW p \in Peers, UnlockPiece(p) PROVE TypeOK'
  BY <1>10 DEF UnlockPiece, storeVars, loopVars, Resume
<1>11. CASE Tick
  BY <1>11 DEF Tick, handlerVars, storeVars, loopVars, loopFrame
<1>12. CASE Cancel
  BY <1>12 DEF Cancel, handlerVars, storeVars, loopVars, loopFrame
<1>13. CASE OnCancel
  BY <1>13 DEF OnCancel, handlerVars, storeVars, loopVars, loopFrame, Return
<1>14. CASE OnLastPieceTimeout
  BY <1>14 DEF OnLastPieceTimeout, handlerVars, storeVars, loopVars,
     loopFrame, Return
<1>15. CASE OnTick
  BY <1>15 DEF OnTick, handlerVars, storeVars, loopVars, loopFrame
<1>16. CASE LockStatus
  BY <1>16 DEF LockStatus, handlerVars, storeVars, loopVars, loopFrame
<1>17. CASE CheckComplete
  BY <1>17 DEF CheckComplete, handlerVars, storeVars, loopVars, loopFrame
<1>18. CASE CheckProgress
  BY <1>18 DEF CheckProgress, handlerVars, storeVars, loopVars, loopFrame,
     Return
<1>19. CASE VerifyNext
  <2>1. vi \in Pieces /\ vi' \in 0 .. NumPieces
    BY <1>19 DEF VerifyNext, Pieces
  <2>2. calculatePieceLength(vi) \in Nat
    BY <2>1, PieceLengths
  <2>3. \/ UNCHANGED <<Downloaded, Left, failedVerify>>
        \/ /\ Downloaded' = Downloaded - calculatePieceLength(vi)
           /\ Left' = Left + calculatePieceLength(vi)
           /\ failedVerify' = failedVerify \cup {vi}
    BY <1>19, Zenon DEF VerifyNext
  <2>4. Downloaded' \in Int /\ Left' \in Int
    BY <2>2, <2>3
  <2>5. failedVerify' \subseteq Pieces
    BY <2>1, <2>3
  <2>6. ioErrors' \in 0 .. MaxIOErrors
    BY <1>19 DEF VerifyNext, IOError
  <2> QED
    BY <1>19, <2>1, <2>4, <2>5, <2>6 DEF VerifyNext, loopFrame, handlerVars
<1>20. CASE VerifyEnd
  BY <1>20 DEF VerifyEnd, handlerVars, storeVars, loopVars, loopFrame, Return
<1>21. CASE CloseFiles
  BY <1>21 DEF CloseFiles, handlerVars, storeVars, loopVars, loopFrame,
     IOError
<1>22. CASE Exit
  BY <1>22 DEF Exit, handlerVars, storeVars, loopVars, loopFrame
<1>23. CASE UNCHANGED vars
  BY <1>23 DEF vars, handlerVars, storeVars, loopVars
<1> QED
  BY <1>1, <1>2, <1>3, <1>4, <1>5, <1>6, <1>7, <1>8, <1>9, <1>10, <1>11,
     <1>12, <1>13, <1>14, <1>15, <1>16, <1>17, <1>18, <1>19, <1>20, <1>21,
     <1>22, <1>23
     DEF Next, Handler, ProcessPiece, Loop, Terminated

-----------------------------------------------------------------------------
(* The lock discipline of processPiece and of Download.                    *)

\* Nobody holds t.mu at first.
LEMMA InitDiscipline == Init => Discipline
BY PeersAssumption DEF Init, Discipline, Holding, Working

\* Every step keeps the discipline of t.mu.
LEMMA DisciplineStep == TypeOK /\ Discipline /\ [Next]_vars => Discipline'
<1> SUFFICES ASSUME TypeOK, Discipline, [Next]_vars PROVE Discipline'
  OBVIOUS
<1> USE PeersAssumption
    DEF TypeOK, Discipline, Holding, Working, isComplete, AlreadyThere
<1>1. ASSUME NEW p \in Peers, ReceivePiece(p) PROVE Discipline'
  BY <1>1 DEF ReceivePiece, storeVars, loopVars
<1>2. ASSUME NEW p \in Peers, HandlerExit(p) PROVE Discipline'
  BY <1>2 DEF HandlerExit, storeVars, loopVars
<1>3. ASSUME NEW p \in Peers, LockPiece(p) PROVE Discipline'
  BY <1>3 DEF LockPiece, storeVars, loopVars, Resume
<1>4. ASSUME NEW p \in Peers, WriteBlock(p) PROVE Discipline'
  BY <1>4 DEF WriteBlock, storeVars, loopVars
<1>5. ASSUME NEW p \in Peers, WriteBlockFails(p) PROVE Discipline'
  BY <1>5 DEF WriteBlockFails, storeVars, loopVars
<1>6. ASSUME NEW p \in Peers, CountBlock(p) PROVE Discipline'
  BY <1>6 DEF CountBlock, storeVars, loopVars
<1>7. ASSUME NEW p \in Peers, VerifyBlock(p) PROVE Discipline'
  BY <1>7 DEF VerifyBlock, storeVars, loopVars
<1>8. ASSUME NEW p \in Peers, VerifyBlockFails(p) PROVE Discipline'
  BY <1>8 DEF VerifyBlockFails, storeVars, loopVars
<1>9. ASSUME NEW p \in Peers, UndoPiece(p) PROVE Discipline'
  BY <1>9 DEF UndoPiece, storeVars, loopVars
<1>10. ASSUME NEW p \in Peers, UnlockPiece(p) PROVE Discipline'
  BY <1>10 DEF UnlockPiece, storeVars, loopVars, Resume
<1>11. CASE Tick
  BY <1>11 DEF Tick, handlerVars, storeVars, loopVars, loopFrame
<1>12. CASE Cancel
  BY <1>12 DEF Cancel, handlerVars, storeVars, loopVars, loopFrame
<1>13. CASE OnCancel
  BY <1>13 DEF OnCancel, handlerVars, storeVars, loopVars, loopFrame, Return
<1>14. CASE OnLastPieceTimeout
  BY <1>14 DEF OnLastPieceTimeout, handlerVars, storeVars, loopVars,
     loopFrame, Return
<1>15. CASE OnTick
  BY <1>15 DEF OnTick, handlerVars, storeVars, loopVars, loopFrame
<1>16. CASE LockStatus
  BY <1>16 DEF LockStatus, handlerVars, storeVars, loopVars, loopFrame
<1>17. CASE CheckComplete
  BY <1>17 DEF CheckComplete, handlerVars, storeVars, loopVars, loopFrame
<1>18. CASE CheckProgress
  BY <1>18 DEF CheckProgress, handlerVars, storeVars, loopVars, loopFrame,
     Return
<1>19. CASE VerifyNext
  BY <1>19 DEF VerifyNext, handlerVars, storeVars, loopVars, loopFrame
<1>20. CASE VerifyEnd
  BY <1>20 DEF VerifyEnd, handlerVars, storeVars, loopVars, loopFrame, Return
<1>21. CASE CloseFiles
  BY <1>21 DEF CloseFiles, handlerVars, storeVars, loopVars, loopFrame
<1>22. CASE Exit
  BY <1>22 DEF Exit, handlerVars, storeVars, loopVars, loopFrame
<1>23. CASE UNCHANGED vars
  BY <1>23 DEF vars, handlerVars, storeVars, loopVars
<1> QED
  BY <1>1, <1>2, <1>3, <1>4, <1>5, <1>6, <1>7, <1>8, <1>9, <1>10, <1>11,
     <1>12, <1>13, <1>14, <1>15, <1>16, <1>17, <1>18, <1>19, <1>20, <1>21,
     <1>22, <1>23
     DEF Next, Handler, ProcessPiece, Loop, Terminated

-----------------------------------------------------------------------------
(* Integrity.  A write begins inside the piece of its block or after it,   *)
(* and that piece is not marked; so it reaches a marked piece only past    *)
(* the end of its own.  A mark is made by a hash that covered the whole    *)
(* piece.                                                                  *)

\* A write reaches no earlier piece, and a later one only past the end of
\* its own.
LEMMA ReachesLater ==
  ASSUME NEW b \in Blocks, NEW n \in 0 .. b.len,
         NEW i \in Pieces, i # b.index, Reaches(b, n, i)
  PROVE  b.index < i /\ PastEnd(b)
<1> DEFINE j == b.index
<1>1. /\ i \in Nat /\ j \in Nat /\ i # j /\ PieceLength \in Nat
      /\ i * PieceLength \in Nat /\ j * PieceLength \in Nat
      /\ calculatePieceLength(j) \in Nat /\ calculatePieceLength(j) <= PieceLength
  BY BlockFacts, PieceLengths, LengthsAssumption
<1>2. /\ Start(b) = j * PieceLength + b.begin
      /\ b.begin \in Nat /\ b.len \in Nat
  BY BlockFacts
<1>3. PICK c \in Cells : /\ Start(b) <= c /\ c < Start(b) + n
                         /\ i * PieceLength <= c /\ c < i * PieceLength + PieceLength
  BY DEF Reaches
<1>4. c \in Nat
  BY LengthsAssumption DEF Cells
<1>5. j < i
  <2>1. i < j => i * PieceLength + PieceLength <= j * PieceLength
    BY <1>1, PiecesApart
  <2> HIDE DEF j
  <2> QED
    BY <1>1, <1>2, <1>3, <1>4, <2>1
<1>6. j * PieceLength + PieceLength <= i * PieceLength
  BY <1>1, <1>5, PiecesApart
<1>7. b.begin + b.len > calculatePieceLength(j)
  <2> HIDE DEF j, calculatePieceLength
  <2> QED
    BY <1>1, <1>2, <1>3, <1>4, <1>6
<1> QED
  BY <1>5, <1>7 DEF PastEnd

\* What a write changes of a piece, it reaches.
LEMMA ChangedIsReached ==
  ASSUME TypeOK, NEW b \in Blocks, NEW n \in 0 .. b.len, WritePiece(b, n),
         NEW i \in Pieces, NEW c \in Cells, disk'[c] # disk[c],
         i * PieceLength <= c, c < i * PieceLength + PieceLength
  PROVE  fm = "open" /\ Reaches(b, n, i)
BY DEF WritePiece, TypeOK, Reaches

\* A piece whose hash matches is intact: the data read is not empty, so the
\* file is open and long enough, and every cell of the piece is right.
LEMMA HashCoversPiece ==
  ASSUME TypeOK, NEW i \in Pieces, HashMatches(i)
  PROVE  Intact(i)
<1>1. /\ i * PieceLength \in Nat /\ ContentOf(i) \in Nat \ {0}
      /\ calculatePieceLength(i) \in Nat /\ InfoLength \in Nat
  BY PieceLengths, LengthsAssumption
<1>2. ReadLength(i) = ContentOf(i)
  BY DEF HashMatches
<1>3. i * PieceLength + ContentOf(i) <= InfoLength
  BY <1>1, <1>2 DEF ReadLength
<1> SUFFICES ASSUME NEW c \in i * PieceLength .. i * PieceLength + ContentOf(i) - 1
             PROVE  c \in Cells /\ disk[c]
  BY DEF Intact
<1>4. c \in Cells /\ i * PieceLength <= c /\ c < i * PieceLength + ContentOf(i)
  BY <1>1, <1>3 DEF Cells
<1> QED
  BY <1>2, <1>4 DEF HashMatches

\* Only three steps of processPiece reach the file or the flags.
LEMMA StoreSteps ==
  ASSUME [Next]_vars
  PROVE  \/ UNCHANGED <<disk, overrun, downloaded>>
         \/ \E p \in Peers : WriteBlock(p) \/ WriteBlockFails(p) \/ VerifyBlock(p)
BY DEF Next, Handler, ProcessPiece, Loop, Terminated, ReceivePiece,
   HandlerExit, LockPiece, CountBlock, VerifyBlockFails, UndoPiece,
   UnlockPiece, Tick, Cancel, OnCancel, OnLastPieceTimeout, OnTick,
   LockStatus, CheckComplete, CheckProgress, VerifyNext, VerifyEnd,
   CloseFiles, Exit, vars, storeVars, loopFrame

\* A step that writes does so in the piece of a block, which is not marked.
LEMMA WriteStep ==
  ASSUME TypeOK, Discipline, NEW p \in Peers, WriteBlock(p) \/ WriteBlockFails(p)
  PROVE  /\ downloaded' = downloaded
         /\ msg[p] \in Blocks /\ ~downloaded[msg[p].index]
         /\ \E n \in 0 .. msg[p].len : WritePiece(msg[p], n)
<1>1. msg[p] \in Blocks /\ ~downloaded[msg[p].index]
  BY DEF WriteBlock, WriteBlockFails, Discipline, Holding, Working
<1>2. \E n \in 0 .. msg[p].len : WritePiece(msg[p], n)
  BY <1>1, BlockFacts DEF WriteBlock, WriteBlockFails
<1> QED
  BY <1>1, <1>2 DEF WriteBlock, WriteBlockFails

\* A step that verifies marks at most its own piece, when the hash matches.
LEMMA VerifyStep ==
  ASSUME TypeOK, Discipline, NEW p \in Peers, VerifyBlock(p)
  PROVE  /\ disk' = disk /\ overrun' = overrun
         /\ \A i \in Pieces : /\ downloaded[i] => downloaded'[i]
                              /\ downloaded'[i] => downloaded[i] \/ HashMatches(i)
<1>1. msg[p].index \in Pieces
  BY BlockFacts DEF VerifyBlock, Discipline, Holding, Working
<1> QED
  BY <1>1 DEF VerifyBlock, TypeOK

\* No step takes a flag back, and a marked piece changes only under a block
\* that reaches past the end of an earlier piece.
LEMMA KeepsVerifiedStep == TypeOK /\ Discipline /\ [Next]_vars => KeepsVerified
<1> SUFFICES ASSUME TypeOK, Discipline, [Next]_vars PROVE KeepsVerified
  OBVIOUS
<1>1. CASE UNCHANGED <<disk, overrun, downloaded>>
  BY <1>1 DEF KeepsVerified
<1>2. ASSUME NEW p \in Peers, WriteBlock(p) \/ WriteBlockFails(p)
      PROVE  KeepsVerified
  <2> SUFFICES ASSUME NEW i \in Pieces, downloaded[i], NEW c \in Cells,
                      i * PieceLength <= c, c < i * PieceLength + PieceLength,
                      disk'[c] # disk[c]
               PROVE  pc[p] = "write" /\ msg[p].index < i /\ PastEnd(msg[p])
    BY <1>2, WriteStep DEF KeepsVerified
  <2>1. /\ msg[p] \in Blocks /\ i # msg[p].index
        /\ \E n \in 0 .. msg[p].len : WritePiece(msg[p], n)
    BY <1>2, WriteStep
  <2>2. PICK n \in 0 .. msg[p].len : WritePiece(msg[p], n)
    BY <2>1
  <2>3. Reaches(msg[p], n, i)
    BY <2>1, <2>2, ChangedIsReached
  <2>4. msg[p].index < i /\ PastEnd(msg[p])
    BY <2>1, <2>3, ReachesLater
  <2> QED
    BY <1>2, <2>4 DEF WriteBlock, WriteBlockFails
<1>3. ASSUME NEW p \in Peers, VerifyBlock(p) PROVE KeepsVerified
  BY <1>3, VerifyStep DEF KeepsVerified
<1> QED
  BY <1>1, <1>2, <1>3, StoreSteps

\* No piece is marked at first.
LEMMA InitIntegrity == Init => Integrity
BY DEF Init, Integrity

\* A step leaves the cells of a marked piece as they are, or a block of
\* another piece is written over them.
LEMMA MarkedKept ==
  ASSUME TypeOK, Discipline, [Next]_vars, NEW i \in Pieces, downloaded[i]
  PROVE  /\ overrun \subseteq overrun'
         /\ \/ i \in overrun'
            \/ \A c \in Cells : (i * PieceLength <= c /\ c < i * PieceLength + PieceLength)
                                   => disk'[c] = disk[c]
<1>1. ASSUME NEW p \in Peers, WriteBlock(p) \/ WriteBlockFails(p),
             NEW c \in Cells, disk'[c] # disk[c],
             i * PieceLength <= c, c < i * PieceLength + PieceLength
      PROVE  i \in overrun'
  <2>1. PICK n \in 0 .. msg[p].len : WritePiece(msg[p], n)
    BY <1>1, WriteStep
  <2>2. msg[p] \in Blocks /\ i # msg[p].index
    BY <1>1, WriteStep
  <2>3. fm = "open" /\ Reaches(msg[p], n, i)
    BY <1>1, <2>1, <2>2, ChangedIsReached
  <2> QED
    BY <2>1, <2>2, <2>3 DEF WritePiece
<1>2. ASSUME NEW p \in Peers, WriteBlock(p) \/ WriteBlockFails(p)
      PROVE  overrun \subseteq overrun'
  <2>1. PICK n \in 0 .. msg[p].len : WritePiece(msg[p], n)
    BY <1>2, WriteStep
  <2> QED
    BY <2>1 DEF WritePiece
<1> QED
  BY <1>1, <1>2, StoreSteps, VerifyStep

\* A piece none of whose cells change stays intact.
LEMMA IntactKept ==
  ASSUME NEW i \in Pieces, Intact(i),
         \A c \in Cells : (i * PieceLength <= c /\ c < i * PieceLength + PieceLength)
                               => disk'[c] = disk[c]
  PROVE  Intact(i)'
<1>1. /\ i * PieceLength \in Nat /\ ContentOf(i) \in Nat /\ PieceLength \in Nat
      /\ ContentOf(i) <= PieceLength
  BY PieceLengths, LengthsAssumption
<1> SUFFICES ASSUME NEW c \in i * PieceLength .. i * PieceLength + ContentOf(i) - 1
             PROVE  c \in Cells /\ disk'[c]
  BY DEF Intact
<1>2. c \in Cells /\ disk[c]
  BY DEF Intact
<1>3. i * PieceLength <= c /\ c < i * PieceLength + PieceLength
  BY <1>1
<1> QED
  BY <1>2, <1>3

\* Only VerifyBlock sets a flag, for a piece whose hash matched.
LEMMA FlagSetByHash ==
  ASSUME TypeOK, Discipline, [Next]_vars, NEW i \in Pieces,
         ~downloaded[i], downloaded'[i]
  PROVE  HashMatches(i) /\ disk' = disk
<1>1. PICK p \in Peers : WriteBlock(p) \/ WriteBlockFails(p) \/ VerifyBlock(p)
  BY StoreSteps
<1>2. VerifyBlock(p)
  BY <1>1, WriteStep
<1> QED
  BY <1>2, VerifyStep

\* Every step keeps the marked pieces intact.
LEMMA IntegrityStep ==
  TypeOK /\ Discipline /\ Integrity /\ [Next]_vars => Integrity'
<1> SUFFICES ASSUME TypeOK, Discipline, Integrity, [Next]_vars,
                    NEW i \in Pieces, downloaded'[i]
             PROVE  Intact(i)' \/ i \in overrun'
  BY DEF Integrity
<1>1. CASE downloaded[i]
  BY <1>1, MarkedKept, IntactKept DEF Integrity
<1>2. CASE ~downloaded[i]
  <2>1. HashMatches(i) /\ disk' = disk
    BY <1>2, FlagSetByHash
  <2> QED
    BY <2>1, HashCoversPiece DEF Intact
<1> QED
  BY <1>1, <1>2

-----------------------------------------------------------------------------
(* The final verification.  While it runs, and after it, every flag is     *)
(* set, so no handler writes and what it saw is what the file has.         *)

\* The pieces verifyDownload has been through are intact or were found bad.
Looked ==
    /\ dl = "verify" => \A i \in Pieces : i < vi => Intact(i) \/ i \in failedVerify
    /\ CompletedIntact

\* Verification has not begun.
LEMMA InitLooked == Init => Looked
BY DEF Init, Looked, CompletedIntact

\* With every flag set no step writes to the file.
LEMMA CompleteIsStill ==
  ASSUME TypeOK, Discipline, [Next]_vars, isComplete
  PROVE  disk' = disk
<1>1. ASSUME NEW p \in Peers, WriteBlock(p) \/ WriteBlockFails(p) PROVE FALSE
  <2>1. msg[p] \in Blocks /\ ~downloaded[msg[p].index]
    BY <1>1, WriteStep
  <2>2. msg[p].index \in Pieces
    BY <2>1, BlockFacts
  <2> QED
    BY <2>1, <2>2 DEF isComplete
<1> QED
  BY <1>1, StoreSteps, VerifyStep

\* Every step keeps what the final verification has seen.
LEMMA LookedStep == TypeOK /\ Discipline /\ Looked /\ [Next]_vars => Looked'
<1> SUFFICES ASSUME TypeOK, Discipline, Looked, [Next]_vars PROVE Looked'
  OBVIOUS
<1>1. ASSUME dl = "verify" \/ result = "ok" PROVE disk' = disk
  BY <1>1, CompleteIsStill DEF Discipline
<1>2. ASSUME NEW i \in Pieces, disk' = disk PROVE Intact(i)' <=> Intact(i)
  BY <1>2 DEF Intact
<1>3. CASE UNCHANGED <<dl, vi, result, failedVerify>>
  BY <1>1, <1>2, <1>3 DEF Looked, CompletedIntact
<1>4. CASE VerifyNext
  <2>1. /\ dl = "verify" /\ dl' = "verify" /\ result' = result /\ vi' = vi + 1
        /\ vi \in Pieces /\ failedVerify \subseteq failedVerify'
    BY <1>4, LengthsAssumption DEF VerifyNext, Pieces, TypeOK
  <2>2. PICK v \in Pieces : v = vi
    BY <2>1
  <2>3. Intact(v)' \/ v \in failedVerify'
    <3>1. downloaded[v]
      BY <2>1 DEF Discipline, isComplete
    <3>2. HashMatches(v) \/ failedVerify' = failedVerify \cup {v}
      BY <1>4, <2>2, <3>1 DEF VerifyNext
    <3> QED
      BY <1>1, <1>2, <2>1, <3>2, HashCoversPiece
  <2>4. CompletedIntact'
    BY <1>1, <1>2, <2>1 DEF Looked, CompletedIntact
  <2>5. ASSUME NEW i \in Pieces, i < vi' PROVE Intact(i)' \/ i \in failedVerify'
    <3>1. i < vi \/ i = v
      BY <2>1, <2>2, <2>5 DEF Pieces
    <3> QED
      BY <1>1, <1>2, <2>1, <2>3, <3>1 DEF Looked
  <2> QED
    BY <2>4, <2>5 DEF Looked
<1>5. CASE VerifyEnd
  <2>1. /\ dl = "verify" /\ vi = NumPieces /\ dl' = "returned"
        /\ failedVerify' = failedVerify
    BY <1>5 DEF VerifyEnd, Return
  <2>2. \A i \in Pieces : i < vi
    BY <2>1, LengthsAssumption DEF Pieces
  <2> QED
    BY <1>1, <1>2, <2>1, <2>2 DEF Looked, CompletedIntact
<1>6. CASE /\ failedVerify' = failedVerify
           /\ dl' # "verify" /\ (result' = result \/ result' # "ok")
  BY <1>1, <1>2, <1>6 DEF Looked, CompletedIntact
<1>7. CASE CheckComplete
  <2>1. vi' = 0 /\ result' = result /\ failedVerify' = failedVerify
    BY <1>7 DEF CheckComplete
  <2>2. \A i \in Pieces : ~(i < vi')
    BY <2>1, LengthsAssumption DEF Pieces
  <2> QED
    BY <1>1, <1>2, <2>1, <2>2 DEF Looked, CompletedIntact
<1>8. \/ UNCHANGED <<dl, vi, result, failedVerify>>
      \/ VerifyNext \/ VerifyEnd \/ CheckComplete
      \/ /\ failedVerify' = failedVerify
         /\ dl' # "verify" /\ (result' = result \/ result' # "ok")
  BY DEF Next, Handler, ProcessPiece, Loop, Terminated, ReceivePiece,
     HandlerExit, LockPiece, WriteBlock, WriteBlockFails, CountBlock, VerifyBlock,
     VerifyBlockFails, UndoPiece, UnlockPiece, Tick, Cancel, OnCancel, Return,
     OnLastPieceTimeout, OnTick, LockStatus, CheckProgress, CloseFiles, Exit,
     vars, loopVars
<1> QED
  BY <1>3, <1>4, <1>5, <1>6, <1>7, <1>8

\* Blocks that stay inside their piece overrun no other.
LEMMA NoOverrunStep ==
  ASSUME \A b \in Blocks : ~PastEnd(b)
  PROVE  TypeOK /\ Discipline /\ overrun = {} /\ [Next]_vars => overrun' = {}
<1> SUFFICES ASSUME TypeOK, Discipline, overrun = {}, [Next]_vars
             PROVE  overrun' = {}
  OBVIOUS
<1>1. ASSUME NEW p \in Peers, WriteBlock(p) \/ WriteBlockFails(p)
      PROVE  overrun' = {}
  <2>1. PICK n \in 0 .. msg[p].len : WritePiece(msg[p], n)
    BY <1>1, WriteStep
  <2>2. msg[p] \in Blocks
    BY <1>1, WriteStep
  <2>3. \A i \in Pieces \ {msg[p].index} : ~Reaches(msg[p], n, i)
    BY <2>2, ReachesLater
  <2> QED
    BY <2>1, <2>3 DEF WritePiece
<1> QED
  BY <1>1, StoreSteps, VerifyStep

-----------------------------------------------------------------------------
(* The counters.                                                           *)

\* Everything is left at first.
LEMMA InitConservation == Init => Conservation
BY LengthsAssumption DEF Init, Conservation

\* Only three steps reach the counters, and each moves what it takes from
\* one of them to the other.
LEMMA CounterSteps ==
  ASSUME TypeOK, Discipline, [Next]_vars
  PROVE  \E d \in Int : Downloaded' = Downloaded + d /\ Left' = Left - d
<1> DEFINE Moves(d) == Downloaded' = Downloaded + d /\ Left' = Left - d
<1>1. ASSUME NEW p \in Peers, CountBlock(p) PROVE \E d \in Int : Moves(d)
  <2>1. msg[p].len \in Int
    BY <1>1, BlockFacts DEF CountBlock, Discipline, Holding, Working
  <2> QED
    BY <1>1, <2>1 DEF CountBlock
<1>2. ASSUME NEW i \in Pieces,
             Downloaded' = Downloaded - calculatePieceLength(i),
             Left' = Left + calculatePieceLength(i)
      PROVE  \E d \in Int : Moves(d)
  <2> DEFINE d == - calculatePieceLength(i)
  <2>1. calculatePieceLength(i) \in Int
    BY PieceLengths
  <2>2. d \in Int /\ Moves(d)
    BY <1>2, <2>1 DEF TypeOK
  <2> QED
    BY <2>2
<1>3. ASSUME NEW p \in Peers, UndoPiece(p) PROVE \E d \in Int : Moves(d)
  <2>1. msg[p].index \in Pieces
    BY <1>3, BlockFacts DEF UndoPiece, Discipline, Holding, Working
  <2>2. /\ Downloaded' = Downloaded - calculatePieceLength(msg[p].index)
        /\ Left' = Left + calculatePieceLength(msg[p].index)
    BY <1>3 DEF UndoPiece
  <2> QED
    BY <1>2, <2>1, <2>2
<1>4. CASE UNCHANGED <<Downloaded, Left>>
  BY <1>4 DEF TypeOK
<1>5. CASE VerifyNext
  <2>1. vi \in Pieces
    BY <1>5, LengthsAssumption DEF VerifyNext, Pieces, TypeOK
  <2>2. \/ UNCHANGED <<Downloaded, Left>>
        \/ /\ Downloaded' = Downloaded - calculatePieceLength(vi)
           /\ Left' = Left + calculatePieceLength(vi)
    BY <1>5, Zenon DEF VerifyNext
  <2> QED
    BY <1>2, <1>4, <2>1, <2>2
<1>6. \/ UNCHANGED <<Downloaded, Left>>
      \/ \E p \in Peers : CountBlock(p) \/ UndoPiece(p)
      \/ VerifyNext
  BY DEF Next, Handler, ProcessPiece, Loop, Terminated, ReceivePiece,
     HandlerExit, LockPiece, WriteBlock, WriteBlockFails, VerifyBlock,
     VerifyBlockFails, UnlockPiece, Tick, Cancel, OnCancel,
     OnLastPieceTimeout, OnTick, LockStatus, CheckComplete, CheckProgress,
     VerifyEnd, CloseFiles, Exit, vars, storeVars
<1> QED
  BY <1>1, <1>3, <1>4, <1>5, <1>6

\* Every step keeps the sum of the counters.
LEMMA ConservationStep ==
  TypeOK /\ Discipline /\ Conservation /\ [Next]_vars => Conservation'
BY CounterSteps, LengthsAssumption DEF Conservation, TypeOK

-----------------------------------------------------------------------------
(* The byte counter, with peers that send whole pieces.                    *)

\* What piece n - 1 adds to the length of the pieces in S.
Share(S, n) == IF n - 1 \in S THEN calculatePieceLength(n - 1) ELSE 0

\* The length of the pieces in S that come before piece n, for every n.
IsSum(f, S) ==
    /\ f \in [0 .. NumPieces -> Int]
    /\ f[0] = 0
    /\ \A n \in 1 .. NumPieces : f[n] = f[n - 1] + Share(S, n)

\* What a piece adds is a number.
LEMMA ShareIsInt == ASSUME NEW S, NEW n \in 1 .. NumPieces PROVE Share(S, n) \in Int
<1>1. n - 1 \in Pieces
  BY LengthsAssumption DEF Pieces
<1> QED
  BY <1>1, PieceLengths DEF Share

\* The recursion of BytesOf defines such a sum.
LEMMA BytesOfIsSum == ASSUME NEW S PROVE \E f : IsSum(f, S) /\ BytesOf(S) = f[NumPieces]
<1> DEFINE F == [n \in 1 .. NumPieces |-> [x \in Int |-> x + Share(S, n)]]
           Defined(f) == f = [n \in 0 .. NumPieces |->
                                IF n = 0 THEN 0
                                ELSE f[n - 1] + (IF n - 1 \in S
                                                 THEN calculatePieceLength(n - 1) ELSE 0)]
<1>1. NumPieces \in Nat
  BY LengthsAssumption
<1>2. ASSUME NEW n \in 1 .. NumPieces PROVE [x \in Int |-> x + Share(S, n)] \in [Int -> Int]
  BY ShareIsInt
<1>3. F \in Steps(NumPieces, Int)
  BY <1>2 DEF Steps
<1>4. PICK g : Follows(g, NumPieces, Int, 0, F)
  <2>1. PICK Q, e : Q = Int /\ e = 0
    OBVIOUS
  <2> HIDE DEF F
  <2>2. e \in Q /\ F \in Steps(NumPieces, Q)
    BY <1>3, <2>1
  <2>3. \E g : Follows(g, NumPieces, Q, e, F)
    BY <1>1, <2>2, RecursionUpTo, Zenon
  <2> QED
    BY <2>1, <2>3
<1>5. IsSum(g, S)
  <2>1. ASSUME NEW n \in 1 .. NumPieces PROVE g[n] = g[n - 1] + Share(S, n)
    <3>1. n - 1 \in 0 .. NumPieces
      BY <1>1
    <3>2. g[n - 1] \in Int
      BY <1>4, <3>1 DEF Follows
    <3> QED
      BY <1>4, <3>2 DEF Follows
  <2> QED
    BY <1>4, <2>1 DEF Follows, IsSum
<1>6. ASSUME NEW f, IsSum(f, S) PROVE Defined(f)
  <2>1. ASSUME NEW n \in 0 .. NumPieces
        PROVE  f[n] = IF n = 0 THEN 0
                      ELSE f[n - 1] + (IF n - 1 \in S
                                       THEN calculatePieceLength(n - 1) ELSE 0)
    <3>1. n = 0 \/ n \in 1 .. NumPieces
      BY <1>1
    <3> QED
      BY <1>6, <3>1 DEF IsSum, Share
  <2>2. f \in [0 .. NumPieces -> Int]
    BY <1>6 DEF IsSum
  <2> QED
    BY <2>1, <2>2
<1>7. ASSUME NEW f, Defined(f) PROVE IsSum(f, S)
  <2> DEFINE T == {n \in 0 .. NumPieces : f[n] \in Int}
  <2>1. \A n \in 0 .. NumPieces :
            f[n] = IF n = 0 THEN 0
                   ELSE f[n - 1] + (IF n - 1 \in S
                                    THEN calculatePieceLength(n - 1) ELSE 0)
    BY <1>7
  <2>2. f[0] = 0 /\ \A n \in 1 .. NumPieces : f[n] = f[n - 1] + Share(S, n)
    <3>1. 0 \in 0 .. NumPieces /\ \A n \in 1 .. NumPieces : n \in 0 .. NumPieces /\ n # 0
      BY <1>1
    <3> HIDE <1>7
    <3> QED
      BY <2>1, <3>1 DEF Share
  <2>3. 0 \in T
    BY <1>1, <2>2
  <2>4. ASSUME NEW n \in 0 .. NumPieces - 1, n \in T PROVE n + 1 \in T
    <3>1. n + 1 \in 1 .. NumPieces /\ (n + 1) - 1 = n
      BY <1>1
    <3>2. f[n + 1] = f[n] + Share(S, n + 1)
      BY <2>2, <3>1
    <3> QED
      BY <1>1, <2>4, <3>1, <3>2, ShareIsInt
  <2>5. 0 .. NumPieces \subseteq T
    <3> HIDE DEF T
    <3> QED
      BY <1>1, <2>3, <2>4, InductionUpTo
  <2>6. f \in [0 .. NumPieces -> Int]
    <3>1. f = [n \in 0 .. NumPieces |-> f[n]]
      BY <1>7
    <3> QED
      BY <2>5, <3>1
  <2> QED
    BY <2>2, <2>6 DEF IsSum
<1> DEFINE s == CHOOSE f : Defined(f)
<1>8. Defined(s)
  <2>1. \E f : Defined(f)
    BY <1>5, <1>6
  <2> QED
    BY <2>1, Zenon
<1>9. BytesOf(S) = s[NumPieces]
  BY DEF BytesOf
<1> QED
  BY <1>7, <1>8, <1>9

\* No pieces have no bytes.
LEMMA BytesOfNone == BytesOf({}) = 0
<1>1. PICK f : IsSum(f, {}) /\ BytesOf({}) = f[NumPieces]
  BY BytesOfIsSum
<1>2. NumPieces \in Nat
  BY LengthsAssumption
<1> DEFINE T == {n \in 0 .. NumPieces : f[n] = 0}
<1>3. 0 \in T
  BY <1>1, <1>2 DEF IsSum
<1>4. ASSUME NEW n \in 0 .. NumPieces - 1, n \in T PROVE n + 1 \in T
  <2>1. n + 1 \in 1 .. NumPieces /\ (n + 1) - 1 = n
    BY <1>2
  <2>2. f[n + 1] = f[n] + Share({}, n + 1)
    BY <1>1, <2>1 DEF IsSum
  <2> QED
    BY <1>2, <1>4, <2>1, <2>2 DEF Share
<1>5. 0 .. NumPieces \subseteq T
  <2> HIDE DEF T
  <2> QED
    BY <1>2, <1>3, <1>4, InductionUpTo
<1> QED
  BY <1>1, <1>2, <1>5

\* One piece more adds its length.
LEMMA BytesOfMore ==
  ASSUME NEW S, NEW i \in Pieces, i \notin S
  PROVE  /\ BytesOf(S) \in Int
         /\ BytesOf(S \cup {i}) = BytesOf(S) + calculatePieceLength(i)
<1> DEFINE R == S \cup {i}
<1>1. PICK f : IsSum(f, S) /\ BytesOf(S) = f[NumPieces]
  BY BytesOfIsSum
<1>2. PICK g : IsSum(g, R) /\ BytesOf(R) = g[NumPieces]
  BY BytesOfIsSum
<1>3. /\ NumPieces \in Nat /\ i \in Nat /\ i < NumPieces
      /\ calculatePieceLength(i) \in Int
  BY LengthsAssumption, PieceLengths DEF Pieces
<1>4. /\ \A n \in 0 .. NumPieces : f[n] \in Int /\ g[n] \in Int
      /\ f[0] = 0 /\ g[0] = 0
  BY <1>1, <1>2 DEF IsSum
<1> DEFINE T == {n \in 0 .. NumPieces :
                    g[n] = f[n] + (IF i < n THEN calculatePieceLength(i) ELSE 0)}
<1>5. 0 \in T
  BY <1>3, <1>4
<1>6. ASSUME NEW n \in 0 .. NumPieces - 1, n \in T PROVE n + 1 \in T
  <2>1. n \in Int /\ n + 1 \in 1 .. NumPieces /\ (n + 1) - 1 = n
    BY <1>3
  <2>2. f[n + 1] = f[n] + Share(S, n + 1) /\ g[n + 1] = g[n] + Share(R, n + 1)
    BY <1>1, <1>2, <2>1 DEF IsSum
  <2>3. Share(S, n + 1) \in Int
    BY <2>1, ShareIsInt
  <2>4. Share(R, n + 1) = Share(S, n + 1)
                              + (IF n = i THEN calculatePieceLength(i) ELSE 0)
    <3>1. CASE n = i
      BY <1>3, <2>1, <3>1 DEF Share
    <3>2. CASE n # i
      BY <2>1, <2>3, <3>2 DEF Share
    <3> QED
      BY <3>1, <3>2
  <2>5. n + 1 \in 0 .. NumPieces /\ n \in 0 .. NumPieces
    BY <1>3
  <2>6. g[n + 1] = f[n + 1] + (IF i < n + 1 THEN calculatePieceLength(i) ELSE 0)
    <3>1. f[n] \in Int /\ g[n] = f[n] + (IF i < n THEN calculatePieceLength(i) ELSE 0)
      BY <1>4, <1>6, <2>5
    <3> QED
      BY <1>3, <2>1, <2>2, <2>3, <2>4, <3>1
  <2> QED
    BY <2>5, <2>6
<1>7. 0 .. NumPieces \subseteq T
  <2> HIDE DEF T
  <2> QED
    BY <1>3, <1>5, <1>6, InductionUpTo
<1> QED
  BY <1>1, <1>2, <1>3, <1>4, <1>7

\* One piece less takes its length away.
LEMMA BytesOfLess ==
  ASSUME NEW S, NEW i \in Pieces, i \in S
  PROVE  BytesOf(S \ {i}) = BytesOf(S) - calculatePieceLength(i)
<1>1. (S \ {i}) \cup {i} = S
  OBVIOUS
<1>2. calculatePieceLength(i) \in Int
  BY PieceLengths
<1>3. /\ BytesOf(S \ {i}) \in Int
      /\ BytesOf(S) = BytesOf(S \ {i}) + calculatePieceLength(i)
  BY <1>1, BytesOfMore
<1> QED
  BY <1>2, <1>3

\* verifyDownload takes back pieces that are marked, each one once.
TakenBack ==
    /\ \A i \in failedVerify : downloaded[i]
    /\ dl \in {"loop", "lock", "check", "progress"} => failedVerify = {}
    /\ dl = "verify" => \A i \in failedVerify : i < vi

\* A handler that has counted its piece and not yet verified it.
Counting(p) == pc[p] \in {"verify", "undo"}

\* The counter is ahead by the piece that such a handler works on.
CountedInv ==
    ~exited =>
        /\ \A p \in Peers : Counting(p) =>
               Downloaded = BytesOf(Kept) + calculatePieceLength(msg[p].index)
        /\ (\A p \in Peers : ~Counting(p)) => Downloaded = BytesOf(Kept)

\* Nothing is taken back before the loop of verifyDownload comes to it.
LEMMA TakenBackStep == TypeOK /\ Discipline /\ TakenBack /\ [Next]_vars => TakenBack'
<1> SUFFICES ASSUME TypeOK, Discipline, TakenBack, [Next]_vars PROVE TakenBack'
  OBVIOUS
<1>1. ASSUME NEW i \in Pieces, downloaded[i] PROVE downloaded'[i]
  BY <1>1, KeepsVerifiedStep DEF KeepsVerified
<1>2. failedVerify \subseteq Pieces /\ vi \in Int /\ Pieces \subseteq Int
  BY DEF TypeOK, Pieces
<1>3. CASE UNCHANGED <<dl, vi, failedVerify>>
  BY <1>1, <1>2, <1>3 DEF TakenBack
<1>4. CASE VerifyNext
  <2>1. vi \in Pieces
    BY <1>4, LengthsAssumption DEF VerifyNext, Pieces, TypeOK
  <2>2. downloaded[vi]
    BY <1>4, <2>1 DEF VerifyNext, Discipline, isComplete
  <2>3. /\ dl = "verify" /\ dl' = dl /\ vi' = vi + 1
        /\ failedVerify' \subseteq failedVerify \cup {vi}
    BY <1>4 DEF VerifyNext
  <2>4. \A i \in failedVerify' : i \in Pieces /\ downloaded[i] /\ i < vi + 1
    BY <1>2, <2>1, <2>2, <2>3 DEF TakenBack
  <2> QED
    BY <1>1, <2>3, <2>4 DEF TakenBack
<1>5. CASE /\ failedVerify' = failedVerify
           /\ dl' = "returned"
  BY <1>1, <1>2, <1>5 DEF TakenBack
<1>6. CASE /\ failedVerify' = failedVerify
           /\ dl \in {"loop", "lock", "check", "progress"}
  BY <1>6 DEF TakenBack
<1>7. \/ UNCHANGED <<dl, vi, failedVerify>> \/ VerifyNext
      \/ failedVerify' = failedVerify /\ dl' = "returned"
      \/ failedVerify' = failedVerify /\ dl \in {"loop", "lock", "check", "progress"}
  BY DEF Next, Handler, ProcessPiece, Loop, Terminated, ReceivePiece,
     HandlerExit, LockPiece, WriteBlock, WriteBlockFails, CountBlock, VerifyBlock,
     VerifyBlockFails, UndoPiece, UnlockPiece, Tick, Cancel, OnCancel, Return,
     OnLastPieceTimeout, OnTick, LockStatus, CheckComplete, CheckProgress,
     VerifyEnd, CloseFiles, Exit, vars, loopVars
<1> QED
  BY <1>3, <1>4, <1>5, <1>6, <1>7

\* The steps that reach the counter, the flags or a handler that is counting.
LEMMA AccountSteps ==
  ASSUME TypeOK, [Next]_vars
  PROVE  \/ exited'
         \/ VerifyNext
         \/ \E p \in Peers : CountBlock(p) \/ VerifyBlock(p) \/ UndoPiece(p)
         \/ /\ UNCHANGED <<Downloaded, downloaded, failedVerify, exited>>
            /\ \A p \in Peers : Counting(p)' <=> Counting(p)
            /\ \A p \in Peers : Counting(p) => msg'[p] = msg[p]
<1> USE DEF TypeOK, Counting
<1>1. ASSUME NEW p \in Peers, Handler(p),
             ~ (CountBlock(p) \/ VerifyBlock(p) \/ UndoPiece(p))
      PROVE  /\ UNCHANGED <<Downloaded, downloaded, failedVerify, exited>>
             /\ \A q \in Peers : Counting(q)' <=> Counting(q)
             /\ \A q \in Peers : Counting(q) => msg'[q] = msg[q]
  BY <1>1 DEF Handler, ProcessPiece, ReceivePiece, HandlerExit, LockPiece, Resume,
     WriteBlock, WriteBlockFails, VerifyBlockFails, UnlockPiece, storeVars, loopVars
<1>2. ASSUME ~VerifyNext, ~exited',
             Tick \/ Cancel \/ Loop \/ CloseFiles \/ Exit \/ UNCHANGED vars
      PROVE  UNCHANGED <<Downloaded, downloaded, failedVerify, exited, pc, msg>>
  BY <1>2 DEF Tick, Cancel, Loop, OnCancel, OnLastPieceTimeout, OnTick, LockStatus,
     CheckComplete, CheckProgress, VerifyEnd, CloseFiles, Exit, vars, storeVars,
     loopVars, loopFrame, handlerVars
<1> QED
  BY <1>1, <1>2 DEF Next, Terminated

\* With whole pieces each of these steps keeps the account.
LEMMA CountedStep ==
  ASSUME Blocks \subseteq WholeBlocks, TypeOK, Discipline, TakenBack, CountedInv,
         [Next]_vars
  PROVE  CountedInv'
<1> SUFFICES ASSUME ~exited' PROVE CountedInv'
  BY DEF CountedInv
<1>1. ~exited
  BY DEF Next, Handler, ProcessPiece, Loop, Terminated, ReceivePiece,
     HandlerExit, LockPiece, WriteBlock, WriteBlockFails, CountBlock, VerifyBlock,
     VerifyBlockFails, UndoPiece, UnlockPiece, Tick, Cancel, OnCancel,
     OnLastPieceTimeout, OnTick, LockStatus, CheckComplete, CheckProgress,
     VerifyNext, VerifyEnd, CloseFiles, Exit, vars, loopVars
<1>2. ASSUME NEW p \in Peers, pc[p] \in Working
      PROVE  /\ msg[p] \in Blocks /\ msg[p].index \in Pieces
             /\ calculatePieceLength(msg[p].index) \in Int
             /\ ~downloaded[msg[p].index]
             /\ \A q \in Peers : Counting(q) => q = p
  BY <1>2, BlockFacts, PieceLengths
     DEF Discipline, Holding, Working, Counting
<1>3. BytesOf(Kept) \in Int
  BY BytesOfIsSum, LengthsAssumption DEF IsSum
<1>4. ASSUME UNCHANGED <<Downloaded, downloaded, failedVerify, exited>>,
             \A p \in Peers : Counting(p)' <=> Counting(p),
             \A p \in Peers : Counting(p) => msg'[p] = msg[p]
      PROVE  CountedInv'
  BY <1>4 DEF CountedInv, Kept
<1>5. ASSUME NEW p \in Peers, CountBlock(p) PROVE CountedInv'
  <2>1. /\ msg[p] \in WholeBlocks /\ msg[p].index \in Pieces
        /\ calculatePieceLength(msg[p].index) \in Int
        /\ \A q \in Peers : ~Counting(q)
    BY <1>2, <1>5 DEF CountBlock, Working, Counting
  <2>2. msg[p].begin = 0 /\ msg[p].len = calculatePieceLength(msg[p].index)
    BY <2>1 DEF WholeBlocks
  <2>3. /\ Kept' = Kept /\ msg' = msg
        /\ pc' = [pc EXCEPT ![p] = "verify"]
        /\ Downloaded' = Downloaded + calculatePieceLength(msg[p].index)
    <3>1. msg[p].begin + msg[p].len = calculatePieceLength(msg[p].index)
      BY <2>1, <2>2
    <3>2. Kept' = Kept /\ msg' = msg
      BY <1>5 DEF CountBlock, Kept, loopVars
    <3> QED
      BY <1>5, <2>2, <3>1, <3>2 DEF CountBlock
  <2>4. Downloaded' = BytesOf(Kept) + calculatePieceLength(msg[p].index)
    BY <1>1, <2>1, <2>3 DEF CountedInv
  <2>5. Counting(p)' /\ \A q \in Peers : Counting(q)' => q = p
    BY <2>1, <2>3 DEF Counting, TypeOK
  <2> QED
    BY <2>3, <2>4, <2>5 DEF CountedInv
<1>6. ASSUME NEW p \in Peers, VerifyBlock(p) PROVE CountedInv'
  <2> DEFINE i == msg[p].index
  <2>1. /\ Counting(p) /\ i \in Pieces /\ calculatePieceLength(i) \in Int
        /\ ~downloaded[i] /\ \A q \in Peers : Counting(q) => q = p
    BY <1>2, <1>6 DEF VerifyBlock, Working, Counting
  <2>2. Downloaded = BytesOf(Kept) + calculatePieceLength(i)
    BY <1>1, <2>1 DEF CountedInv
  <2>3. msg' = msg /\ Downloaded' = Downloaded /\ failedVerify' = failedVerify
    BY <1>6 DEF VerifyBlock, loopVars
  <2>4. CASE HashMatches(i)
    <3>1. /\ pc' = [pc EXCEPT ![p] = "unlock"]
          /\ downloaded' = [downloaded EXCEPT ![i] = TRUE]
      BY <1>6, <2>4 DEF VerifyBlock
    <3>2. i \notin Kept /\ i \notin failedVerify
      BY <2>1 DEF Kept, TakenBack
    <3>3. Kept' = Kept \cup {i}
      BY <2>1, <2>3, <3>1, <3>2 DEF Kept, TypeOK
    <3>4. BytesOf(Kept') = BytesOf(Kept) + calculatePieceLength(i)
      BY <2>1, <3>2, <3>3, BytesOfMore
    <3>5. \A q \in Peers : ~Counting(q)'
      BY <2>1, <3>1 DEF Counting, TypeOK
    <3> QED
      BY <2>2, <2>3, <3>4, <3>5 DEF CountedInv
  <2>5. CASE ~HashMatches(i)
    <3>1. pc' = [pc EXCEPT ![p] = "undo"] /\ downloaded' = downloaded
      BY <1>6, <2>5 DEF VerifyBlock
    <3>2. Kept' = Kept
      BY <2>3, <3>1 DEF Kept
    <3>3. Counting(p)' /\ \A q \in Peers : Counting(q)' => q = p
      BY <2>1, <3>1 DEF Counting, TypeOK
    <3> QED
      BY <2>2, <2>3, <3>2, <3>3 DEF CountedInv
  <2> QED
    BY <2>4, <2>5
<1>7. ASSUME NEW p \in Peers, UndoPiece(p) PROVE CountedInv'
  <2> DEFINE i == msg[p].index
  <2>1. /\ Counting(p) /\ calculatePieceLength(i) \in Int
        /\ \A q \in Peers : Counting(q) => q = p
    BY <1>2, <1>7 DEF UndoPiece, Working, Counting
  <2>2. Downloaded = BytesOf(Kept) + calculatePieceLength(i)
    BY <1>1, <2>1 DEF CountedInv
  <2>3. /\ Downloaded' = Downloaded - calculatePieceLength(i) /\ Kept' = Kept
        /\ pc' = [pc EXCEPT ![p] = "unlock"]
    BY <1>7 DEF UndoPiece, Kept, loopVars
  <2>4. Downloaded' = BytesOf(Kept)
    BY <1>3, <2>1, <2>2, <2>3
  <2>5. \A q \in Peers : ~Counting(q)'
    BY <2>1, <2>3 DEF Counting, TypeOK
  <2> QED
    BY <2>3, <2>4, <2>5 DEF CountedInv
<1>8. CASE VerifyNext
  <2>1. /\ vi \in Pieces /\ calculatePieceLength(vi) \in Int
    BY <1>8, LengthsAssumption, PieceLengths DEF VerifyNext, Pieces, TypeOK
  <2>2. downloaded[vi] /\ \A p \in Peers : pc[p] \notin Working
    <3>1. isComplete
      BY <1>8 DEF VerifyNext, Discipline
    <3> QED
      BY <1>2, <2>1, <3>1 DEF isComplete
  <2>3. \A p \in Peers : ~Counting(p) /\ ~Counting(p)'
    BY <1>8, <2>2 DEF VerifyNext, loopFrame, handlerVars, Counting, Working
  <2>4. Downloaded = BytesOf(Kept)
    BY <1>1, <2>3 DEF CountedInv
  <2>5. vi \in Kept
    <3>1. vi \notin failedVerify
      BY <1>8, <2>1 DEF VerifyNext, TakenBack, Pieces
    <3> QED
      BY <2>1, <2>2, <3>1 DEF Kept
  <2>6. \/ UNCHANGED <<Downloaded, failedVerify>>
        \/ /\ Downloaded' = Downloaded - calculatePieceLength(vi)
           /\ failedVerify' = failedVerify \cup {vi}
    BY <1>8, Zenon DEF VerifyNext
  <2>7. downloaded' = downloaded
    BY <1>8 DEF VerifyNext, loopFrame
  <2>8. CASE UNCHANGED <<Downloaded, failedVerify>>
    BY <2>3, <2>4, <2>7, <2>8 DEF CountedInv, Kept
  <2>9. CASE /\ Downloaded' = Downloaded - calculatePieceLength(vi)
             /\ failedVerify' = failedVerify \cup {vi}
    <3>1. Kept' = Kept \ {vi}
      BY <2>7, <2>9 DEF Kept
    <3>2. Downloaded' = BytesOf(Kept')
      BY <2>1, <2>4, <2>5, <2>9, <3>1, BytesOfLess
    <3> QED
      BY <2>3, <3>2 DEF CountedInv
  <2> QED
    BY <2>6, <2>8, <2>9
<1> QED
  BY <1>4, <1>5, <1>6, <1>7, <1>8, AccountSteps

-----------------------------------------------------------------------------
(* The theorems.                                                           *)

\* What every step preserves.
IInv == TypeOK /\ Discipline /\ Integrity /\ Looked /\ Conservation

(***************************************************************************)
(* The inductive invariant: the types, the discipline of t.mu and the      *)
(* safety properties that need them, in one induction, for blocks of any   *)
(* place and length.                                                       *)
(***************************************************************************)
THEOREM Invariance == Spec => []IInv
<1>1. Init => IInv
  BY InitTypeOK, InitDiscipline, InitIntegrity, InitLooked, InitConservation DEF IInv
<1>2. IInv /\ [Next]_vars => IInv'
  BY TypeOKStep, DisciplineStep, IntegrityStep, LookedStep, ConservationStep DEF IInv
<1> QED
  BY <1>1, <1>2, PTL DEF Spec

(***************************************************************************)
(* Every state of the download engine is well typed.                       *)
(***************************************************************************)
THEOREM TypeCorrect == Spec => []TypeOK
<1>1. IInv => TypeOK
  BY DEF IInv
<1> QED
  BY <1>1, Invariance, PTL

(***************************************************************************)
(* A handler works on a piece only while it holds t.mu, and never on one   *)
(* that is already verified (processPiece).                                *)
(***************************************************************************)
THEOREM LockDiscipline == Spec => []Discipline
<1>1. IInv => Discipline
  BY DEF IInv
<1> QED
  BY <1>1, Invariance, PTL

(***************************************************************************)
(* A piece marked Downloaded is intact on disk unless a block of another   *)
(* piece was written over it, for any number of handlers, pieces, blocks   *)
(* and disk errors (processPiece, verifyPiece, WritePiece).                *)
(***************************************************************************)
THEOREM IntegrityHolds == Spec => []Integrity
<1>1. IInv => Integrity
  BY DEF IInv
<1> QED
  BY <1>1, Invariance, PTL

(***************************************************************************)
(* When Download returns nil, a piece that is not intact is one that       *)
(* verifyDownload found bad.                                               *)
(***************************************************************************)
THEOREM CompletedIntactHolds == Spec => []CompletedIntact
<1>1. IInv => CompletedIntact
  BY DEF IInv, Looked
<1> QED
  BY <1>1, Invariance, PTL

(***************************************************************************)
(* If no peer sends a block that reaches past the end of its piece, then   *)
(* the file is the torrent's content when Download returns nil.  The       *)
(* condition is what processPiece would have to check.                     *)
(***************************************************************************)
THEOREM ReturnsIntactInside ==
  ASSUME \A b \in Blocks : ~PastEnd(b)
  PROVE  Spec => []ReturnsIntact
<1>1. Init => overrun = {}
  BY DEF Init
<1>2. IInv /\ overrun = {} /\ [Next]_vars => (overrun = {})'
  BY NoOverrunStep DEF IInv
<1>3. IInv /\ overrun = {} => ReturnsIntact
  BY DEF IInv, ReturnsIntact, Integrity, Discipline, isComplete
<1> QED
  BY <1>1, <1>2, <1>3, Invariance, PTL DEF Spec

(***************************************************************************)
(* Downloaded and Left always add up to the length of the torrent.         *)
(***************************************************************************)
THEOREM ConservationHolds == Spec => []Conservation
<1>1. IInv => Conservation
  BY DEF IInv
<1> QED
  BY <1>1, Invariance, PTL

(***************************************************************************)
(* verifyDownload, which takes no lock, never changes the counters while a *)
(* handler may change them.                                                *)
(***************************************************************************)
THEOREM CountersNotSharedHolds == Spec => []CountersNotShared
<1>1. IInv => CountersNotShared
  <2> SUFFICES ASSUME IInv, dl = "verify", NEW p \in Peers
               PROVE  pc[p] \notin Working
    BY DEF CountersNotShared
  <2>1. pc[p] \in Working => msg[p].index \in Pieces
    BY BlockFacts DEF IInv, Discipline, Holding
  <2> QED
    BY <2>1 DEF IInv, Discipline, isComplete
<1> QED
  BY <1>1, Invariance, PTL

(***************************************************************************)
(* A verified piece is never unmarked, and written to only by a block that *)
(* reaches past the end of an earlier piece.                               *)
(***************************************************************************)
THEOREM VerifiedForGoodHolds == Spec => VerifiedForGood
<1>1. IInv /\ [Next]_vars => [KeepsVerified]_vars
  BY KeepsVerifiedStep DEF IInv
<1> QED
  BY <1>1, Invariance, PTL DEF Spec, VerifiedForGood

(***************************************************************************)
(* If every peer answers with the whole pieces requestPiece asks it for,   *)
(* then Torrent.Downloaded is the length of the pieces marked Downloaded,  *)
(* less those verifyDownload took back, whenever t.mu is free: duplicates, *)
(* corrupted pieces and disk errors leave no trace in the counter.         *)
(***************************************************************************)
THEOREM AccountingIsExact ==
  ASSUME Blocks \subseteq WholeBlocks
  PROVE  Spec => []ExactAccounting
<1> DEFINE AInv == TypeOK /\ Discipline /\ TakenBack /\ CountedInv
<1>1. Init => AInv
  <2> SUFFICES ASSUME Init PROVE AInv
    OBVIOUS
  <2>1. TypeOK /\ Discipline
    BY InitTypeOK, InitDiscipline
  <2>2. TakenBack
    BY DEF Init, TakenBack
  <2>3. Kept = {} /\ Downloaded = 0 /\ \A p \in Peers : ~Counting(p)
    BY DEF Init, Kept, Counting
  <2>4. CountedInv
    BY <2>3, BytesOfNone DEF CountedInv
  <2> QED
    BY <2>1, <2>2, <2>4
<1>2. AInv /\ [Next]_vars => AInv'
  BY TypeOKStep, DisciplineStep, TakenBackStep, CountedStep
<1>3. AInv => ExactAccounting
  <2> SUFFICES ASSUME AInv, mu = NoPeer, ~exited PROVE Downloaded = BytesOf(Kept)
    BY DEF ExactAccounting
  <2>1. \A p \in Peers : ~Counting(p)
    BY PeersAssumption DEF Discipline, Counting, Holding, Working
  <2> QED
    BY <2>1 DEF CountedInv
<1> QED
  BY <1>1, <1>2, <1>3, PTL DEF Spec
=============================================================================
