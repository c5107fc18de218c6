---------------------------- MODULE FileManager ----------------------------
(***************************************************************************)
(* internal/file: the files of a torrent.  CreateFiles, Initialize,        *)
(* WritePiece, ReadPiece and Close, one action per round of their loops    *)
(* over the files.  WritePiece walks the files by the length the torrent   *)
(* gives them and ReadPiece by the size they have on disk.                 *)
(*                                                                         *)
(* fm.mutex is held for the whole of WritePiece, ReadPiece and Close:      *)
(* call # Idle means that one of the first two holds it.                   *)
(***************************************************************************)
EXTENDS Integers, Sequences

CONSTANTS
    Layouts,      \* the files of a torrent: their lengths and present sizes
    PieceSize,    \* fm.pieceSize
    NumPieces,    \* pieces that calls name
    Bytes, Zero,  \* values of a byte; the one in holes
    MaxLen        \* longest write or read

ASSUME FilesAssumption ==
    /\ \A l \in Layouts :
          /\ l.lengths \in Seq(Nat) /\ l.lengths # <<>>
          /\ l.sizes \in Seq(Nat) /\ Len(l.sizes) = Len(l.lengths)
          /\ \A f \in 1 .. Len(l.sizes) : l.sizes[f] <= l.lengths[f]
    /\ PieceSize \in Nat \ {0} /\ NumPieces \in Nat /\ MaxLen \in Nat
    /\ Zero \in Bytes

\* Files of a torrent with several, which CreateFiles does not make, are on
\* disk at their full length before Initialize opens them.
FullSizes == \A l \in Layouts : Len(l.lengths) > 1 => l.sizes = l.lengths

Offsets == {index * PieceSize + begin :
               index \in 0 .. NumPieces - 1, begin \in 0 .. PieceSize - 1}

VARIABLES
    Lengths,  \* FileInfo.Length of each file
    content,  \* bytes of each file, Zero from its size on
    size,     \* size of each file, as Stat gives it
    handle,   \* FileInfo of each: "none", "open", "closed", or "nil"
    mode,     \* "new", "ready", "closed" (files = nil), "exited", "crashed"
    ci,       \* files CreateFiles has made; -1 before it is called
    call,     \* the call in progress
    i,        \* its file
    pos,      \* pieceOffset (write) or offset (read)
    k,        \* bytes written or read so far
    buf,      \* data[:bytesRead]
    err,      \* a disk call failed
    ret       \* the last answer

callVars == <<call, i, pos, k, buf, err>>
fileVars == <<content, size, handle>>
vars == <<Lengths, fileVars, mode, ci, callVars, ret>>

NumFiles == Len(Lengths)
Files == 1 .. NumFiles

\* Where file f begins in the torrent; the last entry is its length.
pieceOffsets[f \in 1 .. NumFiles + 1] ==
    IF f = 1 THEN 0 ELSE pieceOffsets[f - 1] + Lengths[f - 1]

totalLength == pieceOffsets[NumFiles + 1]

-----------------------------------------------------------------------------
(* The torrent as one array of bytes.                                      *)

FileOf(c) == CHOOSE f \in Files : pieceOffsets[f] <= c /\ c < pieceOffsets[f + 1]

flat == [c \in 0 .. totalLength - 1 |-> content[FileOf(c)][c - pieceOffsets[FileOf(c)]]]

Flat == INSTANCE FlatStore WITH
    store  <- flat,
    status <- CASE mode = "new" -> "new"
                [] mode \in {"ready", "closed"} -> mode
                [] OTHER -> "gone"

Empty == Flat!Empty
Idle  == Flat!Idle

Init ==
    /\ \E l \in Layouts : Lengths = l.lengths /\ size = l.sizes
    /\ content \in {c \in [Files -> UNION {[0 .. Lengths[f] - 1 -> Bytes] : f \in Files}] :
                       \A f \in Files : /\ DOMAIN c[f] = 0 .. Lengths[f] - 1
                                        /\ \A o \in DOMAIN c[f] :
                                              o >= size[f] => c[f][o] = Zero}
    /\ handle = [f \in Files |-> "none"]
    /\ mode = "new" /\ ci = -1
    /\ call = Idle /\ i = 1 /\ pos = 0 /\ k = 0 /\ buf = Empty /\ err = FALSE
    /\ ret = [op |-> "none", ok |-> TRUE, data |-> Empty]

-----------------------------------------------------------------------------
(* Creation.  The first path CreateFiles makes is <name>, a regular file;  *)
(* the others lie in the directory <name>.  SetFileManager then opens      *)
(* <name>, or for several files the paths the torrent gives them, which    *)
(* CreateFiles does not touch.                                             *)

BeginCreate ==
    /\ mode = "new" /\ ci = -1
    /\ ci' = 0
    /\ UNCHANGED <<Lengths, fileVars, mode, callVars, ret>>

\* MkdirAll(<name>) fails once <name> is a regular file.
MkdirAllFails == ci > 0

CreateFile ==
    /\ mode = "new" /\ ci >= 0 /\ ci < NumFiles /\ ~MkdirAllFails
    /\ ci' = ci + 1
    /\ IF NumFiles = 1
       THEN /\ content' = [f \in Files |-> [o \in 0 .. Lengths[f] - 1 |-> Zero]]
            /\ size' = Lengths
       ELSE UNCHANGED <<content, size>>
    /\ UNCHANGED <<Lengths, handle, mode, callVars, ret>>

\* The error makes main exit; what is left on disk is not looked at again.
CreateFails ==
    /\ mode = "new" /\ ci >= 0 /\ ci < NumFiles
    /\ mode' = "exited"
    /\ UNCHANGED <<Lengths, fileVars, ci, callVars, ret>>

\* Initialize opens the files in turn and stops at the first error, which
\* main ignores: the files that were not reached stay nil.  For one file main
\* has called CreateFiles; several only a direct user of the package gets here.
Initialize ==
    /\ mode = "new" /\ ci = IF NumFiles = 1 THEN 1 ELSE -1
    /\ \E n \in 0 .. NumFiles :
          handle' = [f \in Files |-> IF f <= n THEN "open" ELSE "nil"]
    /\ mode' = "ready"
    /\ UNCHANGED <<Lengths, content, size, ci, callVars, ret>>

-----------------------------------------------------------------------------
(* WritePiece.                                                             *)

WritePiece(index, offset, data) ==
    /\ mode \in {"ready", "closed"} /\ call = Idle
    /\ call' = [op |-> "write", off |-> index * PieceSize + offset, data |-> data,
                len |-> Flat!Length(data)]
    /\ i' = 1 /\ pos' = index * PieceSize + offset
    /\ k' = 0 /\ buf' = Empty /\ err' = FALSE
    /\ UNCHANGED <<Lengths, fileVars, mode, ci, ret>>

\* The loop of a call has a file to look at.
Round(op) ==
    /\ mode = "ready" /\ call.op = op /\ ~err /\ i <= NumFiles

\* A FileInfo that Initialize left nil is dereferenced.
Crash ==
    /\ Round("write") \/ Round("read")
    /\ handle[i] = "nil"
    /\ mode' = "crashed"
    /\ UNCHANGED <<Lengths, fileVars, ci, callVars, ret>>

\* What a write subtracts for a file it skips, and a mutant.
SkippedToEnd == pieceOffsets[i + 1]
Skipped == Lengths[i]

WriteSkip ==
    /\ Round("write") /\ handle[i] # "nil"
    /\ pos >= Lengths[i]
    /\ pos' = pos - Skipped
    /\ i' = i + 1
    /\ UNCHANGED <<Lengths, fileVars, mode, ci, call, k, buf, err, ret>>

\* What WriteAt is asked to write in file i, and a mutant.
WriteLengthUnclipped == call.len - k
WriteLength ==
    LET rest == call.len - k
        room == Lengths[i] - pos
    IN  IF rest < room THEN rest ELSE room

\* n bytes of the data reach file i; a write past its end makes it longer.
WriteAt(n) ==
    /\ content' = [content EXCEPT ![i] =
                      [o \in DOMAIN content[i] |->
                          IF pos <= o /\ o < pos + n THEN call.data[k + o - pos]
                          ELSE content[i][o]]]
    /\ size' = [size EXCEPT ![i] = IF n > 0 /\ pos + n > size[i] THEN pos + n
                                   ELSE size[i]]
    /\ k' = k + n

\* WriteAt does not notice a closed file when it has nothing to write.
WriteFile ==
    /\ Round("write") /\ pos < Lengths[i]
    /\ handle[i] = "open" \/ (handle[i] = "closed" /\ WriteLength = 0)
    /\ WriteAt(WriteLength)
    /\ i' = IF k' = call.len THEN NumFiles + 1 ELSE i + 1
    /\ pos' = 0
    /\ UNCHANGED <<Lengths, handle, mode, ci, call, buf, err, ret>>

\* WriteAt fails, after some of the bytes.
WriteFails ==
    /\ Round("write")
    /\ pos < Lengths[i]
    /\ \/ /\ handle[i] = "closed" /\ WriteLength > 0
          /\ UNCHANGED <<content, size, k>>
       \/ /\ handle[i] = "open"
          /\ \E n \in 0 .. WriteLength - 1 : WriteAt(n)
    /\ err' = TRUE
    /\ UNCHANGED <<Lengths, handle, mode, ci, call, i, pos, buf, ret>>

-----------------------------------------------------------------------------
(* ReadPiece.                                                              *)

ReadPiece(index, begin, length) ==
    /\ mode \in {"ready", "closed"} /\ call = Idle
    /\ call' = [op |-> "read", off |-> index * PieceSize + begin, data |-> Empty,
                len |-> length]
    /\ i' = 1 /\ pos' = index * PieceSize + begin
    /\ k' = 0 /\ buf' = Empty /\ err' = FALSE
    /\ UNCHANGED <<Lengths, fileVars, mode, ci, ret>>

ReadSkip ==
    /\ Round("read") /\ handle[i] = "open"
    /\ pos >= size[i]
    /\ pos' = pos - size[i]
    /\ i' = i + 1
    /\ UNCHANGED <<Lengths, fileVars, mode, ci, call, k, buf, err, ret>>

\* Where Seek goes, and a mutant without Seek.
SeekForgotten == 0
SeekTo == pos

\* Seek and Read: up to the end of the file or of the buffer.
ReadFile ==
    /\ Round("read") /\ handle[i] = "open"
    /\ pos < size[i]
    /\ LET rest == call.len - k
           n == IF rest < size[i] - pos THEN rest ELSE size[i] - pos
       IN  /\ buf' = [j \in 0 .. k + n - 1 |->
                         IF j < k THEN buf[j] ELSE content[i][SeekTo + j - k]]
           /\ k' = k + n
    /\ i' = IF k' = call.len THEN NumFiles + 1 ELSE i + 1
    /\ pos' = 0
    /\ UNCHANGED <<Lengths, fileVars, mode, ci, call, err, ret>>

\* Stat, Seek or Read fails.
ReadFails ==
    /\ Round("read")
    /\ handle[i] \in {"open", "closed"}
    /\ err' = TRUE
    /\ UNCHANGED <<Lengths, fileVars, mode, ci, call, i, pos, k, buf, ret>>

-----------------------------------------------------------------------------

\* The call reports success.
Succeeds == ~err

\* The end of the loop, or at once when files is nil: data that was left
\* over is dropped without an error.
Return ==
    /\ call # Idle
    /\ err \/ i > NumFiles \/ mode = "closed"
    /\ mode # "crashed"
    /\ ret' = [op |-> call.op, ok |-> Succeeds, data |-> IF Succeeds THEN buf ELSE Empty]
    /\ call' = Idle /\ i' = 1 /\ pos' = 0 /\ k' = 0 /\ buf' = Empty /\ err' = FALSE
    /\ UNCHANGED <<Lengths, fileVars, mode, ci>>

\* Close stops at the first file that does not close; n files closed well.
Close ==
    /\ mode \in {"ready", "closed"} /\ call = Idle
    /\ \/ /\ mode = "closed" \/ \A f \in Files : handle[f] = "open"
          /\ handle' = [f \in Files |-> "closed"]
          /\ mode' = "closed"
          /\ ret' = [op |-> "close", ok |-> TRUE, data |-> Empty]
       \/ /\ mode = "ready"
          /\ \E n \in Files :
                /\ \A f \in Files : f < n => handle[f] = "open"
                /\ handle[n] \in {"open", "closed"}
                /\ handle' = [f \in Files |-> IF f <= n THEN "closed" ELSE handle[f]]
          /\ UNCHANGED mode
          /\ ret' = [op |-> "close", ok |-> FALSE, data |-> Empty]
       \/ /\ mode = "ready"
          /\ \E n \in Files : /\ \A f \in Files : f < n => handle[f] = "open"
                              /\ handle[n] = "nil"
          /\ mode' = "crashed"
          /\ UNCHANGED <<handle, ret>>
    /\ UNCHANGED <<Lengths, content, size, ci, callVars>>

Stopped == mode \in {"exited", "crashed"} /\ UNCHANGED vars

Next ==
    \/ BeginCreate \/ CreateFile \/ CreateFails \/ Initialize
    \/ \E index \in 0 .. NumPieces - 1, begin \in 0 .. PieceSize - 1 :
          \/ \E data \in Flat!Strings : WritePiece(index, begin, data)
          \/ \E length \in 0 .. MaxLen : ReadPiece(index, begin, length)
    \/ WriteSkip \/ WriteFile \/ WriteFails \/ ReadSkip \/ ReadFile \/ ReadFails
    \/ Crash \/ Return \/ Close \/ Stopped

Spec == Init /\ [][Next]_vars

-----------------------------------------------------------------------------
(* Properties.                                                             *)

TypeOK ==
    /\ Lengths \in {l.lengths : l \in Layouts}
    /\ \A f \in Files : content[f] \in [0 .. Lengths[f] - 1 -> Bytes]
    /\ size \in [Files -> Nat]
    /\ handle \in [Files -> {"none", "open", "closed", "nil"}]
    /\ mode \in {"new", "ready", "closed", "exited", "crashed"}
    /\ ci \in -1 .. NumFiles
    /\ call \in Flat!Calls \cup {Idle}
    /\ i \in 1 .. NumFiles + 1 /\ pos \in Nat
    /\ k \in 0 .. MaxLen /\ buf \in Flat!Strings /\ err \in BOOLEAN
    /\ ret \in Flat!Answers

(***************************************************************************)
(* Once the files are open, each has the size the torrent gives it and     *)
(* keeps it, wherever a block begins and however long it is: ReadPiece     *)
(* walks the files by their size on disk and WritePiece by the torrent's   *)
(* lengths.  A single file gets its size from CreateFiles; several have it *)
(* only if FullSizes.                                                      *)
(***************************************************************************)
SizesKept == mode \in {"ready", "closed", "crashed"} => size = Lengths

(***************************************************************************)
(* The files of the torrent are one array of bytes to the callers of       *)
(* WritePiece and ReadPiece: the promise of FlatStore, kept for a single   *)
(* file and, if FullSizes, for several.                                    *)
(***************************************************************************)
IsFlatStore == Flat!FlatSpec
=============================================================================
