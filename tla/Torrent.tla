------------------------------ MODULE Torrent ------------------------------
(***************************************************************************)
(* The download engine of internal/torrent/torrent.go: the peer handlers   *)
(* that bring blocks to processPiece, the piece table with its Downloaded  *)
(* flags and byte counters, the main loop of Download with its tick and    *)
(* timeouts, verifyDownload, and the end of main, which closes the         *)
(* FileManager while handlers may still be running.                        *)
(*                                                                         *)
(* The file is abstracted to one Boolean per cell (a cell is any fixed     *)
(* number of bytes): TRUE when the cell holds the bytes the torrent has    *)
(* there.  Only single-file torrents are modelled: NewTorrent fails on a   *)
(* torrent with a file list, because InfoHash cannot encode the list.      *)
(***************************************************************************)
EXTENDS Integers, FiniteSets

CONSTANTS
    Peers,           \* connected peers, one handlePeer goroutine each
    NoPeer,          \* "nobody holds Torrent.mu"
    PieceLength,     \* MetaInfo.Info.PieceLength, in cells
    ContentLength,   \* length of the file the torrent describes, in cells
    InfoLength,      \* MetaInfo.Info.Length as the client holds it, in cells
    NumPieces,       \* MetaInfo.NumPieces()
    Blocks,          \* the piece messages peers may send
    NoBlock,         \* "the handler has no piece message"
    NoProgressTicks, \* main-loop ticks in 5 minutes
    LastPieceTicks   \* main-loop ticks in 10 minutes

\* Constants that only bound the model.
CONSTANTS
    MaxBlocks,       \* piece messages received in a behaviour
    MaxIOErrors      \* disk errors in a behaviour

Pieces == 0 .. NumPieces - 1
Cells  == 0 .. InfoLength - 1

(***************************************************************************)
(* The length NewTorrent gives piece i.  TotalLength() is InfoLength here, *)
(* and a PieceLength of 0 is refused by ParseMetaInfo.                     *)
(***************************************************************************)
calculatePieceLength(i) ==
    IF i = NumPieces - 1 THEN InfoLength % PieceLength ELSE PieceLength

(***************************************************************************)
(* The length of the data whose SHA-1 is the hash of piece i.              *)
(***************************************************************************)
ContentOf(i) ==
    IF i = NumPieces - 1 THEN ContentLength - i * PieceLength ELSE PieceLength

ASSUME PeersAssumption == NoPeer \notin Peers

ASSUME LengthsAssumption ==
    /\ PieceLength \in Nat \ {0}
    /\ ContentLength \in Nat \ {0}
    /\ InfoLength \in Nat
    /\ NumPieces \in Nat \ {0}
    /\ (NumPieces - 1) * PieceLength < ContentLength
    /\ ContentLength <= NumPieces * PieceLength

\* handlePeer drops a piece message with an index out of range and looks at
\* nothing else: a block may begin anywhere and be of any length.
ASSUME BlocksAssumption ==
    /\ NoBlock \notin Blocks
    /\ Blocks \subseteq [index : Pieces, begin : Nat, len : Nat, good : BOOLEAN]

ASSUME BoundsAssumption ==
    /\ NoProgressTicks \in Nat /\ LastPieceTicks \in Nat
    /\ MaxBlocks \in Nat /\ MaxIOErrors \in Nat

VARIABLES
    disk,         \* the file: is the cell as the torrent has it?
    fm,           \* FileManager: "open", "closed" (files = nil) or "broken"
    downloaded,   \* Pieces[i].Downloaded
    Downloaded,   \* Torrent.Downloaded, in cells
    Left,         \* Torrent.Left, in cells
    mu,           \* holder of Torrent.mu among the handlers
    pc,           \* where each handler is
    msg,          \* the piece message each handler is processing
    dl,           \* where Download is
    vi,           \* index of the loop of verifyDownload
    result,       \* what Download returned
    clock,        \* ticks since Download began, up to LastPieceTicks
    tick,         \* a tick is waiting in ticker.C (its buffer holds one)
    ctxDone,      \* the download context is cancelled or has expired
    exited,       \* main has returned
    received,     \* piece messages received so far (bound)
    ioErrors,     \* disk errors so far (bound)
    failedVerify, \* history: pieces verifyDownload found bad
    overrun       \* history: marked pieces a block of another piece wrote to

handlerVars == <<mu, pc, msg>>
storeVars   == <<disk, overrun, downloaded, Downloaded, Left>>
loopVars    == <<dl, vi, result, clock, tick, ctxDone, exited, failedVerify>>
vars == <<handlerVars, storeVars, loopVars, fm, received, ioErrors>>

Init ==
    /\ disk \in [Cells -> BOOLEAN]   \* a zeroed cell may be what the torrent has
    /\ fm = "open"
    /\ downloaded = [i \in Pieces |-> FALSE]
    /\ Downloaded = 0
    /\ Left = InfoLength
    /\ mu = NoPeer
    /\ pc = [p \in Peers |-> "read"]
    /\ msg = [p \in Peers |-> NoBlock]
    /\ dl = "loop" /\ vi = 0 /\ result = "none"
    /\ clock = 0 /\ tick = FALSE
    /\ ctxDone = FALSE /\ exited = FALSE
    /\ received = 0 /\ ioErrors = 0
    /\ failedVerify = {} /\ overrun = {}

-----------------------------------------------------------------------------
(* FileManager, for one file of InfoLength cells that CreateFiles has      *)
(* already extended to that length.                                        *)

Start(b) == b.index * PieceLength + b.begin

\* A write of n cells at the start of b reaches piece i.
Reaches(b, n, i) ==
    \E c \in Cells : /\ Start(b) <= c /\ c < Start(b) + n
                    /\ i * PieceLength <= c /\ c < i * PieceLength + PieceLength

\* Mutant of WritePiece: one cell too many.
WritePieceTooLong(b, n) ==
    /\ disk' = IF fm = "open"
               THEN [c \in Cells |-> IF Start(b) <= c /\ c <= Start(b) + n
                                     THEN b.good ELSE disk[c]]
               ELSE disk
    /\ overrun' = IF fm = "open"
                  THEN overrun \cup {i \in Pieces \ {b.index} :
                                       downloaded[i] /\ Reaches(b, n, i)}
                  ELSE overrun

\* WritePiece, or the first n cells of it: what lies past the end of the
\* file is dropped, and after Close there is no file to write to.
WritePiece(b, n) ==
    /\ disk' = IF fm = "open"
               THEN [c \in Cells |-> IF Start(b) <= c /\ c < Start(b) + n
                                     THEN b.good ELSE disk[c]]
               ELSE disk
    /\ overrun' = IF fm = "open"
                  THEN overrun \cup {i \in Pieces \ {b.index} :
                                       downloaded[i] /\ Reaches(b, n, i)}
                  ELSE overrun

\* WritePiece reaches WriteAt: the block begins inside the file and is not
\* empty.
CallsWriteAt(b) == Start(b) < InfoLength /\ b.len > 0

\* Number of cells ReadPiece(i, 0, length of piece i) returns.
ReadLength(i) ==
    LET len == calculatePieceLength(i)
        rest == InfoLength - i * PieceLength
    IN  IF fm # "open" \/ rest <= 0 THEN 0
        ELSE IF len < rest THEN len ELSE rest

\* A disk call fails: a new error, or the file a failed Close left behind.
IOError ==
    \/ fm = "open" /\ ioErrors < MaxIOErrors /\ ioErrors' = ioErrors + 1
    \/ fm = "broken" /\ UNCHANGED ioErrors

\* Mutant of HashMatches: a read of the right length is good enough.
HashMatchesLengthOnly(i) == ReadLength(i) = ContentOf(i)

\* verifyPiece: the data read has the hash of piece i.
HashMatches(i) ==
    /\ ReadLength(i) = ContentOf(i)
    /\ \A c \in Cells : (i * PieceLength <= c /\ c < i * PieceLength + ReadLength(i))
                            => disk[c]

-----------------------------------------------------------------------------
(* handlePeer: the loop of a handler, for the messages that reach the      *)
(* piece table.                                                            *)

\* Between Lock and Unlock of processPiece; and those with work still to do.
Working == {"write", "count", "verify", "undo"}
Holding == Working \cup {"unlock"}

\* Back to the select of handlePeer, which looks at ctx before it reads on.
Resume(p) ==
    /\ pc' = [pc EXCEPT ![p] = IF ctxDone THEN "done" ELSE "read"]
    /\ msg' = [msg EXCEPT ![p] = NoBlock]

\* ReadMessage returned a piece message with an index in range.
ReceivePiece(p) ==
    /\ pc[p] = "read"
    /\ received < MaxBlocks
    /\ received' = received + 1
    /\ pc' = [pc EXCEPT ![p] = "lock"]
    /\ \E b \in Blocks : msg' = [msg EXCEPT ![p] = b]
    /\ UNCHANGED <<mu, storeVars, loopVars, fm, ioErrors>>

\* ReadMessage failed, its deadline passed, or the idle timer fired.
HandlerExit(p) ==
    /\ pc[p] = "read"
    /\ pc' = [pc EXCEPT ![p] = "done"]
    /\ UNCHANGED <<mu, msg, storeVars, loopVars, fm, received, ioErrors>>

\* The piece is there already, and a mutant that does not look.
NeverThere(p) == FALSE
AlreadyThere(p) == downloaded[msg[p].index]

\* Mutant of LockPiece: t.mu is kept on the early return.
LockPieceNoUnlock(p) ==
    /\ pc[p] = "lock"
    /\ mu = NoPeer
    /\ mu' = p
    /\ IF AlreadyThere(p)
       THEN Resume(p)
       ELSE /\ pc' = [pc EXCEPT ![p] = "write"]
            /\ UNCHANGED msg
    /\ UNCHANGED <<storeVars, loopVars, fm, received, ioErrors>>

\* processPiece takes t.mu and returns at once when the piece is there.
LockPiece(p) ==
    /\ pc[p] = "lock"
    /\ mu = NoPeer
    /\ IF AlreadyThere(p)
       THEN Resume(p) /\ UNCHANGED mu
       ELSE /\ mu' = p
            /\ pc' = [pc EXCEPT ![p] = "write"]
            /\ UNCHANGED msg
    /\ UNCHANGED <<storeVars, loopVars, fm, received, ioErrors>>

WriteBlock(p) ==
    /\ pc[p] = "write"
    /\ fm # "broken" \/ ~CallsWriteAt(msg[p])
    /\ WritePiece(msg[p], msg[p].len)
    /\ pc' = [pc EXCEPT ![p] = "count"]
    /\ UNCHANGED <<mu, msg, downloaded, Downloaded, Left, loopVars, fm,
                   received, ioErrors>>

\* WriteAt failed after it wrote some of the block; processPiece returns.
WriteBlockFails(p) ==
    /\ pc[p] = "write"
    /\ CallsWriteAt(msg[p])
    /\ IOError
    /\ \E n \in 0 .. msg[p].len - 1 :
           Start(msg[p]) + n < InfoLength /\ WritePiece(msg[p], n)
    /\ pc' = [pc EXCEPT ![p] = "unlock"]
    /\ UNCHANGED <<mu, msg, downloaded, Downloaded, Left, loopVars, fm, received>>

\* The counters move by the block; the block that ends the piece is followed
\* by its verification.
CountBlock(p) ==
    /\ pc[p] = "count"
    /\ Downloaded' = Downloaded + msg[p].len
    /\ Left' = Left - msg[p].len
    /\ pc' = [pc EXCEPT ![p] =
                IF msg[p].begin + msg[p].len = calculatePieceLength(msg[p].index)
                THEN "verify" ELSE "unlock"]
    /\ UNCHANGED <<mu, msg, disk, overrun, downloaded, loopVars, fm, received, ioErrors>>

VerifyBlock(p) ==
    /\ pc[p] = "verify"
    /\ fm # "broken"
    /\ IF HashMatches(msg[p].index)
       THEN /\ downloaded' = [downloaded EXCEPT ![msg[p].index] = TRUE]
            /\ pc' = [pc EXCEPT ![p] = "unlock"]
       ELSE /\ pc' = [pc EXCEPT ![p] = "undo"]
            /\ UNCHANGED downloaded
    /\ UNCHANGED <<mu, msg, disk, overrun, Downloaded, Left, loopVars, fm, received, ioErrors>>

VerifyBlockFails(p) ==
    /\ pc[p] = "verify"
    /\ IOError
    /\ pc' = [pc EXCEPT ![p] = "undo"]
    /\ UNCHANGED <<mu, msg, storeVars, loopVars, fm, received>>

\* Mutants of UndoPiece: Left is forgotten; nothing is taken back.
UndoPieceKeepsLeft(p) ==
    /\ pc[p] = "undo"
    /\ Downloaded' = Downloaded - calculatePieceLength(msg[p].index)
    /\ pc' = [pc EXCEPT ![p] = "unlock"]
    /\ UNCHANGED <<mu, msg, disk, overrun, downloaded, Left, loopVars, fm, received, ioErrors>>

UndoPieceForgotten(p) ==
    /\ pc[p] = "undo"
    /\ pc' = [pc EXCEPT ![p] = "unlock"]
    /\ UNCHANGED <<mu, msg, disk, overrun, downloaded, Downloaded, Left, loopVars, fm,
                   received, ioErrors>>

\* The piece is taken back at its full length, whatever was counted for it.
UndoPiece(p) ==
    /\ pc[p] = "undo"
    /\ Downloaded' = Downloaded - calculatePieceLength(msg[p].index)
    /\ Left' = Left + calculatePieceLength(msg[p].index)
    /\ pc' = [pc EXCEPT ![p] = "unlock"]
    /\ UNCHANGED <<mu, msg, disk, overrun, downloaded, loopVars, fm, received, ioErrors>>

UnlockPiece(p) ==
    /\ pc[p] = "unlock"
    /\ mu' = NoPeer
    /\ Resume(p)
    /\ UNCHANGED <<storeVars, loopVars, fm, received, ioErrors>>

ProcessPiece(p) ==
    \/ LockPiece(p) \/ WriteBlock(p) \/ WriteBlockFails(p) \/ CountBlock(p)
    \/ VerifyBlock(p) \/ VerifyBlockFails(p) \/ UndoPiece(p) \/ UnlockPiece(p)

-----------------------------------------------------------------------------
(* Download: the main loop.                                                *)

loopFrame == <<handlerVars, disk, overrun, downloaded, fm, received>>

\* 30 seconds pass.  A tick that finds one waiting is dropped.
Tick ==
    /\ result = "none"
    /\ clock < LastPieceTicks \/ ~tick
    /\ clock' = IF clock < LastPieceTicks THEN clock + 1 ELSE clock
    /\ tick' = TRUE
    /\ UNCHANGED <<loopFrame, Downloaded, Left, dl, vi, result, ctxDone, exited,
                   ioErrors, failedVerify>>

\* SIGINT, or the one-hour deadline of main.
Cancel ==
    /\ ~ctxDone /\ ~exited
    /\ ctxDone' = TRUE
    /\ UNCHANGED <<loopFrame, Downloaded, Left, dl, vi, result, clock, tick,
                   exited, ioErrors, failedVerify>>

Return(r) == dl' = "returned" /\ result' = r

OnCancel ==
    /\ dl = "loop" /\ ctxDone
    /\ Return("cancelled")
    /\ UNCHANGED <<loopFrame, Downloaded, Left, vi, clock, tick, ctxDone,
                   exited, ioErrors, failedVerify>>

OnLastPieceTimeout ==
    /\ dl = "loop" /\ clock = LastPieceTicks
    /\ Return("lastPieceTimeout")
    /\ UNCHANGED <<loopFrame, Downloaded, Left, vi, clock, tick, ctxDone,
                   exited, ioErrors, failedVerify>>

\* The tick is taken first and t.mu waited for after: from then on neither
\* the cancellation nor the timeout is looked at before the next round.
OnTick ==
    /\ dl = "loop" /\ tick
    /\ tick' = FALSE
    /\ dl' = "lock"
    /\ UNCHANGED <<loopFrame, Downloaded, Left, vi, result, clock, ctxDone,
                   exited, ioErrors, failedVerify>>

LockStatus ==
    /\ dl = "lock" /\ mu = NoPeer
    /\ dl' = "check"
    /\ UNCHANGED <<loopFrame, Downloaded, Left, vi, result, clock, tick, ctxDone,
                   exited, ioErrors, failedVerify>>

\* Mutant of isComplete: the last piece is not looked at.
isCompleteOffByOne == \A i \in 0 .. NumPieces - 2 : downloaded[i]

\* Scanned without t.mu.  One look stands for the scan: no flag ever goes
\* back to FALSE (VerifiedForGood).
isComplete == \A i \in Pieces : downloaded[i]

CheckComplete ==
    /\ dl = "check"
    /\ vi' = 0
    /\ dl' = IF isComplete THEN "verify" ELSE "progress"
    /\ UNCHANGED <<loopFrame, Downloaded, Left, result, clock, tick, ctxDone,
                   exited, ioErrors, failedVerify>>

\* Downloaded is read again, without a lock, after the scan.
CheckProgress ==
    /\ dl = "progress"
    /\ IF Downloaded = 0 /\ clock >= NoProgressTicks
       THEN Return("noProgress")
       ELSE dl' = "loop" /\ UNCHANGED result
    /\ UNCHANGED <<loopFrame, Downloaded, Left, vi, clock, tick, ctxDone,
                   exited, ioErrors, failedVerify>>

\* Mutant of VerifyNext: the loop runs past the end of the pieces.
VerifyNextPastEnd ==
    /\ dl = "verify" /\ vi <= NumPieces
    /\ vi' = vi + 1
    /\ UNCHANGED <<loopFrame, Downloaded, Left, dl, result, clock, tick, ctxDone,
                   exited, ioErrors, failedVerify>>

\* The next round of verifyDownload.  Its "piece" is a copy: a bad piece
\* changes the counters and not the flag in the table.
VerifyNext ==
    /\ dl = "verify" /\ vi < NumPieces
    /\ vi' = vi + 1
    /\ \/ /\ ~downloaded[vi] \/ (fm # "broken" /\ HashMatches(vi))
          /\ UNCHANGED <<Downloaded, Left, failedVerify, ioErrors>>
       \/ /\ downloaded[vi]
          /\ \/ IOError
             \/ fm # "broken" /\ ~HashMatches(vi) /\ UNCHANGED ioErrors
          /\ Downloaded' = Downloaded - calculatePieceLength(vi)
          /\ Left' = Left + calculatePieceLength(vi)
          /\ failedVerify' = failedVerify \cup {vi}
    /\ UNCHANGED <<loopFrame, dl, result, clock, tick, ctxDone, exited>>

VerifyEnd ==
    /\ dl = "verify" /\ vi = NumPieces
    /\ Return(IF isComplete THEN "ok" ELSE "verifyFailed")
    /\ UNCHANGED <<loopFrame, Downloaded, Left, vi, clock, tick, ctxDone,
                   exited, ioErrors, failedVerify>>

-----------------------------------------------------------------------------
(* The end of main: Close, then the process is gone.                       *)

CloseFiles ==
    /\ dl = "returned" /\ fm = "open"
    /\ \/ fm' = "closed" /\ UNCHANGED ioErrors
       \/ IOError /\ fm' = "broken"
    /\ UNCHANGED <<handlerVars, storeVars, loopVars, received>>

\* Wherever the handlers are, they are gone with the process.
Exit ==
    /\ dl = "returned" /\ fm # "open" /\ ~exited
    /\ exited' = TRUE
    /\ pc' = [p \in Peers |-> "done"]
    /\ msg' = [p \in Peers |-> NoBlock]
    /\ mu' = NoPeer
    /\ UNCHANGED <<storeVars, dl, vi, result, clock, tick, ctxDone,
                   failedVerify, fm, received, ioErrors>>

\* The process has ended and nothing happens any more.
Terminated == exited /\ UNCHANGED vars

Handler(p) == ReceivePiece(p) \/ HandlerExit(p) \/ ProcessPiece(p)

Loop ==
    \/ OnCancel \/ OnLastPieceTimeout \/ OnTick \/ LockStatus
    \/ CheckComplete \/ CheckProgress \/ VerifyNext \/ VerifyEnd

Next ==
    \/ \E p \in Peers : Handler(p)
    \/ Tick \/ Cancel \/ Loop \/ CloseFiles \/ Exit \/ Terminated

Spec == Init /\ [][Next]_vars

(***************************************************************************)
(* Fairness.  Goroutines that can run do run, and timers fire.  A          *)
(* sync.Mutex hands itself to a waiter that has starved for 1ms, so the    *)
(* main loop, which competes for t.mu with the handlers, gets strong       *)
(* fairness; and select picks at random among the cases that are ready, so *)
(* an expired timer is not passed over for ever in favour of ticks.        *)
(* Nothing is assumed of peers, of the user, or of the disk.               *)
(***************************************************************************)
Fairness ==
    /\ WF_vars(Tick)
    /\ \A p \in Peers : WF_vars(ProcessPiece(p))
    /\ SF_vars(LockStatus)
    /\ SF_vars(OnLastPieceTimeout)
    /\ WF_vars(CheckComplete \/ CheckProgress \/ VerifyNext \/ VerifyEnd)

FairSpec == Spec /\ Fairness

-----------------------------------------------------------------------------
(* Properties.                                                             *)

TypeOK ==
    /\ disk \in [Cells -> BOOLEAN]
    /\ fm \in {"open", "closed", "broken"}
    /\ downloaded \in [Pieces -> BOOLEAN]
    /\ Downloaded \in Int /\ Left \in Int
    /\ mu \in Peers \cup {NoPeer}
    /\ pc \in [Peers -> {"read", "lock", "done"} \cup Holding]
    /\ msg \in [Peers -> Blocks \cup {NoBlock}]
    /\ dl \in {"loop", "lock", "check", "progress", "verify", "returned"}
    /\ vi \in 0 .. NumPieces
    /\ result \in {"none", "ok", "cancelled", "lastPieceTimeout", "noProgress",
                   "verifyFailed"}
    /\ clock \in 0 .. LastPieceTicks
    /\ tick \in BOOLEAN /\ ctxDone \in BOOLEAN /\ exited \in BOOLEAN
    /\ received \in 0 .. MaxBlocks /\ ioErrors \in 0 .. MaxIOErrors
    /\ failedVerify \subseteq Pieces /\ overrun \subseteq Pieces

\* The whole of piece i is in the file as the torrent has it.
Intact(i) ==
    \A c \in i * PieceLength .. i * PieceLength + ContentOf(i) - 1 :
        c \in Cells /\ disk[c]

(***************************************************************************)
(* A piece marked Downloaded is intact in the file, in every state, unless *)
(* a block of an earlier piece, longer than that piece, has been written   *)
(* over it since: no other order of blocks, good or bad, whole or partial, *)
(* from any number of handlers, with or without disk errors, leaves a bad  *)
(* piece marked.                                                           *)
(***************************************************************************)
Integrity == \A i \in Pieces : downloaded[i] => Intact(i) \/ i \in overrun

(***************************************************************************)
(* When Download has returned nil, the final verification has looked at    *)
(* the file as it is: a piece is intact, or verifyDownload found it bad    *)
(* (and did not report it).  It stays so while late handlers are still     *)
(* running and after Close.                                                *)
(***************************************************************************)
CompletedIntact == result = "ok" => \A i \in Pieces : Intact(i) \/ i \in failedVerify

(***************************************************************************)
(* What main.go reports as "Download completed successfully": when         *)
(* Download has returned nil, the file is the torrent's content.           *)
(***************************************************************************)
ReturnsIntact == result = "ok" => \A i \in Pieces : Intact(i)

\* The block reaches past the end of its piece.
PastEnd(b) == b.begin + b.len > calculatePieceLength(b.index)

(***************************************************************************)
(* The flag of a verified piece is never taken back, and what it has in    *)
(* the file changes only under a block of an earlier piece that is longer  *)
(* than that piece: a block of the piece itself that arrives late is not   *)
(* written, and neither is anything else.                                  *)
(***************************************************************************)
KeepsVerified ==
    \A i \in Pieces : downloaded[i] =>
        /\ downloaded'[i]
        /\ \A c \in Cells :
             (/\ i * PieceLength <= c /\ c < i * PieceLength + PieceLength
              /\ disk'[c] # disk[c])
             => \E p \in Peers :
                    pc[p] = "write" /\ msg[p].index < i /\ PastEnd(msg[p])

VerifiedForGood == [][KeepsVerified]_vars

(***************************************************************************)
(* What is counted as downloaded and what is announced as left add up to   *)
(* the torrent, after any mix of partial blocks, retries and rollbacks.    *)
(***************************************************************************)
Conservation == Downloaded + Left = InfoLength

(***************************************************************************)
(* verifyDownload changes the counters without t.mu or downloadMu.  It     *)
(* never does so while a handler is in the part of processPiece that       *)
(* changes them, so no update is lost.                                     *)
(***************************************************************************)
CountersNotShared ==
    dl = "verify" => \A p \in Peers : pc[p] \notin Working

(***************************************************************************)
(* The discipline of t.mu that the above rests on, over the steps of       *)
(* processPiece and of Download: a handler is between Lock and Unlock iff  *)
(* it holds t.mu; it works on a message of its own, for a piece nobody     *)
(* has verified; and Download verifies, or returns nil, only with every    *)
(* flag set.                                                               *)
(***************************************************************************)
Discipline ==
    /\ \A p \in Peers : pc[p] \in Holding <=> mu = p
    /\ \A p \in Peers : pc[p] \in {"lock"} \cup Holding => msg[p] \in Blocks
    /\ \A p \in Peers : pc[p] \in Working => ~downloaded[msg[p].index]
    /\ dl = "verify" \/ result = "ok" => isComplete

\* The length of the pieces in S, by recursion along the piece table.
BytesOf(S) ==
    LET sum[n \in 0 .. NumPieces] ==
            IF n = 0 THEN 0
            ELSE sum[n - 1] + (IF n - 1 \in S THEN calculatePieceLength(n - 1) ELSE 0)
    IN  sum[NumPieces]

\* Whole pieces, as requestPiece asks for them, good or corrupted.
WholeBlocks ==
    {b \in [index : Pieces, begin : {0}, len : 1 .. PieceLength, good : BOOLEAN] :
        b.len = calculatePieceLength(b.index)}

\* The pieces marked Downloaded, less those the final verification took back.
Kept == {i \in Pieces : downloaded[i]} \ failedVerify

(***************************************************************************)
(* With peers that send whole pieces, as they are asked to, the counter is *)
(* exact whenever t.mu is free: it is the length of the pieces marked      *)
(* Downloaded, less those the final verification took back.  Duplicates,   *)
(* corrupted pieces and disk errors leave no trace in it.                  *)
(***************************************************************************)
ExactAccounting == (mu = NoPeer /\ ~exited) => Downloaded = BytesOf(Kept)

(***************************************************************************)
(* Download returns: whatever peers do or fail to do, the main loop cannot *)
(* be held up for ever by t.mu and the ten-minute timer ends it.           *)
(***************************************************************************)
EventuallyReturns == <>(result # "none")
=============================================================================
