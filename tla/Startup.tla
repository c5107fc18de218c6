------------------------------ MODULE Startup ------------------------------
(***************************************************************************)
(* cmd/bittorrent-client/main.go up to the download: the torrent file or   *)
(* magnet link is read, the info hash made, the trackers set up, the file  *)
(* created, the Torrent built and given its file manager.  One action per  *)
(* step of main; each may end the program.                                 *)
(***************************************************************************)
EXTENDS MetaInfo, FiniteSets

CONSTANTS
    Torrents,     \* contents of well-formed torrent files, as values
    Magnets,      \* magnet links: hash, name, trackers
    NumTrackers,  \* trackers that main knows of itself (15)
    OldSize       \* size of a file of the torrent's name from before

ASSUME StartupAssumption ==
    /\ NumTrackers \in Nat /\ OldSize \in Nat \ {0}
    /\ \A v \in Torrents : v \in ValuesTo[MaxDepth] /\ v[1] = "dict"
    /\ \A m \in Magnets : /\ m.hash \in Strings /\ BytesIn[m.hash] = HashLength
                          /\ m.name \in Strings /\ m.trackers \in Seq(Strings)
    /\ {"announce", "info", "piece length", "pieces", "name", LengthKey, FilesKey,
         "length", "files", "path"} \subseteq Keys

VARIABLES
    stage,     \* what main does next; "exit" when it has given up
    at,        \* the stage at which it gave up, or "disk" for a disk error
    input,     \* its argument
    meta,      \* metaInfo
    infoHash,
    trackers,  \* the info hash each tracker of the MultiTracker was given
    file,      \* the file <name>: made by this run or not, and its size
    pieces,    \* lengths of Torrent.Pieces
    left,      \* Torrent.Left
    fm         \* the FileManager: its file lengths, totalLength, whether open

vars == <<stage, at, input, meta, infoHash, trackers, file, pieces, left, fm>>

\* A torrent file as it should be; one whose end is missing; one with
\* something after its end; a magnet link; no argument, or one of no use.
FileInput(v, data) == [kind |-> "file", value |-> v, data |-> data, magnet |-> <<>>]

Intact   == {FileInput(v, encodeValue(v)) : v \in Torrents}
Beginnings(v) == {SubSeq(encodeValue(v), 1, n) : n \in 0 .. Len(encodeValue(v)) - 1}
CutShort == UNION {{FileInput(v, d) : d \in Beginnings(v)}
                   \cup {FileInput(v, Append(d, <<"cut">>)) : d \in Beginnings(v)} :
                      v \in Torrents}
Trailing == {FileInput(v, encodeValue(v) \o <<<<"i", 0>>>>) : v \in Torrents}
Links    == {[kind |-> "magnet", value |-> Absent, data |-> <<>>, magnet |-> m] :
                m \in Magnets}
Bad      == {[kind |-> k, value |-> Absent, data |-> <<>>, magnet |-> <<>>] :
                k \in {"none", "unreadable", "badMagnet"}}

Init ==
    /\ stage = "input" /\ at = "none"
    /\ input \in Intact \cup CutShort \cup Trailing \cup Links \cup Bad
    /\ meta = NoMetaInfo /\ infoHash = <<>> /\ trackers = <<>>
    /\ file = [made |-> FALSE, size |-> OldSize]
    /\ pieces = <<>> /\ left = 0
    /\ fm = [open |-> FALSE, lengths |-> <<>>, total |-> 0]

-----------------------------------------------------------------------------

Exit ==
    /\ stage' = "exit" /\ at' = stage
    /\ UNCHANGED <<input, meta, infoHash, trackers, file, pieces, left, fm>>

\* No argument, a file that cannot be read or parsed, a link that cannot.
InputFails ==
    /\ stage = "input"
    /\ input.kind = "file" => ~ParseMetaInfo(input.data).ok
    /\ input.kind # "magnet"
    /\ Exit

ParseFile ==
    /\ stage = "input" /\ input.kind = "file" /\ ParseMetaInfo(input.data).ok
    /\ meta' = ParseMetaInfo(input.data).meta
    /\ stage' = "hash"
    /\ UNCHANGED <<at, input, infoHash, trackers, file, pieces, left, fm>>

ParseMagnetLink ==
    /\ stage = "input" /\ input.kind = "magnet"
    /\ meta' = ConvertToMetaInfo(input.magnet)
    /\ stage' = "hash"
    /\ UNCHANGED <<at, input, infoHash, trackers, file, pieces, left, fm>>

Hash ==
    /\ stage = "hash"
    /\ IF InfoHash(meta).ok
       THEN /\ infoHash' = InfoHash(meta).hash
            /\ stage' = "trackers"
            /\ UNCHANGED <<at, input, meta, trackers, file, pieces, left, fm>>
       ELSE Exit

\* Mutant of AddTrackers: the announce URL goes in twice.
AddTrackersTwice ==
    /\ stage = "trackers"
    /\ \E n \in 0 .. NumTrackers + 2 : trackers' = [i \in 1 .. n |-> infoHash]
    /\ stage' = "files"
    /\ UNCHANGED <<at, input, meta, infoHash, file, pieces, left, fm>>

\* Trackers whose URL does not parse or whose name does not resolve are left
\* out, all of them if need be.
AddTrackers ==
    /\ stage = "trackers"
    /\ \E n \in 0 .. NumTrackers + (IF meta.announce = "" THEN 0 ELSE 1) :
          trackers' = [i \in 1 .. n |-> infoHash]
    /\ stage' = "files"
    /\ UNCHANGED <<at, input, meta, infoHash, file, pieces, left, fm>>

\* What CreateFiles is asked to make.
Lengths(m) == IF m.files # <<>> THEN m.files ELSE <<m.length>>

\* The size of the file, and a mutant that takes the piece length for it.
PieceSized == meta.pieceLength
FilesSize == Head(Lengths(meta))

\* os.Create empties a file that is there.
CreateFiles ==
    /\ stage = "files" /\ meta.name # "" /\ Len(Lengths(meta)) = 1 /\ FilesSize >= 0
    /\ file' = [made |-> TRUE, size |-> FilesSize]
    /\ stage' = "torrent"
    /\ UNCHANGED <<at, input, meta, infoHash, trackers, pieces, left, fm>>

\* The path of a file without a name is the directory's; Truncate refuses a
\* negative length; and the first of several files, which is made, is in the
\* way of the directory that the second needs.
CreateFilesFails ==
    /\ stage = "files"
    /\ \/ meta.name = "" /\ UNCHANGED file
       \/ /\ meta.name # "" /\ FilesSize < 0
          /\ file' = [made |-> TRUE, size |-> 0]
       \/ /\ meta.name # "" /\ FilesSize >= 0 /\ Len(Lengths(meta)) > 1
          /\ file' = [made |-> TRUE, size |-> FilesSize]
    /\ stage' = "exit" /\ at' = stage
    /\ UNCHANGED <<input, meta, infoHash, trackers, pieces, left, fm>>

\* A disk error, before or after os.Create.
DiskFails ==
    /\ stage = "files"
    /\ \/ UNCHANGED file
       \/ meta.name # "" /\ file' = [made |-> TRUE, size |-> 0]
    /\ stage' = "exit" /\ at' = "disk"
    /\ UNCHANGED <<input, meta, infoHash, trackers, pieces, left, fm>>

NewTorrent ==
    /\ stage = "torrent"
    /\ IF NumPieces(meta) > 0 /\ InfoHash(meta).ok
       THEN /\ pieces' = [i \in 1 .. NumPieces(meta) |-> calculatePieceLength(meta, i - 1)]
            /\ left' = TotalLength(meta)
            /\ stage' = "attach"
            /\ UNCHANGED <<at, input, meta, infoHash, trackers, file, fm>>
       ELSE Exit

\* main does not look at the error of Initialize; SetTotalLength is skipped
\* then.
SetFileManager ==
    /\ stage = "attach"
    /\ \E opened \in BOOLEAN :
          fm' = [open |-> opened, lengths |-> Lengths(meta),
                 total |-> IF opened THEN TotalLength(meta) ELSE 0]
    /\ stage' = "download"
    /\ UNCHANGED <<at, input, meta, infoHash, trackers, file, pieces, left>>

Over == stage \in {"download", "exit"} /\ UNCHANGED vars

Next ==
    \/ InputFails \/ ParseFile \/ ParseMagnetLink \/ Hash \/ AddTrackers
    \/ CreateFiles \/ CreateFilesFails \/ DiskFails \/ NewTorrent \/ SetFileManager \/ Over

Spec == Init /\ [][Next]_vars

-----------------------------------------------------------------------------
(* Properties.                                                             *)

TypeOK ==
    /\ stage \in {"input", "hash", "trackers", "files", "torrent", "attach", "download",
                  "exit"}
    /\ meta.pieceLength \in Int /\ meta.length \in Int /\ meta.files \in Seq(Int)
    /\ Len(trackers) <= NumTrackers + 1
    /\ file.made \in BOOLEAN /\ file.size \in Nat
    /\ meta.pieceLength > 0 => \A i \in DOMAIN pieces : pieces[i] \in 0 .. meta.pieceLength
    /\ left \in Nat /\ fm.open \in BOOLEAN

(***************************************************************************)
(* bencode.go: what is decoded from the encoding of a value is the value,  *)
(* for every torrent file there is, nested lists and dictionaries and all; *)
(* and Decode, unlike Unmarshal, refuses anything after it.                *)
(***************************************************************************)
RoundTrip ==
    input.kind = "file" =>
        LET whole == encodeValue(input.value)
        IN  /\ Decode(whole).ok /\ Decode(whole).value = input.value
            /\ input.data # whole => ~Decode(input.data).ok

(***************************************************************************)
(* A torrent file whose end is missing, wherever it was cut, is refused    *)
(* before anything is done with it: no tracker is told and no file is      *)
(* touched.                                                                *)
(***************************************************************************)
CutIsRefused ==
    input \in CutShort => stage \in {"input", "exit"} /\ trackers = <<>> /\ ~file.made

(***************************************************************************)
(* When the program gives up before the download, a file of the torrent's  *)
(* name that was there is still whole, unless the disk failed, or the      *)
(* torrent is of no use in a way that main finds out only after it has     *)
(* emptied the file: its length is negative, it has several files, or it   *)
(* has fewer bytes of hashes than one piece needs.                         *)
(***************************************************************************)
LossOnlyIfUnusable ==
    stage = "exit" /\ file.made =>
        \/ at = "disk"
        \/ at = "files" /\ (FilesSize < 0 \/ Len(Lengths(meta)) > 1)
        \/ at = "torrent" /\ BytesIn[meta.pieces] \in 1 .. HashLength - 1

(***************************************************************************)
(* The file that main makes, the length the file manager is told and what  *)
(* the torrent has left to get are computed in three places, from a length *)
(* or a file list: they agree when the download starts, unless the torrent *)
(* gives both, and then CreateFiles goes by the list, TotalLength by the   *)
(* length.                                                                 *)
(***************************************************************************)
StartAgrees ==
    stage = "download" /\ (meta.length > 0 => meta.files = <<>>) =>
        /\ file.size = SumOf(fm.lengths) /\ left = file.size
        /\ fm.open => fm.total = left

(***************************************************************************)
(* metainfo.go:68, "InfoHash returns the SHA1 hash of the info             *)
(* dictionary": trackers and peers are given the hash of the info          *)
(* dictionary of the torrent file.                                         *)
(***************************************************************************)
InfoHashOfInfoDict ==
    (stage = "download" /\ input.kind = "file") =>
        infoHash = encodeValue(input.value[2]["info"])
=============================================================================
