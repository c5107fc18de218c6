------------------------------ MODULE MetaInfo ------------------------------
(***************************************************************************)
(* internal/torrent/metainfo.go and the magnet links of torrent.go, as     *)
(* operators over bencoded values: what a torrent file or a magnet link    *)
(* becomes, its info hash, its lengths and its pieces.                     *)
(***************************************************************************)
EXTENDS Bencode

CONSTANTS
    HashLength,   \* bytes of a piece hash (20 in the code)
    MagnetPiece   \* the piece length ConvertToMetaInfo takes (256 KiB)

ASSUME MetaInfoAssumption == HashLength \in Nat \ {0} /\ MagnetPiece \in Nat \ {0}

NoMetaInfo == [announce |-> "", pieceLength |-> 0, pieces |-> "", name |-> "",
               length |-> 0, files |-> <<>>]

-----------------------------------------------------------------------------
(* ParseMetaInfo.                                                          *)

\* The key that populateValue looks a field up by: the whole tag, options
\* and all.
KeyOf(name, options) == IF options = "" THEN name ELSE name \o "," \o options

\* A field is filled if the dictionary has its key, and must then be of the
\* field's kind.
Fits(d, key, kind) == d[key] # Absent => d[key][1] = kind
Field(d, key, zero) == IF d[key] = Absent THEN zero ELSE d[key][2]

LengthKey == KeyOf("length", "omitempty")
FilesKey  == KeyOf("files", "omitempty")

\* Every entry of a file list is a struct with a length and a path.
FilesFit(list) == \A i \in DOMAIN list :
    /\ list[i][1] = "dict"
    /\ Fits(list[i][2], "length", "int") /\ Fits(list[i][2], "path", "list")
    /\ \A p \in ToSet(Field(list[i][2], "path", <<>>)) : p[1] = "str"

InfoFits(d) ==
    /\ Fits(d, "piece length", "int") /\ Fits(d, "pieces", "str") /\ Fits(d, "name", "str")
    /\ Fits(d, LengthKey, "int") /\ Fits(d, FilesKey, "list")
    /\ FilesFit(Field(d, FilesKey, <<>>))

populateValue(v) ==
    LET top  == v[2]
        info == Field(top, "info", NoEntries)
    IN  [announce    |-> Field(top, "announce", ""),
         pieceLength |-> Field(info, "piece length", 0),
         pieces      |-> Field(info, "pieces", ""),
         name        |-> Field(info, "name", ""),
         length      |-> Field(info, LengthKey, 0),
         files       |-> [i \in DOMAIN Field(info, FilesKey, <<>>) |->
                             Field(Field(info, FilesKey, <<>>)[i][2], "length", 0)]]

\* The value can be put into a MetaInfo, and its required fields are there.
Populates(v) ==
    /\ v[1] = "dict" /\ Fits(v[2], "announce", "str") /\ Fits(v[2], "info", "dict")
    /\ InfoFits(Field(v[2], "info", NoEntries))

\* The mutant does not ask for hashes.
RequiredNoHashes(m) == m.pieceLength # 0 /\ m.name # ""
Required(m) == m.pieceLength # 0 /\ BytesIn[m.pieces] # 0 /\ m.name # ""

ParseMetaInfo(data) ==
    LET r == decodeValue(data)
    IN  IF r.ok /\ Populates(r.value) /\ Required(populateValue(r.value))
        THEN [ok |-> TRUE, meta |-> populateValue(r.value)]
        ELSE [ok |-> FALSE, meta |-> NoMetaInfo]

\* The info hash stands in the pieces field; there is no length.
ConvertToMetaInfo(magnet) ==
    [announce |-> IF magnet.trackers = <<>> THEN "" ELSE Head(magnet.trackers),
     pieceLength |-> MagnetPiece, pieces |-> magnet.hash, name |-> magnet.name,
     length |-> 0, files |-> <<>>]

-----------------------------------------------------------------------------
(* InfoHash, lengths and pieces.  The hash of an encoding is the encoding: *)
(* SHA-1 tells any two apart.                                              *)

\* The file list is a slice of structs, which encodeValue refuses; an empty
\* one is an empty list.
infoDict(m) ==
    <<"dict", [k \in Keys |->
                  CASE k = "piece length" -> <<"int", m.pieceLength>>
                    [] k = "pieces" -> <<"str", m.pieces>>
                    [] k = "name"   -> <<"str", m.name>>
                    [] k = "length" /\ m.length > 0 -> <<"int", m.length>>
                    [] k = "files" /\ ~(m.length > 0) -> <<"list", <<>>>>
                    [] OTHER -> Absent]>>

InfoHash(m) == [ok |-> m.length > 0 \/ m.files = <<>>, hash |-> encodeValue(infoDict(m))]

SumOf(lengths) ==
    LET upTo[n \in 0 .. Len(lengths)] == IF n = 0 THEN 0 ELSE upTo[n - 1] + lengths[n]
    IN  upTo[Len(lengths)]

TotalLength(m) == IF m.length > 0 THEN m.length ELSE SumOf(m.files)

NumPieces(m) == BytesIn[m.pieces] \div HashLength

\* In Go the sign of a divisor makes no difference to the remainder, and
\* TotalLength is not negative once CreateFiles has made a file.
calculatePieceLength(m, i) ==
    IF m.pieceLength = 0 THEN 0
    ELSE IF i = NumPieces(m) - 1
    THEN TotalLength(m) % (IF m.pieceLength > 0 THEN m.pieceLength ELSE -m.pieceLength)
    ELSE m.pieceLength
=============================================================================
