----------------------------- MODULE MCStartup -----------------------------
(* Instances of Startup for TLC.                                           *)
EXTENDS Startup, TLC

\* In the order of their bytes.
SortedKeys == <<"announce", "files", "files,omitempty", "info", "length",
                "length,omitempty", "name", "path", "piece length", "pieces">>

\* "h10" stands for ten bytes of hashes.
StringLengths ==
    ("" :> 0) @@ ("h10" :> 10) @@ ("h20" :> 20) @@ ("h50" :> 50)
    @@ ("udp:" :> 4) @@ ("http:" :> 5) @@ ("film" :> 4) @@ ("a" :> 1)

Dict(entries) == <<"dict", entries @@ NoEntries>>
List(items)   == <<"list", items>>
Str(s)        == <<"str", s>>
Num(n)        == <<"int", n>>

\* Info dictionaries: fields absent, empty, negative, of the wrong kind, too
\* short; lengths and file lists as other clients write them, and under the
\* keys that this one reads.
Entry(n)     == Dict(("length" :> Num(n)) @@ ("path" :> List(<<Str("a")>>)))
OneFile(n)   == List(<<Entry(n)>>)
TwoFiles     == List(<<Entry(3), Entry(1)>>)

NoField      == [k \in {} |-> Absent]
Names        == {NoField, "name" :> Str("film")}
PieceLengths == {"piece length" :> v : v \in {Num(2), Num(0), Num(-2), Str("a")}}
Hashes       == {NoField} \cup {"pieces" :> Str(h) : h \in {"", "h10", "h20", "h50"}}
Contents     == {"length" :> Num(3), "files" :> OneFile(3), FilesKey :> OneFile(3),
                 (LengthKey :> Num(4)) @@ (FilesKey :> OneFile(3)),
                 (LengthKey :> Num(4)) @@ (FilesKey :> TwoFiles)}
                \cup {LengthKey :> Num(n) : n \in {-1, 3, 4}}

Infos == {Dict(((n @@ l) @@ h) @@ c) :
             n \in Names, l \in PieceLengths, h \in Hashes, c \in Contents}

MCTorrents ==
    {Dict("info" :> i) : i \in Infos}
    \cup {Dict(("announce" :> Str("udp:")) @@ ("info" :> i)) :
             i \in {j \in Infos : j[2]["piece length"] = Num(2)}}
    \cup {Dict("announce" :> Str("udp:")), Dict("info" :> Num(2))}

\* One file of 3 bytes, as other clients write it.
PlainTorrents ==
    {Dict(("announce" :> Str("udp:"))
          @@ ("info" :> Dict(("name" :> Str("film")) @@ ("piece length" :> Num(4))
                             @@ ("pieces" :> Str("h20")) @@ ("length" :> Num(3)))))}

MCMagnets == [hash : {"h20"}, name : {"", "film"}, trackers : {<<>>, <<"http:", "udp:">>}]
=============================================================================
