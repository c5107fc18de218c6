------------------------------ MODULE Bencode ------------------------------
(***************************************************************************)
(* internal/bencode as operators.  A value is <<"int", n>>, <<"str", s>>,  *)
(* <<"list", sequence of values>> or <<"dict", d>>, where d has a value or *)
(* Absent for every key.  An encoding is a sequence of tokens: <<"i", n>>  *)
(* for i..e, <<"s", s>> for a string with its length, <<"l">>, <<"d">> and *)
(* <<"e">>, and <<"cut">> for an integer or a string that the end of the   *)
(* data has cut short.                                                     *)
(***************************************************************************)
EXTENDS Integers, Sequences, SequencesExt

CONSTANTS
    KeyOrder,   \* the dictionary keys there are, in the order of sort.Slice
    BytesIn,    \* the length of each string
    MaxDepth    \* how deep values are nested, at most

Keys    == ToSet(KeyOrder)
Strings == DOMAIN BytesIn

ASSUME BencodeAssumption ==
    /\ KeyOrder \in Seq(STRING) /\ MaxDepth \in Nat
    /\ "" \in Strings /\ BytesIn \in [Strings -> Nat]

Absent    == <<"none">>
NoEntries == [k \in Keys |-> Absent]

\* The values nested up to a depth.
Plain == ({"int"} \X Int) \cup ({"str"} \X Strings)
Nested(V) == ({"list"} \X Seq(V)) \cup ({"dict"} \X [Keys -> V \cup {Absent}])

ValuesTo[n \in 0 .. MaxDepth] == IF n = 0 THEN Plain ELSE Plain \cup Nested(ValuesTo[n - 1])

-----------------------------------------------------------------------------
(* Encode.                                                                 *)

Concat(parts) ==
    LET upTo[n \in 0 .. Len(parts)] == IF n = 0 THEN <<>> ELSE upTo[n - 1] \o parts[n]
    IN  upTo[Len(parts)]

\* One level of a value, given the encodings of the values in it: the items
\* of a list in their order, the entries of a dictionary in that of its keys.
EncodeItems(list, inner) == Concat([i \in 1 .. Len(list) |-> inner[list[i]]])

EncodeEntries(d, inner) ==
    Concat([i \in 1 .. Len(KeyOrder) |->
               IF d[KeyOrder[i]] = Absent THEN <<>>
               ELSE <<<<"s", KeyOrder[i]>>>> \o inner[d[KeyOrder[i]]]])

EncodeLevel(v, inner) ==
    CASE v[1] = "int"  -> <<<<"i", v[2]>>>>
      [] v[1] = "str"  -> <<<<"s", v[2]>>>>
      [] v[1] = "list" -> <<<<"l">>>> \o EncodeItems(v[2], inner) \o <<<<"e">>>>
      [] v[1] = "dict" -> <<<<"d">>>> \o EncodeEntries(v[2], inner) \o <<<<"e">>>>

encode[n \in 0 .. MaxDepth] ==
    [v \in ValuesTo[n] |-> EncodeLevel(v, IF n = 0 THEN <<>> ELSE encode[n - 1])]

encodeValue(v) == encode[MaxDepth][v]

-----------------------------------------------------------------------------
(* Decode.  Its state is the call that reads the next token: the decoding  *)
(* as a whole ("top"), decodeList or decodeDict, with what it has so far,  *)
(* the key whose value is next, and the call it returns to.                *)

Call(kind, value, key, caller) ==
    [kind |-> kind, value |-> value, key |-> key, caller |-> caller]

Start  == Call("top", Absent, Absent, Absent)
Failed == Call("failed", Absent, Absent, Absent)

\* The call gets the value that it asked decodeValue for.  A dictionary asks
\* for a key, which must be a string, and then for its value; a key that was
\* there before gets the later value.
Give(c, v) ==
    CASE c.kind = "top"  -> Call("done", v, Absent, Absent)
      [] c.kind = "list" -> Call("list", Append(c.value, v), Absent, c.caller)
      [] c.kind = "dict" /\ c.key # Absent ->
            Call("dict", [c.value EXCEPT ![c.key[2]] = v], Absent, c.caller)
      [] c.kind = "dict" /\ c.key = Absent /\ v[1] = "str" ->
            Call("dict", c.value, v, c.caller)
      [] OTHER -> Failed

\* An "e" where a value should be is taken for the length of a string.
Read(c, b) ==
    CASE b[1] = "i" -> Give(c, <<"int", b[2]>>)
      [] b[1] = "s" -> Give(c, <<"str", b[2]>>)
      [] b[1] = "l" -> Call("list", <<>>, Absent, c)
      [] b[1] = "d" -> Call("dict", NoEntries, Absent, c)
      [] b[1] = "e" /\ c.kind # "top" /\ c.key = Absent -> Give(c.caller, <<c.kind, c.value>>)
      [] OTHER -> Failed

\* What follows the value is not read; a failure is final.
Step(c, b) ==
    CASE c.kind \in {"done", "more"}        -> Call("more", c.value, Absent, Absent)
      [] c.kind \in {"top", "list", "dict"} -> Read(c, b)
      [] OTHER                              -> Failed

Run(c, data) ==
    LET after[n \in 0 .. Len(data)] == IF n = 0 THEN c ELSE Step(after[n - 1], data[n])
    IN  after[Len(data)]

Ok(v) == [ok |-> TRUE, value |-> v]
Error == [ok |-> FALSE, value |-> Absent]

\* The answer at the end of the data, and a mutant that takes the end of the
\* data for the end of the dictionary.
AcceptEnd(c) ==
    CASE c.kind \in {"done", "more"} -> Ok(c.value)
      [] c.kind = "dict" /\ c.key = Absent /\ c.caller.kind = "top" -> Ok(<<"dict", c.value>>)
      [] OTHER -> Error
AtEnd(c) == IF c.kind \in {"done", "more"} THEN Ok(c.value) ELSE Error

decodeValue(data) == AtEnd(Run(Start, data))

\* Decode refuses data after the value, Unmarshal (and the mutant) does not
\* look.
DecodePrefix(data) == decodeValue(data)
Decode(data) == IF Run(Start, data).kind = "more" THEN Error ELSE decodeValue(data)
=============================================================================
