-------------------------- MODULE PeerSessionProofs --------------------------
(* Proofs about PeerSession, for any torrent and any bounds on what the    *)
(* peer sends.                                                             *)
EXTENDS PeerSession, SequenceLemmas

-----------------------------------------------------------------------------
(* The inductive invariant.                                                *)

\* The pieces that calculatePieceLength gives a length.
NonEmpty == {i \in Pieces : calculatePieceLength(i) > 0}

\* What the peer says of its pieces is true.
FromPeer ==
    {m \in Messages : /\ m.type = "have" => m.piece \in pHas
                      /\ m.type = "bitfield" => m.pieces \subseteq pHas}

\* The client asks for whole pieces that the peer has.
FromClient ==
    {m \in Messages : m.type = "request" =>
        /\ m.piece \in pHas \cap NonEmpty
        /\ m.begin = 0 /\ m.length = calculatePieceLength(m.piece)}

WireInv == toClient \in Seq(FromPeer) /\ toPeer \in Seq(FromClient)

ClientInv ==
    /\ Bitfield \in (SUBSET pHas) \cup {NoBitfield}
    /\ Downloaded \subseteq Pieces
    /\ asking \subseteq Scans \X pHas
    /\ sending \subseteq Scans \X (pHas \cap NonEmpty)
    /\ serving \subseteq Pieces /\ wanted \subseteq Pieces /\ refused \subseteq Pieces

PeerInv ==
    /\ total \in Totals /\ pHas \subseteq Pieces
    /\ pUnchokes \in 0 .. MaxUnchokes /\ pMessages \in 0 .. MaxMessages

FlagInv ==
    /\ closed \in BOOLEAN /\ Choked \in BOOLEAN /\ Interested \in BOOLEAN
    /\ pChoking \in BOOLEAN /\ pSilent \in BOOLEAN

\* There is a scan for every Unchoke that was read.
Unchokes == {Msg("unchoke")}

ScanInv ==
    /\ scan \in Seq(0 .. NumPieces)
    /\ Len(scan) + Cardinality(Places(toClient, Unchokes)) <= pUnchokes

\* A request that is to be sent is of a piece that its scan has passed, and
\* it is in one stage only.
AskInv ==
    /\ \A s \in Scans, i \in Pieces :
          <<s, i>> \in asking \cup sending => s \in DOMAIN scan /\ i < scan[s]
    /\ asking \cap sending = {}

\* The requests for a piece, on the wire and on their way to it, are no more
\* than the scans that have passed the piece.
RequestsOf(i)  == {m \in Messages : m.type = "request" /\ m.piece = i}
Askers(A, i)   == {s \in Scans : <<s, i>> \in A}
Passed(sc, i)  == {s \in DOMAIN sc : sc[s] > i}

CountInv ==
    \A i \in Pieces :
        Cardinality(Places(toPeer, RequestsOf(i))) + Cardinality(Askers(asking \cup sending, i))
            <= Cardinality(Passed(scan, i))

Inv == /\ WireInv /\ ClientInv /\ PeerInv /\ FlagInv /\ ScanInv /\ AskInv /\ CountInv

-----------------------------------------------------------------------------
(* Lengths of pieces, and messages.                                        *)

\* A product of naturals is one, and grows with its first factor.
LEMMA Products ==
  ASSUME NEW a \in Nat, NEW b \in Nat, a <= b, NEW n \in Nat
  PROVE  a * n \in Nat /\ b * n \in Nat /\ a * n <= b * n
OBVIOUS

\* What is left after whole pieces is no more than what is left after fewer.
LEMMA Remainder ==
  ASSUME NEW n \in Nat, NEW d \in Nat \ {0}, NEW k \in Nat, k * d <= n
  PROVE  n % d \in 0 .. d - 1 /\ k * d + (n % d) <= n
<1>1. PICK q, r : q = n \div d /\ r = n % d
  OBVIOUS
<1>2. q \in Nat /\ r \in 0 .. d - 1 /\ n = q * d + r
  BY <1>1
<1>3. k <= q
  <2> SUFFICES ASSUME q + 1 <= k PROVE FALSE
    BY <1>2
  <2>1. (q + 1) * d <= k * d
    BY <1>2, Products
  <2>2. (q + 1) * d = q * d + d
    BY <1>2
  <2>3. q * d \in Nat /\ k * d \in Nat
    BY <1>2, Products
  <2> QED
    BY <1>2, <2>1, <2>2, <2>3
<1>4. k * d \in Nat /\ q * d \in Nat /\ k * d <= q * d
  BY <1>2, <1>3, Products
<1> QED
  BY <1>1, <1>2, <1>4

\* A piece lies inside the torrent with the length that is computed for it.
LEMMA PieceLengths ==
  ASSUME PeerInv, NEW i \in Pieces
  PROVE  /\ calculatePieceLength(i) \in 0 .. PieceLength
         /\ i * PieceLength \in Nat /\ total \in Nat
         /\ i * PieceLength + calculatePieceLength(i) <= total
<1>1. /\ NumPieces \in Nat \ {0} /\ PieceLength \in Nat \ {0} /\ total \in Nat
      /\ LastPiece * PieceLength <= total
  BY SessionAssumption DEF PeerInv
<1>2. i \in Nat /\ LastPiece \in Nat /\ i <= LastPiece
  BY <1>1 DEF Pieces, LastPiece
<1>3. i * PieceLength \in Nat
  BY <1>1, <1>2, Products
<1>4. CASE i = LastPiece
  <2>1. PICK r : r = total % PieceLength
    OBVIOUS
  <2>2. r \in 0 .. PieceLength - 1 /\ i * PieceLength + r <= total
    BY <1>1, <1>2, <1>4, <2>1, Remainder
  <2>3. calculatePieceLength(i) = r
    BY <1>4, <2>1 DEF calculatePieceLength
  <2> QED
    BY <1>1, <1>3, <2>2, <2>3
<1>5. CASE i # LastPiece
  <2>1. calculatePieceLength(i) = PieceLength
    BY <1>5 DEF calculatePieceLength
  <2>2. i + 1 \in Nat /\ i + 1 <= LastPiece
    BY <1>2, <1>5
  <2>3. (i + 1) * PieceLength <= LastPiece * PieceLength
    BY <1>1, <1>2, <2>2, Products
  <2>4. (i + 1) * PieceLength = i * PieceLength + PieceLength
    BY <1>1, <1>2
  <2>5. LastPiece * PieceLength \in Nat
    BY <1>1, <1>2, Products
  <2> QED
    BY <1>1, <1>3, <2>1, <2>3, <2>4, <2>5
<1> QED
  BY <1>4, <1>5

\* The parts of a message.
LEMMA MessageFacts ==
  ASSUME NEW m \in Messages
  PROVE  /\ m.type \in {"have", "request", "piece"} => m.piece \in Pieces
         /\ m.type = "bitfield" => m.pieces \subseteq Pieces
         /\ m.type = "unchoke" => m = Msg("unchoke")
<1>1. ASSUME NEW t \in {"choke", "unchoke", "interested", "notInterested", "keepAlive", "cancel"},
             m = Msg(t)
      PROVE  m.type = t
  BY <1>1 DEF Msg
<1>2. ASSUME NEW i \in Pieces, m = Have(i) PROVE m.type = "have" /\ m.piece = i
  BY <1>2 DEF Have
<1>3. ASSUME NEW S \in SUBSET Pieces, m = BitfieldMsg(S)
      PROVE  m.type = "bitfield" /\ m.pieces = S
  BY <1>3 DEF BitfieldMsg
<1>4. ASSUME NEW i \in Pieces, NEW n \in 0 .. PieceLength, m = Request(i, 0, n)
      PROVE  m.type = "request" /\ m.piece = i
  BY <1>4 DEF Request
<1>5. ASSUME NEW i \in Pieces, NEW good \in BOOLEAN, m = PieceMsg(i, good)
      PROVE  m.type = "piece" /\ m.piece = i
  BY <1>5 DEF PieceMsg
<1>6. \/ \E t \in {"choke", "unchoke", "interested", "notInterested", "keepAlive", "cancel"} :
            m = Msg(t)
      \/ \E i \in Pieces : m = Have(i)
      \/ \E S \in SUBSET Pieces : m = BitfieldMsg(S)
      \/ \E i \in Pieces, n \in 0 .. PieceLength : m = Request(i, 0, n)
      \/ \E i \in Pieces, good \in BOOLEAN : m = PieceMsg(i, good)
  BY DEF Messages
<1> QED
  BY <1>1, <1>2, <1>3, <1>4, <1>5, <1>6

\* The messages that the two sides send.
LEMMA SentMessages ==
  /\ \A t \in {"choke", "unchoke", "interested", "notInterested", "keepAlive", "cancel"} :
        Msg(t) \in Messages /\ Msg(t).type = t
  /\ \A i \in Pieces : Have(i) \in Messages /\ Have(i).type = "have" /\ Have(i).piece = i
  /\ \A S \in SUBSET Pieces :
        /\ BitfieldMsg(S) \in Messages
        /\ BitfieldMsg(S).type = "bitfield" /\ BitfieldMsg(S).pieces = S
  /\ \A i \in Pieces, n \in 0 .. PieceLength :
        /\ Request(i, 0, n) \in Messages /\ Request(i, 0, n).type = "request"
        /\ Request(i, 0, n).piece = i /\ Request(i, 0, n).begin = 0
        /\ Request(i, 0, n).length = n
  /\ \A i \in Pieces, good \in BOOLEAN :
        /\ PieceMsg(i, good) \in Messages /\ PieceMsg(i, good).type = "piece"
        /\ PieceMsg(i, good).piece = i
<1>1. \A t \in {"choke", "unchoke", "interested", "notInterested", "keepAlive", "cancel"} :
        Msg(t) \in Messages
  BY DEF Messages
<1>2. \A i \in Pieces : Have(i) \in Messages
  BY DEF Messages
<1>3. \A S \in SUBSET Pieces : BitfieldMsg(S) \in Messages
  BY DEF Messages
<1>4. \A i \in Pieces, n \in 0 .. PieceLength : Request(i, 0, n) \in Messages
  BY DEF Messages
<1>5. \A i \in Pieces, good \in BOOLEAN : PieceMsg(i, good) \in Messages
  BY DEF Messages
<1>6. \A t : Msg(t).type = t
  BY DEF Msg
<1>7. \A i : Have(i).type = "have" /\ Have(i).piece = i
  BY DEF Have
<1>8. \A S : BitfieldMsg(S).type = "bitfield" /\ BitfieldMsg(S).pieces = S
  BY DEF BitfieldMsg
<1>9. \A i, n : /\ Request(i, 0, n).type = "request" /\ Request(i, 0, n).piece = i
                /\ Request(i, 0, n).begin = 0 /\ Request(i, 0, n).length = n
  BY DEF Request
<1>10. \A i, good : PieceMsg(i, good).type = "piece" /\ PieceMsg(i, good).piece = i
  BY DEF PieceMsg
<1> QED
  BY <1>1, <1>2, <1>3, <1>4, <1>5, <1>6, <1>7, <1>8, <1>9, <1>10
-----------------------------------------------------------------------------
(* The steps, by what they do to the messages and the pieces.              *)

Says(m) ==
    /\ m \in FromPeer' /\ toClient' = Append(toClient, m)
    /\ pHas \subseteq pHas' /\ pHas' \subseteq Pieces
    /\ \/ m \in Unchokes /\ pUnchokes < MaxUnchokes /\ pUnchokes' = pUnchokes + 1
       \/ m \notin Unchokes /\ pUnchokes' = pUnchokes
    /\ pMessages' \in 0 .. MaxMessages
    /\ UNCHANGED <<total, toPeer, Bitfield, Downloaded, scan, asking, sending, serving, wanted,
                   refused>>

Replies ==
    /\ toPeer # <<>> /\ toPeer' = Tail(toPeer)
    /\ \/ toClient' = toClient
       \/ \E m \in FromPeer : toClient' = Append(toClient, m) /\ m \notin Unchokes
    /\ refused' \subseteq Pieces
    /\ UNCHANGED <<total, Bitfield, Downloaded, scan, asking, sending, serving, pHas, pUnchokes,
                   pMessages, wanted>>

Takes ==
    /\ toClient # <<>> /\ toClient' = Tail(toClient)
    /\ Bitfield' \in (SUBSET pHas) \cup {NoBitfield} /\ Downloaded' \subseteq Pieces
    /\ serving' \subseteq Pieces /\ wanted' \subseteq Pieces /\ refused' \subseteq Pieces
    /\ scan' = scan \/ (Head(toClient) \in Unchokes /\ scan' = Append(scan, 0))
    /\ UNCHANGED <<total, toPeer, asking, sending, pHas, pUnchokes, pMessages>>

Cuts ==
    /\ toClient' = <<>> /\ toPeer' = <<>>
    /\ scan' = <<>> /\ asking' = {} /\ sending' = {} /\ serving' = {}
    /\ UNCHANGED <<total, Bitfield, Downloaded, pHas, pUnchokes, pMessages, wanted, refused>>

NotPieces == <<total, toClient, Bitfield, Downloaded, pHas, pUnchokes, pMessages, wanted, refused>>

Advances(s) ==
    /\ s \in DOMAIN scan /\ scan[s] < NumPieces
    /\ \/ asking' = asking
       \/ scan[s] \in pHas /\ asking' = asking \cup {<<s, scan[s]>>}
    /\ scan' = [scan EXCEPT ![s] = scan[s] + 1]
    /\ UNCHANGED <<NotPieces, toPeer, sending, serving>>

Looks(s, i) ==
    /\ <<s, i>> \in asking /\ asking' = asking \ {<<s, i>>}
    /\ sending' = sending \/ (i \in NonEmpty /\ sending' = sending \cup {<<s, i>>})
    /\ UNCHANGED <<NotPieces, toPeer, scan, serving>>

Asks(s, i) ==
    /\ <<s, i>> \in sending /\ sending' = sending \ {<<s, i>>}
    /\ \E m \in FromClient \cap RequestsOf(i) : toPeer' = Append(toPeer, m)
    /\ UNCHANGED <<NotPieces, scan, asking, serving>>

Drops(s, i) ==
    /\ <<s, i>> \in sending /\ sending' = sending \ {<<s, i>>}
    /\ refused' \subseteq Pieces
    /\ UNCHANGED <<total, toClient, toPeer, Bitfield, Downloaded, pHas, pUnchokes, pMessages,
                   wanted, scan, asking, serving>>

Serves ==
    /\ serving' \subseteq serving
    /\ \E m \in FromClient : /\ toPeer' = Append(toPeer, m)
                             /\ \A i \in Pieces : m \notin RequestsOf(i)
    /\ UNCHANGED <<NotPieces, scan, asking, sending>>

Idles ==
    /\ Downloaded' \subseteq Pieces /\ serving' \subseteq serving
    /\ UNCHANGED <<total, toClient, toPeer, Bitfield, scan, asking, sending, pHas, pUnchokes,
                   pMessages, wanted, refused>>

Move ==
    \/ (\E m : Says(m)) \/ Replies \/ Takes \/ Cuts \/ Serves \/ Idles
    \/ (\E s \in Scans : Advances(s))
    \/ (\E s \in Scans, i \in Pieces : Looks(s, i) \/ Asks(s, i) \/ Drops(s, i))

\* The length of a piece depends on the torrent alone.
LEMMA LengthsStay ==
  ASSUME total' = total
  PROVE  NonEmpty' = NonEmpty /\ \A i : calculatePieceLength(i)' = calculatePieceLength(i)
<1>1. \A i : calculatePieceLength(i)' = calculatePieceLength(i)
  BY DEF calculatePieceLength
<1> QED
  BY <1>1 DEF NonEmpty

\* A message stays true while the peer gets more pieces.
LEMMA MessagesStay ==
  ASSUME total' = total, pHas \subseteq pHas'
  PROVE  FromPeer \subseteq FromPeer' /\ FromClient \subseteq FromClient'
<1>1. NonEmpty' = NonEmpty /\ \A i : calculatePieceLength(i)' = calculatePieceLength(i)
  BY LengthsStay
<1>2. FromPeer \subseteq FromPeer'
  BY <1>1 DEF FromPeer
<1>3. FromClient \subseteq FromClient'
  BY <1>1 DEF FromClient
<1> QED
  BY <1>2, <1>3

\* What the peer does of its own accord is to say something.
LEMMA PeerStep ==
  ASSUME WireInv, ClientInv, PeerInv, PeerActs
  PROVE  \E m : Says(m)
<1>1. ASSUME NEW m \in Messages, PeerSends(m), UNCHANGED <<toPeer, refused>>,
             pHas \subseteq pHas', pHas' \subseteq Pieces,
             m.type = "have" => m.piece \in pHas',
             m.type = "bitfield" => m.pieces \subseteq pHas',
             \/ m \in Unchokes /\ pUnchokes < MaxUnchokes /\ pUnchokes' = pUnchokes + 1
             \/ m \notin Unchokes /\ pUnchokes' = pUnchokes,
             pMessages' = pMessages \/ Unasked
      PROVE  Says(m)
  <2>1. m \in FromPeer'
    BY <1>1 DEF FromPeer
  <2>2. toClient' = Append(toClient, m)
    BY <1>1, Zenon DEF PeerSends
  <2>3. UNCHANGED <<total, Bitfield, Downloaded, scan, asking, sending, serving, wanted>>
    BY <1>1, Zenon DEF PeerSends, clientVars, goVars
  <2>4. pMessages' \in 0 .. MaxMessages
    BY <1>1, SessionAssumption DEF Unasked, PeerInv
  <2> QED
    BY <1>1, <2>1, <2>2, <2>3, <2>4 DEF Says
<1>2. ASSUME NEW t \in {"choke", "interested", "notInterested", "keepAlive", "cancel"}
      PROVE  /\ Msg(t) \in Messages /\ Msg(t).type = t /\ Msg(t) \notin Unchokes
  <2>1. Msg(t) \in Messages /\ Msg(t).type = t /\ Msg("unchoke").type = "unchoke"
    BY SentMessages
  <2> QED
    BY <2>1 DEF Unchokes
<1>3. pHas \subseteq Pieces
  BY DEF PeerInv
<1>4. CASE PeerBitfield
  <2>1. /\ BitfieldMsg(pHas) \in Messages
        /\ BitfieldMsg(pHas).type = "bitfield" /\ BitfieldMsg(pHas).pieces = pHas
        /\ Msg("unchoke").type = "unchoke"
    BY <1>3, SentMessages
  <2>2. BitfieldMsg(pHas) \notin Unchokes
    BY <2>1 DEF Unchokes
  <2>3. /\ PeerSends(BitfieldMsg(pHas))
        /\ UNCHANGED <<toPeer, refused, pHas, pUnchokes, pMessages>>
    BY <1>4, Zenon DEF PeerBitfield
  <2>4. Says(BitfieldMsg(pHas))
    BY <1>1, <1>3, <2>1, <2>2, <2>3
  <2> QED
    BY <2>4
<1>5. ASSUME NEW i \in Pieces, PeerHave(i) PROVE \E m : Says(m)
  <2>1. /\ Have(i) \in Messages /\ Have(i).type = "have" /\ Have(i).piece = i
        /\ Msg("unchoke").type = "unchoke"
    BY SentMessages
  <2>2. Have(i) \notin Unchokes
    BY <2>1 DEF Unchokes
  <2>3. /\ PeerSends(Have(i)) /\ pHas' = pHas \cup {i}
        /\ UNCHANGED <<toPeer, refused, pUnchokes>> /\ Unasked
    BY <1>5, Zenon DEF PeerHave
  <2>4. Says(Have(i))
    BY <1>1, <1>3, <2>1, <2>2, <2>3
  <2> QED
    BY <2>4
<1>6. CASE PeerUnchoke
  <2>1. Msg("unchoke") \in Messages /\ Msg("unchoke").type = "unchoke"
    BY SentMessages
  <2>2. Msg("unchoke") \in Unchokes
    BY DEF Unchokes
  <2>3. /\ PeerSends(Msg("unchoke")) /\ UNCHANGED <<toPeer, refused, pHas, pMessages>>
        /\ pUnchokes < MaxUnchokes /\ pUnchokes' = pUnchokes + 1
    BY <1>6, Zenon DEF PeerUnchoke
  <2>4. Says(Msg("unchoke"))
    BY <1>1, <1>3, <2>1, <2>2, <2>3
  <2> QED
    BY <2>4
<1>7. CASE PeerChoke
  <2>1. PeerSends(Msg("choke")) /\ UNCHANGED <<toPeer, refused, pHas, pUnchokes, pMessages>>
    BY <1>7, Zenon DEF PeerChoke
  <2>2. Says(Msg("choke"))
    BY <1>1, <1>2, <1>3, <2>1
  <2> QED
    BY <2>2
<1>8. CASE PeerChats
  <2>1. PICK t \in {"interested", "notInterested", "keepAlive", "cancel"} : PeerSends(Msg(t))
    BY <1>8 DEF PeerChats
  <2>2. Unasked /\ UNCHANGED <<toPeer, refused, pHas, pUnchokes>>
    BY <1>8, Zenon DEF PeerChats
  <2>3. Says(Msg(t))
    BY <1>1, <1>2, <1>3, <2>1, <2>2
  <2> QED
    BY <2>3
<1>9. ASSUME NEW i \in Pieces, PeerRequest(i) PROVE \E m : Says(m)
  <2>1. PICK n \in 0 .. PieceLength : n = calculatePieceLength(i)
    BY PieceLengths
  <2>2. /\ Request(i, 0, n) \in Messages /\ Request(i, 0, n).type = "request"
        /\ Msg("unchoke").type = "unchoke"
    BY SentMessages
  <2>3. Request(i, 0, n) \notin Unchokes
    BY <2>2 DEF Unchokes
  <2>4. /\ PeerSends(Request(i, 0, n)) /\ Unasked
        /\ UNCHANGED <<toPeer, refused, pHas, pUnchokes>>
    BY <1>9, <2>1, Zenon DEF PeerRequest
  <2>5. Says(Request(i, 0, n))
    BY <1>1, <1>3, <2>2, <2>3, <2>4
  <2> QED
    BY <2>5
<1>10. ASSUME NEW i \in Pieces, PeerPiece(i) PROVE \E m : Says(m)
  <2>1. PICK good \in BOOLEAN : PeerSends(PieceMsg(i, good))
    BY <1>10 DEF PeerPiece
  <2>2. /\ PieceMsg(i, good) \in Messages /\ PieceMsg(i, good).type = "piece"
        /\ Msg("unchoke").type = "unchoke"
    BY SentMessages
  <2>3. PieceMsg(i, good) \notin Unchokes
    BY <2>2 DEF Unchokes
  <2>4. Unasked /\ UNCHANGED <<toPeer, refused, pHas, pUnchokes>>
    BY <1>10, Zenon DEF PeerPiece
  <2>5. Says(PieceMsg(i, good))
    BY <1>1, <1>3, <2>1, <2>2, <2>3, <2>4
  <2> QED
    BY <2>5
<1> QED
  BY <1>4, <1>5, <1>6, <1>7, <1>8, <1>9, <1>10, Zenon DEF PeerActs

\* The peer reads a message and may answer it.
LEMMA ReplyStep ==
  ASSUME WireInv, ClientInv, PeerInv, PeerReads
  PROVE  Replies
<1>1. toPeer # <<>> /\ toPeer' = Tail(toPeer)
  BY Zenon DEF PeerReads
<1>2. UNCHANGED <<total, Bitfield, Downloaded, scan, asking, sending, serving, pHas, pUnchokes,
                  pMessages, wanted>>
  BY Zenon DEF PeerReads, clientVars, goVars
<1>3. PICK m : m = Head(toPeer)
  OBVIOUS
<1>4. m \in FromClient
  BY <1>1, <1>3, ElementsOfTail DEF WireInv
<1>5. m \in Messages /\ (m.type = "request" => m.piece \in Pieces)
  BY <1>4, MessageFacts DEF FromClient
<1>6. refused \subseteq Pieces /\ (m.piece \in Pieces /\ Loses(m.piece) => refused' \subseteq Pieces)
  BY DEF ClientInv, Loses
<1>7. ASSUME NEW good \in BOOLEAN, m.type = "request",
             toClient' = Append(toClient, PieceMsg(m.piece, good)),
             refused' = refused \/ Loses(m.piece)
      PROVE  Replies
  <2>1. /\ PieceMsg(m.piece, good) \in Messages /\ PieceMsg(m.piece, good).type = "piece"
        /\ PieceMsg(m.piece, good).piece = m.piece /\ Msg("unchoke").type = "unchoke"
    BY <1>5, <1>7, SentMessages
  <2>2. PieceMsg(m.piece, good) \in FromPeer /\ PieceMsg(m.piece, good) \notin Unchokes
    BY <1>5, <1>7, <2>1 DEF FromPeer, Unchokes
  <2>3. refused' \subseteq Pieces
    BY <1>5, <1>6, <1>7
  <2> QED
    BY <1>1, <1>2, <1>7, <2>2, <2>3, Zenon DEF Replies
<1>8. ASSUME toClient' = toClient, refused' \subseteq Pieces PROVE Replies
  BY <1>1, <1>2, <1>8, Zenon DEF Replies
<1>9. \/ /\ m.type = "request"
         /\ \E good \in BOOLEAN :
               /\ toClient' = Append(toClient, PieceMsg(m.piece, good))
               /\ refused' = refused \/ Loses(m.piece)
      \/ m.type = "request" /\ Loses(m.piece) /\ toClient' = toClient
      \/ toClient' = toClient /\ refused' = refused
  BY <1>3, Zenon DEF PeerReads
<1>10. CASE m.type = "request" /\ Loses(m.piece) /\ toClient' = toClient
  BY <1>5, <1>6, <1>8, <1>10
<1> QED
  BY <1>6, <1>7, <1>8, <1>9, <1>10

\* Every case of handlePeer's switch takes a message and may start a scan.
LEMMA HandleStep ==
  ASSUME WireInv, ClientInv, PeerInv, Handle
  PROVE  Takes
<1> DEFINE h == Head(toClient)
<1>1. PICK type : Reads(type) /\ type \in {"choke", "unchoke", "interested", "notInterested", "have",
                                           "bitfield", "request", "piece", "cancel"}
  BY Zenon DEF Handle, HandleChoke, HandleUnchoke, HandleInterest, HandleHave, HandleBitfield,
     HandleRequest, HandlePiece, HandleCancel
<1>2. toClient # <<>> /\ toClient' = Tail(toClient)
  BY <1>1, Zenon DEF Reads
<1>3. UNCHANGED <<total, toPeer, asking, sending, pHas, pUnchokes, pMessages>>
  BY <1>1, Zenon DEF Reads, peerVars
<1>4. h \in FromPeer
  BY <1>2, ElementsOfTail DEF WireInv
<1>5. h \in Messages
  BY <1>4 DEF FromPeer
<1>6. \A t : Reads(t) /\ t # "choke" => h.type = t
  BY DEF Reads, TypeOf
<1>7. /\ Bitfield \in (SUBSET pHas) \cup {NoBitfield} /\ Downloaded \subseteq Pieces
      /\ serving \subseteq Pieces /\ wanted \subseteq Pieces /\ refused \subseteq Pieces
      /\ pHas \subseteq Pieces
  BY DEF ClientInv, PeerInv
<1>8. ASSUME /\ Bitfield' \in (SUBSET pHas) \cup {NoBitfield} /\ Downloaded' \subseteq Pieces
             /\ serving' \subseteq Pieces /\ wanted' \subseteq Pieces /\ refused' \subseteq Pieces,
             scan' = scan \/ (h \in Unchokes /\ scan' = Append(scan, 0))
      PROVE  Takes
  BY <1>2, <1>3, <1>8, Zenon DEF Takes
<1>9. ASSUME UNCHANGED <<Bitfield, Downloaded, scan, serving, histVars>> PROVE Takes
  <2>1. wanted' = wanted /\ refused' = refused
    BY <1>9, Zenon DEF histVars
  <2> QED
    BY <1>7, <1>8, <1>9, <2>1
<1> HIDE DEF h
<1>10. CASE HandleChoke \/ HandleInterest \/ HandleCancel
  BY <1>9, <1>10, Zenon DEF HandleChoke, HandleInterest, HandleCancel, clientVars
<1>11. CASE HandleUnchoke
  <2>1. h \in Unchokes
    <3>1. Reads("unchoke")
      BY <1>11, Zenon DEF HandleUnchoke
    <3>2. h.type = "unchoke"
      BY <1>6, <3>1
    <3> QED
      BY <1>5, <3>2, MessageFacts DEF Unchokes
  <2>2. scan' = Append(scan, 0) /\ UNCHANGED <<Bitfield, Downloaded, serving>>
    BY <1>11, Zenon DEF HandleUnchoke
  <2>3. PICK offered : /\ offered \subseteq Pieces
                       /\ wanted' = wanted \cup offered /\ refused' = refused \ offered
    <3>1. PICK S : /\ S = IF Bitfield = NoBitfield THEN {}
                           ELSE Bitfield \ Downloaded
                   /\ wanted' = wanted \cup S /\ refused' = refused \ S
      BY <1>11, Zenon DEF HandleUnchoke
    <3>2. Bitfield # NoBitfield => Bitfield \subseteq Pieces
      BY <1>7
    <3>3. S \subseteq Pieces
      BY <3>1, <3>2
    <3> QED
      BY <3>1, <3>3
  <2>4. wanted' \subseteq Pieces /\ refused' \subseteq Pieces
    BY <1>7, <2>3
  <2> QED
    BY <1>7, <1>8, <2>1, <2>2, <2>4
<1>12. CASE HandleHave
  <2>1. Reads("have") /\ UNCHANGED <<Downloaded, scan, serving, histVars>>
    BY <1>12, Zenon DEF HandleHave
  <2>2. h.piece \in pHas
    BY <1>4, <1>6, <2>1 DEF FromPeer
  <2>3. Bitfield' = IF Bitfield = NoBitfield THEN NoBitfield ELSE Bitfield \cup {h.piece}
    BY <1>12, Zenon DEF HandleHave, h
  <2>4. Bitfield' \in (SUBSET pHas) \cup {NoBitfield}
    BY <1>7, <2>2, <2>3
  <2>5. wanted' = wanted /\ refused' = refused
    BY <2>1, Zenon DEF histVars
  <2> QED
    BY <1>7, <1>8, <2>1, <2>4, <2>5
<1>13. CASE HandleBitfield
  <2>1. Reads("bitfield") /\ UNCHANGED <<Downloaded, scan, serving, histVars>>
    BY <1>13, Zenon DEF HandleBitfield
  <2>2. h.pieces \subseteq pHas
    BY <1>4, <1>6, <2>1 DEF FromPeer
  <2>3. Bitfield' = h.pieces
    BY <1>13, Zenon DEF HandleBitfield, h
  <2>4. wanted' = wanted /\ refused' = refused
    BY <2>1, Zenon DEF histVars
  <2> QED
    BY <1>7, <1>8, <2>1, <2>2, <2>3, <2>4
<1>14. CASE HandleRequest
  <2>1. Reads("request") /\ UNCHANGED <<Bitfield, Downloaded, scan, histVars>>
    BY <1>14, Zenon DEF HandleRequest, clientVars
  <2>2. h.piece \in Pieces
    BY <1>5, <1>6, <2>1, MessageFacts
  <2>3. serving' = serving \cup {h.piece}
    BY <1>14, Zenon DEF HandleRequest, h
  <2>4. wanted' = wanted /\ refused' = refused
    BY <2>1, Zenon DEF histVars
  <2> QED
    BY <1>7, <1>8, <2>1, <2>2, <2>3, <2>4
<1>15. CASE HandlePiece
  <2>1. Reads("piece") /\ UNCHANGED <<Bitfield, scan, serving, wanted>>
    BY <1>15, Zenon DEF HandlePiece
  <2>2. h.piece \in Pieces
    BY <1>5, <1>6, <2>1, MessageFacts
  <2>3. /\ Downloaded' = Downloaded \cup {h.piece} \/ Downloaded' = Downloaded
        /\ refused' = refused \/ Loses(h.piece)
    BY <1>15, Zenon DEF HandlePiece, h
  <2>4. Downloaded' \subseteq Pieces /\ refused' \subseteq Pieces
    BY <1>7, <2>2, <2>3 DEF Loses
  <2> QED
    BY <1>7, <1>8, <2>1, <2>4
<1> QED
  BY <1>10, <1>11, <1>12, <1>13, <1>14, <1>15, Zenon DEF Handle

\* What the goroutines requestPieces, requestPiece and handlePieceRequest do.
LEMMA GoStep ==
  ASSUME WireInv, ClientInv, PeerInv, Goroutines
  PROVE  \/ Serves \/ Idles
         \/ \E s \in Scans : Advances(s)
         \/ \E s \in Scans, i \in Pieces : Looks(s, i) \/ Asks(s, i) \/ Drops(s, i)
<1>0. pHas \subseteq Pieces
  BY DEF PeerInv
<1>1. ASSUME NEW s \in Scans, requestPieces(s) PROVE Advances(s)
  <2>1. /\ s \in DOMAIN scan /\ scan[s] < NumPieces
        /\ scan' = [scan EXCEPT ![s] = scan[s] + 1]
    BY <1>1, Zenon DEF requestPieces, Scanning
  <2>2. UNCHANGED <<NotPieces, toPeer, sending, serving>>
    BY <1>1, Zenon DEF requestPieces, NotPieces, clientVars, peerVars, histVars
  <2>3. \/ asking' = asking
        \/ Wants(scan[s]) /\ asking' = asking \cup {<<s, scan[s]>>}
    BY <1>1, Zenon DEF requestPieces
  <2>4. Wants(scan[s]) => scan[s] \in pHas
    <3>1. Bitfield # NoBitfield => Bitfield \subseteq pHas
      BY DEF ClientInv
    <3> QED
      BY <3>1 DEF Wants
  <2> QED
    BY <2>1, <2>2, <2>3, <2>4, Zenon DEF Advances
<1>2. ASSUME NEW s \in Scans, NEW i \in Pieces, requestPiece(s, i) PROVE Looks(s, i)
  <2>1. Needed(i) => i \in NonEmpty
    BY DEF Needed, NonEmpty
  <2>2. UNCHANGED <<NotPieces, toPeer, scan, serving>>
    BY <1>2, Zenon DEF requestPiece, NotPieces, clientVars, peerVars, histVars
  <2>3. /\ <<s, i>> \in asking /\ asking' = asking \ {<<s, i>>}
        /\ sending' = sending \/ (Needed(i) /\ sending' = sending \cup {<<s, i>>})
    BY <1>2, Zenon DEF requestPiece
  <2> QED
    BY <2>1, <2>2, <2>3, Zenon DEF Looks
<1>3. ASSUME NEW s \in Scans, NEW i \in Pieces, SendRequest(s, i) PROVE Asks(s, i) \/ Drops(s, i)
  <2>1. PICK n \in 0 .. PieceLength : n = calculatePieceLength(i)
    BY PieceLengths
  <2>2. PICK m : m = Request(i, 0, n)
    OBVIOUS
  <2>3. m \in Messages /\ m.type = "request" /\ m.piece = i /\ m.begin = 0 /\ m.length = n
    BY <2>2, SentMessages
  <2>4. i \in pHas \cap NonEmpty
    BY <1>3 DEF SendRequest, ClientInv
  <2>5. m \in FromClient /\ m \in RequestsOf(i)
    BY <2>1, <2>3, <2>4 DEF FromClient, RequestsOf
  <2>6. UNCHANGED <<total, toClient, Bitfield, Downloaded, pHas, pUnchokes, pMessages, wanted,
                    scan, asking, serving>>
    BY <1>3, Zenon DEF SendRequest, clientVars, peerVars
  <2>7. <<s, i>> \in sending /\ sending' = sending \ {<<s, i>>}
    BY <1>3, Zenon DEF SendRequest
  <2>8. CASE toPeer' = Append(toPeer, m) /\ refused' = refused
    <3>1. \E x \in FromClient \cap RequestsOf(i) : toPeer' = Append(toPeer, x)
      BY <2>5, <2>8
    <3> QED
      BY <2>6, <2>7, <2>8, <3>1, Zenon DEF Asks, NotPieces
  <2>9. CASE toPeer' = toPeer /\ Loses(i)
    <3>1. refused' \subseteq Pieces
      BY <2>9 DEF ClientInv, Loses
    <3> QED
      BY <2>6, <2>7, <2>9, <3>1, Zenon DEF Drops
  <2> QED
    BY <1>3, <2>1, <2>2, <2>8, <2>9, Zenon DEF SendRequest, SendMessage, SendFails
<1>4. ASSUME NEW i \in Pieces, handlePieceRequest(i) PROVE Serves \/ Idles
  <2>1. PICK good \in BOOLEAN : toPeer' = Append(toPeer, PieceMsg(i, good)) \/ toPeer' = toPeer
    <3>1. toPeer' = Append(toPeer, PieceMsg(i, i \in Downloaded)) \/ toPeer' = toPeer
      BY <1>4, Zenon DEF handlePieceRequest, SendMessage, SendFails
    <3>2. (i \in Downloaded) \in BOOLEAN
      OBVIOUS
    <3> QED
      BY <3>1, <3>2, Zenon
  <2>2. PICK m : m = PieceMsg(i, good)
    OBVIOUS
  <2>3. m \in Messages /\ m.type = "piece"
    BY <2>2, SentMessages
  <2>4. m \in FromClient /\ \A j \in Pieces : m \notin RequestsOf(j)
    BY <2>3 DEF FromClient, RequestsOf
  <2>5. serving' \subseteq serving
    BY <1>4 DEF handlePieceRequest
  <2>6. UNCHANGED <<NotPieces, scan, asking, sending>>
    BY <1>4, Zenon DEF handlePieceRequest, NotPieces, clientVars, peerVars, histVars
  <2>7. CASE toPeer' = Append(toPeer, m)
    BY <2>4, <2>5, <2>6, <2>7, Zenon DEF Serves
  <2>8. CASE toPeer' = toPeer
    <3>1. Downloaded' \subseteq Pieces
      BY <2>6 DEF NotPieces, ClientInv
    <3> QED
      BY <2>5, <2>6, <2>8, <3>1, Zenon DEF Idles, NotPieces
  <2> QED
    BY <2>1, <2>2, <2>7, <2>8
<1> QED
  BY <1>1, <1>2, <1>3, <1>4, Zenon DEF Goroutines

\* Every step is one of them.
LEMMA StepCases ==
  ASSUME WireInv, ClientInv, PeerInv, [Next]_vars
  PROVE  Move
<1>1. Ends => Cuts
  BY Zenon DEF Ends, Cuts, clientVars, peerVars, histVars
<1>2. ASSUME NEW i \in Pieces, OtherPeer(i) PROVE Idles
  <2>1. Downloaded' = Downloaded \cup {i} /\ serving' = serving
    BY <1>2, Zenon DEF OtherPeer, goVars
  <2>2. Downloaded' \subseteq Pieces /\ serving' \subseteq serving
    BY <2>1 DEF ClientInv
  <2> QED
    BY <1>2, <2>2, Zenon DEF OtherPeer, Idles, goVars, peerVars, histVars
<1>3. UNCHANGED vars => Idles
  <2> SUFFICES ASSUME UNCHANGED vars PROVE Idles
    OBVIOUS
  <2>1. Downloaded' = Downloaded /\ serving' = serving
    BY Zenon DEF vars, clientVars, goVars
  <2>2. Downloaded' \subseteq Pieces /\ serving' \subseteq serving
    BY <2>1 DEF ClientInv
  <2> QED
    BY <2>2, Zenon DEF vars, Idles, clientVars, goVars, peerVars, histVars
<1> QED
  BY <1>1, <1>2, <1>3, PeerStep, ReplyStep, HandleStep, GoStep, Zenon DEF Next, Finished, Move
-----------------------------------------------------------------------------
(* The wires, the client and the peer.                                     *)

\* The torrent stays and the peer keeps its pieces.
LEMMA PiecesStay ==
  ASSUME PeerInv, Move
  PROVE  total' = total /\ pHas \subseteq pHas' /\ pHas' \subseteq Pieces
<1>1. (\E m : Says(m)) => total' = total /\ pHas \subseteq pHas' /\ pHas' \subseteq Pieces
  BY Zenon DEF Says
<1>2. ~(\E m : Says(m)) => total' = total /\ pHas' = pHas
  BY Zenon DEF Move, Replies, Takes, Cuts, Serves, Idles, Advances, Looks, Asks, Drops, NotPieces
<1> QED
  BY <1>1, <1>2 DEF PeerInv

\* Messages under way stay true, and new ones are.
LEMMA WireStep ==
  ASSUME WireInv, PeerInv, Move
  PROVE  WireInv'
<1>1. FromPeer \subseteq FromPeer' /\ FromClient \subseteq FromClient'
  BY PiecesStay, MessagesStay
<1>2. toClient \in Seq(FromPeer') /\ toPeer \in Seq(FromClient')
  BY <1>1, SequencesOver DEF WireInv
<1>3. toClient' \in Seq(FromPeer')
  <2>1. CASE toClient' = toClient \/ toClient' = <<>>
    <3>1. PICK S : S = FromPeer'
      OBVIOUS
    <3>2. toClient \in Seq(S) /\ <<>> \in Seq(S)
      BY <1>2, <3>1
    <3>3. toClient' \in Seq(S)
      BY <2>1, <3>2
    <3> QED
      BY <3>1, <3>3
  <2>2. ASSUME NEW m \in FromPeer', toClient' = Append(toClient, m)
        PROVE  toClient' \in Seq(FromPeer')
    <3>1. PICK S : S = FromPeer'
      OBVIOUS
    <3>2. toClient \in Seq(S) /\ m \in S
      BY <1>2, <2>2, <3>1
    <3>3. Append(toClient, m) \in Seq(S)
      BY <3>2, ElementsOfAppend
    <3> QED
      BY <2>2, <3>1, <3>3
  <2>3. CASE toClient # <<>> /\ toClient' = Tail(toClient)
    <3>1. PICK S : S = FromPeer'
      OBVIOUS
    <3>2. toClient \in Seq(S)
      BY <1>2, <3>1
    <3>3. Tail(toClient) \in Seq(S)
      BY <2>3, <3>2, ElementsOfTail
    <3> QED
      BY <2>3, <3>1, <3>3
  <2>4. \/ toClient' = toClient \/ toClient' = <<>>
        \/ \E m \in FromPeer' : toClient' = Append(toClient, m)
        \/ toClient # <<>> /\ toClient' = Tail(toClient)
    <3>1. \A m : Says(m) => m \in FromPeer' /\ toClient' = Append(toClient, m)
      BY Zenon DEF Says
    <3>2. Replies => \/ toClient' = toClient
                     \/ \E m \in FromPeer : toClient' = Append(toClient, m)
      BY Zenon DEF Replies
    <3>3. Takes => toClient # <<>> /\ toClient' = Tail(toClient)
      BY Zenon DEF Takes
    <3>4. Cuts => toClient' = <<>>
      BY Zenon DEF Cuts
    <3>5. Serves \/ Idles => toClient' = toClient
      BY Zenon DEF Serves, Idles, NotPieces
    <3>6. \A s \in Scans, i \in Pieces : Looks(s, i) \/ Asks(s, i) \/ Drops(s, i)
                                           => toClient' = toClient
      BY Zenon DEF Looks, Asks, Drops, NotPieces
    <3>7. \A s \in Scans : Advances(s) => toClient' = toClient
      BY Zenon DEF Advances, NotPieces
    <3> QED
      BY <1>1, <3>1, <3>2, <3>3, <3>4, <3>5, <3>6, <3>7 DEF Move
  <2> QED
    BY <2>1, <2>2, <2>3, <2>4
<1>4. toPeer' \in Seq(FromClient')
  <2>1. CASE toPeer' = toPeer \/ toPeer' = <<>>
    <3>1. PICK S : S = FromClient'
      OBVIOUS
    <3>2. toPeer \in Seq(S) /\ <<>> \in Seq(S)
      BY <1>2, <3>1
    <3>3. toPeer' \in Seq(S)
      BY <2>1, <3>2
    <3> QED
      BY <3>1, <3>3
  <2>2. ASSUME NEW m \in FromClient', toPeer' = Append(toPeer, m)
        PROVE  toPeer' \in Seq(FromClient')
    <3>1. PICK S : S = FromClient'
      OBVIOUS
    <3>2. toPeer \in Seq(S) /\ m \in S
      BY <1>2, <2>2, <3>1
    <3>3. Append(toPeer, m) \in Seq(S)
      BY <3>2, ElementsOfAppend
    <3> QED
      BY <2>2, <3>1, <3>3
  <2>3. CASE toPeer # <<>> /\ toPeer' = Tail(toPeer)
    <3>1. PICK S : S = FromClient'
      OBVIOUS
    <3>2. toPeer \in Seq(S)
      BY <1>2, <3>1
    <3>3. Tail(toPeer) \in Seq(S)
      BY <2>3, <3>2, ElementsOfTail
    <3> QED
      BY <2>3, <3>1, <3>3
  <2>4. \/ toPeer' = toPeer \/ toPeer' = <<>>
        \/ \E m \in FromClient' : toPeer' = Append(toPeer, m)
        \/ toPeer # <<>> /\ toPeer' = Tail(toPeer)
    <3>1. \A m : Says(m) => toPeer' = toPeer
      BY Zenon DEF Says
    <3>2. Replies => toPeer # <<>> /\ toPeer' = Tail(toPeer)
      BY Zenon DEF Replies
    <3>3. Takes \/ Idles => toPeer' = toPeer
      BY Zenon DEF Takes, Idles
    <3>4. Cuts => toPeer' = <<>>
      BY Zenon DEF Cuts
    <3>5. Serves => \E m \in FromClient : toPeer' = Append(toPeer, m)
      BY Zenon DEF Serves
    <3>6. \A s \in Scans, i \in Pieces : Looks(s, i) \/ Drops(s, i) => toPeer' = toPeer
      BY Zenon DEF Looks, Drops
    <3>7. \A s \in Scans, i \in Pieces :
             Asks(s, i) => \E m \in FromClient : toPeer' = Append(toPeer, m)
      BY DEF Asks
    <3>8. \A s \in Scans : Advances(s) => toPeer' = toPeer
      BY Zenon DEF Advances
    <3> QED
      BY <1>1, <3>1, <3>2, <3>3, <3>4, <3>5, <3>6, <3>7, <3>8 DEF Move
  <2> QED
    BY <2>1, <2>2, <2>3, <2>4
<1> QED
  BY <1>3, <1>4 DEF WireInv

\* The client's picture of the peer stays within what the peer has.
LEMMA ClientStep ==
  ASSUME ClientInv, PeerInv, Move
  PROVE  ClientInv'
<1>1. NonEmpty' = NonEmpty /\ pHas \subseteq pHas'
  BY PiecesStay, LengthsStay
<1>2. /\ Bitfield \in (SUBSET pHas) \cup {NoBitfield} /\ Downloaded \subseteq Pieces
      /\ asking \subseteq Scans \X pHas
      /\ sending \subseteq Scans \X (pHas \cap NonEmpty)
      /\ serving \subseteq Pieces /\ wanted \subseteq Pieces /\ refused \subseteq Pieces
  BY DEF ClientInv
<1>3. Bitfield' \in (SUBSET pHas') \cup {NoBitfield} /\ Downloaded' \subseteq Pieces
  <2>1. CASE Bitfield' = Bitfield /\ Downloaded' \subseteq Pieces
    BY <1>1, <1>2, <2>1
  <2>2. CASE Takes
    BY <1>1, <2>2 DEF Takes
  <2>3. ~Takes => Bitfield' = Bitfield /\ (Downloaded' = Downloaded \/ Downloaded' \subseteq Pieces)
    BY Zenon DEF Move, Says, Replies, Cuts, Serves, Idles, Advances, Looks, Asks, Drops, NotPieces
  <2> QED
    BY <1>2, <2>1, <2>2, <2>3
<1>4. asking' \subseteq Scans \X pHas' /\ sending' \subseteq Scans \X (pHas' \cap NonEmpty)
  <2>1. CASE asking' = asking /\ sending' = sending
    BY <1>1, <1>2, <2>1
  <2>2. CASE Cuts
    BY <2>2 DEF Cuts
  <2>3. ASSUME NEW s \in Scans, Advances(s)
        PROVE  asking' \subseteq Scans \X pHas' /\ sending' \subseteq Scans \X (pHas' \cap NonEmpty)
    BY <1>1, <1>2, <2>3 DEF Advances
  <2>4. ASSUME NEW s \in Scans, NEW i \in Pieces, Looks(s, i)
        PROVE  asking' \subseteq Scans \X pHas' /\ sending' \subseteq Scans \X (pHas' \cap NonEmpty)
    BY <1>1, <1>2, <2>4 DEF Looks
  <2>5. ASSUME NEW s \in Scans, NEW i \in Pieces, Asks(s, i) \/ Drops(s, i)
        PROVE  asking' \subseteq Scans \X pHas' /\ sending' \subseteq Scans \X (pHas' \cap NonEmpty)
    <3>1. asking' = asking /\ sending' \subseteq sending
      BY <2>5 DEF Asks, Drops
    <3> QED
      BY <1>1, <1>2, <3>1
  <2>6. (\E m : Says(m)) \/ Replies \/ Takes \/ Serves \/ Idles
           => asking' = asking /\ sending' = sending
    BY Zenon DEF Says, Replies, Takes, Serves, Idles
  <2> QED
    BY <2>1, <2>2, <2>3, <2>4, <2>5, <2>6 DEF Move
<1>5. serving' \subseteq Pieces
  <2>1. serving' = serving \/ serving' \subseteq serving \/ serving' = {} \/ serving' \subseteq Pieces
    BY Zenon DEF Move, Says, Replies, Takes, Cuts, Serves, Idles, Advances, Looks, Asks, Drops
  <2> QED
    BY <1>2, <2>1
<1>6. wanted' \subseteq Pieces /\ refused' \subseteq Pieces
  <2>1. wanted' = wanted \/ wanted' \subseteq Pieces
    BY Zenon DEF Move, Says, Replies, Takes, Cuts, Serves, Idles, Advances, Looks, Asks, Drops, NotPieces
  <2>2. refused' = refused \/ refused' \subseteq Pieces
    BY Zenon DEF Move, Says, Replies, Takes, Cuts, Serves, Idles, Advances, Looks, Asks, Drops, NotPieces
  <2> QED
    BY <1>2, <2>1, <2>2
<1> QED
  BY <1>1, <1>3, <1>4, <1>5, <1>6 DEF ClientInv

\* The peer keeps within its bounds.
LEMMA PeerInvStep ==
  ASSUME PeerInv, Move
  PROVE  PeerInv'
<1>1. total' \in Totals /\ pHas' \subseteq Pieces
  BY PiecesStay DEF PeerInv
<1>2. pUnchokes' = pUnchokes \/ (pUnchokes < MaxUnchokes /\ pUnchokes' = pUnchokes + 1)
  BY Zenon DEF Move, Says, Replies, Takes, Cuts, Serves, Idles, Advances, Looks, Asks, Drops, NotPieces
<1>3. pMessages' = pMessages \/ pMessages' \in 0 .. MaxMessages
  BY Zenon DEF Move, Says, Replies, Takes, Cuts, Serves, Idles, Advances, Looks, Asks, Drops, NotPieces
<1> QED
  BY <1>1, <1>2, <1>3, SessionAssumption DEF PeerInv

\* The flags are Booleans.
LEMMA FlagStep ==
  ASSUME FlagInv, [Next]_vars
  PROVE  FlagInv'
<1>1. /\ closed' = closed \/ closed' = TRUE
      /\ Choked' = Choked \/ Choked' = TRUE \/ Choked' = FALSE
      /\ Interested' = Interested \/ Interested' = TRUE \/ Interested' = FALSE
      /\ pChoking' = pChoking \/ pChoking' = TRUE \/ pChoking' = FALSE
      /\ pSilent' = pSilent \/ pSilent' = FALSE
  <2>1. CASE PeerActs
    BY <2>1, Zenon DEF PeerActs, PeerBitfield, PeerHave, PeerUnchoke, PeerChoke, PeerChats,
       PeerRequest, PeerPiece, PeerSends, clientVars
  <2>2. CASE PeerReads
    BY <2>2, Zenon DEF PeerReads, clientVars
  <2>3. CASE Handle
    BY <2>3, Zenon DEF Handle, HandleChoke, HandleUnchoke, HandleInterest, HandleHave,
       HandleBitfield, HandleRequest, HandlePiece, HandleCancel, Reads, clientVars, peerVars
  <2>4. CASE Goroutines
    BY <2>4, Zenon DEF Goroutines, requestPieces, requestPiece, SendRequest, handlePieceRequest,
       clientVars, peerVars
  <2>5. CASE Ends
    BY <2>5, Zenon DEF Ends, clientVars, peerVars
  <2>6. CASE \E i \in Pieces : OtherPeer(i)
    BY <2>6, Zenon DEF OtherPeer, peerVars
  <2>7. CASE UNCHANGED vars
    BY <2>7, Zenon DEF vars, clientVars, peerVars
  <2> QED
    BY <2>1, <2>2, <2>3, <2>4, <2>5, <2>6, <2>7, Zenon DEF Next, Finished
<1> QED
  BY <1>1, Zenon DEF FlagInv

-----------------------------------------------------------------------------
(* Scans and requests are counted.                                         *)

\* Each Unchoke that is read starts one scan, which moves forward.
LEMMA ScanStep ==
  ASSUME WireInv, PeerInv, ScanInv, Move
  PROVE  ScanInv'
<1>1. PICK n, k : n = Len(scan) /\ k = Cardinality(Places(toClient, Unchokes))
  OBVIOUS
<1>2. n \in Nat /\ k \in Nat /\ pUnchokes \in Nat /\ n + k <= pUnchokes
  <2>1. k \in Nat
    BY <1>1, PlacesAreFinite DEF WireInv
  <2> QED
    BY <1>1, <2>1, SessionAssumption DEF ScanInv, PeerInv
<1>3. scan \in Seq(0 .. NumPieces) /\ NumPieces \in Nat
  BY SessionAssumption DEF ScanInv
<1>4. ASSUME NEW m, Says(m) PROVE ScanInv'
  <2>1. PICK S : S = FromPeer'
    OBVIOUS
  <2>2. m \in S /\ toClient \in Seq(S)
    <3>1. FromPeer \subseteq FromPeer'
      BY <1>4, MessagesStay DEF Says
    <3> QED
      BY <1>4, <2>1, <3>1, SequencesOver DEF Says, WireInv
  <2>3. Cardinality(Places(Append(toClient, m), Unchokes)) = k + IF m \in Unchokes THEN 1 ELSE 0
    BY <1>1, <2>2, PlacesOfAppend
  <2>4. toClient' = Append(toClient, m) /\ scan' = scan
    BY <1>4, Zenon DEF Says
  <2>5. \/ m \in Unchokes /\ pUnchokes' = pUnchokes + 1
        \/ m \notin Unchokes /\ pUnchokes' = pUnchokes
    BY <1>4, Zenon DEF Says
  <2>6. n + Cardinality(Places(toClient', Unchokes)) <= pUnchokes'
    BY <1>2, <2>3, <2>4, <2>5
  <2> QED
    BY <1>1, <1>3, <2>4, <2>6 DEF ScanInv, Unchokes
<1>5. CASE Replies
  <2>1. scan' = scan /\ pUnchokes' = pUnchokes
    BY <1>5, Zenon DEF Replies
  <2>2. Cardinality(Places(toClient', Unchokes)) = k
    <3>1. CASE toClient' = toClient
      BY <1>1, <3>1
    <3>2. ASSUME NEW m \in FromPeer, toClient' = Append(toClient, m), m \notin Unchokes
          PROVE  Cardinality(Places(toClient', Unchokes)) = k
      <4>1. Cardinality(Places(Append(toClient, m), Unchokes)) = k + 0
        BY <1>1, <3>2, PlacesOfAppend DEF WireInv
      <4> QED
        BY <1>2, <3>2, <4>1
    <3> QED
      BY <1>5, <3>1, <3>2, Zenon DEF Replies
  <2> QED
    BY <1>1, <1>2, <1>3, <2>1, <2>2 DEF ScanInv, Unchokes
<1>6. CASE Takes
  <2>1. pUnchokes' = pUnchokes /\ toClient # <<>> /\ toClient' = Tail(toClient)
    BY <1>6, Zenon DEF Takes
  <2>2. PICK j : j = Cardinality(Places(toClient', Unchokes))
    OBVIOUS
  <2>3. j \in Nat /\ k = j + IF Head(toClient) \in Unchokes THEN 1 ELSE 0
    <3>1. k = Cardinality(Places(Tail(toClient), Unchokes))
                + IF Head(toClient) \in Unchokes THEN 1 ELSE 0
      BY <1>1, <2>1, PlacesOfTail DEF WireInv
    <3>2. Tail(toClient) \in Seq(FromPeer)
      BY <2>1, ElementsOfTail DEF WireInv
    <3>3. j \in Nat
      BY <2>1, <2>2, <3>2, PlacesAreFinite
    <3> QED
      BY <2>1, <2>2, <3>1, <3>3
  <2>4. CASE scan' = scan
    <3>1. n + j <= pUnchokes
      BY <1>2, <2>3
    <3> QED
      BY <1>1, <1>3, <2>1, <2>2, <2>4, <3>1 DEF ScanInv, Unchokes
  <2>5. CASE Head(toClient) \in Unchokes /\ scan' = Append(scan, 0)
    <3>1. scan' \in Seq(0 .. NumPieces) /\ Len(scan') = n + 1
      BY <1>1, <1>3, <2>5
    <3>2. (n + 1) + j <= pUnchokes
      BY <1>2, <2>3, <2>5
    <3> QED
      BY <2>1, <2>2, <3>1, <3>2 DEF ScanInv, Unchokes
  <2> QED
    BY <1>6, <2>4, <2>5, Zenon DEF Takes
<1>7. CASE Cuts
  <2>1. toClient' = <<>> /\ scan' = <<>> /\ pUnchokes' = pUnchokes
    BY <1>7, Zenon DEF Cuts
  <2>2. Cardinality(Places(<<>>, Unchokes)) = 0
    BY PlacesOfEmpty
  <2>3. scan' \in Seq(0 .. NumPieces) /\ Len(scan') = 0
    BY <2>1
  <2>4. Len(scan') + Cardinality(Places(toClient', Unchokes)) <= pUnchokes'
    BY <1>2, <2>1, <2>2, <2>3
  <2> QED
    BY <2>3, <2>4 DEF ScanInv, Unchokes
<1>8. ASSUME scan' \in Seq(0 .. NumPieces), Len(scan') = Len(scan), toClient' = toClient,
             pUnchokes' = pUnchokes
      PROVE  ScanInv'
  BY <1>8 DEF ScanInv, Unchokes
<1>9. ASSUME NEW s \in Scans, Advances(s) PROVE ScanInv'
  <2>1. /\ s \in DOMAIN scan /\ scan[s] < NumPieces /\ scan' = [scan EXCEPT ![s] = scan[s] + 1]
        /\ toClient' = toClient /\ pUnchokes' = pUnchokes
    BY <1>9, Zenon DEF Advances, NotPieces
  <2>2. scan[s] + 1 \in 0 .. NumPieces
    BY <1>3, <2>1
  <2>3. scan' \in Seq(0 .. NumPieces) /\ Len(scan') = Len(scan)
    BY <1>3, <2>1, <2>2
  <2> QED
    BY <1>8, <2>1, <2>3
<1>10. ASSUME UNCHANGED <<scan, toClient, pUnchokes>> PROVE ScanInv'
  BY <1>3, <1>8, <1>10
<1>11. Serves \/ Idles \/ (\E s \in Scans, i \in Pieces : Looks(s, i) \/ Asks(s, i) \/ Drops(s, i))
          => UNCHANGED <<scan, toClient, pUnchokes>>
  BY Zenon DEF Serves, Idles, Looks, Asks, Drops, NotPieces
<1> QED
  BY <1>4, <1>5, <1>6, <1>7, <1>9, <1>10, <1>11, Zenon DEF Move

\* A scan starts a request once, as it passes the piece.
LEMMA AskStep ==
  ASSUME ClientInv, PeerInv, ScanInv, AskInv, Move
  PROVE  AskInv'
<1>1. scan \in Seq(0 .. NumPieces) /\ NumPieces \in Nat
  BY SessionAssumption DEF ScanInv
<1>2. CASE asking' = asking /\ sending' = sending /\ scan' = scan
  BY <1>2 DEF AskInv
<1>3. CASE asking' = asking /\ sending' = sending /\ scan' = Append(scan, 0)
  <2>1. \A s \in DOMAIN scan : s \in DOMAIN Append(scan, 0) /\ Append(scan, 0)[s] = scan[s]
    BY <1>1
  <2> QED
    BY <1>3, <2>1 DEF AskInv
<1>4. CASE Cuts
  BY <1>4 DEF Cuts, AskInv
<1>5. ASSUME NEW s \in Scans, Advances(s) PROVE AskInv'
  <2>1. /\ s \in DOMAIN scan /\ scan' = [scan EXCEPT ![s] = scan[s] + 1] /\ sending' = sending
        /\ asking' = asking \/ asking' = asking \cup {<<s, scan[s]>>}
    BY <1>5, Zenon DEF Advances
  <2>2. scan \in [DOMAIN scan -> Nat]
    BY <1>1
  <2>3. DOMAIN scan' = DOMAIN scan /\ \A r \in DOMAIN scan : scan'[r] \in Nat /\ scan[r] <= scan'[r]
    BY <2>1, <2>2
  <2>4. scan[s] \in Nat /\ scan'[s] = scan[s] + 1
    BY <2>1, <2>2
  <2>5. <<s, scan[s]>> \notin sending
    <3>1. scan[s] \in pHas => scan[s] \in Pieces
      BY DEF PeerInv
    <3>2. <<s, scan[s]>> \in sending => scan[s] \in pHas
      BY DEF ClientInv
    <3> QED
      BY <2>4, <3>1, <3>2 DEF AskInv
  <2>6. ASSUME NEW r \in Scans, NEW i \in Pieces, <<r, i>> \in asking' \cup sending'
        PROVE  r \in DOMAIN scan' /\ i < scan'[r]
    <3>0. i \in Nat
      BY SessionAssumption DEF Pieces
    <3>1. CASE <<r, i>> \in asking \cup sending
      <4>1. r \in DOMAIN scan /\ i < scan[r]
        BY <3>1 DEF AskInv
      <4>2. scan[r] \in Nat /\ scan'[r] \in Nat /\ scan[r] <= scan'[r]
        BY <2>2, <2>3, <4>1
      <4> QED
        BY <2>3, <3>0, <4>1, <4>2
    <3>2. CASE r = s /\ i = scan[s]
      BY <2>1, <2>3, <2>4, <3>2
    <3> QED
      BY <2>1, <2>6, <3>1, <3>2
  <2>7. asking' \cap sending' = {}
    BY <2>1, <2>5 DEF AskInv
  <2> QED
    BY <2>6, <2>7 DEF AskInv
<1>6. ASSUME asking' \cup sending' \subseteq asking \cup sending, asking' \cap sending' = {},
             scan' = scan
      PROVE  AskInv'
  BY <1>6 DEF AskInv
<1>7. ASSUME NEW s \in Scans, NEW i \in Pieces, Looks(s, i) PROVE AskInv'
  <2>1. /\ <<s, i>> \in asking /\ asking' = asking \ {<<s, i>>} /\ scan' = scan
        /\ sending' = sending \/ sending' = sending \cup {<<s, i>>}
    BY <1>7, Zenon DEF Looks
  <2> QED
    BY <1>6, <2>1 DEF AskInv
<1>8. ASSUME NEW s \in Scans, NEW i \in Pieces, Asks(s, i) \/ Drops(s, i) PROVE AskInv'
  <2>1. asking' = asking /\ sending' = sending \ {<<s, i>>} /\ scan' = scan
    BY <1>8, Zenon DEF Asks, Drops
  <2> QED
    BY <1>6, <2>1 DEF AskInv
<1>9. (\E m : Says(m)) \/ Replies \/ Serves \/ Idles
         => asking' = asking /\ sending' = sending /\ scan' = scan
  BY Zenon DEF Says, Replies, Serves, Idles
<1>10. Takes => /\ asking' = asking /\ sending' = sending
                /\ scan' = scan \/ scan' = Append(scan, 0)
  BY Zenon DEF Takes
<1> QED
  BY <1>2, <1>3, <1>4, <1>5, <1>7, <1>8, <1>9, <1>10, Zenon DEF Move

\* The sets that are counted are finite.
LEMMA CountsAreFinite ==
  ASSUME NEW A, NEW sc \in Seq(0 .. NumPieces), NEW i
  PROVE  /\ IsFiniteSet(Askers(A, i)) /\ Cardinality(Askers(A, i)) \in Nat
         /\ IsFiniteSet(Passed(sc, i)) /\ Cardinality(Passed(sc, i)) \in Nat
         /\ Cardinality(Passed(sc, i)) <= Len(sc)
<1>1. MaxUnchokes \in Nat /\ Len(sc) \in Nat
  BY SessionAssumption
<1>2. IsFiniteSet(1 .. MaxUnchokes) /\ IsFiniteSet(1 .. Len(sc)) /\ Cardinality(1 .. Len(sc)) = Len(sc)
  <2>1. PICK n : n = Len(sc)
    OBVIOUS
  <2>2. n \in Nat /\ 1 \in Int /\ n \in Int /\ MaxUnchokes \in Int
    BY <1>1, <2>1
  <2>3. IsFiniteSet(1 .. MaxUnchokes) /\ IsFiniteSet(1 .. n)
    BY <2>2, FS_Interval
  <2>4. Cardinality(1 .. n) = IF 1 > n THEN 0 ELSE n - 1 + 1
    BY <2>2, FS_Interval
  <2>5. Cardinality(1 .. n) = n
    BY <2>2, <2>4
  <2> QED
    BY <2>1, <2>3, <2>5
<1>3. Askers(A, i) \in SUBSET (1 .. MaxUnchokes) /\ Passed(sc, i) \in SUBSET (1 .. Len(sc))
  BY DEF Askers, Passed, Scans
<1>4. IsFiniteSet(Askers(A, i))
  BY <1>2, <1>3, FS_Subset
<1>5. IsFiniteSet(Passed(sc, i)) /\ Cardinality(Passed(sc, i)) <= Cardinality(1 .. Len(sc))
  BY <1>2, <1>3, FS_Subset
<1> QED
  BY <1>2, <1>4, <1>5, FS_CardinalityType

\* A request moves from stage to stage and is never doubled.
LEMMA CountStep ==
  ASSUME WireInv, ClientInv, PeerInv, ScanInv, AskInv, CountInv, Move
  PROVE  CountInv'
<1>0. SUFFICES ASSUME NEW i \in Pieces
               PROVE  Cardinality(Places(toPeer', RequestsOf(i)))
                        + Cardinality(Askers(asking' \cup sending', i))
                          <= Cardinality(Passed(scan', i))
  BY DEF CountInv, RequestsOf, Askers, Passed
<1>1. PICK w, A, a, q : /\ w = Cardinality(Places(toPeer, RequestsOf(i)))
                        /\ A = asking \cup sending /\ a = Cardinality(Askers(A, i))
                        /\ q = Cardinality(Passed(scan, i))
  OBVIOUS
<1>2. PICK v, B, b, p : /\ v = Cardinality(Places(toPeer', RequestsOf(i)))
                        /\ B = asking' \cup sending' /\ b = Cardinality(Askers(B, i))
                        /\ p = Cardinality(Passed(scan', i))
  OBVIOUS
<1>3. scan \in Seq(0 .. NumPieces) /\ scan' \in Seq(0 .. NumPieces)
  BY ScanStep DEF ScanInv
<1>4. /\ a \in Nat /\ b \in Nat /\ q \in Nat /\ p \in Nat
      /\ IsFiniteSet(Askers(A, i)) /\ IsFiniteSet(Passed(scan, i))
  BY <1>1, <1>2, <1>3, CountsAreFinite
<1>5. w \in Nat /\ v \in Nat
  <2>1. WireInv'
    BY WireStep
  <2>2. PICK S, T : S = FromClient /\ T = FromClient'
    OBVIOUS
  <2>3. toPeer \in Seq(S) /\ toPeer' \in Seq(T)
    BY <2>1, <2>2 DEF WireInv
  <2> QED
    BY <1>1, <1>2, <2>3, PlacesAreFinite
<1>6. w + a <= q
  BY <1>1 DEF CountInv
<1>7. i \in Nat
  BY SessionAssumption DEF Pieces
<1>8. SUFFICES v + b <= p
  BY <1>2
<1>9. B \subseteq A => b <= a
  <2> SUFFICES ASSUME B \subseteq A PROVE b <= a
    OBVIOUS
  <2>1. Askers(B, i) \in SUBSET Askers(A, i)
    BY DEF Askers
  <2> QED
    BY <1>1, <1>2, <1>4, <2>1, FS_Subset
<1>10. ASSUME NEW m \in FromClient, toPeer' = Append(toPeer, m)
       PROVE  v = w + IF m \in RequestsOf(i) THEN 1 ELSE 0
  BY <1>1, <1>2, <1>10, PlacesOfAppend DEF WireInv
<1>11. CASE (\E m : Says(m)) \/ Idles
  <2>1. toPeer' = toPeer /\ asking' = asking /\ sending' = sending /\ scan' = scan
    BY <1>11, Zenon DEF Says, Idles
  <2>2. v = w /\ B \subseteq A /\ p = q
    BY <1>1, <1>2, <2>1
  <2> QED
    BY <1>4, <1>5, <1>6, <1>9, <2>2
<1>12. CASE Replies
  <2>1. /\ toPeer # <<>> /\ toPeer' = Tail(toPeer)
        /\ asking' = asking /\ sending' = sending /\ scan' = scan
    BY <1>12, Zenon DEF Replies
  <2>2. w = Cardinality(Places(Tail(toPeer), RequestsOf(i)))
              + IF Head(toPeer) \in RequestsOf(i) THEN 1 ELSE 0
    BY <1>1, <2>1, PlacesOfTail DEF WireInv
  <2>3. w = v + IF Head(toPeer) \in RequestsOf(i) THEN 1 ELSE 0
    BY <1>2, <2>1, <2>2
  <2>4. v <= w
    BY <1>5, <2>3
  <2>5. B \subseteq A /\ p = q
    BY <1>1, <1>2, <2>1
  <2> QED
    BY <1>4, <1>5, <1>6, <1>9, <2>4, <2>5
<1>13. CASE Takes
  <2>1. /\ toPeer' = toPeer /\ asking' = asking /\ sending' = sending
        /\ scan' = scan \/ scan' = Append(scan, 0)
    BY <1>13, Zenon DEF Takes
  <2>2. Passed(Append(scan, 0), i) = Passed(scan, i)
    <3>1. PICK n, t : n = Len(scan) /\ t = Append(scan, 0)
      OBVIOUS
    <3>2. /\ n \in Nat /\ DOMAIN scan = 1 .. n /\ DOMAIN t = 1 .. n + 1
          /\ t[n + 1] = 0 /\ \A j \in 1 .. n : t[j] = scan[j]
      BY <1>3, <3>1
    <3>3. \A j : j \in 1 .. n + 1 <=> j \in 1 .. n \/ j = n + 1
      BY <3>2
    <3>4. ~(t[n + 1] > i)
      BY <1>7, <3>2
    <3> QED
      BY <3>1, <3>2, <3>3, <3>4 DEF Passed
  <2>3. v = w /\ B \subseteq A /\ p = q
    BY <1>1, <1>2, <2>1, <2>2
  <2> QED
    BY <1>4, <1>5, <1>6, <1>9, <2>3
<1>14. CASE Cuts
  <2>1. toPeer' = <<>> /\ asking' = {} /\ sending' = {}
    BY <1>14, Zenon DEF Cuts
  <2>2. v = 0
    BY <1>2, <2>1, PlacesOfEmpty
  <2>3. Askers(B, i) = {}
    BY <1>2, <2>1 DEF Askers
  <2>4. b = 0
    BY <1>2, <2>3, FS_EmptySet
  <2> QED
    BY <1>4, <2>2, <2>4
<1>15. CASE Serves
  <2>1. PICK m \in FromClient : toPeer' = Append(toPeer, m) /\ m \notin RequestsOf(i)
    BY <1>15, Zenon DEF Serves
  <2>2. asking' = asking /\ sending' = sending /\ scan' = scan
    BY <1>15, Zenon DEF Serves
  <2>3. v = w
    BY <1>5, <1>10, <2>1
  <2>4. B \subseteq A /\ p = q
    BY <1>1, <1>2, <2>2
  <2> QED
    BY <1>4, <1>5, <1>6, <1>9, <2>3, <2>4
<1>16. ASSUME NEW s \in Scans, Advances(s) PROVE v + b <= p
  <2>1. /\ s \in DOMAIN scan /\ scan' = [scan EXCEPT ![s] = scan[s] + 1]
        /\ toPeer' = toPeer /\ sending' = sending
        /\ asking' = asking \/ asking' = asking \cup {<<s, scan[s]>>}
    BY <1>16, Zenon DEF Advances
  <2>2. v = w /\ B \subseteq A \cup {<<s, scan[s]>>}
    BY <1>1, <1>2, <2>1
  <2>3. /\ scan[s] \in Nat /\ DOMAIN scan' = DOMAIN scan /\ scan'[s] = scan[s] + 1
        /\ \A r \in DOMAIN scan : r # s => scan'[r] = scan[r]
    <3>1. scan \in Seq(0 .. NumPieces) /\ NumPieces \in Nat
      BY SessionAssumption DEF ScanInv
    <3>2. scan \in [DOMAIN scan -> Nat]
      BY <3>1
    <3> QED
      BY <2>1, <3>2
  <2>4. CASE scan[s] = i
    <3>1. scan'[s] > i /\ ~(scan[s] > i)
      BY <1>7, <2>3, <2>4
    <3>2. Passed(scan', i) = Passed(scan, i) \cup {s} /\ s \notin Passed(scan, i)
      BY <2>1, <2>3, <3>1 DEF Passed
    <3>3. p = q + 1
      BY <1>1, <1>2, <1>4, <3>2, FS_AddElement
    <3>4. Askers(B, i) \in SUBSET (Askers(A, i) \cup {s})
      BY <2>2 DEF Askers
    <3>5. /\ IsFiniteSet(Askers(A, i) \cup {s})
          /\ Cardinality(Askers(A, i) \cup {s}) = IF s \in Askers(A, i) THEN a ELSE a + 1
      BY <1>1, <1>4, FS_AddElement
    <3>6. b <= Cardinality(Askers(A, i) \cup {s})
      BY <1>2, <3>4, <3>5, FS_Subset
    <3> QED
      BY <1>4, <1>5, <1>6, <2>2, <3>3, <3>5, <3>6
  <2>5. CASE scan[s] # i
    <3>1. scan'[s] > i <=> scan[s] > i
      BY <1>7, <2>3, <2>5
    <3>2. Passed(scan', i) = Passed(scan, i)
      BY <2>1, <2>3, <3>1 DEF Passed
    <3>3. Askers(B, i) \in SUBSET Askers(A, i)
      BY <2>2, <2>5 DEF Askers
    <3>4. b <= a
      BY <1>1, <1>2, <1>4, <3>3, FS_Subset
    <3> QED
      BY <1>1, <1>2, <1>4, <1>5, <1>6, <2>2, <3>2, <3>4
  <2> QED
    BY <2>4, <2>5
<1>17. ASSUME NEW s \in Scans, NEW j \in Pieces, Looks(s, j) PROVE v + b <= p
  <2>1. /\ <<s, j>> \in asking /\ asking' = asking \ {<<s, j>>} /\ toPeer' = toPeer /\ scan' = scan
        /\ sending' = sending \/ sending' = sending \cup {<<s, j>>}
    BY <1>17, Zenon DEF Looks
  <2>2. v = w /\ B \subseteq A /\ p = q
    BY <1>1, <1>2, <2>1
  <2> QED
    BY <1>4, <1>5, <1>6, <1>9, <2>2
<1>18. ASSUME NEW s \in Scans, NEW j \in Pieces, Asks(s, j) PROVE v + b <= p
  <2>1. PICK m \in FromClient \cap RequestsOf(j) : toPeer' = Append(toPeer, m)
    BY <1>18, Zenon DEF Asks
  <2>2. /\ <<s, j>> \in sending /\ sending' = sending \ {<<s, j>>}
        /\ asking' = asking /\ scan' = scan
    BY <1>18, Zenon DEF Asks
  <2>3. p = q /\ B \subseteq A
    BY <1>1, <1>2, <2>2
  <2>4. CASE j = i
    <3>1. v = w + 1
      BY <1>5, <1>10, <2>1, <2>4
    <3>2. <<s, i>> \in A /\ B = A \ {<<s, i>>}
      BY <1>1, <1>2, <2>2, <2>4 DEF AskInv
    <3>3. Askers(B, i) = Askers(A, i) \ {s} /\ s \in Askers(A, i)
      BY <3>2 DEF Askers
    <3>4. b = a - 1
      BY <1>1, <1>2, <1>4, <3>3, FS_RemoveElement
    <3> QED
      BY <1>4, <1>5, <1>6, <2>3, <3>1, <3>4
  <2>5. CASE j # i
    <3>1. m \notin RequestsOf(i)
      BY <2>1, <2>5 DEF RequestsOf
    <3>2. v = w
      BY <1>5, <1>10, <2>1, <3>1
    <3> QED
      BY <1>4, <1>5, <1>6, <1>9, <2>3, <3>2
  <2> QED
    BY <2>4, <2>5
<1>19. ASSUME NEW s \in Scans, NEW j \in Pieces, Drops(s, j) PROVE v + b <= p
  <2>1. toPeer' = toPeer /\ asking' = asking /\ sending' \subseteq sending /\ scan' = scan
    BY <1>19 DEF Drops
  <2>2. v = w /\ B \subseteq A /\ p = q
    BY <1>1, <1>2, <2>1
  <2> QED
    BY <1>4, <1>5, <1>6, <1>9, <2>2
<1> QED
  BY <1>11, <1>12, <1>13, <1>14, <1>15, <1>16, <1>17, <1>18, <1>19, Zenon DEF Move

-----------------------------------------------------------------------------
(* The theorems.                                                           *)

\* The invariant holds on a new connection.
LEMMA InitInv == Init => Inv
<1> SUFFICES ASSUME Init PROVE Inv
  OBVIOUS
<1>1. toClient = <<>> /\ toPeer = <<>> /\ scan = <<>> /\ asking = {} /\ sending = {}
  BY DEF Init
<1>2. WireInv
  BY <1>1 DEF WireInv
<1>3. ClientInv
  BY DEF Init, ClientInv
<1>4. PeerInv
  BY SessionAssumption DEF Init, PeerInv
<1>5. FlagInv
  BY Zenon DEF Init, FlagInv
<1>6. ScanInv
  <2>1. Cardinality(Places(<<>>, Unchokes)) = 0
    BY PlacesOfEmpty
  <2>2. pUnchokes = 0
    BY DEF Init
  <2> QED
    BY <1>1, <2>1, <2>2 DEF ScanInv
<1>7. AskInv
  BY <1>1 DEF AskInv
<1>8. CountInv
  <2> SUFFICES ASSUME NEW i \in Pieces
               PROVE  Cardinality(Places(toPeer, RequestsOf(i)))
                        + Cardinality(Askers(asking \cup sending, i))
                          <= Cardinality(Passed(scan, i))
    BY DEF CountInv
  <2>1. Cardinality(Places(<<>>, RequestsOf(i))) = 0
    BY PlacesOfEmpty
  <2>2. Askers(asking \cup sending, i) = {} /\ Passed(scan, i) = {}
    BY <1>1 DEF Askers, Passed
  <2>3. Cardinality({}) = 0
    BY FS_EmptySet
  <2>4. Cardinality(Places(toPeer, RequestsOf(i))) = 0
    BY <1>1, <2>1
  <2>5. Cardinality(Askers(asking \cup sending, i)) = 0 /\ Cardinality(Passed(scan, i)) = 0
    BY <2>2, <2>3
  <2> QED
    BY <2>4, <2>5
<1> QED
  BY <1>2, <1>3, <1>4, <1>5, <1>6, <1>7, <1>8 DEF Inv

\* The inductive invariant holds in every state.
LEMMA Invariance == Spec => []Inv
<1>1. ASSUME Inv, [Next]_vars PROVE Inv'
  <2>1. Move
    BY <1>1, StepCases DEF Inv
  <2>2. WireInv' /\ ClientInv' /\ PeerInv' /\ FlagInv'
    BY <1>1, <2>1, WireStep, ClientStep, PeerInvStep, FlagStep DEF Inv
  <2>3. ScanInv' /\ AskInv' /\ CountInv'
    BY <1>1, <2>1, ScanStep, AskStep, CountStep DEF Inv
  <2> QED
    BY <2>2, <2>3 DEF Inv
<1> QED
  BY <1>1, InitInv, PTL DEF Spec

\* Type correctness: in particular requestPieces never looks past the last
\* piece, and is started no more often than the peer unchokes the client.
THEOREM SessionTypes == Spec => []TypeOK
<1>1. Inv => TypeOK
  <2> SUFFICES ASSUME Inv PROVE TypeOK
    OBVIOUS
  <2> USE DEF Inv
  <2>1. closed \in BOOLEAN /\ Choked \in BOOLEAN /\ Interested \in BOOLEAN
        /\ pChoking \in BOOLEAN /\ pSilent \in BOOLEAN
    BY Zenon DEF FlagInv
  <2>2. ToSet(toClient) \subseteq Messages /\ ToSet(toPeer) \subseteq Messages
    <3>1. ToSet(toClient) \subseteq FromPeer /\ ToSet(toPeer) \subseteq FromClient
      BY ElementsIn DEF WireInv
    <3> QED
      BY <3>1 DEF FromPeer, FromClient
  <2>3. /\ total \in Totals /\ pHas \subseteq Pieces
        /\ pUnchokes \in 0 .. MaxUnchokes /\ pMessages \in 0 .. MaxMessages
    BY DEF PeerInv
  <2>4. /\ Bitfield \in (SUBSET Pieces) \cup {NoBitfield} /\ Downloaded \subseteq Pieces
        /\ asking \subseteq Scans \X Pieces /\ sending \subseteq Scans \X Pieces
        /\ serving \subseteq Pieces /\ wanted \subseteq Pieces /\ refused \subseteq Pieces
    BY <2>3 DEF ClientInv, NonEmpty
  <2>5. scan \in Seq(0 .. NumPieces) /\ Len(scan) <= MaxUnchokes
    <3>1. Cardinality(Places(toClient, Unchokes)) \in Nat
      BY PlacesAreFinite DEF WireInv
    <3>2. /\ scan \in Seq(0 .. NumPieces) /\ Len(scan) \in Nat
          /\ Len(scan) + Cardinality(Places(toClient, Unchokes)) <= pUnchokes
      BY DEF ScanInv
    <3>3. Len(scan) <= MaxUnchokes
      BY <2>3, <3>1, <3>2, SessionAssumption
    <3> QED
      BY <3>2, <3>3
  <2> QED
    BY <2>1, <2>2, <2>3, <2>4, <2>5, Zenon DEF TypeOK
<1> QED
  BY <1>1, Invariance, PTL

\* Every request that requestPiece sends is one the peer can answer: for a
\* piece it has, not empty and inside the torrent, and the requests for a
\* piece under way or pending are no more than the scans that were started.
THEOREM RequestsAreExact == Spec => []RequestsExact
<1>1. Inv => RequestsExact
  <2> SUFFICES ASSUME Inv PROVE RequestsExact
    OBVIOUS
  <2> USE DEF Inv
  <2>1. ASSUME NEW m \in ToSet(toPeer), m.type = "request"
        PROVE  /\ m.piece \in pHas
               /\ m.length > 0 /\ m.piece * PieceLength + m.begin + m.length <= total
    <3>1. m \in FromClient
      BY <2>1, ElementsIn DEF WireInv
    <3>2. PICK i, n : i = m.piece /\ n = calculatePieceLength(i)
      OBVIOUS
    <3>3. i \in pHas /\ i \in NonEmpty /\ m.begin = 0 /\ m.length = n
      BY <2>1, <3>1, <3>2 DEF FromClient
    <3>4. i \in Pieces /\ n > 0
      BY <3>2, <3>3 DEF NonEmpty
    <3>5. /\ n \in 0 .. PieceLength /\ i * PieceLength \in Nat /\ total \in Nat
          /\ i * PieceLength + n <= total
      BY <3>2, <3>4, PieceLengths
    <3> QED
      BY <3>2, <3>3, <3>4, <3>5
  <2>2. ASSUME NEW i \in Pieces
        PROVE  Cardinality({j \in DOMAIN toPeer : toPeer[j].type = "request" /\ toPeer[j].piece = i})
                 + Cardinality({s \in Scans : <<s, i>> \in asking \cup sending}) <= Len(scan)
    <3>1. {j \in DOMAIN toPeer : toPeer[j].type = "request" /\ toPeer[j].piece = i}
             = Places(toPeer, RequestsOf(i))
      <4>1. \A j \in DOMAIN toPeer : toPeer[j] \in Messages
        BY DEF WireInv, FromClient
      <4> QED
        BY <4>1 DEF Places, RequestsOf
    <3>2. {s \in Scans : <<s, i>> \in asking \cup sending} = Askers(asking \cup sending, i)
      BY DEF Askers
    <3>3. PICK w, a, q : /\ w = Cardinality(Places(toPeer, RequestsOf(i)))
                         /\ a = Cardinality(Askers(asking \cup sending, i))
                         /\ q = Cardinality(Passed(scan, i))
      OBVIOUS
    <3>4. w + a <= q
      BY <3>3 DEF CountInv
    <3>5. w \in Nat
      BY <3>3, PlacesAreFinite DEF WireInv
    <3>6. a \in Nat /\ q \in Nat /\ q <= Len(scan) /\ Len(scan) \in Nat
      BY <3>3, CountsAreFinite DEF ScanInv
    <3>7. w + a <= Len(scan)
      BY <3>4, <3>5, <3>6
    <3> QED
      BY <3>1, <3>2, <3>3, <3>7
  <2> QED
    BY <2>1, <2>2 DEF RequestsExact
<1> QED
  BY <1>1, Invariance, PTL
=============================================================================
