---------------------------- MODULE PeerSession ----------------------------
(***************************************************************************)
(* The messages of one connection: handlePeer of internal/torrent, the     *)
(* goroutines it starts (requestPieces, requestPiece, handlePieceRequest)  *)
(* and ReadMessage and SendMessage of internal/peer.  The handler reads    *)
(* one message after the other while the goroutines scan the bitfield and  *)
(* send; handlers of other connections finish pieces meanwhile.            *)
(*                                                                         *)
(* The peer is external.  It sends its bitfield first if at all, Have for  *)
(* what it gets later, drops requests while it chokes and answers the      *)
(* others in order, well or badly.  Either side may end the connection.    *)
(***************************************************************************)
EXTENDS Integers, Sequences, SequencesExt, FiniteSets

CONSTANTS
    NumPieces,    \* len(t.Pieces)
    PieceLength,  \* MetaInfo.Info.PieceLength, and t.PieceSize
    Totals,       \* MetaInfo.TotalLength(), one of these
    NoBitfield,   \* the nil Bitfield
    MaxUnchokes,  \* bound on the Unchokes of the peer
    MaxMessages,  \* bound on the other messages it sends unasked
    MaxWire       \* messages to the client that may be under way

Pieces    == 0 .. NumPieces - 1
LastPiece == NumPieces - 1
Scans     == 1 .. MaxUnchokes

ASSUME SessionAssumption ==
    /\ NumPieces \in Nat \ {0} /\ PieceLength \in Nat \ {0}
    /\ \A n \in Totals : n \in Nat /\ LastPiece * PieceLength <= n /\ n <= NumPieces * PieceLength
    /\ MaxUnchokes \in Nat /\ MaxMessages \in Nat /\ MaxWire \in Nat \ {0}

VARIABLES
    total,       \* the torrent's length
    closed,      \* the connection has ended
    toClient, toPeer,  \* messages under way
    Choked, Interested, Bitfield,  \* of the Peer struct
    Downloaded,  \* pieces whose flag is set
    scan,        \* the index each requestPieces has come to
    asking,      \* requestPiece goroutines: <<scan, piece>>
    sending,     \* those that have found the piece missing
    serving,     \* handlePieceRequest goroutines, by piece
    pHas,        \* the peer: its pieces,
    pChoking,    \*   whether it chokes the client,
    pSilent,     \*   whether it has not sent anything yet,
    pUnchokes, pMessages,  \* what it has sent
    wanted,      \* history: missing pieces on offer when an Unchoke was read
    refused      \* history: those of them that an error has lost since then

clientVars == <<Choked, Interested, Bitfield, Downloaded>>
goVars     == <<scan, asking, sending, serving>>
peerVars   == <<pHas, pChoking, pSilent, pUnchokes, pMessages>>
histVars   == <<wanted, refused>>
vars == <<total, closed, toClient, toPeer, clientVars, goVars, peerVars, histVars>>

calculatePieceLength(i) ==
    IF i = LastPiece THEN total % PieceLength ELSE PieceLength

\* verifyPiece hashes as many bytes as calculatePieceLength says: it can only
\* succeed if that is what the piece holds, which is not so of a last piece
\* that is full.
Content(i) == IF i = LastPiece THEN total - LastPiece * PieceLength ELSE PieceLength
Verifiable(i) == calculatePieceLength(i) = Content(i)

Msg(type)          == [type |-> type]
Have(i)            == [type |-> "have", piece |-> i]
BitfieldMsg(S)     == [type |-> "bitfield", pieces |-> S]
Request(i, b, n)   == [type |-> "request", piece |-> i, begin |-> b, length |-> n]
PieceMsg(i, good)  == [type |-> "piece", piece |-> i, good |-> good]

Init ==
    /\ total \in Totals
    /\ closed = FALSE
    /\ toClient = <<>> /\ toPeer = <<>>
    /\ Choked = TRUE /\ Interested = FALSE /\ Bitfield = NoBitfield /\ Downloaded = {}
    /\ scan = <<>> /\ asking = {} /\ sending = {} /\ serving = {}
    /\ pHas \in SUBSET Pieces
    /\ pChoking = TRUE /\ pSilent = TRUE /\ pUnchokes = 0 /\ pMessages = 0
    /\ wanted = {} /\ refused = {}

\* An error loses the piece, if it was on offer.
Loses(i) == refused' = refused \cup ({i} \cap wanted)

-----------------------------------------------------------------------------
(* The peer (external).                                                    *)

PeerSends(m) ==
    /\ ~closed /\ Len(toClient) < MaxWire
    /\ toClient' = Append(toClient, m)
    /\ pSilent' = FALSE
    /\ UNCHANGED <<total, closed, clientVars, goVars, wanted>>

Unasked == pMessages < MaxMessages /\ pMessages' = pMessages + 1

PeerBitfield ==
    /\ pSilent /\ pHas # {}
    /\ PeerSends(BitfieldMsg(pHas))
    /\ UNCHANGED <<toPeer, pHas, pChoking, pUnchokes, pMessages, refused>>

PeerHave(i) ==
    /\ i \notin pHas /\ Unasked
    /\ pHas' = pHas \cup {i}
    /\ PeerSends(Have(i))
    /\ UNCHANGED <<toPeer, pChoking, pUnchokes, refused>>

PeerUnchoke ==
    /\ pUnchokes < MaxUnchokes
    /\ pUnchokes' = pUnchokes + 1 /\ pChoking' = FALSE
    /\ PeerSends(Msg("unchoke"))
    /\ UNCHANGED <<toPeer, pHas, pMessages, refused>>

PeerChoke ==
    /\ ~pChoking
    /\ pChoking' = TRUE
    /\ PeerSends(Msg("choke"))
    /\ UNCHANGED <<toPeer, pHas, pUnchokes, pMessages, refused>>

\* Messages that tell the client nothing it uses.
PeerChats ==
    /\ Unasked
    /\ \E type \in {"interested", "notInterested", "keepAlive", "cancel"} :
          PeerSends(Msg(type))
    /\ UNCHANGED <<toPeer, pHas, pChoking, pUnchokes, refused>>

PeerRequest(i) ==
    /\ Unasked
    /\ PeerSends(Request(i, 0, calculatePieceLength(i)))
    /\ UNCHANGED <<toPeer, pHas, pChoking, pUnchokes, refused>>

\* A piece that nobody asked for.
PeerPiece(i) ==
    /\ Unasked
    /\ \E good \in BOOLEAN : PeerSends(PieceMsg(i, good))
    /\ UNCHANGED <<toPeer, pHas, pChoking, pUnchokes, refused>>

\* The next message of the client: a request is answered, or dropped while
\* the peer chokes; a block is what the peer asked for.
PeerReads ==
    /\ toPeer # <<>> /\ ~closed /\ Len(toClient) < MaxWire
    /\ toPeer' = Tail(toPeer)
    /\ LET m == Head(toPeer)
       IN  \/ /\ m.type = "request" /\ ~pChoking
              /\ \E good \in BOOLEAN :
                    /\ toClient' = Append(toClient, PieceMsg(m.piece, good))
                    /\ IF good THEN UNCHANGED refused ELSE Loses(m.piece)
           \/ /\ m.type = "request" /\ pChoking
              /\ Loses(m.piece)
              /\ UNCHANGED toClient
           \/ m.type = "piece" /\ UNCHANGED <<toClient, refused>>
    /\ UNCHANGED <<total, closed, clientVars, goVars, pHas, pChoking, pSilent, pUnchokes,
                   pMessages, wanted>>

-----------------------------------------------------------------------------
(* handlePeer: one action per case of its switch.                          *)

\* ReadMessage returns a keep-alive as type 0, which is Choke.
TypeOf(m) == IF m.type = "keepAlive" THEN "choke" ELSE m.type

Reads(type) ==
    /\ ~closed /\ toClient # <<>> /\ TypeOf(Head(toClient)) = type
    /\ toClient' = Tail(toClient)
    /\ UNCHANGED <<total, closed, toPeer, asking, sending, peerVars>>

HandleChoke ==
    /\ Reads("choke")
    /\ Choked' = TRUE
    /\ UNCHANGED <<Interested, Bitfield, Downloaded, scan, serving, histVars>>

\* go requestPieces: it looks at the bitfield as it finds it.
HandleUnchoke ==
    /\ Reads("unchoke")
    /\ Choked' = FALSE
    /\ scan' = Append(scan, 0)
    /\ LET offered == IF Bitfield = NoBitfield THEN {}
                      ELSE Bitfield \ Downloaded
       IN  wanted' = wanted \cup offered /\ refused' = refused \ offered
    /\ UNCHANGED <<Interested, Bitfield, Downloaded, serving>>

HandleInterest ==
    /\ \/ Reads("interested") /\ Interested' = TRUE
       \/ Reads("notInterested") /\ Interested' = FALSE
    /\ UNCHANGED <<Choked, Bitfield, Downloaded, scan, serving, histVars>>

\* SetPiece on a nil bitfield does nothing.
HandleHave ==
    /\ Reads("have")
    /\ Bitfield' = IF Bitfield = NoBitfield THEN NoBitfield
                   ELSE Bitfield \cup {Head(toClient).piece}
    /\ UNCHANGED <<Choked, Interested, Downloaded, scan, serving, histVars>>

HandleBitfield ==
    /\ Reads("bitfield")
    /\ Bitfield' = Head(toClient).pieces
    /\ UNCHANGED <<Choked, Interested, Downloaded, scan, serving, histVars>>

HandleRequest ==
    /\ Reads("request")
    /\ serving' = serving \cup {Head(toClient).piece}
    /\ UNCHANGED <<clientVars, scan, histVars>>

\* processPiece: a whole piece that is missing and good is marked, unless the
\* disk fails it; what it does to the file and the counters is the subject
\* of Torrent.
HandlePiece ==
    /\ Reads("piece")
    /\ LET m    == Head(toClient)
           pass == m.good /\ Verifiable(m.piece) /\ m.piece \notin Downloaded
       IN  \/ pass /\ Downloaded' = Downloaded \cup {m.piece} /\ UNCHANGED refused
           \/ pass /\ UNCHANGED Downloaded /\ Loses(m.piece)
           \/ ~pass /\ UNCHANGED <<Downloaded, refused>>
    /\ UNCHANGED <<Choked, Interested, Bitfield, scan, serving, wanted>>

HandleCancel == Reads("cancel") /\ UNCHANGED <<clientVars, scan, serving, histVars>>

\* The peer leaves, or is silent for longer than the read deadline, or the
\* context is done.  What is under way is lost, and the goroutines that are
\* still there can no longer send anything.
Ends ==
    /\ ~closed
    /\ closed' = TRUE
    /\ toClient' = <<>> /\ toPeer' = <<>>
    /\ scan' = <<>> /\ asking' = {} /\ sending' = {} /\ serving' = {}
    /\ UNCHANGED <<total, clientVars, peerVars, histVars>>

-----------------------------------------------------------------------------
(* The goroutines.                                                         *)

\* requestPieces looks at one piece.  The mutant does not look at the
\* bitfield.
WantsAny(i) == i \notin Downloaded
Wants(i) == i \notin Downloaded /\ Bitfield # NoBitfield /\ i \in Bitfield

\* The loop over t.Pieces, and a mutant that goes one too far.
ScansTooFar(s) == scan[s] <= NumPieces
Scanning(s) == scan[s] < NumPieces

requestPieces(s) ==
    /\ s \in DOMAIN scan /\ Scanning(s)
    /\ asking' = IF Wants(scan[s]) THEN asking \cup {<<s, scan[s]>>} ELSE asking
    /\ scan' = [scan EXCEPT ![s] = scan[s] + 1]
    /\ UNCHANGED <<total, closed, toClient, toPeer, clientVars, sending, serving, peerVars,
                   histVars>>

\* Mutant of Needed: it heeds the flag that keep-alives set, too.
NeededUnchoked(i) == i \notin Downloaded /\ calculatePieceLength(i) > 0 /\ ~Choked
Needed(i) == i \notin Downloaded /\ calculatePieceLength(i) > 0

\* requestPiece looks again, and then sends; a piece of length 0 gives its
\* loop no round, and no piece more than one.
requestPiece(s, i) ==
    /\ <<s, i>> \in asking
    /\ asking' = asking \ {<<s, i>>}
    /\ sending' = IF Needed(i) THEN sending \cup {<<s, i>>} ELSE sending
    /\ UNCHANGED <<total, closed, toClient, toPeer, clientVars, scan, serving, peerVars,
                   histVars>>

\* A write that fails leaves the connection as it is.  One that was cut short
\* puts the stream out of step, and the peer Ends the connection.
SendMessage(m) == toPeer' = Append(toPeer, m)
SendFails == UNCHANGED toPeer

SendRequest(s, i) ==
    /\ <<s, i>> \in sending
    /\ sending' = sending \ {<<s, i>>}
    /\ \/ SendMessage(Request(i, 0, calculatePieceLength(i))) /\ UNCHANGED refused
       \/ SendFails /\ Loses(i)
    /\ UNCHANGED <<total, closed, toClient, clientVars, scan, asking, serving, peerVars,
                   wanted>>

\* The block is read from the files, whether the piece is verified or not;
\* if it cannot be read nothing is sent.
handlePieceRequest(i) ==
    /\ i \in serving
    /\ serving' = serving \ {i}
    /\ SendMessage(PieceMsg(i, i \in Downloaded)) \/ SendFails
    /\ UNCHANGED <<total, closed, toClient, clientVars, scan, asking, sending, peerVars,
                   histVars>>

\* The handler of another connection has finished piece i.
OtherPeer(i) ==
    /\ i \notin Downloaded /\ Verifiable(i) /\ ~closed
    /\ Downloaded' = Downloaded \cup {i}
    /\ UNCHANGED <<total, closed, toClient, toPeer, Choked, Interested, Bitfield, goVars,
                   peerVars, histVars>>

-----------------------------------------------------------------------------

Handle ==
    \/ HandleChoke \/ HandleUnchoke \/ HandleInterest \/ HandleHave \/ HandleBitfield
    \/ HandleRequest \/ HandlePiece \/ HandleCancel

Goroutines ==
    \/ \E s \in Scans : requestPieces(s)
    \/ \E s \in Scans, i \in Pieces : requestPiece(s, i) \/ SendRequest(s, i)
    \/ \E i \in Pieces : handlePieceRequest(i)

PeerActs ==
    \/ PeerBitfield \/ PeerUnchoke \/ PeerChoke \/ PeerChats
    \/ \E i \in Pieces : PeerHave(i) \/ PeerRequest(i) \/ PeerPiece(i)

Finished == closed /\ UNCHANGED vars

Next ==
    \/ Handle \/ Goroutines \/ PeerActs \/ PeerReads \/ Ends
    \/ \E i \in Pieces : OtherPeer(i)
    \/ Finished

Spec == Init /\ [][Next]_vars

(***************************************************************************)
(* Fairness.  The handler reads what has arrived and goroutines run; a     *)
(* peer that stays connected reads its messages.  Nothing makes the peer   *)
(* send anything unasked.                                                  *)
(***************************************************************************)
Fairness == WF_vars(Handle) /\ WF_vars(Goroutines) /\ WF_vars(PeerReads)

FairSpec == Spec /\ Fairness

-----------------------------------------------------------------------------
(* Properties.                                                             *)

Messages ==
    {Msg(t) : t \in {"choke", "unchoke", "interested", "notInterested", "keepAlive",
                     "cancel"}}
    \cup {Have(i) : i \in Pieces} \cup {BitfieldMsg(S) : S \in SUBSET Pieces}
    \cup {Request(i, 0, n) : i \in Pieces, n \in 0 .. PieceLength}
    \cup {PieceMsg(i, good) : i \in Pieces, good \in BOOLEAN}

TypeOK ==
    /\ total \in Totals /\ closed \in BOOLEAN
    /\ ToSet(toClient) \subseteq Messages /\ ToSet(toPeer) \subseteq Messages
    /\ Choked \in BOOLEAN /\ Interested \in BOOLEAN
    /\ Bitfield \in (SUBSET Pieces) \cup {NoBitfield} /\ Downloaded \subseteq Pieces
    /\ scan \in Seq(0 .. NumPieces) /\ Len(scan) <= MaxUnchokes
    /\ asking \subseteq Scans \X Pieces /\ sending \subseteq Scans \X Pieces
    /\ serving \subseteq Pieces
    /\ pHas \subseteq Pieces /\ pChoking \in BOOLEAN /\ pSilent \in BOOLEAN
    /\ pUnchokes \in 0 .. MaxUnchokes /\ pMessages \in 0 .. MaxMessages
    /\ wanted \subseteq Pieces /\ refused \subseteq Pieces

(***************************************************************************)
(* A request on the wire is one the peer can answer: not empty, inside the *)
(* piece, and of a piece the peer has told the client it has, however the  *)
(* scan of the bitfield met the messages that were changing it; and the    *)
(* requests for a piece that are under way or about to be sent are never   *)
(* more than the scans that Unchokes have started.                         *)
(***************************************************************************)
RequestsExact ==
    /\ \A m \in ToSet(toPeer) : m.type = "request" =>
          /\ m.piece \in pHas
          /\ m.length > 0 /\ m.piece * PieceLength + m.begin + m.length <= total
    /\ \A i \in Pieces :
          Cardinality({j \in DOMAIN toPeer : toPeer[j].type = "request" /\ toPeer[j].piece = i})
            + Cardinality({s \in Scans : <<s, i>> \in asking \cup sending}) <= Len(scan)

(***************************************************************************)
(* A missing piece that the peer offered when it unchoked the client does  *)
(* arrive, whatever keep-alives, Haves, requests, unasked pieces and       *)
(* pieces finished elsewhere come between: unless the peer drops or spoils *)
(* it, the write of the request fails, processPiece meets a disk error or  *)
(* the connection ends.  A last piece that calculatePieceLength takes for  *)
(* empty, in a torrent of full pieces, is never requested.                 *)
(***************************************************************************)
OfferedArrives ==
    \A i \in Pieces : (i \in wanted /\ calculatePieceLength(i) > 0)
                         ~> (i \in Downloaded \/ i \in refused \/ closed)
=============================================================================
