------------------------------ MODULE Tracker ------------------------------
(***************************************************************************)
(* internal/tracker: MultiTracker.Announce asks the trackers one after the *)
(* other and merges their answers.  A UDP tracker is asked in two          *)
(* exchanges, connect and announce, tried MaxRetries times; an HTTP        *)
(* tracker in one request.                                                 *)
(*                                                                         *)
(* announceWithRetry and every requestMorePeers call Announce from a       *)
(* goroutine of its own, so calls overlap, and those of one tracker share  *)
(* its UDP socket and with it the read deadline.  A socket lets one reader *)
(* in at a time.                                                           *)
(*                                                                         *)
(* The network may lose, delay, reorder and repeat datagrams: a reader may *)
(* get a reply to any request that was ever sent on its socket.  A request *)
(* is told from every other one by its transaction id.                     *)
(***************************************************************************)
EXTENDS Integers, Sequences, SequencesExt, FiniteSets

CONSTANTS
    Calls,       \* calls of MultiTracker.Announce
    Trackers,    \* mt.trackers: the scheme of each, "udp", "http" or "other"
    MaxRetries,  \* tries of udpAnnounce (3 in the code)
    Answers,     \* lists of compact entries that trackers send
    Partial,     \* an entry cut short, at the end of a list
    NoCall

ASSUME CallsAssumption ==
    /\ NoCall \notin Calls
    /\ Trackers \in Seq({"udp", "http", "other"})
    /\ MaxRetries \in Nat \ {0}

\* An answer is a string of bytes: only its last entry can be incomplete.
ASSUME AnswersAssumption ==
    \A bin \in Answers :
        bin \in Seq(ToSet(bin)) /\ \A n \in 1 .. Len(bin) - 1 : bin[n] # Partial

VARIABLES
    pc,        \* where each call is
    tr,        \* the tracker it asks
    try,       \* its try with a UDP tracker, from 0
    cid,       \* the connection id of this try; NoCid if it failed
    allPeers,  \* the peers it has gathered
    lastErr,   \* some tracker failed
    ret,       \* what it returned
    deadline,  \* read deadline of each socket: "none", "set" or "passed"
    reader,    \* the call that is inside Read on each socket
    sent,      \* requests ever sent on each socket
    took,      \* history: the requests whose answers it took
    won,       \* history: the lists it took
    shared     \* history: another call ran at the same time

callVars == <<pc, tr, try, cid, allPeers, lastErr, ret>>
sockVars == <<deadline, reader, sent>>
histVars == <<took, won, shared>>
vars == <<callVars, sockVars, histVars>>

NoCid == <<NoCall, 0>>

\* The transaction of a call's present try, and the connection id that a
\* tracker gives to a connect request.
Txid(c) == <<c, try[c]>>

ConnectRequest(c)  == [kind |-> "connect", txid |-> Txid(c), cid |-> NoCid]
AnnounceRequest(c) == [kind |-> "announce", txid |-> Txid(c), cid |-> cid[c]]

Init ==
    /\ pc = [c \in Calls |-> "idle"]
    /\ tr = [c \in Calls |-> 1] /\ try = [c \in Calls |-> 0]
    /\ cid = [c \in Calls |-> NoCid]
    /\ allPeers = [c \in Calls |-> <<>>] /\ lastErr = [c \in Calls |-> FALSE]
    /\ ret = [c \in Calls |-> [ok |-> FALSE, peers |-> <<>>]]
    /\ deadline = [t \in DOMAIN Trackers |-> "none"]
    /\ reader = [t \in DOMAIN Trackers |-> NoCall]
    /\ sent = [t \in DOMAIN Trackers |-> {}]
    /\ took = [c \in Calls |-> {}] /\ won = [c \in Calls |-> {}]
    /\ shared = [c \in Calls |-> FALSE]

Goto(c, l) == pc' = [pc EXCEPT ![c] = l]

Running(c) == pc[c] \notin {"idle", "done"}

\* The present tracker has failed, or answered with the list bin.
parsePeers(bin) == IF bin # <<>> /\ Last(bin) = Partial THEN Front(bin) ELSE bin

TrackerFails(c) ==
    /\ lastErr' = [lastErr EXCEPT ![c] = TRUE]
    /\ tr' = [tr EXCEPT ![c] = tr[c] + 1]
    /\ Goto(c, "next")
    /\ UNCHANGED <<allPeers, won>>

TrackerAnswers(c, bin) ==
    /\ allPeers' = [allPeers EXCEPT ![c] = allPeers[c] \o parsePeers(bin)]
    /\ won' = [won EXCEPT ![c] = won[c] \cup {bin}]
    /\ tr' = [tr EXCEPT ![c] = tr[c] + 1]
    /\ Goto(c, "next")
    /\ UNCHANGED lastErr

-----------------------------------------------------------------------------
(* MultiTracker.Announce.                                                  *)

Start(c) ==
    /\ pc[c] = "idle"
    /\ Goto(c, "next")
    /\ shared' = [d \in Calls |->
                     \/ shared[d]
                     \/ d # c /\ Running(d)
                     \/ d = c /\ \E e \in Calls : Running(e)]
    /\ UNCHANGED <<tr, try, cid, allPeers, lastErr, ret, sockVars, took, won>>

\* Tracker.announce chooses by the scheme of the URL.
announce(c) ==
    /\ pc[c] = "next" /\ tr[c] <= Len(Trackers)
    /\ \/ /\ Trackers[tr[c]] = "udp"
          /\ try' = [try EXCEPT ![c] = 0]
          /\ Goto(c, "connect")
          /\ UNCHANGED <<tr, lastErr, allPeers, won>>
       \/ /\ Trackers[tr[c]] = "http"
          /\ Goto(c, "http")
          /\ UNCHANGED <<tr, try, lastErr, allPeers, won>>
       \/ /\ Trackers[tr[c]] = "other"
          /\ TrackerFails(c)
          /\ UNCHANGED try
    /\ UNCHANGED <<cid, ret, sockVars, took, shared>>

uniquePeers(peers) ==
    LET unique[n \in 0 .. Len(peers)] ==
            IF n = 0 THEN <<>>
            ELSE IF peers[n] \in ToSet(unique[n - 1]) THEN unique[n - 1]
                 ELSE Append(unique[n - 1], peers[n])
    IN  unique[Len(peers)]

\* Mutant of Result: an error whenever some tracker failed.
ResultFailsOnAnyError(c) ==
    IF lastErr[c] THEN [ok |-> FALSE, peers |-> <<>>]
    ELSE [ok |-> TRUE, peers |-> uniquePeers(allPeers[c])]

Result(c) ==
    LET unique == uniquePeers(allPeers[c])
    IN  IF unique = <<>> /\ lastErr[c] THEN [ok |-> FALSE, peers |-> <<>>]
        ELSE [ok |-> TRUE, peers |-> unique]

Return(c) ==
    /\ pc[c] = "next" /\ tr[c] > Len(Trackers)
    /\ ret' = [ret EXCEPT ![c] = Result(c)]
    /\ Goto(c, "done")
    /\ UNCHANGED <<tr, try, cid, allPeers, lastErr, sockVars, histVars>>

-----------------------------------------------------------------------------
(* httpAnnounce.  http.Get has no timeout: the answer may never come.      *)

httpAnswers(c) ==
    /\ pc[c] = "http"
    /\ \E bin \in Answers : TrackerAnswers(c, bin)
    /\ UNCHANGED <<try, cid, ret, sockVars, took, shared>>

\* The request or the reading fails, the body is not a dictionary, it has a
\* failure reason, or its peers are not a string.
httpFails(c) ==
    /\ pc[c] = "http"
    /\ TrackerFails(c)
    /\ UNCHANGED <<try, cid, ret, sockVars, took, shared>>

-----------------------------------------------------------------------------
(* udpConnect and udpAnnounceRequest.                                      *)

\* Sets the socket's deadline and sends a request; nothing between the two
\* depends on what other calls do meanwhile.
SetDeadlineAndWrite(c, request, reading) ==
    /\ deadline' = [deadline EXCEPT ![tr[c]] = "set"]
    /\ sent' = [sent EXCEPT ![tr[c]] = sent[tr[c]] \cup {request}]
    /\ Goto(c, reading)

\* Mutant of the announce: it relies on the deadline of the connect.
WriteOnly(c, request, reading) ==
    /\ sent' = [sent EXCEPT ![tr[c]] = sent[tr[c]] \cup {request}]
    /\ Goto(c, reading)
    /\ UNCHANGED deadline

\* The Write fails: the deadline is set all the same.
WriteFails(c, then) ==
    /\ deadline' = [deadline EXCEPT ![tr[c]] = "set"]
    /\ Goto(c, then)
    /\ UNCHANGED sent

udpConnect(c) ==
    /\ pc[c] = "connect"
    /\ \/ SetDeadlineAndWrite(c, ConnectRequest(c), "connectRead")
       \/ WriteFails(c, "clear")
    /\ cid' = [cid EXCEPT ![c] = NoCid]
    /\ UNCHANGED <<tr, try, allPeers, lastErr, ret, reader, histVars>>

\* Mutant of udpAnnounceRequest: no deadline of its own.
udpAnnounceNoDeadline(c) ==
    /\ pc[c] = "announce"
    /\ WriteOnly(c, AnnounceRequest(c), "announceRead") \/ WriteFails(c, "sleep")
    /\ UNCHANGED <<tr, try, cid, allPeers, lastErr, ret, reader, histVars>>

udpAnnounceRequest(c) ==
    /\ pc[c] = "announce"
    /\ \/ SetDeadlineAndWrite(c, AnnounceRequest(c), "announceRead")
       \/ WriteFails(c, "sleep")
    /\ UNCHANGED <<tr, try, cid, allPeers, lastErr, ret, reader, histVars>>

Reading(c) == pc[c] \in {"connectRead", "announceRead"}
Inside(c)  == Reading(c) /\ reader[tr[c]] = c

EnterRead(c) ==
    /\ Reading(c) /\ reader[tr[c]] = NoCall
    /\ reader' = [reader EXCEPT ![tr[c]] = c]
    /\ UNCHANGED <<callVars, deadline, sent, histVars>>

LeaveRead(c) == reader' = [reader EXCEPT ![tr[c]] = NoCall]

\* The deadline has passed, or the socket reports an error.
ReadFails(c) ==
    /\ Inside(c)
    /\ LeaveRead(c)
    /\ Goto(c, IF pc[c] = "connectRead" THEN "clear" ELSE "sleep")
    /\ UNCHANGED <<tr, try, cid, allPeers, lastErr, ret, deadline, sent, histVars>>

Timeout(c) == Inside(c) /\ deadline[tr[c]] = "passed" /\ ReadFails(c)

\* A reply to request r, of the action that kind names, is for call c.  The
\* mutants leave out the check of the transaction id.
IsConnectReply(c, r, kind) == kind = "connect"
IsMyConnect(c, r, kind)    == kind = "connect" /\ r.txid = Txid(c)

IsAnnounceReply(c, r, kind) == kind = "announce"
IsMyAnnounce(c, r, kind)    == kind = "announce" /\ r.txid = Txid(c)

\* What a tracker answers to request r: what was asked for, or an error.
Kinds(r) == {r.kind, "error"}

\* A datagram arrives: a reply to request r of any call.  One that is of the
\* wrong length, has another action or another transaction id ends the try.
ReadConnect(c, r, kind) ==
    /\ pc[c] = "connectRead" /\ deadline[tr[c]] # "passed"
    /\ LeaveRead(c)
    /\ cid' = [cid EXCEPT ![c] = IF IsMyConnect(c, r, kind) THEN r.txid ELSE NoCid]
    /\ Goto(c, "clear")
    /\ UNCHANGED <<tr, try, allPeers, lastErr, ret, deadline, sent, histVars>>

\* The deferred SetDeadline(time.Time{}): of the socket, whoever reads it.
ClearDeadline(c) ==
    /\ pc[c] = "clear"
    /\ deadline' = [deadline EXCEPT ![tr[c]] = "none"]
    /\ Goto(c, IF cid[c] = NoCid THEN "sleep" ELSE "announce")
    /\ UNCHANGED <<tr, try, cid, allPeers, lastErr, ret, reader, sent, histVars>>

ReadAnnounce(c, r, kind) ==
    /\ pc[c] = "announceRead" /\ deadline[tr[c]] # "passed"
    /\ LeaveRead(c)
    /\ IF IsMyAnnounce(c, r, kind)
       THEN /\ \E bin \in Answers : TrackerAnswers(c, bin)
            /\ took' = [took EXCEPT ![c] = took[c] \cup {<<tr[c], r>>}]
       ELSE /\ Goto(c, "sleep")
            /\ UNCHANGED <<tr, allPeers, lastErr, won, took>>
    /\ UNCHANGED <<try, cid, ret, deadline, sent, shared>>

Receive(c) ==
    /\ Inside(c)
    /\ \E r \in sent[tr[c]] : \E kind \in Kinds(r) :
          ReadConnect(c, r, kind) \/ ReadAnnounce(c, r, kind)

\* The sleep follows every failed try, the last one too.  The mutant tries
\* once too often.
RetriesOnceMore(c) == try[c] < MaxRetries
Retries(c) == try[c] + 1 < MaxRetries

SleepEnds(c) ==
    /\ pc[c] = "sleep"
    /\ IF Retries(c)
       THEN /\ try' = [try EXCEPT ![c] = try[c] + 1]
            /\ Goto(c, "connect")
            /\ UNCHANGED <<tr, allPeers, lastErr, won>>
       ELSE TrackerFails(c) /\ UNCHANGED try
    /\ UNCHANGED <<cid, ret, sockVars, took, shared>>

DeadlinePasses(t) ==
    /\ deadline[t] = "set"
    /\ deadline' = [deadline EXCEPT ![t] = "passed"]
    /\ UNCHANGED <<callVars, reader, sent, histVars>>

-----------------------------------------------------------------------------

\* Steps that a call takes by itself.
Advance(c) ==
    \/ announce(c) \/ udpConnect(c) \/ EnterRead(c) \/ Timeout(c) \/ ClearDeadline(c)
    \/ udpAnnounceRequest(c) \/ SleepEnds(c) \/ Return(c)

AllReturned == (\A c \in Calls : pc[c] = "done") /\ UNCHANGED vars

Next ==
    \/ \E c \in Calls : \/ Start(c) \/ Advance(c) \/ Receive(c) \/ ReadFails(c)
                        \/ httpAnswers(c) \/ httpFails(c)
    \/ \E t \in DOMAIN Trackers : DeadlinePasses(t)
    \/ AllReturned

Spec == Init /\ [][Next]_vars

(***************************************************************************)
(* Fairness.  A goroutine that can run does, a deadline that is set passes *)
(* and a read after it fails.  Nothing makes a datagram or an HTTP answer  *)
(* arrive.                                                                 *)
(***************************************************************************)
Fairness ==
    /\ \A c \in Calls : WF_vars(Advance(c))
    /\ \A t \in DOMAIN Trackers : WF_vars(DeadlinePasses(t))

FairSpec == Spec /\ Fairness

-----------------------------------------------------------------------------
(* Properties.                                                             *)

Peers == UNION {ToSet(parsePeers(bin)) : bin \in Answers}

Txids == Calls \X (0 .. MaxRetries - 1)

TypeOK ==
    /\ pc \in [Calls -> {"idle", "next", "http", "connect", "connectRead", "clear",
                         "announce", "announceRead", "sleep", "done"}]
    /\ tr \in [Calls -> 1 .. Len(Trackers) + 1]
    /\ try \in [Calls -> 0 .. MaxRetries - 1]
    /\ cid \in [Calls -> Txids \cup {NoCid}]
    /\ allPeers \in [Calls -> Seq(Peers)]
    /\ lastErr \in [Calls -> BOOLEAN]
    /\ ret \in [Calls -> [ok : BOOLEAN, peers : Seq(Peers)]]
    /\ deadline \in [DOMAIN Trackers -> {"none", "set", "passed"}]
    /\ reader \in [DOMAIN Trackers -> Calls \cup {NoCall}]
    /\ \A t \in DOMAIN Trackers : \A r \in sent[t] :
          r \in [kind : {"connect", "announce"}, txid : Txids, cid : Txids \cup {NoCid}]
    /\ \A c \in Calls : won[c] \subseteq Answers
    /\ shared \in [Calls -> BOOLEAN]

(***************************************************************************)
(* An answer that a call takes is the reply to its own last announce, made *)
(* with the connection id of the same try: neither a late reply to an      *)
(* earlier try nor one meant for another call on the socket is taken.      *)
(***************************************************************************)
OwnAnswer ==
    \A c \in Calls : \A a \in took[c] :
        LET r == a[2]
        IN  /\ r.txid[1] = c /\ r.cid = r.txid
            /\ \A s \in sent[a[1]] : s.txid[1] = c => s.txid[2] <= r.txid[2]

(***************************************************************************)
(* What a call returns is what the trackers that answered it gave, each    *)
(* peer once, whichever of the others failed and in whatever order; it is  *)
(* an error only if there is no peer at all.                               *)
(***************************************************************************)
Merged ==
    \A c \in Calls : pc[c] = "done" =>
        LET got == UNION {ToSet(parsePeers(bin)) : bin \in won[c]}
        IN  /\ ToSet(ret[c].peers) = got
            /\ Len(ret[c].peers) = Cardinality(got)
            /\ ~ret[c].ok => lastErr[c] /\ got = {}
            /\ won[c] = {} /\ Trackers # <<>> => ~ret[c].ok

(***************************************************************************)
(* A call that runs by itself returns, or waits for an HTTP tracker: no    *)
(* loss, delay or late reply of an earlier call holds it up, whatever that *)
(* call left the deadline at.                                              *)
(***************************************************************************)
AloneItReturns ==
    \A c \in Calls : pc[c] = "next" ~> (pc[c] \in {"done", "http"} \/ shared[c])

(***************************************************************************)
(* tracker.go:44, "Set a timeout for the connection attempt": an attempt   *)
(* to connect ends.                                                        *)
(***************************************************************************)
ConnectTimesOut == \A c \in Calls : pc[c] = "connectRead" ~> pc[c] # "connectRead"
=============================================================================
