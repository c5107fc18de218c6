---------------------------- MODULE TrackerProofs ----------------------------
(* Proofs about Tracker, for any calls, trackers, tries and answers.       *)
EXTENDS Tracker, InductionLemmas, SequenceLemmas, FiniteSetTheorems

-----------------------------------------------------------------------------
(* uniquePeers and parsePeers.                                             *)

\* The loop of uniquePeers, after each of its rounds.
UniqueUpTo(s) ==
    CHOOSE u : u = [n \in 0 .. Len(s) |->
                      IF n = 0 THEN <<>>
                      ELSE IF s[n] \in ToSet(u[n - 1]) THEN u[n - 1]
                           ELSE Append(u[n - 1], s[n])]

\* The loop has a value after every round.
LEMMA UniqueExists ==
  ASSUME NEW S, NEW s \in Seq(S)
  PROVE  LET u == UniqueUpTo(s)
         IN  /\ u \in [0 .. Len(s) -> Seq(S)] /\ u[0] = <<>>
             /\ \A n \in 1 .. Len(s) :
                   u[n] = IF s[n] \in ToSet(u[n - 1]) THEN u[n - 1]
                          ELSE Append(u[n - 1], s[n])
<1> DEFINE N == Len(s)
           F == [n \in 1 .. N |-> [x \in Seq(S) |->
                   IF s[n] \in ToSet(x) THEN x ELSE Append(x, s[n])]]
<1>1. N \in Nat /\ <<>> \in Seq(S)
  OBVIOUS
<1>2. F \in [1 .. N -> [Seq(S) -> Seq(S)]]
  <2>1. ASSUME NEW n \in 1 .. N, NEW x \in Seq(S)
        PROVE  (IF s[n] \in ToSet(x) THEN x ELSE Append(x, s[n])) \in Seq(S)
    <3>1. s[n] \in S
      OBVIOUS
    <3> HIDE DEF N
    <3> QED
      BY <3>1, ElementsOfAppend
  <2> QED
    BY <2>1
<1>3. PICK g \in [0 .. N -> Seq(S)] :
         g[0] = <<>> /\ \A n \in 1 .. N : g[n] = F[n][g[n - 1]]
  <2>1. PICK Q, e : Q = Seq(S) /\ e = <<>>
    OBVIOUS
  <2> HIDE DEF F, N
  <2>2. N \in Nat /\ e \in Q /\ F \in Steps(N, Q)
    BY <1>1, <1>2, <2>1 DEF Steps
  <2>3. \E g : Follows(g, N, Q, e, F)
    BY <2>2, RecursionUpTo, Zenon
  <2> QED
    BY <2>1, <2>3 DEF Follows
<1>4. ASSUME NEW n \in 1 .. N
      PROVE  g[n] = IF s[n] \in ToSet(g[n - 1]) THEN g[n - 1] ELSE Append(g[n - 1], s[n])
  <2>1. n - 1 \in 0 .. N
    BY <1>1
  <2>2. g[n - 1] \in Seq(S)
    BY <2>1
  <2> QED
    BY <1>3, <2>2
<1>5. g = [n \in 0 .. N |-> IF n = 0 THEN <<>>
                            ELSE IF s[n] \in ToSet(g[n - 1]) THEN g[n - 1]
                                 ELSE Append(g[n - 1], s[n])]
  <2>1. ASSUME NEW n \in 0 .. N
        PROVE  g[n] = IF n = 0 THEN <<>>
                      ELSE IF s[n] \in ToSet(g[n - 1]) THEN g[n - 1]
                           ELSE Append(g[n - 1], s[n])
    <3>1. n = 0 \/ n \in 1 .. N
      BY <1>1
    <3> QED
      BY <1>3, <1>4, <3>1
  <2> HIDE DEF N
  <2> QED
    BY <2>1
<1> DEFINE u == UniqueUpTo(s)
<1>6. u = [n \in 0 .. N |-> IF n = 0 THEN <<>>
                            ELSE IF s[n] \in ToSet(u[n - 1]) THEN u[n - 1]
                                 ELSE Append(u[n - 1], s[n])]
  BY <1>5 DEF UniqueUpTo
<1> HIDE DEF u
<1>7. u[0] = <<>>
  BY <1>1, <1>6
<1>8. ASSUME NEW n \in 1 .. N
      PROVE  u[n] = IF s[n] \in ToSet(u[n - 1]) THEN u[n - 1] ELSE Append(u[n - 1], s[n])
  <2>1. n \in 0 .. N /\ n # 0
    BY <1>1
  <2> QED
    BY <1>6, <2>1
<1> DEFINE T == {n \in 0 .. N : u[n] \in Seq(S)}
<1>9. 0 .. N \subseteq T
  <2>1. 0 \in T
    <3>1. 0 \in 0 .. N
      BY <1>1
    <3> HIDE DEF N
    <3> QED
      BY <1>1, <1>7, <3>1
  <2>2. ASSUME NEW n \in 0 .. N - 1, n \in T PROVE n + 1 \in T
    <3>1. n + 1 \in 1 .. N /\ (n + 1) - 1 = n /\ n + 1 \in 0 .. N
      BY <1>1
    <3>2. s[n + 1] \in S /\ u[n] \in Seq(S)
      BY <2>2, <3>1
    <3>3. Append(u[n], s[n + 1]) \in Seq(S)
      BY <3>2
    <3> QED
      BY <1>8, <3>1, <3>2, <3>3
  <2> HIDE DEF T, N
  <2> QED
    BY <1>1, <2>1, <2>2, InductionUpTo
<1>10. u \in [0 .. N -> Seq(S)]
  <2>1. \A n \in 0 .. N : u[n] \in Seq(S)
    BY <1>9
  <2>2. u = [n \in 0 .. N |-> u[n]]
    BY <1>6
  <2> QED
    BY <2>1, <2>2
<1> QED
  BY <1>7, <1>8, <1>10 DEF u

\* uniquePeers keeps every peer, and keeps it once.
LEMMA UniqueFacts ==
  ASSUME NEW S, NEW s \in Seq(S)
  PROVE  /\ uniquePeers(s) \in Seq(S) /\ ToSet(uniquePeers(s)) = ToSet(s)
         /\ Len(uniquePeers(s)) = Cardinality(ToSet(s))
<1> DEFINE N == Len(s)
<1>1. PICK u : /\ u = UniqueUpTo(s)
               /\ u \in [0 .. N -> Seq(S)] /\ u[0] = <<>>
               /\ \A n \in 1 .. N :
                     u[n] = IF s[n] \in ToSet(u[n - 1]) THEN u[n - 1]
                            ELSE Append(u[n - 1], s[n])
  BY UniqueExists
<1>2. uniquePeers(s) = u[N]
  BY <1>1 DEF uniquePeers, UniqueUpTo
<1>3. N \in Nat /\ \A n \in 1 .. N : s[n] \in S
  OBVIOUS
<1> DEFINE First(n) == {s[i] : i \in 1 .. n}
           T == {n \in 0 .. N : /\ ToSet(u[n]) = First(n) /\ IsFiniteSet(First(n))
                                /\ Len(u[n]) = Cardinality(First(n))}
<1>4. 0 \in T
  <2>1. First(0) = {}
    OBVIOUS
  <2>2. ToSet(u[0]) = {} /\ Len(u[0]) = 0
    BY <1>1, ElementsOfEmpty
  <2>3. IsFiniteSet({}) /\ Cardinality({}) = 0
    BY FS_EmptySet
  <2>4. 0 \in 0 .. N
    BY <1>3
  <2> QED
    BY <2>1, <2>2, <2>3, <2>4
<1>5. ASSUME NEW n \in 0 .. N - 1, n \in T PROVE n + 1 \in T
  <2>1. n + 1 \in 1 .. N /\ (n + 1) - 1 = n /\ n + 1 \in 0 .. N /\ n \in 0 .. N
    BY <1>3
  <2>2. PICK p : p = s[n + 1]
    OBVIOUS
  <2>3. p \in S /\ u[n] \in Seq(S)
    BY <1>1, <1>3, <2>1, <2>2
  <2>4. /\ ToSet(u[n]) = First(n) /\ IsFiniteSet(First(n))
        /\ Len(u[n]) = Cardinality(First(n))
    BY <1>5
  <2>5. First(n + 1) = First(n) \cup {p}
    <3>1. \A i : i \in 1 .. n + 1 <=> i \in 1 .. n \/ i = n + 1
      BY <2>1
    <3> QED
      BY <2>2, <3>1
  <2>6. u[n + 1] = IF p \in ToSet(u[n]) THEN u[n] ELSE Append(u[n], p)
    BY <1>1, <2>1, <2>2
  <2>7. CASE p \in First(n)
    <3>1. First(n + 1) = First(n) /\ u[n + 1] = u[n]
      BY <2>4, <2>5, <2>6, <2>7
    <3> QED
      BY <2>1, <2>4, <3>1
  <2>8. CASE p \notin First(n)
    <3> HIDE DEF First
    <3>1. u[n + 1] = Append(u[n], p)
      BY <2>4, <2>6, <2>8
    <3>2. ToSet(u[n + 1]) = First(n + 1)
      <4>1. ToSet(Append(u[n], p)) = ToSet(u[n]) \cup {p}
        BY <2>3, ElementsOfAppend
      <4> QED
        BY <2>4, <2>5, <3>1, <4>1
    <3>3. /\ IsFiniteSet(First(n) \cup {p})
          /\ Cardinality(First(n) \cup {p}) = Cardinality(First(n)) + 1
      BY <2>4, <2>8, FS_AddElement
    <3>4. Len(u[n + 1]) = Len(u[n]) + 1
      BY <2>3, <3>1
    <3> QED
      BY <2>1, <2>4, <2>5, <3>2, <3>3, <3>4
  <2> QED
    BY <2>7, <2>8
<1>6. N \in T
  <2>1. 0 .. N \subseteq T
    <3> HIDE DEF T, N
    <3> QED
      BY <1>3, <1>4, <1>5, InductionUpTo
  <2>2. N \in 0 .. N
    BY <1>3
  <2> QED
    BY <2>1, <2>2
<1>7. First(N) = ToSet(s)
  BY DEF ToSet
<1>8. u[N] \in Seq(S)
  BY <1>1, <1>3
<1> QED
  BY <1>2, <1>6, <1>7, <1>8

\* What is left of a list is a sequence of peers.
LEMMA ParsedFacts ==
  ASSUME NEW bin \in Answers
  PROVE  parsePeers(bin) \in Seq(Peers) /\ ToSet(parsePeers(bin)) \subseteq Peers
<1>1. bin \in Seq(ToSet(bin))
  BY AnswersAssumption
<1>2. parsePeers(bin) \in Seq(ToSet(bin))
  BY <1>1 DEF parsePeers, Front
<1>3. ToSet(parsePeers(bin)) \subseteq Peers
  BY DEF Peers
<1>4. parsePeers(bin) \in Seq(ToSet(parsePeers(bin)))
  BY <1>2, ElementsIn
<1> QED
  BY <1>3, <1>4
-----------------------------------------------------------------------------
(* The inductive invariant.                                                *)

Requests == [kind : {"connect", "announce"}, txid : Txids, cid : Txids \cup {NoCid}]

Udp == {"connect", "connectRead", "clear", "announce", "announceRead", "sleep"}

\* A call that talks to a tracker talks to one of the list.
AtTracker == \A c \in Calls : pc[c] \in Udp \cup {"http"} => tr[c] \in DOMAIN Trackers

\* The connection id that a call holds is that of its present try.
CidOfTry ==
    \A c \in Calls :
        /\ pc[c] \in {"connectRead", "clear"} => cid[c] \in {NoCid, Txid(c)}
        /\ pc[c] \in {"announce", "announceRead"} => cid[c] = Txid(c)

\* Every announce that was sent has the connection id of its own try.
SentIds == \A t \in DOMAIN Trackers : \A r \in sent[t] : r.kind = "announce" => r.cid = r.txid

\* The requests of a call go to trackers it has left, or to the present one
\* in a try that is not after the present one.
SentSoFar ==
    \A c \in Calls : \A t \in DOMAIN Trackers : \A s \in sent[t] :
        s.txid[1] = c => \/ t < tr[c]
                         \/ t = tr[c] /\ pc[c] \in Udp /\ s.txid[2] <= try[c]

\* A tracker whose answer was taken has been left.
TakenIsPast == \A c \in Calls : \A a \in took[c] : a[1] < tr[c]

\* What a call has gathered is what the trackers gave; without an answer
\* every tracker so far has failed.
Got(c) == UNION {ToSet(parsePeers(bin)) : bin \in won[c]}

Gathered ==
    \A c \in Calls : /\ ToSet(allPeers[c]) = Got(c)
                     /\ won[c] = {} /\ tr[c] > 1 => lastErr[c]

-----------------------------------------------------------------------------
(* Types.                                                                  *)

Step(c) ==
    \/ Start(c) \/ announce(c) \/ udpConnect(c) \/ EnterRead(c) \/ Timeout(c)
    \/ ClearDeadline(c) \/ udpAnnounceRequest(c) \/ SleepEnds(c) \/ Return(c)
    \/ Receive(c) \/ ReadFails(c) \/ httpAnswers(c) \/ httpFails(c)

CallTypes ==
    /\ pc \in [Calls -> {"idle", "next", "http", "done"} \cup Udp]
    /\ tr \in [Calls -> 1 .. Len(Trackers) + 1]
    /\ try \in [Calls -> 0 .. MaxRetries - 1]
    /\ cid \in [Calls -> Txids \cup {NoCid}]
    /\ reader \in [DOMAIN Trackers -> Calls \cup {NoCall}]
    /\ deadline \in [DOMAIN Trackers -> {"none", "set", "passed"}]

FlagTypes == lastErr \in [Calls -> BOOLEAN] /\ shared \in [Calls -> BOOLEAN]

ListTypes ==
    /\ allPeers \in [Calls -> Seq(Peers)]
    /\ ret \in [Calls -> [ok : BOOLEAN, peers : Seq(Peers)]]
    /\ won \in [Calls -> SUBSET Answers]

SentTypes ==
    /\ sent \in [DOMAIN Trackers -> SUBSET Requests]
    /\ took \in [Calls -> SUBSET ((DOMAIN Trackers) \X Requests)]

\* The assumptions on the constants in the form they are used.
LEMMA Assumptions ==
  /\ Len(Trackers) \in Nat /\ DOMAIN Trackers = 1 .. Len(Trackers)
  /\ MaxRetries \in Nat \ {0} /\ NoCall \notin Calls
  /\ Trackers # <<>> => Len(Trackers) >= 1
BY CallsAssumption

\* Every step is one of a call, or a deadline that passes.
LEMMA StepOfCall ==
  Next => \/ \E c \in Calls : Step(c)
          \/ \E t \in DOMAIN Trackers : DeadlinePasses(t)
          \/ UNCHANGED vars
<1>1. ASSUME NEW c \in Calls, Start(c) \/ Advance(c) \/ Receive(c) \/ ReadFails(c)
                              \/ httpAnswers(c) \/ httpFails(c)
      PROVE  Step(c)
  BY <1>1, Zenon DEF Step, Advance
<1> QED
  BY <1>1, Zenon DEF Next, AllReturned

\* The two ways to leave a tracker, without their flags.
LEMMA Leaving ==
  ASSUME NEW c, TrackerFails(c) \/ \E bin \in Answers : TrackerAnswers(c, bin)
  PROVE  /\ pc' = [pc EXCEPT ![c] = "next"]
         /\ tr' = [tr EXCEPT ![c] = tr[c] + 1]
<1>1. CASE TrackerFails(c)
  BY <1>1, Zenon DEF TrackerFails, Goto
<1>2. ASSUME NEW bin \in Answers, TrackerAnswers(c, bin)
      PROVE  /\ pc' = [pc EXCEPT ![c] = "next"]
             /\ tr' = [tr EXCEPT ![c] = tr[c] + 1]
  BY <1>2, Zenon DEF TrackerAnswers, Goto
<1> QED
  BY <1>1, <1>2

\* A call is at a tracker of the list with a try that is left.
LEMMA CallTypesStep ==
  ASSUME CallTypes, AtTracker, SentTypes, [Next]_vars
  PROVE  CallTypes' /\ AtTracker'
<1> USE Assumptions DEF CallTypes, AtTracker, Udp
<1>1. ASSUME NEW c \in Calls, Start(c) PROVE CallTypes' /\ AtTracker'
  BY <1>1 DEF Start, Goto, sockVars
<1>2. ASSUME NEW c \in Calls, announce(c) PROVE CallTypes' /\ AtTracker'
  <2>1. /\ pc[c] = "next" /\ tr[c] \in DOMAIN Trackers
        /\ cid' = cid /\ reader' = reader /\ deadline' = deadline
    BY <1>2 DEF announce, sockVars
  <2>2. CASE TrackerFails(c) /\ try' = try
    BY <2>1, <2>2, Leaving
  <2>3. CASE try' = [try EXCEPT ![c] = 0] /\ Goto(c, "connect") /\ tr' = tr
    BY <2>1, <2>3 DEF Goto
  <2>4. CASE try' = try /\ Goto(c, "http") /\ tr' = tr
    BY <2>1, <2>4 DEF Goto
  <2> QED
    BY <1>2, <2>2, <2>3, <2>4 DEF announce
<1>3. ASSUME NEW c \in Calls, udpConnect(c) PROVE CallTypes' /\ AtTracker'
  <2>1. /\ pc[c] = "connect" /\ cid' = [cid EXCEPT ![c] = NoCid]
        /\ tr' = tr /\ try' = try /\ reader' = reader
        /\ deadline' = [deadline EXCEPT ![tr[c]] = "set"]
    BY <1>3 DEF udpConnect, SetDeadlineAndWrite, WriteFails
  <2>2. Goto(c, "connectRead") \/ Goto(c, "clear")
    BY <1>3 DEF udpConnect, SetDeadlineAndWrite, WriteFails
  <2> QED
    BY <2>1, <2>2 DEF Goto
<1>4. ASSUME NEW c \in Calls, EnterRead(c) PROVE CallTypes' /\ AtTracker'
  BY <1>4 DEF EnterRead, callVars
<1>5. ASSUME NEW c \in Calls, ReadFails(c) \/ Timeout(c) PROVE CallTypes' /\ AtTracker'
  BY <1>5 DEF Timeout, ReadFails, Goto, LeaveRead, Inside, Reading
<1>6. ASSUME NEW c \in Calls, ClearDeadline(c) PROVE CallTypes' /\ AtTracker'
  BY <1>6 DEF ClearDeadline, Goto
<1>7. ASSUME NEW c \in Calls, udpAnnounceRequest(c) PROVE CallTypes' /\ AtTracker'
  BY <1>7 DEF udpAnnounceRequest, Goto, SetDeadlineAndWrite, WriteFails
<1>8. ASSUME NEW c \in Calls, SleepEnds(c) PROVE CallTypes' /\ AtTracker'
  <2>1. /\ pc[c] = "sleep" /\ tr[c] \in DOMAIN Trackers
        /\ cid' = cid /\ reader' = reader /\ deadline' = deadline
    BY <1>8 DEF SleepEnds, sockVars
  <2>2. CASE Retries(c) /\ try' = [try EXCEPT ![c] = try[c] + 1] /\ Goto(c, "connect") /\ tr' = tr
    BY <2>1, <2>2 DEF Goto, Retries
  <2>3. CASE TrackerFails(c) /\ try' = try
    <3>1. pc' = [pc EXCEPT ![c] = "next"] /\ tr' = [tr EXCEPT ![c] = tr[c] + 1]
      BY <2>3, Leaving
    <3> QED
      BY <2>1, <2>3, <3>1
  <2> QED
    BY <1>8, <2>2, <2>3 DEF SleepEnds
<1>9. ASSUME NEW c \in Calls, Return(c) PROVE CallTypes' /\ AtTracker'
  BY <1>9 DEF Return, Goto, sockVars
<1>10. ASSUME NEW c \in Calls, Receive(c) PROVE CallTypes' /\ AtTracker'
  <2>1. PICK r \in sent[tr[c]] : \E kind \in Kinds(r) :
           ReadConnect(c, r, kind) \/ ReadAnnounce(c, r, kind)
    BY <1>10 DEF Receive
  <2>2. PICK kind \in Kinds(r) : ReadConnect(c, r, kind) \/ ReadAnnounce(c, r, kind)
    BY <2>1
  <2>3. CASE ReadConnect(c, r, kind)
    <3>1. r.txid = Txid(c) => r.txid \in Txids
      BY DEF Txid, Txids
    <3> QED
      BY <2>3, <3>1 DEF ReadConnect, Goto, LeaveRead, IsMyConnect
  <2>4. CASE ReadAnnounce(c, r, kind)
    <3>1. /\ pc[c] = "announceRead" /\ tr[c] \in DOMAIN Trackers /\ try' = try /\ cid' = cid /\ deadline' = deadline
          /\ reader' = [reader EXCEPT ![tr[c]] = NoCall]
      BY <2>4 DEF ReadAnnounce, LeaveRead
    <3>2. CASE \E bin \in Answers : TrackerAnswers(c, bin)
      <4>1. pc' = [pc EXCEPT ![c] = "next"] /\ tr' = [tr EXCEPT ![c] = tr[c] + 1]
        BY <3>2, Leaving
      <4> QED
        BY <3>1, <3>2, <4>1
    <3>3. CASE Goto(c, "sleep") /\ tr' = tr
      BY <3>1, <3>3 DEF Goto
    <3> QED
      BY <2>4, <3>2, <3>3 DEF ReadAnnounce
  <2> QED
    BY <2>2, <2>3, <2>4
<1>11. ASSUME NEW c \in Calls, httpAnswers(c) PROVE CallTypes' /\ AtTracker'
  BY <1>11 DEF httpAnswers, Goto, TrackerAnswers, sockVars
<1>12. ASSUME NEW c \in Calls, httpFails(c) PROVE CallTypes' /\ AtTracker'
  BY <1>12 DEF httpFails, Goto, TrackerFails, sockVars
<1>13. ASSUME NEW t \in DOMAIN Trackers, DeadlinePasses(t) PROVE CallTypes' /\ AtTracker'
  BY <1>13 DEF DeadlinePasses, callVars
<1>14. ASSUME UNCHANGED vars PROVE CallTypes' /\ AtTracker'
  BY <1>14 DEF vars, callVars, sockVars
<1> QED
  BY <1>1, <1>2, <1>3, <1>4, <1>5, <1>6, <1>7, <1>8, <1>9, <1>10, <1>11, <1>12, <1>13,
     <1>14, StepOfCall DEF Step
-----------------------------------------------------------------------------
(* The steps, by what they do to a call and its requests.                  *)

Kept == UNCHANGED <<tr, allPeers, lastErr, ret, won, took>>

Idles == UNCHANGED <<pc, tr, try, cid, allPeers, lastErr, ret, sent, took, won>>

Begins(c) ==
    /\ pc[c] = "idle" /\ pc' = [pc EXCEPT ![c] = "next"]
    /\ Kept /\ UNCHANGED <<try, cid, sent>>

Asks(c) ==
    /\ pc[c] = "next" /\ tr[c] \in DOMAIN Trackers
    /\ pc' = [pc EXCEPT ![c] = "connect"] \/ pc' = [pc EXCEPT ![c] = "http"]
    /\ try' = try \/ try' = [try EXCEPT ![c] = 0]
    /\ Kept /\ UNCHANGED <<cid, sent>>

Fails(c) ==
    /\ pc[c] \in {"next", "http", "sleep"} /\ tr[c] \in DOMAIN Trackers
    /\ pc' = [pc EXCEPT ![c] = "next"] /\ tr' = [tr EXCEPT ![c] = tr[c] + 1]
    /\ lastErr' = [lastErr EXCEPT ![c] = TRUE]
    /\ UNCHANGED <<allPeers, ret, won, took, try, cid, sent>>

Gets(c, bin) ==
    /\ pc[c] \in {"http", "announceRead"} /\ tr[c] \in DOMAIN Trackers
    /\ pc' = [pc EXCEPT ![c] = "next"] /\ tr' = [tr EXCEPT ![c] = tr[c] + 1]
    /\ allPeers' = [allPeers EXCEPT ![c] = allPeers[c] \o parsePeers(bin)]
    /\ won' = [won EXCEPT ![c] = won[c] \cup {bin}]
    /\ \/ took' = took
       \/ /\ pc[c] = "announceRead"
          /\ \E r \in sent[tr[c]] :
                /\ r.kind = "announce" /\ r.txid = Txid(c)
                /\ took' = [took EXCEPT ![c] = took[c] \cup {<<tr[c], r>>}]
    /\ UNCHANGED <<lastErr, ret, try, cid, sent>>

Writes(c) ==
    /\ tr[c] \in DOMAIN Trackers
    /\ \/ /\ pc[c] = "connect" /\ pc' = [pc EXCEPT ![c] = "connectRead"]
          /\ cid' = [cid EXCEPT ![c] = NoCid]
          /\ sent' = [sent EXCEPT ![tr[c]] = sent[tr[c]] \cup {ConnectRequest(c)}]
       \/ /\ pc[c] = "announce" /\ pc' = [pc EXCEPT ![c] = "announceRead"]
          /\ cid' = cid
          /\ sent' = [sent EXCEPT ![tr[c]] = sent[tr[c]] \cup {AnnounceRequest(c)}]
    /\ Kept /\ UNCHANGED try

Waits(c) ==
    /\ pc[c] \in Udp
    /\ \/ pc' = [pc EXCEPT ![c] = "sleep"] /\ cid' = cid
       \/ /\ pc' = [pc EXCEPT ![c] = "clear"]
          /\ \/ pc[c] = "connectRead" /\ cid' = cid
             \/ cid' = [cid EXCEPT ![c] = NoCid]
             \/ cid' = [cid EXCEPT ![c] = Txid(c)]
       \/ /\ pc[c] = "clear" /\ cid[c] # NoCid
          /\ pc' = [pc EXCEPT ![c] = "announce"] /\ cid' = cid
    /\ Kept /\ UNCHANGED <<try, sent>>

Again(c) ==
    /\ pc[c] = "sleep" /\ pc' = [pc EXCEPT ![c] = "connect"]
    /\ try' = [try EXCEPT ![c] = try[c] + 1]
    /\ Kept /\ UNCHANGED <<cid, sent>>

Returns(c) ==
    /\ pc[c] = "next" /\ tr[c] > Len(Trackers)
    /\ pc' = [pc EXCEPT ![c] = "done"]
    /\ ret' = [ret EXCEPT ![c] = Result(c)]
    /\ UNCHANGED <<tr, allPeers, lastErr, won, took, try, cid, sent>>

Move(c) ==
    \/ Begins(c) \/ Asks(c) \/ Fails(c) \/ (\E bin \in Answers : Gets(c, bin))
    \/ Writes(c) \/ Waits(c) \/ Again(c) \/ Returns(c)

\* Every step is one of them.
LEMMA StepCases ==
  ASSUME CallTypes, AtTracker, [Next]_vars
  PROVE  Idles \/ \E c \in Calls : Move(c)
<1> USE Assumptions DEF AtTracker, Udp
<1>1. ASSUME NEW c \in Calls, Start(c) PROVE Begins(c)
  BY <1>1, Zenon DEF Start, Begins, Goto, Kept, sockVars
<1>2. ASSUME NEW c \in Calls, announce(c) PROVE Asks(c) \/ Fails(c)
  <2>1. /\ pc[c] = "next" /\ tr[c] \in DOMAIN Trackers
        /\ UNCHANGED <<cid, ret, sent, took>>
    BY <1>2 DEF announce, sockVars, CallTypes
  <2>2. CASE TrackerFails(c) /\ UNCHANGED try
    BY <2>1, <2>2, Zenon DEF Fails, TrackerFails, Goto
  <2>3. CASE try' = [try EXCEPT ![c] = 0] /\ Goto(c, "connect")
             /\ UNCHANGED <<tr, lastErr, allPeers, won>>
    BY <2>1, <2>3, Zenon DEF Asks, Goto, Kept
  <2>4. CASE Goto(c, "http") /\ UNCHANGED <<tr, try, lastErr, allPeers, won>>
    BY <2>1, <2>4, Zenon DEF Asks, Goto, Kept
  <2> QED
    BY <1>2, <2>2, <2>3, <2>4, Zenon DEF announce
<1>3. ASSUME NEW c \in Calls, udpConnect(c) PROVE Writes(c) \/ Waits(c)
  <2>1. pc[c] = "connect" /\ tr[c] \in DOMAIN Trackers
    BY <1>3 DEF udpConnect
  <2>2. Kept /\ UNCHANGED try /\ cid' = [cid EXCEPT ![c] = NoCid]
    BY <1>3, Zenon DEF udpConnect, Kept, histVars
  <2>3. CASE SetDeadlineAndWrite(c, ConnectRequest(c), "connectRead")
    BY <2>1, <2>2, <2>3, Zenon DEF Writes, SetDeadlineAndWrite, Goto
  <2>4. CASE WriteFails(c, "clear")
    BY <2>1, <2>2, <2>4, Zenon DEF Waits, WriteFails, Goto
  <2> QED
    BY <1>3, <2>3, <2>4, Zenon DEF udpConnect
<1>4. ASSUME NEW c \in Calls, EnterRead(c) PROVE Idles
  BY <1>4, Zenon DEF EnterRead, callVars, histVars, Idles
<1>5. ASSUME NEW c \in Calls, ReadFails(c) \/ Timeout(c) PROVE Waits(c)
  <2>1. /\ Kept /\ UNCHANGED <<try, sent>> /\ cid' = cid
    BY <1>5, Zenon DEF Timeout, ReadFails, Kept, histVars
  <2>2. pc[c] = "connectRead" \/ pc[c] = "announceRead"
    BY <1>5 DEF Timeout, ReadFails, Inside, Reading
  <2>3. Goto(c, IF pc[c] = "connectRead" THEN "clear" ELSE "sleep")
    BY <1>5, Zenon DEF Timeout, ReadFails
  <2> QED
    BY <2>1, <2>2, <2>3 DEF Waits, Goto
<1>6. ASSUME NEW c \in Calls, ClearDeadline(c) PROVE Waits(c)
  <2>1. Kept /\ UNCHANGED <<try, sent>> /\ cid' = cid
    BY <1>6, Zenon DEF ClearDeadline, Kept, histVars
  <2>2. pc[c] = "clear" /\ Goto(c, IF cid[c] = NoCid THEN "sleep" ELSE "announce")
    BY <1>6, Zenon DEF ClearDeadline
  <2> QED
    BY <2>1, <2>2 DEF Waits, Goto
<1>7. ASSUME NEW c \in Calls, udpAnnounceRequest(c) PROVE Writes(c) \/ Waits(c)
  <2>1. pc[c] = "announce" /\ tr[c] \in DOMAIN Trackers
    BY <1>7 DEF udpAnnounceRequest
  <2>2. Kept /\ UNCHANGED <<try, cid>>
    BY <1>7, Zenon DEF udpAnnounceRequest, Kept, histVars
  <2>3. CASE SetDeadlineAndWrite(c, AnnounceRequest(c), "announceRead")
    BY <2>1, <2>2, <2>3, Zenon DEF Writes, SetDeadlineAndWrite, Goto
  <2>4. CASE WriteFails(c, "sleep")
    BY <2>1, <2>2, <2>4, Zenon DEF Waits, WriteFails, Goto
  <2> QED
    BY <1>7, <2>3, <2>4, Zenon DEF udpAnnounceRequest
<1>8. ASSUME NEW c \in Calls, SleepEnds(c) PROVE Again(c) \/ Fails(c)
  <2>1. pc[c] = "sleep" /\ tr[c] \in DOMAIN Trackers /\ UNCHANGED <<cid, ret, sent, took>>
    BY <1>8 DEF SleepEnds, sockVars
  <2>2. CASE try' = [try EXCEPT ![c] = try[c] + 1] /\ Goto(c, "connect")
             /\ UNCHANGED <<tr, allPeers, lastErr, won>>
    BY <2>1, <2>2, Zenon DEF Again, Goto, Kept
  <2>3. CASE TrackerFails(c) /\ UNCHANGED try
    BY <2>1, <2>3, Zenon DEF Fails, TrackerFails, Goto
  <2> QED
    BY <1>8, <2>2, <2>3, Zenon DEF SleepEnds
<1>9. ASSUME NEW c \in Calls, Return(c) PROVE Returns(c)
  BY <1>9, Zenon DEF Return, Goto, sockVars, histVars, Returns
<1>10. ASSUME NEW c \in Calls, Receive(c) PROVE Waits(c) \/ \E bin \in Answers : Gets(c, bin)
  <2>1. PICK r \in sent[tr[c]] : \E kind \in Kinds(r) :
           ReadConnect(c, r, kind) \/ ReadAnnounce(c, r, kind)
    BY <1>10 DEF Receive
  <2>2. PICK kind \in Kinds(r) : ReadConnect(c, r, kind) \/ ReadAnnounce(c, r, kind)
    BY <2>1
  <2>3. CASE ReadConnect(c, r, kind)
    <3>1. pc[c] = "connectRead" /\ Goto(c, "clear") /\ Kept /\ UNCHANGED <<try, sent>>
      BY <2>3, Zenon DEF ReadConnect, Kept, histVars
    <3>2. \/ cid' = [cid EXCEPT ![c] = NoCid]
          \/ cid' = [cid EXCEPT ![c] = Txid(c)]
      <4>1. cid' = [cid EXCEPT ![c] = IF IsMyConnect(c, r, kind) THEN r.txid ELSE NoCid]
        BY <2>3, Zenon DEF ReadConnect
      <4>2. IsMyConnect(c, r, kind) => r.txid = Txid(c)
        BY DEF IsMyConnect
      <4> QED
        BY <4>1, <4>2
    <3> QED
      BY <3>1, <3>2 DEF Waits, Goto
  <2>4. CASE ReadAnnounce(c, r, kind)
    <3>1. pc[c] = "announceRead" /\ UNCHANGED <<try, cid, ret, sent>>
      BY <2>4, Zenon DEF ReadAnnounce
    <3>2. ASSUME IsMyAnnounce(c, r, kind) PROVE \E bin \in Answers : Gets(c, bin)
      <4>1. PICK bin \in Answers : TrackerAnswers(c, bin)
        BY <2>4, <3>2, Zenon DEF ReadAnnounce
      <4>2. took' = [took EXCEPT ![c] = took[c] \cup {<<tr[c], r>>}]
        BY <2>4, <3>2, Zenon DEF ReadAnnounce
      <4>3. r.kind = "announce" /\ r.txid = Txid(c) /\ tr[c] \in DOMAIN Trackers
        BY <2>2, <3>1, <3>2 DEF IsMyAnnounce, Kinds
      <4>4. Gets(c, bin)
        BY <3>1, <4>1, <4>2, <4>3, Zenon DEF Gets, TrackerAnswers, Goto
      <4> QED
        BY <4>4
    <3>3. ASSUME ~IsMyAnnounce(c, r, kind) PROVE Waits(c)
      <4>1. Goto(c, "sleep") /\ Kept
        BY <2>4, <3>1, <3>3, Zenon DEF ReadAnnounce, Kept
      <4> QED
        BY <3>1, <4>1 DEF Waits, Goto
    <3> QED
      BY <3>2, <3>3
  <2> QED
    BY <2>2, <2>3, <2>4
<1>11. ASSUME NEW c \in Calls, httpAnswers(c) PROVE \E bin \in Answers : Gets(c, bin)
  <2>1. PICK bin \in Answers : TrackerAnswers(c, bin)
    BY <1>11 DEF httpAnswers
  <2>2. pc[c] = "http" /\ tr[c] \in DOMAIN Trackers /\ UNCHANGED <<try, cid, ret, sent, took>>
    BY <1>11 DEF httpAnswers, sockVars
  <2> QED
    BY <2>1, <2>2, Zenon DEF Gets, TrackerAnswers, Goto
<1>12. ASSUME NEW c \in Calls, httpFails(c) PROVE Fails(c)
  <2>1. pc[c] = "http" /\ tr[c] \in DOMAIN Trackers /\ UNCHANGED <<try, cid, ret, sent, took>>
    BY <1>12 DEF httpFails, sockVars
  <2> QED
    BY <1>12, <2>1, Zenon DEF httpFails, Fails, TrackerFails, Goto
<1>13. ASSUME NEW t \in DOMAIN Trackers, DeadlinePasses(t) PROVE Idles
  BY <1>13, Zenon DEF DeadlinePasses, callVars, histVars, Idles
<1>14. ASSUME UNCHANGED vars PROVE Idles
  BY <1>14, Zenon DEF vars, callVars, sockVars, histVars, Idles
<1>15. ASSUME NEW c \in Calls, Step(c) PROVE Idles \/ Move(c)
  BY <1>1, <1>2, <1>3, <1>4, <1>5, <1>6, <1>7, <1>8, <1>9, <1>10, <1>11, <1>12, <1>15,
     Zenon DEF Step, Move
<1> QED
  BY <1>13, <1>14, <1>15, StepOfCall, Zenon
-----------------------------------------------------------------------------
(* The types of what calls gather and send.                                *)

\* The flags of a call are Booleans.
LEMMA FlagTypesStep ==
  ASSUME CallTypes, AtTracker, FlagTypes, [Next]_vars
  PROVE  FlagTypes'
<1>1. lastErr' \in [Calls -> BOOLEAN]
  <2>1. lastErr' = lastErr \/ \E c \in Calls : lastErr' = [lastErr EXCEPT ![c] = TRUE]
    <3>1. Idles => lastErr' = lastErr
      BY Zenon DEF Idles
    <3>2. ASSUME NEW c \in Calls, Move(c)
          PROVE  lastErr' = lastErr \/ lastErr' = [lastErr EXCEPT ![c] = TRUE]
      BY <3>2, Zenon DEF Move, Begins, Asks, Fails, Gets, Writes, Waits, Again, Returns, Kept
    <3> QED
      BY <3>1, <3>2, StepCases, Zenon
  <2> QED
    BY <2>1 DEF FlagTypes
<1>2. shared' \in [Calls -> BOOLEAN]
  <2>1. ASSUME NEW c \in Calls, Start(c) PROVE shared' \in [Calls -> BOOLEAN]
    <3> DEFINE S(d) == \/ shared[d]
                       \/ d # c /\ Running(d)
                       \/ d = c /\ \E e \in Calls : Running(e)
    <3>1. shared' = [d \in Calls |-> S(d)]
      BY <2>1, Zenon DEF Start
    <3>2. \A d \in Calls : S(d) \in BOOLEAN
      OBVIOUS
    <3> HIDE DEF S
    <3> QED
      BY <3>1, <3>2
  <2>2. ASSUME NEW c \in Calls, Step(c), ~Start(c) PROVE shared' = shared
    <3>1. histVars' = histVars => shared' = shared
      BY Zenon DEF histVars
    <3> QED
      BY <2>2, <3>1, Zenon DEF Step, announce, udpConnect, EnterRead, Timeout, ClearDeadline,
         udpAnnounceRequest, SleepEnds, Return, Receive, ReadFails, httpAnswers, httpFails,
         ReadConnect, ReadAnnounce
  <2>3. ASSUME NEW t \in DOMAIN Trackers, DeadlinePasses(t) PROVE shared' = shared
    BY <2>3, Zenon DEF DeadlinePasses, histVars
  <2>4. UNCHANGED vars => shared' = shared
    BY Zenon DEF vars, histVars
  <2> QED
    BY <2>1, <2>2, <2>3, <2>4, StepOfCall, Zenon DEF FlagTypes
<1> QED
  BY <1>1, <1>2 DEF FlagTypes

\* Lists of peers are lists of peers.
LEMMA ListTypesStep ==
  ASSUME CallTypes, AtTracker, FlagTypes, ListTypes, [Next]_vars
  PROVE  ListTypes'
<1>1. ASSUME NEW c \in Calls, NEW bin \in Answers, Gets(c, bin) PROVE ListTypes'
  <2>1. allPeers[c] \in Seq(Peers) /\ parsePeers(bin) \in Seq(Peers)
    BY ParsedFacts DEF ListTypes
  <2>2. allPeers[c] \o parsePeers(bin) \in Seq(Peers)
    BY <2>1, ElementsOfConcatenation
  <2>3. allPeers' = [allPeers EXCEPT ![c] = allPeers[c] \o parsePeers(bin)]
    BY <1>1, Zenon DEF Gets
  <2>4. won' = [won EXCEPT ![c] = won[c] \cup {bin}] /\ ret' = ret
    BY <1>1, Zenon DEF Gets
  <2>5. allPeers' \in [Calls -> Seq(Peers)]
    BY <2>2, <2>3 DEF ListTypes
  <2>6. won' \in [Calls -> SUBSET Answers]
    BY <2>4 DEF ListTypes
  <2> QED
    BY <2>4, <2>5, <2>6 DEF ListTypes
<1>2. ASSUME NEW c \in Calls, Returns(c) PROVE ListTypes'
  <2>1. allPeers[c] \in Seq(Peers)
    BY DEF ListTypes
  <2>2. uniquePeers(allPeers[c]) \in Seq(Peers)
    BY <2>1, UniqueFacts
  <2>3. Result(c) \in [ok : BOOLEAN, peers : Seq(Peers)]
    BY <2>2 DEF Result
  <2>4. ret' = [ret EXCEPT ![c] = Result(c)] /\ allPeers' = allPeers /\ won' = won
    BY <1>2, Zenon DEF Returns
  <2> QED
    BY <2>3, <2>4 DEF ListTypes
<1>3. ASSUME UNCHANGED <<allPeers, ret, won>> PROVE ListTypes'
  BY <1>3 DEF ListTypes
<1>4. ASSUME NEW c \in Calls, Move(c), ~Returns(c), ~ \E bin \in Answers : Gets(c, bin)
      PROVE  UNCHANGED <<allPeers, ret, won>>
  BY <1>4, Zenon DEF Move, Begins, Asks, Fails, Writes, Waits, Again, Kept
<1>5. Idles => UNCHANGED <<allPeers, ret, won>>
  BY Zenon DEF Idles
<1> QED
  BY <1>1, <1>2, <1>3, <1>4, <1>5, StepCases, Zenon

\* The requests that a call may send.
LEMMA RequestFacts ==
  ASSUME CallTypes, NEW c \in Calls
  PROVE  /\ Txid(c) \in Txids /\ Txid(c)[1] = c /\ Txid(c)[2] = try[c]
         /\ Txid(c) # NoCid /\ ConnectRequest(c) \in Requests
         /\ AnnounceRequest(c) \in Requests
<1>1. try[c] \in 0 .. MaxRetries - 1 /\ cid[c] \in Txids \cup {NoCid}
  BY DEF CallTypes
<1>2. Txid(c) \in Txids /\ Txid(c)[1] = c /\ Txid(c)[2] = try[c]
  BY <1>1 DEF Txid, Txids
<1>3. Txid(c) # NoCid
  BY Assumptions DEF Txid, NoCid
<1> QED
  BY <1>1, <1>2, <1>3 DEF ConnectRequest, AnnounceRequest, Requests

\* What is on the wire is requests, and what was taken answers one.
LEMMA SentTypesStep ==
  ASSUME CallTypes, AtTracker, SentTypes, [Next]_vars
  PROVE  SentTypes'
<1>1. ASSUME NEW c \in Calls, NEW bin \in Answers, Gets(c, bin) PROVE SentTypes'
  <2>1. sent' = sent /\ tr[c] \in DOMAIN Trackers
    BY <1>1, Zenon DEF Gets
  <2>2. CASE took' = took
    BY <2>1, <2>2 DEF SentTypes
  <2>3. ASSUME NEW r \in sent[tr[c]], took' = [took EXCEPT ![c] = took[c] \cup {<<tr[c], r>>}]
        PROVE  SentTypes'
    <3>1. <<tr[c], r>> \in (DOMAIN Trackers) \X Requests
      BY <2>1 DEF SentTypes
    <3>2. took' \in [Calls -> SUBSET ((DOMAIN Trackers) \X Requests)]
      BY <2>3, <3>1 DEF SentTypes
    <3> QED
      BY <2>1, <3>2 DEF SentTypes
  <2> QED
    BY <1>1, <2>2, <2>3, Zenon DEF Gets
<1>2. ASSUME NEW c \in Calls, Writes(c) PROVE SentTypes'
  <2>1. ConnectRequest(c) \in Requests /\ AnnounceRequest(c) \in Requests
    BY RequestFacts
  <2>2. PICK r \in Requests : sent' = [sent EXCEPT ![tr[c]] = sent[tr[c]] \cup {r}]
    BY <1>2, <2>1, Zenon DEF Writes
  <2>3. tr[c] \in DOMAIN Trackers /\ took' = took
    BY <1>2, Zenon DEF Writes, Kept
  <2> QED
    BY <2>2, <2>3 DEF SentTypes
<1>3. ASSUME UNCHANGED <<sent, took>> PROVE SentTypes'
  BY <1>3 DEF SentTypes
<1>4. ASSUME NEW c \in Calls, Move(c), ~Writes(c), ~ \E bin \in Answers : Gets(c, bin)
      PROVE  UNCHANGED <<sent, took>>
  BY <1>4, Zenon DEF Move, Begins, Asks, Fails, Returns, Waits, Again, Kept
<1>5. Idles => UNCHANGED <<sent, took>>
  BY Zenon DEF Idles
<1> QED
  BY <1>1, <1>2, <1>3, <1>4, <1>5, StepCases, Zenon
-----------------------------------------------------------------------------
(* An answer that is taken is the call's own.                              *)

Types == CallTypes /\ FlagTypes /\ ListTypes /\ SentTypes /\ AtTracker

\* A call holds the connection id of its own try, or none.
LEMMA CidStep ==
  ASSUME Types, CidOfTry, [Next]_vars
  PROVE  CidOfTry'
<1> USE DEF Types, Txid
<1>1. ASSUME NEW d \in Calls, pc'[d] = pc[d], try'[d] = try[d], cid'[d] = cid[d]
      PROVE  /\ pc'[d] \in {"connectRead", "clear"} => cid'[d] \in {NoCid, <<d, try'[d]>>}
             /\ pc'[d] \in {"announce", "announceRead"} => cid'[d] = <<d, try'[d]>>
  BY <1>1 DEF CidOfTry
<1>2. Idles => CidOfTry'
  BY <1>1 DEF Idles, CidOfTry
<1>3. ASSUME NEW c \in Calls, Move(c) PROVE CidOfTry'
  <2>1. ASSUME NEW d \in Calls, d # c
        PROVE  pc'[d] = pc[d] /\ try'[d] = try[d] /\ cid'[d] = cid[d]
    <3>1. pc' = pc \/ \E l : pc' = [pc EXCEPT ![c] = l]
      BY <1>3, Zenon DEF Move, Begins, Asks, Fails, Gets, Writes, Waits, Again, Returns
    <3>2. try' = try \/ \E n : try' = [try EXCEPT ![c] = n]
      BY <1>3, Zenon DEF Move, Begins, Asks, Fails, Gets, Writes, Waits, Again, Returns
    <3>3. cid' = cid \/ \E n : cid' = [cid EXCEPT ![c] = n]
      BY <1>3, Zenon DEF Move, Begins, Asks, Fails, Gets, Writes, Waits, Again, Returns
    <3> QED
      BY <2>1, <3>1, <3>2, <3>3 DEF CallTypes
  <2>2. /\ pc'[c] \in {"connectRead", "clear"} => cid'[c] \in {NoCid, <<c, try'[c]>>}
        /\ pc'[c] \in {"announce", "announceRead"} => cid'[c] = <<c, try'[c]>>
    <3>1. CASE \/ pc' = [pc EXCEPT ![c] = "next"] \/ pc' = [pc EXCEPT ![c] = "connect"]
               \/ pc' = [pc EXCEPT ![c] = "http"] \/ pc' = [pc EXCEPT ![c] = "done"]
      BY <3>1 DEF CallTypes
    <3>2. CASE Writes(c)
      BY <3>2 DEF Writes, CallTypes, CidOfTry
    <3>3. CASE Waits(c)
      BY <3>3 DEF Waits, CallTypes, CidOfTry
    <3> QED
      BY <1>3, <3>1, <3>2, <3>3, Zenon DEF Move, Begins, Asks, Fails, Gets, Again, Returns
  <2> QED
    BY <1>1, <2>1, <2>2 DEF CidOfTry
<1> QED
  BY <1>2, <1>3, StepCases, Zenon

\* A step adds one request to the socket of the call's tracker, or none.
LEMMA SentCases ==
  ASSUME Types, [Next]_vars
  PROVE  \/ sent' = sent
         \/ \E c \in Calls : Writes(c)
<1>1. ASSUME NEW c \in Calls, Move(c), ~Writes(c) PROVE sent' = sent
  BY <1>1, Zenon DEF Move, Begins, Asks, Fails, Gets, Returns, Waits, Again
<1>2. Idles => sent' = sent
  BY Zenon DEF Idles
<1> QED
  BY <1>1, <1>2, StepCases, Zenon DEF Types

\* The request that is added is one of the call's present try.
LEMMA WrittenFacts ==
  ASSUME Types, CidOfTry, NEW c \in Calls, Writes(c)
  PROVE  \E r \in Requests :
            /\ r.txid[1] = c /\ r.txid[2] = try[c]
            /\ r.kind = "announce" => r.cid = r.txid
            /\ sent'[tr[c]] = sent[tr[c]] \cup {r}
            /\ \A t \in (DOMAIN Trackers) \ {tr[c]} : sent'[t] = sent[t]
<1>1. tr[c] \in DOMAIN Trackers
  BY Zenon DEF Writes
<1>2. /\ ConnectRequest(c) \in Requests /\ AnnounceRequest(c) \in Requests
      /\ Txid(c)[1] = c /\ Txid(c)[2] = try[c]
  BY RequestFacts DEF Types
<1>3. ASSUME NEW r \in Requests, sent' = [sent EXCEPT ![tr[c]] = sent[tr[c]] \cup {r}]
      PROVE  /\ sent'[tr[c]] = sent[tr[c]] \cup {r}
             /\ \A t \in (DOMAIN Trackers) \ {tr[c]} : sent'[t] = sent[t]
  BY <1>1, <1>3 DEF Types, SentTypes
<1>4. CASE sent' = [sent EXCEPT ![tr[c]] = sent[tr[c]] \cup {ConnectRequest(c)}]
  <2>1. ConnectRequest(c).txid = Txid(c) /\ ConnectRequest(c).kind # "announce"
    BY DEF ConnectRequest
  <2> QED
    BY <1>2, <1>3, <1>4, <2>1
<1>5. CASE /\ pc[c] = "announce"
           /\ sent' = [sent EXCEPT ![tr[c]] = sent[tr[c]] \cup {AnnounceRequest(c)}]
  <2>1. AnnounceRequest(c).txid = Txid(c) /\ AnnounceRequest(c).cid = Txid(c)
    BY <1>5 DEF AnnounceRequest, CidOfTry
  <2> QED
    BY <1>2, <1>3, <1>5, <2>1
<1> QED
  BY <1>4, <1>5, Zenon DEF Writes

\* An announce request carries the connection id of its own try.
LEMMA IdsStep ==
  ASSUME Types, CidOfTry, SentIds, [Next]_vars
  PROVE  SentIds'
<1>1. CASE sent' = sent
  BY <1>1 DEF SentIds
<1>2. ASSUME NEW c \in Calls, Writes(c) PROVE SentIds'
  BY <1>2, WrittenFacts DEF SentIds
<1> QED
  BY <1>1, <1>2, SentCases

\* A call has sent nothing for tries it has not begun.
LEMMA SentStep ==
  ASSUME Types, CidOfTry, SentSoFar, [Next]_vars
  PROVE  SentSoFar'
<1> USE Assumptions DEF Types
<1> DEFINE Past(c, t, s) == \/ t < tr[c]
                            \/ t = tr[c] /\ pc[c] \in Udp /\ s.txid[2] <= try[c]
           PastNext(c, t, s) == \/ t < tr'[c]
                                \/ t = tr'[c] /\ pc'[c] \in Udp /\ s.txid[2] <= try'[c]
<1>1. ASSUME NEW d \in Calls, NEW t \in DOMAIN Trackers, NEW s \in Requests, Past(d, t, s)
      PROVE  PastNext(d, t, s)
  <2>0. s.txid[2] \in Nat /\ t \in Nat /\ tr[d] \in Nat /\ try[d] \in Nat
    BY DEF Requests, Txids, CallTypes
  <2>1. ASSUME pc'[d] = pc[d], try'[d] = try[d], tr'[d] = tr[d] PROVE PastNext(d, t, s)
    BY <1>1, <2>1
  <2>2. Idles => PastNext(d, t, s)
    BY <2>1 DEF Idles
  <2>3. ASSUME NEW c \in Calls, Move(c) PROVE PastNext(d, t, s)
    <3>1. CASE c # d
      <4>1. pc' = pc \/ \E l : pc' = [pc EXCEPT ![c] = l]
        BY <2>3, Zenon DEF Move, Begins, Asks, Fails, Gets, Writes, Waits, Again, Returns
      <4>2. try' = try \/ \E n : try' = [try EXCEPT ![c] = n]
        BY <2>3, Zenon DEF Move, Begins, Asks, Fails, Gets, Writes, Waits, Again, Returns
      <4>3. tr' = tr \/ \E n : tr' = [tr EXCEPT ![c] = n]
        BY <2>3, Zenon DEF Move, Begins, Asks, Fails, Gets, Writes, Waits, Again, Returns, Kept
      <4> QED
        BY <2>1, <3>1, <4>1, <4>2, <4>3 DEF CallTypes
    <3>2. CASE c = d
      <4>1. CASE tr' = [tr EXCEPT ![c] = tr[c] + 1]
        <5>1. tr'[d] = tr[d] + 1
          BY <3>2, <4>1 DEF CallTypes
        <5> QED
          BY <1>1, <2>0, <5>1
      <4>2. CASE tr' = tr /\ pc[c] \notin Udp
        BY <1>1, <3>2, <4>2
      <4>3. CASE tr' = tr /\ try' = try /\ pc'[c] \in Udp
        BY <1>1, <3>2, <4>3
      <4>4. CASE Again(c)
        <5>1. tr'[d] = tr[d] /\ try'[d] = try[d] + 1 /\ pc'[d] = "connect"
          BY <3>2, <4>4 DEF Again, Kept, CallTypes
        <5> QED
          BY <1>1, <2>0, <5>1 DEF Udp
      <4>5. Writes(c) => tr' = tr /\ try' = try /\ pc'[c] \in Udp
        BY DEF Writes, Kept, CallTypes, Udp
      <4>6. Waits(c) => tr' = tr /\ try' = try /\ pc'[c] \in Udp
        BY DEF Waits, Kept, CallTypes, Udp
      <4>7. Begins(c) \/ Asks(c) \/ Returns(c) => tr' = tr /\ pc[c] \notin Udp
        BY DEF Begins, Asks, Returns, Kept, Udp
      <4>8. Fails(c) \/ (\E bin \in Answers : Gets(c, bin)) => tr' = [tr EXCEPT ![c] = tr[c] + 1]
        BY Zenon DEF Fails, Gets
      <4> HIDE DEF PastNext
      <4> QED
        BY <2>3, <4>1, <4>2, <4>3, <4>4, <4>5, <4>6, <4>7, <4>8, Zenon DEF Move
    <3> QED
      BY <3>1, <3>2
  <2> HIDE DEF PastNext
  <2> QED
    BY <2>2, <2>3, StepCases, Zenon
<1>2. ASSUME NEW d \in Calls, NEW t \in DOMAIN Trackers, NEW s \in sent'[t], s.txid[1] = d
      PROVE  PastNext(d, t, s)
  <2>1. CASE s \in sent[t]
    <3>1. s \in Requests
      BY <2>1 DEF SentTypes
    <3>2. Past(d, t, s)
      BY <1>2, <2>1 DEF SentSoFar
    <3> HIDE DEF Past, PastNext
    <3> QED
      BY <1>1, <3>1, <3>2
  <2>2. CASE s \notin sent[t]
    <3>1. PICK c \in Calls : Writes(c)
      BY <2>2, SentCases
    <3>2. PICK r \in Requests :
            /\ r.txid[1] = c /\ r.txid[2] = try[c]
            /\ sent'[tr[c]] = sent[tr[c]] \cup {r}
            /\ \A u \in (DOMAIN Trackers) \ {tr[c]} : sent'[u] = sent[u]
      BY <3>1, WrittenFacts
    <3>3. t = tr[c] /\ s = r /\ d = c
      BY <1>2, <2>2, <3>2
    <3>4. tr' = tr /\ try' = try /\ pc'[c] \in Udp
      BY <3>1 DEF Writes, Kept, CallTypes, Udp
    <3>5. try[c] \in Nat
      BY DEF CallTypes
    <3> QED
      BY <3>2, <3>3, <3>4, <3>5
  <2> QED
    BY <2>1, <2>2
<1> QED
  BY <1>2 DEF SentSoFar
\* A call goes through the trackers in one direction.
LEMMA TrackersInOrder ==
  ASSUME Types, [Next]_vars
  PROVE  \A d \in Calls : tr[d] <= tr'[d]
<1>1. tr' = tr \/ \E c \in Calls : tr' = [tr EXCEPT ![c] = tr[c] + 1]
  <2>1. Idles => tr' = tr
    BY Zenon DEF Idles
  <2>2. ASSUME NEW c \in Calls, Move(c) PROVE tr' = tr \/ tr' = [tr EXCEPT ![c] = tr[c] + 1]
    BY <2>2, Zenon DEF Move, Begins, Asks, Fails, Gets, Writes, Waits, Again, Returns, Kept
  <2> QED
    BY <2>1, <2>2, StepCases, Zenon DEF Types
<1>2. tr \in [Calls -> Nat]
  BY Assumptions DEF Types, CallTypes
<1> QED
  BY <1>1, <1>2

\* An answer that is taken is for the latest request of the call itself.
LEMMA OwnAnswerStep ==
  ASSUME Types, CidOfTry, SentIds, SentSoFar, TakenIsPast, OwnAnswer, [Next]_vars
  PROVE  TakenIsPast' /\ OwnAnswer'
<1> USE Assumptions DEF Types
<1> SUFFICES ASSUME NEW d \in Calls, NEW a \in took'[d]
             PROVE  /\ a[1] < tr'[d] /\ a[2].txid[1] = d /\ a[2].cid = a[2].txid
                    /\ \A s \in sent'[a[1]] : s.txid[1] = d => s.txid[2] <= a[2].txid[2]
  BY DEF TakenIsPast, OwnAnswer
<1>0. tr[d] \in Nat /\ tr'[d] \in Nat /\ tr[d] <= tr'[d]
  <2>1. CallTypes'
    BY CallTypesStep
  <2> QED
    BY <2>1, TrackersInOrder DEF CallTypes
<1>1. CASE a \in took[d]
  <2>1. a[1] \in DOMAIN Trackers /\ a[1] \in Nat
    BY <1>1 DEF SentTypes
  <2>2. /\ a[1] < tr[d] /\ a[2].txid[1] = d /\ a[2].cid = a[2].txid
        /\ \A s \in sent[a[1]] : s.txid[1] = d => s.txid[2] <= a[2].txid[2]
    BY <1>1 DEF TakenIsPast, OwnAnswer
  <2>3. a[1] < tr'[d]
    BY <1>0, <2>1, <2>2
  <2>4. ASSUME NEW s \in sent'[a[1]], s.txid[1] = d PROVE s \in sent[a[1]]
    <3>1. CASE sent' = sent
      BY <3>1
    <3>2. ASSUME NEW c \in Calls, Writes(c) PROVE s \in sent[a[1]]
      <4>1. PICK r \in Requests :
              /\ r.txid[1] = c
              /\ sent'[tr[c]] = sent[tr[c]] \cup {r}
              /\ \A u \in (DOMAIN Trackers) \ {tr[c]} : sent'[u] = sent[u]
        BY <3>2, WrittenFacts
      <4>2. a[1] = tr[c] => c # d
        BY <1>0, <2>1, <2>2
      <4> QED
        BY <2>1, <2>4, <4>1, <4>2
    <3> QED
      BY <3>1, <3>2, SentCases
  <2> QED
    BY <2>2, <2>3, <2>4
<1>2. CASE a \notin took[d]
  <2>1. PICK c \in Calls, bin \in Answers : Gets(c, bin)
    <3>1. took' # took
      BY <1>2
    <3>2. Idles => took' = took
      BY Zenon DEF Idles
    <3>3. ASSUME NEW c \in Calls, Move(c), ~ \E bin \in Answers : Gets(c, bin)
          PROVE  took' = took
      BY <3>3, Zenon DEF Move, Begins, Asks, Fails, Writes, Waits, Again, Returns, Kept
    <3> QED
      BY <3>1, <3>2, <3>3, StepCases, Zenon
  <2>2. PICK r \in sent[tr[c]] :
           /\ pc[c] = "announceRead"
           /\ r.kind = "announce" /\ r.txid = Txid(c)
           /\ took' = [took EXCEPT ![c] = took[c] \cup {<<tr[c], r>>}]
    BY <1>2, <2>1, Zenon DEF Gets
  <2>3. d = c /\ a = <<tr[c], r>>
    BY <1>2, <2>2 DEF SentTypes
  <2>4. tr[c] \in DOMAIN Trackers /\ sent' = sent /\ tr'[c] = tr[c] + 1
    BY <2>1 DEF Gets, CallTypes
  <2>5. r.cid = r.txid /\ r.txid[1] = c /\ r.txid[2] = try[c]
    <3>1. r.cid = r.txid
      BY <2>2, <2>4 DEF SentIds
    <3>2. Txid(c)[1] = c /\ Txid(c)[2] = try[c]
      BY RequestFacts
    <3> QED
      BY <2>2, <3>1, <3>2
  <2>6. ASSUME NEW s \in sent[tr[c]], s.txid[1] = c PROVE s.txid[2] <= try[c]
    BY <1>0, <2>3, <2>4, <2>6 DEF SentSoFar
  <2>7. a[1] = tr[c] /\ a[2] = r
    BY <2>3
  <2> QED
    BY <1>0, <2>3, <2>4, <2>5, <2>6, <2>7
<1> QED
  BY <1>1, <1>2

-----------------------------------------------------------------------------
(* What a call returns.                                                    *)

GotOf(w) == UNION {ToSet(parsePeers(bin)) : bin \in w}

\* The list of a call is what its trackers have answered so far.
LEMMA GatheredStep ==
  ASSUME Types, Gathered, [Next]_vars
  PROVE  Gathered'
<1> USE Assumptions DEF Types
<1>0. ASSUME NEW d \in Calls
      PROVE  ToSet(allPeers[d]) = GotOf(won[d]) /\ (won[d] = {} /\ tr[d] > 1 => lastErr[d])
  BY DEF Gathered, Got, GotOf
<1> SUFFICES ASSUME NEW d \in Calls
             PROVE  /\ ToSet(allPeers'[d]) = GotOf(won'[d])
                    /\ won'[d] = {} /\ tr'[d] > 1 => lastErr'[d]
  BY DEF Gathered, Got, GotOf
<1>1. CASE UNCHANGED <<allPeers, won, tr, lastErr>>
  BY <1>0, <1>1
<1>2. ASSUME NEW c \in Calls, Fails(c)
      PROVE  /\ ToSet(allPeers'[d]) = GotOf(won'[d])
             /\ won'[d] = {} /\ tr'[d] > 1 => lastErr'[d]
  <2>1. allPeers' = allPeers /\ won' = won
    BY <1>2, Zenon DEF Fails
  <2>2. d = c => lastErr'[d]
    BY <1>2 DEF Fails, FlagTypes
  <2>3. d # c => lastErr'[d] = lastErr[d] /\ tr'[d] = tr[d]
    BY <1>2 DEF Fails, FlagTypes, CallTypes
  <2> QED
    BY <1>0, <2>1, <2>2, <2>3
<1>3. ASSUME NEW c \in Calls, NEW bin \in Answers, Gets(c, bin)
      PROVE  /\ ToSet(allPeers'[d]) = GotOf(won'[d])
             /\ won'[d] = {} /\ tr'[d] > 1 => lastErr'[d]
  <2>1. lastErr' = lastErr
    BY <1>3, Zenon DEF Gets
  <2>2. CASE d # c
    <3>1. allPeers'[d] = allPeers[d] /\ won'[d] = won[d] /\ tr'[d] = tr[d]
      BY <1>3, <2>2 DEF Gets, CallTypes, ListTypes
    <3> QED
      BY <1>0, <2>1, <3>1
  <2>3. CASE d = c
    <3>1. allPeers'[d] = allPeers[d] \o parsePeers(bin) /\ won'[d] = won[d] \cup {bin}
      BY <1>3, <2>3 DEF Gets, ListTypes
    <3>2. ToSet(allPeers'[d]) = ToSet(allPeers[d]) \cup ToSet(parsePeers(bin))
      <4>1. allPeers[d] \in Seq(Peers) /\ parsePeers(bin) \in Seq(Peers)
        BY ParsedFacts DEF ListTypes
      <4> QED
        BY <3>1, <4>1, ElementsOfConcatenation
    <3>3. GotOf(won[d] \cup {bin}) = GotOf(won[d]) \cup ToSet(parsePeers(bin))
      BY DEF GotOf
    <3> QED
      BY <1>0, <3>1, <3>2, <3>3
  <2> QED
    BY <2>2, <2>3
<1>4. ASSUME NEW c \in Calls, Move(c), ~Fails(c), ~ \E bin \in Answers : Gets(c, bin)
      PROVE  UNCHANGED <<allPeers, won, tr, lastErr>>
  BY <1>4, Zenon DEF Move, Begins, Asks, Writes, Waits, Again, Returns, Kept
<1>5. Idles => UNCHANGED <<allPeers, won, tr, lastErr>>
  BY Zenon DEF Idles
<1> QED
  BY <1>1, <1>2, <1>3, <1>4, <1>5, StepCases, Zenon
\* What Merged says of one call: the lists it took, its result, its error.
MergedAs(w, r, e) ==
    /\ ToSet(r.peers) = GotOf(w)
    /\ Len(r.peers) = Cardinality(GotOf(w))
    /\ ~r.ok => e /\ GotOf(w) = {}
    /\ w = {} /\ Trackers # <<>> => ~r.ok

\* It is returned without duplicates, or there is an error to return.
LEMMA MergedStep ==
  ASSUME Types, Gathered, Merged, [Next]_vars
  PROVE  Merged'
<1> USE Assumptions DEF Types
<1>0. ASSUME NEW d \in Calls, pc[d] = "done" PROVE MergedAs(won[d], ret[d], lastErr[d])
  BY <1>0 DEF Merged, MergedAs, GotOf
<1> SUFFICES ASSUME NEW d \in Calls, pc'[d] = "done"
             PROVE  MergedAs(won'[d], ret'[d], lastErr'[d])
  BY DEF Merged, MergedAs, GotOf
<1>1. CASE Idles
  <2>1. pc' = pc /\ won' = won /\ ret' = ret /\ lastErr' = lastErr
    BY <1>1, Zenon DEF Idles
  <2> QED
    BY <1>0, <2>1
<1>2. ASSUME NEW c \in Calls, Move(c) PROVE MergedAs(won'[d], ret'[d], lastErr'[d])
  <2>1. CASE c # d
    <3>1. pc' = pc \/ \E l : pc' = [pc EXCEPT ![c] = l]
      BY <1>2, Zenon DEF Move, Begins, Asks, Fails, Gets, Writes, Waits, Again, Returns
    <3>2. won' = won \/ \E n : won' = [won EXCEPT ![c] = n]
      BY <1>2, Zenon DEF Move, Begins, Asks, Fails, Gets, Writes, Waits, Again, Returns, Kept
    <3>3. ret' = ret \/ \E n : ret' = [ret EXCEPT ![c] = n]
      BY <1>2, Zenon DEF Move, Begins, Asks, Fails, Gets, Writes, Waits, Again, Returns, Kept
    <3>4. lastErr' = lastErr \/ lastErr' = [lastErr EXCEPT ![c] = TRUE]
      BY <1>2, Zenon DEF Move, Begins, Asks, Fails, Gets, Writes, Waits, Again, Returns, Kept
    <3>5. pc'[d] = pc[d] /\ won'[d] = won[d] /\ ret'[d] = ret[d]
      BY <2>1, <3>1, <3>2, <3>3 DEF CallTypes, ListTypes
    <3>6. lastErr'[d] = lastErr[d]
      BY <2>1, <3>4 DEF FlagTypes
    <3> QED
      BY <1>0, <3>5, <3>6
  <2>2. CASE c = d
    <3>1. Returns(d)
      <4>1. CASE \/ pc' = [pc EXCEPT ![c] = "next"] \/ pc' = [pc EXCEPT ![c] = "connect"]
                 \/ pc' = [pc EXCEPT ![c] = "http"]
        BY <2>2, <4>1 DEF CallTypes
      <4>2. ~Writes(c) /\ ~Waits(c)
        BY <2>2 DEF Writes, Waits, CallTypes
      <4> QED
        BY <1>2, <2>2, <4>1, <4>2, Zenon DEF Move, Begins, Asks, Fails, Gets, Again
    <3>2. PICK u : u = uniquePeers(allPeers[d])
      OBVIOUS
    <3>3. /\ u \in Seq(Peers) /\ ToSet(u) = GotOf(won[d])
          /\ Len(u) = Cardinality(GotOf(won[d]))
      <4>1. allPeers[d] \in Seq(Peers) /\ ToSet(allPeers[d]) = GotOf(won[d])
        BY DEF ListTypes, Gathered, Got, GotOf
      <4> QED
        BY <3>2, <4>1, UniqueFacts
    <3>4. u = <<>> <=> GotOf(won[d]) = {}
      BY <3>3, ElementsIn
    <3>5. won' = won /\ lastErr' = lastErr
      BY <3>1, Zenon DEF Returns
    <3>6. ret'[d] = IF u = <<>> /\ lastErr[d] THEN [ok |-> FALSE, peers |-> <<>>]
                    ELSE [ok |-> TRUE, peers |-> u]
      BY <3>1, <3>2 DEF Returns, Result, ListTypes
    <3>7. CASE u = <<>> /\ lastErr[d]
      <4>1. ret'[d].ok = FALSE /\ ret'[d].peers = u
        BY <3>6, <3>7
      <4> QED
        BY <3>3, <3>4, <3>5, <3>7, <4>1 DEF MergedAs
    <3>8. CASE ~(u = <<>> /\ lastErr[d])
      <4>1. ret'[d].ok = TRUE /\ ret'[d].peers = u
        BY <3>6, <3>8
      <4>2. ~(won[d] = {} /\ Trackers # <<>>)
        <5> SUFFICES ASSUME won[d] = {}, Trackers # <<>> PROVE FALSE
          OBVIOUS
        <5>1. GotOf(won[d]) = {}
          BY DEF GotOf
        <5>2. tr[d] > 1
          <6>1. tr[d] > Len(Trackers) /\ tr[d] \in Nat /\ Len(Trackers) >= 1
            BY <3>1 DEF Returns, CallTypes
          <6> QED
            BY <6>1
        <5>3. lastErr[d]
          BY <5>2 DEF Gathered
        <5> QED
          BY <3>4, <3>8, <5>1, <5>3
      <4> QED
        BY <3>3, <3>5, <4>1, <4>2 DEF MergedAs
    <3> QED
      BY <3>7, <3>8
  <2> QED
    BY <2>1, <2>2
<1> QED
  BY <1>1, <1>2, StepCases

-----------------------------------------------------------------------------
(* The theorems.                                                           *)

Inv == /\ Types /\ CidOfTry /\ SentIds /\ SentSoFar /\ TakenIsPast /\ OwnAnswer
       /\ Gathered /\ Merged

\* The invariant holds before the first announce.
LEMMA InitInv == Init => Inv
<1> SUFFICES ASSUME Init PROVE Inv
  OBVIOUS
<1> USE Assumptions
<1>1. CallTypes /\ AtTracker
  BY DEF Init, CallTypes, AtTracker, Udp, Txids, NoCid
<1>2. FlagTypes
  BY DEF Init, FlagTypes
<1>3. ListTypes
  <2>1. <<>> \in Seq(Peers)
    OBVIOUS
  <2> QED
    BY <2>1 DEF Init, ListTypes
<1>4. SentTypes
  BY DEF Init, SentTypes
<1>5. CidOfTry /\ SentIds /\ SentSoFar
  BY DEF Init, CidOfTry, SentIds, SentSoFar
<1>6. TakenIsPast /\ OwnAnswer
  BY DEF Init, TakenIsPast, OwnAnswer
<1>7. Gathered
  <2>1. \A c \in Calls : allPeers[c] = <<>> /\ won[c] = {} /\ tr[c] = 1
    BY DEF Init
  <2> QED
    BY <2>1, ElementsOfEmpty DEF Gathered, Got
<1>8. Merged
  BY DEF Init, Merged
<1> QED
  BY <1>1, <1>2, <1>3, <1>4, <1>5, <1>6, <1>7, <1>8 DEF Inv, Types

\* The inductive invariant holds in every state.
LEMMA Invariance == Spec => []Inv
<1>1. ASSUME Inv, [Next]_vars PROVE Inv'
  <2>1. Types'
    BY <1>1, CallTypesStep, FlagTypesStep, ListTypesStep, SentTypesStep DEF Inv, Types
  <2>2. CidOfTry' /\ SentIds' /\ SentSoFar'
    BY <1>1, CidStep, IdsStep, SentStep DEF Inv
  <2>3. TakenIsPast' /\ OwnAnswer'
    BY <1>1, OwnAnswerStep DEF Inv
  <2>4. Gathered' /\ Merged'
    BY <1>1, GatheredStep, MergedStep DEF Inv
  <2> QED
    BY <2>1, <2>2, <2>3, <2>4 DEF Inv
<1> QED
  BY <1>1, InitInv, PTL DEF Spec

\* Type correctness: in particular a call makes at most MaxRetries tries with
\* a tracker and never asks one past the end of the list.
THEOREM TrackerTypes == Spec => []TypeOK
<1>1. Inv => TypeOK
  <2> SUFFICES ASSUME Inv PROVE TypeOK
    OBVIOUS
  <2>1. /\ pc \in [Calls -> {"idle", "next", "http", "connect", "connectRead", "clear",
                            "announce", "announceRead", "sleep", "done"}]
        /\ tr \in [Calls -> 1 .. Len(Trackers) + 1]
        /\ try \in [Calls -> 0 .. MaxRetries - 1]
        /\ cid \in [Calls -> Txids \cup {NoCid}]
        /\ reader \in [DOMAIN Trackers -> Calls \cup {NoCall}]
        /\ deadline \in [DOMAIN Trackers -> {"none", "set", "passed"}]
    BY DEF Inv, Types, CallTypes, Udp
  <2>2. lastErr \in [Calls -> BOOLEAN] /\ shared \in [Calls -> BOOLEAN]
    BY DEF Inv, Types, FlagTypes
  <2>3. /\ allPeers \in [Calls -> Seq(Peers)]
        /\ ret \in [Calls -> [ok : BOOLEAN, peers : Seq(Peers)]]
        /\ \A c \in Calls : won[c] \subseteq Answers
    BY DEF Inv, Types, ListTypes
  <2>4. \A t \in DOMAIN Trackers : \A r \in sent[t] :
          r \in [kind : {"connect", "announce"}, txid : Txids, cid : Txids \cup {NoCid}]
    BY DEF Inv, Types, SentTypes, Requests
  <2> QED
    BY <2>1, <2>2, <2>3, <2>4, Zenon DEF TypeOK
<1> QED
  BY <1>1, Invariance, PTL

\* The answer that udpAnnounceRequest takes is the reply to the call's own
\* last announce, with the connection id of the same try, however many calls
\* share the socket and whatever replies come late, twice or out of order.
THEOREM AnswersAreOwn == Spec => []OwnAnswer
<1>1. Inv => OwnAnswer
  BY DEF Inv
<1> QED
  BY <1>1, Invariance, PTL

\* MultiTracker.Announce returns every peer that some tracker gave, each
\* once, and an error only if there is none.
THEOREM AnswersAreMerged == Spec => []Merged
<1>1. Inv => Merged
  BY DEF Inv
<1> QED
  BY <1>1, Invariance, PTL
=============================================================================
