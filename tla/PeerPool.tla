------------------------------ MODULE PeerPool ------------------------------
(***************************************************************************)
(* The peer connections of internal/torrent/torrent.go: the goroutines     *)
(* that the tracker's answers (connectToPeers) and the DHT                 *)
(* (connectAndHandlePeer) start, the life of handlePeer in them, the count *)
(* ActivePeers, the map activePeers, the map failedPeers, the manager that *)
(* cleans both up (managePeerConnections), and the announces that ask for  *)
(* more peers.                                                             *)
(*                                                                         *)
(* A task is one such goroutine.  What its handler does with the messages  *)
(* it reads is the subject of Torrent; here it reads, works, and ends.     *)
(***************************************************************************)
EXTENDS Integers, FiniteSets

CONSTANTS
    TrackerTasks,   \* goroutines running connectToPeers
    DhtTasks,       \* goroutines running connectAndHandlePeer
    NoTask,
    Addrs,          \* peer addresses
    AddrOf,         \* the address each task is for
    MaxRetries,     \* dials of one connectToPeers (5 in the code)
    AnnounceTries,  \* tries of announceWithRetry (5 in the code)
    LowWater        \* the manager asks for peers below this (10 in the code)

Tasks == TrackerTasks \cup DhtTasks

ASSUME TasksAssumption ==
    /\ TrackerTasks \cap DhtTasks = {}
    /\ NoTask \notin Tasks
    /\ IsFiniteSet(Tasks)
    /\ AddrOf \in [Tasks -> Addrs]

ASSUME LimitsAssumption ==
    MaxRetries \in Nat \ {0} /\ AnnounceTries \in Nat \ {0} /\ LowWater \in Nat

VARIABLES
    pc,           \* where each task is
    tries,        \* dials a connectToPeers has made
    conn,         \* its connection: "none", "open" or "closed"
    stale,        \* its peer was last heard of more than two minutes ago
    timeout,      \* the 30 seconds of connectAndHandlePeer are over
    ActivePeers,  \* Torrent.ActivePeers
    activePeers,  \* Torrent.activePeers
    failedPeers,  \* Torrent.failedPeers: "no", "fresh", or "old" (over 5 min)
    mgr,          \* where managePeerConnections is
    announce,     \* where announceWithRetry is
    announces,    \* announces that have failed
    more,         \* a requestMorePeers is under way
    ctxDone       \* the download context is cancelled

taskVars == <<pc, tries, conn, stale, timeout>>
poolVars == <<ActivePeers, activePeers, failedPeers>>
askVars  == <<mgr, announce, announces, more>>
vars == <<taskVars, poolVars, askVars, ctxDone>>

Init ==
    /\ pc = [t \in Tasks |-> "idle"]
    /\ tries = [t \in Tasks |-> 0]
    /\ conn = [t \in Tasks |-> "none"]
    /\ stale = [t \in Tasks |-> FALSE]
    /\ timeout = [t \in Tasks |-> FALSE]
    /\ ActivePeers = 0
    /\ activePeers = [a \in Addrs |-> NoTask]
    /\ failedPeers = [a \in Addrs |-> "no"]
    /\ mgr = "wait"
    /\ announce = "try" /\ announces = 0
    /\ more = FALSE
    /\ ctxDone = FALSE

\* The context of a task is done.
CtxDone(t) == ctxDone \/ timeout[t]

Goto(t, l) == pc' = [pc EXCEPT ![t] = l]

\* A step of task t that changes nothing but where it is.
Step(t, from, to) ==
    /\ pc[t] = from
    /\ Goto(t, to)
    /\ UNCHANGED <<tries, conn, stale, timeout, poolVars, askVars, ctxDone>>

-----------------------------------------------------------------------------
(* Asking for peers.  The addresses in an answer become tasks; some of     *)
(* them may be known already.                                              *)

\* A tracker answered: go connectToPeers for every address in the answer.
StartTracker ==
    \E S \in SUBSET {t \in TrackerTasks : pc[t] = "idle"} :
        pc' = [t \in Tasks |-> IF t \in S THEN "limit" ELSE pc[t]]

AnnounceOk ==
    /\ announce = "try"
    /\ StartTracker
    /\ announce' = "done"
    /\ UNCHANGED <<tries, conn, stale, timeout, poolVars, mgr, announces, more, ctxDone>>

\* The wait after a failed try also follows the last one.
AnnounceFails ==
    /\ announce = "try"
    /\ announces' = announces + 1
    /\ announce' = "backoff"
    /\ UNCHANGED <<taskVars, poolVars, mgr, more, ctxDone>>

\* Mutant of AnnounceAgain: one try too many.
AnnounceOnceTooOften ==
    /\ announce = "backoff"
    /\ announce' = IF announces <= AnnounceTries THEN "try" ELSE "done"
    /\ UNCHANGED <<taskVars, poolVars, mgr, announces, more, ctxDone>>

AnnounceAgain ==
    /\ announce = "backoff"
    /\ announce' = IF announces < AnnounceTries THEN "try" ELSE "done"
    /\ UNCHANGED <<taskVars, poolVars, mgr, announces, more, ctxDone>>

AnnounceCancelled ==
    /\ announce = "backoff" /\ ctxDone
    /\ announce' = "done"
    /\ UNCHANGED <<taskVars, poolVars, mgr, announces, more, ctxDone>>

\* The five-minute ticker of Download, or its main loop.  A select that
\* finds the context done and a tick waiting may take the tick.
AskForMore ==
    /\ ~more
    /\ more' = TRUE
    /\ UNCHANGED <<taskVars, poolVars, mgr, announce, announces, ctxDone>>

\* requestMorePeers: the announce answers, or fails and is dropped.
requestMorePeers ==
    /\ more
    /\ more' = FALSE
    /\ StartTracker \/ UNCHANGED pc
    /\ UNCHANGED <<tries, conn, stale, timeout, poolVars, mgr, announce, announces, ctxDone>>

\* discoverPeers met the address of t for the first time in its traversal;
\* two traversals run side by side and do not know of each other.
DiscoverPeer(t) == t \in DhtTasks /\ Step(t, "idle", "check")

-----------------------------------------------------------------------------
(* connectToPeers and connectAndHandlePeer, up to the connection.          *)

\* peerLimiter.Wait lets the task go on.
LimiterWait(t) == Step(t, "limit", "check")

LimiterRefuses(t) == ctxDone /\ Step(t, "limit", "done")

\* connectToPeers gives up on any entry of the map, connectAndHandlePeer
\* only on one of less than five minutes (isFailed).
Skips(t) ==
    IF t \in TrackerTasks THEN failedPeers[AddrOf[t]] # "no"
                          ELSE failedPeers[AddrOf[t]] = "fresh"

CheckFailed(t) == Step(t, "check", IF Skips(t) THEN "done" ELSE "dial")

\* Connect: the dial and the handshake succeed.
ConnectOk(t) ==
    /\ pc[t] = "dial"
    /\ conn' = [conn EXCEPT ![t] = "open"]
    /\ Goto(t, "count")
    /\ UNCHANGED <<tries, stale, timeout, poolVars, askVars, ctxDone>>

\* Connect fails; a connection whose handshake failed is closed again.  Its
\* two calls of SetDeadline fail only on a closed connection, and nothing
\* else knows this one yet: those returns are not taken.
ConnectFails(t) ==
    /\ pc[t] = "dial"
    /\ tries' = IF t \in TrackerTasks THEN [tries EXCEPT ![t] = tries[t] + 1] ELSE tries
    /\ \/ UNCHANGED conn
       \/ conn' = [conn EXCEPT ![t] = "closed"]
    /\ Goto(t, IF t \in TrackerTasks /\ tries'[t] < MaxRetries THEN "backoff" ELSE "mark")
    /\ UNCHANGED <<stale, timeout, poolVars, askVars, ctxDone>>

BackoffEnds(t) == Step(t, "backoff", "limit")

BackoffCancelled(t) == ctxDone /\ Step(t, "backoff", "done")

markFailed(t) ==
    /\ pc[t] = "mark"
    /\ failedPeers' = [failedPeers EXCEPT ![AddrOf[t]] = "fresh"]
    /\ Goto(t, "done")
    /\ UNCHANGED <<tries, conn, stale, timeout, ActivePeers, activePeers, askVars, ctxDone>>

\* The connection is counted; only connectAndHandlePeer registers it.
CountPeer(t) ==
    /\ pc[t] = "count"
    /\ ActivePeers' = ActivePeers + 1
    /\ activePeers' = IF t \in DhtTasks THEN [activePeers EXCEPT ![AddrOf[t]] = t]
                      ELSE activePeers
    /\ Goto(t, "select")
    /\ UNCHANGED <<tries, conn, stale, timeout, failedPeers, askVars, ctxDone>>

-----------------------------------------------------------------------------
(* handlePeer.                                                             *)

\* The select: the context or the idle timer, which has fired if the last
\* message took more than two minutes; else the next message.  The mutant
\* does not look at the context.
LeavesWhenIdle(t) == stale[t]
Leaves(t) == CtxDone(t) \/ stale[t]

Select(t) == Step(t, "select", IF Leaves(t) THEN "disconnect" ELSE "read")

ReadMessage(t) == conn[t] = "open" /\ Step(t, "read", "work")

\* The connection broke or was closed, or the read deadline passed.
ReadFails(t) == Step(t, "read", "disconnect")

\* The message is dealt with, at its pace: t.mu and the disk may be slow.
\* The mutant drains the channel of an idle timer that has fired already.
WorkHangs(t) == ~stale[t] /\ Step(t, "work", "select")
WorkEnds(t) == Step(t, "work", "select")

WorkIsSlow(t) ==
    /\ pc[t] = "work" /\ ~stale[t]
    /\ stale' = [stale EXCEPT ![t] = TRUE]
    /\ UNCHANGED <<pc, tries, conn, timeout, poolVars, askVars, ctxDone>>

\* Mutant of Disconnect: the connection stays open.
DisconnectForgotten(t) ==
    /\ pc[t] = "disconnect"
    /\ Goto(t, "uncount")
    /\ UNCHANGED <<tries, conn, stale, timeout, poolVars, askVars, ctxDone>>

\* The deferred function of handlePeer.
Disconnect(t) ==
    /\ pc[t] = "disconnect"
    /\ conn' = [conn EXCEPT ![t] = "closed"]
    /\ Goto(t, "uncount")
    /\ UNCHANGED <<tries, stale, timeout, poolVars, askVars, ctxDone>>

\* Mutant of UncountPeer: the count stays.
UncountForgotten(t) ==
    /\ pc[t] = "uncount"
    /\ Goto(t, IF t \in DhtTasks THEN "unregister" ELSE "done")
    /\ UNCHANGED <<tries, conn, stale, timeout, poolVars, askVars, ctxDone>>

UncountPeer(t) ==
    /\ pc[t] = "uncount"
    /\ ActivePeers' = ActivePeers - 1
    /\ Goto(t, IF t \in DhtTasks THEN "unregister" ELSE "done")
    /\ UNCHANGED <<tries, conn, stale, timeout, activePeers, failedPeers, askVars, ctxDone>>

\* Mutant of Unregister: the entry stays.
UnregisterForgotten(t) ==
    /\ pc[t] = "unregister"
    /\ ActivePeers' = ActivePeers - 1
    /\ Goto(t, "done")
    /\ UNCHANGED <<tries, conn, stale, timeout, activePeers, failedPeers, askVars, ctxDone>>

\* The deferred function of connectAndHandlePeer counts the peer out again.
Unregister(t) ==
    /\ pc[t] = "unregister"
    /\ activePeers' = [activePeers EXCEPT ![AddrOf[t]] = NoTask]
    /\ ActivePeers' = ActivePeers - 1
    /\ Goto(t, "done")
    /\ UNCHANGED <<tries, conn, stale, timeout, failedPeers, askVars, ctxDone>>

-----------------------------------------------------------------------------
(* managePeerConnections.                                                  *)

ManagerTick ==
    /\ mgr = "wait"
    /\ mgr' = "peers"
    /\ more' = (more \/ ActivePeers < LowWater)
    /\ UNCHANGED <<taskVars, poolVars, announce, announces, ctxDone>>

\* Registered peers that have been silent for two minutes are cut off and
\* counted out, in one go under activePeersMutex.
Silent == {a \in Addrs : activePeers[a] # NoTask /\ stale[activePeers[a]]}

cleanupDisconnectedPeers ==
    /\ mgr = "peers"
    /\ conn' = [t \in Tasks |-> IF \E a \in Silent : activePeers[a] = t THEN "closed"
                                ELSE conn[t]]
    /\ activePeers' = [a \in Addrs |-> IF a \in Silent THEN NoTask ELSE activePeers[a]]
    /\ ActivePeers' = ActivePeers - Cardinality(Silent)
    /\ mgr' = "failed"
    /\ UNCHANGED <<pc, tries, stale, timeout, failedPeers, announce, announces, more, ctxDone>>

\* Mutant of cleanupFailedPeers: the comparison is turned round.
cleanupRecentFailures ==
    /\ mgr = "failed"
    /\ failedPeers' = [a \in Addrs |-> IF failedPeers[a] = "fresh" THEN "no"
                                       ELSE failedPeers[a]]
    /\ mgr' = "wait"
    /\ UNCHANGED <<taskVars, ActivePeers, activePeers, announce, announces, more, ctxDone>>

cleanupFailedPeers ==
    /\ mgr = "failed"
    /\ failedPeers' = [a \in Addrs |-> IF failedPeers[a] = "old" THEN "no"
                                       ELSE failedPeers[a]]
    /\ mgr' = "wait"
    /\ UNCHANGED <<taskVars, ActivePeers, activePeers, announce, announces, more, ctxDone>>

ManagerStops ==
    /\ mgr = "wait" /\ ctxDone
    /\ mgr' = "stopped"
    /\ UNCHANGED <<taskVars, poolVars, announce, announces, more, ctxDone>>

-----------------------------------------------------------------------------
(* Time and the user.                                                      *)

\* Five minutes since the address was marked.
FailureAges(a) ==
    /\ failedPeers[a] = "fresh"
    /\ failedPeers' = [failedPeers EXCEPT ![a] = "old"]
    /\ UNCHANGED <<taskVars, ActivePeers, activePeers, askVars, ctxDone>>

\* Thirty seconds since connectAndHandlePeer began.
TaskTimeout(t) ==
    /\ t \in DhtTasks /\ pc[t] \notin {"idle", "check", "done"} /\ ~timeout[t]
    /\ timeout' = [timeout EXCEPT ![t] = TRUE]
    /\ UNCHANGED <<pc, tries, conn, stale, poolVars, askVars, ctxDone>>

Cancel ==
    /\ ~ctxDone
    /\ ctxDone' = TRUE
    /\ UNCHANGED <<taskVars, poolVars, askVars>>

Advance(t) ==
    \/ LimiterWait(t) \/ LimiterRefuses(t) \/ CheckFailed(t)
    \/ ConnectOk(t) \/ ConnectFails(t) \/ BackoffEnds(t) \/ BackoffCancelled(t)
    \/ markFailed(t) \/ CountPeer(t)
    \/ Select(t) \/ ReadMessage(t) \/ ReadFails(t) \/ WorkEnds(t)
    \/ Disconnect(t) \/ UncountPeer(t) \/ Unregister(t)

Manager ==
    ManagerTick \/ cleanupDisconnectedPeers \/ cleanupFailedPeers \/ ManagerStops

Announcer == AnnounceOk \/ AnnounceFails \/ AnnounceAgain \/ AnnounceCancelled

\* After a cancellation everything has come to its end.
Drained ==
    /\ ctxDone /\ mgr = "stopped" /\ announce = "done" /\ ~more
    /\ \A t \in Tasks : pc[t] \in {"idle", "done"}
    /\ UNCHANGED vars

Next ==
    \/ \E t \in Tasks : Advance(t) \/ DiscoverPeer(t) \/ WorkIsSlow(t) \/ TaskTimeout(t)
    \/ \E a \in Addrs : FailureAges(a)
    \/ Manager \/ Announcer \/ AskForMore \/ requestMorePeers \/ Cancel
    \/ Drained

Spec == Init /\ [][Next]_vars

(***************************************************************************)
(* Fairness.  A goroutine that can run does: dials, reads and waits all    *)
(* have deadlines, and timers fire.  Nothing makes an announce end (see    *)
(* Tracker), peers appear, messages arrive or the user cancel.             *)
(***************************************************************************)
Fairness ==
    /\ \A t \in Tasks : WF_vars(Advance(t))
    /\ \A a \in Addrs : WF_vars(FailureAges(a))
    /\ WF_vars(Manager)

FairSpec == Spec /\ Fairness

-----------------------------------------------------------------------------
(* Properties.                                                             *)

\* Tasks with a running handlePeer, up to its decrement of the count.
Live == {t \in Tasks : pc[t] \in {"select", "read", "work", "disconnect", "uncount"}}

TypeOK ==
    /\ pc \in [Tasks -> {"idle", "limit", "check", "dial", "backoff", "mark", "count",
                         "select", "read", "work", "disconnect", "uncount",
                         "unregister", "done"}]
    /\ tries \in [Tasks -> 0 .. MaxRetries]
    /\ conn \in [Tasks -> {"none", "open", "closed"}]
    /\ stale \in [Tasks -> BOOLEAN] /\ timeout \in [Tasks -> BOOLEAN]
    /\ ActivePeers \in Int
    /\ activePeers \in [Addrs -> Tasks \cup {NoTask}]
    /\ failedPeers \in [Addrs -> {"no", "fresh", "old"}]
    /\ mgr \in {"wait", "peers", "failed", "stopped"}
    /\ announce \in {"try", "backoff", "done"}
    /\ announces \in 0 .. AnnounceTries
    /\ more \in BOOLEAN /\ ctxDone \in BOOLEAN

(***************************************************************************)
(* ActivePeers never claims a connection that is not there, so the client  *)
(* never believes it has enough peers when it has not, whatever ends a     *)
(* connection: the peer, the context, the timeout or the manager.          *)
(***************************************************************************)
NeverOverstated == ActivePeers <= Cardinality(Live)


(***************************************************************************)
(* As long as the DHT has found no peer, the count is exact, at every step *)
(* of every connection: the limit below which the client asks its trackers *)
(* for more peers means what it says.                                      *)
(***************************************************************************)
TrackerCountIsExact ==
    (\A t \in DhtTasks : pc[t] = "idle") => ActivePeers = Cardinality(Live)

(***************************************************************************)
(* An entry of activePeers belongs to a goroutine for that address that    *)
(* has still to run the deferred function which removes it: no entry       *)
(* outlives its goroutine, even when several connections to one address    *)
(* overwrite each other's entry.  Its connection may be closed and counted *)
(* out by then, and the manager may count it out once more.                *)
(***************************************************************************)
RegisteredIsLive ==
    \A a \in Addrs : activePeers[a] # NoTask =>
        /\ AddrOf[activePeers[a]] = a
        /\ activePeers[a] \in Live \/ pc[activePeers[a]] = "unregister"

(***************************************************************************)
(* No goroutine ends and leaves its connection open, on any path through   *)
(* retries, failed handshakes, cancellation and clean-up.                  *)
(***************************************************************************)
NoLeak == \A t \in Tasks : pc[t] \in {"idle", "uncount", "unregister", "done"}
                              => conn[t] # "open"

(***************************************************************************)
(* After a cancellation every goroutine comes to its end, wherever it was. *)
(***************************************************************************)
CancelDrains == \A t \in Tasks : (ctxDone /\ pc[t] # "idle") ~> pc[t] = "done"

(***************************************************************************)
(* A peer the manager has cut off is no longer read from: its handler ends.*)
(***************************************************************************)
CutOffEnds == \A t \in Tasks : (conn[t] = "closed" /\ t \in Live) ~> pc[t] = "done"

(***************************************************************************)
(* A DHT connection whose 30 seconds are over, or whose peer was silent    *)
(* for two minutes, ends by itself: also when another connection to its    *)
(* address has overwritten or deleted its entry of activePeers, where the  *)
(* manager would look for it.                                              *)
(***************************************************************************)
TimeoutEnds == \A t \in DhtTasks : (timeout[t] \/ stale[t]) ~> pc[t] = "done"

(***************************************************************************)
(* A failure does not count for ever: its entry is removed after its time, *)
(* unless the download is over.                                            *)
(***************************************************************************)
FailureExpires ==
    \A a \in Addrs : failedPeers[a] = "old" ~> (failedPeers[a] # "old" \/ ctxDone)
=============================================================================
