--------------------------- MODULE PeerPoolProofs ---------------------------
(* Theorems about PeerPool, for every value of its constants: any number of*)
(* goroutines of both kinds, any addresses, shared between them or not.    *)
EXTENDS PeerPool, FiniteSetTheorems, TLAPS

-----------------------------------------------------------------------------
(* What has to be strengthened.                                            *)

\* connectToPeers that may still dial has a try left, and so has
\* announceWithRetry.
TriesLeft ==
    /\ \A t \in TrackerTasks :
          pc[t] \in {"idle", "limit", "check", "dial", "backoff"} => tries[t] < MaxRetries
    /\ announce = "try" => announces < AnnounceTries

\* A connection is open only between Connect and the deferred Disconnect.
OpenWhileUsed ==
    \A t \in Tasks : conn[t] = "open" =>
        pc[t] \in {"count", "select", "read", "work", "disconnect"}

\* Only connectAndHandlePeer registers, and only it unregisters.
DhtRegisters ==
    /\ \A a \in Addrs : activePeers[a] # NoTask => activePeers[a] \in DhtTasks
    /\ \A t \in Tasks : pc[t] = "unregister" => t \in DhtTasks

\* The part of the invariant that does not count.
ControlInv ==
    /\ TypeOK
    /\ TriesLeft
    /\ OpenWhileUsed
    /\ DhtRegisters
    /\ RegisteredIsLive

\* Where a task may go in a step that only moves it.
Moves ==
    {<<"limit", "check">>, <<"limit", "done">>, <<"check", "dial">>,
     <<"check", "done">>, <<"backoff", "limit">>, <<"backoff", "done">>,
     <<"select", "read">>, <<"select", "disconnect">>, <<"read", "work">>,
     <<"read", "disconnect">>, <<"work", "select">>}

Move(t) == \E m \in Moves : Step(t, m[1], m[2])

-----------------------------------------------------------------------------
(* The steps of the specification, those that only move a task taken       *)
(* together.                                                               *)

LEMMA StepCases ==
  ASSUME [Next]_vars
  PROVE  \/ \E t \in Tasks :
               \/ Move(t) \/ DiscoverPeer(t)
               \/ ConnectOk(t) \/ ConnectFails(t) \/ markFailed(t) \/ CountPeer(t)
               \/ Disconnect(t) \/ UncountPeer(t) \/ Unregister(t)
               \/ WorkIsSlow(t) \/ TaskTimeout(t)
         \/ \E a \in Addrs : FailureAges(a)
         \/ Manager \/ Announcer \/ AskForMore \/ requestMorePeers \/ Cancel
         \/ UNCHANGED vars
<1>1. ASSUME NEW t \in Tasks,
             \/ LimiterWait(t) \/ LimiterRefuses(t) \/ CheckFailed(t)
             \/ BackoffEnds(t) \/ BackoffCancelled(t)
             \/ Select(t) \/ ReadMessage(t) \/ ReadFails(t) \/ WorkEnds(t)
      PROVE  Move(t)
  <2>1. ASSUME NEW m \in Moves, Step(t, m[1], m[2]) PROVE Move(t)
    BY <2>1 DEF Move
  <2> HIDE DEF Move
  <2>2. CASE LimiterWait(t)
    BY <2>1, <2>2 DEF LimiterWait, Moves
  <2>3. CASE LimiterRefuses(t)
    BY <2>1, <2>3 DEF LimiterRefuses, Moves
  <2>4. CASE CheckFailed(t)
    BY <2>1, <2>4 DEF CheckFailed, Moves
  <2>5. CASE BackoffEnds(t)
    BY <2>1, <2>5 DEF BackoffEnds, Moves
  <2>6. CASE BackoffCancelled(t)
    BY <2>1, <2>6 DEF BackoffCancelled, Moves
  <2>7. CASE Select(t)
    BY <2>1, <2>7 DEF Select, Moves
  <2>8. CASE ReadMessage(t)
    BY <2>1, <2>8 DEF ReadMessage, Moves
  <2>9. CASE ReadFails(t)
    BY <2>1, <2>9 DEF ReadFails, Moves
  <2>10. CASE WorkEnds(t)
    BY <2>1, <2>10 DEF WorkEnds, Moves
  <2> QED
    BY <1>1, <2>2, <2>3, <2>4, <2>5, <2>6, <2>7, <2>8, <2>9, <2>10
<1> QED
  BY <1>1 DEF Next, Advance, Drained

-----------------------------------------------------------------------------
(* The control invariant.                                                  *)

\* The control invariant holds before the first peer.
LEMMA InitControl == Init => ControlInv
<1> SUFFICES ASSUME Init PROVE ControlInv
  OBVIOUS
<1> USE TasksAssumption, LimitsAssumption DEF Init, Tasks
<1>1. TypeOK
  <2>1. /\ stale \in [Tasks -> BOOLEAN] /\ timeout \in [Tasks -> BOOLEAN]
        /\ more \in BOOLEAN /\ ctxDone \in BOOLEAN
    BY Zenon
  <2> QED
    BY <2>1 DEF TypeOK
<1>2. TriesLeft
  BY DEF TriesLeft
<1>3. OpenWhileUsed
  BY DEF OpenWhileUsed
<1>4. DhtRegisters /\ RegisteredIsLive
  BY DEF DhtRegisters, RegisteredIsLive
<1> QED
  BY <1>1, <1>2, <1>3, <1>4 DEF ControlInv

\* What the manager counts out is a number: no two of the addresses it cuts
\* off are registered for one task.
LEMMA SilentIsFinite ==
  ASSUME ControlInv
  PROVE  IsFiniteSet(Silent) /\ Cardinality(Silent) \in Nat
<1> DEFINE f == [a \in Silent |-> activePeers[a]]
<1>1. \A a \in Silent : f[a] \in Tasks /\ AddrOf[f[a]] = a
  BY DEF Silent, ControlInv, TypeOK, RegisteredIsLive
<1>2. f \in [Silent -> Tasks]
  BY <1>1
<1>3. f \in Injection(Silent, Tasks)
  BY <1>1, <1>2 DEF Injection, IsInjective
<1>4. IsFiniteSet(Tasks)
  BY TasksAssumption
<1> HIDE DEF f
<1>5. IsFiniteSet(Silent)
  BY <1>3, <1>4, FS_Injection
<1> QED
  BY <1>5, FS_CardinalityType

\* Every step keeps it.
LEMMA ControlStep == ControlInv /\ [Next]_vars => ControlInv'
<1> SUFFICES ASSUME ControlInv, [Next]_vars PROVE ControlInv'
  OBVIOUS
<1> USE TasksAssumption, LimitsAssumption
    DEF ControlInv, TypeOK, TriesLeft, OpenWhileUsed, DhtRegisters,
        RegisteredIsLive, Live, Tasks, taskVars, poolVars, askVars, Goto
<1>1. ASSUME NEW t \in Tasks, Move(t) PROVE ControlInv'
  BY <1>1 DEF Move, Moves, Step
<1>2. ASSUME NEW t \in Tasks, DiscoverPeer(t) PROVE ControlInv'
  BY <1>2 DEF DiscoverPeer, Step
<1>3. ASSUME NEW t \in Tasks, ConnectOk(t) PROVE ControlInv'
  BY <1>3 DEF ConnectOk
<1>4. ASSUME NEW t \in Tasks, ConnectFails(t) PROVE ControlInv'
  BY <1>4 DEF ConnectFails
<1>5. ASSUME NEW t \in Tasks, markFailed(t) PROVE ControlInv'
  BY <1>5 DEF markFailed
<1>6. ASSUME NEW t \in Tasks, CountPeer(t) PROVE ControlInv'
  BY <1>6 DEF CountPeer
<1>7. ASSUME NEW t \in Tasks, Disconnect(t) PROVE ControlInv'
  BY <1>7 DEF Disconnect
<1>8. ASSUME NEW t \in Tasks, UncountPeer(t) PROVE ControlInv'
  BY <1>8 DEF UncountPeer
<1>9. ASSUME NEW t \in Tasks, Unregister(t) PROVE ControlInv'
  BY <1>9 DEF Unregister
<1>10. ASSUME NEW t \in Tasks, WorkIsSlow(t) PROVE ControlInv'
  BY <1>10 DEF WorkIsSlow
<1>11. ASSUME NEW t \in Tasks, TaskTimeout(t) PROVE ControlInv'
  BY <1>11 DEF TaskTimeout
<1>12. ASSUME NEW a \in Addrs, FailureAges(a) PROVE ControlInv'
  BY <1>12 DEF FailureAges
<1>13. CASE ManagerTick
  BY <1>13 DEF ManagerTick
<1>14. CASE cleanupDisconnectedPeers
  <2>1. Cardinality(Silent) \in Nat
    BY SilentIsFinite
  <2>2. ActivePeers' \in Int
    BY <1>14, <2>1 DEF cleanupDisconnectedPeers
  <2> QED
    BY <1>14, <2>2 DEF cleanupDisconnectedPeers, Silent
<1>15. CASE cleanupFailedPeers
  BY <1>15 DEF cleanupFailedPeers
<1>16. CASE ManagerStops
  BY <1>16 DEF ManagerStops
<1>17. CASE AnnounceOk
  BY <1>17 DEF AnnounceOk, StartTracker
<1>18. CASE AnnounceFails
  BY <1>18 DEF AnnounceFails
<1>19. CASE AnnounceAgain
  BY <1>19 DEF AnnounceAgain
<1>20. CASE AnnounceCancelled
  BY <1>20 DEF AnnounceCancelled
<1>21. CASE AskForMore
  BY <1>21 DEF AskForMore
<1>22. CASE requestMorePeers
  <2>1. CASE StartTracker
    <3>1. more' \in BOOLEAN
      BY <1>22 DEF requestMorePeers
    <3>2. PICK S \in SUBSET {t \in TrackerTasks : pc[t] = "idle"} :
             pc' = [t \in Tasks |-> IF t \in S THEN "limit" ELSE pc[t]]
      BY <2>1 DEF StartTracker
    <3> QED
      BY <1>22, <3>1, <3>2 DEF requestMorePeers
  <2>2. CASE UNCHANGED pc
    BY <1>22, <2>2 DEF requestMorePeers
  <2> QED
    BY <1>22, <2>1, <2>2 DEF requestMorePeers
<1>23. CASE Cancel
  BY <1>23 DEF Cancel
<1>24. CASE UNCHANGED vars
  BY <1>24 DEF vars
<1> QED
  BY StepCases, <1>1, <1>2, <1>3, <1>4, <1>5, <1>6, <1>7, <1>8, <1>9, <1>10, <1>11, <1>12, <1>13, <1>14, <1>15, <1>16, <1>17, <1>18, <1>19, <1>20, <1>21, <1>22, <1>23, <1>24 DEF Manager, Announcer

-----------------------------------------------------------------------------
(* The count.  Every step leaves the handled peers as they are, adds one   *)
(* or removes one, and the count follows, or falls behind.                 *)

\* The peers being handled can be counted.
LEMMA LiveIsFinite == IsFiniteSet(Live) /\ Cardinality(Live) \in Nat
<1>1. Live \in SUBSET Tasks
  BY DEF Live
<1>2. IsFiniteSet(Tasks)
  BY TasksAssumption
<1>3. IsFiniteSet(Live)
  BY <1>1, <1>2, FS_Subset
<1> QED
  BY <1>3, FS_CardinalityType

\* While every DHT task is idle no address is registered.
LEMMA NothingRegistered ==
  ASSUME ControlInv, \A t \in DhtTasks : pc[t] = "idle"
  PROVE  Cardinality(Silent) = 0
<1>1. \A a \in Addrs : activePeers[a] = NoTask
  BY DEF ControlInv, DhtRegisters, RegisteredIsLive, Live
<1>2. Silent = {}
  BY <1>1 DEF Silent
<1> QED
  BY <1>2, FS_EmptySet

CountInv == NeverOverstated /\ TrackerCountIsExact

\* Nobody is handled and nobody is counted at first.
LEMMA InitCount == Init => CountInv
<1> SUFFICES ASSUME Init PROVE CountInv
  OBVIOUS
<1>1. Live = {}
  BY DEF Init, Live
<1>2. Cardinality(Live) = 0
  BY <1>1, FS_EmptySet
<1>3. ActivePeers = 0
  BY DEF Init
<1> QED
  BY <1>2, <1>3 DEF CountInv, NeverOverstated, TrackerCountIsExact

\* A step that neither counts nor starts or ends a handler, and wakes no
\* DHT task, keeps the count as it is.
LEMMA CountKept ==
  ASSUME CountInv, ActivePeers' = ActivePeers, Live' = Live,
         (\A t \in DhtTasks : pc'[t] = "idle") => (\A t \in DhtTasks : pc[t] = "idle")
  PROVE  CountInv'
<1>1. Cardinality(Live)' = Cardinality(Live)
  OBVIOUS
<1> QED
  BY <1>1 DEF CountInv, NeverOverstated, TrackerCountIsExact

\* Every step keeps the count.
LEMMA CountStep == ControlInv /\ CountInv /\ [Next]_vars => CountInv'
<1> SUFFICES ASSUME ControlInv, CountInv, [Next]_vars PROVE CountInv'
  OBVIOUS
<1>0. /\ ActivePeers \in Int
      /\ pc \in [Tasks -> {"idle", "limit", "check", "dial", "backoff", "mark", "count",
                           "select", "read", "work", "disconnect", "uncount",
                           "unregister", "done"}]
      /\ DhtTasks \subseteq Tasks
  BY DEF ControlInv, TypeOK, Tasks
<1> USE DEF taskVars, poolVars, askVars, Goto
<1>1. ASSUME NEW t \in Tasks, Move(t) PROVE CountInv'
  BY <1>0, <1>1, CountKept DEF Move, Moves, Step, Live
<1>2. ASSUME NEW t \in Tasks, DiscoverPeer(t) PROVE CountInv'
  BY <1>0, <1>2, CountKept DEF DiscoverPeer, Step, Live
<1>3. ASSUME NEW t \in Tasks, ConnectOk(t) \/ ConnectFails(t) PROVE CountInv'
  BY <1>0, <1>3, CountKept DEF ConnectOk, ConnectFails, Live
<1>4. ASSUME NEW t \in Tasks, markFailed(t) \/ Disconnect(t) PROVE CountInv'
  BY <1>0, <1>4, CountKept DEF markFailed, Disconnect, Live
<1>5. ASSUME NEW t \in Tasks, CountPeer(t) PROVE CountInv'
  <2>1. Live' = Live \cup {t} /\ t \notin Live
    BY <1>0, <1>5 DEF CountPeer, Live
  <2>2. Cardinality(Live)' = Cardinality(Live) + 1
    BY <2>1, LiveIsFinite, FS_AddElement
  <2>3. ActivePeers' = ActivePeers + 1
    BY <1>5 DEF CountPeer
  <2>4. ASSUME \A u \in DhtTasks : pc'[u] = "idle"
        PROVE  \A u \in DhtTasks : pc[u] = "idle"
    BY <1>0, <1>5, <2>4 DEF CountPeer
  <2> QED
    BY <1>0, <2>2, <2>3, <2>4, LiveIsFinite
       DEF CountInv, NeverOverstated, TrackerCountIsExact
<1>6. ASSUME NEW t \in Tasks, UncountPeer(t) PROVE CountInv'
  <2>1. Live' = Live \ {t} /\ t \in Live
    BY <1>0, <1>6 DEF UncountPeer, Live
  <2>2. Cardinality(Live)' = Cardinality(Live) - 1
    BY <2>1, LiveIsFinite, FS_RemoveElement
  <2>3. ActivePeers' = ActivePeers - 1
    BY <1>6 DEF UncountPeer
  <2>4. ASSUME \A u \in DhtTasks : pc'[u] = "idle"
        PROVE  \A u \in DhtTasks : pc[u] = "idle"
    BY <1>0, <1>6, <2>4 DEF UncountPeer
  <2> QED
    BY <1>0, <2>2, <2>3, <2>4, LiveIsFinite
       DEF CountInv, NeverOverstated, TrackerCountIsExact
<1>7. ASSUME NEW t \in Tasks, Unregister(t) PROVE CountInv'
  <2>1. Live' = Live
    BY <1>0, <1>7 DEF Unregister, Live
  <2>2. Cardinality(Live)' = Cardinality(Live)
    BY <2>1
  <2>3. ActivePeers' = ActivePeers - 1
    BY <1>7 DEF Unregister
  <2>4. t \in DhtTasks /\ pc'[t] = "done"
    BY <1>0, <1>7 DEF Unregister, ControlInv, DhtRegisters
  <2> QED
    BY <1>0, <2>2, <2>3, <2>4, LiveIsFinite
       DEF CountInv, NeverOverstated, TrackerCountIsExact
<1>8. ASSUME NEW t \in Tasks, WorkIsSlow(t) \/ TaskTimeout(t) PROVE CountInv'
  BY <1>8, CountKept DEF WorkIsSlow, TaskTimeout, Live
<1>9. CASE cleanupDisconnectedPeers
  <2>1. pc' = pc /\ ActivePeers' = ActivePeers - Cardinality(Silent)
    BY <1>9 DEF cleanupDisconnectedPeers
  <2>2. Cardinality(Live)' = Cardinality(Live)
    BY <2>1 DEF Live
  <2>3. Cardinality(Silent) \in Nat
    BY SilentIsFinite
  <2>4. NeverOverstated'
    BY <1>0, <2>1, <2>2, <2>3, LiveIsFinite DEF CountInv, NeverOverstated
  <2>5. ASSUME \A t \in DhtTasks : pc'[t] = "idle"
        PROVE  ActivePeers' = Cardinality(Live)'
    BY <1>0, <2>1, <2>2, <2>5, NothingRegistered DEF CountInv, TrackerCountIsExact
  <2> QED
    BY <2>4, <2>5 DEF CountInv, TrackerCountIsExact
<1>10. CASE AnnounceOk \/ requestMorePeers
  <2>1. ActivePeers' = ActivePeers /\ (StartTracker \/ UNCHANGED pc)
    BY <1>10 DEF AnnounceOk, requestMorePeers
  <2>2. Live' = Live /\ \A t \in DhtTasks : pc'[t] = pc[t]
    BY <1>0, <2>1, TasksAssumption DEF StartTracker, Live
  <2> QED
    BY <2>1, <2>2, CountKept
<1>11. ASSUME \/ \E a \in Addrs : FailureAges(a)
              \/ ManagerTick \/ cleanupFailedPeers \/ ManagerStops
              \/ AnnounceFails \/ AnnounceAgain \/ AnnounceCancelled
              \/ AskForMore \/ Cancel \/ UNCHANGED vars
       PROVE  CountInv'
  <2>1. UNCHANGED <<pc, ActivePeers>>
    BY <1>11 DEF FailureAges, ManagerTick, cleanupFailedPeers, ManagerStops,
       AnnounceFails, AnnounceAgain, AnnounceCancelled, AskForMore, Cancel, vars
  <2> QED
    BY <2>1, CountKept DEF Live
<1> QED
  BY StepCases, <1>1, <1>2, <1>3, <1>4, <1>5, <1>6, <1>7, <1>8, <1>9, <1>10, <1>11
     DEF Manager, Announcer

-----------------------------------------------------------------------------
(* Theorems.                                                               *)

\* The inductive invariant holds in every state.
LEMMA Invariance == Spec => [](ControlInv /\ CountInv)
<1>1. Init => ControlInv /\ CountInv
  BY InitControl, InitCount
<1>2. ControlInv /\ CountInv /\ [Next]_vars => (ControlInv /\ CountInv)'
  BY ControlStep, CountStep
<1> QED
  BY <1>1, <1>2, PTL DEF Spec

(***************************************************************************)
(* Every variable of the pool keeps its type; connectToPeers dials at most *)
(* MaxRetries times and announceWithRetry asks at most AnnounceTries times.*)
(***************************************************************************)
THEOREM PoolTypes == Spec => []TypeOK
<1>1. ControlInv => TypeOK
  BY DEF ControlInv
<1> QED
  BY <1>1, Invariance, PTL

(***************************************************************************)
(* No goroutine of connectToPeers or connectAndHandlePeer ends with its    *)
(* connection open.                                                        *)
(***************************************************************************)
THEOREM ConnectionsAreClosed == Spec => []NoLeak
<1>1. ControlInv => NoLeak
  BY DEF ControlInv, OpenWhileUsed, NoLeak
<1> QED
  BY <1>1, Invariance, PTL

(***************************************************************************)
(* An entry of Torrent.activePeers belongs to a goroutine that has still   *)
(* to remove it, however many connections to one address overwrite each    *)
(* other's entry.                                                          *)
(***************************************************************************)
THEOREM EntriesAreLive == Spec => []RegisteredIsLive
<1>1. ControlInv => RegisteredIsLive
  BY DEF ControlInv
<1> QED
  BY <1>1, Invariance, PTL

(***************************************************************************)
(* Torrent.ActivePeers never exceeds the number of peers being handled,    *)
(* although the manager, handlePeer and connectAndHandlePeer each count    *)
(* out on their own.                                                       *)
(***************************************************************************)
THEOREM CountNeverOverstated == Spec => []NeverOverstated
<1>1. CountInv => NeverOverstated
  BY DEF CountInv
<1> QED
  BY <1>1, Invariance, PTL

(***************************************************************************)
(* With trackers only, Torrent.ActivePeers is the number of peers being    *)
(* handled.                                                                *)
(***************************************************************************)
THEOREM TrackerPeersAreCounted == Spec => []TrackerCountIsExact
<1>1. CountInv => TrackerCountIsExact
  BY DEF CountInv
<1> QED
  BY <1>1, Invariance, PTL
=============================================================================
