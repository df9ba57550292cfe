------------------------- MODULE CrowdPipelineProofs -------------------------
(***************************************************************************)
(* The heatmap engine and the entry router together, for any gates,        *)
(* attendees, sockets, readings and crashes.  To the engine the router is  *)
(* only a subscriber: whatever is proved of the engine alone holds here.   *)
(* To the router the engine is not the publisher it was written for: no    *)
(* message of it names a gate as a field.                                  *)
(***************************************************************************)
EXTENDS CrowdPipeline, TLAPS

-----------------------------------------------------------------------------
\* What the router does to the hash and the channel is nothing, or a delivery.
LEMMA RouterStep ==
  ASSUME Router!Router, UNCHANGED engineVars
  PROVE  Engine!Deliver \/ UNCHANGED Engine!heatmapVars
<1>1. CASE Router!OnMessage
  BY <1>1 DEF Router!OnMessage, Engine!Deliver, Engine!engineVars, Engine!historyVars, engineVars
<1>2. ASSUME ~Router!OnMessage PROVE heatmap' = heatmap /\ channel' = channel
  BY <1>2 DEF Router!Router, Router!Recommend, Router!StoreAssignment, Router!AssignmentFails,
       Router!OpenSocket, Router!CloseSocket, Router!Identify, Router!Proceed,
       Router!SelectAssigned, Router!ReadHash, Router!PushReassignment, Router!QueryFails
<1> QED  BY <1>1, <1>2 DEF engineVars, Engine!heatmapVars

\* The pipeline implements the engine: each of its steps is one of the engine,
\* of its surroundings, or leaves them alone.  (store.py:21, redzone-subscriber.ts:43)
THEOREM ImplementsEngine == Spec => Engine!HeatmapSpec
<1>1. Init => Engine!HeatmapInit
  BY DEF Init
<1>2. [Next]_vars => [Engine!HeatmapNext]_Engine!heatmapVars
  <2> SUFFICES ASSUME [Next]_vars PROVE [Engine!HeatmapNext]_Engine!heatmapVars
    OBVIOUS
  <2>1. CASE Engine!Engine
    BY <2>1 DEF Engine!HeatmapNext
  <2>2. ASSUME NEW g \in Gates, NEW n \in Counts, Engine!Transmit(g, n)
        PROVE  Engine!HeatmapNext
    BY <2>2 DEF Engine!HeatmapNext
  <2>3. CASE Engine!Tick
    BY <2>3 DEF Engine!HeatmapNext
  <2>4. CASE Router!Router /\ UNCHANGED engineVars
    BY <2>4, RouterStep DEF Engine!HeatmapNext
  <2>5. CASE UNCHANGED vars
    BY <2>5 DEF vars, engineVars, Engine!heatmapVars
  <2> QED  BY <2>1, <2>2, <2>3, <2>4, <2>5 DEF Next
<1> QED  BY <1>1, <1>2, PTL DEF Spec, Engine!HeatmapSpec

-----------------------------------------------------------------------------
(* What the engine publishes is one snapshot, with three fields.  The       *)
(* subscriber looks for fields that are gates, finds none and begins no     *)
(* transition, so nobody is ever told anything.                             *)

Readings == [zone : Gates, count : Nat]
Flat == [zone : Gates, count : Nat, status : {"red", "amber", "green"}]

EngineTyped ==
    /\ topic \in Seq(Readings) /\ uncommitted \in Seq(Readings)
    /\ window \in [Gates -> Nat \cup {NoData}] /\ batch \in [Gates -> Nat \cup {NoData}]
    /\ unpublished \in Flat \cup {NoData}
    /\ channel \in Seq(Flat)

RouterRests == handlers = [i \in Router!Slots |-> Router!Ended] /\ told = Router!NobodyTold

\* Nobody is told to leave a gate.
NobodyIsTold == \A a \in Attendees, g \in Gates : ~Router!ToldToLeave(a, g)

\* No gate is called like a field of a snapshot, and a reading counts heads.
Named == Gates \cap {"zone", "count", "status"} = {} /\ Counts \subseteq Nat

LEMMA PipelineStarts == Init => EngineTyped /\ RouterRests
  BY DEF Init, Engine!HeatmapInit, Router!RouterInit, Engine!Empty, EngineTyped, RouterRests

LEMMA AddTyped ==
  ASSUME NEW win \in [Gates -> Nat \cup {NoData}], NEW r \in Readings
  PROVE  Engine!Add(win, r) \in [Gates -> Nat \cup {NoData}]
  BY DEF Engine!Add, Readings

LEMMA SnapshotTyped ==
  ASSUME EngineTyped, NEW z \in Gates, batch[z] # NoData
  PROVE  Engine!SnapshotOf(z) \in Flat
<1>1. batch[z] \in Nat
  BY DEF EngineTyped
<1>2. Engine!ClassifyDensity(batch[z]) \in {"red", "amber", "green"}
  BY DEF Engine!ClassifyDensity
<1> QED  BY <1>1, <1>2 DEF Engine!SnapshotOf, Flat

\* One lemma per part of the engine: what its steps write is typed.
LEMMA ConsumeTyped == EngineTyped /\ Engine!Consume => EngineTyped'
<1> SUFFICES ASSUME EngineTyped, Engine!Consume PROVE EngineTyped'
  OBVIOUS
<1>1. Head(topic) \in Readings /\ topic' \in Seq(Readings)
  BY DEF EngineTyped, Engine!Consume
<1>2. uncommitted' \in Seq(Readings)
  BY <1>1 DEF EngineTyped, Engine!Consume
<1>3. Engine!Add(window, Head(topic)) \in [Gates -> Nat \cup {NoData}]
  BY <1>1, AddTyped DEF EngineTyped
<1>4. window' \in [Gates -> Nat \cup {NoData}] /\ batch' \in [Gates -> Nat \cup {NoData}]
  BY <1>3 DEF EngineTyped, Engine!Consume, Engine!Empty
<1> QED  BY <1>1, <1>2, <1>4 DEF EngineTyped, Engine!Consume, Engine!redisVars

LEMMA CrashTyped == EngineTyped /\ Engine!Crash => EngineTyped'
<1> SUFFICES ASSUME EngineTyped, Engine!Crash PROVE EngineTyped'
  OBVIOUS
<1>1. uncommitted \o topic \in Seq(Readings) /\ <<>> \in Seq(Readings)
  BY DEF EngineTyped
<1> QED  BY <1>1 DEF EngineTyped, Engine!Crash, Engine!Empty, Engine!redisVars

LEMMA PublicationTyped ==
  EngineTyped /\ (\/ Engine!CommitOffset \/ Engine!PublishZone \/ Engine!PublishFails
                  \/ \E z \in Gates : Engine!StoreZone(z) \/ Engine!StoreFails(z))
    => EngineTyped'
<1> SUFFICES ASSUME EngineTyped PROVE
       /\ Engine!CommitOffset => EngineTyped'
       /\ Engine!PublishZone => EngineTyped'
       /\ Engine!PublishFails => EngineTyped'
       /\ \A z \in Gates : Engine!StoreZone(z) \/ Engine!StoreFails(z) => EngineTyped'
  OBVIOUS
<1>1. Engine!CommitOffset => EngineTyped'
  BY DEF EngineTyped, Engine!CommitOffset, Engine!redisVars
<1>2. Engine!PublishZone => EngineTyped'
  BY DEF EngineTyped, Engine!PublishZone
<1>3. Engine!PublishFails => EngineTyped'
  BY DEF EngineTyped, Engine!PublishFails, Engine!redisVars
<1>4. ASSUME NEW z \in Gates, Engine!StoreZone(z) PROVE EngineTyped'
  BY <1>4, SnapshotTyped DEF EngineTyped, Engine!StoreZone
<1>5. ASSUME NEW z \in Gates, Engine!StoreFails(z) PROVE EngineTyped'
  BY <1>5 DEF EngineTyped, Engine!StoreFails, Engine!redisVars
<1> QED  BY <1>1, <1>2, <1>3, <1>4, <1>5

LEMMA SurroundingsTyped ==
  ASSUME Named, EngineTyped
  PROVE  /\ \A g \in Gates, n \in Counts : Engine!Transmit(g, n) => EngineTyped'
         /\ Engine!Tick \/ Engine!Deliver => EngineTyped'
<1>1. ASSUME NEW g \in Gates, NEW n \in Counts, Engine!Transmit(g, n) PROVE EngineTyped'
  <2>1. [zone |-> g, count |-> n] \in Readings
    BY DEF Named, Readings
  <2> QED  BY <1>1, <2>1 DEF EngineTyped, Engine!Transmit, Engine!redisVars
<1>2. Engine!Tick => EngineTyped'
  BY DEF EngineTyped, Engine!Tick
<1>3. Engine!Deliver => EngineTyped'
  BY DEF EngineTyped, Engine!Deliver, Engine!engineVars
<1> QED  BY <1>1, <1>2, <1>3

\* A message of the engine has no field that is a gate.
LEMMA NoRedEntry ==
  ASSUME Named, EngineTyped, channel # <<>>
  PROVE  Router!RedZoneIds(Head(channel)) = {}
<1>1. Head(channel) \in Flat
  BY DEF EngineTyped
<1>2. DOMAIN Head(channel) = {"zone", "count", "status"}
  BY <1>1 DEF Flat
<1> QED  BY <1>2 DEF Router!RedZoneIds, Named

\* While no transition is handled none begins, and only one pushes.
LEMMA RouterStaysAtRest ==
  ASSUME Named, EngineTyped, RouterRests, Router!Router
  PROVE  RouterRests'
<1>1. CASE Router!OnMessage
  <2>1. PICK i \in Router!Slots : \E first \in Router!Continue(Router!RedZoneIds(Head(channel))) :
          handlers' = [handlers EXCEPT ![i] = first]
    BY <1>1 DEF Router!OnMessage
  <2>2. Router!Continue(Router!RedZoneIds(Head(channel))) = {Router!Ended}
    BY <1>1, NoRedEntry DEF Router!OnMessage, Router!Continue
  <2>3. handlers' = handlers
    BY <2>1, <2>2 DEF RouterRests
  <2> QED  BY <1>1, <2>3 DEF Router!OnMessage, Router!Quiet, RouterRests
<1>2. ASSUME NEW a \in Attendees,
             Router!Recommend(a) \/ Router!StoreAssignment(a) \/ Router!AssignmentFails(a)
      PROVE  RouterRests'
  BY <1>2 DEF RouterRests, Router!Quiet, Router!Recommend, Router!StoreAssignment, Router!AssignmentFails
<1>3. ASSUME NEW w \in Sockets,
             Router!OpenSocket(w) \/ Router!CloseSocket(w) \/ \E a \in Attendees : Router!Identify(a, w)
      PROVE  RouterRests'
  BY <1>3 DEF RouterRests, Router!Quiet, Router!OpenSocket, Router!CloseSocket, Router!Identify
<1>4. \A i \in Router!Slots : ~Router!Proceed(i)
  BY DEF RouterRests, Router!Proceed, Router!SelectAssigned, Router!ReadHash,
       Router!PushReassignment, Router!QueryFails
<1> QED  BY <1>1, <1>2, <1>3, <1>4 DEF Router!Router

\* Requirement 1.5 is never met by the pipeline as it is, whatever the gates, the
\* attendees and the readings: nobody is told to leave a red gate, because the
\* subscriber finds no red entry in any message of the engine.
\* (store.py:22, redzone-subscriber.ts:51)
THEOREM NoRedGateIsEverLeft == ASSUME Named PROVE Spec => []NobodyIsTold
<1>1. EngineTyped /\ RouterRests /\ [Next]_vars => EngineTyped' /\ RouterRests'
  <2> SUFFICES ASSUME EngineTyped, RouterRests, [Next]_vars PROVE EngineTyped' /\ RouterRests'
    OBVIOUS
  <2>1. CASE Engine!Engine /\ Router!RouterIdle
    <3>1. EngineTyped'
      BY <2>1, ConsumeTyped, CrashTyped, PublicationTyped DEF Engine!Engine
    <3> QED  BY <2>1, <3>1 DEF RouterRests, Router!RouterIdle, Router!routerVars, Router!Quiet
  <2>2. CASE (\E g \in Gates, n \in Counts : Engine!Transmit(g, n)) /\ Router!RouterIdle
    BY <2>2, SurroundingsTyped DEF RouterRests, Router!RouterIdle, Router!routerVars, Router!Quiet
  <2>3. CASE Engine!Tick /\ Router!RouterIdle
    BY <2>3, SurroundingsTyped DEF RouterRests, Router!RouterIdle, Router!routerVars, Router!Quiet
  <2>4. CASE Router!Router /\ UNCHANGED engineVars
    <3>1. Engine!Deliver \/ UNCHANGED Engine!heatmapVars
      BY <2>4, RouterStep
    <3>2. EngineTyped'
      BY <3>1, SurroundingsTyped DEF EngineTyped, Engine!heatmapVars
    <3> QED  BY <2>4, <3>2, RouterStaysAtRest
  <2>5. CASE UNCHANGED vars
    BY <2>5 DEF vars, engineVars, routerVars, EngineTyped, RouterRests
  <2> QED  BY <2>1, <2>2, <2>3, <2>4, <2>5 DEF Next
<1>2. RouterRests => NobodyIsTold
  BY DEF RouterRests, Router!NobodyTold, NobodyIsTold, Router!ToldToLeave
<1> QED  BY <1>1, <1>2, PipelineStarts, PTL DEF Spec
=============================================================================
