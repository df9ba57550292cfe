------------------------ MODULE SensorsToGatesProofs ------------------------
(***************************************************************************)
(* The two ends of the crowd pipeline, for any number of sensors, gates,   *)
(* attendees and sockets.  The heartbeat monitor: a check accuses only     *)
(* sensors that had fallen silent, and a silent sensor is dropped only     *)
(* after its failure event reached Kafka.  The entry router: a push is out  *)
(* of date by no more than its own transition.                             *)
(***************************************************************************)
EXTENDS HeartbeatMonitor, EntryRouter, TLAPS

-----------------------------------------------------------------------------
(* The heartbeat monitor.                                                  *)

\* Type correctness: the sets stay within Sensors, ages within MaxAge, and each
\* check record is idle or awaits a sensor it has collected.
THEOREM TypeCorrect == Spec => []TypeOK
<1>1. Init => TypeOK
  BY IntervalAssumption, SpanAssumption DEF Init, TypeOK, MaxAge, Elapsed
<1>2. TypeOK /\ [Next]_vars => TypeOK'
  <2> SUFFICES ASSUME TypeOK, [Next]_vars PROVE TypeOK'
    OBVIOUS
  <2> USE IntervalAssumption, SpanAssumption, NoneAssumption
  <2>1. CASE Tick
    <3>1. age' \in [Sensors -> 0..MaxAge]
      BY <2>1 DEF Tick, TypeOK, MaxAge
    <3> DEFINE older == [s \in Sensors |-> IF age[s] < MaxAge THEN age[s] + 1 ELSE MaxAge]
               found == StillStale(0, {}, tracked, older)
    <3>2. PICK first \in IF found = {} THEN {None} ELSE found :
            checks' = [e \in Elapsed |->
                IF e > 0 THEN checks[e - 1]
                ELSE IF first = None THEN Idle
                ELSE [stale |-> {first}, emitting |-> first]]
      BY <2>1 DEF Tick
    <3>3. first = None \/ first \in Sensors
      BY <3>2 DEF StillStale, TypeOK
    <3>4. \A e \in Elapsed : e > 0 => e - 1 \in Elapsed
      BY DEF Elapsed
    <3>5. checks' \in [Elapsed -> Check \cup {Idle}]
      BY <3>2, <3>3, <3>4 DEF TypeOK, Check
    <3> QED
      BY <3>1, <3>5, <2>1 DEF Tick, TypeOK
  <2>2. ASSUME NEW s \in Sensors,
               ReadingArrives(s) \/ ReadingSent(s) \/ ReadingFails(s)
                 \/ SensorStops(s) \/ SensorRestarts(s)
        PROVE  TypeOK'
    BY <2>2 DEF TypeOK, ReadingArrives, ReadingSent, ReadingFails, SensorStops,
                SensorRestarts, MaxAge
  <2>3. ASSUME NEW e \in Elapsed, EmitThenScan(e) PROVE TypeOK'
    <3>0. checks[e] \in Check
      BY <2>3 DEF EmitThenScan, TypeOK
    <3>1. PICK s \in StillStale(e, checks[e].stale, tracked, age) : checks' =
            [checks EXCEPT ![e] = [stale |-> checks[e].stale \cup {s}, emitting |-> s]]
      BY <2>3 DEF EmitThenScan
    <3>2. s \in Sensors /\ checks[e].stale \subseteq Sensors /\ checks[e].emitting \in Sensors
      BY <3>0, <3>1 DEF StillStale, TypeOK, Check
    <3>3. checks' \in [Elapsed -> Check \cup {Idle}]
      BY <3>1, <3>2 DEF TypeOK, Check
    <3> QED
      BY <2>3, <3>2, <3>3 DEF EmitThenScan, TypeOK
  <2>4. ASSUME NEW e \in Elapsed, EmitThenRemove(e) PROVE TypeOK'
    <3>1. checks[e] \in Check
      BY <2>4 DEF EmitThenRemove, TypeOK
    <3> QED
      BY <2>4, <3>1 DEF EmitThenRemove, TypeOK, Check
  <2>5. ASSUME NEW e \in Elapsed, EmitFails(e) PROVE TypeOK'
    BY <2>5 DEF EmitFails, TypeOK
  <2>6. CASE UNCHANGED vars
    BY <2>6 DEF vars, TypeOK
  <2> QED
    BY <2>1, <2>2, <2>3, <2>4, <2>5, <2>6 DEF Next, EmitOk
<1> QED
  BY <1>1, <1>2, PTL DEF Spec

\* What every sensor in a check's `stale` list satisfies: it was silent when the
\* check began or has been heard since, and its event is acknowledged or is the
\* one awaited unless it has been heard since.
Collected ==
    \A e \in Elapsed : \A s \in checks[e].stale :
        /\ age[s] - e > HeartbeatInterval \/ age[s] <= e
        /\ s = checks[e].emitting \/ s \in reported \/ age[s] <= e

LEMMA CollectedInit == Init => Collected
<1> SUFFICES ASSUME Init, NEW e \in Elapsed, NEW s \in checks[e].stale PROVE FALSE
  BY DEF Collected
<1>1. checks[e] = Idle
  BY DEF Init
<1> QED
  BY <1>1 DEF Idle

\* No step breaks it: the clock moves age and check together, a reading sets
\* the age to zero, and a scan adds only sensors that are stale for its clock.
LEMMA CollectedStep == TypeOK /\ Collected /\ [Next]_vars => Collected'
<1> SUFFICES ASSUME TypeOK, Collected, [Next]_vars PROVE Collected'
  OBVIOUS
<1> USE IntervalAssumption, SpanAssumption, NoneAssumption
<1>1. CASE Tick
  <2> DEFINE older == [s \in Sensors |-> IF age[s] < MaxAge THEN age[s] + 1 ELSE MaxAge]
             found == StillStale(0, {}, tracked, older)
  <2>1. age' = older /\ reported' = reported /\ checks[CheckSpan] = Idle
    BY <1>1 DEF Tick
  <2>2. PICK first \in IF found = {} THEN {None} ELSE found :
          checks' = [e \in Elapsed |->
              IF e > 0 THEN checks[e - 1]
              ELSE IF first = None THEN Idle
              ELSE [stale |-> {first}, emitting |-> first]]
    BY <1>1 DEF Tick
  <2> SUFFICES ASSUME NEW e \in Elapsed, NEW s \in checks'[e].stale
               PROVE  /\ age'[s] - e > HeartbeatInterval \/ age'[s] <= e
                      /\ s = checks'[e].emitting \/ s \in reported' \/ age'[s] <= e
    BY DEF Collected
  <2>3. CASE e = 0
    <3>1. first # None /\ s = first /\ checks'[e].emitting = first
      BY <2>2, <2>3 DEF Idle
    <3>2. first \in found
      BY <2>2, <3>1
    <3>3. s \in Sensors /\ older[s] > HeartbeatInterval /\ older[s] \in Nat
      BY <3>1, <3>2 DEF StillStale, TypeOK, MaxAge
    <3> QED
      BY <2>1, <2>3, <3>1, <3>3
  <2>4. CASE e > 0
    <3>1. e - 1 \in Elapsed /\ checks'[e] = checks[e - 1]
      BY <2>2, <2>4 DEF Elapsed
    <3>2. /\ age[s] - (e - 1) > HeartbeatInterval \/ age[s] <= e - 1
          /\ s = checks[e - 1].emitting \/ s \in reported \/ age[s] <= e - 1
      BY <3>1 DEF Collected
    <3>3. s \in Sensors /\ age[s] \in 0..MaxAge
      BY <3>1 DEF TypeOK, Check, Idle
    <3>4. e <= CheckSpan /\ e \in Int
      BY DEF Elapsed
    <3>5. older[s] = IF age[s] < MaxAge THEN age[s] + 1 ELSE MaxAge
      BY <3>3
    <3>6. older[s] - e > HeartbeatInterval \/ older[s] <= e
      BY <3>2, <3>3, <3>4, <3>5 DEF MaxAge
    <3>7. age[s] <= e - 1 => older[s] <= e
      BY <3>3, <3>4, <3>5 DEF MaxAge
    <3> QED
      BY <2>1, <3>1, <3>2, <3>6, <3>7
  <2> QED
    BY <2>3, <2>4 DEF Elapsed
<1>2. ASSUME NEW r \in Sensors, ReadingSent(r) PROVE Collected'
  <2> SUFFICES ASSUME NEW e \in Elapsed, NEW s \in checks[e].stale
               PROVE  /\ age'[s] - e > HeartbeatInterval \/ age'[s] <= e
                      /\ s = checks[e].emitting \/ s \in reported' \/ age'[s] <= e
    BY <1>2 DEF Collected, ReadingSent
  <2>1. s \in Sensors
    BY DEF TypeOK, Check, Idle
  <2>2. CASE s = r
    BY <1>2, <2>1, <2>2 DEF ReadingSent, TypeOK, Elapsed
  <2>3. CASE s # r
    BY <1>2, <2>1, <2>3 DEF ReadingSent, TypeOK, Collected
  <2> QED
    BY <2>2, <2>3
<1>3. ASSUME NEW s \in Sensors,
             ReadingArrives(s) \/ ReadingFails(s) \/ SensorStops(s) \/ SensorRestarts(s)
      PROVE  Collected'
  BY <1>3 DEF Collected, ReadingArrives, ReadingFails, SensorStops, SensorRestarts
<1>4. ASSUME NEW c \in Elapsed, EmitThenScan(c) PROVE Collected'
  <2>1. PICK r \in StillStale(c, checks[c].stale, tracked, age) : checks' =
          [checks EXCEPT ![c] = [stale |-> checks[c].stale \cup {r}, emitting |-> r]]
    BY <1>4 DEF EmitThenScan
  <2>2. age' = age /\ reported' = reported \cup {checks[c].emitting}
    BY <1>4 DEF EmitThenScan
  <2> SUFFICES ASSUME NEW e \in Elapsed, NEW s \in checks'[e].stale
               PROVE  /\ age[s] - e > HeartbeatInterval \/ age[s] <= e
                      /\ s = checks'[e].emitting \/ s \in reported' \/ age[s] <= e
    BY <2>2 DEF Collected
  <2>3. CASE e = c /\ s = r
    BY <2>1, <2>3 DEF StillStale, TypeOK
  <2>4. CASE e = c /\ s # r
    <3>1. s \in checks[c].stale
      BY <2>1, <2>4 DEF TypeOK
    <3> QED
      BY <2>2, <2>4, <3>1 DEF Collected
  <2>5. CASE e # c
    <3>1. checks'[e] = checks[e]
      BY <2>1, <2>5 DEF TypeOK
    <3> QED
      BY <2>2, <3>1 DEF Collected
  <2> QED
    BY <2>3, <2>4, <2>5
<1>5. ASSUME NEW c \in Elapsed, EmitThenRemove(c) \/ EmitFails(c) PROVE Collected'
  <2>1. checks' = [checks EXCEPT ![c] = Idle] /\ age' = age /\ reported \subseteq reported'
    BY <1>5 DEF EmitThenRemove, EmitFails
  <2>2. \A e \in Elapsed : checks'[e] = checks[e] \/ checks'[e].stale = {}
    BY <2>1 DEF TypeOK, Idle
  <2> QED
    BY <2>1, <2>2 DEF Collected
<1>6. CASE UNCHANGED vars
  BY <1>6 DEF vars, Collected
<1> QED
  BY <1>1, <1>2, <1>3, <1>4, <1>5, <1>6 DEF Next, EmitOk

LEMMA CollectedAlways == Spec => []Collected
BY TypeCorrect, CollectedInit, CollectedStep, PTL DEF Spec

\* A check accuses no sensor that was heard within the interval before it read
\* the clock (monitor.ts:52-67).
THEOREM NoFalseAccusation == Spec => []CollectedWasSilent
<1>1. Collected => CollectedWasSilent
  BY DEF Collected, CollectedWasSilent
<1> QED
  BY <1>1, CollectedAlways, PTL

\* The only step that drops a sensor ends a check, and what that check collected
\* is acknowledged, or was heard less than CheckSpan ticks ago (monitor.ts:69-71).
THEOREM DropsOnlyReported == Spec => SilentDroppedWasReported
<1>1. TypeOK /\ Collected /\ [Next]_vars =>
        [\A s \in tracked \ tracked' : age[s] > CheckSpan => s \in reported']_vars
  <2> SUFFICES ASSUME TypeOK, Collected, Next,
                      NEW s \in tracked \ tracked', age[s] > CheckSpan
               PROVE  s \in reported'
    OBVIOUS
  <2>1. PICK e \in Elapsed : EmitThenRemove(e)
    BY DEF Next, Tick, ReadingArrives, ReadingSent, ReadingFails, SensorStops,
           SensorRestarts, EmitOk, EmitThenScan, EmitFails
  <2>2. s \in checks[e].stale /\ reported' = reported \cup {checks[e].emitting}
    BY <2>1 DEF EmitThenRemove
  <2>3. ~(age[s] <= e)
    <3>1. e <= CheckSpan /\ e \in Int /\ CheckSpan \in Int
      BY SpanAssumption DEF Elapsed
    <3>2. age[s] \in Int
      BY DEF TypeOK
    <3> QED
      BY <3>1, <3>2
  <2> QED
    BY <2>2, <2>3 DEF Collected
<1> QED
  BY <1>1, TypeCorrect, CollectedAlways, PTL DEF Spec, SilentDroppedWasReported

-----------------------------------------------------------------------------
(* The entry router, for any sets of gates, attendees and sockets.         *)

\* What a red-zone transition in progress is made of (redzone-subscriber.ts:58-97).
LEMMA HandlerShapes ==
  /\ \A todo \in SUBSET Gates : Continue(todo) \subseteq Handler \cup {Ended}
  /\ \A h \in Handler : /\ h.gate \in Gates /\ h.todo \in SUBSET Gates
                        /\ h.rows \in SUBSET Attendees /\ h.to \in Gates \cup {Absent}
  /\ \A h \in Handler : h # Ended
  BY AbsentAssumption DEF Continue, Handler, Ended

\* A slot in use holds a transition.
LEMMA InUse ==
  ASSUME EntryTypeOK, NEW i \in Slots, handlers[i] # Ended
  PROVE  handlers[i] \in Handler
  BY DEF EntryTypeOK

\* The loop that goes on, or ends, changes one slot: to the next gate, or free.
LEMMA ReplaceShapes ==
  ASSUME EntryTypeOK, NEW i \in Slots, handlers[i] # Ended, Replace(i)
  PROVE  \E next \in Handler \cup {Ended} :
            /\ handlers' = [handlers EXCEPT ![i] = next]
            /\ next = Ended \/ next.step = "select"
<1>1. handlers[i].todo \in SUBSET Gates
  BY InUse, HandlerShapes
<1> QED  BY <1>1, HandlerShapes DEF Replace, Continue

LEMMA RememberTypes ==
  ASSUME EntryTypeOK, Remember
  PROVE  lately' \in [Gates -> [held: SUBSET Attendees, better: SUBSET Gates]]
<1>1. \A g \in Gates : BetterGates(heatmap', g) \subseteq Gates
  BY DEF BetterGates
<1>2. \A g \in Gates : lately[g].held \subseteq Attendees /\ lately[g].better \subseteq Gates
  BY DEF EntryTypeOK
<1> QED  BY <1>1, <1>2 DEF Remember

\* What the step of a slot does to the slots: one of them answers, or goes on.
LEMMA ProceedShapes ==
  ASSUME EntryTypeOK, NEW i \in Slots, Proceed(i)
  PROVE  /\ handlers[i] \in Handler
         /\ handlers' \in [Slots -> Handler \cup {Ended}]
         /\ \A j \in Slots : j # i => handlers'[j] = handlers[j]
         /\ UNCHANGED <<heatmap, channel, assigned, request, open, identified, connection>>
<1>1. handlers[i] # Ended
  BY DEF Proceed, SelectAssigned, ReadHash, PushReassignment, QueryFails
<1>2. handlers[i] \in Handler
  BY <1>1, InUse
<1>3. UNCHANGED <<heatmap, channel, assigned, request, open, identified, connection>>
  BY DEF Proceed, SelectAssigned, ReadHash, PushReassignment, QueryFails
<1>4. CASE Replace(i)
  BY <1>1, <1>2, <1>3, <1>4, ReplaceShapes DEF EntryTypeOK
<1>5. CASE SelectAssigned(i) /\ ~Replace(i)
  <2> DEFINE rows == {a \in Attendees : assigned[a] = handlers[i].gate}
             h == [handlers[i] EXCEPT !.step = "read", !.rows = rows]
  <2>1. handlers' = [handlers EXCEPT ![i] = h] /\ handlers[i].step = "select"
    BY <1>5, <1>2 DEF SelectAssigned, EntryTypeOK
  <2>2. h \in Handler
    BY <1>2, <2>1 DEF Handler
  <2> QED  BY <1>2, <1>3, <2>1, <2>2 DEF EntryTypeOK
<1>6. CASE ReadHash(i) /\ ~Replace(i)
  <2>1. PICK new \in ScoreGatesExcluding(handlers[i].gate) :
          handlers' = [handlers EXCEPT ![i] = [handlers[i] EXCEPT !.step = "push", !.to = new]]
    BY <1>6, <1>2 DEF ReadHash, EntryTypeOK
  <2>2. new \in Gates /\ handlers[i].step = "read"
    BY <1>6 DEF ScoreGatesExcluding, ScoreGates, ReadHash
  <2>3. [handlers[i] EXCEPT !.step = "push", !.to = new] \in Handler
    BY <1>2, <2>2 DEF Handler
  <2> QED  BY <1>2, <1>3, <2>1, <2>3 DEF EntryTypeOK
<1> QED  BY <1>4, <1>5, <1>6 DEF Proceed, PushReassignment, QueryFails

\* A message begins a transition of a red gate in a slot that was free.
LEMMA MessageShapes ==
  ASSUME EntryTypeOK, OnMessage
  PROVE  \E i \in Slots, first \in Handler \cup {Ended} :
            /\ handlers' = [handlers EXCEPT ![i] = first]
            /\ first = Ended \/ first.step = "select"
<1>1. RedZoneIds(Head(channel)) \in SUBSET Gates
  BY DEF RedZoneIds
<1>2. \A first \in Continue(RedZoneIds(Head(channel))) :
         first \in Handler \cup {Ended} /\ (first = Ended \/ first.step = "select")
  BY <1>1, HandlerShapes DEF Continue
<1> QED  BY <1>2 DEF OnMessage

\* Every step of a request, of a socket, of a transition or of the engine keeps
\* the types.
LEMMA RouterTypesStep == EntryTypeOK /\ [EntryNext]_entryVars => EntryTypeOK'
<1> SUFFICES ASSUME EntryTypeOK, [EntryNext]_entryVars PROVE EntryTypeOK'
  OBVIOUS
<1>1. CASE UNCHANGED entryVars
  BY <1>1 DEF entryVars, routerVars, EntryTypeOK
<1>2. CASE EntryNext
  <2>1. lately' \in [Gates -> [held: SUBSET Attendees, better: SUBSET Gates]]
    BY <1>2, RememberTypes DEF EntryNext
  <2> USE <2>1 DEF EntryTypeOK, Quiet, NobodyTold
  <2>2. ASSUME NEW a \in Attendees, Recommend(a) PROVE EntryTypeOK'
    <3>1. ScoreGates(Gates) \subseteq Gates
      BY DEF ScoreGates
    <3> QED  BY <2>2, <3>1 DEF Recommend
  <2>3. ASSUME NEW a \in Attendees, StoreAssignment(a) PROVE EntryTypeOK'
    BY <2>3 DEF StoreAssignment
  <2>4. ASSUME NEW a \in Attendees, AssignmentFails(a) PROVE EntryTypeOK'
    BY <2>4 DEF AssignmentFails
  <2>5. ASSUME NEW w \in Sockets, OpenSocket(w) PROVE EntryTypeOK'
    BY <2>5 DEF OpenSocket
  <2>6. ASSUME NEW w \in Sockets, CloseSocket(w) PROVE EntryTypeOK'
    BY <2>6 DEF CloseSocket
  <2>7. ASSUME NEW w \in Sockets, NEW a \in Attendees, Identify(a, w) PROVE EntryTypeOK'
    BY <2>7 DEF Identify
  <2>8. CASE OnMessage
    BY <2>8, MessageShapes DEF OnMessage
  <2>9. ASSUME NEW i \in Slots, Proceed(i) PROVE EntryTypeOK'
    <3>1. /\ handlers[i] \in Handler /\ handlers' \in [Slots -> Handler \cup {Ended}]
          /\ UNCHANGED <<heatmap, channel, assigned, request, open, identified, connection>>
      BY <2>9, ProceedShapes
    <3>2. told' \in [Attendees -> (Gates \X Gates) \cup {Absent}] /\ abandoned' \subseteq Gates
      <4>1. CASE PushReassignment(i)
        <5>1. handlers[i].gate \in Gates /\ handlers[i].to \in Gates
          BY <3>1, <4>1 DEF Handler, PushReassignment
        <5> QED  BY <4>1, <5>1 DEF PushReassignment
      <4>2. CASE QueryFails(i)
        <5>1. handlers[i].gate \in Gates
          BY <3>1 DEF Handler
        <5> QED  BY <4>2, <5>1 DEF QueryFails
      <4>3. CASE SelectAssigned(i) \/ ReadHash(i)
        BY <4>3 DEF SelectAssigned, ReadHash
      <4> QED  BY <2>9, <4>1, <4>2, <4>3 DEF Proceed
    <3> QED  BY <3>1, <3>2
  <2>10. ASSUME NEW snaps, EngineUpdate(snaps) PROVE EntryTypeOK'
    BY <2>10 DEF EngineUpdate, RouterIdle, routerVars
  <2> QED  BY <1>2, <2>2, <2>3, <2>4, <2>5, <2>6, <2>7, <2>8, <2>9, <2>10 DEF EntryNext, Router
<1> QED  BY <1>1, <1>2

\* Type correctness of the router: assignments, requests and connections name
\* gates and sockets, and what was pushed is a pair of gates.
THEOREM RouterTypes == EntrySpec => []EntryTypeOK
<1>1. EntryInit => EntryTypeOK
  BY DEF EntryInit, RouterInit, EntryTypeOK, NobodyTold, NotLately
<1> QED  BY <1>1, RouterTypesStep, PTL DEF EntrySpec

\* scoreGates: the gates left when the least loaded ones are taken from what is not red or,
\* if all are, from what is not unavailable.  They are better than the one excluded.
LEMMA ScoredGates ==
  ASSUME NEW gate \in Gates, NEW to \in ScoreGatesExcluding(gate)
  PROVE  to \in BetterGates(heatmap, gate)
  BY DEF ScoreGatesExcluding, ScoreGates, BetterGates

\* The rows of a transition were assigned to its gate, and the alternative it has
\* chosen was better, while it was in progress.
InDate ==
    \A i \in Slots : handlers[i] # Ended =>
        /\ handlers[i].step \in {"read", "push"} => handlers[i].rows \subseteq lately[handlers[i].gate].held
        /\ handlers[i].step = "push" => handlers[i].to \in lately[handlers[i].gate].better

\* A transition that waits on keeps what is remembered of its gate, and what holds
\* after the step is added to it.
LEMMA RememberGrows ==
  ASSUME EntryTypeOK, EntryTypeOK', Remember, NEW i \in Slots, handlers'[i] # Ended
  PROVE  LET g == handlers'[i].gate
         IN  /\ handlers'[i].step \in {"read", "push"} =>
                  lately'[g].held = lately[g].held \cup {a \in Attendees : assigned'[a] = g}
             /\ handlers'[i].step = "push" =>
                  lately'[g].better = lately[g].better \cup BetterGates(heatmap', g)
<1>1. handlers'[i] \in Handler /\ handlers'[i].gate \in Gates
  BY HandlerShapes DEF EntryTypeOK
<1> QED  BY <1>1 DEF Remember, Awaits

\* No step breaks it: the two answers of a transition are remembered as they
\* arrive, and nothing is forgotten while it waits.
LEMMA InDateStep == EntryTypeOK /\ EntryTypeOK' /\ InDate /\ [EntryNext]_entryVars => InDate'
<1> SUFFICES ASSUME EntryTypeOK, EntryTypeOK', InDate, [EntryNext]_entryVars PROVE InDate'
  OBVIOUS
<1>1. CASE UNCHANGED entryVars
  BY <1>1 DEF entryVars, routerVars, InDate
<1>2. CASE EntryNext
  <2>0. Remember
    BY <1>2 DEF EntryNext
  \* A slot that the step leaves alone.
  <2>1. ASSUME NEW j \in Slots, handlers'[j] = handlers[j], handlers'[j] # Ended
        PROVE  /\ handlers'[j].step \in {"read", "push"} =>
                    handlers'[j].rows \subseteq lately'[handlers'[j].gate].held
               /\ handlers'[j].step = "push" =>
                    handlers'[j].to \in lately'[handlers'[j].gate].better
    BY <2>0, <2>1, RememberGrows DEF InDate
  \* A slot that begins a gate, or ends.
  <2>2. ASSUME NEW i \in Slots, NEW next, next = Ended \/ next.step = "select",
               handlers' = [handlers EXCEPT ![i] = next]
        PROVE  InDate'
    BY <2>1, <2>2 DEF InDate, EntryTypeOK
  <2>3. CASE handlers' = handlers
    BY <2>1, <2>3 DEF InDate
  <2>4. CASE OnMessage
    BY <2>2, <2>4, MessageShapes
  <2>5. ASSUME NEW i \in Slots, Proceed(i) PROVE InDate'
    <3> DEFINE h == handlers[i]
    <3>1. h \in Handler /\ h # Ended /\ h.gate \in Gates
      BY <2>5, ProceedShapes, HandlerShapes
    <3>2. CASE Replace(i)
      BY <3>1, <3>2, <2>2, ReplaceShapes
    <3>3. CASE SelectAssigned(i) /\ ~Replace(i)
      <4>1. /\ handlers'[i] = [h EXCEPT !.step = "read",
                                        !.rows = {a \in Attendees : assigned[a] = h.gate}]
            /\ assigned' = assigned
        BY <3>3, <3>1 DEF SelectAssigned, EntryTypeOK
      <4>2. handlers'[i].gate = h.gate /\ handlers'[i].step = "read"
            /\ handlers'[i].rows = {a \in Attendees : assigned'[a] = h.gate}
        BY <3>1, <4>1 DEF Handler
      <4>3. handlers'[i] # Ended => handlers'[i].rows \subseteq lately'[h.gate].held
        BY <2>0, <4>2, RememberGrows
      <4> QED  BY <2>1, <2>5, <4>2, <4>3, ProceedShapes DEF InDate
    <3>4. CASE ReadHash(i) /\ ~Replace(i)
      <4>1. PICK new \in ScoreGatesExcluding(h.gate) :
              handlers'[i] = [h EXCEPT !.step = "push", !.to = new]
        BY <3>4, <3>1 DEF ReadHash, EntryTypeOK
      <4>2. h.step = "read" /\ heatmap' = heatmap
        BY <3>4 DEF ReadHash
      <4>3. /\ handlers'[i].gate = h.gate /\ handlers'[i].step = "push"
            /\ handlers'[i].rows = h.rows /\ handlers'[i].to = new
        BY <3>1, <4>1 DEF Handler
      <4>4. new \in BetterGates(heatmap', h.gate)
        BY <3>1, <4>2, ScoredGates
      <4>5. h.rows \subseteq lately[h.gate].held
        BY <3>1, <4>2 DEF InDate
      <4>6. handlers'[i] # Ended => /\ handlers'[i].rows \subseteq lately'[h.gate].held
                                    /\ new \in lately'[h.gate].better
        BY <2>0, <4>3, <4>4, <4>5, RememberGrows
      <4> QED  BY <2>1, <2>5, <4>3, <4>6, ProceedShapes DEF InDate
    <3> QED  BY <2>5, <3>2, <3>3, <3>4 DEF Proceed, PushReassignment, QueryFails
  <2>6. OnMessage \/ (\E i \in Slots : Proceed(i)) \/ handlers' = handlers
    BY <1>2 DEF EntryNext, Router, Recommend, StoreAssignment, AssignmentFails, OpenSocket,
         CloseSocket, Identify, EngineUpdate, RouterIdle, routerVars
  <2> QED  BY <2>3, <2>4, <2>5, <2>6
<1> QED  BY <1>1, <1>2

LEMMA InDateAlways == EntrySpec => []InDate
<1>1. EntryInit => InDate
  BY DEF EntryInit, RouterInit, InDate
<1> QED  BY <1>1, RouterTypes, InDateStep, PTL DEF EntrySpec

\* What a step may push to an attendee.
Timely(a) ==
  told'[a] # Absent =>
    LET from == told'[a][1]
        to == told'[a][2]
    IN  a \in lately[from].held /\ to \in lately[from].better

\* The push is the one step that tells anyone anything, and tells the rows of its
\* transition of the alternative it has chosen.
LEMMA PushStep ==
  EntryTypeOK /\ InDate /\ EntryNext => \A a \in Attendees : Timely(a)
<1> SUFFICES ASSUME EntryTypeOK, InDate, EntryNext, NEW a \in Attendees PROVE Timely(a)
  OBVIOUS
<1>1. ASSUME NEW i \in Slots, PushReassignment(i) PROVE Timely(a)
  <2> DEFINE h == handlers[i]
  <2>1. h # Ended /\ h.step = "push"
    BY <1>1 DEF PushReassignment
  <2>2. told'[a] # Absent => a \in h.rows /\ told'[a] = <<h.gate, h.to>>
    BY <1>1 DEF PushReassignment
  <2>3. h.rows \subseteq lately[h.gate].held /\ h.to \in lately[h.gate].better
    BY <2>1 DEF InDate
  <2> QED  BY <2>2, <2>3 DEF Timely
<1>2. ASSUME told' = NobodyTold PROVE Timely(a)
  BY <1>2 DEF NobodyTold, Timely
<1>3. told' = NobodyTold \/ \E i \in Slots : PushReassignment(i)
  BY DEF EntryNext, Router, Recommend, StoreAssignment, AssignmentFails, OpenSocket, CloseSocket,
     Identify, OnMessage, Proceed, SelectAssigned, ReadHash, QueryFails, EngineUpdate, RouterIdle, Quiet
<1> QED  BY <1>1, <1>2, <1>3

\* Whoever is told to leave a gate was assigned to it, and the gate to go to was
\* another, known and available one, red only if all others were red or
\* unavailable, while that transition was in progress: for any loads, messages
\* handled at once, reassignments, reconnections and failed queries
\* (scorer.ts, redzone-subscriber.ts:58-125).
THEOREM PushedInTime == EntrySpec => PushIsNotOutOfDate
<1>1. EntryTypeOK /\ InDate /\ [EntryNext]_entryVars => [\A a \in Attendees : Timely(a)]_entryVars
  BY PushStep
<1>2. PushIsNotOutOfDate <=> [][\A a \in Attendees : Timely(a)]_entryVars
  BY PTL DEF PushIsNotOutOfDate, Timely
<1> QED  BY <1>1, <1>2, RouterTypes, InDateAlways, PTL DEF EntrySpec
=============================================================================
