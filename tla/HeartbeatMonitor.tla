-------------------------- MODULE HeartbeatMonitor --------------------------
(***************************************************************************)
(* The IoT gateway's liveness watch over its sensors:                      *)
(* services/iot-gateway/src/heartbeat/monitor.ts and the MQTT handler that *)
(* feeds it.  One tick is the period of the check timer (10 s).            *)
(*                                                                         *)
(* The handler and check() are async functions of one Node process, so     *)
(* each is split at its awaits: between two awaits it runs to completion,  *)
(* and anything may happen while it waits for Kafka.  setInterval does not *)
(* wait for the previous check(), so several checks may be in progress.    *)
(***************************************************************************)
EXTENDS Integers

CONSTANTS
    Sensors,            \* sensor ids
    None,               \* no sensor
    HeartbeatInterval,  \* intervalMs, in ticks
    CheckSpan           \* bound: a check ends within CheckSpan ticks of its
                        \* start (the Kafka producer gives up after 3 retries)

ASSUME IntervalAssumption == HeartbeatInterval \in Nat
ASSUME SpanAssumption == CheckSpan \in Nat
ASSUME NoneAssumption == None \notin Sensors

VARIABLES
    up,        \* the sensors that still transmit (the environment)
    sending,   \* the sensors with a reading whose sendSensorReading is awaited
    tracked,   \* the keys of the Map `sensors`
    age,       \* ticks since lastSeenAt, up to MaxAge
    checks,    \* checks[e]: the check() call that began e ticks ago
    reported   \* history: the sensors whose failure event Kafka acknowledged
               \* since their last recorded reading

vars == <<up, sending, tracked, age, checks, reported>>

\* Past this age a sensor is stale for every check that can be running.
MaxAge == HeartbeatInterval + 1 + CheckSpan
Elapsed == 0..CheckSpan

\* A check() in progress: the `stale` list, and the sensor it awaits onFailure for.
Check == [stale: SUBSET Sensors, emitting: Sensors]
Idle == [stale |-> {}, emitting |-> None]

TypeOK ==
    /\ up \subseteq Sensors
    /\ sending \subseteq Sensors
    /\ tracked \subseteq Sensors
    /\ age \in [Sensors -> 0..MaxAge]
    /\ checks \in [Elapsed -> Check \cup {Idle}]
    /\ reported \subseteq Sensors

Init ==
    /\ up = Sensors
    /\ sending = {}
    /\ tracked = {}
    /\ age = [s \in Sensors |-> MaxAge]
    /\ checks = [e \in Elapsed |-> Idle]
    /\ reported = {}

-----------------------------------------------------------------------------
(* The scan inside check().  The loop iterates over the live Map: a sensor  *)
(* is judged when it is reached, against the `now` the check began with.    *)
(* The insertion order of the Map is left out: any sensor may come next.    *)

\* A variant that also accuses a sensor silent for exactly the interval.
StillStaleAtInterval(e, stale, trk, ag) ==
    {s \in trk \ stale : ag[s] - e >= HeartbeatInterval}

\* A variant that compares an age in seconds with an interval in milliseconds.
StillStaleInSeconds(e, stale, trk, ag) ==
    {s \in trk \ stale : ag[s] - e > 1000 * HeartbeatInterval}

\* The sensors the loop has still to report, for a check of age e that has
\* already collected `stale`, over the Map (trk, ag).
StillStale(e, stale, trk, ag) ==
    {s \in trk \ stale : ag[s] - e > HeartbeatInterval}

-----------------------------------------------------------------------------
(* The MQTT handler *)

\* A valid reading arrives; the handler awaits sendSensorReading.
\* (A malformed message is dropped before any state changes.)
ReadingArrives(s) ==
    /\ s \in up
    /\ s \notin sending
    /\ sending' = sending \cup {s}
    /\ UNCHANGED <<up, tracked, age, checks, reported>>

\* Kafka acknowledged the reading: monitor.update(reading).
ReadingSent(s) ==
    /\ s \in sending
    /\ sending' = sending \ {s}
    /\ tracked' = tracked \cup {s}
    /\ age' = [age EXCEPT ![s] = 0]
    /\ reported' = reported \ {s}
    /\ UNCHANGED <<up, checks>>

\* sendSensorReading throws: the handler rejects and update() is not reached.
ReadingFails(s) ==
    /\ s \in sending
    /\ sending' = sending \ {s}
    /\ UNCHANGED <<up, tracked, age, checks, reported>>

-----------------------------------------------------------------------------
(* The checks *)

\* A tick passes and the interval timer starts a new check(), which scans up
\* to its first stale sensor and awaits onFailure for it, or ends at once.
Tick ==
    /\ checks[CheckSpan] = Idle
    /\ LET older == [s \in Sensors |-> IF age[s] < MaxAge THEN age[s] + 1 ELSE MaxAge]
           found == StillStale(0, {}, tracked, older)
       IN  /\ age' = older
           /\ \E first \in IF found = {} THEN {None} ELSE found :
                checks' = [e \in Elapsed |->
                    IF e > 0 THEN checks[e - 1]
                    ELSE IF first = None THEN Idle
                    ELSE [stale |-> {first}, emitting |-> first]]
    /\ UNCHANGED <<up, sending, tracked, reported>>

\* onFailure resolves and the loop goes on to the next stale sensor.
EmitThenScan(e) ==
    LET next == StillStale(e, checks[e].stale, tracked, age)
    IN  /\ checks[e] # Idle
        /\ next # {}
        /\ \E s \in next : checks' =
             [checks EXCEPT ![e] = [stale |-> checks[e].stale \cup {s}, emitting |-> s]]
        /\ reported' = reported \cup {checks[e].emitting}
        /\ UNCHANGED <<up, sending, tracked, age>>

\* onFailure resolves for the last stale sensor: the collected ids are deleted.
EmitThenRemove(e) ==
    /\ checks[e] # Idle
    /\ StillStale(e, checks[e].stale, tracked, age) = {}
    /\ tracked' = tracked \ checks[e].stale
    /\ checks' = [checks EXCEPT ![e] = Idle]
    /\ reported' = reported \cup {checks[e].emitting}
    /\ UNCHANGED <<up, sending, age>>

EmitOk(e) == EmitThenScan(e) \/ EmitThenRemove(e)

\* A variant that deletes the collected ids in a `finally`.
EmitFailsButRemoves(e) ==
    /\ checks[e] # Idle
    /\ tracked' = tracked \ checks[e].stale
    /\ checks' = [checks EXCEPT ![e] = Idle]
    /\ UNCHANGED <<up, sending, age, reported>>

\* onFailure rejects: check() is abandoned and deletes nothing.
EmitFails(e) ==
    /\ checks[e] # Idle
    /\ checks' = [checks EXCEPT ![e] = Idle]
    /\ UNCHANGED <<up, sending, tracked, age, reported>>

-----------------------------------------------------------------------------
\* A sensor stops transmitting, or starts again.
SensorStops(s) ==
    /\ s \in up
    /\ up' = up \ {s}
    /\ UNCHANGED <<sending, tracked, age, checks, reported>>

SensorRestarts(s) ==
    /\ s \in Sensors \ up
    /\ up' = up \cup {s}
    /\ UNCHANGED <<sending, tracked, age, checks, reported>>

Next ==
    \/ Tick
    \/ \E s \in Sensors : \/ ReadingArrives(s) \/ ReadingSent(s) \/ ReadingFails(s)
                          \/ SensorStops(s) \/ SensorRestarts(s)
    \/ \E e \in Elapsed : EmitOk(e) \/ EmitFails(e)

Spec == Init /\ [][Next]_vars

\* The interval timer keeps firing, and every producer.send() settles: it
\* resolves or, its retries exhausted, rejects.
Fairness ==
    /\ WF_vars(Tick)
    /\ \A e \in Elapsed : WF_vars(EmitOk(e) \/ EmitFails(e))
    /\ \A s \in Sensors : WF_vars(ReadingSent(s) \/ ReadingFails(s))

FairSpec == Spec /\ Fairness

-----------------------------------------------------------------------------
(* Properties *)

\* A check never accuses a live sensor: every sensor it has collected had been
\* silent for more than the heartbeat interval when the check read the clock,
\* unless a reading of it was recorded after that (while the check awaited
\* Kafka).  monitor.ts:56-58, the comparison against a `now` read only once.
CollectedWasSilent ==
    \A e \in Elapsed : \A s \in checks[e].stale :
        age[s] - e > HeartbeatInterval \/ age[s] <= e

\* A sensor is dropped from the Map only after Kafka acknowledged its failure
\* event, unless it was heard again within the check that drops it: a check
\* abandoned by a failed send drops nothing.  monitor.ts:59-71.
SilentDroppedWasReported ==
    [][\A s \in tracked \ tracked' : age[s] > CheckSpan => s \in reported']_vars

\* Once Kafka accepts every failure event, a sensor that has fallen silent does
\* not stay in the Map for ever.  monitor.ts:51, "emit failure events for stale
\* ones and remove them".
KafkaRecovers == <>[][\A e \in Elapsed : ~EmitFails(e)]_vars

SilentLeavesTracking ==
    KafkaRecovers =>
        \A s \in Sensors : (s \in tracked /\ s \notin up) ~> (s \notin tracked \/ s \in up)
=============================================================================
