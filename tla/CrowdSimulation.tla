--------------------------- MODULE CrowdSimulation ---------------------------
(* Forecasts before an event, the animated crowd of the dashboard, and the   *)
(* frames a replay is made of.  Fractions are in percent.                    *)
EXTENDS Integers, Sequences, FiniteSets, FiniteSetsExt, SequencesExt

Larger(a, b) == IF a > b THEN a ELSE b
Smaller(a, b) == IF a < b THEN a ELSE b
Ceil(n, d) == (n + d - 1) \div d

-----------------------------------------------------------------------------
(* Simulation service.  A plan is for one gate: staff, and security when the *)
(* zone is large.                                                            *)

\* minutes before the start |-> percent of the attendees
ARRIVAL_WINDOWS == [m \in {90, 60, 45, 30, 15, 5} |->
    CASE m = 90 -> 5 [] m = 60 -> 20 [] m = 45 -> 35 [] m = 30 -> 25 [] m = 15 -> 10 [] m = 5 -> 5]
GATE_THROUGHPUT_PER_MINUTE == 25
STAFF_PER_100_ATTENDEES == 2

simulate_gate_forecasts(attendance, zonePercent) ==
    LET attendees == (attendance * zonePercent) \div 100
        peak == CHOOSE m \in DOMAIN ARRIVAL_WINDOWS :
                    \A n \in DOMAIN ARRIVAL_WINDOWS : ARRIVAL_WINDOWS[n] <= ARRIVAL_WINDOWS[m]
        arrivals == (attendees * ARRIVAL_WINDOWS[peak]) \div 100
    IN  [expected_arrivals |-> attendees,
         peak_queue_depth |-> Larger(0, arrivals - GATE_THROUGHPUT_PER_MINUTE * 5),
         peak_time_offset_minutes |-> peak]

generate_staff_deployment_plan(forecast) ==
    LET base == Larger(2, Ceil(forecast.expected_arrivals * STAFF_PER_100_ATTENDEES, 100))
        staff == base + Ceil(forecast.peak_queue_depth, 50)
    IN  [staff |-> staff,
         security |-> IF forecast.expected_arrivals > 500 THEN Larger(1, staff \div 3) ELSE 0]

\* A bigger event never gets fewer people at a gate, nobody in a queue is
\* without staff, and the arrivals of the windows are all the attendees.
\* (simulator.py:23)
PlansAreOrdered ==
    /\ MapThenSumSet(LAMBDA m : ARRIVAL_WINDOWS[m], DOMAIN ARRIVAL_WINDOWS) = 100
    /\ \A a, b \in {0, 1, 99, 500, 501, 1430, 1431, 5000, 50000}, percent \in {0, 10, 33, 100} :
        LET f == simulate_gate_forecasts(a, percent)
            plan == generate_staff_deployment_plan(f)
            bigger == generate_staff_deployment_plan(simulate_gate_forecasts(b, percent))
        IN  /\ a <= b => plan.staff <= bigger.staff /\ plan.security <= bigger.security
            /\ plan.staff >= 2 /\ f.peak_queue_depth <= 50 * plan.staff
            /\ plan.security <= plan.staff

-----------------------------------------------------------------------------
(* CrowdSimulator: progress and density are in percent, the noise of two     *)
(* sine waves is any of up to 8 percent of the density.                      *)

Patterns == {"concert", "sports", "gathering", "festival"}
peakTime == [concert |-> 60, sports |-> 50, gathering |-> 70, festival |-> 50]
initialAttendance == [concert |-> 10, sports |-> 15, gathering |-> 5, festival |-> 20]

\* The share of the way from a to b that p has gone, in percent.
Along(p, a, b) == ((p - a) * 100) \div (b - a)

concertPattern(progress, peak, index) ==
    LET p == (progress + index * 5) % 100
    IN  ((IF p < peak THEN Along(p, 0, peak) ELSE 100 - Along(p, peak, 100))
            * (80 + (index % 3) * 10)) \div 100

\* The first peak is at 0.4 of the peak time, the second at 1.2 of it.
sportsPattern(progress, peak) ==
    LET first == (peak * 2) \div 5
        second == (peak * 6) \div 5
    IN  IF progress < first THEN (Along(progress, 0, first) * 60) \div 100
        ELSE IF progress < peak THEN 60 - (Along(progress, first, peak) * 30) \div 100
        ELSE IF progress < second THEN 30 + (Along(progress, peak, second) * 70) \div 100
        ELSE Larger(0, 100 - Along(progress, second, 100))

gatheringPattern(progress, peak) ==
    IF progress < peak THEN (Along(progress, 0, peak) * 90) \div 100
    ELSE 90 - (Along(progress, peak, 100) * 20) \div 100

\* wave: what the two sine waves add up to, from 0 to 100.
festivalPattern(progress, peak, wave) ==
    (wave * (IF progress < peak THEN Along(progress, 0, peak) ELSE 100 - Along(progress, peak, 100)))
        \div 100

zoneMultipliers == {120, 110, 100, 80, 40, 30, 20, 10}       \* by the name of the zone

calculateZoneDensity(event, progress, index, wave, zoneMultiplier) ==
    LET peak == peakTime[event]
        factor == CASE event = "concert" -> concertPattern(progress, peak, index)
                    [] event = "sports" -> sportsPattern(progress, peak)
                    [] event = "gathering" -> gatheringPattern(progress, peak)
                    [] event = "festival" -> festivalPattern(progress, peak, wave)
        base == initialAttendance[event] + (factor * (100 - initialAttendance[event])) \div 100
    IN  (base * zoneMultiplier) \div 100

\* In tenths of a percent.
addNoise(density, noise) == 10 * density + (density * noise) \div 10

\* One tick for one zone: the count and the colour are of the clamped density
\* (raw, in tenths of a percent), the percentage is that density rounded.
updateZone(zone, raw) ==
    LET density == IF zone.status = "unavailable" THEN 0 ELSE Larger(0, Smaller(1000, raw))
    IN  [zone EXCEPT !.currentCount = (density * zone.capacity + 500) \div 1000,
                     !.densityPercent = (density + 5) \div 10,
                     !.status = IF density >= 800 THEN "red" ELSE IF density >= 500 THEN "amber"
                                ELSE IF zone.status = "unavailable" THEN "unavailable" ELSE "green"]

\* LiveMapPage without a connection: each zone drifts by a random amount.
jitter(zone, delta) ==
    IF zone.status = "unavailable" THEN zone
    ELSE LET count == Larger(0, Smaller(zone.capacity, zone.currentCount + delta))
             density == (200 * count + zone.capacity) \div (2 * zone.capacity)
         IN  [zone EXCEPT !.currentCount = count, !.densityPercent = density,
                          !.status = IF density >= 80 THEN "red"
                                     ELSE IF density >= 50 THEN "amber" ELSE "green"]

\* What the animation shows is a crowd: no zone holds more than its capacity, a
\* closed zone stays empty and closed, the colour is that of the density before
\* it is rounded for display, and a gathering never grows after its peak.
\* (CrowdSimulator.ts:73, LiveMapPage.tsx:87)
CrowdsFit ==
    /\ \A event \in Patterns, progress \in {0, 10, 19, 20, 49, 50, 60, 61, 70, 99, 100},
          index \in {0, 1, 2, 11}, wave \in {0, 50, 100},
          times \in zoneMultipliers, noise \in {-8, 0, 8}, status \in {"green", "red", "unavailable"} :
           LET zone == [capacity |-> 250, currentCount |-> 0, densityPercent |-> 0, status |-> status]
               after == updateZone(zone,
                            addNoise(calculateZoneDensity(event, progress, index, wave, times), noise))
           IN  /\ after.currentCount \in 0..zone.capacity
               /\ after.status = "red" => after.densityPercent >= 80
               /\ after.densityPercent > 80 => after.status = "red"
               /\ status = "unavailable" => after = zone
               /\ \A delta \in {-20, 0, 19} :
                      LET moved == jitter(after, delta)
                      IN  /\ moved.currentCount \in 0..zone.capacity
                          /\ (moved.status = "red") = (moved.densityPercent >= 80)
    /\ \A p, q \in 70..100 : p <= q => gatheringPattern(q, 70) <= gatheringPattern(p, 70)

-----------------------------------------------------------------------------
(* Analytics service: samples are [bucket, zone], one for each pair.         *)

stream_replay_frames(samples) ==
    LET buckets == SetToSortSeq({r.bucket : r \in samples}, LAMBDA a, b : a < b)
    IN  [k \in DOMAIN buckets |->
            [timestamp |-> buckets[k], zones |-> {r.zone : r \in {q \in samples : q.bucket = buckets[k]}}]]

_generate_stub_frames(from, to, interval) ==
    IF to < from THEN <<>>
    ELSE [k \in 1..((to - from) \div interval + 1) |->
             [timestamp |-> from + (k - 1) * interval, zones |-> {}]]

\* A replay shows every recorded row once, in order of time; without the
\* database its frames cover the range at no more than the interval.
\* (replay.py:15)
FramesCover ==
    /\ \A samples \in SUBSET [bucket : {0, 10, 30}, zone : {"a", "b"}] :
           LET frames == stream_replay_frames(samples)
           IN  /\ \A j, k \in DOMAIN frames : j < k => frames[j].timestamp < frames[k].timestamp
               /\ UNION {{[bucket |-> frames[k].timestamp, zone |-> z] : z \in frames[k].zones} :
                             k \in DOMAIN frames} = samples
    /\ \A from, to \in 0..25, interval \in {1, 7, 10} :
           from <= to =>
               LET frames == _generate_stub_frames(from, to, interval)
               IN  /\ frames[1].timestamp = from /\ to - Last(frames).timestamp \in 0..(interval - 1)
                   /\ \A k \in 2..Len(frames) :
                          frames[k].timestamp - frames[k - 1].timestamp = interval
=============================================================================
