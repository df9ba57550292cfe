---------------------------- MODULE ScoringRules ----------------------------
(* The scores and rankings of the services, as functions of small inputs,    *)
(* each with the statement it has to satisfy.  Fractions are scaled to       *)
(* integers, as the comment of each definition says.                         *)
EXTENDS Integers, Sequences, FiniteSets, FiniteSetsExt, SequencesExt

Least(a, b) == IF a < b THEN a ELSE b
Most(a, b) == IF a > b THEN a ELSE b
Rounded(n, d) == (2 * n + d) \div (2 * d)      \* Math.round of n / d
RoundedUp(n, d) == (n + d - 1) \div d          \* Math.ceil of n / d

-----------------------------------------------------------------------------
(* Incident service: the priority of a report, in halves, the density in     *)
(* tenths.                                                                   *)

TYPE_BASE_PRIORITY ==
    [medical |-> 10, safety |-> 8, suspicious |-> 6, infrastructure |-> 4, other |-> 2]
KeywordBoost == [none |-> 0, medium |-> 1, high |-> 2]

Boost(value, medium, high) == IF value >= high THEN 2 ELSE IF value >= medium THEN 1 ELSE 0

computePriorityScore(type, keyword, density, duplicates) ==
    Rounded(Least(10, TYPE_BASE_PRIORITY[type] + KeywordBoost[keyword]
                        + Boost(density, 7, 9) + Boost(duplicates, 2, 3)), 2)

\* Scores are 1 to 5, medical reports are always at 5, and more crowding, more
\* reports or a stronger word never lower one.  (prioritizer.ts:26)
PriorityIsOrdered ==
    \A type \in DOMAIN TYPE_BASE_PRIORITY, w, v \in DOMAIN KeywordBoost,
       d, e \in 0..10, n, m \in 0..4 :
        LET score == computePriorityScore(type, w, d, n)
        IN  /\ score \in 1..5 /\ (type = "medical" => score = 5)
            /\ d <= e /\ n <= m /\ KeywordBoost[w] <= KeywordBoost[v] =>
                   score <= computePriorityScore(type, v, e, m)

-----------------------------------------------------------------------------
(* Queue predictor and staff: the best few of a list.                        *)

\* The first places of a stable sort by cost.
Ranked(candidates, cost, most) ==
    LET order == SetToSortSeq({k \in DOMAIN candidates : candidates[k]},
                     LAMBDA j, k : cost[j] < cost[k] \/ (cost[j] = cost[k] /\ j < k))
    IN  SubSeq(order, 1, Least(most, Len(order)))

\* Locations with a strictly shorter wait than the target, shortest first.
find_alternatives(wait, target) ==
    Ranked([k \in DOMAIN wait |-> k # target /\ wait[k] < wait[target]], wait, 3)

\* Staff of the venue by a distance of 0 or 1 from the target zone.
getRedeploymentSuggestions(inVenue, distanceScore, maxResults) ==
    Ranked(inVenue, distanceScore, maxResults)

BestFew(answer, candidates, cost, most) ==
    /\ \A j, k \in DOMAIN answer : j < k => cost[answer[j]] <= cost[answer[k]]
    /\ \A k \in DOMAIN answer : candidates[answer[k]]
    /\ \A c \in DOMAIN candidates \ ToSet(answer) :
           candidates[c] => /\ Len(answer) = most
                            /\ \A k \in DOMAIN answer : cost[answer[k]] <= cost[c]

\* The alternatives offered are shorter waits, and none that was left out is
\* shorter than one that was offered; staff suggested are the nearest.
\* (predictor.py:113, redeployment.ts:18)
RankingsAreBest ==
    /\ \A wait \in [1..5 -> 0..2], target \in 1..5 :
           BestFew(find_alternatives(wait, target),
                   [k \in 1..5 |-> wait[k] < wait[target]], wait, 3)
    /\ \A inVenue \in [1..4 -> BOOLEAN], score \in [1..4 -> 0..1] :
           BestFew(getRedeploymentSuggestions(inVenue, score, 2), inVenue, score, 2)

-----------------------------------------------------------------------------
(* Queue predictor: density in percent, waits in hundredths of a minute,     *)
(* multipliers in tenths.  A throughput of 0 is none known.                  *)

phase_multiplier == [pre_show |-> 15, halftime |-> 20, post_show |-> 18, general |-> 10]
hour_penalty(hour) == IF hour \in 17..20 THEN 13 ELSE 10

XGBoostWait(density, hour, phase, throughput) ==
    LET known == IF throughput = 0 THEN 20 ELSE throughput
    IN  Least(6000, (density * 600 * phase_multiplier[phase] * hour_penalty(hour))
                        \div (Most(known, 2) * 100))
XGBoostConfidence(density) == IF density \in 10..90 THEN 85 ELSE 65

\* Below a confidence of 60 the moving average answers instead.
EMAWait(average, density) == Least(6000, (average * (100 + density)) \div 100)
predict(density, hour, phase, throughput, average) ==
    IF XGBoostConfidence(density) < 60 THEN EMAWait(average, density)
    ELSE XGBoostWait(density, hour, phase, throughput)

\* Waits stay between zero and an hour; a denser zone never has a shorter wait
\* and a faster kiosk never a longer one.  (predictor.py:54)
WaitsAreOrdered ==
    \A phase \in DOMAIN phase_multiplier, hour \in {12, 17, 20, 21},
       d, e \in {0, 9, 10, 50, 90, 91, 100}, t, u \in {0, 1, 2, 20, 40} :
        LET wait == predict(d, hour, phase, t, 500)
        IN  /\ wait \in 0..6000
            /\ d <= e /\ (u = t \/ u \in 1..t) => wait <= predict(e, hour, phase, u, 500)

-----------------------------------------------------------------------------
(* Vendor intelligence: the demand score in hundredths, prices in cents.     *)

SURGE_THRESHOLD == 70
MAX_SURGE_MULTIPLIER == 130

computeDemandScore(wait, footfall, baseline) ==
    IF baseline > 0
    THEN Rounded(100 * (Least(wait, 30) * baseline + 30 * Least(footfall, baseline)), 60 * baseline)
    ELSE Rounded(100 * Least(wait, 30), 60)

\* The multiplier grows from 1 at the threshold to its maximum at a score of 1.
multiplier(score) ==
    100 + ((score - SURGE_THRESHOLD) * (MAX_SURGE_MULTIPLIER - 100)) \div (100 - SURGE_THRESHOLD)

generatePricingSuggestions(price, score) ==
    IF score < SURGE_THRESHOLD THEN {} ELSE {Rounded(price * multiplier(score), 100)}

\* A suggestion is made from the threshold on, never below the price and never
\* more than 30 percent above it, and a longer wait never lowers it.  (pricing.ts:22)
SurgeIsBounded ==
    \A wait, more \in {0, 11, 12, 13, 20, 30, 45}, footfall \in {0, 40, 99, 100, 250},
       baseline \in {0, 100}, price \in {1, 99, 250, 1000} :
        LET score == computeDemandScore(wait, footfall, baseline)
            later == computeDemandScore(Most(wait, more), footfall, baseline)
        IN  /\ score \in 0..100
            /\ \A s \in generatePricingSuggestions(price, score) :
                   /\ price <= s /\ s <= Rounded(price * MAX_SURGE_MULTIPLIER, 100)
                   /\ \E s2 \in generatePricingSuggestions(price, later) : s <= s2
            /\ footfall = 0 => generatePricingSuggestions(price, score) = {}

-----------------------------------------------------------------------------
(* ML pipeline: the registry of one service, in the order of registration;   *)
(* errors in hundredths.  Ids are times to the second: two runs may share one.*)

get_current_model(versions) ==
    LET active == {k \in DOMAIN versions : versions[k].is_active}
    IN  IF active = {} THEN 0 ELSE Max(active)          \* its place, 0 for None

promote_model(versions, id) ==
    [k \in DOMAIN versions |-> [versions[k] EXCEPT !.is_active = (versions[k].version_id = id)]]

should_promote(new_mape, current_mape) == new_mape < current_mape

\* What one retraining leaves in the registry.
retrained(versions, run) ==
    LET current == get_current_model(versions)
        grown == Append(versions, [version_id |-> run.version_id, mape |-> run.mape, is_active |-> FALSE])
    IN  IF should_promote(run.mape, IF current = 0 THEN 100 ELSE versions[current].mape)
        THEN promote_model(grown, run.version_id) ELSE grown

\* After any runs the active model is the best ever registered, if one beats the
\* baseline of 1, and versions that are active together share their second.
\* (trainer.py:64)
BestIsActive ==
    \A length \in 1..4 : \A runs \in [1..length -> [version_id: 1..2, mape: {40, 60, 100, 120}]] :
        (\A j, k \in 1..length : j < k => runs[j].version_id <= runs[k].version_id) =>
            LET versions == FoldLeft(retrained, <<>>, runs)
                current == get_current_model(versions)
                good == {k \in 1..length : runs[k].mape < 100}
            IN  /\ (current = 0) = (good = {})
                /\ current # 0 => current \in good /\ \A k \in good : runs[current].mape <= runs[k].mape
                /\ \A j, k \in 1..length : versions[j].is_active /\ versions[k].is_active =>
                       versions[j].version_id = versions[k].version_id
=============================================================================
