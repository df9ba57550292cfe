------------------------------ MODULE GuardRules ------------------------------
(* The rules that let something through or hold it back: alert flooding,     *)
(* anomalous movement, permissions, fire limits, BLE advertisements.         *)
EXTENDS Integers, Sequences, FiniteSets, FiniteSetsExt, SequencesExt

-----------------------------------------------------------------------------
(* Threat detection.  Times are in seconds.                                  *)

FLOOD_GUARD_WINDOW_SECONDS == 60
FLOOD_GUARD_MAX_ALERTS == 10

\* The list of the alerts of a zone that were let through is the set of their
\* places in `times`, in order.  Those that are recent when alert k comes:
Recent(counts, times, k) ==
    {j \in counts : times[k] - times[j] <= FLOOD_GUARD_WINDOW_SECONDS}

\* A variant that lets one alert more through.
allowOneMore(counts, times, k) ==
    LET recent == Recent(counts, times, k)
    IN  IF Cardinality(recent) > FLOOD_GUARD_MAX_ALERTS THEN [counts |-> recent, ok |-> FALSE]
        ELSE [counts |-> recent \union {k}, ok |-> TRUE]

\* Whether alert k is let through, and the list after it.
allow(counts, times, k) ==
    LET recent == Recent(counts, times, k)
    IN  IF Cardinality(recent) >= FLOOD_GUARD_MAX_ALERTS THEN [counts |-> recent, ok |-> FALSE]
        ELSE [counts |-> recent \union {k}, ok |-> TRUE]

\* The alerts of a sequence that are let through.
Allowed(times) ==
    LET run[k \in 0..Len(times)] ==
            IF k = 0 THEN [counts |-> {}, ok |-> FALSE] ELSE allow(run[k - 1].counts, times, k)
    IN  {k \in DOMAIN times : run[k].ok}

\* A burst of alerts: so many at the start, so many after a pause, and again.
Burst(a, b, c, p, q) ==
    [k \in 1..(a + b + c) |-> IF k <= a THEN 0 ELSE IF k <= a + b THEN p ELSE p + q]
Bursts ==
    {Burst(a, b, c, p, q) : a, b, c \in {1, 5, 10, 11}, p, q \in {0, 30, 60, 61}}

\* In no stretch of 60 seconds are more than ten alerts of a zone let through,
\* and one is held back only when ten were.  (detector.py:108)
FloodIsBounded ==
    \A times \in Bursts :
        LET passed == Allowed(times)
            before(k) == {j \in passed : j < k /\ times[k] - times[j] <= FLOOD_GUARD_WINDOW_SECONDS}
        IN  \A k \in DOMAIN times : (k \in passed) = (Cardinality(before(k)) < FLOOD_GUARD_MAX_ALERTS)

WINDOW_LENGTH == 50             \* deque(maxlen=50)
SLIDING_WINDOW_SECONDS == 300

\* window: the transitions of a session, [zone, at].  The score is in tenths.
record_transition(window, entry) ==
    IF Len(window) < WINDOW_LENGTH THEN Append(window, entry) ELSE Append(Tail(window), entry)

compute_anomaly_score(window, now) ==
    LET recent == SelectSeq(window, LAMBDA e : now - e.at <= SLIDING_WINDOW_SECONDS)
    IN  IF Len(recent) < 3 THEN 0
        ELSE Min({Cardinality({recent[k].zone : k \in DOMAIN recent}), 10})

Anomalous(window, now) == compute_anomaly_score(window, now) * 10 > 75

\* A walk of so many steps, a step every so many seconds, round so many zones.
Walk(steps, zones, pace) ==
    [k \in 1..steps |-> [zone |-> k % zones, at |-> k * pace]]

\* A session raises an alert exactly when it was in eight zones or more within
\* five minutes, unless it made more transitions than the window holds.
\* (detector.py:39)
AnomaliesAreRapid ==
    \A steps \in {1, 2, 7, 8, 12, 49, 51, 60}, zones \in {1, 7, 8, 20}, pace \in {1, 40, 60} :
        LET walk == Walk(steps, zones, pace)
            window == FoldLeft(record_transition, <<>>, walk)
            now == steps * pace
            visited == {walk[k].zone : k \in {j \in DOMAIN walk : now - walk[j].at <= SLIDING_WINDOW_SECONDS}}
        IN  /\ Anomalous(window, now) => Cardinality(visited) >= 8
            /\ Cardinality(visited) >= 8 /\ steps <= WINDOW_LENGTH => Anomalous(window, now)

-----------------------------------------------------------------------------
(* Who may do what: the matrix of the auth service and that of the dashboard.*)

Own == {"view_own_profile", "delete_own_account"}
Watch == {"view_heatmap", "view_threat_alerts", "view_staff_locations", "resolve_incidents"}
Analytics == {"view_analytics", "view_congestion_trends", "view_incident_analytics"}
Manage == {"manage_staff", "manage_venue", "manage_users", "view_vendor_analytics", "manage_sponsors"}

PERMISSION_MATRIX ==
    [ATTENDEE |-> Own,
     STAFF |-> Own \union Watch \union Analytics,
     ADMIN |-> Own \union Watch \union Analytics \union Manage,
     EMERGENCY |-> Own \union Watch \union {"trigger_evacuation", "trigger_pa"}]

checkPermission(role, action) ==
    role \in DOMAIN PERMISSION_MATRIX /\ action \in PERMISSION_MATRIX[role]

StaffFeatures == {"heatmap", "analytics", "incidents", "threat_alerts"}
EmergencyFeatures == {"heatmap", "emergency_panel", "medical_triage"}
FEATURES ==
    [STAFF |-> StaffFeatures,
     ADMIN |-> StaffFeatures \union EmergencyFeatures
                   \union {"venue_config", "simulation", "vendor_intelligence",
                           "staff_management", "event_switcher"},
     EMERGENCY |-> EmergencyFeatures]

hasPermission(role, feature) == role \in DOMAIN FEATURES /\ feature \in FEATURES[role]

\* The feature each page of the dashboard asks for.
Guarded ==
    [live_map |-> "heatmap", venue_config |-> "venue_config", simulation |-> "simulation",
     vendors |-> "vendor_intelligence", events_switch |-> "event_switcher",
     emergency |-> "emergency_panel", threats |-> "threat_alerts",
     medical_triage |-> "medical_triage", compliance |-> "venue_config",
     analytics |-> "analytics", sponsors |-> "vendor_intelligence"]

\* Where RbacGuard sends someone who opens a page: a visitor who is not signed
\* in to the login page, a role without the feature away.
Opens(role, page) ==
    IF role = "nobody" THEN "login"
    ELSE IF hasPermission(role, Guarded[page]) THEN page ELSE "unauthorized"

\* The links of the sidebar, each with the feature it is shown for.
NAV_ITEMS ==
    [live_map |-> "heatmap", emergency |-> "emergency_panel", threats |-> "threat_alerts",
     medical_triage |-> "medical_triage", analytics |-> "analytics",
     vendors |-> "vendor_intelligence", simulation |-> "simulation",
     compliance |-> "venue_config", venue_config |-> "venue_config",
     events_switch |-> "event_switcher", sponsors |-> "vendor_intelligence"]

permitted(role) == {page \in DOMAIN NAV_ITEMS : hasPermission(role, NAV_ITEMS[page])}

\* What the auth service lets a role do that a page of the dashboard is for.  It
\* names no action for simulations, for events and for medical cases, so the
\* pages of these three have nothing to be compared with.
ActionOf ==
    [live_map |-> "view_heatmap", venue_config |-> "manage_venue", vendors |-> "view_vendor_analytics",
     emergency |-> "trigger_evacuation", threats |-> "view_threat_alerts", compliance |-> "manage_venue",
     analytics |-> "view_analytics", sponsors |-> "manage_sponsors"]

\* A page that has an action opens only for roles to which the service grants it,
\* with one exception: an admin opens the emergency panel, from which evacuations
\* are triggered, and the service grants that to the emergency role alone (the
\* handler of the evacuation consults neither matrix, emergency.ts:68).  Attendees
\* and strangers open no page, and the sidebar links exactly what opens.
\* (rbac.ts:17, useAuth.ts:47, App.tsx:70, Sidebar.tsx:38)
AccessDiffersOnce ==
    LET roles == {"nobody", "ATTENDEE", "STAFF", "ADMIN", "EMERGENCY"}
    IN  /\ \A role \in roles, page \in DOMAIN ActionOf :
               Opens(role, page) = page =>
                   (checkPermission(role, ActionOf[page]) <=> <<role, page>> # <<"ADMIN", "emergency">>)
        /\ Opens("ADMIN", "emergency") = "emergency"
        /\ \A role \in roles :
               /\ permitted(role) = {page \in DOMAIN Guarded : Opens(role, page) = page}
               /\ checkPermission(role, "trigger_evacuation") => role = "EMERGENCY"
        /\ \A role \in {"nobody", "ATTENDEE"}, page \in DOMAIN Guarded : Opens(role, page) # page
        /\ PERMISSION_MATRIX.STAFF \subseteq PERMISSION_MATRIX.ADMIN

-----------------------------------------------------------------------------
(* Compliance: occupancy of a zone against its fire limit.                   *)

Unset == -1

\* The limit configured for the zone, or the capacity of its snapshot, or 1000.
FireCodeLimit(configured, capacity) ==
    IF configured # Unset THEN configured ELSE IF capacity # Unset THEN capacity ELSE 1000

\* Utilization in percent.
getCapacityStatus(count, configured, capacity) ==
    LET limit == FireCodeLimit(configured, capacity)
    IN  [utilizationPercent |-> IF limit > 0 THEN (200 * count + limit) \div (2 * limit) ELSE 0,
         alertTriggered |-> count > limit]

\* More people never end an alert and a lower limit never prevents one; a zone
\* that is closed (limit 0) raises one as soon as anybody is in it.
\* (capacity-checker.ts:18)
CapacityAlertsAreMonotone ==
    \A count, more \in {0, 1, 99, 100, 101, 1001}, limit, lower, capacity \in {Unset, 0, 100, 1000} :
        LET now == getCapacityStatus(count, limit, capacity)
        IN  now.alertTriggered =>
                /\ more >= count => getCapacityStatus(more, limit, capacity).alertTriggered
                /\ lower # Unset /\ (lower <= limit \/ (limit = Unset /\ lower <= capacity)) =>
                       getCapacityStatus(count, lower, capacity).alertTriggered
                /\ limit > 0 => now.utilizationPercent >= 100

-----------------------------------------------------------------------------
(* BLE advertisements: 16 bytes of payload id, one of alert type, 14 of zone.*)

ALERT_TYPE_ENCODE == [evacuation |-> 1, emergency |-> 2, zone_alert |-> 3, general |-> 4]
PAYLOAD_ID_BYTES == 16
ZONE_ID_BYTES == 14
ADVERTISEMENT_SIZE == PAYLOAD_ID_BYTES + 1 + ZONE_ID_BYTES
Malformed == [payloadId |-> <<>>, alertType |-> "", zoneId |-> <<>>]

encodeBLEAdvertisement(payload) ==
    [b \in 1..ADVERTISEMENT_SIZE |->
        IF b <= PAYLOAD_ID_BYTES THEN payload.payloadId[b]
        ELSE IF b = PAYLOAD_ID_BYTES + 1 THEN ALERT_TYPE_ENCODE[payload.alertType]
        ELSE IF b - PAYLOAD_ID_BYTES - 1 \in DOMAIN payload.zoneId
             THEN payload.zoneId[b - PAYLOAD_ID_BYTES - 1] ELSE 0]

\* The zone ends at the first zero byte.
decodeBLEAdvertisement(raw) ==
    LET zoneRaw == SubSeq(raw, PAYLOAD_ID_BYTES + 2, ADVERTISEMENT_SIZE)
        nulls == {b \in DOMAIN zoneRaw : zoneRaw[b] = 0}
        types == {t \in DOMAIN ALERT_TYPE_ENCODE : ALERT_TYPE_ENCODE[t] = raw[PAYLOAD_ID_BYTES + 1]}
    IN  IF Len(raw) < ADVERTISEMENT_SIZE \/ types = {} THEN Malformed
        ELSE [payloadId |-> SubSeq(raw, 1, PAYLOAD_ID_BYTES),
              alertType |-> CHOOSE t \in types : TRUE,
              zoneId |-> IF nulls = {} THEN zoneRaw ELSE SubSeq(zoneRaw, 1, Min(nulls) - 1)]

\* A phone reads out of an advertisement what the service put into it, except
\* that of a zone id only the first 14 bytes arrive.  (bleMesh.ts:124)
AdvertisementsRoundTrip ==
    \A type \in DOMAIN ALERT_TYPE_ENCODE, zoneBytes \in 1..17, first \in {0, 255} :
        LET payload == [payloadId |-> [b \in 1..PAYLOAD_ID_BYTES |-> (first + b) % 256],
                        alertType |-> type, zoneId |-> [b \in 1..zoneBytes |-> b]]
        IN  decodeBLEAdvertisement(encodeBLEAdvertisement(payload))
                = [payload EXCEPT !.zoneId = SubSeq(@, 1, Min({zoneBytes, ZONE_ID_BYTES}))]
=============================================================================
