---------------------------- MODULE ServiceRoutes ----------------------------
(* The route handlers of the services: what each awaits, in which order, and *)
(* what it does when an operation fails.  The item of a request is the row,  *)
(* the zone, the ticket or the key it is about.                              *)
EXTENDS Statements

-----------------------------------------------------------------------------
(* Emergency coordinator: the audit log is the record of SOS signals and     *)
(* evacuations; the one evacuation of a venue is kept in a Map.  Nothing     *)
(* connects the Kafka producer: its failure is swallowed.                    *)

logAuditEvent(kind) == Log(kind)
getAuditLog == Ask
publishSOS == Ignored(Ask)

EmergencyRoutes ==
    [sos |-> <<Check, logAuditEvent("sos"), Publish("sos"), publishSOS, Reply>>,
     evacuate |-> <<Check, logAuditEvent("evacuation"),
                    Remembering(Publish("evacuation"), "evacuation"),
                    logAuditEvent("pa_trigger")>>,
     status |-> <<Reply>>,
     audit |-> <<getAuditLog>>]

\* The cached exit routes are a Map of their own; seeding one again keeps it.
ExitRoutes == [seed |-> <<Check, Keep("on")>>, all |-> <<Reply>>]

\* No location payload carries a specialization, so the search for a first-aider
\* (KEYS, then GET) ends without one and the case stays pending.
MedicalRoutes ==
    [sos |-> <<Check, Create("pending"), logAuditEvent("pending"), Publish("pending"),
               Ask, Ask, Reply>>,
     dispatch |-> <<Check, Update("dispatched")>>,
     triage |-> <<Ask>>,
     resolve |-> <<Update("resolved")>>,
     stations |-> <<Reply>>,
     addStation |-> <<Check, Reply>>]

\* Neither UPDATE looks at the status: a late dispatch reopens a resolved case.
MedicalFlow ==
    {<<None, "pending">>, <<"pending", "dispatched">>, <<"pending", "resolved">>,
     <<"dispatched", "resolved">>, <<"resolved", "dispatched">>}

-----------------------------------------------------------------------------
(* Incident service.                                                         *)

IncidentRoutes ==
    [create |-> <<Check, Ignored(Ask), Ignored(Ask), Create("open"), Publish("open")>>,
     list |-> <<Ask>>,
     resolve |-> <<Update("resolved")>>,
     assign |-> <<Check, Update("assigned")>>]

\* A late assignment takes a resolved incident back to assigned.
IncidentFlow ==
    {<<None, "open">>, <<"open", "assigned">>, <<"open", "resolved">>,
     <<"assigned", "resolved">>, <<"resolved", "assigned">>}

-----------------------------------------------------------------------------
(* Event service.                                                            *)

VALID_TRANSITIONS ==
    {<<"scheduled", "active">>, <<"scheduled", "cancelled">>,
     <<"active", "completed">>, <<"active", "cancelled">>}

\* PATCH /events/:eventId/status: SELECT, compare, then an UPDATE by id alone.
PatchStatus(to) ==
    <<Check, ReadIn({t[1] : t \in {u \in VALID_TRANSITIONS : u[2] = to}}), Update(to)>>

EventRoutes ==
    [create |-> <<Check, Create("scheduled")>>,
     list |-> <<Check, Ask>>,
     get |-> <<ReadIn(Status)>>,
     activate |-> PatchStatus("active"),
     complete |-> PatchStatus("completed"),
     cancel |-> PatchStatus("cancelled")]

EventFlow == {<<None, "scheduled">>} \union VALID_TRANSITIONS

-----------------------------------------------------------------------------
(* Entry router: the item is the ticket id.  A face scan makes one up from   *)
(* the attendee and the event, so it is another item than the QR ticket.     *)

EntryRoutes == [scan |-> <<Check, Check, Insert("entered")>>,
                faceScan |-> <<Check, Insert("entered")>>]
EntryFlow == {<<None, "entered">>}

-----------------------------------------------------------------------------
(* Staff management: locations, then shifts, then incident assignments.      *)
(* Only the POST of a location and of a shift have a catch block.            *)

updateStaffLocation == <<Upsert("here"), Ask, Publish("here")>>
getStaffLocations == Uncaught(Ask)
staffQueries == <<Uncaught(Ask), Uncaught(Ask)>>

LocationRoutes == [location |-> <<Check>> \o updateStaffLocation,
                   locations |-> <<Check, getStaffLocations>>,
                   suggestions |-> <<Check>> \o staffQueries]
LocationFlow == {<<None, "here">>}

createShift == Create("on")
getShifts == Uncaught(Ask)
updateShift == <<Check, Uncaught(Overwrite("on"))>>    \* nothing to update: no query

ShiftRoutes == [create |-> <<Check, createShift>>,
                list |-> <<Check, getShifts>>,
                update |-> updateShift]
ShiftFlow == {<<None, "on">>}

\* ON CONFLICT replaces the assignee and keeps resolved_at.
assignIncident == Uncaught(Ensure("assigned"))
resolveIncident == Uncaught(Update("resolved"))
getStaffIncidents == Uncaught(Ask)

AssignmentRoutes == [assign |-> <<Check, assignIncident>>,
                     resolve |-> <<resolveIncident>>,
                     mine |-> <<getStaffIncidents>>]
AssignmentFlow == {<<None, "assigned">>, <<"assigned", "resolved">>}

-----------------------------------------------------------------------------
(* Threat detection.  Its handlers call a synchronous Redis client, so one   *)
(* runs at a time.  A request that no detector objects to ends at the check; *)
(* a transition that raises two alerts is both programs, one after the other.*)

save == <<Create("active"), Publish("active")>>
get_active == Ask
resolve == <<ReadIn(Status), Upsert("resolved")>>      \* HGET, HSET, and no PUBLISH

ThreatRoutes ==
    [active |-> <<get_active>>,
     resolve |-> resolve,
     transition |-> <<Check>> \o save,
     entry |-> <<Check>> \o save,
     restrictZone |-> <<Check, Reply>>,
     watchlist |-> <<Reply>>]
ThreatFlow == {<<None, "active">>, <<"active", "resolved">>}

-----------------------------------------------------------------------------
(* Vendor intelligence: the row is the stock of an item of a kiosk.          *)

updateInventory(stock) ==
    <<Upsert(stock), Ask>> \o (IF stock = "low" THEN <<Publish("low")>> ELSE <<>>)

getInventory == Ask
getKioskAnalytics == Ask
recordTransaction == Log("on")
getKioskSLAReport == Ask

VendorRoutes ==
    [low |-> <<Check>> \o updateInventory("low"),
     restock |-> <<Check>> \o updateInventory("stocked"),
     inventory |-> <<getInventory>>,
     analytics |-> <<Check, getKioskAnalytics>>,
     transaction |-> <<Check, recordTransaction>>,
     pricing |-> <<Reply>>,
     sla |-> <<Check, getKioskSLAReport>>]
VendorFlow == {<<None, "stocked">>, <<None, "low">>, <<"stocked", "low">>, <<"low", "stocked">>}

-----------------------------------------------------------------------------
(* Compliance service: fire limits of a venue in memory, the audit trail     *)
(* append-only, and the consents of attendees.                               *)

capacityQuery == Ask

ComplianceRoutes ==
    [capacity |-> <<capacityQuery, Ignored(Log("violation"))>>,
     fireLimits |-> <<Check, Keep("on")>>,
     auditTrail |-> <<Ask>>,
     report |-> <<Check, Ignored(Ask), Ignored(Ask)>>,
     consents |-> <<Check, Ask>>,
     withdraw |-> <<Overwrite("withdrawn"), Log("erased")>>,
     export |-> <<Ask>>]
ComplianceFlow == {<<"consented", "withdrawn">>}

-----------------------------------------------------------------------------
(* Queue predictor: the thread writes one prediction after another and goes  *)
(* on with the next location when one fails; the routes read them.           *)

_get_density_for_location == Ask
_get_weather == Ask

savePrediction == Upsert("here")
predictionCycle == <<_get_density_for_location, _get_weather, savePrediction>>
get_all == Ask
get_one == ReadIn(Status)

QueueRoutes ==
    [cycle |-> predictionCycle,
     all |-> <<get_all>>,
     one |-> <<get_one>>,
     alternatives |-> <<get_all>>]
QueueFlow == {<<None, "here">>}

-----------------------------------------------------------------------------
(* External integration.  The routes that read through the cache have no     *)
(* catch block; the timers do.  An entry that expires is written again.      *)

fetchAndCache == Upsert("here")
publishEnrichment == Ask
startPollingTimers == <<fetchAndCache, publishEnrichment>>
readThrough == <<Uncaught(ReadIn({None})), Uncaught(fetchAndCache)>>

ExternalRoutes ==
    [traffic |-> readThrough,
     weather |-> readThrough,
     parking |-> readThrough,
     timer |-> startPollingTimers,
     shuttles |-> <<Reply>>,
     exits |-> <<Reply>>]
ExternalFlow == {<<None, "here">>}

-----------------------------------------------------------------------------
(* Sponsor analytics: an offer is delivered under a key SET with NX.  The    *)
(* offers and the zones are in memory; the statistics fall back to zeros.    *)

try_deliver == <<Insert("offered"), Publish("offered")>>
compute_sponsor_analytics == Ignored(Ask)

SponsorRoutes ==
    [proximity |-> <<Check>> \o try_deliver,
     createOffer |-> <<Check, Keep("on")>>,
     registerZone |-> <<Check, Keep("on")>>,
     analytics |-> <<compute_sponsor_analytics, Ignored(Ask)>>,
     report |-> <<compute_sponsor_analytics>>]
SponsorFlow == {<<None, "offered">>}

-----------------------------------------------------------------------------
(* Analytics service.  The queries of a post-event report share one try: the *)
(* first that fails ends them, and the report has what was counted so far.   *)

replayQuery == Ignored(Ask)
get_congestion_trends == Ignored(Ask)
generate_post_event_report == <<Ask, Ask, Ask, Ask, Ask>>

AnalyticsRoutes ==
    [replay |-> <<Check, Check, replayQuery>>,
     trends |-> <<Check, get_congestion_trends>>,
     incidents |-> <<Check, Ignored(Ask)>>,
     report |-> generate_post_event_report]

-----------------------------------------------------------------------------
(* Services that answer from memory: simulation runs, the model registry,    *)
(* routes through a registered graph.  And the rest of notification and auth.*)

SimulationRoutes ==
    [run |-> <<Keep("completed")>>, get |-> <<Check, Reply>>,
     forecast |-> <<Check, Reply>>, staffPlan |-> <<Check, Reply>>]

run_retraining == Keep("on")
ModelRoutes == [versions |-> <<Reply>>, retrain |-> <<run_retraining>>, active |-> <<Check, Reply>>]

NavigateRoutes == [navigate |-> <<Check, Check, Check, Reply>>,
                   recalculate |-> <<Check, Check, Check, Reply>>]

\* The gateway's publish and the radio bridge have no catch block of their own.
broadcastToZone == Ask
publish == Uncaught(Ask)
broadcast == Uncaught(Ask)
NotificationRoutes == [broadcast |-> <<Check, broadcastToZone>>,
                       radio |-> <<broadcast>>, gateway |-> <<publish>>]

register == <<Check, Check, Insert("on")>>
me == <<Check, ReadIn(Status)>>
AccountRoutes == [register |-> register, me |-> me, jwks |-> <<Reply>>]
AccountFlow == {<<None, "on">>}
=============================================================================
