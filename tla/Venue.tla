-------------------------------- MODULE Venue --------------------------------
(* The services, pages and screens of the venue as the subjects of Handlers, *)
(* each with the life cycle of its rows, and the rules its handlers decide   *)
(* by.                                                                       *)
EXTENDS Handlers, PageRoutes, RouteFinding, ScoringRules, GuardRules, DashboardPanels

NoRows == {<<None, None>>}    \* the routes touch no row that has a status

Described ==
    [emergency |-> Service(EmergencyRoutes, NoRows),
     exits |-> Service(ExitRoutes, NoRows),
     medical |-> Service(MedicalRoutes, MedicalFlow),
     incidents |-> Service(IncidentRoutes, IncidentFlow),
     events |-> Service(EventRoutes, EventFlow),
     entry |-> Service(EntryRoutes, EntryFlow),
     locations |-> Service(LocationRoutes, LocationFlow),
     shifts |-> Service(ShiftRoutes, ShiftFlow),
     assignments |-> Service(AssignmentRoutes, AssignmentFlow),
     threats |-> SingleService(ThreatRoutes, ThreatFlow),
     stock |-> Service(VendorRoutes, VendorFlow),
     compliance |-> Service(ComplianceRoutes, ComplianceFlow),
     queues |-> Service(QueueRoutes, QueueFlow),
     external |-> Expiring(Service(ExternalRoutes, ExternalFlow), {"here"}),
     offers |-> Expiring(SingleService(SponsorRoutes, SponsorFlow), {"offered"}),
     analytics |-> Service(AnalyticsRoutes, NoRows),
     simulation |-> SingleService(SimulationRoutes, NoRows),
     models |-> SingleService(ModelRoutes, NoRows),
     wayfinding |-> Service(NavigateRoutes, NoRows),
     notification |-> Service(NotificationRoutes, NoRows),
     accounts |-> Service(AccountRoutes, AccountFlow),
     venueConfigPage |-> Page(VenueConfigRoutes, VenueConfigFlow),
     compliancePage |-> Page(CompliancePageRoutes, ComplianceFlow),
     sponsorPage |-> Page(SponsorPageRoutes, SponsorFlow),
     vendorPage |-> Page(VendorPageRoutes, VendorFlow),
     analyticsPage |-> Page(AnalyticsPageRoutes, QueueFlow),
     replayPage |-> Page(ReplayPageRoutes, QueueFlow),
     eventPage |-> Page(EventSwitcherRoutes, EventFlow),
     orderScreen |-> PollingPage(OrderRoutes, OrderFlow, "fetchOrder", {"collected"}),
     kioskScreens |-> PollingPage(KioskRoutes, QueueFlow, "fetchKiosks", {}),
     ticketScreens |-> Page(TicketPageRoutes, TicketFlow),
     rewardScreens |-> Page(RewardPageRoutes, NoRows),
     emergencyPage |-> Page(EmergencyPageRoutes, EmergencyPageFlow),
     triagePage |-> Page(TriagePageRoutes, MedicalFlow),
     threatPage |-> Page(ThreatPageRoutes, ThreatFlow),
     liveMap |-> Page(LiveMapRoutes, QueueFlow),
     loginPage |-> Page(LoginRoutes, AccountFlow),
     navigationScreen |-> Page(NavigationRoutes, ShiftFlow),
     evacuationScreen |-> Page(EvacuationRoutes, ShiftFlow),
     heatmapScreen |-> Page(HeatmapRoutes, QueueFlow),
     registerScreen |-> Page(RegisterRoutes, AccountFlow),
     transportScreen |-> Page(TransportRoutes, ExternalFlow),
     consentScreen |-> Page(ConsentRoutes, NoRows)]

-----------------------------------------------------------------------------
(* A handler that answers from a rule answers what the rule promises, on all *)
(* the inputs listed with the rule.                                          *)

\* The route the wayfinding engine answers with is a walk of the graph outside
\* red zones, accessible when that is asked for, and no walk is cheaper; there
\* is no answer only where there is no walk.  (dijkstra.ts:22)
RoutesAreCheapest == subject = "wayfinding" => CheapestEverywhere

\* The states and roles that the services and the apps are declared to share.
MedicalStatuses == {"pending", "dispatched", "resolved"}
EventStatuses == {"scheduled", "active", "completed", "cancelled"}
ThreatStatuses == {"active", "resolved"}
IncidentStatuses == {"open", "assigned", "resolved"}
SharedZoneStatuses == {"green", "amber", "red", "unavailable"}
SharedRoles == {"ATTENDEE", "STAFF", "ADMIN", "EMERGENCY"}
SharedIncidentTypes == {"medical", "safety", "infrastructure", "suspicious", "other"}
SharedSpecializations == {"first_aid", "security", "operations", "general"}

StatusesOf(name) == UNION {{move[1], move[2]} : move \in Described[name].flow} \ {None}

Declared ==
    [medical |-> MedicalStatuses, triagePage |-> MedicalStatuses, events |-> EventStatuses,
     eventPage |-> EventStatuses, threats |-> ThreatStatuses, threatPage |-> ThreatStatuses,
     incidents |-> IncidentStatuses]

\* The declarations are those the code goes by: the rows of a service and of the
\* page that shows them reach exactly the declared statuses, there is a colour
\* for every zone, a priority for every type of report, a label for every kind
\* of staff and a set of permissions for every role.  (shared-types/index.ts:123)
DeclarationsAreMet ==
    /\ \A name \in DOMAIN Declared : StatusesOf(name) = Declared[name]
    /\ DOMAIN STATUS_CONFIG = SharedZoneStatuses
    /\ DOMAIN PERMISSION_MATRIX = SharedRoles
    /\ DOMAIN TYPE_BASE_PRIORITY = SharedIncidentTypes
    /\ \A spec \in SharedSpecializations \ {"general"} : getSpecConfig(spec) # getSpecConfig("general")

\* Whatever burst of alerts a zone raises, in no stretch of sixty seconds are more
\* than ten of them let through, and none is held back before ten were.
\* (detector.py:108)
AlertsAreNeverFlooded == subject = "threats" => FloodIsBounded
=============================================================================
