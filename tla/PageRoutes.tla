------------------------------ MODULE PageRoutes ------------------------------
(* What the pages of the dashboard and the screens of the app do with the    *)
(* routes of the services: loads, saves, pushes and polls.  The rows of a    *)
(* page are those behind the address it calls, whichever service answers     *)
(* there: for several pages of the dashboard none does yet.                  *)
EXTENDS ServiceRoutes

-----------------------------------------------------------------------------
(* Dashboard.  useApi aborts the load before when the URL changes, when the  *)
(* page asks again and when it is left; an answer that fails leaves the data.*)

useApi == <<Abort, Fetch, Show>>

\* VenueConfigPage: the zones, and the form that adds or changes one.
handleSave == <<Upsert("on"), Abort, Fetch, Show>>
VenueConfigRoutes == [load |-> useApi, save |-> handleSave]
VenueConfigFlow == {<<None, "on">>}

\* CompliancePage: the consents; its capacity and audit lists load alike.
CompliancePageRoutes ==
    [consentList |-> useApi,
     withdraw |-> ComplianceRoutes.withdraw,
     handleGenerateReport |-> <<Ask>>]

\* SponsorAnalyticsPage: the statistics of a zone, loaded when it is chosen.
SponsorPageRoutes ==
    [analyticsData |-> useApi,
     handleDownloadReport |-> <<Check, Ask>>,
     proximity |-> SponsorRoutes.proximity]

\* VendorPage: the kiosks of the venue.
VendorPageRoutes ==
    [kioskList |-> useApi, low |-> VendorRoutes.low, restock |-> VendorRoutes.restock]

\* AnalyticsPage: trends and reports load through useApi, the frames of a
\* replay by a plain fetch that an earlier one may overtake.
TrendsTab == useApi
ReportsTab == [load |-> useApi, handleDownloadReport |-> <<Check, Ask>>]
loadReplay == <<Check, Fetch, Show>>
AnalyticsPageRoutes ==
    [trends |-> TrendsTab, reports |-> ReportsTab.load,
     handleDownloadReport |-> ReportsTab.handleDownloadReport,
     snapshot |-> <<Upsert("here")>>]
ReplayPageRoutes == [loadReplay |-> loadReplay, snapshot |-> <<Upsert("here")>>]

\* EventSwitcherPage: a plain fetch, and the choice kept for every other page.
setActiveEventId == Reply
EventSwitcherRoutes ==
    [list |-> <<Fetch, Show>>, handleChange |-> <<setActiveEventId>>,
     create |-> EventRoutes.create, activate |-> EventRoutes.activate]

-----------------------------------------------------------------------------
(* Dashboard pages that a WebSocket feeds.  A push carries the row as it was *)
(* when it was sent.  The page shows the effect of a button before it asks   *)
(* for it, and does not look at the answer.  (Pushes of one socket keep      *)
(* their order; here one may overtake another, and nothing rests on it.)     *)

push == <<FetchOne, ShowOne>>
optimistic(status, call) == <<Revise(status), Ignored(call)>>

\* EmergencyPage: the button that is held for five seconds evacuates.
triggerEvacuation == <<Ask, Keep("evacuation")>>
handleResolveSos == optimistic("resolved", Update("resolved"))
EmergencyPageRoutes ==
    [handleEmergencyMessage |-> push, handleResolveSos |-> handleResolveSos,
     triggerEvacuation |-> triggerEvacuation, triggerPA |-> <<Ask>>]
EmergencyPageFlow == {<<"sos", "resolved">>}

\* MedicalTriagePage: the list is loaded once and then pushed to.
TriagePageRoutes ==
    [triageData |-> useApi, handleTriageMessage |-> push,
     handleDispatch |-> optimistic("dispatched", Update("dispatched")),
     handleResolve |-> optimistic("resolved", Update("resolved")),
     sos |-> MedicalRoutes.sos]

\* ThreatIncidentPage: nothing answers to investigate, and the page forgets it.
ThreatPageRoutes ==
    [threatData |-> useApi, handleThreatMessage |-> push,
     handleResolve |-> optimistic("resolved", Update("resolved")),
     handleInvestigate |-> optimistic("investigating", Ask),
     entry |-> ThreatRoutes.entry]

\* LiveMapPage: zones are replaced as a whole, alerts one by one; an alert is
\* acknowledged on the page alone.
LiveMapRoutes ==
    [handleHeatmapMessage |-> <<Fetch, Show>>, handleAlertMessage |-> push,
     handleAcknowledge |-> <<Revise("resolved")>>, zone |-> <<Upsert("here")>>]

\* AuthProvider and LoginPage: a login is two calls, and then the storage of the
\* browser; the developers' login registers first, whatever the answer.
login == <<Ask, Ask, Keep("on")>>
logout == <<Forget>>
devLogin == <<Ensure("on")>> \o login
LoginRoutes ==
    [handleLogin |-> login, devLogin |-> devLogin, logout |-> logout,
     handleRegister |-> register]

-----------------------------------------------------------------------------
(* App: the order of the kiosk, placed by a form and followed by a screen    *)
(* that polls every ten seconds until the order is collected.                *)

POLL_INTERVAL == <<FetchOne, ShowOne>>

\* PATCH /orders/:orderId/status has a catch block for the notification only.
PatchOrder(from, to) ==
    <<Check, Uncaught(ReadIn({from})), Uncaught(Update(to))>>
        \o (IF to = "ready" THEN <<Ignored(Ask)>> ELSE <<>>)

OrderRoutes ==
    [handleSubmit |-> <<Check, Create("pending")>>,
     fetchOrder |-> POLL_INTERVAL,
     prepare |-> PatchOrder("pending", "preparing"),
     ready |-> PatchOrder("preparing", "ready"),
     collect |-> PatchOrder("ready", "collected")]

OrderFlow ==
    {<<None, "pending">>, <<"pending", "preparing">>, <<"preparing", "ready">>,
     <<"ready", "collected">>}

\* KioskListScreen polls the predictions every minute; the two screens behind
\* it load once.
fetchKiosks == <<Fetch, Show>>
loadKiosk == <<Ask, Ask>>
loadMenu == <<Ask>>

KioskRoutes ==
    [fetchKiosks |-> fetchKiosks, handleRefresh |-> fetchKiosks,
     loadKiosk |-> loadKiosk, loadMenu |-> loadMenu, cycle |-> QueueRoutes.cycle]

-----------------------------------------------------------------------------
(* App: screens that load once or write once.                                *)

\* The ticket is linked by the server, then stored on the device; the scanner
\* may report the same code again while the first request is under way.
linkTicket == <<Check, Ask, Upsert("linked")>>
TicketPageRoutes == [linkTicket |-> linkTicket, getAllTickets |-> <<Fetch, Show>>]
TicketFlow == {<<None, "linked">>}

\* Redeeming on RewardDetailScreen takes the points locally too.
RewardPageRoutes ==
    [loadData |-> <<Ask>>, loadHistory |-> <<Fetch, Show>>, loadLeaderboard |-> <<Ask>>,
     loadReward |-> <<Ask>>, handleRedeem |-> <<Check, Log("redeemed"), Reply>>]

\* Parking, shuttles and exits settle on their own.
TransportRoutes == [loadTransportData |-> <<FetchOne, ShowOne>>, timer |-> ExternalRoutes.timer]

\* NavigationScreen: the route to the destination, fetched again five seconds
\* after a red zone is reported; the places nearby are not critical.
fetchRoute == <<FetchOne, ShowOne>>
handleArrived == <<Ignored(Ask)>>
NavigationRoutes ==
    [fetchRoute |-> fetchRoute, handleRedZoneAlert |-> fetchRoute,
     handleArrived |-> handleArrived, graph |-> <<Upsert("on")>>]

\* EvacuationScreen: what the sync before the event stored, or a fixed sentence.
loadExitRoute == <<FetchOne, ShowOne>>
EvacuationRoutes == [loadExitRoute |-> loadExitRoute, sync |-> <<Upsert("on")>>]

\* HeatmapScreen: the zones, fetched when the screen is opened, replaced by
\* every push; the recommended gate and the stations settle on their own.
loadHeatmap == <<Fetch, Show>>
handleHeatmapUpdate == <<Fetch, Show>>
HeatmapRoutes ==
    [loadHeatmap |-> loadHeatmap, handleHeatmapUpdate |-> handleHeatmapUpdate,
     gateRec |-> <<Ask>>, zone |-> <<Upsert("here")>>]

\* RegisterScreen: the account, then the tokens of the device.
RegisterRoutes == [handleRegister |-> register \o <<Keep("on")>>]

\* The consent is kept on the device, and declining is too.
ConsentRoutes == [handleAllow |-> <<Ask, Keep("consented")>>, handleDecline |-> <<Keep("withdrawn")>>]
=============================================================================
