--------------------------- MODULE DashboardPanels ---------------------------
(* What the panels of the dashboard derive from zones, alerts, staff and     *)
(* gates, and the controls of the crowd animation.  Colours are named for    *)
(* what they stand for; layout and wording are left out.                     *)
EXTENDS CrowdSimulation

NotANumber == {}                       \* a number n is shown as {n}
Nearest(n, d) == (2 * n + d) \div (2 * d)      \* Math.round of n / d
CountOf(seq, Test(_)) == Len(SelectSeq(seq, Test))
SumOver(seq, value(_)) == FoldLeft(LAMBDA sum, x : sum + value(x), 0, seq)

-----------------------------------------------------------------------------
(* Zones.  Five components pick the colour of a zone, two that of its text.  *)

ZoneStatuses == {"green", "amber", "red", "unavailable"}

STATUS_CONFIG == [green |-> "safe", amber |-> "busy", red |-> "critical", unavailable |-> "closed"]

getColorByStatus(status) ==
    CASE status = "red" -> "critical" [] status = "amber" -> "busy"
      [] status = "green" -> "safe" [] OTHER -> "closed"

borderColor(status) ==
    CASE status = "red" -> "critical" [] status = "amber" -> "busy"
      [] status = "unavailable" -> "closed" [] OTHER -> "safe"

getGradientColor(status) ==
    CASE status = "red" -> "critical" [] status = "amber" -> "busy"
      [] status = "green" -> "safe" [] OTHER -> "closed"

getTextColorByDensity(density) ==
    IF density >= 80 THEN "critical" ELSE IF density >= 50 THEN "busy" ELSE "safe"

\* The box of Stadium3D, which changes colour at other densities.
getHeatmapColor(density) ==
    IF density < 25 THEN "safe" ELSE IF density < 50 THEN "filling"
    ELSE IF density < 75 THEN "busy" ELSE "critical"

\* The card of ZoneHeatmap.
ZoneCard(zone, staffPins) ==
    [density |-> IF zone.status = "unavailable" THEN NotANumber ELSE {zone.densityPercent},
     barWidth |-> IF zone.status = "unavailable" THEN 0 ELSE Smaller(zone.densityPercent, 100),
     color |-> STATUS_CONFIG[zone.status],
     staff |-> CountOf(staffPins, LAMBDA pin : pin.zoneId = zone.zoneId)]

\* The tile of SimulationLive, whose bar is as long as the density says.
ZoneTile(zone) == [barWidth |-> zone.densityPercent, color |-> borderColor(zone.status)]

\* StadiumHeatmap draws three columns of four zones, by the number in the id;
\* Stadium3D the first twelve of the list.
ZONE_POSITIONS ==
    [n \in 1..12 |->
        LET row == (n - 1) % 4
        IN  [x |-> 50 + 170 * ((n - 1) \div 4), y |-> 20 + 160 * row,
             width |-> 150, height |-> IF row = 3 THEN 80 ELSE 120]]
totalWidth == 560
totalHeight == 600

\* Of several zones with one id the last is drawn.
DrawnOn(zones) ==
    [n \in {m \in DOMAIN ZONE_POSITIONS : \E k \in DOMAIN zones : zones[k].zoneId = m} |->
        zones[Max({k \in DOMAIN zones : zones[k].zoneId = n})]]

BoxesOf(zones) == SubSeq(zones, 1, Smaller(12, Len(zones)))

\* The average is of all densities over the zones that are open.
avgDensity(zones) ==
    LET open == CountOf(zones, LAMBDA z : z.status # "unavailable")
    IN  IF open = 0 THEN NotANumber ELSE {Nearest(SumOver(zones, LAMBDA z : z.densityPercent), open)}

ZoneSummary(zones) ==
    [totalAttendees |-> SumOver(zones, LAMBDA z : z.currentCount),
     criticalZones |-> CountOf(zones, LAMBDA z : z.status = "red"),
     busyZones |-> CountOf(zones, LAMBDA z : z.status = "amber"),
     safeZones |-> CountOf(zones, LAMBDA z : z.status = "green")]

SimulatedZones ==
    {updateZone([zoneId |-> 0, capacity |-> 250, currentCount |-> 0, densityPercent |-> 0,
                 status |-> status], raw) :
        status \in {"green", "unavailable"}, raw \in {0, 494, 495, 500, 794, 795, 800, 1080}}

\* Three zones as the panels show them; the canvas has no place for the last.
ZoneViews ==
    {[zones |-> zones, summary |-> ZoneSummary(zones), average |-> avgDensity(zones),
      drawn |-> DOMAIN DrawnOn(zones), boxes |-> BoxesOf(zones)] :
        zones \in {<<[a EXCEPT !.zoneId = 1], [b EXCEPT !.zoneId = 12], [c EXCEPT !.zoneId = 13]>> :
                      a, b, c \in SimulatedZones}}

\* The panels that colour a zone by its status give it the same colour; its text,
\* coloured by density, has another one only where rounding took the density
\* over the limit.  Stadium3D colours by density on a scale of its own, with
\* limits of 25, 50 and 75 (Stadium3D.tsx:10): its colour agrees of red zones only.
\* Every zone is counted once, its place is on the canvas and on no other's, and an average
\* is within the densities of the open zones.
\* (ZoneHeatmap.tsx:48, StadiumHeatmap.tsx:30, SimulationLive.tsx:68)
PanelsAgree ==
    /\ \A status \in ZoneStatuses :
           {getColorByStatus(status), borderColor(status), getGradientColor(status)}
               = {STATUS_CONFIG[status]}
    /\ \A zone \in SimulatedZones :
           /\ zone.status # "unavailable" /\ zone.densityPercent \notin {50, 80} =>
                  ZoneCard(zone, <<>>).color = getTextColorByDensity(zone.densityPercent)
           /\ ZoneCard(zone, <<>>).barWidth = ZoneTile(zone).barWidth
           /\ ZoneTile(zone).barWidth \in 0..100
           /\ zone.status = "red" => getHeatmapColor(zone.densityPercent) = "critical"
    /\ \A view \in ZoneViews :
           LET s == view.summary
               open == {z \in ToSet(view.zones) : z.status # "unavailable"}
               closed == CountOf(view.zones, LAMBDA z : z.status = "unavailable")
           IN  /\ s.criticalZones + s.busyZones + s.safeZones + closed = 3
               /\ \A shown \in view.average :
                      \E z, y \in open : z.densityPercent <= shown /\ shown <= y.densityPercent
               /\ (view.average = NotANumber) = (open = {})
               /\ view.drawn = {1, 12} /\ view.boxes = view.zones
    /\ \A m, n \in DOMAIN ZONE_POSITIONS :
           LET p == ZONE_POSITIONS[m] q == ZONE_POSITIONS[n]
           IN  /\ p.x + p.width <= totalWidth /\ p.y + p.height <= totalHeight
               /\ m = n \/ p.x + p.width <= q.x \/ q.x + q.width <= p.x
                        \/ p.y + p.height <= q.y \/ q.y + q.height <= p.y

-----------------------------------------------------------------------------
(* Alerts of the live map: pushed, acknowledged, listed, acted on.           *)

\* A push replaces the alert with its id or comes first.
handleAlertMessage(alerts, alert) ==
    IF \E k \in DOMAIN alerts : alerts[k].alertId = alert.alertId
    THEN [k \in DOMAIN alerts |-> IF alerts[k].alertId = alert.alertId THEN alert ELSE alerts[k]]
    ELSE <<alert>> \o alerts

handleAcknowledge(alerts, alertId) ==
    [k \in DOMAIN alerts |->
        IF alerts[k].alertId = alertId THEN [alerts[k] EXCEPT !.status = "acknowledged"] ELSE alerts[k]]

ActiveIn(alerts) == SelectSeq(alerts, LAMBDA a : a.status = "active")

\* The cards of AnomalyAlertPanel; only an active one has a button.
AlertCards(alerts) ==
    ActiveIn(alerts) \o SelectSeq(alerts, LAMBDA a : a.status = "acknowledged")

getPriorityColor(priority, isActive) ==
    IF priority = "high" \/ (isActive /\ priority # "low") THEN "HIGH"
    ELSE IF priority \in {"medium", "none"} THEN "MEDIUM" ELSE "LOW"

\* words: those of the list that the type of the alert contains.
getAlertIcon(words, priority) ==
    IF priority = "high" \/ "access" \in words THEN "sos"
    ELSE IF "crowd" \in words THEN "groups"
    ELSE IF words \intersect {"sensor", "equipment"} # {} THEN "warning"
    ELSE IF words \intersect {"medical", "aid"} # {} THEN "medical_services"
    ELSE IF words \intersect {"supply", "low"} # {} THEN "info" ELSE "stadium"

\* RedeploymentPanel: staff to send to the first active alert of the list.
nearbyStaff(alerts, staff) ==
    IF ActiveIn(alerts) = <<>> THEN <<>>
    ELSE LET zone == Head(ActiveIn(alerts)).zoneId
             others == SelectSeq(staff, LAMBDA s : s.isAvailable /\ s.zoneId # zone)
         IN  SubSeq(others, 1, Smaller(4, Len(others)))

DEMO_ALERTS ==
    <<[alertId |-> "alert-1", zoneId |-> "z1", status |-> "active"],
      [alertId |-> "alert-2", zoneId |-> "z8", status |-> "active"]>>

\* What happens to the board: a push, or a click on an alert.
BoardEvents ==
    [alertId : {"alert-1", "pushed"}, zoneId : {"z2"}, status : {"active", "acknowledged", "resolved"}]
        \union {[alertId |-> id] : id \in {"alert-1", "alert-2", "pushed"}}

AfterBoardEvent(alerts, event) ==
    IF "status" \in DOMAIN event THEN handleAlertMessage(alerts, event)
    ELSE handleAcknowledge(alerts, event.alertId)

OnDuty == [k \in 1..6 |-> [zoneId |-> IF k = 1 THEN "z1" ELSE "z2", isAvailable |-> k # 2]]

\* The board after up to three events, with what is shown for it.
Boards ==
    LET Seen(events) == FoldLeft(AfterBoardEvent, DEMO_ALERTS, events)
    IN  {[events |-> events, alerts |-> Seen(events), cards |-> AlertCards(Seen(events)),
          offered |-> nearbyStaff(Seen(events), OnDuty)] :
            events \in UNION {[1..n -> BoardEvents] : n \in 0..3}}

\* After any pushes and clicks there is one alert for each id, it says what was
\* said of it last, those that are settled are not listed, and staff is offered
\* exactly while an alert is active, never those who are at its zone already.
\* (LiveMapPage.tsx:153, AnomalyAlertPanel.tsx:48, RedeploymentPanel.tsx:29)
BoardIsCurrent ==
    /\ \A board \in Boards :
           LET events == board.events alerts == board.alerts
               cards == board.cards offered == board.offered
           IN  /\ \A j, k \in DOMAIN alerts : j # k => alerts[j].alertId # alerts[k].alertId
               /\ \A k \in DOMAIN events : "status" \in DOMAIN events[k] =>
                      \E a \in ToSet(alerts) : a.alertId = events[k].alertId
               /\ \A a \in ToSet(alerts) :
                      LET about == {k \in DOMAIN events : events[k].alertId = a.alertId}
                      IN  a.status = IF about = {} THEN "active"
                                     ELSE IF "status" \in DOMAIN events[Max(about)]
                                          THEN events[Max(about)].status ELSE "acknowledged"
               /\ \A a \in ToSet(alerts) : (a \in ToSet(cards)) = (a.status # "resolved")
               /\ \A j, k \in DOMAIN cards :
                      j < k /\ cards[k].status = "active" => cards[j].status = "active"
               /\ Len(offered) <= 4 /\ (offered # <<>>) = (ActiveIn(alerts) # <<>>)
               /\ \A s \in ToSet(offered) : s.isAvailable /\ s.zoneId # Head(ActiveIn(alerts)).zoneId
    /\ \A priority \in {"high", "medium", "low", "none"}, words \in SUBSET {"access", "crowd", "low"} :
           /\ (getPriorityColor(priority, TRUE) = "LOW") = (priority = "low")
           /\ getPriorityColor(priority, FALSE) = "HIGH" => getAlertIcon(words, priority) = "sos"

-----------------------------------------------------------------------------
(* Staff, gates, stock: rows with a badge, and counts over them.             *)

Specializations == {"security", "first_aid", "operations", "general"}

getSpecConfig(spec) ==
    CASE spec = "security" -> "Security" [] spec = "first_aid" -> "Medical"
      [] spec = "operations" -> "Operations" [] OTHER -> "Staff"
getSpec(spec) ==
    CASE spec \in {"security", "crowd_control"} -> "Security" [] spec = "first_aid" -> "Medical"
      [] spec = "operations" -> "Operations" [] OTHER -> "Staff"

getStatusConfig(status) ==
    CASE status = "unresponsive" -> "critical" [] status = "idle" -> "busy" [] OTHER -> "safe"

\* The card of one of the staff, with what its button does.
StaffCard(member) ==
    [label |-> getSpecConfig(member.specialization), color |-> getStatusConfig(member.status),
     button |-> IF member.status = "unresponsive" THEN "Emergency Contact" ELSE "Redeploy"]

filteredStaff(staff, filterBy) ==
    IF filterBy = "all" THEN staff ELSE SelectSeq(staff, LAMBDA s : s.specialization = filterBy)

specCounts(staff) ==
    [spec \in Specializations |-> CountOf(staff, LAMBDA s : s.specialization = spec)]

tabCount(staff, filter) == IF filter = "all" THEN Len(staff) ELSE specCounts(staff)[filter]

\* The figures under the cards and their bars, in percent.
StaffFigures(staff) ==
    LET securityCoverage == Nearest(specCounts(staff)["security"] * 100, 120)
        active == CountOf(staff, LAMBDA s : s.status = "active")
    IN  [securityCoverage |-> securityCoverage, coverageBar |-> Smaller(securityCoverage, 100),
         medicalReady |-> IF specCounts(staff)["first_aid"] > 0 THEN 100 ELSE 0,
         activeStaff |-> active,
         activeBar |-> IF staff = <<>> THEN NotANumber ELSE {(active * 100) \div Len(staff)}]

\* Seconds ago, as StaffPanel, AnomalyAlertPanel and InventoryAlertFeed say it.
timeAgo(diff) ==
    IF diff < 60 THEN [ago |-> diff, unit |-> 1]
    ELSE IF diff < 3600 THEN [ago |-> diff \div 60, unit |-> 60]
    ELSE [ago |-> diff \div 3600, unit |-> 3600]

calculateCapacityPercent(entryRate, capacity) ==
    IF capacity = 0 THEN 0 ELSE Nearest(entryRate * 100, capacity)

GateRow(gate) ==
    LET percent == calculateCapacityPercent(gate.entryRate, gate.capacity)
    IN  [capacityPercent |-> percent, bar |-> Smaller(percent, 100), urgent |-> gate.status = "busy"]

GateSummary(gates) ==
    [activeGates |-> CountOf(gates, LAMBDA g : g.status # "closed"),
     throughput |-> SumOver(gates, LAMBDA g : g.entryRate)]

\* The number on a tab is that of the cards under it, and the tabs but "all"
\* share the staff but for the general ones; both staff panels name a
\* specialization alike; only who does not respond is in the critical colour and
\* contacted instead of redeployed; no bar is longer than its track; an age is the true
\* one rounded down, in the largest unit it fills.  (StaffPanel.tsx:49, GateStatusPanel.tsx:19)
FiguresFit ==
    /\ \A staff \in UNION {[1..n -> [specialization : Specializations, status : {"active", "idle"}]] :
                               n \in 0..3} :
           LET figures == StaffFigures(staff)
           IN  /\ \A filter \in {"all"} \union Specializations :
                      tabCount(staff, filter) = Len(filteredStaff(staff, filter))
               /\ tabCount(staff, "all") = SumOver(SetToSeq(Specializations), LAMBDA s : tabCount(staff, s))
               /\ \A bar \in figures.activeBar \union {figures.coverageBar, figures.medicalReady} :
                      bar \in 0..100
               /\ (figures.medicalReady = 0) = (filteredStaff(staff, "first_aid") = <<>>)
    /\ \A spec \in Specializations, status \in {"active", "idle", "unresponsive"} :
           LET card == StaffCard([specialization |-> spec, status |-> status])
           IN  /\ card.label = getSpec(spec)
               /\ (card.color = "critical") = (status = "unresponsive")
               /\ (card.button = "Redeploy") = (status # "unresponsive")
    /\ \A rate, capacity \in {0, 1, 42, 60, 61} :
           LET open == [entryRate |-> rate, capacity |-> capacity, status |-> "open"]
               shut == [open EXCEPT !.status = "closed"]
           IN  /\ GateRow(open).bar \in 0..100
               /\ rate > capacity /\ capacity > 0 => GateRow(open).bar = 100
               /\ GateSummary(<<open, shut>>) = [activeGates |-> 1, throughput |-> 2 * rate]
    /\ \A diff \in {0, 59, 60, 61, 119, 120, 3599, 3600, 7199, 86400} :
           LET said == timeAgo(diff)
           IN  /\ said.ago * said.unit <= diff /\ diff < (said.ago + 1) * said.unit
               /\ \A unit \in {60, 3600} : (unit <= diff) = (unit <= said.unit)

-----------------------------------------------------------------------------
(* SimulationLive: the simulator's own animation, and a timer of the view    *)
(* that reads its progress.  The view holds the newest timer only, and the   *)
(* end of a simulation clears none.                                          *)

FreshView ==
    [running |-> FALSE, progress |-> 0, zones |-> "initial", simulator |-> "none", elapsed |-> 0,
     timers |-> {}, held |-> 0, finished |-> FALSE]

handleStart(view) ==
    IF view.running THEN view
    ELSE [view EXCEPT !.running = TRUE, !.progress = 0, !.zones = "simulated",
                      !.simulator = "animating", !.elapsed = 0,
                      !.timers = @ \union {view.held + 1}, !.held = @ + 1]

\* A frame of the animation at a progress; the last one ends it.
frame(view, progress) ==
    IF view.simulator # "animating" \/ progress < view.elapsed THEN view
    ELSE [view EXCEPT !.elapsed = progress, !.progress = progress, !.zones = "simulated",
                      !.simulator = IF progress = 100 THEN "complete" ELSE @,
                      !.running = @ /\ progress # 100, !.finished = @ \/ progress = 100]

timerFires(view) == IF view.timers = {} THEN view ELSE [view EXCEPT !.progress = view.elapsed]

handleStop(view) ==
    [view EXCEPT !.running = FALSE, !.progress = 0, !.zones = "initial",
                 !.simulator = IF @ = "animating" THEN "stopped" ELSE @,
                 !.timers = @ \ {view.held}]

unmount(view) ==
    [view EXCEPT !.simulator = IF @ = "animating" THEN "stopped" ELSE @,
                 !.timers = @ \ {view.held}]

\* The button is disabled unless a simulation runs; Reset is not.
clickStop(view) == IF view.running THEN handleStop(view) ELSE view

Use(view, step) ==
    CASE step = "start" -> handleStart(view) [] step = "frame" -> frame(view, 50)
      [] step = "last" -> frame(view, 100) [] step = "timer" -> timerFires(view)
      [] step = "stop" -> clickStop(view) [] step = "reset" -> handleStop(view)

\* A view after up to five steps, and the last of them.
Uses ==
    {[view |-> FoldLeft(Use, FreshView, steps), last |-> Last(steps)] :
        steps \in UNION {[1..n -> {"start", "frame", "last", "timer", "stop", "reset"}] : n \in 1..5}}

\* While the crowd moves the view says so and can stop it; otherwise it shows
\* the zones it began with or the end of a simulation.  Unless one has run to
\* its end, a view that is stopped has no timer left and shows no progress, and
\* one that is left has none either.
\* (SimulationLive.tsx:19)
ViewStops ==
    \A used \in Uses :
        LET view == used.view
        IN  /\ view.running = (view.simulator = "animating")
            /\ view.running => view.held \in view.timers
            /\ ~view.running /\ view.zones = "simulated" => view.simulator = "complete"
            /\ ~view.running /\ ~view.finished => view.timers = {} /\ view.progress = 0
            /\ unmount(view).simulator # "animating" /\ (view.finished \/ unmount(view).timers = {})
            /\ used.last = "reset" => view.zones = "initial" /\ view.progress = 0
=============================================================================
