------------------------------ MODULE MCHandlers ------------------------------
(* Handlers for TLC: every subject the venue describes, one in each          *)
(* behaviour, the graphs the wayfinding engine answers about, and the rules   *)
(* that no handler could break by being interleaved with another.            *)
EXTENDS Venue

\* The same as one function, which TLC evaluates once.
VenueSubjects == Described @@ <<>>

-----------------------------------------------------------------------------
(* Venues of four places: a way between two of them is a ramp of three       *)
(* metres, stairs of one, both, or there is none.                            *)

Ways(u, v, kind) ==
    LET ramp == [ends |-> {u, v}, distanceMeters |-> 3, isAccessible |-> TRUE, isStairs |-> FALSE]
        stairs == [ends |-> {u, v}, distanceMeters |-> 1, isAccessible |-> FALSE, isStairs |-> TRUE]
    IN  CASE kind = "ramp" -> {ramp} [] kind = "stairs" -> {stairs}
          [] kind = "both" -> {ramp, stairs} [] kind = "wall" -> {}

SmallGraphs ==
    {Ways("n1", "n2", a) \union Ways("n1", "n3", b) \union Ways("n2", "n3", c)
        \union Ways("n2", "n4", d) \union Ways("n3", "n4", e) :
            a, b, c, d, e \in {"ramp", "stairs", "both", "wall"}}

SmallRedZones == {{}, {"n1"}, {"n2"}, {"n3"}, {"n2", "n3"}, {"n4"}}

-----------------------------------------------------------------------------
(* The scores, rankings, guards, formats and forecasts the handlers and the  *)
(* panels decide by do what their statements say, on the inputs listed with  *)
(* each.  They are functions: TLC evaluates them once.                       *)

ASSUME ScoringRulesHold ==
    PriorityIsOrdered /\ RankingsAreBest /\ WaitsAreOrdered /\ SurgeIsBounded /\ BestIsActive

ASSUME GuardRulesHold ==
    AnomaliesAreRapid /\ AccessDiffersOnce /\ CapacityAlertsAreMonotone /\ AdvertisementsRoundTrip

ASSUME PanelRulesHold ==
    CrowdsFit /\ PlansAreOrdered /\ ViewStops /\ FramesCover /\ PanelsAgree /\ BoardIsCurrent /\ FiguresFit

ASSUME SharedTypesHold == DeclarationsAreMet
=============================================================================
