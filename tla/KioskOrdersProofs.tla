-------------------------- MODULE KioskOrdersProofs --------------------------
(***************************************************************************)
(* Proofs about KioskOrders, for any sets of orders and of racing requests.*)
(***************************************************************************)
EXTENDS KioskOrders, TLAPS

(* The type invariant of the orders table and of the PATCH requests in     *)
(* progress.                                                               *)
THEOREM TypeCorrect == Spec => []TypeOK
<1> USE DEF Statuses, HandlerStates, Idle, Updating, Notifying
<1>1. Init => TypeOK
  BY DEF Init, TypeOK
<1>2. TypeOK /\ [Next]_vars => TypeOK'
  <2> SUFFICES ASSUME TypeOK, [Next]_vars PROVE TypeOK'
    OBVIOUS
  <2> USE DEF TypeOK
  <2>1. ASSUME NEW o \in Orders, CreateOrder(o) PROVE TypeOK'
    BY <2>1 DEF CreateOrder
  <2>2. ASSUME NEW h \in Handlers, NEW o \in Orders, AcceptStatus(h, o) PROVE TypeOK'
    <3>1. NextStatus[status[o]] \in {"preparing", "ready", "collected"}
      BY <2>2 DEF AcceptStatus, NextStatus
    <3> QED  BY <2>2, <3>1 DEF AcceptStatus
  <2>3. ASSUME NEW h \in Handlers, UpdateStatus(h) PROVE TypeOK'
    <3>1. PICK o \in Orders, s \in {"preparing", "ready", "collected"} :
             handler[h] = Updating(o, s)
      BY <2>3 DEF UpdateStatus
    <3>2. /\ status' = [status EXCEPT ![o] = s]
          /\ furthest' = [furthest EXCEPT ![o] = Later(furthest[o], s)]
          /\ handler' = [handler EXCEPT ![h] = IF s = "ready" THEN Notifying(o) ELSE Idle]
          /\ announced' = announced /\ overlapped' = overlapped /\ missed' = missed
      BY <2>3, <3>1 DEF UpdateStatus
    <3> QED  BY <3>1, <3>2 DEF Later
  <2>4. ASSUME NEW h \in Handlers, Announce(h) PROVE TypeOK'
    <3>1. handler[h].order \in Orders
      BY <2>4 DEF Announce
    <3> QED  BY <2>4, <3>1 DEF Announce
  <2>5. ASSUME NEW h \in Handlers, AnnounceFails(h) PROVE TypeOK'
    BY <2>5 DEF AnnounceFails
  <2>6. CASE Crash
    BY <2>6 DEF Crash
  <2>7. CASE UNCHANGED vars
    BY <2>7 DEF vars
  <2> QED  BY <2>1, <2>2, <2>3, <2>4, <2>5, <2>6, <2>7 DEF Next, Proceed
<1> QED  BY <1>1, <1>2, PTL DEF Spec

-----------------------------------------------------------------------------
(* The furthest stage.  A racing request may write a stale status, but the *)
(* stage it writes is at most one past the furthest that its order has     *)
(* been in when the request was validated, and that only grows.            *)

StageInv ==
    /\ \A o \in Orders : /\ Rank[status[o]] <= Rank[furthest[o]]
                         /\ status[o] = "none" => furthest[o] = "none"
    /\ \A h \in Handlers :
          /\ handler[h].at = "update" =>
                /\ status[handler[h].order] # "none"
                /\ Rank[handler[h].target] <= Rank[furthest[handler[h].order]] + 1
          /\ handler[h].at = "notify" =>
                Rank[furthest[handler[h].order]] >= Rank["ready"]
    /\ AnnouncedWasReady

LEMMA StageInit == Init => StageInv
  BY DEF Init, StageInv, AnnouncedWasReady, Idle, Rank

LEMMA RankRange ==
  ASSUME NEW s \in Statuses \cup {"none"}
  PROVE  Rank[s] \in 0..4
  BY DEF Statuses, Rank

LEMMA StageStep == TypeOK /\ StageInv /\ [Next]_vars => StageInv'
<1> SUFFICES ASSUME TypeOK, StageInv, [Next]_vars PROVE StageInv'
  OBVIOUS
<1> USE DEF TypeOK, StageInv, AnnouncedWasReady
<1>1. ASSUME NEW o \in Orders, CreateOrder(o) PROVE StageInv'
  <2>1. furthest[o] = "none" /\ o \notin announced
    BY <1>1 DEF CreateOrder, Rank
  <2>2. /\ status' = [status EXCEPT ![o] = "pending"]
        /\ furthest' = [furthest EXCEPT ![o] = "pending"]
        /\ handler' = handler /\ announced' = announced
    BY <1>1 DEF CreateOrder
  <2>3. ASSUME NEW p \in Orders
        PROVE  /\ Rank[status'[p]] <= Rank[furthest'[p]]
               /\ status'[p] = "none" => furthest'[p] = "none"
    BY <2>2, RankRange DEF Rank
  <2>4. ASSUME NEW h \in Handlers, handler[h].at = "update"
        PROVE  handler[h].order \in Orders /\ handler[h].order # o
    BY <2>4, <1>1 DEF CreateOrder, HandlerStates, Idle, Updating, Notifying
  <2>5. ASSUME NEW h \in Handlers, handler[h].at = "notify"
        PROVE  handler[h].order \in Orders /\ handler[h].order # o
    BY <2>5, <2>1 DEF HandlerStates, Idle, Updating, Notifying, Rank
  <2> QED  BY <2>1, <2>2, <2>3, <2>4, <2>5
<1>2. ASSUME NEW h \in Handlers, NEW o \in Orders, AcceptStatus(h, o) PROVE StageInv'
  <2>1. /\ status[o] # "none"
        /\ Rank[NextStatus[status[o]]] = Rank[status[o]] + 1
    BY <1>2 DEF AcceptStatus, NextStatus, Rank
  <2>2. Rank[NextStatus[status[o]]] <= Rank[furthest[o]] + 1
    BY <2>1, RankRange
  <2> QED  BY <1>2, <2>1, <2>2 DEF AcceptStatus, Updating
<1>3. ASSUME NEW h \in Handlers, UpdateStatus(h) PROVE StageInv'
  <2>1. PICK o \in Orders, s \in {"preparing", "ready", "collected"} :
           handler[h] = Updating(o, s)
    BY <1>3 DEF UpdateStatus, HandlerStates, Idle, Updating, Notifying
  <2>2. /\ status' = [status EXCEPT ![o] = s]
        /\ furthest' = [furthest EXCEPT ![o] = Later(furthest[o], s)]
        /\ handler' = [handler EXCEPT ![h] = IF s = "ready" THEN Notifying(o) ELSE Idle]
        /\ announced' = announced
    BY <1>3, <2>1 DEF UpdateStatus, Updating
  <2>3. /\ Later(furthest[o], s) \in Statuses \cup {"none"}
        /\ Rank[s] <= Rank[Later(furthest[o], s)]
        /\ Rank[furthest[o]] <= Rank[Later(furthest[o], s)]
    BY RankRange DEF Later, Statuses
  <2>4. ASSUME NEW p \in Orders
        PROVE  /\ Rank[furthest[p]] <= Rank[furthest'[p]]
               /\ Rank[status'[p]] <= Rank[furthest'[p]]
               /\ status'[p] = "none" => furthest'[p] = "none"
               /\ status[p] # "none" => status'[p] # "none"
    BY <2>2, <2>3, RankRange
  <2>5. ASSUME NEW g \in Handlers, g # h, handler[g].at # "idle"
        PROVE  handler[g].order \in Orders /\ handler'[g] = handler[g]
               /\ handler[g].target \in Statuses
    BY <2>2, <2>5 DEF HandlerStates, Idle, Updating, Notifying, Statuses
  <2>6. \A p \in Orders : Rank[furthest[p]] \in 0..4 /\ Rank[furthest'[p]] \in 0..4
    BY <2>2, <2>3, RankRange
  <2>7. \A g \in Handlers : handler'[g].at = "update" =>
                /\ status'[handler'[g].order] # "none"
                /\ Rank[handler'[g].target] <= Rank[furthest'[handler'[g].order]] + 1
    <3> SUFFICES ASSUME NEW g \in Handlers, handler'[g].at = "update"
                 PROVE  /\ status'[handler'[g].order] # "none"
                        /\ Rank[handler'[g].target] <= Rank[furthest'[handler'[g].order]] + 1
      OBVIOUS
    <3>1. g # h
      BY <2>2 DEF Notifying, Idle
    <3>2. handler[g].at = "update" /\ handler'[g] = handler[g]
      BY <3>1, <2>2
    <3>3. handler[g].order \in Orders /\ Rank[handler[g].target] \in 0..4
      BY <2>5, <3>1, <3>2, RankRange
    <3>4. Rank[handler[g].target] <= Rank[furthest[handler[g].order]] + 1
      BY <3>2
    <3> QED  BY <2>4, <2>6, <3>2, <3>3, <3>4
  <2>8. \A g \in Handlers : handler'[g].at = "notify" =>
                Rank[furthest'[handler'[g].order]] >= Rank["ready"]
    <3> SUFFICES ASSUME NEW g \in Handlers, handler'[g].at = "notify"
                 PROVE  Rank[furthest'[handler'[g].order]] >= Rank["ready"]
      OBVIOUS
    <3>1. CASE g = h
      <4>1. s = "ready" /\ handler'[g].order = o
        BY <2>2, <3>1 DEF Notifying, Idle
      <4> QED  BY <4>1, <2>2, <2>3
    <3>2. CASE g # h
      <4>1. handler[g].at = "notify" /\ handler'[g] = handler[g]
        BY <3>2, <2>2
      <4>2. handler[g].order \in Orders
        BY <2>5, <3>2, <4>1
      <4>3. Rank[furthest[handler[g].order]] >= Rank["ready"]
        BY <4>1
      <4> QED  BY <2>4, <2>6, <4>1, <4>2, <4>3 DEF Rank
    <3> QED  BY <3>1, <3>2
  <2>9. \A p \in announced : Rank[furthest'[p]] >= Rank["ready"]
    BY <2>4, <2>6 DEF Rank
  <2> QED  BY <2>2, <2>4, <2>7, <2>8, <2>9
<1>4. ASSUME NEW h \in Handlers, Announce(h) PROVE StageInv'
  <2>1. handler[h].order \in Orders
    BY <1>4 DEF Announce, HandlerStates, Idle, Updating, Notifying
  <2> QED  BY <1>4, <2>1 DEF Announce, Idle
<1>5. ASSUME NEW h \in Handlers, AnnounceFails(h) PROVE StageInv'
  BY <1>5 DEF AnnounceFails, Idle
<1>6. CASE Crash
  BY <1>6 DEF Crash, Idle
<1>7. CASE UNCHANGED vars
  BY <1>7 DEF vars
<1> QED  BY <1>1, <1>2, <1>3, <1>4, <1>5, <1>6, <1>7 DEF Next, Proceed

LEMMA StageAlways == Spec => []StageInv
  BY StageInit, StageStep, TypeCorrect, PTL DEF Spec

(* The notification never runs ahead of the kitchen, whatever races.       *)
THEOREM NoPrematureAnnouncement == Spec => []AnnouncedWasReady
<1>1. StageInv => AnnouncedWasReady
  BY DEF StageInv
<1> QED  BY <1>1, StageAlways, PTL

-----------------------------------------------------------------------------
(* Every step of the orders is a step of the life cycle of their furthest  *)
(* stages, or leaves those alone.                                          *)

LEMMA RankStrict ==
  ASSUME NEW s \in Statuses \cup {"none"}, NEW t \in Statuses,
         Rank[t] = Rank[s] + 1
  PROVE  s # "collected" /\ t = Furthest!NextStage[s]
  BY DEF Statuses, Rank, Furthest!NextStage

LEMMA FurthestSteps ==
  TypeOK /\ StageInv /\ [Next]_vars => [Furthest!Next]_furthest
<1> SUFFICES ASSUME TypeOK, StageInv, [Next]_vars
             PROVE  Furthest!Next \/ furthest' = furthest
  OBVIOUS
<1> USE DEF TypeOK
<1>1. ASSUME NEW o \in Orders, CreateOrder(o) PROVE Furthest!Next
  <2>1. furthest[o] = "none"
    BY <1>1 DEF CreateOrder, StageInv
  <2>2. Furthest!Advance(o)
    BY <1>1, <2>1 DEF CreateOrder, Furthest!Advance, Furthest!NextStage
  <2> QED  BY <2>2 DEF Furthest!Next
<1>2. ASSUME NEW h \in Handlers, UpdateStatus(h)
      PROVE  Furthest!Next \/ furthest' = furthest
  <2>1. PICK o \in Orders, s \in {"preparing", "ready", "collected"} :
           handler[h] = Updating(o, s)
    BY <1>2 DEF UpdateStatus, HandlerStates, Idle, Updating, Notifying
  <2>2. furthest' = [furthest EXCEPT ![o] = Later(furthest[o], s)]
    BY <1>2, <2>1 DEF UpdateStatus, Updating
  <2>3. Rank[s] <= Rank[furthest[o]] + 1
    BY <2>1 DEF StageInv, Updating
  <2>4. CASE Rank[furthest[o]] < Rank[s]
    <3>1. Rank[s] = Rank[furthest[o]] + 1
      BY <2>3, <2>4, RankRange DEF Statuses
    <3>2. furthest[o] # "collected" /\ s = Furthest!NextStage[furthest[o]]
      BY <3>1, RankStrict DEF Statuses
    <3>3. Furthest!Advance(o)
      BY <2>2, <2>4, <3>2 DEF Later, Furthest!Advance
    <3> QED  BY <3>3 DEF Furthest!Next
  <2>5. CASE ~(Rank[furthest[o]] < Rank[s])
    BY <2>2, <2>5 DEF Later
  <2> QED  BY <2>4, <2>5
<1>3. ASSUME NEW h \in Handlers, NEW o \in Orders, AcceptStatus(h, o)
      PROVE  furthest' = furthest
  BY <1>3 DEF AcceptStatus
<1>4. ASSUME NEW h \in Handlers, Announce(h) \/ AnnounceFails(h)
      PROVE  furthest' = furthest
  BY <1>4 DEF Announce, AnnounceFails
<1>5. CASE Crash \/ UNCHANGED vars
  BY <1>5 DEF Crash, vars
<1> QED  BY <1>1, <1>2, <1>3, <1>4, <1>5 DEF Next, Proceed

(* An order goes through the kitchen one stage at a time, for any number of *)
(* racing requests, failed notifications and crashes: KioskOrders implements*)
(* OrderLifecycle by the furthest stage of each order.                      *)
THEOREM NoStageSkipped == Spec => StageByStage
<1>1. Init => Furthest!Init
  BY DEF Init, Furthest!Init
<1> QED  BY <1>1, FurthestSteps, TypeCorrect, StageAlways, PTL
         DEF Spec, StageByStage, Furthest!Spec

-----------------------------------------------------------------------------
(* Orders whose requests have not overlapped.  At most one request waits to *)
(* update such an order, and the row is still as that request validated it. *)

SerialInv ==
    \A o \in Orders \ overlapped, h \in Handlers : UpdateDue(h, o) =>
        /\ status[o] \in DOMAIN NextStatus
        /\ handler[h].target = NextStatus[status[o]]
        /\ \A g \in Handlers : UpdateDue(g, o) => g = h

SerialStep ==
    \A o \in Orders \ overlapped :
        status'[o] # status[o] =>
           status[o] # "collected" /\ status'[o] = Current!NextStage[status[o]]

LEMMA SerialSteps == TypeOK /\ SerialInv /\ [Next]_vars => SerialInv' /\ SerialStep
<1> SUFFICES ASSUME TypeOK, SerialInv, [Next]_vars PROVE SerialInv' /\ SerialStep
  OBVIOUS
<1> USE DEF TypeOK, SerialInv, SerialStep, UpdateDue
<1>1. ASSUME NEW o \in Orders, CreateOrder(o) PROVE SerialInv' /\ SerialStep
  <2>1. status[o] = "none" /\ "none" # "collected" /\ Current!NextStage["none"] = "pending"
    BY <1>1 DEF CreateOrder, Current!NextStage
  <2>2. SerialStep
    BY <1>1, <2>1 DEF CreateOrder
  <2>3. "none" \notin DOMAIN NextStatus
    BY DEF NextStatus
  <2>4. SerialInv'
    BY <1>1, <2>1, <2>3 DEF CreateOrder
  <2> QED  BY <2>2, <2>4
<1>2. ASSUME NEW h \in Handlers, NEW o \in Orders, AcceptStatus(h, o)
      PROVE  SerialInv' /\ SerialStep
  <2>1. /\ handler' = [handler EXCEPT ![h] = Updating(o, NextStatus[status[o]])]
        /\ status' = status /\ status[o] \in DOMAIN NextStatus
        /\ overlapped \subseteq overlapped'
    BY <1>2 DEF AcceptStatus
  <2>2. ASSUME NEW g \in Handlers, UpdateDue(g, o) PROVE o \in overlapped'
    BY <1>2, <2>2 DEF AcceptStatus
  <2> QED  BY <2>1, <2>2 DEF Updating
<1>3. ASSUME NEW h \in Handlers, UpdateStatus(h) PROVE SerialInv' /\ SerialStep
  <2>1. PICK o \in Orders, s \in {"preparing", "ready", "collected"} :
           handler[h] = Updating(o, s)
    BY <1>3 DEF UpdateStatus, HandlerStates, Idle, Updating, Notifying
  <2>2. /\ status' = [status EXCEPT ![o] = s] /\ overlapped' = overlapped
        /\ handler' = [handler EXCEPT ![h] = IF s = "ready" THEN Notifying(o) ELSE Idle]
    BY <1>3, <2>1 DEF UpdateStatus, Updating
  <2>3. handler'[h].at # "update"
    BY <2>2 DEF Notifying, Idle
  <2>4. o \notin overlapped => /\ status[o] \in DOMAIN NextStatus
                               /\ s = NextStatus[status[o]]
                               /\ \A g \in Handlers : UpdateDue(g, o) => g = h
    BY <2>1 DEF Updating
  <2>5. SerialInv'
    BY <2>2, <2>3, <2>4
  <2>6. ASSUME NEW t \in DOMAIN NextStatus
        PROVE  t # "collected" /\ NextStatus[t] = Current!NextStage[t]
    BY DEF NextStatus, Current!NextStage
  <2>7. SerialStep
    BY <2>2, <2>4, <2>6
  <2> QED  BY <2>5, <2>7
<1>4. ASSUME NEW h \in Handlers, Announce(h) \/ AnnounceFails(h)
      PROVE  SerialInv' /\ SerialStep
  BY <1>4 DEF Announce, AnnounceFails, Idle
<1>5. CASE Crash
  BY <1>5 DEF Crash, Idle
<1>6. CASE UNCHANGED vars
  BY <1>6 DEF vars
<1> QED  BY <1>1, <1>2, <1>3, <1>4, <1>5, <1>6 DEF Next, Proceed

(* As long as the requests for an order do not overlap, its status column  *)
(* follows STATUS_TRANSITIONS, whatever happens to the other orders.       *)
THEOREM SerialRequestsFollowTransitions == Spec => SerialStatusFollows
<1>1. Init => SerialInv
  BY DEF Init, SerialInv, UpdateDue, Idle
<1>2. SerialStep <=> (\A o \in Orders \ overlapped :
          status'[o] # status[o] =>
             status[o] # "collected" /\ status'[o] = Current!NextStage[status[o]])
  BY DEF SerialStep
<1> QED  BY <1>1, <1>2, SerialSteps, TypeCorrect, PTL DEF Spec, SerialStatusFollows
=============================================================================
