---------------------------- MODULE KioskOrders ----------------------------
(***************************************************************************)
(* Seat-to-kiosk orders: services/kiosk-service/src/routes/orders.ts over  *)
(* the orders table.                                                       *)
(*                                                                         *)
(* PATCH /orders/:orderId/status has three awaits: it SELECTs the order    *)
(* and validates the requested status against the row, UPDATEs the row by  *)
(* its id alone, and posts to the notification service when the new status *)
(* is "ready".  Other requests run between any two of them.  No handler    *)
(* catches a failed query: the rejection ends the process and with it every *)
(* request in progress.                                                    *)
(***************************************************************************)
EXTENDS Naturals

CONSTANTS
    Orders,         \* order ids
    Handlers,       \* requests in progress at once
    None            \* no order

ASSUME NoneAssumption == None \notin Orders

VARIABLES
    status,     \* orders.status, "none" before the row exists
    handler,    \* the PATCH requests in progress
    furthest,   \* history: the latest stage each order has been in
    announced,  \* the orders whose attendee was told that they are ready
    overlapped, \* history: the orders for which a request was accepted while
                \* another one was waiting to update them
    missed      \* history: the orders with a notification, due or about to be
                \* due, that failed or was lost with the process

vars == <<status, handler, furthest, announced, overlapped, missed>>

Statuses == {"pending", "preparing", "ready", "collected"}

\* STATUS_TRANSITIONS
NextStatus == [pending |-> "preparing", preparing |-> "ready", ready |-> "collected"]

\* `at` is the await the request is in: of the UPDATE or of the notification.
Idle == [order |-> None, target |-> "none", at |-> "idle"]
Updating(o, s) == [order |-> o, target |-> s, at |-> "update"]
Notifying(o) == [order |-> o, target |-> "ready", at |-> "notify"]

HandlerStates ==
    {Idle} \cup {Updating(o, s) : o \in Orders, s \in {"preparing", "ready", "collected"}}
           \cup {Notifying(o) : o \in Orders}

Rank == [none |-> 0, pending |-> 1, preparing |-> 2, ready |-> 3, collected |-> 4]

TypeOK ==
    /\ status \in [Orders -> Statuses \cup {"none"}]
    /\ handler \in [Handlers -> HandlerStates]
    /\ furthest \in [Orders -> Statuses \cup {"none"}]
    /\ announced \subseteq Orders /\ overlapped \subseteq Orders /\ missed \subseteq Orders

Init ==
    /\ status = [o \in Orders |-> "none"]
    /\ handler = [h \in Handlers |-> Idle]
    /\ furthest = [o \in Orders |-> "none"]
    /\ announced = {} /\ overlapped = {} /\ missed = {}

-----------------------------------------------------------------------------
(* POST /orders *)

\* The INSERT of a new row, 'pending'.
CreateOrder(o) ==
    /\ status[o] = "none"
    /\ status' = [status EXCEPT ![o] = "pending"]
    /\ furthest' = [furthest EXCEPT ![o] = "pending"]
    /\ UNCHANGED <<handler, announced, overlapped, missed>>

-----------------------------------------------------------------------------
(* PATCH /orders/:orderId/status *)

\* Request g has been accepted for order o and waits for its UPDATE.
UpdateDue(g, o) == handler[g].at = "update" /\ handler[g].order = o

\* A variant that skips the comparison with the expected next status.
AcceptAnyStatus(h, o) ==
    /\ handler[h] = Idle
    /\ status[o] # "none"
    /\ \E s \in Statuses :
          handler' = [handler EXCEPT ![h] = Updating(o, s)]
    /\ UNCHANGED <<status, furthest, announced, overlapped, missed>>

\* The SELECT answers and the requested status is the expected next one: the
\* handler goes on to the UPDATE.  (A missing row is answered 404 and any
\* other status 422, with no effect; 'collected' has no next status.)
AcceptStatus(h, o) ==
    /\ handler[h] = Idle
    /\ status[o] \in DOMAIN NextStatus
    /\ handler' = [handler EXCEPT ![h] = Updating(o, NextStatus[status[o]])]
    /\ overlapped' = IF \E g \in Handlers : UpdateDue(g, o) THEN overlapped \cup {o} ELSE overlapped
    /\ UNCHANGED <<status, furthest, announced, missed>>

Later(a, b) == IF Rank[a] < Rank[b] THEN b ELSE a

\* A variant that never notifies.
UpdateStatusSilently(h) ==
    /\ handler[h].at = "update"
    /\ status' = [status EXCEPT ![handler[h].order] = handler[h].target]
    /\ furthest' = [furthest EXCEPT ![handler[h].order] = Later(@, handler[h].target)]
    /\ handler' = [handler EXCEPT ![h] = Idle]
    /\ UNCHANGED <<announced, overlapped, missed>>

\* The UPDATE.  Its WHERE names the order and not the status that was read.
UpdateStatus(h) ==
    LET o == handler[h].order
        s == handler[h].target
    IN  /\ handler[h].at = "update"
        /\ status' = [status EXCEPT ![o] = s]
        /\ furthest' = [furthest EXCEPT ![o] = Later(furthest[o], s)]
        /\ handler' = [handler EXCEPT ![h] = IF s = "ready" THEN Notifying(o) ELSE Idle]
        /\ UNCHANGED <<announced, overlapped, missed>>

\* The notification service accepts the order-ready request.
Announce(h) ==
    /\ handler[h].at = "notify"
    /\ announced' = announced \cup {handler[h].order}
    /\ handler' = [handler EXCEPT ![h] = Idle]
    /\ UNCHANGED <<status, furthest, overlapped, missed>>

\* The request fails: logged, and not repeated.
AnnounceFails(h) ==
    /\ handler[h].at = "notify"
    /\ missed' = missed \cup {handler[h].order}
    /\ handler' = [handler EXCEPT ![h] = Idle]
    /\ UNCHANGED <<status, furthest, announced, overlapped>>

\* A query fails (or the process is stopped): every request in progress is lost.
Crash ==
    /\ \E h \in Handlers : handler[h] # Idle
    /\ missed' = missed \cup {handler[h].order :
                                 h \in {g \in Handlers : handler[g].target = "ready"}}
    /\ handler' = [h \in Handlers |-> Idle]
    /\ UNCHANGED <<status, furthest, announced, overlapped>>

-----------------------------------------------------------------------------
Proceed(h) == UpdateStatus(h) \/ Announce(h) \/ AnnounceFails(h)

Next ==
    \/ \E o \in Orders : CreateOrder(o)
    \/ \E h \in Handlers, o \in Orders : AcceptStatus(h, o)
    \/ \E h \in Handlers : Proceed(h)
    \/ Crash

Spec == Init /\ [][Next]_vars

\* The database and the notification service answer, or the connection to them
\* breaks: a request that waits for them goes on.  The POST has no timeout of its
\* own (orders.ts:131), so this is an assumption about the network between the
\* services: what TCP cannot deliver it reports.
Fairness == \A h \in Handlers : WF_vars(Proceed(h))

FairSpec == Spec /\ Fairness

-----------------------------------------------------------------------------
Furthest == INSTANCE OrderLifecycle WITH stage <- furthest
Current == INSTANCE OrderLifecycle WITH stage <- status

\* However many requests race, an order never skips a stage: the latest stage
\* that it has ever been in follows the life cycle one transition at a time,
\* although the UPDATE is not guarded by the status the request validated.
StageByStage == Furthest!Spec

\* The status column itself follows STATUS_TRANSITIONS (orders.ts:20, and the 422
\* the tests expect of any other change) for every order whose requests have never
\* overlapped: reading and writing the row in two statements is harmless without
\* a race.  With one the UPDATE can set a ready order back to preparing.
SerialStatusFollows ==
    [][\A o \in Orders \ overlapped :
          status'[o] # status[o] =>
             status[o] # "collected" /\ status'[o] = Current!NextStage[status[o]]]_vars

\* An attendee is told to collect only an order that has been ready.
AnnouncedWasReady == \A o \in announced : Rank[furthest[o]] >= Rank["ready"]

\* The attendee of an order that becomes ready is told so (Requirement 3.4),
\* unless that request or its notification failed: requests that race, or are
\* refused, never cost an attendee the notification.
ReadyAnnounced == \A o \in Orders : (status[o] = "ready") ~> (o \in announced \cup missed)
=============================================================================
