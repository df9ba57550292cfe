----------------------------- MODULE EntryRouter -----------------------------
(***************************************************************************)
(* Gate recommendation and Red_Zone reassignment of the entry router:       *)
(* services/entry-router/src/routes/entry.ts (GET recommendation),          *)
(* gate/scorer.ts and redis/redzone-subscriber.ts.                          *)
(*                                                                         *)
(* Each async handler is split at its awaits: a transition acts on rows and *)
(* on a hash that may have changed since they were read.  The hash and the  *)
(* channel belong to the heatmap engine: EngineUpdate is the environment    *)
(* this service is written for, one that publishes deltas                   *)
(* {zoneId: {status}}.  CrowdPipeline puts the real engine in its place.    *)
(***************************************************************************)
EXTENDS Integers, Sequences

CONSTANTS
    Gates,
    Attendees,
    Sockets,
    NoData,       \* a gate with no field in the hash
    Absent,       \* no gate, no socket
    Snapshots,    \* what a gate's snapshot may hold, for EngineUpdate
    Deltas,       \* the sets of gates a message may tell of, for EngineUpdate
    MaxChannel,   \* bound: messages published and not yet received
    MaxHandlers   \* bound: messages being handled at once

ASSUME AbsentAssumption == Absent \notin Gates /\ Absent \notin Sockets

VARIABLES
    heatmap,      \* the Redis hash: gate -> snapshot
    channel,      \* heatmap:{venue} messages on their way to the subscriber
    assigned,     \* gate_assignments: attendee -> gate
    request,      \* GET recommendation: the gate chosen, its upsert awaited
    open,         \* the WebSockets that are open
    identified,   \* socket -> attendees it sent IDENTIFY for
    connection,   \* attendeeConnections: attendee -> socket
    handlers,     \* the red-zone transitions being handled
    told,         \* history: what the last step pushed to an attendee, as
                  \* <<previousGateId, newGateId>>
    abandoned,    \* history: the gate whose transition the last step abandoned
    lately        \* history: gate -> who was assigned to it and what was better
                  \* while a transition of it was in progress

routerVars == <<assigned, request, open, identified, connection, handlers>>
entryVars == <<heatmap, channel, routerVars, told, abandoned, lately>>

\* handleRedZoneTransition for `gate`, with `todo` the red gates that follow it
\* in the same message: the SELECT is awaited, then HGETALL with the `rows` that
\* it returned, then the answer with the alternative `to` arrives and is pushed.
Handler ==
    [gate: Gates, todo: SUBSET Gates, step: {"select"}, rows: {{}}, to: {Absent}]
        \cup [gate: Gates, todo: SUBSET Gates, step: {"read"}, rows: SUBSET Attendees, to: {Absent}]
        \cup [gate: Gates, todo: SUBSET Gates, step: {"push"}, rows: SUBSET Attendees, to: Gates]

\* One slot for each activation of the message callback.
Slots == 1..MaxHandlers
Ended == [gate |-> Absent]

EntryTypeOK ==
    /\ assigned \in [Attendees -> Gates \cup {Absent}]
    /\ request \in [Attendees -> Gates \cup {Absent}]
    /\ open \subseteq Sockets
    /\ identified \in [Sockets -> SUBSET Attendees]
    /\ connection \in [Attendees -> Sockets \cup {Absent}]
    /\ handlers \in [Slots -> Handler \cup {Ended}]
    /\ told \in [Attendees -> (Gates \X Gates) \cup {Absent}]
    /\ abandoned \subseteq Gates
    /\ lately \in [Gates -> [held: SUBSET Attendees, better: SUBSET Gates]]

NobodyTold == [a \in Attendees |-> Absent]
NotLately == [held |-> {}, better |-> {}]

RouterInit ==
    /\ assigned = [a \in Attendees |-> Absent]
    /\ request = [a \in Attendees |-> Absent]
    /\ open = {}
    /\ identified = [w \in Sockets |-> {}]
    /\ connection = [a \in Attendees |-> Absent]
    /\ handlers = [i \in Slots |-> Ended]
    /\ told = NobodyTold
    /\ abandoned = {}
    /\ lately = [g \in Gates |-> NotLately]

EntryInit ==
    /\ heatmap = [g \in Gates |-> NoData]
    /\ channel = <<>>
    /\ RouterInit

\* A step that pushes to nobody and abandons no transition.
Quiet == told' = NobodyTold /\ abandoned' = {}

\* A step of another service.
RouterIdle == UNCHANGED routerVars /\ Quiet

-----------------------------------------------------------------------------
(* Scoring *)

\* scoreGates over the gates of the hash: the least loaded of those that are
\* neither unavailable nor red or, when there is none, of those not unavailable.
\* Snapshots carry no capacity and callers pass no distance, so the score orders
\* gates by count; equal scores go to the first in the hash, which may be any.
ScoreGates(gates) ==
    LET active(bad) == {g \in gates : heatmap[g] # NoData /\ heatmap[g].status \notin bad}
        candidates == IF active({"unavailable", "red"}) # {}
                      THEN active({"unavailable", "red"}) ELSE active({"unavailable"})
    IN  {g \in candidates : \A h \in candidates : heatmap[g].count <= heatmap[h].count}

\* scoreGatesExcluding
ScoreGatesExcluding(gate) == ScoreGates(Gates \ {gate})

-----------------------------------------------------------------------------
(* GET /entry/recommendation/:attendeeId *)

\* The hash is read and a gate chosen; the upsert is awaited.
\* (With no gate to recommend the handler answers 404 or 503 and changes nothing.)
Recommend(a) ==
    /\ request[a] = Absent
    /\ \E g \in ScoreGates(Gates) : request' = [request EXCEPT ![a] = g]
    /\ UNCHANGED <<heatmap, channel, assigned, open, identified, connection, handlers>>
    /\ Quiet

\* The upsert of gate_assignments succeeds.
StoreAssignment(a) ==
    /\ request[a] # Absent
    /\ assigned' = [assigned EXCEPT ![a] = request[a]]
    /\ request' = [request EXCEPT ![a] = Absent]
    /\ UNCHANGED <<heatmap, channel, open, identified, connection, handlers>>
    /\ Quiet

\* The upsert fails: 500.
AssignmentFails(a) ==
    /\ request[a] # Absent
    /\ request' = [request EXCEPT ![a] = Absent]
    /\ UNCHANGED <<heatmap, channel, assigned, open, identified, connection, handlers>>
    /\ Quiet

-----------------------------------------------------------------------------
(* WebSocket connections *)

OpenSocket(w) ==
    /\ w \notin open
    /\ open' = open \cup {w}
    /\ UNCHANGED <<heatmap, channel, assigned, request, identified, connection, handlers>>
    /\ Quiet

\* IDENTIFY: registerAttendeeConnection, which also registers a close listener.
Identify(a, w) ==
    /\ w \in open
    /\ connection' = [connection EXCEPT ![a] = w]
    /\ identified' = [identified EXCEPT ![w] = @ \cup {a}]
    /\ UNCHANGED <<heatmap, channel, assigned, request, open, handlers>>
    /\ Quiet

\* The socket closes; each listener deletes its attendee's entry, whatever socket
\* the entry names by then.
CloseSocket(w) ==
    /\ w \in open
    /\ open' = open \ {w}
    /\ connection' = [a \in Attendees |-> IF a \in identified[w] THEN Absent ELSE connection[a]]
    /\ identified' = [identified EXCEPT ![w] = {}]
    /\ UNCHANGED <<heatmap, channel, assigned, request, handlers>>
    /\ Quiet

-----------------------------------------------------------------------------
(* The Red_Zone subscriber *)

\* The entries of the message whose value has the status red.
RedZoneIds(message) == {g \in Gates : g \in DOMAIN message /\ message[g].status = "red"}

\* The loop over the red gates goes on to one of `todo`, or the handler ends.
Continue(todo) ==
    IF todo = {} THEN {Ended}
    ELSE {[gate |-> g, todo |-> todo \ {g}, step |-> "select", rows |-> {}, to |-> Absent] : g \in todo}

\* A variant that keeps what was read for the red gate before.
ReplaceKeepingRead(i) ==
    \E next \in Continue(handlers[i].todo) : handlers' = [handlers EXCEPT ![i] =
        IF next = Ended \/ handlers[i].step # "push" THEN next
        ELSE [handlers[i] EXCEPT !.gate = next.gate, !.todo = next.todo]]

\* A variant that leaves the loop after the first red gate.
ReplaceAndStop(i) == handlers' = [handlers EXCEPT ![i] = Ended]

Replace(i) == \E next \in Continue(handlers[i].todo) : handlers' = [handlers EXCEPT ![i] = next]

\* A message arrives.  Its handler does not wait for those before it.
OnMessage ==
    /\ channel # <<>>
    /\ channel' = Tail(channel)
    /\ \E i \in Slots :
         /\ handlers[i] = Ended /\ \A j \in Slots : j < i => handlers[j] # Ended
         /\ \E first \in Continue(RedZoneIds(Head(channel))) :
              handlers' = [handlers EXCEPT ![i] = first]
    /\ UNCHANGED <<heatmap, assigned, request, open, identified, connection>>
    /\ Quiet

\* The SELECT of the attendees assigned to the red gate answers.
SelectAssigned(i) ==
    LET rows == {a \in Attendees : assigned[a] = handlers[i].gate}
    IN  /\ handlers[i] # Ended /\ handlers[i].step = "select"
        /\ IF rows = {} THEN Replace(i)
           ELSE handlers' = [handlers EXCEPT ![i].step = "read", ![i].rows = rows]
        /\ UNCHANGED <<heatmap, channel, assigned, request, open, identified, connection>>
        /\ Quiet

\* The hash is read and an alternative chosen; the answer is on its way.
ReadHash(i) ==
    LET alternatives == ScoreGatesExcluding(handlers[i].gate)
    IN  /\ handlers[i] # Ended /\ handlers[i].step = "read"
        /\ IF alternatives = {} THEN Replace(i)
           ELSE \E new \in alternatives :
                  handlers' = [handlers EXCEPT ![i].step = "push", ![i].to = new]
        /\ UNCHANGED <<heatmap, channel, assigned, request, open, identified, connection>>
        /\ Quiet

\* The alternative is pushed to every row that has an open socket by now.
\* gate_assignments keeps the red gate.
PushReassignment(i) ==
    LET h == handlers[i]
    IN  /\ h # Ended /\ h.step = "push"
        /\ told' = [a \in Attendees |-> IF a \in h.rows /\ connection[a] \in open
                                        THEN <<h.gate, h.to>> ELSE Absent]
        /\ Replace(i)
        /\ UNCHANGED <<heatmap, channel, assigned, request, open, identified, connection>>
        /\ abandoned' = {}

\* A query fails: the error is logged, the loop goes on.
QueryFails(i) ==
    /\ handlers[i] # Ended /\ handlers[i].step \in {"select", "read"}
    /\ Replace(i)
    /\ abandoned' = {handlers[i].gate}
    /\ told' = NobodyTold
    /\ UNCHANGED <<heatmap, channel, assigned, request, open, identified, connection>>

Proceed(i) == SelectAssigned(i) \/ ReadHash(i) \/ PushReassignment(i) \/ QueryFails(i)

-----------------------------------------------------------------------------
\* The environment: snapshots of some gates are stored, and their delta published.
EngineUpdate(snaps) ==
    /\ Len(channel) < MaxChannel
    /\ heatmap' = [g \in Gates |-> IF g \in DOMAIN snaps THEN snaps[g] ELSE heatmap[g]]
    /\ channel' = Append(channel, [g \in DOMAIN snaps |-> [status |-> snaps[g].status]])
    /\ RouterIdle

Router ==
    \/ \E a \in Attendees : Recommend(a) \/ StoreAssignment(a) \/ AssignmentFails(a)
    \/ \E w \in Sockets : OpenSocket(w) \/ CloseSocket(w) \/ \E a \in Attendees : Identify(a, w)
    \/ OnMessage
    \/ \E i \in Slots : Proceed(i)

\* The gates an attendee is better off with than with `gate`, in the hash `map`.
BetterGates(map, gate) ==
    LET known == {g \in Gates \ {gate} : map[g] # NoData}
        worse(bad) == {g \in known : map[g].status \in bad}
    IN  IF known = worse({"red", "unavailable"}) THEN worse({"red"})
        ELSE known \ worse({"red", "unavailable"})

\* A transition of the gate awaits one of `steps`.
Awaits(gate, steps) == \E i \in Slots : handlers[i].gate = gate /\ handlers[i].step \in steps

\* Who was assigned to a gate since a transition of it has its rows, and what was
\* better since one has read the hash.
Remember ==
    lately' = [g \in Gates |->
        [held |-> IF ~Awaits(g, {"read", "push"})' THEN {}
                  ELSE lately[g].held \cup {a \in Attendees : assigned'[a] = g},
         better |-> IF ~Awaits(g, {"push"})' THEN {}
                    ELSE lately[g].better \cup BetterGates(heatmap', g)]]

EntryNext ==
    /\ \/ Router
       \/ \E D \in Deltas : \E snaps \in [D -> Snapshots] : EngineUpdate(snaps)
    /\ Remember

EntrySpec == EntryInit /\ [][EntryNext]_entryVars

\* Redis delivers what is published and the queries of a handler settle.
HandlerFairness ==
    /\ WF_channel(OnMessage)
    /\ \A i \in Slots : WF_handlers(Proceed(i))

EntryFairSpec == EntrySpec /\ HandlerFairness

-----------------------------------------------------------------------------
(* Properties *)

\* The awaits between the SELECT, HGETALL and ws.send make a push stale by no
\* more than the transition itself lasts (redzone-subscriber.ts:75-120), whatever
\* other messages are handled and whoever is reassigned or reconnects meanwhile:
\* whoever is told to leave a gate was assigned to it since a transition of that
\* gate got its rows, and the gate to go to was another and better one since a
\* transition read the hash.  Property 3 of the design asks for another gate.
PushIsNotOutOfDate ==
    [][\A a \in Attendees : told'[a] # Absent =>
         LET from == told'[a][1]
             to == told'[a][2]
         IN  a \in lately[from].held /\ to \in lately[from].better]_entryVars

\* Requirement 1.5 under the deltas the subscriber expects: an attendee whose
\* stored gate is red in a message about to be handled, and who is connected, is
\* told to leave it, unless meanwhile the attendee is reassigned, disconnected,
\* or no other gate is known, or a query for that gate fails.
ToldToLeave(a, g) == told[a] # Absent /\ told[a][1] = g

RedGateIsLeft ==
    \A a \in Attendees, g \in Gates :
        (/\ channel # <<>> /\ g \in RedZoneIds(Head(channel))
         /\ assigned[a] = g /\ connection[a] \in open)
        ~> (ToldToLeave(a, g) \/ assigned[a] # g \/ connection[a] \notin open
               \/ ScoreGatesExcluding(g) = {} \/ g \in abandoned)
=============================================================================
