----------------------------- MODULE Statements -----------------------------
(* The statements request handlers are made of: one awaited call to          *)
(* PostgreSQL, Redis, Kafka or another service each, or a piece of code that *)
(* runs without an await.                                                    *)
EXTENDS Naturals, Sequences

None == "none"              \* no row, nothing kept in memory

\* What a row, an announcement or an entry of a Map can say.
Status == {"pending", "dispatched", "resolved", "open", "assigned",
           "scheduled", "active", "completed", "cancelled",
           "entered", "here", "stocked", "low", "consented", "withdrawn",
           "violation", "erased", "offered", "on", "sos", "evacuation", "pa_trigger",
           "preparing", "ready", "collected", "linked", "redeemed", "investigating"}
Values == Status \union {None}

RowWrites == {"create", "insert", "upsert", "ensure", "update"}
Writes == RowWrites \union {"log"}
Operations == Writes \union {"check", "ask", "read", "fetch", "show", "abort", "keep", "revise",
                         "forget", "publish"}
Immediate == {"check", "show", "abort", "keep", "revise", "forget"}   \* no await: they cannot fail

\* to: the status the operation writes, logs or announces; needs: the statuses
\* of the row without which the handler returns early; keeps: what the handler
\* puts into its memory as it issues the operation, and whether it is the only
\* entry there; fails: what the code does when the operation throws.
Statement ==
    [op: Operations, to: Values, needs: SUBSET Values,
     keeps: Values, only: BOOLEAN, fails: {"answer", "ignore", "crash"}]

Op(op, to) == [op |-> op, to |-> to, needs |-> Values,
               keeps |-> None, only |-> FALSE, fails |-> "answer"]

Check == Op("check", None)            \* the input is looked at: 400, 401 or 403
Ask == Op("ask", None)                \* a call whose answer is only passed on
ReadIn(allowed) == [Op("read", None) EXCEPT !.needs = allowed, !.only = TRUE]   \* SELECT, then return early
Create(to) == Op("create", to)        \* INSERT under a fresh uuid
Insert(to) == [Op("insert", to) EXCEPT !.needs = {None}]   \* a key that exists: 409
Upsert(to) == Op("upsert", to)        \* INSERT ... ON CONFLICT DO UPDATE
Ensure(to) == Op("ensure", to)        \* INSERT that leaves the status of a row as it is
Update(to) == [Op("update", to) EXCEPT !.needs = Status]   \* no row: 404
Overwrite(to) == Op("update", to)     \* UPDATE whose row count nobody looks at
Log(to) == Op("log", to)              \* append-only
Publish(to) == Op("publish", to)
Fetch == Op("fetch", None)            \* GET of a page
Show == Op("show", None)              \* its answer replaces the state of the page
FetchOne == [Fetch EXCEPT !.only = TRUE]   \* GET of one item
ShowOne == [Show EXCEPT !.only = TRUE]
Abort == Op("abort", None)            \* AbortController of the previous GET
Reply == Op("keep", None)             \* answered from memory or from constants
Keep(v) == [Op("keep", None) EXCEPT !.keeps = v]
Forget == Op("forget", None)
Revise(v) == [Op("revise", None) EXCEPT !.keeps = v]   \* of an entry that is there: optimistic update

\* The same statement under another error handling, or with the entry a handler
\* makes in its Map as it issues the statement.
Ignored(s) == [s EXCEPT !.fails = "ignore"]
Uncaught(s) == [s EXCEPT !.fails = "crash"]
Remembering(s, v) == [s EXCEPT !.keeps = v, !.only = TRUE]

\* A subject: its routes, the life cycle of its rows, the statuses a row has for
\* a time only, and for a page the route it polls and the status that ends the
\* polling.
Service(routes, flow) ==
    [routes |-> routes, flow |-> flow, expires |-> {}, page |-> FALSE, single |-> FALSE,
     polls |-> "never", stops |-> {}]

\* Its rows are keys of Redis that are set with a time to live.
Expiring(s, statuses) == [s EXCEPT !.expires = statuses]

\* The handlers of a Python service: their calls to Redis block the event loop.
SingleService(routes, flow) == [Service(routes, flow) EXCEPT !.single = TRUE]

Page(routes, flow) == [Service(routes, flow) EXCEPT !.page = TRUE]

PollingPage(routes, flow, polls, stops) ==
    [Page(routes, flow) EXCEPT !.polls = polls, !.stops = stops]
=============================================================================
