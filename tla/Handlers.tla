------------------------------ MODULE Handlers ------------------------------
(* The request handlers of the services, and the pages and screens that call *)
(* them, as programs.  A handler is a sequence of statements; between two of *)
(* them it awaits the database, Redis or the network, and any other handler  *)
(* may run.  A behaviour is about one subject: a service, or a page together *)
(* with the routes it calls.  The programs are in ServiceRoutes and          *)
(* PageRoutes; this module says what running them means.                     *)
EXTENDS Statements

CONSTANTS Subject,    \* the subjects, by name: their routes and their habits
          Items,      \* the rows of a subject: cases, tickets, zones, orders
          Calls,      \* the requests of a behaviour
          Timers,     \* those of them that a polling page repeats
          MaxFaults   \* bound: statements that fail, and restarts

SubjectType(s) ==
    /\ DOMAIN s = {"routes", "flow", "expires", "page", "single", "polls", "stops"}
    /\ \A r \in DOMAIN s.routes : s.routes[r] \in Seq(Statement) /\ s.routes[r] # <<>>
    /\ s.flow \subseteq Values \X Values /\ s.expires \subseteq Status
    /\ s.page \in BOOLEAN /\ s.single \in BOOLEAN
    /\ s.stops \subseteq Values

(* What the programs have in common.  TLC evaluates these predicates on every *)
(* program of the venue; the proofs rest on them and on nothing else that is *)
(* particular to a service.                                                  *)

\* What is announced was written by the same handler before, by a statement
\* whose failure ends the handler.
RecordsFirst(p) ==
    \A k \in DOMAIN p : p[k].op = "publish" =>
        \E j \in 1..(k - 1) :
            /\ p[j].op \in {"create", "insert", "upsert", "log"}
            /\ p[j].to = p[k].to /\ p[j].fails # "ignore"

Offers(s) == s.op = "publish" /\ s.to = "offered"

\* A key is claimed by an INSERT that refuses one that exists, no statement deletes
\* a row, and an offer is pushed by the handler that claimed its key, once.
ClaimsFirst(p) ==
    \A k \in DOMAIN p :
        /\ p[k].op = "insert" => p[k].needs = {None} /\ p[k].fails # "ignore"
        /\ p[k].op \in RowWrites => p[k].to # None
        /\ Offers(p[k]) => /\ \E j \in 1..(k - 1) : p[j].op = "insert"
                           /\ \A j \in DOMAIN p : Offers(p[j]) => j = k

Ends(flow) == {None} \union {e[1] : e \in flow} \union {e[2] : e \in flow}

\* The status the row can have when statement k of p takes effect, if nobody
\* has changed it since the handler read it.
MayBe(p, k, v) ==
    /\ v \in p[k].needs
    /\ p[k].op \in {"create", "ensure"} => v = None
    /\ p[k].op = "update" => v # None
    /\ \A j \in 1..(k - 1) : p[j].op = "read" => v \in p[j].needs

\* Every write is a step of the life cycle; a handler reads its row once, and
\* not without its answer.
KeepsFlow(p, flow) ==
    \A k \in DOMAIN p :
        /\ p[k].op \in RowWrites =>
               /\ p[k].to \in Ends(flow)
               /\ \A v \in Ends(flow) : MayBe(p, k, v) => v = p[k].to \/ <<v, p[k].to>> \in flow
        /\ p[k].op = "read" =>
               /\ p[k].fails # "ignore"
               /\ \A j \in DOMAIN p : p[j].op \in {"read", "fetch"} => j = k

Creates(p) == \E k \in DOMAIN p : p[k].op = "create"

\* A handler that creates a row writes no other; and where rows are created
\* nobody else writes one that is not there.
CreatesAlone(routes) ==
    (\E r \in DOMAIN routes : Creates(routes[r])) =>
        \A r \in DOMAIN routes : \A k \in DOMAIN routes[r] :
            LET p == routes[r]
            IN  p[k].op \in RowWrites =>
                    \/ p[k].op = "create" /\ \A j \in DOMAIN p : p[j].op \in RowWrites => j = k
                    \/ p[k].op = "update" /\ ~Creates(p)
                    \/ ~Creates(p) /\ \E j \in 1..(k - 1) : p[j].op = "read" /\ None \notin p[j].needs

Evacuates(s) == s.op = "publish" /\ s.to = "evacuation"

\* Where an evacuation is announced, it is kept in memory as it is announced,
\* and nothing else changes the memory.
KeepsWhatItAnnounces(routes) ==
    (\E r \in DOMAIN routes : \E k \in DOMAIN routes[r] : Evacuates(routes[r][k])) =>
        \A r \in DOMAIN routes : \A k \in DOMAIN routes[r] :
            LET s == routes[r][k]
            IN  IF Evacuates(s) THEN s.keeps = "evacuation" /\ s.only
                ELSE s.keeps = None /\ s.op \notin {"show", "forget"}

\* Where keys expire, no handler relies on one it has found.
FoundKeysMayExpire(s) ==
    s.expires # {} =>
        \A r \in DOMAIN s.routes : \A k \in DOMAIN s.routes[r] :
            s.routes[r][k].op = "read" => None \in s.routes[r][k].needs

\* A page that shows rows aborts the load before when it starts another.
Aborts(routes) ==
    /\ \E r \in DOMAIN routes : \E k \in DOMAIN routes[r] : routes[r][k].op = "show"
    /\ \A r \in DOMAIN routes : \A k \in DOMAIN routes[r] : routes[r][k].op = "show" =>
           \E j \in 1..(k - 1) : routes[r][j].op = "abort"

\* Such a page keeps nothing else, and asks and shows as soon as it has aborted.
LoadsAndShows(p) ==
    \A k \in DOMAIN p :
        /\ p[k].keeps = None /\ p[k].op \notin {"read", "forget"}
        /\ p[k].op = "fetch" => ~p[k].only /\ k > 1 /\ p[k - 1].op = "abort"
        /\ p[k].op = "show" => ~p[k].only /\ k > 1 /\ p[k - 1].op = "fetch"

\* A row with status v can come to have w.
Leads(flow, v, w) ==
    \A S \in SUBSET Ends(flow) :
        v \in S /\ (\A e \in flow : e[1] \in S => e[2] \in S) => w \in S

\* A life cycle that never comes back to where it was.
Onward(flow) ==
    /\ \A e \in flow : e[2] # None
    /\ \A v, w \in Ends(flow) : Leads(flow, v, w) /\ Leads(flow, w, v) => v = w

\* The pages that abort loads of rows that only go onward.
AbortingPages ==
    {n \in DOMAIN Subject :
        /\ Subject[n].page /\ Aborts(Subject[n].routes)
        /\ Onward(Subject[n].flow) /\ Subject[n].expires = {}}

ASSUME SubjectAssumption ==
    /\ \A n \in DOMAIN Subject :
           /\ SubjectType(Subject[n])
           /\ \A r \in DOMAIN Subject[n].routes :
                  /\ RecordsFirst(Subject[n].routes[r])
                  /\ ClaimsFirst(Subject[n].routes[r])
                  /\ KeepsFlow(Subject[n].routes[r], Subject[n].flow)
           /\ CreatesAlone(Subject[n].routes)
           /\ KeepsWhatItAnnounces(Subject[n].routes)
           /\ FoundKeysMayExpire(Subject[n])
    /\ \A n \in AbortingPages : \A r \in DOMAIN Subject[n].routes :
           LoadsAndShows(Subject[n].routes[r])

ASSUME BoundsAssumption == MaxFaults \in Nat /\ Items # {} /\ Timers \subseteq Calls

VARIABLES subject,   \* the name of the subject of this behaviour
          rows,      \* durable: the status of every row
          memory,    \* the Map of the service, or the state of the page
          sent,      \* the announcements, in the order Redis got them
          calls,     \* the requests
          recorded,  \* history: what was ever written durably
          renewed,   \* history: how many announcements there were when a row expired
          polling,   \* the interval of the page is not cleared
          faults     \* history: failed statements and restarts

vars == <<subject, rows, memory, sent, calls, recorded, renewed, polling, faults>>

Me == Subject[subject]
Program(c) == Me.routes[calls[c].route]
Running(c) == calls[c].st = "running"
Current(c) == Program(c)[calls[c].pc]
Item(c) == calls[c].item

Opened == CHOOSE i \in Items : TRUE    \* the item the page was opened for
Blank == [i \in Items |-> None]
Idle == [st |-> "idle", route |-> "", item |-> Opened,
         pc |-> 0, seen |-> Blank]

Init ==
    /\ subject \in DOMAIN Subject
    /\ rows \in [Items -> {e[1] : e \in Subject[subject].flow} \union {None}]
    /\ memory = Blank
    /\ sent = <<>>
    /\ calls = [c \in Calls |-> Idle]
    /\ recorded = {}
    /\ renewed = [i \in Items |-> 0]
    /\ polling = TRUE
    /\ faults = 0

\* A uuid is fresh: nobody can have asked about the row before.
Fresh(r, i) ==
    (\E k \in DOMAIN Me.routes[r] : Me.routes[r][k].op = "create") =>
        rows[i] = None /\ \A d \in Calls : calls[d].st # "idle" => Item(d) # i

\* Slots have no meaning of their own: a request takes a certain idle one.
Free(c) ==
    /\ calls[c].st = "idle"
    /\ c = CHOOSE d \in Calls : calls[d].st = "idle" /\ (d \in Timers) = (c \in Timers)

\* A request reaches the service, or the page starts one.  A service whose
\* handlers do not yield serves one at a time.
Begin(c, r, i) ==
    /\ Free(c)
    /\ r \in DOMAIN Me.routes
    /\ Fresh(r, i)
    /\ Me.single => \A d \in Calls : ~Running(d)
    /\ (c \in Timers) = (r = Me.polls)
    /\ c \in Timers => polling /\ i = Opened
    /\ calls' = [calls EXCEPT ![c] = [st |-> "running", route |-> r, item |-> i,
                                      pc |-> 1, seen |-> Blank]]
    /\ UNCHANGED <<subject, rows, memory, sent, recorded, renewed, polling, faults>>

\* A variant whose SELECT only fetches the row and whose INSERT does not look.
RejectedByUpdate(c) == Current(c).op = "update" /\ rows[Item(c)] \notin Current(c).needs

\* The early returns: a row that is missing, that exists, or that is not in a
\* status the handler accepts.
Rejected(c) == rows[Item(c)] \notin Current(c).needs

RowsAfter(c) ==
    LET s == Current(c)
    IN  IF \/ s.op \in {"create", "insert", "upsert"}
           \/ s.op = "ensure" /\ rows[Item(c)] = None
           \/ s.op = "update" /\ rows[Item(c)] # None
        THEN [rows EXCEPT ![Item(c)] = s.to] ELSE rows

RecordedAfter(c) ==
    LET s == Current(c)
    IN  IF s.op = "log" \/ (s.op \in Writes /\ RowsAfter(c)[Item(c)] = s.to)
        THEN recorded \union {<<Item(c), s.to>>} ELSE recorded

SentAfter(c) ==
    LET s == Current(c)
    IN  IF s.op = "publish" THEN Append(sent, <<Item(c), s.to>>) ELSE sent

\* A variant that keeps an entry for each item, also where there is one at most.
MemoryOfEach(c) ==
    LET s == Current(c)
    IN  IF s.op = "show" THEN calls[c].seen
        ELSE IF s.keeps = None THEN memory ELSE [memory EXCEPT ![Item(c)] = s.keeps]

MemoryAfter(c) ==
    LET s == Current(c)
    IN  IF s.op = "show" /\ s.only THEN [memory EXCEPT ![Item(c)] = calls[c].seen[Item(c)]]
        ELSE IF s.op = "show" THEN calls[c].seen
        ELSE IF s.op = "forget" THEN [memory EXCEPT ![Item(c)] = None]
        ELSE IF s.keeps = None \/ (s.op = "revise" /\ memory[Item(c)] = None) THEN memory
        ELSE IF s.only THEN [Blank EXCEPT ![Item(c)] = s.keeps]
        ELSE [memory EXCEPT ![Item(c)] = s.keeps]

\* The operation reaches the other side.
Effect(c) == rows' = RowsAfter(c) /\ recorded' = RecordedAfter(c) /\ sent' = SentAfter(c)
NoEffect == UNCHANGED <<rows, recorded, sent>>

\* A variant whose interval fires once for each timer.
DoneForGood(c) == [calls[c] EXCEPT !.st = "ok", !.pc = 0, !.seen = Blank]

\* The call is over, with success or without; the interval of a page starts
\* another one in its place.
Done(c) ==
    IF c \in Timers THEN Idle ELSE [calls[c] EXCEPT !.st = "ok", !.pc = 0, !.seen = Blank]
GivenUp(c) == IF c \in Timers THEN Idle ELSE [Idle EXCEPT !.st = "over"]

\* What the handler or the page now knows of the rows.
SeenAfter(c) ==
    LET s == Current(c)
    IN  IF s.op \notin {"read", "fetch"} THEN calls[c].seen
        ELSE IF s.only THEN [Blank EXCEPT ![Item(c)] = rows[Item(c)]]
        ELSE rows

Advanced(c) ==
    IF calls[c].pc = Len(Program(c)) THEN Done(c)
    ELSE [calls[c] EXCEPT !.pc = @ + 1, !.seen = SeenAfter(c)]

\* A variant whose answers do not look at the signal of the controller.
LoadingNotAnswered(c) == Running(c) /\ Current(c).op = "fetch"

\* A GET of the page is on its way, or its answer.
Loading(c) == Running(c) /\ Current(c).op \in {"fetch", "show"}

\* The operation succeeds and the handler goes on.  The answer that says that
\* nothing more will change ends the polling.
Perform(c) ==
    /\ Running(c)
    /\ ~Rejected(c)
    /\ Effect(c)
    /\ memory' = MemoryAfter(c)
    /\ calls' = [d \in Calls |->
                    IF d = c THEN Advanced(c)
                    ELSE IF Current(c).op = "abort" /\ Loading(d) THEN GivenUp(d)
                    ELSE calls[d]]
    /\ polling' = (polling /\ ~(Current(c).op = "show" /\ calls[c].seen[Item(c)] \in Me.stops))
    /\ UNCHANGED <<subject, renewed, faults>>

\* The handler returns early: input that does not pass, or the wrong row.
Refuse(c) ==
    /\ Running(c)
    /\ Current(c).op = "check" \/ Rejected(c)
    /\ calls' = [calls EXCEPT ![c] = GivenUp(c)]
    /\ NoEffect
    /\ UNCHANGED <<subject, memory, renewed, polling, faults>>

\* The process ends: what it kept in memory and every request in flight are
\* gone.  A page outlives the service.
Down ==
    /\ calls' = [d \in Calls |-> IF Running(d) THEN GivenUp(d) ELSE calls[d]]
    /\ memory' = IF Me.page THEN memory ELSE Blank

\* The operation fails, before it reached the other side or after: its answer
\* is lost.
Fails(c) ==
    /\ Running(c)
    /\ faults < MaxFaults
    /\ Current(c).op \notin Immediate
    /\ faults' = faults + 1
    /\ NoEffect \/ (~Rejected(c) /\ Effect(c))
    /\ UNCHANGED <<subject, renewed, polling>>

\* A variant whose catch block logs and goes on.
FailsCaughtGoingOn(c) ==
    /\ Fails(c)
    /\ Current(c).fails = "answer"
    /\ calls' = [calls EXCEPT ![c] = Advanced(c)]
    /\ memory' = MemoryAfter(c)

\* A catch block answers 500, or the page keeps what it has.
FailsCaught(c) ==
    /\ Fails(c)
    /\ Current(c).fails = "answer"
    /\ calls' = [calls EXCEPT ![c] = GivenUp(c)]
    /\ memory' = MemoryAfter(c)

\* The catch block of the statement is empty.
FailsIgnored(c) ==
    /\ Fails(c)
    /\ Current(c).fails = "ignore"
    /\ calls' = [calls EXCEPT ![c] = Advanced(c)]
    /\ memory' = MemoryAfter(c)

\* There is no catch block: the unhandled rejection ends the process.
FailsUncaught(c) ==
    /\ Fails(c)
    /\ Current(c).fails = "crash"
    /\ Down

\* The service is restarted.
Restart ==
    /\ ~Me.page
    /\ faults < MaxFaults
    /\ faults' = faults + 1
    /\ Down
    /\ NoEffect
    /\ UNCHANGED <<subject, renewed, polling>>

\* The request has succeeded, and its claim is what made it succeed.
Claims(c) ==
    calls[c].st = "ok" /\ \E k \in DOMAIN Program(c) : Program(c)[k].op = "insert"

\* The request has set its key and goes on.
Holds(c) == Running(c) /\ \E k \in 1..(calls[c].pc - 1) : Program(c)[k].op = "insert"

\* The time of a key has passed and Redis deletes it: the claims on it are no
\* more.  No request takes as long as the key it has set is there.
Expire(i) ==
    /\ rows[i] \in Me.expires
    /\ \A c \in Calls : Holds(c) => Item(c) # i
    /\ rows' = [rows EXCEPT ![i] = None]
    /\ calls' = [c \in Calls |-> IF Claims(c) /\ Item(c) = i THEN GivenUp(c) ELSE calls[c]]
    /\ renewed' = [renewed EXCEPT ![i] = Len(sent)]
    /\ UNCHANGED <<subject, memory, sent, recorded, polling, faults>>

Step(c) == Perform(c) \/ Refuse(c) \/ FailsCaught(c) \/ FailsIgnored(c) \/ FailsUncaught(c)

Next ==
    \/ \E c \in Calls, i \in Items : \E r \in DOMAIN Me.routes : Begin(c, r, i)
    \/ \E c \in Calls : Step(c)
    \/ Restart
    \/ \E i \in Items : Expire(i)

Spec == Init /\ [][Next]_vars

Poll == \E c \in Timers : Begin(c, Me.polls, Opened)

\* What was begun is answered or given up, and an interval that is not cleared
\* fires again and again.
Fairness ==
    /\ \A c \in Calls : WF_vars(Step(c))
    /\ SF_vars(Poll)

FairSpec == Spec /\ Fairness

-----------------------------------------------------------------------------
TypeOK ==
    /\ subject \in DOMAIN Subject
    /\ rows \in [Items -> Values]
    /\ memory \in [Items -> Values]
    /\ sent \in Seq(Items \X Values)
    /\ calls \in [Calls -> [st: {"idle", "running", "ok", "over"},
                            route: DOMAIN Me.routes \union {""}, item: Items, pc: Nat,
                            seen: [Items -> Values]]]
    /\ \A c \in Calls : Running(c) => /\ calls[c].route \in DOMAIN Me.routes
                                      /\ calls[c].pc \in DOMAIN Program(c)
    /\ recorded \subseteq Items \X Values
    /\ renewed \in [Items -> Nat]
    /\ polling \in BOOLEAN
    /\ faults \in 0..MaxFaults

-----------------------------------------------------------------------------
(* Safety                                                                    *)

\* Whoever is told of something by a channel can read it: every announcement
\* was written durably before it was published, whatever failed or stopped.
\* (emergency.ts, medical.ts, incident index.ts, location.ts, store.py,
\* inventory.ts, offers.py)
AnnouncedIsRecorded == \A k \in DOMAIN sent : sent[k] \in recorded

\* The handler read the row, and another request has changed it since.
Overtaken(c) ==
    /\ Running(c) /\ calls'[c] # calls[c]
    /\ \E k \in 1..(calls[c].pc - 1) : Program(c)[k].op = "read"
    /\ calls[c].seen[Item(c)] # rows[Item(c)]

\* A row changes along the life cycle its service documents; it leaves it only
\* by the UPDATE of a request that was overtaken between its SELECT and its
\* UPDATE, or when its time to live is over.  (events.ts:122, orders.ts:123)
LifecycleIsKept ==
    [][\A i \in Items :
          \/ rows'[i] = rows[i] \/ <<rows[i], rows'[i]>> \in Me.flow
          \/ rows[i] \in Me.expires /\ rows'[i] = None
          \/ \E c \in Calls : Item(c) = i /\ Overtaken(c)]_vars

\* An offer that was pushed since its key last expired.
OfferedLately(k) == sent[k][2] = "offered" /\ k > renewed[sent[k][1]]

\* A key is claimed once for as long as it is there: of the scans of a ticket or
\* the registrations of an address, whose keys stay, at most one is ever told it
\* succeeded; an offer is delivered and pushed at most once before its key
\* expires, also when answers are lost and the client tries again.  The key of
\* an offer lives for 24 hours (offers.py:13), so this is less than the "at most
\* once per event" of offers.py:51.  (entry.ts:104, auth.ts:69, offers.py:48)
OnceOnly ==
    /\ \A c, d \in Calls : Claims(c) /\ Claims(d) /\ Item(c) = Item(d) => c = d
    /\ \A j, k \in DOMAIN sent :
           sent[j] = sent[k] /\ OfferedLately(j) /\ OfferedLately(k) => j = k

\* Until the coordinator is restarted or an operation fails, the evacuation its
\* status request answers with is the one announced last, in any order of
\* requests.  (emergency.ts:87)
ActiveIsAnnounced ==
    \A k \in DOMAIN sent :
        /\ faults = 0 /\ sent[k][2] = "evacuation"
        /\ \A j \in (k + 1)..Len(sent) : sent[j][2] # "evacuation"
        => memory = [Blank EXCEPT ![sent[k][1]] = "evacuation"]

\* What is shown of a row is the same, or not from before what was shown.
GoesOn(i) == memory'[i] = memory[i] \/ ~Leads(Me.flow, memory'[i], memory[i])

\* A page that aborts its loads shows a row only further on in its life cycle,
\* whatever the order in which answers come: it never goes back to what the row
\* was.  (useApi.ts:52)
ShownInOrder ==
    [][\A i \in Items : subject \in AbortingPages => GoesOn(i)]_vars

-----------------------------------------------------------------------------
(* Liveness                                                                  *)

\* A screen that polls ends up showing its row as it is, although answers are
\* lost and polls overlap; a screen that has stopped polling has stopped
\* because its row will not change.  (OrderStatusScreen.tsx:59, KioskListScreen.tsx:53)
ScreenCatchesUp ==
    <>[](Me.polls # "never" =>
            \/ memory[Opened] = rows[Opened]
            \/ ~polling /\ rows[Opened] \in Me.stops)
=============================================================================
