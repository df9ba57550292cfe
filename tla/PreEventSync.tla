--------------------------- MODULE PreEventSync ---------------------------
(***************************************************************************)
(* runPreEventSync of the mobile app: what an attendee needs without a     *)
(* network is downloaded step by step and stored, the two tables by a      *)
(* DELETE and one INSERT per row; an incomplete sync is retried by a timer.*)
(*                                                                         *)
(* The function is exported and nothing keeps two calls of it apart: a     *)
(* screen may call it while a retry runs, and a retry may fire while a     *)
(* call still waits for an answer (a request may take 15 s of the 30 s).   *)
(***************************************************************************)
EXTENDS FiniteSets

CONSTANTS Runs,   \* calls of runPreEventSync under way at one time
          Rows    \* what one download has for a table (edges, or exits)

ASSUME RowsAssumption == Rows # {}

VARIABLES
    run,        \* run[r]: what call r awaits and what has failed in it
    rows,       \* tables venue_graph and emergency_exits, by the step that fills them
    ticket,     \* the row of tickets: absent, without or with the public key
    stored,     \* the items in MMKV
    complete,   \* sync.complete
    warned,     \* sync.incompleteWarning
    timer,      \* the retry timer is running
    tried,      \* history: called in this process and not cancelled since
    muddled     \* history: calls overlapped or one was killed, and none ran alone since

device == <<rows, ticket, stored, complete, warned>>
preSyncVars == <<run, rows, ticket, stored, complete, warned, timer, tried, muddled>>

Tables == {"graph", "exits"}
Items == {"key", "audio", "rewards", "tiles"}

Steps == {"graph", "ticket", "exits", "key", "audio", "rewards"}
Phases == {"get", "delete", "insert", "save"}

\* What a step awaits: its request, then the statements that store the answer.
Awaits(step, phase) ==
    \/ phase = "get"
    \/ step \in Tables /\ phase \in {"delete", "insert"}
    \/ step \in {"ticket", "key"} /\ phase = "save"

After == [graph |-> "ticket", ticket |-> "exits", exits |-> "key",
          key |-> "audio", audio |-> "rewards"]

NotBegun == [step |-> "idle", phase |-> "idle", todo |-> {}, failed |-> FALSE, alone |-> FALSE]
Working == {w \in [step : Steps, phase : Phases, todo : SUBSET Rows,
                   failed : BOOLEAN, alone : BOOLEAN] : Awaits(w.step, w.phase)}
Underway(r) == run[r].step # "idle"
AllIdle == \A r \in Runs : ~Underway(r)

PreSyncTypeOK ==
    /\ run \in [Runs -> {NotBegun} \cup Working]
    /\ rows \in [Tables -> SUBSET Rows]
    /\ ticket \in {"none", "bare", "keyed"}
    /\ stored \subseteq Items
    /\ complete \in BOOLEAN /\ warned \in BOOLEAN
    /\ timer \in BOOLEAN /\ tried \in BOOLEAN /\ muddled \in BOOLEAN

PreSyncInit ==
    /\ run = [r \in Runs |-> NotBegun]
    /\ rows = [t \in Tables |-> {}]
    /\ ticket = "none"
    /\ stored = {}
    /\ complete = FALSE /\ warned = FALSE
    /\ timer = FALSE /\ tried = FALSE /\ muddled = FALSE
-----------------------------------------------------------------------------
\* A call begins with the request of its first step.
Start(r) ==
    /\ ~Underway(r)
    /\ run' = [q \in Runs |->
                 IF q = r THEN [step |-> "graph", phase |-> "get", todo |-> {},
                                failed |-> FALSE, alone |-> AllIdle]
                 ELSE IF Underway(q) THEN [run[q] EXCEPT !.alone = FALSE] ELSE run[q]]
    /\ muddled' = (muddled \/ ~AllIdle)
    /\ tried' = TRUE
    /\ UNCHANGED device

Call(r) == Start(r) /\ UNCHANGED timer

\* attempt() notes the outcome of a step; the next one sends its request.
Advance(r, ok) ==
    /\ run[r].step # "rewards"
    /\ run' = [run EXCEPT ![r] = [@ EXCEPT !.step = After[run[r].step], !.phase = "get",
                                           !.todo = {}, !.failed = run[r].failed \/ ~ok]]
    /\ UNCHANGED <<complete, warned, timer, tried, muddled>>

Completes(r, ok) == ok /\ ~run[r].failed

\* A variant that never takes the flag back.
EndSyncKeepingFlag(r, ok) ==
    /\ run[r].step = "rewards"
    /\ stored' = stored \cup {"tiles"} \cup (IF ok THEN {"rewards"} ELSE {})
    /\ complete' = (complete \/ Completes(r, ok))
    /\ timer' = (timer \/ ~Completes(r, ok))
    /\ warned' \in (IF Completes(r, ok) THEN {warned} ELSE {warned, TRUE})
    /\ run' = [run EXCEPT ![r] = NotBegun]
    /\ muddled' = (muddled /\ ~run[r].alone)
    /\ UNCHANGED <<rows, ticket, tried>>

\* A variant that warns instead of trying again.
EndSyncWarningOnly(r, ok) ==
    /\ run[r].step = "rewards"
    /\ stored' = stored \cup {"tiles"} \cup (IF ok THEN {"rewards"} ELSE {})
    /\ complete' = Completes(r, ok)
    /\ warned' \in (IF Completes(r, ok) THEN {warned} ELSE {warned, TRUE})
    /\ timer' = (timer \/ (~Completes(r, ok) /\ ~warned'))
    /\ run' = [run EXCEPT ![r] = NotBegun]
    /\ muddled' = (muddled /\ ~run[r].alone)
    /\ UNCHANGED <<rows, ticket, tried>>

\* The last request is answered or fails; the tile pack is requested without
\* an await, and the call reports, sets the flag, schedules a retry and, when
\* the event is near, the warning.
EndSync(r, ok) ==
    /\ run[r].step = "rewards"
    /\ stored' = stored \cup {"tiles"} \cup (IF ok THEN {"rewards"} ELSE {})
    /\ complete' = Completes(r, ok)
    /\ timer' = (timer \/ ~Completes(r, ok))
    /\ warned' \in (IF Completes(r, ok) THEN {warned} ELSE {warned, TRUE})
    /\ run' = [run EXCEPT ![r] = NotBegun]
    /\ muddled' = (muddled /\ ~run[r].alone)
    /\ UNCHANGED <<rows, ticket, tried>>

\* The request of a step is answered: what follows is stored or awaited.
Await(r, phase, todo) ==
    /\ run' = [run EXCEPT ![r] = [@ EXCEPT !.phase = phase, !.todo = todo]]
    /\ UNCHANGED <<complete, warned, timer, tried, muddled>>

Downloaded(r) ==
    /\ run[r].phase = "get"
    /\ \/ /\ run[r].step \in Tables
          /\ Await(r, "delete", Rows)
          /\ UNCHANGED <<rows, ticket, stored>>
       \/ /\ run[r].step = "ticket"
          /\ Await(r, "save", {})
          /\ UNCHANGED <<rows, ticket, stored>>
       \/ /\ run[r].step = "key"
          /\ stored' = stored \cup {"key"}
          /\ Await(r, "save", {})
          /\ UNCHANGED <<rows, ticket>>
       \/ /\ run[r].step = "audio"
          /\ stored' = stored \cup {"audio"}
          /\ Advance(r, TRUE)
          /\ UNCHANGED <<rows, ticket>>
       \/ EndSync(r, TRUE)

\* A variant of saveVenueGraph and saveEmergencyExits without the DELETE.
DeleteNothing(r) ==
    /\ run[r].phase = "delete"
    /\ Await(r, "insert", run[r].todo)
    /\ UNCHANGED <<rows, ticket, stored>>

\* The DELETE of saveVenueGraph or saveEmergencyExits.
DeleteRows(r) ==
    /\ run[r].phase = "delete"
    /\ rows' = [rows EXCEPT ![run[r].step] = {}]
    /\ Await(r, "insert", run[r].todo)
    /\ UNCHANGED <<ticket, stored>>

\* One INSERT of theirs: a row that is there already violates the PRIMARY
\* KEY, which ends the step.
InsertRow(r) ==
    /\ run[r].phase = "insert"
    /\ \E row \in run[r].todo :
          \/ /\ row \in rows[run[r].step]
             /\ Advance(r, FALSE)
             /\ UNCHANGED rows
          \/ /\ row \notin rows[run[r].step]
             /\ rows' = [rows EXCEPT ![run[r].step] = @ \cup {row}]
             /\ \/ /\ run[r].todo = {row}
                   /\ Advance(r, TRUE)
                \/ /\ run[r].todo # {row}
                   /\ Await(r, "insert", run[r].todo \ {row})
    /\ UNCHANGED <<ticket, stored>>

\* INSERT OR REPLACE of the ticket, without the key; then, in the step of the
\* key, the UPDATE of whatever ticket there is.
SaveTicket(r) ==
    /\ run[r].step = "ticket" /\ run[r].phase = "save"
    /\ ticket' = "bare"
    /\ Advance(r, TRUE)
    /\ UNCHANGED <<rows, stored>>

SaveKey(r) ==
    /\ run[r].step = "key" /\ run[r].phase = "save"
    /\ ticket' = IF ticket = "none" THEN "none" ELSE "keyed"
    /\ Advance(r, TRUE)
    /\ UNCHANGED <<rows, stored>>

Proceeds(r) ==
    Downloaded(r) \/ DeleteRows(r) \/ InsertRow(r) \/ SaveTicket(r) \/ SaveKey(r)

\* The request or statement that a step awaits fails.
Fails(r) ==
    /\ Underway(r)
    /\ \/ Advance(r, FALSE) /\ UNCHANGED <<rows, ticket, stored>>
       \/ EndSync(r, FALSE)

\* The retry timer: a sync that is complete by now is left alone.
TimerFires ==
    /\ timer
    /\ timer' = FALSE
    /\ \/ /\ ~complete
          /\ \E r \in Runs : Start(r)
       \/ /\ complete
          /\ UNCHANGED <<run, device, tried, muddled>>

\* cancelSyncRetry
CancelSyncRetry ==
    /\ timer' = FALSE
    /\ tried' = FALSE
    /\ UNCHANGED <<run, device, muddled>>

\* The app is killed: what it stored survives, its calls and timers do not.
Killed ==
    /\ run' = [r \in Runs |-> NotBegun]
    /\ timer' = FALSE /\ tried' = FALSE
    /\ muddled' = (muddled \/ ~AllIdle)
    /\ UNCHANGED device

PreSyncNext ==
    \/ \E r \in Runs : Call(r) \/ Proceeds(r) \/ Fails(r)
    \/ TimerFires \/ CancelSyncRetry \/ Killed

PreSyncSpec == PreSyncInit /\ [][PreSyncNext]_preSyncVars

\* Requests and statements are answered or fail (the refresh of the session, that
\* a request answered 401 waits for, is assumed to end), and timers fire.
PreSyncFairness ==
    /\ \A r \in Runs : WF_preSyncVars(Proceeds(r) \/ Fails(r))
    /\ WF_preSyncVars(TimerFires)

PreSyncFairSpec == PreSyncSpec /\ PreSyncFairness
-----------------------------------------------------------------------------
Cached ==
    /\ \A t \in Tables : rows[t] = Rows
    /\ ticket = "keyed"
    /\ stored = Items

(***************************************************************************)
(* An app that says it has completed a sync has everything on the device   *)
(* (Property in design.md:564), between calls, and unless calls overlapped *)
(* or one was killed after the last that ran alone: no failed step, partly *)
(* replaced table or earlier, better sync passes for a complete one.       *)
(***************************************************************************)
CompleteIsCached == (complete /\ AllIdle /\ ~muddled) => Cached

(***************************************************************************)
(* As long as a sync that was begun is incomplete, a call or the timer of  *)
(* one is under way, whichever of several calls ended last and set the     *)
(* flag (scheduleRetry; "retries every 30 seconds", design.md:628).        *)
(***************************************************************************)
IncompleteIsRetried == (tried /\ ~complete) => (timer \/ \E r \in Runs : Underway(r))

\* Nothing fails any more, nobody calls, and a retry finds earlier calls ended.
Undisturbed == (\E r \in Runs : Proceeds(r)) \/ (AllIdle /\ TimerFires)

(***************************************************************************)
(* Once requests and statements succeed and calls overlap no more, retries *)
(* complete the sync, from whatever state failures, kills and overlapping  *)
(* calls have left the tables in.                                          *)
(***************************************************************************)
RetriesSettle == <>[][Undisturbed]_preSyncVars => <>[](tried => complete)
=============================================================================
