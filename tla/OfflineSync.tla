----------------------------- MODULE OfflineSync -----------------------------
(***************************************************************************)
(* Emergency signals and incident reports of the mobile app:                *)
(* apps/mobile/src/screens/{SOSScreen,MedicalSOSScreen,IncidentReportScreen} *)
(* submit them or put them into the table sync_queue (storage/db.ts), and   *)
(* sync/connectivityManager.ts replays the table when NetInfo reports that  *)
(* the phone is online again.                                               *)
(*                                                                         *)
(* Every await is a place where NetInfo may report, another screen may run  *)
(* or the system may kill the app; the table survives that.  A POST may be  *)
(* processed although its answer is lost.                                   *)
(***************************************************************************)
EXTENDS Naturals, FiniteSets

CONSTANTS
    Signals,      \* one per submission, whatever the screen
    Rank,         \* position of its row's type in REPLAY_ORDER
    Accepts,      \* whether the endpoint takes its payload, or answers 400
    Replays,      \* activations of handleReconnect
    None,         \* no signal
    MaxReceived,  \* bound: times the server takes one signal
    MaxFaults     \* bound: kills of the app and failed SQLite statements

ASSUME NoneAssumption == None \notin Signals
ASSUME RankAssumption == Rank \in [Signals -> Nat]
ASSUME AcceptsAssumption == Accepts \in [Signals -> BOOLEAN]
ASSUME BoundsAssumption == MaxReceived \in Nat /\ MaxFaults \in Nat

VARIABLES
    status,       \* currentStatus: what NetInfo reported last
    isSyncing,
    screen,       \* the screen of each signal
    queue,        \* sync_queue: status of the signal's row, or "none"
    replay,       \* the activations of handleReconnect
    received,     \* how often the server took the signal
    unsure,       \* history: signals it took while the app believes it did not
    faults

vars == <<status, isSyncing, screen, queue, replay, received, unsure, faults>>

Statuses == {"unknown", "offline", "online"}
ScreenStates == {"new", "sending", "storing", "accepted", "queued", "closed"}
RowStates == {"none", "pending", "processing"}
\* An activation: the statement or request it awaits, the items after this one.
ReplayStates == [at : {"idle", "read", "mark", "post", "delete", "retry"},
                 item : Signals \cup {None}, todo : SUBSET Signals]
Idle == [at |-> "idle", item |-> None, todo |-> {}]

TypeOK ==
    /\ status \in Statuses
    /\ isSyncing \in BOOLEAN
    /\ screen \in [Signals -> ScreenStates]
    /\ queue \in [Signals -> RowStates]
    /\ replay \in [Replays -> ReplayStates]
    /\ \A r \in Replays : replay[r].at \in {"post", "delete", "retry"} => replay[r].item # None
    /\ received \in [Signals -> 0 .. MaxReceived]
    /\ unsure \subseteq Signals
    /\ faults \in 0 .. MaxFaults

Init ==
    /\ status = "unknown"
    /\ isSyncing = FALSE
    /\ screen = [s \in Signals |-> "new"]
    /\ queue = [s \in Signals |-> "none"]
    /\ replay = [r \in Replays |-> Idle]
    /\ received = [s \in Signals |-> 0]
    /\ unsure = {}
    /\ faults = 0

\* The server takes the signals in S.
Take(S) ==
    /\ \A s \in S : Accepts[s] /\ received[s] < MaxReceived
    /\ received' = [s \in Signals |-> received[s] + IF s \in S THEN 1 ELSE 0]

-----------------------------------------------------------------------------
(* The screens *)

\* submitSOS after its countdown, or handleSubmit: POST when online, else INSERT.
Submit(s) ==
    /\ screen[s] = "new"
    /\ screen' = [screen EXCEPT ![s] = IF status = "online" THEN "sending" ELSE "storing"]
    /\ UNCHANGED <<status, isSyncing, queue, replay, received, unsure, faults>>

\* The server answers 201.
SubmitAccepted(s) ==
    /\ screen[s] = "sending"
    /\ Take({s})
    /\ screen' = [screen EXCEPT ![s] = "accepted"]
    /\ UNCHANGED <<status, isSyncing, queue, replay, unsure, faults>>

\* An error, a refusal or a timeout: the screen stores the signal instead.
SubmitFails(s) ==
    /\ screen[s] = "sending"
    /\ \E taken \in {{}, {s}} : Take(taken) /\ unsure' = unsure \cup taken
    /\ screen' = [screen EXCEPT ![s] = "storing"]
    /\ UNCHANGED <<status, isSyncing, queue, replay, faults>>

\* enqueueSyncItem; the screen then promises that the signal will be sent.
Enqueue(s) ==
    /\ screen[s] = "storing"
    /\ queue' = [queue EXCEPT ![s] = "pending"]
    /\ screen' = [screen EXCEPT ![s] = "queued"]
    /\ UNCHANGED <<status, isSyncing, replay, received, unsure, faults>>

-----------------------------------------------------------------------------
(* Connectivity *)

\* A variant of handleReconnect without its test of isSyncing.
ReconnectAlways ==
    /\ isSyncing' = TRUE
    /\ \E r \in Replays : /\ replay[r] = Idle
                          /\ replay' = [replay EXCEPT ![r] = [Idle EXCEPT !.at = "read"]]

\* handleReconnect
HandleReconnect ==
    IF isSyncing THEN UNCHANGED <<isSyncing, replay>>
    ELSE /\ isSyncing' = TRUE
         /\ \E r \in Replays : /\ replay[r] = Idle
                               /\ replay' = [replay EXCEPT ![r] = [Idle EXCEPT !.at = "read"]]

\* handleNetInfoChange
NetInfoChange(new) ==
    /\ status' = new
    /\ IF status # "online" /\ new = "online" THEN HandleReconnect
                                              ELSE UNCHANGED <<isSyncing, replay>>
    /\ UNCHANGED <<screen, queue, received, unsure, faults>>

-----------------------------------------------------------------------------
(* replaySyncQueue and replaySyncItem *)

\* getPendingSyncItems
ReadPending(r) ==
    /\ replay[r].at = "read"
    /\ replay' = [replay EXCEPT ![r].at = "mark",
                                ![r].todo = {s \in Signals : queue[s] = "pending"}]
    /\ UNCHANGED <<status, isSyncing, screen, queue, received, unsure, faults>>

\* UPDATE sync_queue: no effect when the row is gone.
SetRow(s, row) == queue' = [queue EXCEPT ![s] = IF @ = "none" THEN @ ELSE row]

\* markSyncItemProcessing for the first item in the order of types.  (Within a
\* type the rows are sorted by the second they were created in: any order here.)
MarkProcessing(r) ==
    /\ replay[r].at = "mark"
    /\ \E s \in replay[r].todo :
          /\ \A other \in replay[r].todo : Rank[s] <= Rank[other]
          /\ SetRow(s, "processing")
          /\ replay' = [replay EXCEPT ![r] =
                            [at |-> "post", item |-> s, todo |-> replay[r].todo \ {s}]]
    /\ UNCHANGED <<status, isSyncing, screen, received, unsure, faults>>

PostAccepted(r) ==
    /\ replay[r].at = "post"
    /\ Take({replay[r].item})
    /\ replay' = [replay EXCEPT ![r].at = "delete"]
    /\ UNCHANGED <<status, isSyncing, screen, queue, unsure, faults>>

\* An error, a refusal or a timeout.
PostFails(r) ==
    /\ replay[r].at = "post"
    /\ \E taken \in {{}, {replay[r].item}} : Take(taken) /\ unsure' = unsure \cup taken
    /\ replay' = [replay EXCEPT ![r].at = "retry"]
    /\ UNCHANGED <<status, isSyncing, screen, queue, faults>>

\* The loop goes on.
NextItem(r) == replay' = [replay EXCEPT ![r].at = "mark", ![r].item = None]

\* deleteSyncItem
DeleteItem(r) ==
    /\ replay[r].at = "delete"
    /\ queue' = [queue EXCEPT ![replay[r].item] = "none"]
    /\ NextItem(r)
    /\ UNCHANGED <<status, isSyncing, screen, received, unsure, faults>>

\* A variant of the catch block that gives the item up.
DropItem(r) ==
    /\ replay[r].at = "retry"
    /\ queue' = [queue EXCEPT ![replay[r].item] = "none"]
    /\ NextItem(r)
    /\ UNCHANGED <<status, isSyncing, screen, received, unsure, faults>>

\* incrementSyncRetry (nothing reads the count)
RetryItem(r) ==
    /\ replay[r].at = "retry"
    /\ SetRow(replay[r].item, "pending")
    /\ NextItem(r)
    /\ UNCHANGED <<status, isSyncing, screen, received, unsure, faults>>

\* A variant without the finally block.
FinishKeepingFlag(r) ==
    /\ replay[r].at = "mark" /\ replay[r].todo = {}
    /\ replay' = [replay EXCEPT ![r] = Idle]
    /\ UNCHANGED <<status, isSyncing, screen, queue, received, unsure, faults>>

\* The loop ends and the finally block runs.
Finish(r) ==
    /\ replay[r].at = "mark" /\ replay[r].todo = {}
    /\ replay' = [replay EXCEPT ![r] = Idle]
    /\ isSyncing' = FALSE
    /\ UNCHANGED <<status, screen, queue, received, unsure, faults>>

ReplayStep(r) ==
    \/ ReadPending(r) \/ MarkProcessing(r) \/ PostAccepted(r) \/ PostFails(r)
    \/ DeleteItem(r) \/ RetryItem(r) \/ Finish(r)

-----------------------------------------------------------------------------
(* Faults *)

\* The INSERT fails: the signal is nowhere any more.
EnqueueFails(s) ==
    /\ faults < MaxFaults
    /\ screen[s] = "storing"
    /\ screen' = [screen EXCEPT ![s] = "closed"]
    /\ faults' = faults + 1
    /\ UNCHANGED <<status, isSyncing, queue, replay, received, unsure>>

\* A statement fails.  A failed DELETE counts as a failed POST; any other
\* failure ends the replay.
StatementFails(r) ==
    /\ faults < MaxFaults
    /\ \/ /\ replay[r].at = "delete"
          /\ replay' = [replay EXCEPT ![r].at = "retry"]
          /\ unsure' = unsure \cup {replay[r].item}
          /\ UNCHANGED isSyncing
       \/ /\ replay[r].at \in {"read", "mark", "retry"}
          /\ replay[r].at = "mark" => replay[r].todo # {}
          /\ replay' = [replay EXCEPT ![r] = Idle]
          /\ isSyncing' = FALSE
          /\ UNCHANGED unsure
    /\ faults' = faults + 1
    /\ UNCHANGED <<status, screen, queue, received>>

InFlight ==
    {s \in Signals : screen[s] = "sending" \/ \E r \in Replays : replay[r].at = "post" /\ replay[r].item = s}

\* The app is killed and started again: only the table is left, and the server
\* may yet take what was in flight.
Kill ==
    /\ faults < MaxFaults
    /\ \E taken \in SUBSET InFlight : Take(taken) /\ unsure' = unsure \cup taken
    /\ status' = "unknown"
    /\ isSyncing' = FALSE
    /\ replay' = [r \in Replays |-> Idle]
    /\ screen' = [s \in Signals |-> IF screen[s] \in {"sending", "storing"} THEN "closed" ELSE screen[s]]
    /\ faults' = faults + 1
    /\ UNCHANGED queue

-----------------------------------------------------------------------------
Next ==
    \/ \E s \in Signals : Submit(s) \/ SubmitAccepted(s) \/ SubmitFails(s) \/ Enqueue(s) \/ EnqueueFails(s)
    \/ \E new \in {"offline", "online"} : NetInfoChange(new)
    \/ \E r \in Replays : ReplayStep(r) \/ StatementFails(r)
    \/ Kill

Spec == Init /\ [][Next]_vars

\* Statements and requests end (a request after 15 s at the latest; one that is
\* answered 401 waits for the refresh of the session, which has no timeout and is
\* assumed to end here), and a signal that is posted again and again, and that
\* the endpoint takes, is answered in the end.
Fairness ==
    /\ WF_vars(\E r \in Replays : ReplayStep(r))
    /\ \A s \in Signals : SF_vars(\E r \in Replays : replay[r].item = s /\ PostAccepted(r))

FairSpec == Spec /\ Fairness

-----------------------------------------------------------------------------
\* A signal whose screen says "queued" stays in the table until the server has
\* taken it, whatever fails or is killed in between.
QueuedIsKept == \A s \in Signals : screen[s] = "queued" /\ queue[s] = "none" => received[s] > 0

\* The server sees a signal twice only if an answer was lost, a DELETE failed or
\* the app was killed while it was sent: replays do not repeat each other's work.
DuplicatesOnlyAfterLoss == \A s \in Signals : received[s] > 1 => s \in unsure

\* The signals in the table that the server has not seen.
Owed == {s \in Signals : queue[s] # "none" /\ received[s] = 0}

\* The table is an outbox: a signal leaves it only when the server takes it, and
\* goes to the server again only after an answer that the app did not get or did
\* not note.  (enqueueSyncItem, replaySyncItem, deleteSyncItem)
Outbox == INSTANCE SignalOutbox WITH owed <- Owed, copies <- received, doubted <- unsure
OutboxIsKept == Outbox!Spec

\* The row of a signal was left at 'processing' by a replay that is gone: no
\* later replay selects it.
Stranded(s) == queue[s] = "processing" /\ ~\E r \in Replays : replay[r].item = s

KeepsReconnecting == []<>(status = "offline") /\ []<>(status = "online")

\* A phone that goes offline and online again and again sends every queued signal
\* that the endpoint takes and that was not stranded, even behind signals that
\* are refused for ever, with reconnections that a running replay ignores.
AcceptableIsSent ==
    KeepsReconnecting =>
        \A s \in Signals : (screen[s] = "queued" /\ Accepts[s]) ~> (received[s] > 0 \/ Stranded(s))
=============================================================================
