--------------------------- MODULE AlertDelivery ---------------------------
(***************************************************************************)
(* Two ways an alert reaches an attendee when the live channel does not.   *)
(*                                                                         *)
(* The SMS fallback of NotificationDispatcher: one notice per dispatch, a  *)
(* timer for each, and a Map from the attendee to the timer set last.  The *)
(* notices here are those of one attendee, since the Map keeps attendees   *)
(* apart; the provider is given to the constructor, as the class allows.   *)
(*                                                                         *)
(* The BLE receiver of the app: processBLEAdvertisement runs once per      *)
(* advertisement heard, awaits the database between its steps, and any     *)
(* number of runs interleave; the app can be killed between two steps and  *)
(* the two tables survive.                                                 *)
(***************************************************************************)
EXTENDS Naturals, FiniteSets

CONSTANTS Notices,    \* dispatches to the attendee
          Receipts,   \* runs of processBLEAdvertisement at one time
          Payloads,   \* payloadIds on the mesh
          MaxShown,   \* bounds how often TLC lets one payload be surfaced
          None

ASSUME AlertAssumption ==
    /\ IsFiniteSet(Receipts) /\ MaxShown \in Nat
    /\ None \notin Notices /\ None \notin Payloads

VARIABLES
    kind,       \* kind[n]: type and priority of the dispatched payload
    sms,        \* sms[n]: where dispatch n and its fallback stand
    pending,    \* the entry of pendingSMSTimers: the notice it belongs to
    acked,      \* history: notices whose timer ran when an acknowledgement came
    crowded,    \* history: notices whose timer ran together with another's
    run,        \* run[r]: the step of receipt r, its payload and the cached row
    seen,       \* table ble_mesh_seen
    cached,     \* table ble_mesh_payloads
    shown,      \* shown[p]: notifications surfaced for p
    lost        \* history: payloads whose run was killed or whose notification failed

dispatcherVars == <<kind, sms, pending, acked, crowded>>
receiverVars == <<run, seen, cached, shown, lost>>
vars == <<kind, sms, pending, acked, crowded, run, seen, cached, shown, lost>>

\* "alert" stands for the three types that are not emergencies.
Types == {"emergency", "evacuation", "alert"}
Priorities == {"normal", "high"}
Kinds == [type : Types, priority : Priorities]
SmsStates == {"new", "publishing", "live", "failed", "armed", "cleared", "sent"}
Idle == [at |-> "idle", of |-> None, hit |-> FALSE]
RunStates == {Idle} \cup [at : {"check", "lookup", "mark", "show"}, of : Payloads, hit : BOOLEAN]

TypeOK ==
    /\ kind \in [Notices -> Kinds]
    /\ sms \in [Notices -> SmsStates]
    /\ pending \in Notices \cup {None}
    /\ acked \subseteq Notices /\ crowded \subseteq Notices
    /\ run \in [Receipts -> RunStates]
    /\ seen \subseteq Payloads /\ cached \subseteq Payloads
    /\ shown \in [Payloads -> Nat]
    /\ lost \subseteq Payloads

Init ==
    /\ kind \in [Notices -> Kinds]
    /\ sms = [n \in Notices |-> "new"]
    /\ pending = None
    /\ acked = {} /\ crowded = {}
    /\ run = [r \in Receipts |-> Idle]
    /\ seen = {} /\ cached = {}
    /\ shown = [p \in Payloads |-> 0]
    /\ lost = {}
-----------------------------------------------------------------------------
(* The dispatcher. *)

\* selectChannels
SelectChannels(k) ==
    {"websocket"}
        \cup (IF k.type \in {"emergency", "evacuation"} THEN {"fcm", "apns", "sms"} ELSE {})
        \cup (IF k.priority = "high" THEN {"fcm", "apns"} ELSE {})

ShouldScheduleSMSFallback(channels) == channels \cap {"fcm", "apns"} # {}

Armed == {n \in Notices : sms[n] = "armed"}

\* dispatch up to the await of redis.publish.
Dispatch(n) ==
    /\ sms[n] = "new"
    /\ sms' = [sms EXCEPT ![n] = "publishing"]
    /\ UNCHANGED <<kind, pending, acked, crowded, receiverVars>>

\* The publish is done: the fallback is scheduled, and its timer replaces
\* the attendee's entry, whatever it held.
Published(n) ==
    /\ sms[n] = "publishing"
    /\ \/ /\ ShouldScheduleSMSFallback(SelectChannels(kind[n]))
          /\ sms' = [sms EXCEPT ![n] = "armed"]
          /\ pending' = n
          /\ crowded' = IF Armed = {} THEN crowded ELSE crowded \cup Armed \cup {n}
       \/ /\ ~ShouldScheduleSMSFallback(SelectChannels(kind[n]))
          /\ sms' = [sms EXCEPT ![n] = "live"]
          /\ UNCHANGED <<pending, crowded>>
    /\ UNCHANGED <<kind, acked, receiverVars>>

\* The publish rejects: dispatch throws before it schedules anything.
PublishFails(n) ==
    /\ sms[n] = "publishing"
    /\ sms' = [sms EXCEPT ![n] = "failed"]
    /\ UNCHANGED <<kind, pending, acked, crowded, receiverVars>>

\* The timer of n: the attendee's entry goes, also when it is not n's.
Fires(n) ==
    /\ sms[n] = "armed"
    /\ sms' = [sms EXCEPT ![n] = "sent"]
    /\ pending' = None
    /\ UNCHANGED <<kind, acked, crowded, receiverVars>>

\* A variant that deletes the entry of the Map without clearTimeout.
AcknowledgeForgetting ==
    /\ acked' = acked \cup Armed
    /\ pending' = None
    /\ UNCHANGED <<kind, sms, crowded, receiverVars>>

\* acknowledgePushDelivery
Acknowledge ==
    /\ acked' = acked \cup Armed
    /\ \/ /\ pending # None
          /\ sms' = [sms EXCEPT ![pending] = "cleared"]
          /\ pending' = None
       \/ /\ pending = None
          /\ UNCHANGED <<sms, pending>>
    /\ UNCHANGED <<kind, crowded, receiverVars>>

Dispatcher ==
    \/ \E n \in Notices : Dispatch(n) \/ Published(n) \/ PublishFails(n) \/ Fires(n)
    \/ Acknowledge
-----------------------------------------------------------------------------
(* The receiver. *)

\* An advertisement of p is heard and decoded.
Heard(r, p) ==
    /\ run[r] = Idle
    /\ run' = [run EXCEPT ![r] = [at |-> "check", of |-> p, hit |-> FALSE]]
    /\ UNCHANGED <<dispatcherVars, seen, cached, shown, lost>>

\* hasSeenPayload
Check(r) ==
    /\ run[r].at = "check"
    /\ \/ /\ run[r].of \in seen
          /\ run' = [run EXCEPT ![r] = Idle]
       \/ /\ run[r].of \notin seen
          /\ run' = [run EXCEPT ![r].at = "lookup"]
    /\ UNCHANGED <<dispatcherVars, seen, cached, shown, lost>>

\* lookupCachedPayload
Lookup(r) ==
    /\ run[r].at = "lookup"
    /\ run' = [run EXCEPT ![r].at = "mark", ![r].hit = run[r].of \in cached]
    /\ UNCHANGED <<dispatcherVars, seen, cached, shown, lost>>

\* A variant that marks only a payload whose text is cached.
MarkIfCached(r) ==
    /\ run[r].at = "mark"
    /\ seen' = IF run[r].hit THEN seen \cup {run[r].of} ELSE seen
    /\ run' = [run EXCEPT ![r].at = "show"]
    /\ UNCHANGED <<dispatcherVars, cached, shown, lost>>

\* markPayloadSeen: INSERT OR IGNORE, which does not say whether it inserted.
Mark(r) ==
    /\ run[r].at = "mark"
    /\ seen' = seen \cup {run[r].of}
    /\ run' = [run EXCEPT ![r].at = "show"]
    /\ UNCHANGED <<dispatcherVars, cached, shown, lost>>

\* A variant that does not surface a payload without cached text.
ShowIfCached(r) ==
    /\ run[r].at = "show"
    /\ shown[run[r].of] < MaxShown
    /\ shown' = [shown EXCEPT ![run[r].of] = IF run[r].hit THEN @ + 1 ELSE @]
    /\ run' = [run EXCEPT ![r] = Idle]
    /\ UNCHANGED <<dispatcherVars, seen, cached, lost>>

\* showLocalNotification, with the cached text or without.
Show(r) ==
    /\ run[r].at = "show"
    /\ shown[run[r].of] < MaxShown
    /\ shown' = [shown EXCEPT ![run[r].of] = @ + 1]
    /\ run' = [run EXCEPT ![r] = Idle]
    /\ UNCHANGED <<dispatcherVars, seen, cached, lost>>

\* scheduleNotificationAsync rejects (no permission).
ShowFails(r) ==
    /\ run[r].at = "show"
    /\ lost' = lost \cup {run[r].of}
    /\ run' = [run EXCEPT ![r] = Idle]
    /\ UNCHANGED <<dispatcherVars, seen, cached, shown>>

\* The statement a run awaits rejects, and the run with it.
StatementFails(r) ==
    /\ run[r].at \in {"check", "lookup", "mark"}
    /\ run' = [run EXCEPT ![r] = Idle]
    /\ UNCHANGED <<dispatcherVars, seen, cached, shown, lost>>

\* cacheBLEMeshPayload
Cache(p) ==
    /\ p \notin cached
    /\ cached' = cached \cup {p}
    /\ UNCHANGED <<dispatcherVars, run, seen, shown, lost>>

\* The app is killed: the runs are gone, the tables stay.
Killed ==
    /\ \E r \in Receipts : run[r] # Idle
    /\ lost' = lost \cup {run[r].of : r \in {q \in Receipts : run[q].at = "show"}}
    /\ run' = [r \in Receipts |-> Idle]
    /\ UNCHANGED <<dispatcherVars, seen, cached, shown>>

Receiver ==
    \/ \E r \in Receipts : \/ \E p \in Payloads : Heard(r, p)
                           \/ Check(r) \/ Lookup(r) \/ Mark(r) \/ Show(r)
                           \/ ShowFails(r) \/ StatementFails(r)
    \/ \E p \in Payloads : Cache(p)
    \/ Killed

Next == Dispatcher \/ Receiver

Spec == Init /\ [][Next]_vars
-----------------------------------------------------------------------------
(***************************************************************************)
(* An acknowledgement that comes while a notice's timer runs cancels its   *)
(* SMS, except where two timers of the attendee ran together: then the Map *)
(* holds one of them only, or none (acknowledgePushDelivery and the timer  *)
(* callback of dispatch).                                                  *)
(***************************************************************************)
AckedIsNotSent ==
    \A n \in Notices : n \in acked /\ n \notin crowded => sms[n] # "sent"

\* Runs that have found p unseen and not yet surfaced it.
Past(p) == {r \in Receipts : run[r].of = p /\ run[r].at \in {"lookup", "mark", "show"}}

(***************************************************************************)
(* A payload that was surfaced or marked is never surfaced again by an     *)
(* advertisement heard later, over any number of kills: it is surfaced at  *)
(* most as often as runs of it overlapped (processBLEAdvertisement).       *)
(***************************************************************************)
RepeatsOverlapped ==
    \A p \in Payloads : shown[p] + Cardinality(Past(p)) <= Cardinality(Receipts)

(***************************************************************************)
(* A payload marked as seen has been surfaced, is about to be, or was lost *)
(* by a kill or a refused notification after the mark: no other path makes *)
(* an alert silent for good.                                               *)
(***************************************************************************)
SilentOnlyIfLost ==
    \A p \in seen : shown[p] > 0 \/ p \in lost
                        \/ \E r \in Past(p) : run[r].at = "show"
=============================================================================
