--------------------------- MODULE OfflineAppProofs ---------------------------
(***************************************************************************)
(* What the app keeps on the phone and must not lose or misrepresent while *)
(* the network comes and goes.  Emergency signals in sync_queue, for any   *)
(* signals, any endpoints that take or refuse them, and any number of      *)
(* reconnections, kills and failures; the tables of the pre-event sync,    *)
(* for any rows and any number of calls.                                   *)
(***************************************************************************)
EXTENDS OfflineSync, PreEventSync, TLAPS

-----------------------------------------------------------------------------
(* Taking signals moves `received` within its bound.                       *)
LEMMA TakeTyped ==
  ASSUME TypeOK, NEW S \in SUBSET Signals, Take(S)
  PROVE  /\ received' \in [Signals -> 0 .. MaxReceived]
         /\ \A s \in Signals : received'[s] = received[s] + IF s \in S THEN 1 ELSE 0
  BY BoundsAssumption DEF TypeOK, Take

(* The type invariant of the screens, the table and the replays.           *)
THEOREM TypeCorrect == Spec => []TypeOK
<1> USE NoneAssumption, BoundsAssumption
<1>a. Idle \in ReplayStates /\ [Idle EXCEPT !.at = "read"] \in ReplayStates
  BY DEF Idle, ReplayStates
<1>1. Init => TypeOK
  <2> SUFFICES ASSUME Init PROVE TypeOK
    OBVIOUS
  <2>1. replay \in [Replays -> ReplayStates] /\ \A r \in Replays : replay[r].at = "idle"
    BY <1>a DEF Init, Idle
  <2>2. received \in [Signals -> 0 .. MaxReceived] /\ faults \in 0 .. MaxFaults
    BY DEF Init
  <2>3. /\ status \in Statuses /\ isSyncing \in BOOLEAN /\ unsure \subseteq Signals
        /\ screen \in [Signals -> ScreenStates] /\ queue \in [Signals -> RowStates]
    BY DEF Init, Statuses, ScreenStates, RowStates
  <2> QED  BY <2>1, <2>2, <2>3 DEF TypeOK
<1>2. TypeOK /\ [Next]_vars => TypeOK'
  <2> SUFFICES ASSUME TypeOK, [Next]_vars PROVE TypeOK'
    OBVIOUS
  <2> USE DEF TypeOK, Statuses, ScreenStates, RowStates, ReplayStates, Idle
  <2>1. ASSUME NEW s \in Signals, Submit(s) PROVE TypeOK'
    BY <2>1 DEF Submit
  <2>2. ASSUME NEW s \in Signals, SubmitAccepted(s) PROVE TypeOK'
    <3>1. received' \in [Signals -> 0 .. MaxReceived]
      BY <2>2, TakeTyped DEF SubmitAccepted
    <3> QED  BY <2>2, <3>1 DEF SubmitAccepted
  <2>3. ASSUME NEW s \in Signals, SubmitFails(s) PROVE TypeOK'
    <3>1. PICK taken \in {{}, {s}} : Take(taken) /\ unsure' = unsure \cup taken
      BY <2>3 DEF SubmitFails
    <3>2. received' \in [Signals -> 0 .. MaxReceived]
      BY <3>1, TakeTyped
    <3> QED  BY <2>3, <3>1, <3>2 DEF SubmitFails
  <2>4. ASSUME NEW s \in Signals, Enqueue(s) PROVE TypeOK'
    BY <2>4 DEF Enqueue
  <2>4a. ASSUME NEW s \in Signals, EnqueueFails(s) PROVE TypeOK'
    BY <2>4a DEF EnqueueFails
  <2>5. ASSUME NEW new \in {"offline", "online"}, NetInfoChange(new) PROVE TypeOK'
    <3>1. CASE status # "online" /\ new = "online" /\ ~isSyncing
      <4>1. PICK r \in Replays : replay' = [replay EXCEPT ![r] = [Idle EXCEPT !.at = "read"]]
        BY <2>5, <3>1 DEF NetInfoChange, HandleReconnect
      <4>2. replay' \in [Replays -> ReplayStates]
        BY <4>1, <1>a
      <4>3. \A q \in Replays : replay'[q].at \in {"post", "delete", "retry"} => replay'[q].item # None
        BY <4>1
      <4> QED  BY <2>5, <3>1, <4>2, <4>3 DEF NetInfoChange, HandleReconnect
    <3>2. CASE ~(status # "online" /\ new = "online" /\ ~isSyncing)
      BY <2>5, <3>2 DEF NetInfoChange, HandleReconnect
    <3> QED  BY <3>1, <3>2
  <2>6. ASSUME NEW r \in Replays, ReadPending(r) PROVE TypeOK'
    BY <2>6 DEF ReadPending
  <2>7. ASSUME NEW r \in Replays, MarkProcessing(r) PROVE TypeOK'
    <3>1. PICK s \in replay[r].todo :
             /\ SetRow(s, "processing")
             /\ replay' = [replay EXCEPT ![r] =
                              [at |-> "post", item |-> s, todo |-> replay[r].todo \ {s}]]
      BY <2>7 DEF MarkProcessing
    <3>2. replay[r].todo \subseteq Signals
      OBVIOUS
    <3>3. [at |-> "post", item |-> s, todo |-> replay[r].todo \ {s}] \in ReplayStates
      BY <3>2
    <3> QED  BY <2>7, <3>1, <3>2, <3>3 DEF MarkProcessing, SetRow
  <2>8. ASSUME NEW r \in Replays, PostAccepted(r) PROVE TypeOK'
    <3>1. received' \in [Signals -> 0 .. MaxReceived]
      BY <2>8, TakeTyped DEF PostAccepted
    <3> QED  BY <2>8, <3>1 DEF PostAccepted
  <2>9. ASSUME NEW r \in Replays, PostFails(r) PROVE TypeOK'
    <3>1. PICK taken \in {{}, {replay[r].item}} : Take(taken) /\ unsure' = unsure \cup taken
      BY <2>9 DEF PostFails
    <3>2. taken \subseteq Signals
      BY <2>9 DEF PostFails
    <3>3. received' \in [Signals -> 0 .. MaxReceived]
      BY <3>1, <3>2, TakeTyped
    <3> QED  BY <2>9, <3>1, <3>2, <3>3 DEF PostFails
  <2>10. ASSUME NEW r \in Replays, DeleteItem(r) PROVE TypeOK'
    BY <2>10 DEF DeleteItem, NextItem
  <2>11. ASSUME NEW r \in Replays, RetryItem(r) PROVE TypeOK'
    BY <2>11 DEF RetryItem, NextItem, SetRow
  <2>12. ASSUME NEW r \in Replays, Finish(r) PROVE TypeOK'
    BY <2>12 DEF Finish
  <2>13. ASSUME NEW r \in Replays, StatementFails(r) PROVE TypeOK'
    <3>1. \/ replay' = [replay EXCEPT ![r].at = "retry"] /\ replay[r].at = "delete"
          \/ replay' = [replay EXCEPT ![r] = Idle]
      BY <2>13 DEF StatementFails
    <3>2. /\ replay' \in [Replays -> ReplayStates]
          /\ \A q \in Replays : replay'[q].at \in {"post", "delete", "retry"} => replay'[q].item # None
      BY <3>1, <1>a
    <3>3. replay[r].at = "delete" => replay[r].item \in Signals
      OBVIOUS
    <3>4. unsure' \subseteq Signals /\ isSyncing' \in BOOLEAN
      BY <2>13, <3>3 DEF StatementFails
    <3>5. faults' \in 0 .. MaxFaults
      BY <2>13 DEF StatementFails
    <3> QED  BY <2>13, <3>2, <3>4, <3>5 DEF StatementFails
  <2>14. CASE Kill
    <3>1. PICK taken \in SUBSET InFlight : Take(taken) /\ unsure' = unsure \cup taken
      BY <2>14 DEF Kill
    <3>2. received' \in [Signals -> 0 .. MaxReceived] /\ taken \subseteq Signals
      BY <3>1, TakeTyped DEF InFlight
    <3>3. /\ replay' \in [Replays -> ReplayStates]
          /\ \A r \in Replays : replay'[r].at = "idle"
      BY <2>14, <1>a DEF Kill
    <3>4. screen' \in [Signals -> ScreenStates]
      BY <2>14 DEF Kill
    <3>5. /\ faults < MaxFaults /\ faults' = faults + 1
          /\ status' = "unknown" /\ isSyncing' = FALSE /\ queue' = queue
      BY <2>14 DEF Kill
    <3>6. faults' \in 0 .. MaxFaults
      BY <3>5
    <3> QED  BY <3>1, <3>2, <3>3, <3>4, <3>5, <3>6
  <2>15. CASE UNCHANGED vars
    BY <2>15 DEF vars
  <2> QED  BY <2>1, <2>2, <2>3, <2>4, <2>5, <2>6, <2>7, <2>8, <2>9, <2>10, <2>11,
              <2>12, <2>13, <2>14, <2>15, <2>4a DEF Next, ReplayStep
<1> QED  BY <1>1, <1>2, PTL DEF Spec

-----------------------------------------------------------------------------
Active(r) == replay[r].at # "idle"
Busy(r) == replay[r].at \in {"post", "delete", "retry"}

(* isSyncing admits one replay at a time ...                               *)
OneReplay ==
    \A r \in Replays : Active(r) => isSyncing /\ \A q \in Replays : Active(q) => q = r

(* ... so what it read of the table stays true until it writes itself.     *)
ReplayView ==
    \A r \in Replays :
        /\ replay[r].at \in {"idle", "read"} => replay[r].todo = {}
        /\ \A s \in replay[r].todo : queue[s] = "pending"
        /\ ~Busy(r) => replay[r].item = None
        /\ Busy(r) => queue[replay[r].item] = "processing"
        /\ replay[r].at = "delete" => received[replay[r].item] > 0

RowsAreQueued == \A s \in Signals : queue[s] # "none" => screen[s] = "queued"

(* A signal that the server took with the app's knowledge is not sent again. *)
KnownReceipt ==
    \A s \in Signals \ unsure :
        /\ received[s] <= 1
        /\ received[s] > 0 =>
              \/ screen[s] = "accepted"
              \/ /\ screen[s] = "queued"
                 /\ \/ queue[s] = "none"
                    \/ /\ queue[s] = "processing"
                       /\ \A r \in Replays : replay[r].item = s => replay[r].at = "delete"

SyncInv == OneReplay /\ ReplayView /\ RowsAreQueued /\ QueuedIsKept /\ KnownReceipt

LEMMA SyncInit == Init => SyncInv
  BY DEF Init, SyncInv, OneReplay, ReplayView, RowsAreQueued, QueuedIsKept, KnownReceipt,
         Active, Busy, Idle

(* While one replay is at work the others are idle.                        *)
LEMMA OthersIdle ==
  ASSUME OneReplay, ReplayView, NEW r \in Replays, Active(r)
  PROVE  /\ isSyncing
         /\ \A q \in Replays \ {r} : replay[q].at = "idle" /\ replay[q].todo = {} /\ replay[q].item = None
  BY DEF OneReplay, ReplayView, Active, Busy

(* Every step preserves the invariant.                                     *)
LEMMA SyncStep == TypeOK /\ SyncInv /\ [Next]_vars => SyncInv'
<1> SUFFICES ASSUME TypeOK, SyncInv, [Next]_vars PROVE SyncInv'
  OBVIOUS
<1> USE NoneAssumption, BoundsAssumption
<1> USE DEF SyncInv
<1>a. replay \in [Replays -> ReplayStates]
  BY DEF TypeOK
<1>1. ASSUME NEW s \in Signals, Submit(s) PROVE SyncInv'
  BY <1>1 DEF Submit, TypeOK, OneReplay, ReplayView, RowsAreQueued, QueuedIsKept, KnownReceipt, Active, Busy
<1>2. ASSUME NEW s \in Signals, SubmitAccepted(s) PROVE SyncInv'
  <2>1. \A x \in Signals : received'[x] = received[x] + IF x \in {s} THEN 1 ELSE 0
    BY <1>2, TakeTyped DEF SubmitAccepted
  <2>2. received[s] = 0 \/ s \in unsure
    BY <1>2 DEF SubmitAccepted, KnownReceipt, TypeOK
  <2>3. OneReplay' /\ ReplayView'
    BY <1>2, <2>1, <1>a DEF SubmitAccepted, OneReplay, ReplayView, Active, Busy, TypeOK, ReplayStates
  <2>4. RowsAreQueued' /\ QueuedIsKept'
    BY <1>2, <2>1 DEF SubmitAccepted, RowsAreQueued, QueuedIsKept, TypeOK
  <2>5. KnownReceipt'
    BY <1>2, <2>1, <2>2 DEF SubmitAccepted, KnownReceipt, TypeOK
  <2> QED  BY <2>3, <2>4, <2>5
<1>3. ASSUME NEW s \in Signals, SubmitFails(s) PROVE SyncInv'
  <2>1. PICK taken \in {{}, {s}} : Take(taken) /\ unsure' = unsure \cup taken
    BY <1>3 DEF SubmitFails
  <2>2. \A x \in Signals : received'[x] = received[x] + IF x \in taken THEN 1 ELSE 0
    BY <2>1, TakeTyped
  <2>3. OneReplay' /\ ReplayView'
    BY <1>3, <2>2, <1>a DEF SubmitFails, OneReplay, ReplayView, Active, Busy, TypeOK, ReplayStates
  <2>4. RowsAreQueued' /\ QueuedIsKept'
    BY <1>3, <2>2 DEF SubmitFails, RowsAreQueued, QueuedIsKept, TypeOK
  <2>5. KnownReceipt'
    BY <1>3, <2>1, <2>2 DEF SubmitFails, KnownReceipt, TypeOK
  <2> QED  BY <2>3, <2>4, <2>5
<1>4. ASSUME NEW s \in Signals, Enqueue(s) PROVE SyncInv'
  <2>1. queue[s] = "none"
    BY <1>4 DEF Enqueue, RowsAreQueued
  <2>2. OneReplay' /\ ReplayView'
    BY <1>4, <2>1, <1>a DEF Enqueue, OneReplay, ReplayView, Active, Busy, TypeOK, ReplayStates
  <2>3. RowsAreQueued' /\ QueuedIsKept' /\ KnownReceipt'
    BY <1>4, <2>1 DEF Enqueue, RowsAreQueued, QueuedIsKept, KnownReceipt, TypeOK
  <2> QED  BY <2>2, <2>3
<1>4a. ASSUME NEW s \in Signals, EnqueueFails(s) PROVE SyncInv'
  BY <1>4a DEF EnqueueFails, TypeOK, OneReplay, ReplayView, RowsAreQueued, QueuedIsKept, KnownReceipt, Active, Busy
<1>5. ASSUME NEW new \in {"offline", "online"}, NetInfoChange(new) PROVE SyncInv'
  <2>1. CASE ~isSyncing /\ isSyncing'
    <3>1. PICK r \in Replays : /\ replay[r] = Idle
                               /\ replay' = [replay EXCEPT ![r] = [Idle EXCEPT !.at = "read"]]
      BY <1>5, <2>1 DEF NetInfoChange, HandleReconnect
    <3>2. /\ replay'[r].at = "read" /\ replay'[r].item = None /\ replay'[r].todo = {}
          /\ \A q \in Replays \ {r} : replay'[q] = replay[q] /\ replay[q].at = "idle"
      BY <3>1, <2>1, <1>a DEF OneReplay, Active, Idle
    <3>3. OneReplay' /\ ReplayView'
      BY <1>5, <2>1, <3>2 DEF NetInfoChange, OneReplay, ReplayView, Active, Busy
    <3>4. RowsAreQueued' /\ QueuedIsKept'
      BY <1>5 DEF NetInfoChange, RowsAreQueued, QueuedIsKept
    <3>5. \A x \in Signals, q \in Replays :
             replay'[q].item = x => replay[q].item = x /\ replay'[q].at = replay[q].at
      BY <3>2
    <3>6. KnownReceipt'
      BY <1>5, <3>5 DEF NetInfoChange, KnownReceipt
    <3> QED  BY <3>3, <3>4, <3>6
  <2>2. CASE UNCHANGED <<isSyncing, replay>>
    BY <1>5, <2>2 DEF NetInfoChange, OneReplay, ReplayView, RowsAreQueued, QueuedIsKept,
                      KnownReceipt, Active, Busy
  <2> QED  BY <1>5, <2>1, <2>2 DEF NetInfoChange, HandleReconnect
<1>6. ASSUME NEW r \in Replays, ReadPending(r) PROVE SyncInv'
  <2>1. replay[r].at = "read" /\ replay[r].item = None /\ Active(r)
    BY <1>6 DEF ReadPending, ReplayView, Busy, Active
  <2>2. /\ replay'[r].at = "mark" /\ replay'[r].item = None
        /\ replay'[r].todo = {s \in Signals : queue[s] = "pending"}
        /\ \A q \in Replays \ {r} : replay'[q] = replay[q]
    BY <1>6, <2>1, <1>a DEF ReadPending, ReplayStates
  <2>3. OneReplay'
    BY <1>6, <2>1, <2>2 DEF ReadPending, OneReplay, Active
  <2>a. UNCHANGED <<screen, queue, received, unsure>>
    BY <1>6 DEF ReadPending
  <2>4. ReplayView'
    BY <2>a, <2>2 DEF ReplayView, Busy
  <2>5. RowsAreQueued' /\ QueuedIsKept'
    BY <1>6 DEF ReadPending, RowsAreQueued, QueuedIsKept
  <2>6. \A x \in Signals, q \in Replays :
           replay'[q].item = x => replay[q].item = x /\ replay'[q].at = replay[q].at
    BY <2>2
  <2>7. KnownReceipt'
    BY <2>a, <2>6 DEF KnownReceipt
  <2> QED  BY <2>3, <2>4, <2>5, <2>7
<1>7. ASSUME NEW r \in Replays, MarkProcessing(r) PROVE SyncInv'
  <2>1. PICK s \in replay[r].todo :
           /\ SetRow(s, "processing")
           /\ replay' = [replay EXCEPT ![r] =
                            [at |-> "post", item |-> s, todo |-> replay[r].todo \ {s}]]
    BY <1>7 DEF MarkProcessing
  <2>2. s \in Signals /\ queue[s] = "pending" /\ replay[r].at = "mark" /\ Active(r)
    BY <1>7, <2>1, <1>a DEF MarkProcessing, ReplayView, Active, ReplayStates
  <2>3. /\ queue'[s] = "processing"
        /\ \A x \in Signals \ {s} : queue'[x] = queue[x]
    BY <2>1, <2>2 DEF SetRow, TypeOK
  <2>4. /\ replay'[r].at = "post" /\ replay'[r].item = s /\ replay'[r].todo = replay[r].todo \ {s}
        /\ \A q \in Replays \ {r} : replay'[q] = replay[q]
    BY <2>1, <1>a
  <2>5. \A q \in Replays \ {r} : replay[q].at = "idle" /\ replay[q].todo = {} /\ replay[q].item = None
    BY <2>2, OthersIdle
  <2>6. OneReplay'
    BY <1>7, <2>2, <2>4, <2>5 DEF MarkProcessing, OneReplay, Active
  <2>7. ReplayView'
    <3>1. \A x \in replay[r].todo : x \in Signals /\ queue[x] = "pending"
      BY <1>a DEF ReplayView, ReplayStates
    <3> QED  BY <2>3, <2>4, <2>5, <3>1 DEF ReplayView, Busy
  <2>8. RowsAreQueued' /\ QueuedIsKept'
    BY <1>7, <2>2, <2>3 DEF MarkProcessing, RowsAreQueued, QueuedIsKept
  <2>9. KnownReceipt'
    BY <1>7, <2>2, <2>3, <2>4, <2>5 DEF MarkProcessing, RowsAreQueued, KnownReceipt
  <2> QED  BY <2>6, <2>7, <2>8, <2>9
<1>8. ASSUME NEW r \in Replays, PostAccepted(r) PROVE SyncInv'
  <2> DEFINE s == replay[r].item
  <2>1. s \in Signals /\ replay[r].at = "post" /\ Active(r) /\ queue[s] = "processing"
    BY <1>8, <1>a DEF PostAccepted, TypeOK, ReplayStates, ReplayView, Active, Busy
  <2>2. /\ replay'[r].at = "delete" /\ replay'[r].item = s /\ replay'[r].todo = replay[r].todo
        /\ \A q \in Replays \ {r} : replay'[q] = replay[q]
    BY <1>8, <1>a DEF PostAccepted, ReplayStates
  <2>3. \A q \in Replays \ {r} : replay[q].at = "idle" /\ replay[q].todo = {} /\ replay[q].item = None
    BY <2>1, OthersIdle
  <2>4. \A x \in Signals : received'[x] = received[x] + IF x \in {s} THEN 1 ELSE 0
    BY <1>8, <2>1, TakeTyped DEF PostAccepted
  <2>5. \A x \in Signals : received[x] \in Nat
    BY DEF TypeOK
  <2>6. received[s] = 0 \/ s \in unsure
    BY <2>1, <2>5 DEF KnownReceipt, RowsAreQueued
  <2>7. OneReplay' /\ ReplayView'
    BY <1>8, <2>1, <2>2, <2>3, <2>4, <2>5 DEF PostAccepted, OneReplay, ReplayView, Active, Busy
  <2>8. RowsAreQueued' /\ QueuedIsKept'
    BY <1>8, <2>4, <2>5 DEF PostAccepted, RowsAreQueued, QueuedIsKept
  <2>9. KnownReceipt'
    BY <1>8, <2>1, <2>2, <2>3, <2>4, <2>5, <2>6 DEF PostAccepted, KnownReceipt, RowsAreQueued
  <2> QED  BY <2>7, <2>8, <2>9
<1>9. ASSUME NEW r \in Replays, PostFails(r) PROVE SyncInv'
  <2> DEFINE s == replay[r].item
  <2>1. s \in Signals /\ replay[r].at = "post" /\ Active(r)
    BY <1>9, <1>a DEF PostFails, TypeOK, ReplayStates, Active
  <2>2. /\ replay'[r].at = "retry" /\ replay'[r].item = s /\ replay'[r].todo = replay[r].todo
        /\ \A q \in Replays \ {r} : replay'[q] = replay[q]
    BY <1>9, <1>a DEF PostFails, ReplayStates
  <2>3. \A q \in Replays \ {r} : replay[q].at = "idle" /\ replay[q].todo = {} /\ replay[q].item = None
    BY <2>1, OthersIdle
  <2>4. PICK taken \in {{}, {s}} : Take(taken) /\ unsure' = unsure \cup taken
    BY <1>9 DEF PostFails
  <2>5. \A x \in Signals : received'[x] = received[x] + IF x \in taken THEN 1 ELSE 0
    BY <2>1, <2>4, TakeTyped
  <2>6. \A x \in Signals : received[x] \in Nat
    BY DEF TypeOK
  <2>7. OneReplay' /\ ReplayView'
    BY <1>9, <2>1, <2>2, <2>3 DEF PostFails, OneReplay, ReplayView, Active, Busy
  <2>8. RowsAreQueued' /\ QueuedIsKept'
    BY <1>9, <2>5, <2>6 DEF PostFails, RowsAreQueued, QueuedIsKept
  <2>9. KnownReceipt'
    BY <1>9, <2>1, <2>2, <2>3, <2>4, <2>5, <2>6 DEF PostFails, KnownReceipt
  <2> QED  BY <2>7, <2>8, <2>9
<1>10. ASSUME NEW r \in Replays, DeleteItem(r) PROVE SyncInv'
  <2> DEFINE s == replay[r].item
  <2>1. s \in Signals /\ replay[r].at = "delete" /\ Active(r) /\ received[s] > 0
    BY <1>10, <1>a DEF DeleteItem, TypeOK, ReplayStates, ReplayView, Active
  <2>2. /\ replay'[r].at = "mark" /\ replay'[r].item = None /\ replay'[r].todo = replay[r].todo
        /\ \A q \in Replays \ {r} : replay'[q] = replay[q]
    BY <1>10, <1>a DEF DeleteItem, NextItem, ReplayStates
  <2>3. \A q \in Replays \ {r} : replay[q].at = "idle" /\ replay[q].todo = {} /\ replay[q].item = None
    BY <2>1, OthersIdle
  <2>4. queue[s] = "processing" /\ s \notin replay[r].todo
    BY <2>1 DEF ReplayView, Busy
  <2>5. /\ queue'[s] = "none" /\ screen[s] = "queued"
        /\ \A x \in Signals \ {s} : queue'[x] = queue[x]
    BY <1>10, <2>1, <2>4 DEF DeleteItem, TypeOK, RowsAreQueued
  <2>6. OneReplay'
    BY <1>10, <2>1, <2>2, <2>3 DEF DeleteItem, OneReplay, Active
  <2>7. ReplayView'
    <3>1. \A x \in replay[r].todo : x \in Signals \ {s} /\ queue[x] = "pending"
      BY <1>a, <2>4 DEF ReplayView, ReplayStates
    <3> QED  BY <2>2, <2>3, <2>5, <3>1 DEF ReplayView, Busy
  <2>8. RowsAreQueued' /\ QueuedIsKept'
    BY <1>10, <2>1, <2>5 DEF DeleteItem, RowsAreQueued, QueuedIsKept
  <2>9. KnownReceipt'
    BY <1>10, <2>2, <2>5 DEF DeleteItem, KnownReceipt
  <2> QED  BY <2>6, <2>7, <2>8, <2>9
<1>11. ASSUME NEW r \in Replays, RetryItem(r) PROVE SyncInv'
  <2> DEFINE s == replay[r].item
  <2>1. s \in Signals /\ replay[r].at = "retry" /\ Active(r)
    BY <1>11, <1>a DEF RetryItem, TypeOK, ReplayStates, Active
  <2>2. /\ replay'[r].at = "mark" /\ replay'[r].item = None /\ replay'[r].todo = replay[r].todo
        /\ \A q \in Replays \ {r} : replay'[q] = replay[q]
    BY <1>11, <1>a DEF RetryItem, NextItem, ReplayStates
  <2>3. \A q \in Replays \ {r} : replay[q].at = "idle" /\ replay[q].todo = {} /\ replay[q].item = None
    BY <2>1, OthersIdle
  <2>4. queue[s] = "processing" /\ s \notin replay[r].todo
    BY <2>1 DEF ReplayView, Busy
  <2>5. /\ queue'[s] = "pending" /\ screen[s] = "queued"
        /\ \A x \in Signals \ {s} : queue'[x] = queue[x]
    BY <1>11, <2>1, <2>4 DEF RetryItem, SetRow, TypeOK, RowsAreQueued
  <2>6. OneReplay'
    BY <1>11, <2>1, <2>2, <2>3 DEF RetryItem, OneReplay, Active
  <2>7. ReplayView'
    <3>1. \A x \in replay[r].todo : x \in Signals \ {s} /\ queue[x] = "pending"
      BY <1>a, <2>4 DEF ReplayView, ReplayStates
    <3> QED  BY <2>2, <2>3, <2>5, <3>1 DEF ReplayView, Busy
  <2>8. RowsAreQueued' /\ QueuedIsKept'
    BY <1>11, <2>5 DEF RetryItem, RowsAreQueued, QueuedIsKept
  <2>9. KnownReceipt'
    <3>1. s \notin unsure => ~(received[s] > 0)
      BY <2>1, <2>4, <2>5 DEF KnownReceipt
    <3> QED  BY <1>11, <2>2, <2>5, <3>1 DEF RetryItem, KnownReceipt
  <2> QED  BY <2>6, <2>7, <2>8, <2>9
<1>12. ASSUME NEW r \in Replays, Finish(r) PROVE SyncInv'
  <2>1. /\ replay'[r] = Idle /\ Active(r)
        /\ \A q \in Replays \ {r} : replay'[q] = replay[q]
    BY <1>12, <1>a DEF Finish, Active
  <2>2. OneReplay' /\ ReplayView'
    BY <1>12, <2>1, OthersIdle DEF Finish, OneReplay, ReplayView, Active, Busy, Idle
  <2>3. RowsAreQueued' /\ QueuedIsKept'
    BY <1>12 DEF Finish, RowsAreQueued, QueuedIsKept
  <2>4. KnownReceipt'
    BY <1>12, <2>1 DEF Finish, KnownReceipt, Idle
  <2> QED  BY <2>2, <2>3, <2>4
<1>13. ASSUME NEW r \in Replays, StatementFails(r) PROVE SyncInv'
  <2>1. RowsAreQueued' /\ QueuedIsKept'
    BY <1>13 DEF StatementFails, RowsAreQueued, QueuedIsKept
  <2>2. CASE replay[r].at = "delete"
    <3>1. /\ replay'[r].at = "retry" /\ replay'[r].item = replay[r].item
          /\ replay'[r].todo = replay[r].todo /\ unsure' = unsure \cup {replay[r].item}
          /\ isSyncing' = isSyncing
          /\ \A q \in Replays \ {r} : replay'[q] = replay[q]
      BY <1>13, <2>2, <1>a DEF StatementFails, ReplayStates
    <3>2. OneReplay' /\ ReplayView'
      BY <1>13, <2>2, <3>1 DEF StatementFails, OneReplay, ReplayView, Active, Busy
    <3>3. KnownReceipt'
      BY <1>13, <3>1 DEF StatementFails, KnownReceipt
    <3> QED  BY <2>1, <3>2, <3>3
  <2>3. CASE replay[r].at # "delete"
    <3>1. /\ replay'[r] = Idle /\ Active(r) /\ isSyncing' = FALSE /\ unsure' = unsure
          /\ \A q \in Replays \ {r} : replay'[q] = replay[q]
      BY <1>13, <2>3, <1>a DEF StatementFails, Active
    <3>2. OneReplay' /\ ReplayView'
      BY <1>13, <3>1, OthersIdle DEF StatementFails, OneReplay, ReplayView, Active, Busy, Idle
    <3>3. KnownReceipt'
      BY <1>13, <3>1 DEF StatementFails, KnownReceipt, Idle
    <3> QED  BY <2>1, <3>2, <3>3
  <2> QED  BY <2>2, <2>3
<1>14. CASE Kill
  <2>1. PICK taken \in SUBSET InFlight : Take(taken) /\ unsure' = unsure \cup taken
    BY <1>14 DEF Kill
  <2>2. \A x \in Signals : received'[x] = received[x] + IF x \in taken THEN 1 ELSE 0
    BY <2>1, TakeTyped DEF InFlight
  <2>3. \A x \in Signals : received[x] \in Nat
    BY DEF TypeOK
  <2>4. \A r \in Replays : replay'[r] = Idle
    BY <1>14 DEF Kill
  <2>5. /\ \A x \in Signals : screen'[x] # screen[x] => screen[x] \in {"sending", "storing"}
        /\ queue' = queue
    BY <1>14 DEF Kill
  <2>6. \A x \in Signals : screen'[x] = "queued" <=> screen[x] = "queued"
    BY <1>14 DEF Kill
  <2>7. OneReplay' /\ ReplayView'
    BY <2>4 DEF OneReplay, ReplayView, Active, Busy, Idle
  <2>8. RowsAreQueued' /\ QueuedIsKept'
    BY <2>2, <2>3, <2>5, <2>6 DEF RowsAreQueued, QueuedIsKept
  <2>9. KnownReceipt'
    BY <2>1, <2>2, <2>3, <2>4, <2>5, <2>6 DEF KnownReceipt, Idle
  <2> QED  BY <2>7, <2>8, <2>9
<1>15. CASE UNCHANGED vars
  BY <1>15 DEF vars, OneReplay, ReplayView, RowsAreQueued, QueuedIsKept, KnownReceipt, Active, Busy
<1> QED  BY <1>1, <1>2, <1>3, <1>4, <1>5, <1>6, <1>7, <1>8, <1>9, <1>10, <1>11, <1>12,
            <1>13, <1>14, <1>15, <1>4a DEF Next, ReplayStep

THEOREM Inductive == Spec => [](TypeOK /\ SyncInv)
  BY TypeCorrect, SyncInit, SyncStep, PTL DEF Spec

(* A signal whose screen says "queued" stays in the table until the server  *)
(* has taken it, whatever is killed or fails.                              *)
THEOREM QueuedSignalsKept == Spec => []QueuedIsKept
  BY Inductive, PTL DEF SyncInv

(* The server sees a signal twice only after a lost answer, a failed DELETE *)
(* or a kill: no two replays send the same row.                            *)
THEOREM NoNeedlessDuplicate == Spec => []DuplicatesOnlyAfterLoss
<1>1. TypeOK /\ SyncInv => DuplicatesOnlyAfterLoss
  BY DEF TypeOK, SyncInv, KnownReceipt, DuplicatesOnlyAfterLoss
<1> QED  BY Inductive, <1>1, PTL

-----------------------------------------------------------------------------
(* The outbox.  By RowsAreQueued a row is made once, by ReplayView it is    *)
(* deleted only after the server took the signal, and by KnownReceipt what  *)
(* is under way is not known to have been taken: each step of the app is    *)
(* one of SignalOutbox, or none of its business.                            *)

LEMMA OwedStays ==
  ASSUME UNCHANGED received,
         \A s \in Signals : queue'[s] = "none" <=> queue[s] = "none"
  PROVE  Owed' = Owed
  BY DEF Owed

\* The server takes some of the signals that are under way.
LEMMA TakenIsDelivered ==
  ASSUME TypeOK, NEW S \in SUBSET Signals, NEW unheard \in SUBSET S, Take(S),
         UNCHANGED queue, unsure' = unsure \cup unheard,
         \A s \in S : received[s] = 0 \/ s \in unsure
  PROVE  Outbox!Next
<1>1. received' = [s \in Signals |-> received[s] + IF s \in S THEN 1 ELSE 0]
  BY DEF Take
<1>2. \A s \in Signals : received[s] \in Nat
  BY BoundsAssumption DEF TypeOK
<1>3. \A s \in Signals : received'[s] = 0 <=> received[s] = 0 /\ s \notin S
  BY <1>1, <1>2
<1>4. Owed' = Owed \ S
  BY <1>3 DEF Owed
<1>5. Outbox!Deliver(S, unheard)
  BY <1>1, <1>4 DEF Outbox!Deliver
<1> QED  BY <1>5 DEF Outbox!Next

\* What is under way is not known to have been taken.
LEMMA UnderWay ==
  ASSUME TypeOK, SyncInv, NEW s \in InFlight
  PROVE  s \in Signals /\ (received[s] = 0 \/ s \in unsure)
<1>1. s \in Signals /\ received[s] \in Nat
  BY BoundsAssumption DEF TypeOK, InFlight
<1>2. CASE screen[s] = "sending"
  BY <1>1, <1>2 DEF SyncInv, KnownReceipt
<1>3. CASE \E r \in Replays : replay[r].at = "post" /\ replay[r].item = s
  <2>1. queue[s] = "processing"
    BY <1>3 DEF SyncInv, ReplayView, Busy
  <2>2. screen[s] = "queued"
    BY <1>1, <2>1 DEF SyncInv, RowsAreQueued
  <2> QED  BY <1>1, <1>3, <2>1, <2>2 DEF SyncInv, KnownReceipt
<1> QED  BY <1>1, <1>2, <1>3 DEF InFlight

LEMMA OutboxStep ==
  ASSUME TypeOK, SyncInv, [Next]_vars
  PROVE  [Outbox!Next]_Outbox!outboxVars
<1> USE DEF Outbox!outboxVars
<1>a. replay \in [Replays -> ReplayStates]
  BY DEF TypeOK
<1>1. ASSUME NEW s \in Signals, Submit(s) \/ EnqueueFails(s)
      PROVE  UNCHANGED Outbox!outboxVars
  BY <1>1, OwedStays DEF Submit, EnqueueFails
<1>2. ASSUME NEW s \in Signals, SubmitAccepted(s) PROVE Outbox!Next
  <2>1. received[s] = 0 \/ s \in unsure
    BY <1>2, UnderWay DEF SubmitAccepted, InFlight
  <2>2. Take({s}) /\ UNCHANGED queue /\ unsure' = unsure \cup {}
    BY <1>2 DEF SubmitAccepted
  <2> QED  BY <2>1, <2>2, TakenIsDelivered
<1>3. ASSUME NEW s \in Signals, SubmitFails(s) PROVE Outbox!Next
  <2>1. received[s] = 0 \/ s \in unsure
    BY <1>3, UnderWay DEF SubmitFails, InFlight
  <2>2. PICK taken \in {{}, {s}} : Take(taken) /\ unsure' = unsure \cup taken
    BY <1>3 DEF SubmitFails
  <2>3. UNCHANGED queue
    BY <1>3 DEF SubmitFails
  <2> QED  BY <2>1, <2>2, <2>3, TakenIsDelivered
<1>4. ASSUME NEW s \in Signals, Enqueue(s) PROVE [Outbox!Next]_Outbox!outboxVars
  <2>1. queue'[s] = "pending" /\ \A x \in Signals \ {s} : queue'[x] = queue[x]
    BY <1>4 DEF Enqueue, TypeOK
  <2>2. UNCHANGED <<received, unsure>>
    BY <1>4 DEF Enqueue
  <2>3. CASE received[s] = 0
    <3>1. Owed' = Owed \cup {s}
      BY <2>1, <2>2, <2>3 DEF Owed
    <3>2. Outbox!Promise(s)
      BY <2>2, <2>3, <3>1 DEF Outbox!Promise
    <3> QED  BY <3>2 DEF Outbox!Next
  <2>4. CASE received[s] # 0
    <3>1. Owed' = Owed
      BY <2>1, <2>2, <2>4 DEF Owed
    <3> QED  BY <2>2, <3>1
  <2> QED  BY <2>3, <2>4
<1>5. ASSUME NEW new \in {"offline", "online"}, NetInfoChange(new)
      PROVE  UNCHANGED Outbox!outboxVars
  BY <1>5, OwedStays DEF NetInfoChange
<1>6. ASSUME NEW r \in Replays, ReadPending(r) \/ Finish(r)
      PROVE  UNCHANGED Outbox!outboxVars
  BY <1>6, OwedStays DEF ReadPending, Finish
<1>7. ASSUME NEW r \in Replays, MarkProcessing(r) \/ RetryItem(r)
      PROVE  UNCHANGED Outbox!outboxVars
  <2>1. PICK s \in Signals, row \in {"pending", "processing"} : SetRow(s, row)
    BY <1>7, <1>a DEF MarkProcessing, RetryItem, TypeOK, ReplayStates
  <2>2. UNCHANGED <<received, unsure>>
    BY <1>7 DEF MarkProcessing, RetryItem
  <2>3. \A x \in Signals : queue'[x] = "none" <=> queue[x] = "none"
    BY <2>1 DEF SetRow, TypeOK
  <2> QED  BY <2>2, <2>3, OwedStays
<1>8. ASSUME NEW r \in Replays, PostAccepted(r) PROVE Outbox!Next
  <2>1. replay[r].item \in InFlight
    BY <1>8, <1>a DEF PostAccepted, InFlight, TypeOK, ReplayStates
  <2>2. Take({replay[r].item}) /\ UNCHANGED queue /\ unsure' = unsure \cup {}
    BY <1>8 DEF PostAccepted
  <2> QED  BY <2>1, <2>2, UnderWay, TakenIsDelivered
<1>9. ASSUME NEW r \in Replays, PostFails(r) PROVE Outbox!Next
  <2>1. replay[r].item \in InFlight
    BY <1>9, <1>a DEF PostFails, InFlight, TypeOK, ReplayStates
  <2>2. PICK taken \in {{}, {replay[r].item}} : Take(taken) /\ unsure' = unsure \cup taken
    BY <1>9 DEF PostFails
  <2>3. UNCHANGED queue
    BY <1>9 DEF PostFails
  <2> QED  BY <2>1, <2>2, <2>3, UnderWay, TakenIsDelivered
<1>10. ASSUME NEW r \in Replays, DeleteItem(r) PROVE UNCHANGED Outbox!outboxVars
  <2>1. received[replay[r].item] > 0
    BY <1>10 DEF DeleteItem, SyncInv, ReplayView
  <2>2. /\ UNCHANGED <<received, unsure>>
        /\ \A x \in Signals \ {replay[r].item} : queue'[x] = queue[x]
    BY <1>10 DEF DeleteItem, TypeOK
  <2>3. Owed' = Owed
    BY <2>1, <2>2 DEF Owed
  <2> QED  BY <2>2, <2>3
<1>11. ASSUME NEW r \in Replays, StatementFails(r) PROVE [Outbox!Next]_Outbox!outboxVars
  <2>1. UNCHANGED <<queue, received>> /\ Owed' = Owed
    BY <1>11, OwedStays DEF StatementFails
  <2>2. CASE replay[r].at = "delete"
    <3>1. replay[r].item \in Signals /\ received[replay[r].item] > 0
      BY <1>a, <2>2 DEF SyncInv, ReplayView, TypeOK, ReplayStates
    <3>2. unsure' = unsure \cup {replay[r].item}
      BY <1>11, <2>2 DEF StatementFails
    <3>3. Outbox!Forget(replay[r].item)
      BY <2>1, <3>1, <3>2 DEF Outbox!Forget
    <3> QED  BY <3>1, <3>3 DEF Outbox!Next
  <2>3. CASE replay[r].at # "delete"
    <3>1. UNCHANGED unsure
      BY <1>11, <2>3 DEF StatementFails
    <3> QED  BY <2>1, <3>1
  <2> QED  BY <2>2, <2>3
<1>12. CASE Kill
  <2>1. PICK taken \in SUBSET InFlight : Take(taken) /\ unsure' = unsure \cup taken
    BY <1>12 DEF Kill
  <2>2. UNCHANGED queue
    BY <1>12 DEF Kill
  <2>3. taken \in SUBSET Signals /\ \A s \in taken : received[s] = 0 \/ s \in unsure
    BY <2>1, UnderWay
  <2> QED  BY <2>1, <2>2, <2>3, TakenIsDelivered
<1>13. CASE UNCHANGED vars
  BY <1>13, OwedStays DEF vars
<1> QED  BY <1>1, <1>2, <1>3, <1>4, <1>5, <1>6, <1>7, <1>8, <1>9, <1>10, <1>11, <1>12, <1>13
         DEF Next, ReplayStep

\* The screens, the table and the replays implement SignalOutbox, for any
\* signals, any number of reconnections, kills and failures: a signal leaves the
\* table only when the server takes it, and is sent again only in doubt.
\* (enqueueSyncItem, replaySyncItem, deleteSyncItem)
THEOREM ImplementsOutbox == Spec => OutboxIsKept
<1>1. Init => Outbox!Init
  BY DEF Init, Outbox!Init, Owed
<1>2. TypeOK /\ SyncInv /\ [Next]_vars => [Outbox!Next]_Outbox!outboxVars
  BY OutboxStep
<1> QED  BY <1>1, <1>2, Inductive, PTL DEF Spec, OutboxIsKept, Outbox!Spec

-----------------------------------------------------------------------------
(* The pre-event sync.  CompleteIsCached says nothing of the middle of a    *)
(* call.  What makes it inductive is Progress: a call that runs alone and   *)
(* has not failed has stored everything its earlier steps were for, and of  *)
(* the table it is replacing all but the rows it still has to insert.  A    *)
(* call that does not run alone is remembered in muddled (Distracted) until *)
(* one that does has ended.                                                 *)

RunsAlone == \A q, r \in Runs : run[r].alone /\ Underway(q) => q = r
Distracted == \A r \in Runs : Underway(r) /\ ~run[r].alone => muddled

\* What a call has stored when it stands where w says.
Stored(w) ==
    /\ w.phase = "delete" => w.todo = Rows
    /\ w.step \in Tables /\ w.phase = "insert" => rows[w.step] = Rows \ w.todo
    /\ w.step # "graph" => rows["graph"] = Rows
    /\ w.step \in {"exits", "key", "audio", "rewards"} => ticket # "none"
    /\ w.step \in {"key", "audio", "rewards"} => rows["exits"] = Rows
    /\ w.step = "key" /\ w.phase = "save" => "key" \in stored
    /\ w.step \in {"audio", "rewards"} => ticket = "keyed" /\ "key" \in stored
    /\ w.step = "rewards" => "audio" \in stored

Progress ==
    \A r \in Runs : Underway(r) /\ run[r].alone /\ ~run[r].failed => Stored(run[r])

PreSyncInv ==
    /\ PreSyncTypeOK
    /\ RunsAlone /\ Distracted /\ Progress
    /\ CompleteIsCached /\ IncompleteIsRetried

\* A call is idle or works.
LEMMA RunShape ==
    ASSUME PreSyncTypeOK, NEW r \in Runs
    PROVE  IF Underway(r) THEN run[r] \in Working ELSE run[r] = NotBegun
BY DEF PreSyncTypeOK, Working, Steps, NotBegun, Underway

LEMMA WorkingShape ==
    ASSUME NEW w \in Working
    PROVE  /\ w.step \in Steps /\ w.phase \in Phases /\ w.todo \in SUBSET Rows
           /\ w.failed \in BOOLEAN /\ w.alone \in BOOLEAN
           /\ Awaits(w.step, w.phase) /\ w.step # "idle"
           /\ w = [step |-> w.step, phase |-> w.phase, todo |-> w.todo,
                   failed |-> w.failed, alone |-> w.alone]
BY DEF Working, Steps

\* Call r goes from one working state to another, the others stay.
Moves(r, w) ==
    /\ run[r] \in Working /\ w \in Working
    /\ w.alone = run[r].alone
    /\ run' = [run EXCEPT ![r] = w]
    /\ UNCHANGED <<complete, warned, timer, tried, muddled>>

LEMMA AdvanceMoves ==
    ASSUME PreSyncTypeOK, NEW r \in Runs, NEW ok \in BOOLEAN, Underway(r), Advance(r, ok)
    PROVE  \E w \in Working :
              /\ Moves(r, w)
              /\ run[r].step # "rewards"
              /\ w.step = After[run[r].step] /\ w.phase = "get"
              /\ w.failed = (run[r].failed \/ ~ok)
<1> DEFINE w == [run[r] EXCEPT !.step = After[run[r].step], !.phase = "get",
                               !.todo = {}, !.failed = run[r].failed \/ ~ok]
<1>1. run[r] \in Working /\ run[r].step # "rewards"
  BY RunShape DEF Advance
<1>2. After[run[r].step] \in Steps
  BY <1>1, WorkingShape DEF After, Steps
<1>3. (run[r].failed \/ ~ok) \in BOOLEAN
  BY <1>1, WorkingShape
<1>4. w \in [step : Steps, phase : Phases, todo : SUBSET Rows,
            failed : BOOLEAN, alone : BOOLEAN]
  BY <1>1, <1>2, <1>3 DEF Working, Phases
<1>5. /\ w.step = After[run[r].step] /\ w.phase = "get"
      /\ w.failed = (run[r].failed \/ ~ok) /\ w.alone = run[r].alone
  BY <1>1 DEF Working
<1>6. run' = [run EXCEPT ![r] = w]
  BY DEF Advance
<1>7. UNCHANGED <<complete, warned, timer, tried, muddled>>
  BY DEF Advance
<1> HIDE DEF w
<1>8. w \in Working
  BY <1>4, <1>5 DEF Working, Awaits
<1> QED BY <1>1, <1>5, <1>6, <1>7, <1>8 DEF Moves

LEMMA AwaitMoves ==
    ASSUME PreSyncTypeOK, NEW r \in Runs, Underway(r),
           NEW phase \in Phases, NEW todo \in SUBSET Rows,
           Awaits(run[r].step, phase), Await(r, phase, todo)
    PROVE  \E w \in Working :
              /\ Moves(r, w)
              /\ w.step = run[r].step /\ w.phase = phase /\ w.todo = todo
              /\ w.failed = run[r].failed
<1> DEFINE w == [run[r] EXCEPT !.phase = phase, !.todo = todo]
<1>1. run[r] \in Working
  BY RunShape
<1>2. w \in [step : Steps, phase : Phases, todo : SUBSET Rows,
            failed : BOOLEAN, alone : BOOLEAN]
  BY <1>1 DEF Working
<1>3. /\ w.step = run[r].step /\ w.phase = phase /\ w.todo = todo
      /\ w.failed = run[r].failed /\ w.alone = run[r].alone
  BY <1>1 DEF Working
<1>4. run' = [run EXCEPT ![r] = w]
  BY DEF Await
<1>5. UNCHANGED <<complete, warned, timer, tried, muddled>>
  BY DEF Await
<1> HIDE DEF w
<1>6. w \in Working
  BY <1>2, <1>3 DEF Working
<1> QED BY <1>1, <1>3, <1>4, <1>5, <1>6 DEF Moves

\* What is left to show of a move: the types of what it stores, and that it
\* keeps up with Progress if it has not failed.
LEMMA MoveKeepsInv ==
    ASSUME PreSyncInv, NEW r \in Runs, NEW w \in Working, Moves(r, w),
           rows' \in [Tables -> SUBSET Rows],
           ticket' \in {"none", "bare", "keyed"},
           stored' \subseteq Items,
           (~w.failed /\ w.alone) => ~run[r].failed /\ Stored(w)'
    PROVE  PreSyncInv'
<1> USE DEF PreSyncInv
<1>1. /\ run \in [Runs -> {NotBegun} \cup Working]
      /\ run' = [run EXCEPT ![r] = w]
      /\ UNCHANGED <<complete, warned, timer, tried, muddled>>
      /\ w.alone = run[r].alone
  BY DEF Moves, PreSyncTypeOK
<1>2. /\ run'[r] = w
      /\ \A q \in Runs : q # r => run'[q] = run[q]
      /\ run' \in [Runs -> {NotBegun} \cup Working]
  BY <1>1
<1>3. Underway(r) /\ Underway(r)'
  <2>1. run[r].step # "idle" /\ w.step # "idle"
    BY WorkingShape DEF Moves
  <2> QED BY <1>2, <2>1 DEF Underway
<1>4. PreSyncTypeOK'
  BY <1>1, <1>2 DEF PreSyncTypeOK
<1>5. RunsAlone'
  BY <1>1, <1>2, <1>3 DEF RunsAlone, Underway
<1>6. Distracted'
  BY <1>1, <1>2, <1>3 DEF Distracted, Underway
<1>7. Progress'
  <2> SUFFICES ASSUME NEW q \in Runs, Underway(q)', run'[q].alone, ~run'[q].failed
               PROVE  Stored(run[q])'
    BY DEF Progress
  <2>1. q = r
    BY <1>3, <1>5 DEF RunsAlone
  <2> QED BY <1>2, <2>1 DEF Stored
<1>8. CompleteIsCached'
  BY <1>3 DEF CompleteIsCached, AllIdle
<1>9. IncompleteIsRetried'
  BY <1>3 DEF IncompleteIsRetried
<1> QED BY <1>4, <1>5, <1>6, <1>7, <1>8, <1>9

\* The end of a call: what it sets is what it has stored, or it retries.
LEMMA FinishKeepsInv ==
    ASSUME PreSyncInv, NEW r \in Runs, NEW ok \in BOOLEAN, EndSync(r, ok)
    PROVE  PreSyncInv'
<1> USE DEF PreSyncInv
<1>1. /\ run' = [run EXCEPT ![r] = NotBegun]
      /\ complete' = Completes(r, ok)
      /\ timer' = (timer \/ ~Completes(r, ok))
      /\ muddled' = (muddled /\ ~run[r].alone)
      /\ run[r].step = "rewards"
      /\ stored' = stored \cup {"tiles"} \cup (IF ok THEN {"rewards"} ELSE {})
      /\ warned' \in BOOLEAN
      /\ UNCHANGED <<rows, ticket, tried>>
  <2>1. warned' \in (IF Completes(r, ok) THEN {warned} ELSE {warned, TRUE}) /\ warned \in BOOLEAN
    BY DEF EndSync, PreSyncTypeOK
  <2>2. warned' \in BOOLEAN
    BY <2>1
  <2> QED BY <2>2 DEF EndSync
<1>2. Underway(r) /\ run[r] \in Working /\ run[r].failed \in BOOLEAN /\ run[r].alone \in BOOLEAN
  BY <1>1, RunShape, WorkingShape DEF Underway
<1>3. /\ run \in [Runs -> {NotBegun} \cup Working]
      /\ run'[r] = NotBegun /\ \A q \in Runs : q # r => run'[q] = run[q]
      /\ run' \in [Runs -> {NotBegun} \cup Working]
  BY <1>1 DEF PreSyncTypeOK
<1>4. Completes(r, ok) \in BOOLEAN
  BY <1>2 DEF Completes
<1>5. PreSyncTypeOK'
  BY <1>1, <1>2, <1>3, <1>4 DEF PreSyncTypeOK, Items
<1>6. ~Underway(r)' /\ ~run'[r].alone
  BY <1>3 DEF Underway, NotBegun
<1>7. RunsAlone'
  BY <1>3, <1>6 DEF RunsAlone, Underway
<1>8. ASSUME NEW q \in Runs, Underway(q)'
      PROVE  q # r /\ Underway(q) /\ ~run[r].alone /\ run'[q] = run[q]
  BY <1>3, <1>6, <1>8 DEF RunsAlone, Underway
<1>9. Distracted'
  <2> SUFFICES ASSUME NEW q \in Runs, Underway(q)', ~run'[q].alone PROVE muddled'
    BY DEF Distracted
  <2> QED BY <1>1, <1>8 DEF Distracted
<1>10. Progress'
  <2> SUFFICES ASSUME NEW q \in Runs, Underway(q)', run'[q].alone, ~run'[q].failed
               PROVE  Stored(run[q])'
    BY DEF Progress
  <2>1. q # r /\ run[q].alone /\ Underway(r)
    BY <1>2, <1>8
  <2> QED BY <2>1 DEF RunsAlone
<1>11. CompleteIsCached'
  <2> SUFFICES ASSUME complete', AllIdle', ~muddled' PROVE Cached'
    BY DEF CompleteIsCached
  <2>1. ok /\ ~run[r].failed
    BY <1>1 DEF Completes
  <2>2. run[r].alone
    BY <1>1, <1>2 DEF Distracted
  <2>3. Stored(run[r])
    BY <1>2, <2>1, <2>2 DEF Progress
  <2>4. /\ rows["graph"] = Rows /\ rows["exits"] = Rows /\ ticket = "keyed"
        /\ "key" \in stored /\ "audio" \in stored
    BY <1>1, <2>3 DEF Stored
  <2>5. stored' = Items
    BY <1>1, <1>5, <2>1, <2>4 DEF PreSyncTypeOK, Items
  <2> QED BY <1>1, <2>4, <2>5 DEF Cached, Tables
<1>12. IncompleteIsRetried'
  BY <1>1 DEF IncompleteIsRetried
<1> QED BY <1>5, <1>7, <1>9, <1>10, <1>11, <1>12
-----------------------------------------------------------------------------
(* The steps of a call. *)

LEMMA DownloadKeepsInv ==
    ASSUME PreSyncInv, NEW r \in Runs, Downloaded(r)
    PROVE  PreSyncInv'
<1> USE DEF PreSyncInv
<1>0. /\ rows \in [Tables -> SUBSET Rows] /\ ticket \in {"none", "bare", "keyed"}
      /\ stored \subseteq Items /\ run[r].phase = "get"
  BY DEF PreSyncTypeOK, Downloaded
<1>1. Underway(r) /\ run[r] \in Working /\ run[r].failed \in BOOLEAN
  BY <1>0, RunShape, WorkingShape DEF NotBegun
<1>2. Underway(r) /\ run[r].alone /\ ~run[r].failed => Stored(run[r])
  BY DEF Progress
<1>3. CASE run[r].step \in Tables /\ Await(r, "delete", Rows) /\ UNCHANGED <<rows, ticket, stored>>
  <2>1. PICK w \in Working : /\ Moves(r, w) /\ w.step = run[r].step /\ w.phase = "delete"
                             /\ w.todo = Rows /\ w.failed = run[r].failed
    BY <1>1, <1>3, AwaitMoves DEF Phases, Awaits
  <2>2. (~w.failed /\ w.alone) => ~run[r].failed /\ Stored(w)'
    BY <1>1, <1>2, <1>3, <2>1 DEF Stored, Moves, Tables
  <2> QED BY <1>0, <1>3, <2>1, <2>2, MoveKeepsInv
<1>4. CASE run[r].step = "ticket" /\ Await(r, "save", {}) /\ UNCHANGED <<rows, ticket, stored>>
  <2>1. PICK w \in Working : /\ Moves(r, w) /\ w.step = run[r].step /\ w.phase = "save"
                             /\ w.todo = {} /\ w.failed = run[r].failed
    BY <1>1, <1>4, AwaitMoves DEF Phases, Awaits
  <2>2. (~w.failed /\ w.alone) => ~run[r].failed /\ Stored(w)'
    BY <1>1, <1>2, <1>4, <2>1 DEF Stored, Moves, Tables
  <2> QED BY <1>0, <1>4, <2>1, <2>2, MoveKeepsInv
<1>5. CASE /\ run[r].step = "key" /\ stored' = stored \cup {"key"}
           /\ Await(r, "save", {}) /\ UNCHANGED <<rows, ticket>>
  <2>1. PICK w \in Working : /\ Moves(r, w) /\ w.step = run[r].step /\ w.phase = "save"
                             /\ w.todo = {} /\ w.failed = run[r].failed
    BY <1>1, <1>5, AwaitMoves DEF Phases, Awaits
  <2>2. (~w.failed /\ w.alone) => ~run[r].failed /\ Stored(w)'
    BY <1>1, <1>2, <1>5, <2>1 DEF Stored, Moves, Tables
  <2>3. stored' \subseteq Items
    BY <1>0, <1>5 DEF Items
  <2> QED BY <1>0, <1>5, <2>1, <2>2, <2>3, MoveKeepsInv
<1>6. CASE /\ run[r].step = "audio" /\ stored' = stored \cup {"audio"}
           /\ Advance(r, TRUE) /\ UNCHANGED <<rows, ticket>>
  <2>1. PICK w \in Working : /\ Moves(r, w) /\ w.step = After[run[r].step] /\ w.phase = "get"
                             /\ w.failed = (run[r].failed \/ ~TRUE)
    BY <1>1, <1>6, AdvanceMoves
  <2>2. w.step = "rewards" /\ w.failed = run[r].failed
    BY <1>1, <1>6, <2>1 DEF After
  <2>3. (~w.failed /\ w.alone) => ~run[r].failed /\ Stored(w)'
    BY <1>1, <1>2, <1>6, <2>1, <2>2 DEF Stored, Moves, Tables
  <2>4. stored' \subseteq Items
    BY <1>0, <1>6 DEF Items
  <2> QED BY <1>0, <1>6, <2>1, <2>3, <2>4, MoveKeepsInv
<1>7. CASE EndSync(r, TRUE)
  BY <1>7, FinishKeepsInv
<1> QED BY <1>3, <1>4, <1>5, <1>6, <1>7 DEF Downloaded

LEMMA StatementKeepsInv ==
    ASSUME PreSyncInv, NEW r \in Runs, DeleteRows(r) \/ InsertRow(r) \/ SaveTicket(r) \/ SaveKey(r)
    PROVE  PreSyncInv'
<1> USE DEF PreSyncInv
<1>0. /\ rows \in [Tables -> SUBSET Rows] /\ ticket \in {"none", "bare", "keyed"}
      /\ stored \subseteq Items
  BY DEF PreSyncTypeOK
<1>1. Underway(r) /\ run[r] \in Working /\ run[r].failed \in BOOLEAN
      /\ run[r].todo \in SUBSET Rows /\ Awaits(run[r].step, run[r].phase)
  <2>1. run[r].phase \in {"delete", "insert", "save"}
    BY DEF DeleteRows, InsertRow, SaveTicket, SaveKey
  <2>2. Underway(r)
    BY <2>1, RunShape DEF NotBegun
  <2>3. run[r] \in Working
    BY <2>2, RunShape
  <2> QED BY <2>2, <2>3, WorkingShape
<1>2. Underway(r) /\ run[r].alone /\ ~run[r].failed => Stored(run[r])
  BY DEF Progress
<1>3. CASE DeleteRows(r)
  <2>1. /\ run[r].phase = "delete" /\ Await(r, "insert", run[r].todo)
        /\ rows' = [rows EXCEPT ![run[r].step] = {}] /\ UNCHANGED <<ticket, stored>>
    BY <1>3 DEF DeleteRows
  <2>2. run[r].step \in Tables
    BY <1>1, <2>1 DEF Awaits
  <2>3. PICK w \in Working : /\ Moves(r, w) /\ w.step = run[r].step /\ w.phase = "insert"
                             /\ w.todo = run[r].todo /\ w.failed = run[r].failed
    BY <1>1, <2>1, <2>2, AwaitMoves DEF Phases, Awaits
  <2>4. /\ rows' \in [Tables -> SUBSET Rows] /\ rows'[run[r].step] = {}
        /\ \A t \in Tables : t # run[r].step => rows'[t] = rows[t]
    BY <1>0, <2>1, <2>2
  <2>5. (~w.failed /\ w.alone) => ~run[r].failed /\ Stored(w)'
    BY <1>1, <1>2, <2>1, <2>2, <2>3, <2>4 DEF Stored, Moves, Tables
  <2> QED BY <1>0, <2>1, <2>3, <2>4, <2>5, MoveKeepsInv
<1>4. CASE InsertRow(r)
  <2>1. run[r].phase = "insert" /\ UNCHANGED <<ticket, stored>>
    BY <1>4 DEF InsertRow
  <2>2. run[r].step \in Tables
    BY <1>1, <2>1 DEF Awaits
  <2>3. PICK row \in run[r].todo :
          \/ /\ row \in rows[run[r].step] /\ Advance(r, FALSE) /\ UNCHANGED rows
          \/ /\ row \notin rows[run[r].step]
             /\ rows' = [rows EXCEPT ![run[r].step] = @ \cup {row}]
             /\ \/ run[r].todo = {row} /\ Advance(r, TRUE)
                \/ run[r].todo # {row} /\ Await(r, "insert", run[r].todo \ {row})
    BY <1>4 DEF InsertRow
  <2>4. CASE Advance(r, FALSE) /\ UNCHANGED rows
    <3>1. PICK w \in Working : Moves(r, w) /\ w.failed = (run[r].failed \/ ~FALSE)
      BY <1>1, <2>4, AdvanceMoves
    <3>2. w.failed
      BY <3>1
    <3> QED BY <1>0, <2>1, <2>4, <3>1, <3>2, MoveKeepsInv
  <2>5. CASE /\ rows' = [rows EXCEPT ![run[r].step] = @ \cup {row}]
             /\ run[r].todo = {row} /\ Advance(r, TRUE)
    <3>1. PICK w \in Working : /\ Moves(r, w) /\ w.step = After[run[r].step] /\ w.phase = "get"
                               /\ w.failed = (run[r].failed \/ ~TRUE)
      BY <1>1, <2>5, AdvanceMoves
    <3>2. /\ w.step = (IF run[r].step = "graph" THEN "ticket" ELSE "key")
          /\ w.failed = run[r].failed
      BY <1>1, <2>2, <3>1 DEF After, Tables
    <3>3. /\ rows' \in [Tables -> SUBSET Rows] /\ rows'[run[r].step] = rows[run[r].step] \cup {row}
          /\ \A t \in Tables : t # run[r].step => rows'[t] = rows[t]
      BY <1>0, <1>1, <2>2, <2>5
    <3>4. (~w.failed /\ w.alone) => ~run[r].failed /\ Stored(w)'
      <4> SUFFICES ASSUME ~w.failed, w.alone PROVE ~run[r].failed /\ Stored(w)'
        OBVIOUS
      <4>1. ~run[r].failed /\ Stored(run[r])
        BY <1>1, <1>2, <3>1, <3>2 DEF Moves
      <4>2. rows'[run[r].step] = Rows
        BY <1>1, <2>1, <2>2, <2>5, <3>3, <4>1 DEF Stored
      <4> QED BY <2>1, <2>2, <3>1, <3>2, <3>3, <4>1, <4>2 DEF Stored, Tables
    <3> QED BY <1>0, <2>1, <3>1, <3>3, <3>4, MoveKeepsInv
  <2>6. CASE /\ rows' = [rows EXCEPT ![run[r].step] = @ \cup {row}]
             /\ row \notin rows[run[r].step] /\ Await(r, "insert", run[r].todo \ {row})
    <3>1. PICK w \in Working : /\ Moves(r, w) /\ w.step = run[r].step /\ w.phase = "insert"
                               /\ w.todo = run[r].todo \ {row} /\ w.failed = run[r].failed
      BY <1>1, <2>2, <2>6, AwaitMoves DEF Phases, Awaits
    <3>2. /\ rows' \in [Tables -> SUBSET Rows] /\ rows'[run[r].step] = rows[run[r].step] \cup {row}
          /\ \A t \in Tables : t # run[r].step => rows'[t] = rows[t]
      BY <1>0, <1>1, <2>2, <2>6
    <3>3. (~w.failed /\ w.alone) => ~run[r].failed /\ Stored(w)'
      <4> SUFFICES ASSUME ~w.failed, w.alone PROVE ~run[r].failed /\ Stored(w)'
        OBVIOUS
      <4>1. ~run[r].failed /\ Stored(run[r])
        BY <1>1, <1>2, <3>1 DEF Moves
      <4>2. rows'[run[r].step] = Rows \ w.todo
        BY <1>1, <2>1, <2>2, <3>1, <3>2, <4>1 DEF Stored
      <4> QED BY <2>1, <2>2, <3>1, <3>2, <4>1, <4>2 DEF Stored, Tables
    <3> QED BY <1>0, <2>1, <3>1, <3>2, <3>3, MoveKeepsInv
  <2> QED BY <2>3, <2>4, <2>5, <2>6
<1>5. CASE SaveTicket(r)
  <2>1. /\ run[r].step = "ticket" /\ Advance(r, TRUE) /\ ticket' = "bare"
        /\ UNCHANGED <<rows, stored>>
    BY <1>5 DEF SaveTicket
  <2>2. PICK w \in Working : /\ Moves(r, w) /\ w.step = After[run[r].step] /\ w.phase = "get"
                             /\ w.failed = (run[r].failed \/ ~TRUE)
    BY <1>1, <2>1, AdvanceMoves
  <2>3. w.step = "exits" /\ w.failed = run[r].failed
    BY <1>1, <2>1, <2>2 DEF After
  <2>4. (~w.failed /\ w.alone) => ~run[r].failed /\ Stored(w)'
    BY <1>1, <1>2, <2>1, <2>2, <2>3 DEF Stored, Moves, Tables
  <2> QED BY <1>0, <2>1, <2>2, <2>4, MoveKeepsInv
<1>6. CASE SaveKey(r)
  <2>1. /\ run[r].step = "key" /\ run[r].phase = "save" /\ Advance(r, TRUE)
        /\ ticket' = (IF ticket = "none" THEN "none" ELSE "keyed")
        /\ UNCHANGED <<rows, stored>>
    BY <1>6 DEF SaveKey
  <2>2. PICK w \in Working : /\ Moves(r, w) /\ w.step = After[run[r].step] /\ w.phase = "get"
                             /\ w.failed = (run[r].failed \/ ~TRUE)
    BY <1>1, <2>1, AdvanceMoves
  <2>3. w.step = "audio" /\ w.failed = run[r].failed
    BY <1>1, <2>1, <2>2 DEF After
  <2>4. (~w.failed /\ w.alone) => ~run[r].failed /\ Stored(w)'
    BY <1>1, <1>2, <2>1, <2>2, <2>3 DEF Stored, Moves, Tables
  <2> QED BY <1>0, <2>1, <2>2, <2>4, MoveKeepsInv
<1> QED BY <1>3, <1>4, <1>5, <1>6

LEMMA FailureKeepsInv ==
    ASSUME PreSyncInv, NEW r \in Runs, Fails(r)
    PROVE  PreSyncInv'
<1>1. CASE EndSync(r, FALSE)
  BY <1>1, FinishKeepsInv
<1>2. CASE Advance(r, FALSE) /\ UNCHANGED <<rows, ticket, stored>>
  <2>1. PreSyncTypeOK /\ Underway(r)
    BY DEF PreSyncInv, Fails
  <2>2. PICK w \in Working : Moves(r, w) /\ w.failed = (run[r].failed \/ ~FALSE)
    BY <1>2, <2>1, AdvanceMoves
  <2>3. w.failed
    BY <2>2
  <2>4. /\ rows' \in [Tables -> SUBSET Rows] /\ ticket' \in {"none", "bare", "keyed"}
        /\ stored' \subseteq Items
    BY <1>2, <2>1 DEF PreSyncTypeOK
  <2> QED BY <2>2, <2>3, <2>4, MoveKeepsInv
<1> QED BY <1>1, <1>2 DEF Fails
-----------------------------------------------------------------------------
(* Calls begin, timers fire, the app is killed. *)

LEMMA StartKeepsInv ==
    ASSUME PreSyncInv, NEW r \in Runs, Start(r), timer' \in BOOLEAN
    PROVE  PreSyncInv'
<1> USE DEF PreSyncInv
<1> DEFINE first == [step |-> "graph", phase |-> "get", todo |-> {},
                     failed |-> FALSE, alone |-> AllIdle]
<1>1. /\ ~Underway(r)
      /\ run' = [q \in Runs |-> IF q = r THEN first
                                ELSE IF Underway(q) THEN [run[q] EXCEPT !.alone = FALSE] ELSE run[q]]
      /\ muddled' = (muddled \/ ~AllIdle) /\ tried' = TRUE
      /\ UNCHANGED <<rows, ticket, stored, complete, warned>>
  BY DEF Start, device
<1>2. first \in Working /\ first.step = "graph" /\ first.phase = "get" /\ first.alone = AllIdle
  <2>1. AllIdle \in BOOLEAN
    BY DEF AllIdle
  <2> QED BY <2>1 DEF Working, Steps, Phases, Awaits
<1> HIDE DEF first
<1>3. ASSUME NEW q \in Runs, q # r, Underway(q)
      PROVE  run'[q] \in Working /\ ~run'[q].alone
  <2>1. run[q] \in Working /\ run'[q] = [run[q] EXCEPT !.alone = FALSE]
    BY <1>1, <1>3, RunShape
  <2> QED BY <2>1 DEF Working
<1>4. ASSUME NEW q \in Runs, q # r, ~Underway(q)
      PROVE  run'[q] = NotBegun /\ ~Underway(q)' /\ ~run'[q].alone
  BY <1>1, <1>4, RunShape DEF Underway, NotBegun
<1>5. run'[r] = first /\ Underway(r)'
  BY <1>1, <1>2 DEF Underway
<1>6. PreSyncTypeOK'
  <2>1. run' \in [Runs -> {NotBegun} \cup Working]
    BY <1>1, <1>2, <1>3, <1>4, <1>5
  <2>2. muddled' \in BOOLEAN /\ tried' \in BOOLEAN
    BY <1>1 DEF PreSyncTypeOK, AllIdle
  <2> QED BY <1>1, <2>1, <2>2 DEF PreSyncTypeOK
<1>7. RunsAlone'
  <2> SUFFICES ASSUME NEW p \in Runs, NEW q \in Runs, run'[q].alone, Underway(p)' PROVE p = q
    BY DEF RunsAlone
  <2>1. q = r
    BY <1>3, <1>4
  <2>2. AllIdle
    BY <1>2, <1>5, <2>1
  <2> QED BY <1>4, <2>1, <2>2 DEF AllIdle
<1>8. Distracted'
  <2> SUFFICES ASSUME NEW q \in Runs, Underway(q)', ~run'[q].alone PROVE muddled'
    BY DEF Distracted
  <2>1. CASE q = r
    BY <1>1, <1>2, <1>5, <2>1
  <2>2. CASE q # r
    BY <1>1, <1>4, <2>2 DEF AllIdle
  <2> QED BY <2>1, <2>2
<1>9. Progress'
  <2> SUFFICES ASSUME NEW q \in Runs, Underway(q)', run'[q].alone PROVE Stored(run[q])'
    BY DEF Progress
  <2>1. run'[q] = first
    BY <1>3, <1>4, <1>5
  <2> QED BY <1>2, <2>1 DEF Stored, Tables
<1>10. CompleteIsCached' /\ IncompleteIsRetried'
  BY <1>5 DEF CompleteIsCached, IncompleteIsRetried, AllIdle
<1> QED BY <1>6, <1>7, <1>8, <1>9, <1>10

LEMMA StopKeepsInv ==
    ASSUME PreSyncInv, CancelSyncRetry \/ Killed
    PROVE  PreSyncInv'
<1> USE DEF PreSyncInv, device
<1>1. CASE CancelSyncRetry
  <2>1. /\ timer' = FALSE /\ tried' = FALSE
        /\ UNCHANGED <<run, rows, ticket, stored, complete, warned, muddled>>
    BY <1>1 DEF CancelSyncRetry
  <2> QED BY <2>1 DEF PreSyncTypeOK, RunsAlone, Distracted, Progress, Stored, CompleteIsCached,
                      Cached, AllIdle, Underway, IncompleteIsRetried
<1>2. CASE Killed
  <2>1. /\ run' = [q \in Runs |-> NotBegun] /\ timer' = FALSE /\ tried' = FALSE
        /\ muddled' = (muddled \/ ~AllIdle)
        /\ UNCHANGED <<rows, ticket, stored, complete, warned>>
    BY <1>2 DEF Killed
  <2>2. \A q \in Runs : ~Underway(q)' /\ ~run'[q].alone
    BY <2>1 DEF Underway, NotBegun
  <2>3. PreSyncTypeOK'
    BY <2>1 DEF PreSyncTypeOK, AllIdle
  <2>4. CompleteIsCached'
    BY <2>1 DEF CompleteIsCached, Cached
  <2>5. RunsAlone' /\ Distracted' /\ Progress' /\ IncompleteIsRetried'
    BY <2>1, <2>2 DEF RunsAlone, Distracted, Progress, IncompleteIsRetried
  <2> QED BY <2>3, <2>4, <2>5
<1> QED BY <1>1, <1>2

LEMMA PreSyncInvHolds == PreSyncSpec => []PreSyncInv
<1>1. PreSyncInit => PreSyncInv
  <2> SUFFICES ASSUME PreSyncInit PROVE PreSyncInv
    OBVIOUS
  <2>1. PreSyncTypeOK
    BY DEF PreSyncInit, PreSyncTypeOK
  <2>2. \A r \in Runs : ~Underway(r) /\ ~run[r].alone
    BY DEF PreSyncInit, Underway, NotBegun
  <2>3. ~complete /\ ~tried
    BY DEF PreSyncInit
  <2> QED BY <2>1, <2>2, <2>3 DEF PreSyncInv, RunsAlone, Distracted, Progress,
                                  CompleteIsCached, IncompleteIsRetried
<1>2. PreSyncInv /\ [PreSyncNext]_preSyncVars => PreSyncInv'
  <2> SUFFICES ASSUME PreSyncInv, [PreSyncNext]_preSyncVars PROVE PreSyncInv'
    OBVIOUS
  <2>0. timer \in BOOLEAN
    BY DEF PreSyncInv, PreSyncTypeOK
  <2>1. ASSUME NEW r \in Runs, Call(r) PROVE PreSyncInv'
    BY <2>0, <2>1, StartKeepsInv DEF Call
  <2>2. ASSUME NEW r \in Runs, Proceeds(r) PROVE PreSyncInv'
    BY <2>2, DownloadKeepsInv, StatementKeepsInv DEF Proceeds
  <2>3. ASSUME NEW r \in Runs, Fails(r) PROVE PreSyncInv'
    BY <2>3, FailureKeepsInv
  <2>4. CASE TimerFires
    <3>1. CASE \E r \in Runs : Start(r)
      BY <2>4, <3>1, StartKeepsInv DEF TimerFires
    <3>2. CASE complete /\ UNCHANGED <<run, device, tried, muddled>>
      <4>1. /\ timer' = FALSE /\ complete
            /\ UNCHANGED <<run, rows, ticket, stored, complete, warned, tried, muddled>>
        BY <2>4, <3>2 DEF TimerFires, device
      <4> QED BY <4>1 DEF PreSyncInv, PreSyncTypeOK, RunsAlone, Distracted, Progress, Stored,
                          CompleteIsCached, Cached, AllIdle, Underway, IncompleteIsRetried
    <3> QED BY <2>4, <3>1, <3>2 DEF TimerFires
  <2>5. CASE CancelSyncRetry \/ Killed
    BY <2>5, StopKeepsInv
  <2>6. CASE UNCHANGED preSyncVars
    BY <2>6 DEF preSyncVars, PreSyncInv, PreSyncTypeOK, RunsAlone, Distracted, Progress, Stored,
                CompleteIsCached, Cached, AllIdle, Underway, IncompleteIsRetried
  <2> QED BY <2>1, <2>2, <2>3, <2>4, <2>5, <2>6 DEF PreSyncNext
<1> QED BY <1>1, <1>2, PTL DEF PreSyncSpec

\* Calls, tables and flags keep their types.
THEOREM SyncTypesCorrect == PreSyncSpec => []PreSyncTypeOK
BY PreSyncInvHolds, PTL DEF PreSyncInv

\* Between calls, "complete" means that everything is on the device, unless
\* calls overlapped or one was killed and none ran alone since.
THEOREM CompleteMeansCached == PreSyncSpec => []CompleteIsCached
BY PreSyncInvHolds, PTL DEF PreSyncInv

\* An incomplete sync always has a call under way or a retry ahead, for any
\* number of overlapping calls.
THEOREM RetryIsNeverForgotten == PreSyncSpec => []IncompleteIsRetried
BY PreSyncInvHolds, PTL DEF PreSyncInv
=============================================================================
