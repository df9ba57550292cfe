------------------------ MODULE AlertDeliveryProofs ------------------------
(***************************************************************************)
(* The invariants of the two fallbacks for any notices, payloads and any   *)
(* finite number of runs of the receiver.                                  *)
(*                                                                         *)
(* AckedIsNotSent needs three facts the Map does not state itself: timers  *)
(* that run together are recorded as crowded, a timer that runs alone has  *)
(* the attendee's entry, and so an acknowledgement has cleared it.         *)
(* RepeatsOverlapped needs that what is surfaced, or about to be, is in    *)
(* the table of seen payloads: then a run that passes the check does so    *)
(* before the first notification, and is counted with the runs it overlaps.*)
(***************************************************************************)
EXTENDS AlertDelivery, FiniteSetTheorems, TLAPS

TimersTogether == \A m, n \in Notices : m \in Armed /\ n \in Armed /\ m # n => m \in crowded
AloneHasEntry == \A n \in Notices : n \in Armed /\ n \notin crowded => pending = n
AckedIsCleared == \A n \in Notices : n \in acked /\ n \notin crowded => sms[n] = "cleared"
ShownIsSeen == \A p \in Payloads : shown[p] > 0 => p \in seen
AboutToShowIsSeen == \A r \in Receipts : run[r].at = "show" => run[r].of \in seen

DispatcherInv == TimersTogether /\ AloneHasEntry /\ AckedIsCleared
ReceiverInv == ShownIsSeen /\ AboutToShowIsSeen /\ RepeatsOverlapped /\ SilentOnlyIfLost
IInv == TypeOK /\ DispatcherInv /\ ReceiverInv

Working == [at : {"check", "lookup", "mark", "show"}, of : Payloads, hit : BOOLEAN]

\* A run is idle or works on a payload.
LEMMA RunShape ==
    ASSUME TypeOK, NEW r \in Receipts, run[r].at # "idle"
    PROVE  run[r] \in Working
BY DEF TypeOK, RunStates, Working, Idle

LEMMA IdleShape == Idle \in RunStates /\ Idle.at = "idle" /\ \A p \in Payloads : Idle.of # p
BY AlertAssumption DEF Idle, RunStates

LEMMA PastIsFinite ==
    ASSUME NEW p
    PROVE  /\ IsFiniteSet(Past(p)) /\ Cardinality(Past(p)) \in Nat
           /\ Cardinality(Receipts) \in Nat
           /\ Cardinality(Past(p)) <= Cardinality(Receipts)
<1>1. Past(p) \subseteq Receipts /\ IsFiniteSet(Receipts)
  BY AlertAssumption DEF Past
<1> QED BY <1>1, FS_Subset, FS_CardinalityType

-----------------------------------------------------------------------------
(* The dispatcher. *)

LEMMA DispatcherKeepsTypes ==
    ASSUME TypeOK, Dispatcher
    PROVE  TypeOK'
<1> USE DEF TypeOK, dispatcherVars, receiverVars
<1>1. Armed \subseteq Notices
  BY DEF Armed
<1>2. ASSUME NEW n \in Notices, Dispatch(n) PROVE TypeOK'
  BY <1>2 DEF Dispatch, SmsStates
<1>3. ASSUME NEW n \in Notices, Published(n) PROVE TypeOK'
  <2>1. CASE ShouldScheduleSMSFallback(SelectChannels(kind[n]))
    BY <1>1, <1>3, <2>1 DEF Published, SmsStates
  <2>2. CASE ~ShouldScheduleSMSFallback(SelectChannels(kind[n]))
    BY <1>3, <2>2 DEF Published, SmsStates
  <2> QED BY <2>1, <2>2
<1>4. ASSUME NEW n \in Notices, PublishFails(n) PROVE TypeOK'
  BY <1>4 DEF PublishFails, SmsStates
<1>5. ASSUME NEW n \in Notices, Fires(n) PROVE TypeOK'
  BY <1>5 DEF Fires, SmsStates
<1>6. CASE Acknowledge
  <2>1. CASE pending # None
    BY <1>1, <1>6, <2>1 DEF Acknowledge, SmsStates
  <2>2. CASE pending = None
    BY <1>1, <1>6, <2>2 DEF Acknowledge, SmsStates
  <2> QED BY <2>1, <2>2
<1> QED BY <1>2, <1>3, <1>4, <1>5, <1>6 DEF Dispatcher

LEMMA DispatcherKeepsInv ==
    ASSUME TypeOK, DispatcherInv, Dispatcher
    PROVE  DispatcherInv'
<1> USE DEF DispatcherInv, TimersTogether, AloneHasEntry, AckedIsCleared, Armed
<1>0. sms \in [Notices -> SmsStates] /\ pending \in Notices \cup {None} /\ None \notin Notices
  BY AlertAssumption DEF TypeOK
<1>2. ASSUME NEW n \in Notices, Dispatch(n) PROVE DispatcherInv'
  <2>1. /\ sms[n] = "new" /\ sms' = [sms EXCEPT ![n] = "publishing"]
        /\ UNCHANGED <<pending, acked, crowded>>
    BY <1>2 DEF Dispatch
  <2> QED BY <1>0, <2>1
<1>3. ASSUME NEW n \in Notices, Published(n) PROVE DispatcherInv'
  <2>1. CASE ShouldScheduleSMSFallback(SelectChannels(kind[n]))
    <3>1. /\ sms[n] = "publishing" /\ sms' = [sms EXCEPT ![n] = "armed"]
          /\ pending' = n /\ acked' = acked
          /\ crowded' = IF Armed = {} THEN crowded ELSE crowded \cup Armed \cup {n}
      BY <1>3, <2>1 DEF Published
    <3>2. CASE Armed = {}
      <4>1. crowded' = crowded
        BY <3>1, <3>2
      <4> QED BY <1>0, <3>1, <3>2, <4>1
    <3>3. CASE Armed # {}
      <4>1. crowded' = crowded \cup Armed \cup {n}
        BY <3>1, <3>3
      <4> QED BY <1>0, <3>1, <4>1
    <3> QED BY <3>2, <3>3
  <2>2. CASE ~ShouldScheduleSMSFallback(SelectChannels(kind[n]))
    <3>1. /\ sms[n] = "publishing" /\ sms' = [sms EXCEPT ![n] = "live"]
          /\ UNCHANGED <<pending, acked, crowded>>
      BY <1>3, <2>2 DEF Published
    <3> QED BY <1>0, <3>1
  <2> QED BY <2>1, <2>2
<1>4. ASSUME NEW n \in Notices, PublishFails(n) PROVE DispatcherInv'
  <2>1. /\ sms[n] = "publishing" /\ sms' = [sms EXCEPT ![n] = "failed"]
        /\ UNCHANGED <<pending, acked, crowded>>
    BY <1>4 DEF PublishFails
  <2> QED BY <1>0, <2>1
<1>5. ASSUME NEW n \in Notices, Fires(n) PROVE DispatcherInv'
  <2>1. /\ sms[n] = "armed" /\ sms' = [sms EXCEPT ![n] = "sent"]
        /\ pending' = None /\ UNCHANGED <<acked, crowded>>
    BY <1>5 DEF Fires
  <2> QED BY <1>0, <2>1
<1>6. CASE Acknowledge
  <2>1. acked' = acked \cup Armed /\ crowded' = crowded
    BY <1>6 DEF Acknowledge
  <2>2. CASE pending # None
    <3>1. sms' = [sms EXCEPT ![pending] = "cleared"] /\ pending' = None
      BY <1>6, <2>2 DEF Acknowledge
    <3> QED BY <1>0, <2>1, <2>2, <3>1
  <2>3. CASE pending = None
    <3>1. UNCHANGED <<sms, pending>>
      BY <1>6, <2>3 DEF Acknowledge
    <3> QED BY <1>0, <2>1, <2>3, <3>1
  <2> QED BY <2>2, <2>3
<1> QED BY <1>2, <1>3, <1>4, <1>5, <1>6 DEF Dispatcher
-----------------------------------------------------------------------------
(* The receiver. *)

\* What a step may do to a payload's runs and notifications: a run joins
\* before the mark, runs leave, or one run leaves to be counted in shown.
Joins(r) ==
    /\ \A p \in Payloads : Past(p)' \subseteq Past(p) \cup (IF p = run[r].of THEN {r} ELSE {})
    /\ run[r].of \notin seen
    /\ UNCHANGED shown
Leaves == (\A p \in Payloads : Past(p)' \subseteq Past(p)) /\ UNCHANGED shown
Counted(r) ==
    /\ r \in Past(run[r].of)
    /\ \A p \in Payloads : Past(p)' \subseteq Past(p) \ (IF p = run[r].of THEN {r} ELSE {})
    /\ shown' = [shown EXCEPT ![run[r].of] = @ + 1]

LEMMA JoinsKeepsBound ==
    ASSUME TypeOK, ShownIsSeen, NEW r \in Receipts, Joins(r), RepeatsOverlapped
    PROVE  RepeatsOverlapped'
<1> SUFFICES ASSUME NEW p \in Payloads
             PROVE  shown[p] + Cardinality(Past(p)') <= Cardinality(Receipts)
  BY DEF RepeatsOverlapped, Joins
<1>0. Past(p)' \subseteq Receipts /\ shown[p] \in Nat
  BY DEF Past, TypeOK
<1>1. CASE p = run[r].of
  <2>1. shown[p] = 0
    BY <1>0, <1>1 DEF Joins, ShownIsSeen
  <2>2. Cardinality(Past(p)') <= Cardinality(Receipts) /\ Cardinality(Past(p)') \in Nat
    BY <1>0, AlertAssumption, FS_Subset, FS_CardinalityType
  <2> QED BY <2>1, <2>2
<1>2. CASE p # run[r].of
  <2>1. Past(p)' \subseteq Past(p)
    BY <1>2 DEF Joins
  <2>2. Cardinality(Past(p)') <= Cardinality(Past(p)) /\ Cardinality(Past(p)') \in Nat
    BY <2>1, PastIsFinite, FS_Subset, FS_CardinalityType
  <2> QED BY <1>0, <2>2, PastIsFinite DEF RepeatsOverlapped
<1> QED BY <1>1, <1>2

LEMMA LeavesKeepsBound ==
    ASSUME TypeOK, Leaves, RepeatsOverlapped
    PROVE  RepeatsOverlapped'
<1> SUFFICES ASSUME NEW p \in Payloads
             PROVE  shown[p] + Cardinality(Past(p)') <= Cardinality(Receipts)
  BY DEF RepeatsOverlapped, Leaves
<1>1. Cardinality(Past(p)') <= Cardinality(Past(p)) /\ Cardinality(Past(p)') \in Nat
  BY PastIsFinite, FS_Subset, FS_CardinalityType DEF Leaves
<1> QED BY <1>1, PastIsFinite DEF RepeatsOverlapped, TypeOK

LEMMA CountedKeepsBound ==
    ASSUME TypeOK, NEW r \in Receipts, run[r].of \in Payloads, Counted(r), RepeatsOverlapped
    PROVE  RepeatsOverlapped'
<1> SUFFICES ASSUME NEW p \in Payloads
             PROVE  shown'[p] + Cardinality(Past(p)') <= Cardinality(Receipts)
  BY DEF RepeatsOverlapped
<1>0. shown[p] \in Nat
  BY DEF TypeOK
<1>1. CASE p = run[r].of
  <2>1. shown'[p] = shown[p] + 1
    BY <1>1 DEF Counted, TypeOK
  <2>2. /\ Past(p)' \subseteq Past(p) \ {r} /\ r \in Past(p)
    BY <1>1 DEF Counted
  <2>3. /\ IsFiniteSet(Past(p) \ {r})
        /\ Cardinality(Past(p) \ {r}) = Cardinality(Past(p)) - 1
    BY <2>2, PastIsFinite, FS_RemoveElement
  <2>4. Cardinality(Past(p)') <= Cardinality(Past(p) \ {r}) /\ Cardinality(Past(p)') \in Nat
    BY <2>2, <2>3, FS_Subset, FS_CardinalityType
  <2> QED BY <1>0, <2>1, <2>3, <2>4, PastIsFinite DEF RepeatsOverlapped
<1>2. CASE p # run[r].of
  <2>1. shown'[p] = shown[p] /\ Past(p)' \subseteq Past(p)
    BY <1>2 DEF Counted, TypeOK
  <2>2. Cardinality(Past(p)') <= Cardinality(Past(p)) /\ Cardinality(Past(p)') \in Nat
    BY <2>1, PastIsFinite, FS_Subset, FS_CardinalityType
  <2> QED BY <1>0, <2>1, <2>2, PastIsFinite DEF RepeatsOverlapped
<1> QED BY <1>1, <1>2

\* A step of one run: the run takes the state q, the others stay.
LEMMA OneRun ==
    ASSUME TypeOK, NEW r \in Receipts, NEW q \in RunStates, run' = [run EXCEPT ![r] = q]
    PROVE  /\ run' \in [Receipts -> RunStates]
           /\ run'[r] = q
           /\ \A o \in Receipts : o # r => run'[o] = run[o]
           /\ \A p : Past(p)' = IF q.of = p /\ q.at \in {"lookup", "mark", "show"}
                                THEN Past(p) \cup {r} ELSE Past(p) \ {r}
BY DEF TypeOK, Past

LEMMA ReceiverKeepsInv ==
    ASSUME TypeOK, ReceiverInv, Receiver
    PROVE  TypeOK' /\ ReceiverInv'
<1> USE DEF ReceiverInv
<1>0. /\ run \in [Receipts -> RunStates] /\ seen \subseteq Payloads /\ cached \subseteq Payloads
      /\ shown \in [Payloads -> Nat] /\ lost \subseteq Payloads
  BY DEF TypeOK
<1>1. ASSUME NEW r \in Receipts, NEW p \in Payloads, Heard(r, p)
      PROVE  TypeOK' /\ ReceiverInv'
  <2> DEFINE q == [at |-> "check", of |-> p, hit |-> FALSE]
  <2>1. /\ run[r] = Idle /\ run' = [run EXCEPT ![r] = q]
        /\ UNCHANGED <<dispatcherVars, seen, cached, shown, lost>>
    BY <1>1 DEF Heard
  <2>2. q \in RunStates /\ q.at = "check" /\ q.of = p
    BY DEF RunStates
  <2> HIDE DEF q
  <2>3. /\ run' \in [Receipts -> RunStates] /\ run'[r] = q
        /\ \A o \in Receipts : o # r => run'[o] = run[o]
        /\ \A a : Past(a)' = Past(a) \ {r}
    BY <2>1, <2>2, OneRun
  <2>4. \A a : Past(a)' = Past(a)
    BY <2>1, <2>3, IdleShape DEF Past
  <2>5. TypeOK'
    BY <2>1, <2>3 DEF TypeOK, dispatcherVars
  <2>6. RepeatsOverlapped'
    BY <2>1, <2>4, LeavesKeepsBound DEF Leaves
  <2>7. SilentOnlyIfLost'
    BY <2>1, <2>2, <2>3, <2>4 DEF SilentOnlyIfLost, Past
  <2> QED BY <2>1, <2>2, <2>3, <2>5, <2>6, <2>7 DEF ShownIsSeen, AboutToShowIsSeen
<1>2. ASSUME NEW r \in Receipts, Check(r)
      PROVE  TypeOK' /\ ReceiverInv'
  <2>1. /\ run[r].at = "check"
        /\ UNCHANGED <<dispatcherVars, seen, cached, shown, lost>>
    BY <1>2 DEF Check
  <2>2. run[r] \in Working
    BY <2>1, RunShape
  <2>3. CASE run[r].of \in seen
    <3>1. run' = [run EXCEPT ![r] = Idle]
      BY <1>2, <2>3 DEF Check
    <3>2. /\ run' \in [Receipts -> RunStates] /\ run'[r] = Idle
          /\ \A o \in Receipts : o # r => run'[o] = run[o]
          /\ \A a : Past(a)' = Past(a) \ {r}
      BY <3>1, OneRun, IdleShape
    <3>3. \A a : Past(a)' = Past(a)
      BY <2>1, <3>2 DEF Past
    <3>4. TypeOK'
      BY <2>1, <3>2 DEF TypeOK, dispatcherVars
    <3>5. RepeatsOverlapped'
      BY <2>1, <3>3, LeavesKeepsBound DEF Leaves
    <3>6. SilentOnlyIfLost'
      BY <2>1, <3>2, <3>3, IdleShape DEF SilentOnlyIfLost, Past
    <3> QED BY <2>1, <3>2, <3>4, <3>5, <3>6, IdleShape DEF ShownIsSeen, AboutToShowIsSeen
  <2>4. CASE run[r].of \notin seen
    <3> DEFINE q == [run[r] EXCEPT !.at = "lookup"]
    <3>1. run' = [run EXCEPT ![r] = q]
      BY <1>0, <1>2, <2>4 DEF Check
    <3>2. q \in RunStates /\ q.at = "lookup" /\ q.of = run[r].of
      BY <2>2 DEF RunStates, Working
    <3> HIDE DEF q
    <3>3. /\ run' \in [Receipts -> RunStates] /\ run'[r] = q
          /\ \A o \in Receipts : o # r => run'[o] = run[o]
          /\ \A a : Past(a)' = IF run[r].of = a THEN Past(a) \cup {r} ELSE Past(a) \ {r}
      BY <3>1, <3>2, OneRun
    <3>4. TypeOK'
      BY <2>1, <3>3 DEF TypeOK, dispatcherVars
    <3>5. Joins(r)
      BY <2>1, <2>4, <3>3 DEF Joins
    <3>6. RepeatsOverlapped'
      BY <3>5, JoinsKeepsBound
    <3>7. SilentOnlyIfLost'
      BY <2>1, <2>4, <3>2, <3>3 DEF SilentOnlyIfLost, Past
    <3> QED BY <2>1, <3>2, <3>3, <3>4, <3>6, <3>7 DEF ShownIsSeen, AboutToShowIsSeen
  <2> QED BY <2>3, <2>4
<1>3. ASSUME NEW r \in Receipts, Lookup(r)
      PROVE  TypeOK' /\ ReceiverInv'
  <2> DEFINE q == [run[r] EXCEPT !.at = "mark", !.hit = run[r].of \in cached]
  <2>1. /\ run[r].at = "lookup" /\ run' = [run EXCEPT ![r] = q]
        /\ UNCHANGED <<dispatcherVars, seen, cached, shown, lost>>
    BY <1>0, <1>3 DEF Lookup
  <2>2. run[r] \in Working
    BY <2>1, RunShape
  <2>3. q \in RunStates /\ q.at = "mark" /\ q.of = run[r].of
    <3>1. (run[r].of \in cached) \in BOOLEAN
      OBVIOUS
    <3> QED BY <2>2, <3>1 DEF RunStates, Working
  <2> HIDE DEF q
  <2>4. /\ run' \in [Receipts -> RunStates] /\ run'[r] = q
        /\ \A o \in Receipts : o # r => run'[o] = run[o]
        /\ \A a : Past(a)' = IF run[r].of = a THEN Past(a) \cup {r} ELSE Past(a) \ {r}
    BY <2>1, <2>3, OneRun
  <2>5. \A a : Past(a)' = Past(a)
    BY <2>1, <2>4 DEF Past
  <2>6. TypeOK'
    BY <2>1, <2>4 DEF TypeOK, dispatcherVars
  <2>7. RepeatsOverlapped'
    BY <2>1, <2>5, LeavesKeepsBound DEF Leaves
  <2>8. SilentOnlyIfLost'
    BY <2>1, <2>3, <2>4, <2>5 DEF SilentOnlyIfLost, Past
  <2> QED BY <2>1, <2>3, <2>4, <2>6, <2>7, <2>8 DEF ShownIsSeen, AboutToShowIsSeen
<1>4. ASSUME NEW r \in Receipts, Mark(r)
      PROVE  TypeOK' /\ ReceiverInv'
  <2> DEFINE q == [run[r] EXCEPT !.at = "show"]
  <2>1. /\ run[r].at = "mark" /\ run' = [run EXCEPT ![r] = q]
        /\ seen' = seen \cup {run[r].of}
        /\ UNCHANGED <<dispatcherVars, cached, shown, lost>>
    BY <1>0, <1>4 DEF Mark
  <2>2. run[r] \in Working
    BY <2>1, RunShape
  <2>3. q \in RunStates /\ q.at = "show" /\ q.of = run[r].of /\ run[r].of \in Payloads
    BY <2>2 DEF RunStates, Working
  <2> HIDE DEF q
  <2>4. /\ run' \in [Receipts -> RunStates] /\ run'[r] = q
        /\ \A o \in Receipts : o # r => run'[o] = run[o]
        /\ \A a : Past(a)' = IF run[r].of = a THEN Past(a) \cup {r} ELSE Past(a) \ {r}
    BY <2>1, <2>3, OneRun
  <2>5. \A a : Past(a)' = Past(a)
    BY <2>1, <2>4 DEF Past
  <2>6. TypeOK'
    BY <2>1, <2>3, <2>4 DEF TypeOK, dispatcherVars
  <2>7. RepeatsOverlapped'
    BY <2>1, <2>5, LeavesKeepsBound DEF Leaves
  <2>8. SilentOnlyIfLost'
    BY <2>1, <2>3, <2>4, <2>5 DEF SilentOnlyIfLost, Past
  <2> QED BY <2>1, <2>3, <2>4, <2>6, <2>7, <2>8 DEF ShownIsSeen, AboutToShowIsSeen
<1>5. ASSUME NEW r \in Receipts, Show(r)
      PROVE  TypeOK' /\ ReceiverInv'
  <2>1. /\ run[r].at = "show" /\ run' = [run EXCEPT ![r] = Idle]
        /\ shown' = [shown EXCEPT ![run[r].of] = @ + 1]
        /\ UNCHANGED <<dispatcherVars, seen, cached, lost>>
    BY <1>5 DEF Show
  <2>2. run[r] \in Working /\ run[r].of \in Payloads
    BY <2>1, RunShape DEF Working
  <2>3. /\ run' \in [Receipts -> RunStates] /\ run'[r] = Idle
        /\ \A o \in Receipts : o # r => run'[o] = run[o]
        /\ \A a : Past(a)' = Past(a) \ {r}
    BY <2>1, OneRun, IdleShape
  <2>4. r \in Past(run[r].of) /\ \A a : a # run[r].of => r \notin Past(a)
    BY <2>1 DEF Past
  <2>5. shown' \in [Payloads -> Nat] /\ \A p \in Payloads : shown'[p] >= shown[p]
    BY <1>0, <2>1, <2>2
  <2>6. shown'[run[r].of] > 0
    BY <1>0, <2>1, <2>2
  <2>7. TypeOK'
    BY <2>1, <2>3, <2>5 DEF TypeOK, dispatcherVars
  <2>8. Counted(r)
    BY <2>1, <2>3, <2>4 DEF Counted
  <2>9. RepeatsOverlapped'
    BY <2>2, <2>8, CountedKeepsBound
  <2>10. \A p \in Payloads : p # run[r].of => shown'[p] = shown[p]
    BY <1>0, <2>1
  <2>11. ShownIsSeen'
    BY <2>1, <2>10 DEF ShownIsSeen, AboutToShowIsSeen
  <2>12. SilentOnlyIfLost'
    <3> SUFFICES ASSUME NEW p \in seen
                 PROVE  shown'[p] > 0 \/ p \in lost \/ \E o \in Past(p)' : run'[o].at = "show"
      BY <2>1 DEF SilentOnlyIfLost
    <3>1. CASE p = run[r].of
      BY <2>6, <3>1
    <3>2. CASE p # run[r].of
      <4>1. shown'[p] = shown[p]
        BY <1>0, <2>10, <3>2
      <4>2. \A o \in Past(p) : o # r /\ o \in Receipts /\ o \in Past(p)' /\ run'[o] = run[o]
        BY <2>3, <2>4, <3>2 DEF Past
      <4> QED BY <4>1, <4>2 DEF SilentOnlyIfLost
    <3> QED BY <3>1, <3>2
  <2> QED BY <2>1, <2>3, <2>7, <2>9, <2>11, <2>12, IdleShape DEF AboutToShowIsSeen
<1>6. ASSUME NEW r \in Receipts, ShowFails(r)
      PROVE  TypeOK' /\ ReceiverInv'
  <2>1. /\ run[r].at = "show" /\ run' = [run EXCEPT ![r] = Idle]
        /\ lost' = lost \cup {run[r].of}
        /\ UNCHANGED <<dispatcherVars, seen, cached, shown>>
    BY <1>6 DEF ShowFails
  <2>2. run[r].of \in Payloads
    BY <2>1, RunShape DEF Working
  <2>3. /\ run' \in [Receipts -> RunStates] /\ run'[r] = Idle
        /\ \A o \in Receipts : o # r => run'[o] = run[o]
        /\ \A a : Past(a)' = Past(a) \ {r}
    BY <2>1, OneRun, IdleShape
  <2>4. TypeOK'
    BY <2>1, <2>2, <2>3 DEF TypeOK, dispatcherVars
  <2>5. RepeatsOverlapped'
    BY <2>1, <2>3, LeavesKeepsBound DEF Leaves
  <2>6. SilentOnlyIfLost'
    <3> SUFFICES ASSUME NEW p \in seen, p # run[r].of
                 PROVE  shown[p] > 0 \/ p \in lost \/ \E o \in Past(p)' : run'[o].at = "show"
      BY <2>1 DEF SilentOnlyIfLost
    <3>1. \A o \in Past(p) : o \in Past(p)' /\ run'[o] = run[o]
      BY <2>3 DEF Past
    <3> QED BY <3>1 DEF SilentOnlyIfLost
  <2> QED BY <2>1, <2>3, <2>4, <2>5, <2>6, IdleShape DEF ShownIsSeen, AboutToShowIsSeen
<1>7. ASSUME NEW p \in Payloads, Cache(p)
      PROVE  TypeOK' /\ ReceiverInv'
  <2>1. cached' = cached \cup {p} /\ UNCHANGED <<dispatcherVars, run, seen, shown, lost>>
    BY <1>7 DEF Cache
  <2>2. \A a : Past(a)' = Past(a)
    BY <2>1 DEF Past
  <2>3. TypeOK'
    BY <2>1 DEF TypeOK, dispatcherVars
  <2> QED BY <2>1, <2>2, <2>3
          DEF ShownIsSeen, AboutToShowIsSeen, RepeatsOverlapped, SilentOnlyIfLost
<1>8. CASE Killed
  <2>1. /\ lost' = lost \cup {run[r].of : r \in {q \in Receipts : run[q].at = "show"}}
        /\ run' = [r \in Receipts |-> Idle]
        /\ UNCHANGED <<dispatcherVars, seen, cached, shown>>
    BY <1>8 DEF Killed
  <2>2. \A r \in Receipts : run[r].at = "show" => run[r].of \in Payloads
    BY RunShape DEF Working
  <2>3. TypeOK'
    BY <1>0, <2>1, <2>2, IdleShape DEF TypeOK, dispatcherVars
  <2>4. \A p \in Payloads : Past(p)' = {}
    BY <2>1, IdleShape DEF Past
  <2>5. RepeatsOverlapped'
    BY <2>1, <2>4, LeavesKeepsBound DEF Leaves
  <2>6. SilentOnlyIfLost'
    BY <2>1 DEF SilentOnlyIfLost, Past
  <2> QED BY <2>1, <2>3, <2>5, <2>6, IdleShape DEF ShownIsSeen, AboutToShowIsSeen
<1>9. ASSUME NEW r \in Receipts, StatementFails(r)
      PROVE  TypeOK' /\ ReceiverInv'
  <2>1. /\ run[r].at \in {"check", "lookup", "mark"} /\ run' = [run EXCEPT ![r] = Idle]
        /\ UNCHANGED <<dispatcherVars, seen, cached, shown, lost>>
    BY <1>9 DEF StatementFails
  <2>2. /\ run' \in [Receipts -> RunStates] /\ run'[r] = Idle
        /\ \A o \in Receipts : o # r => run'[o] = run[o]
        /\ \A a : Past(a)' = Past(a) \ {r}
    BY <2>1, OneRun, IdleShape
  <2>3. TypeOK'
    BY <2>1, <2>2 DEF TypeOK, dispatcherVars
  <2>4. RepeatsOverlapped'
    BY <2>1, <2>2, LeavesKeepsBound DEF Leaves
  <2>5. SilentOnlyIfLost'
    BY <2>1, <2>2 DEF SilentOnlyIfLost, Past
  <2> QED BY <2>1, <2>2, <2>3, <2>4, <2>5, IdleShape DEF ShownIsSeen, AboutToShowIsSeen
<1> QED BY <1>1, <1>2, <1>3, <1>4, <1>5, <1>6, <1>7, <1>8, <1>9 DEF Receiver
-----------------------------------------------------------------------------
LEMMA InvHolds == Spec => []IInv
<1>1. Init => IInv
  <2> SUFFICES ASSUME Init PROVE IInv
    OBVIOUS
  <2>1. TypeOK
    BY AlertAssumption, IdleShape DEF Init, TypeOK, SmsStates
  <2>2. DispatcherInv
    BY DEF Init, DispatcherInv, TimersTogether, AloneHasEntry, AckedIsCleared, Armed
  <2>3. RepeatsOverlapped
    BY PastIsFinite DEF Init, RepeatsOverlapped
  <2>4. ShownIsSeen /\ AboutToShowIsSeen /\ SilentOnlyIfLost
    BY IdleShape DEF Init, ShownIsSeen, AboutToShowIsSeen, SilentOnlyIfLost
  <2> QED BY <2>1, <2>2, <2>3, <2>4 DEF IInv, ReceiverInv
<1>2. IInv /\ [Next]_vars => IInv'
  <2> SUFFICES ASSUME IInv, [Next]_vars PROVE IInv'
    OBVIOUS
  <2> USE DEF IInv
  <2>1. CASE Dispatcher
    <3>1. UNCHANGED receiverVars
      BY <2>1 DEF Dispatcher, Dispatch, Published, PublishFails, Fires, Acknowledge
    <3>2. ReceiverInv'
      BY <3>1 DEF receiverVars, ReceiverInv, ShownIsSeen, AboutToShowIsSeen,
                  RepeatsOverlapped, SilentOnlyIfLost, Past
    <3> QED BY <2>1, <3>2, DispatcherKeepsTypes, DispatcherKeepsInv
  <2>2. CASE Receiver
    <3>1. UNCHANGED dispatcherVars
      BY <2>2 DEF Receiver, Heard, Check, Lookup, Mark, Show, ShowFails,
                  StatementFails, Cache, Killed
    <3>2. DispatcherInv'
      BY <3>1 DEF dispatcherVars, DispatcherInv, TimersTogether, AloneHasEntry,
                  AckedIsCleared, Armed
    <3> QED BY <2>2, <3>2, ReceiverKeepsInv
  <2>3. CASE UNCHANGED vars
    BY <2>3 DEF vars, TypeOK, DispatcherInv, TimersTogether, AloneHasEntry, AckedIsCleared,
                Armed, ReceiverInv, ShownIsSeen, AboutToShowIsSeen, RepeatsOverlapped,
                SilentOnlyIfLost, Past
  <2> QED BY <2>1, <2>2, <2>3 DEF Next
<1> QED BY <1>1, <1>2, PTL DEF Spec

\* The state of both fallbacks keeps its types, for any notices and payloads.
THEOREM TypeCorrect == Spec => []TypeOK
BY InvHolds, PTL DEF IInv

\* An acknowledged notice whose timer ran alone is never sent as an SMS.
THEOREM AckCancelsALoneTimer == Spec => []AckedIsNotSent
<1>1. IInv => AckedIsNotSent
  BY DEF IInv, DispatcherInv, AckedIsCleared, AckedIsNotSent
<1> QED BY <1>1, InvHolds, PTL

\* A payload is surfaced at most as often as runs of the receiver overlapped.
THEOREM RepeatsAreBounded == Spec => []RepeatsOverlapped
BY InvHolds, PTL DEF IInv, ReceiverInv

\* Only a kill or a refused notification after the mark silences an alert.
THEOREM SilenceHasACause == Spec => []SilentOnlyIfLost
BY InvHolds, PTL DEF IInv, ReceiverInv
=============================================================================
