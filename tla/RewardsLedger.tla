---------------------------- MODULE RewardsLedger ----------------------------
(***************************************************************************)
(* One attendee's points: services/rewards-service/src/kafka/consumer.ts    *)
(* (awardPoints) and src/index.ts (award and redeem) over the three tables *)
(* of 001_rewards_schema.sql.  Attendees share no row, so one is enough.    *)
(*                                                                         *)
(* An award is two statements, and so is a redemption; no transaction joins *)
(* them and any number of calls, in any number of instances of the service, *)
(* run between the two.  A message may be delivered again and a client may *)
(* repeat its request: any key may be submitted at any time.               *)
(***************************************************************************)
EXTENDS Integers, Functions

CONSTANTS
    Calls,      \* calls in progress at once
    Keys,       \* deduplication keys of the attendee's actions
    None,       \* no key
    Paths,      \* the two ways in: the consumer and POST .../award
    Worth,      \* POINTS_MAP of each path, by key: the two maps differ
    Costs,      \* pointsCost, as clients send it: anything but zero is accepted
    MaxRedemptions  \* bound: redemptions that take points

ASSUME NoneAssumption == None \notin Keys
ASSUME WorthAssumption == Worth \in [Paths -> [Keys -> Nat \ {0}]]
ASSUME CostsAssumption == Costs \subseteq Int \ {0}

VARIABLES
    events,     \* gamification_events: points_awarded by key, 0 without a row
    balance,    \* attendee_points.total_points, 0 without a row
    redeemed,   \* the sum of reward_redemptions.points_cost
    calls,      \* the calls in progress
    credited,   \* history: the keys whose points were added to the balance
    lost,       \* history: the keys whose call failed before it credited them
    spent,      \* history: the points that redemptions took from the balance
    dropped,    \* history: those of redemptions that failed before their row
    redemptions \* how many there were, for the bound

vars == <<events, balance, redeemed, calls, credited, lost, spent, dropped, redemptions>>

\* A call awaits its second statement; the first has nothing to remember.
Idle == [at |-> "idle", key |-> None, points |-> 0]
Crediting(k, n) == [at |-> "credit", key |-> k, points |-> n]
Recording(n) == [at |-> "record", key |-> None, points |-> n]

CallStates ==
    {Idle} \cup [at : {"credit"}, key : Keys, points : Nat \ {0}]
           \cup [at : {"record"}, key : {None}, points : Int \ {0}]

TypeOK ==
    /\ events \in [Keys -> Nat]
    /\ balance \in Int
    /\ redeemed \in Int
    /\ calls \in [Calls -> CallStates]
    /\ credited \subseteq Keys /\ lost \subseteq Keys
    /\ spent \in Int /\ dropped \in Int
    /\ redemptions \in Nat

Init ==
    /\ events = [k \in Keys |-> 0]
    /\ balance = 0
    /\ redeemed = 0
    /\ calls = [c \in Calls |-> Idle]
    /\ credited = {} /\ lost = {}
    /\ spent = 0 /\ dropped = 0
    /\ redemptions = 0

-----------------------------------------------------------------------------
(* Awarding points, by a message or a request *)

\* A variant without the UNIQUE constraint on the deduplication key.
InsertEventTwice(c, p, k) ==
    /\ calls[c] = Idle
    /\ events' = [events EXCEPT ![k] = Worth[p][k]]
    /\ calls' = [calls EXCEPT ![c] = Crediting(k, Worth[p][k])]
    /\ UNCHANGED <<balance, redeemed, credited, lost, spent, dropped, redemptions>>

\* A variant that answers once the event is in, and leaves the balance alone.
InsertEventOnly(c, p, k) ==
    /\ calls[c] = Idle
    /\ events[k] = 0
    /\ events' = [events EXCEPT ![k] = Worth[p][k]]
    /\ UNCHANGED <<balance, redeemed, calls, credited, lost, spent, dropped, redemptions>>

\* INSERT INTO gamification_events.  The key is UNIQUE: of several calls one
\* succeeds, and the others end with 23505 (0 points, or 409) and no effect.
InsertEvent(c, p, k) ==
    /\ calls[c] = Idle
    /\ events[k] = 0
    /\ events' = [events EXCEPT ![k] = Worth[p][k]]
    /\ calls' = [calls EXCEPT ![c] = Crediting(k, Worth[p][k])]
    /\ UNCHANGED <<balance, redeemed, credited, lost, spent, dropped, redemptions>>

\* A variant that awards the points and leaves the call waiting (as if the
\* statement were repeated when its answer is lost).
CreditPointsAgain(c) ==
    /\ calls[c].at = "credit"
    /\ balance' = balance + calls[c].points
    /\ credited' = credited \cup {calls[c].key}
    /\ UNCHANGED <<events, redeemed, calls, lost, spent, dropped, redemptions>>

\* The UPSERT of attendee_points.
CreditPoints(c) ==
    /\ calls[c].at = "credit"
    /\ balance' = balance + calls[c].points
    /\ credited' = credited \cup {calls[c].key}
    /\ calls' = [calls EXCEPT ![c] = Idle]
    /\ UNCHANGED <<events, redeemed, lost, spent, dropped, redemptions>>

-----------------------------------------------------------------------------
(* POST /rewards/:attendeeId/redeem/:rewardId *)

\* The conditional UPDATE.  (Without a row, which the first credit makes, or
\* without enough points none is updated: 422.)  A cost below zero, which only
\* the client could exclude, passes the condition and adds points.
TakePoints(c, cost) ==
    /\ calls[c] = Idle
    /\ redemptions < MaxRedemptions
    /\ credited # {} /\ balance >= cost
    /\ balance' = balance - cost
    /\ spent' = spent + cost
    /\ calls' = [calls EXCEPT ![c] = Recording(cost)]
    /\ redemptions' = redemptions + 1
    /\ UNCHANGED <<events, redeemed, credited, lost, dropped>>

\* A variant that ends the call before the row is in, and keeps the row.
RecordAndKeep(c) ==
    /\ calls[c].at = "record"
    /\ redeemed' = redeemed + calls[c].points
    /\ UNCHANGED <<events, balance, calls, credited, lost, spent, dropped, redemptions>>

\* INSERT INTO reward_redemptions; the voucher is returned.
RecordRedemption(c) ==
    /\ calls[c].at = "record"
    /\ redeemed' = redeemed + calls[c].points
    /\ calls' = [calls EXCEPT ![c] = Idle]
    /\ UNCHANGED <<events, balance, credited, lost, spent, dropped, redemptions>>

-----------------------------------------------------------------------------
\* The second statement fails, or the process ends before it.  The error is
\* answered with 500, or logged by the consumer, which goes on to the next
\* message; nothing undoes the first statement.  (A first statement that
\* fails has no effect.)
CallFails(c) ==
    /\ calls[c] # Idle
    /\ calls' = [calls EXCEPT ![c] = Idle]
    /\ IF calls[c].at = "credit"
       THEN lost' = lost \cup {calls[c].key} /\ dropped' = dropped
       ELSE lost' = lost /\ dropped' = dropped + calls[c].points
    /\ UNCHANGED <<events, balance, redeemed, credited, spent, redemptions>>

Next ==
    \E c \in Calls :
        \/ \E p \in Paths, k \in Keys : InsertEvent(c, p, k)
        \/ CreditPoints(c)
        \/ \E cost \in Costs : TakePoints(c, cost)
        \/ RecordRedemption(c)
        \/ CallFails(c)

Spec == Init /\ [][Next]_vars

\* A statement that was sent is answered.
Fairness == \A c \in Calls : WF_vars(CreditPoints(c) \/ RecordRedemption(c))

FairSpec == Spec /\ Fairness

-----------------------------------------------------------------------------
\* The points of the recorded events that were credited.
CreditedPoints == SumFunctionOnSet(events, credited)

\* The balance, with what redemptions took from it, is the sum of the points
\* of credited events, each counted once: duplicates, racing calls and failed
\* ones neither add points nor lose a part of an award.
BalanceAccountsForCredits == balance + spent = CreditedPoints

\* At most one call is about to credit an event, only while its row exists,
\* and only if it is not credited yet (the idempotency that awardPoints
\* promises, against duplicates in any order).
CreditIsExclusive ==
    \A c \in Calls : calls[c].at = "credit" =>
        /\ events[calls[c].key] = calls[c].points
        /\ calls[c].key \notin credited
        /\ \A d \in Calls \ {c} : calls[d].at = "credit" => calls[d].key # calls[c].key

\* Racing redemptions never overdraw the balance.
NeverOverdrawn == balance >= 0

\* What redemptions took from the balance, or added to it by a cost below zero,
\* is in the rows of reward_redemptions, about to be, or was that of calls which
\* failed between the two statements: however calls race, no row is written twice
\* or with other points, and points leave without a row by a failure alone.
RedemptionsAddUp ==
    spent = redeemed + dropped + SumFunctionOnSet([c \in Calls |-> calls[c].points],
                                                  {c \in Calls : calls[c].at = "record"})

\* The two statements of an award and of a redemption, in any number of racing
\* calls, act as one: the balance is an account on which every action counts once,
\* for what a path says it is worth, and which pays for a reward at once (or is paid,
\* by a cost below zero).
\* (awardPoints, and the award and redeem routes)
Promised == INSTANCE PointsAccount WITH total <- balance, counted <- credited
AccountIsKept == Promised!Spec

\* An event that is recorded is credited, unless the one call that may credit it
\* fails: a call that loses the race for the key costs the attendee nothing.
AwardsSettle == \A k \in Keys : (events[k] > 0) ~> (k \in credited \cup lost)
=============================================================================
