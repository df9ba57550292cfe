---------------------------- MODULE HeatmapEngine ----------------------------
(***************************************************************************)
(* The heatmap engine: readings of the Kafka topic sensor.readings summed   *)
(* per zone over a window, classified, written to the Redis hash and        *)
(* published on the channel heatmap:{venue}                                 *)
(* (services/heatmap-engine/app/{consumer,aggregator,classifier,store}.py). *)
(*                                                                         *)
(* One venue; a tick is 10 s.  The consumer thread is sequential, but each  *)
(* Redis call and each Kafka offset commit is a step of its own, because    *)
(* readers of the hash and crashes fall between them.                       *)
(***************************************************************************)
EXTENDS Integers, SequencesExt

CONSTANTS
    Zones,
    NoData,         \* a zone with no window entry, or no field in the hash
    Counts,         \* head counts a reading may carry
    Capacity,       \* DEFAULT_CAPACITY
    AmberPercent,   \* DEFAULT_THRESHOLDS, in percent of Capacity
    RedPercent,
    WindowTicks,    \* WINDOW_SECONDS, in ticks
    MaxSent,        \* bound: the sum of the counts transmitted for a zone
    MaxChannel      \* bound: messages published and not yet delivered

ASSUME CountsAssumption == Counts \subseteq Nat
ASSUME ThresholdAssumption ==
    /\ Capacity \in Nat \ {0} /\ AmberPercent \in Nat /\ RedPercent \in Nat
    /\ AmberPercent <= RedPercent
ASSUME TimeAssumption == WindowTicks \in Nat
ASSUME BoundAssumption == MaxSent \in Nat /\ MaxChannel \in Nat
ASSUME NoDataAssumption == NoData \notin Int

VARIABLES
    topic,        \* readings [zone, count] the consumer has not read
    uncommitted,  \* readings read since the last committed offset
    hasOffset,    \* the consumer group has a committed offset
    sinceFlush,   \* ticks since last_flush, up to WindowTicks
    window,       \* WindowAggregator._window: the count of each zone
    batch,        \* window_data of the _process_window in progress
    unpublished,  \* the snapshot [zone, count, status] HSET wrote and PUBLISH has yet to send
    heatmap,      \* the Redis hash: zone -> snapshot
    channel,      \* published snapshots a subscriber has not received
    sent,         \* history: the sum of the counts transmitted for each zone
    processed,    \* history: the counts _process_window has handled, until a crash
    crashed       \* history: the engine has crashed

engineVars == <<topic, uncommitted, hasOffset, sinceFlush, window, batch, unpublished>>
redisVars == <<heatmap, channel>>
historyVars == <<sent, processed, crashed>>
heatmapVars == <<topic, uncommitted, hasOffset, sinceFlush, window, batch, unpublished,
                 heatmap, channel, sent, processed, crashed>>

Empty == [z \in Zones |-> NoData]

HeatmapInit ==
    /\ topic = <<>> /\ uncommitted = <<>> /\ hasOffset = FALSE
    /\ sinceFlush = 0
    /\ window = Empty /\ batch = Empty /\ unpublished = NoData
    /\ heatmap = Empty /\ channel = <<>>
    /\ sent = [z \in Zones |-> 0] /\ processed = [z \in Zones |-> 0]
    /\ crashed = FALSE

-----------------------------------------------------------------------------
\* classify_density of min(count / Capacity, 1).
ClassifyDensity(count) ==
    LET percent == 100 * IF count < Capacity THEN count ELSE Capacity
    IN  IF percent >= RedPercent * Capacity THEN "red"
        ELSE IF percent >= AmberPercent * Capacity THEN "amber"
        ELSE "green"

\* WindowAggregator.add: the first reading of a zone opens its entry.
Add(win, r) ==
    [win EXCEPT ![r.zone] = IF @ = NoData THEN r.count ELSE @ + r.count]

\* The consumer is in _process_window, and reads no message until it ends.
Processing == unpublished # NoData \/ batch # Empty

-----------------------------------------------------------------------------
\* The IoT gateway appends a reading to the topic.
Transmit(z, n) ==
    /\ sent[z] + n <= MaxSent
    /\ topic' = Append(topic, [zone |-> z, count |-> n])
    /\ sent' = [sent EXCEPT ![z] = @ + n]
    /\ UNCHANGED <<uncommitted, hasOffset, sinceFlush, window, batch, unpublished,
                   redisVars, processed, crashed>>

\* A variant whose flush returns the window and keeps it.
ConsumeKeepingWindow ==
    /\ ~Processing
    /\ topic # <<>>
    /\ topic' = Tail(topic)
    /\ uncommitted' = Append(uncommitted, Head(topic))
    /\ window' = Add(window, Head(topic))
    /\ batch' = IF sinceFlush = WindowTicks THEN window' ELSE batch
    /\ UNCHANGED <<hasOffset, sinceFlush, unpublished, redisVars, historyVars>>

\* The consumer reads a message.  The window is flushed only here: when a
\* message arrives and WINDOW_SECONDS have passed since the last flush.
Consume ==
    /\ ~Processing
    /\ topic # <<>>
    /\ topic' = Tail(topic)
    /\ uncommitted' = Append(uncommitted, Head(topic))
    /\ LET added == Add(window, Head(topic))
       IN  IF sinceFlush = WindowTicks
           THEN window' = Empty /\ batch' = added
           ELSE window' = added /\ batch' = batch
    /\ UNCHANGED <<hasOffset, sinceFlush, unpublished, redisVars, historyVars>>

\* The auto-commit: the group's offset becomes the consumer's position.
CommitOffset ==
    /\ uncommitted # <<>>
    /\ uncommitted' = <<>>
    /\ hasOffset' = TRUE
    /\ UNCHANGED <<topic, sinceFlush, window, batch, unpublished, redisVars, historyVars>>

-----------------------------------------------------------------------------
(* _process_window *)

SnapshotOf(z) ==
    [zone |-> z, count |-> batch[z], status |-> ClassifyDensity(batch[z])]

\* last_flush is set when _process_window returns: with `rest` still to process,
\* the window's clock does not restart yet.
RestartWindow(rest) == sinceFlush' = IF rest = Empty THEN 0 ELSE sinceFlush

\* History: the counts of zone z are handled (not recorded after a crash, when
\* the accounting is over).
Account(z) ==
    processed' = IF crashed THEN processed ELSE [processed EXCEPT ![z] = @ + batch[z]]

\* A variant of update_zone that publishes before it stores.
PublishFirst(z) ==
    /\ batch[z] # NoData /\ unpublished = NoData
    /\ unpublished' = SnapshotOf(z)
    /\ channel' = Append(channel, SnapshotOf(z))
    /\ batch' = [batch EXCEPT ![z] = NoData]
    /\ Account(z)
    /\ UNCHANGED <<topic, uncommitted, hasOffset, sinceFlush, window, heatmap, sent, crashed>>

\* update_zone: HSET, then PUBLISH.
StoreZone(z) ==
    /\ batch[z] # NoData /\ unpublished = NoData
    /\ heatmap' = [heatmap EXCEPT ![z] = SnapshotOf(z)]
    /\ unpublished' = SnapshotOf(z)
    /\ batch' = [batch EXCEPT ![z] = NoData]
    /\ Account(z)
    /\ UNCHANGED <<topic, uncommitted, hasOffset, sinceFlush, window, channel, sent, crashed>>

PublishZone ==
    /\ unpublished # NoData
    /\ Len(channel) < MaxChannel
    /\ channel' = Append(channel, unpublished)
    /\ unpublished' = NoData
    /\ RestartWindow(batch)
    /\ UNCHANGED <<topic, uncommitted, hasOffset, window, batch, heatmap, historyVars>>

\* HSET or PUBLISH raises: the exception is logged and the next zone follows.
StoreFails(z) ==
    /\ batch[z] # NoData /\ unpublished = NoData
    /\ batch' = [batch EXCEPT ![z] = NoData]
    /\ Account(z)
    /\ RestartWindow(batch')
    /\ UNCHANGED <<topic, uncommitted, hasOffset, window, unpublished, redisVars, sent, crashed>>

PublishFails ==
    /\ unpublished # NoData
    /\ unpublished' = NoData
    /\ RestartWindow(batch)
    /\ UNCHANGED <<topic, uncommitted, hasOffset, window, batch, redisVars, historyVars>>

-----------------------------------------------------------------------------
\* A variant that restarts the consumer thread alone, over the same aggregator.
CrashOfThread ==
    /\ topic' = IF hasOffset THEN uncommitted \o topic ELSE <<>>
    /\ uncommitted' = <<>>
    /\ batch' = Empty /\ unpublished' = NoData
    /\ sinceFlush' = 0
    /\ crashed' = TRUE
    /\ processed' = [z \in Zones |-> 0]
    /\ UNCHANGED <<window, hasOffset, redisVars, sent>>

\* The engine dies and is restarted.  It resumes at the committed offset or,
\* when there is none, at the end of the topic (auto_offset_reset='latest').
Crash ==
    /\ topic' = IF hasOffset THEN uncommitted \o topic ELSE <<>>
    /\ uncommitted' = <<>>
    /\ window' = Empty /\ batch' = Empty /\ unpublished' = NoData
    /\ sinceFlush' = 0
    /\ crashed' = TRUE
    /\ processed' = [z \in Zones |-> 0]
    /\ UNCHANGED <<hasOffset, redisVars, sent>>

\* Redis delivers a published message to the subscriber.
Deliver ==
    /\ channel # <<>>
    /\ channel' = Tail(channel)
    /\ UNCHANGED <<engineVars, heatmap, historyVars>>

Tick ==
    /\ sinceFlush' = IF sinceFlush < WindowTicks THEN sinceFlush + 1 ELSE WindowTicks
    /\ UNCHANGED <<topic, uncommitted, hasOffset, window, batch, unpublished, heatmap,
                   channel, historyVars>>

Engine ==
    \/ Consume \/ CommitOffset \/ PublishZone \/ PublishFails \/ Crash
    \/ \E z \in Zones : StoreZone(z) \/ StoreFails(z)

HeatmapNext ==
    \/ Engine
    \/ \E z \in Zones, n \in Counts : Transmit(z, n)
    \/ Deliver
    \/ Tick

HeatmapSpec == HeatmapInit /\ [][HeatmapNext]_heatmapVars

-----------------------------------------------------------------------------
(* Properties *)

CountIn(readings, z) ==
    SumFunctionOnSet([i \in DOMAIN readings |-> readings[i].count],
                     {i \in DOMAIN readings : readings[i].zone = z})
CountOf(entry) == IF entry = NoData THEN 0 ELSE entry

\* Until the engine crashes, each reading transmitted is in exactly one place:
\* unread, in the window, in the batch being processed, or processed.
\* consumer.py:57-66: the message that triggers a flush belongs to that flush.
EachReadingOnce ==
    ~crashed => \A z \in Zones :
        sent[z] = CountIn(topic, z) + CountOf(window[z]) + CountOf(batch[z]) + processed[z]

\* Crashes included: redelivery puts a reading in another window, so no stored
\* snapshot counts more heads than its zone's sensors ever transmitted.
SnapshotNotInflated ==
    \A z \in Zones : heatmap[z] # NoData => heatmap[z].count <= sent[z]

\* A subscriber that reads the hash on a message finds that snapshot there, or a
\* later one: what is published is what the hash holds (store.py:21-22).
PublishedIsStored ==
    [][Len(channel') > Len(channel) =>
         LET m == channel'[Len(channel')] IN heatmap'[m.zone] = m]_heatmapVars
=============================================================================
