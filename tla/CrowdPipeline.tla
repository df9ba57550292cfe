---------------------------- MODULE CrowdPipeline ----------------------------
(***************************************************************************)
(* The heatmap engine and the entry router sharing Redis: the engine writes *)
(* the hash heatmap:{venue} and publishes on the channel of the same name;  *)
(* the router reads the hash and subscribes to the channel.  The zones are  *)
(* the gates.  Every step is a step of one of the two services.             *)
(***************************************************************************)
EXTENDS Integers, Sequences

CONSTANTS
    Gates, Attendees, Sockets, NoData, Absent,
    Counts, Capacity, AmberPercent, RedPercent, WindowTicks,
    MaxSent, MaxChannel, MaxHandlers

VARIABLES
    topic, uncommitted, hasOffset, sinceFlush, window, batch, unpublished,
    sent, processed, crashed,
    assigned, request, open, identified, connection, handlers, told, abandoned, lately,
    heatmap, channel                       \* shared through Redis

engineVars == <<topic, uncommitted, hasOffset, sinceFlush, window, batch, unpublished,
                sent, processed, crashed>>
routerVars == <<assigned, request, open, identified, connection, handlers>>
vars == <<engineVars, routerVars, told, abandoned, lately, heatmap, channel>>

Engine == INSTANCE HeatmapEngine WITH Zones <- Gates
Router == INSTANCE EntryRouter WITH Snapshots <- {}, Deltas <- {}

Init == Engine!HeatmapInit /\ Router!RouterInit

\* Redis delivers to the router: Engine!Deliver is Router!OnMessage.
Next ==
    /\ \/ /\ \/ Engine!Engine
             \/ \E g \in Gates, n \in Counts : Engine!Transmit(g, n)
             \/ Engine!Tick
          /\ Router!RouterIdle
       \/ Router!Router /\ UNCHANGED engineVars
    /\ Router!Remember

Spec == Init /\ [][Next]_vars

FairSpec ==
    /\ Spec
    /\ WF_vars(Engine!Consume /\ Router!RouterIdle /\ Router!Remember)
    /\ Router!HandlerFairness

\* Requirement 1.5, end to end: when the engine publishes that a gate is red, a
\* connected attendee assigned to it, with another gate to go to, is told.
\* Not so: the engine publishes one flat snapshot, in which the subscriber, which
\* looks for {zoneId: {status}}, finds no red entry.
RedGateIsLeft ==
    \A a \in Attendees, g \in Gates :
        (/\ channel # <<>> /\ Head(channel).zone = g /\ Head(channel).status = "red"
         /\ assigned[a] = g /\ connection[a] \in open)
        ~> (Router!ToldToLeave(a, g) \/ assigned[a] # g \/ connection[a] \notin open
               \/ Router!ScoreGatesExcluding(g) = {} \/ g \in abandoned)
=============================================================================
