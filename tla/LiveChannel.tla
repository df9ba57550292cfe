---------------------------- MODULE LiveChannel ----------------------------
(***************************************************************************)
(* useWebSocket, the hook through which a page follows a channel, as it is *)
(* in the mobile app (aware = TRUE: it asks isOnline before it dials) and  *)
(* in the dashboard (aware = FALSE).                                       *)
(*                                                                         *)
(* The hook holds one socket and one timer in refs, but nothing ties a     *)
(* socket's close event to the effect that opened the socket: the event of *)
(* a socket that the cleanup closed arrives after the next effect has set  *)
(* mountedRef again, and schedules a reconnection of the old channel.  So  *)
(* a model with one socket would be of another program.  A line is the     *)
(* chain socket, timer, socket, ... that one call of connect starts; the   *)
(* refs point at the line that was last to dial and the last to wait.      *)
(* A line gives its place back when it ends.                               *)
(***************************************************************************)
EXTENDS Naturals, FiniteSets

CONSTANTS Channels,   \* names of channels a page may ask for
          Lines,      \* places for lines: bounds how many run at once
          None        \* no line, no channel

ASSUME LinesAssumption == None \notin Lines /\ None \notin Channels

VARIABLES
    aware,      \* which of the two hooks this is; never changes
    online,     \* connectivityManager's currentStatus = 'online'
    mounted,    \* mountedRef
    channel,    \* the argument of the current render
    line,       \* line[l]: the channel of its closure and where it stands
    wsRef,      \* the line whose socket wsRef holds
    timerRef,   \* the line whose timer reconnectTimer holds
    connected,  \* the state the page shows
    refused     \* history: a dial for this channel was refused for being offline

vars == <<aware, online, mounted, channel, line, wsRef, timerRef, connected, refused>>

NoLine == [ch |-> None, st |-> "ended"]
Stages == {"connecting", "open", "closing", "waiting"}
LineState == {NoLine} \cup [ch : Channels, st : Stages]

TypeOK ==
    /\ aware \in BOOLEAN /\ online \in BOOLEAN /\ mounted \in BOOLEAN
    /\ channel \in Channels
    /\ line \in [Lines -> LineState]
    /\ wsRef \in Lines \cup {None}
    /\ timerRef \in Lines \cup {None}
    /\ connected \in BOOLEAN /\ refused \in BOOLEAN

Init ==
    /\ aware \in BOOLEAN
    /\ online \in BOOLEAN
    /\ mounted = FALSE
    /\ channel \in Channels
    /\ line = [l \in Lines |-> NoLine]
    /\ wsRef = None /\ timerRef = None
    /\ connected = FALSE
    /\ refused = FALSE
-----------------------------------------------------------------------------
\* The mobile hook's first guard; the dashboard's hook has none.
MayDial == ~aware \/ online

\* The cleanup of the effect: clearTimeout and close on what the refs hold.
Cleaned ==
    [l \in Lines |->
        IF l = timerRef /\ line[l].st = "waiting" THEN NoLine
        ELSE IF l = wsRef /\ line[l].st \in {"connecting", "open"}
             THEN [line[l] EXCEPT !.st = "closing"]
             ELSE line[l]]

\* connect(), called by the effect for channel c over the lines ls.
Connect(c, ls) ==
    \/ /\ MayDial
       /\ \E l \in Lines :
             /\ ls[l] = NoLine
             /\ line' = [ls EXCEPT ![l] = [ch |-> c, st |-> "connecting"]]
             /\ wsRef' = l
       /\ refused' = FALSE
    \/ /\ ~MayDial
       /\ line' = ls
       /\ refused' = TRUE
       /\ UNCHANGED wsRef

\* A new instance of the hook; lines that an earlier instance left behind
\* hold that instance's refs, so this one starts when they have ended.
Mount(c) ==
    /\ ~mounted
    /\ \A l \in Lines : line[l] = NoLine
    /\ mounted' = TRUE
    /\ channel' = c
    /\ Connect(c, line)
    /\ timerRef' = None
    /\ connected' = FALSE
    /\ UNCHANGED <<aware, online>>

\* A render with another channel, or in the app with another onMessage (the
\* dashboard's hook keeps that in a ref): React runs the cleanup and the effect
\* in one flush, so no close event comes in between.
ChangeChannel(c) ==
    /\ mounted
    /\ c = channel => aware
    /\ channel' = c
    /\ Connect(c, Cleaned)
    /\ UNCHANGED <<aware, online, mounted, timerRef, connected>>

Unmount ==
    /\ mounted
    /\ mounted' = FALSE
    /\ line' = Cleaned
    /\ UNCHANGED <<aware, online, channel, wsRef, timerRef, connected, refused>>

\* ws.onopen
Opens(l) ==
    /\ line[l].st = "connecting"
    /\ line' = [line EXCEPT ![l].st = "open"]
    /\ connected' = (connected \/ mounted)
    /\ UNCHANGED <<aware, online, mounted, channel, wsRef, timerRef, refused>>

\* A variant that schedules no reconnection.
ClosesForGood(l) ==
    /\ line[l].st \in {"connecting", "open", "closing"}
    /\ line' = [line EXCEPT ![l] = NoLine]
    /\ connected' = (connected /\ ~mounted)
    /\ UNCHANGED <<aware, online, mounted, channel, wsRef, timerRef, refused>>

\* A variant in which only the close of the socket in wsRef clears the flag.
ClosesIfCurrent(l) ==
    /\ line[l].st \in {"connecting", "open", "closing"}
    /\ \/ /\ mounted
          /\ line' = [line EXCEPT ![l].st = "waiting"]
          /\ timerRef' = l
          /\ connected' = (connected /\ wsRef # l)
       \/ /\ ~mounted
          /\ line' = [line EXCEPT ![l] = NoLine]
          /\ UNCHANGED <<timerRef, connected>>
    /\ UNCHANGED <<aware, online, mounted, channel, wsRef, refused>>

\* ws.onclose, of a socket the hook closed (ws.onerror closes too) or that
\* the network or the server closed.
Closes(l) ==
    /\ line[l].st \in {"connecting", "open", "closing"}
    /\ \/ /\ mounted
          /\ line' = [line EXCEPT ![l].st = "waiting"]
          /\ timerRef' = l
          /\ connected' = FALSE
       \/ /\ ~mounted
          /\ line' = [line EXCEPT ![l] = NoLine]
          /\ UNCHANGED <<timerRef, connected>>
    /\ UNCHANGED <<aware, online, mounted, channel, wsRef, refused>>

\* A variant whose timer dials only while the page says it is live.
TimerFiresIfLive(l) ==
    /\ line[l].st = "waiting"
    /\ MayDial /\ mounted /\ connected
    /\ line' = [line EXCEPT ![l].st = "connecting"]
    /\ wsRef' = l
    /\ UNCHANGED <<aware, online, mounted, channel, timerRef, connected, refused>>

\* The timer of a line calls the connect of its own closure.
TimerFires(l) ==
    /\ line[l].st = "waiting"
    /\ \/ /\ MayDial /\ mounted
          /\ line' = [line EXCEPT ![l].st = "connecting"]
          /\ wsRef' = l
          /\ UNCHANGED refused
       \/ /\ ~(MayDial /\ mounted)
          /\ line' = [line EXCEPT ![l] = NoLine]
          /\ refused' = (refused \/ (mounted /\ line[l].ch = channel))
          /\ UNCHANGED wsRef
    /\ UNCHANGED <<aware, online, mounted, channel, timerRef, connected>>

\* NetInfo reports a change; the hook does not listen to it.
StatusChanges ==
    /\ aware
    /\ online' = ~online
    /\ UNCHANGED <<aware, mounted, channel, line, wsRef, timerRef, connected, refused>>

Next ==
    \/ \E c \in Channels : Mount(c) \/ ChangeChannel(c)
    \/ Unmount
    \/ \E l \in Lines : Opens(l) \/ Closes(l) \/ TimerFires(l)
    \/ StatusChanges

Spec == Init /\ [][Next]_vars

\* Timers fire, a close handshake ends, and a server that is dialled again
\* and again answers in the end.
Fairness ==
    \A l \in Lines :
        /\ WF_vars(TimerFires(l))
        /\ WF_vars(line[l].st = "closing" /\ Closes(l))
        /\ SF_vars(Opens(l))

FairSpec == Spec /\ Fairness
-----------------------------------------------------------------------------
Alive(l, c) == line[l].ch = c /\ line[l].st \in {"connecting", "open", "waiting"}

(***************************************************************************)
(* However many stray lines the changes of channel have left, and whatever *)
(* the cleanups closed or cleared through the two refs, a mounted page has *)
(* a line for the channel it shows, unless a dial for it was refused       *)
(* because the app was offline (useWebSocket: connect, onclose, cleanup).  *)
(***************************************************************************)
WantedIsHeld ==
    (mounted /\ ~refused) => \E l \in Lines : Alive(l, channel)

(***************************************************************************)
(* "Live" on the page is backed by a socket: one that is open, or whose    *)
(* close event is still to come (it clears the flag when it does).         *)
(***************************************************************************)
LiveIsBacked ==
    (mounted /\ connected) => \E l \in Lines : line[l].st \in {"open", "closing"}

(***************************************************************************)
(* Auto-reconnect: a page that keeps showing a channel is connected to it  *)
(* again and again, unless a dial was refused while offline, after which   *)
(* nothing in the hook dials that channel any more.                        *)
(***************************************************************************)
Redials ==
    \A c \in Channels :
        <>[](mounted /\ channel = c /\ ~refused)
            => []<>(\E l \in Lines : line[l] = [ch |-> c, st |-> "open"])
=============================================================================
