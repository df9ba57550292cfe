------------------------- MODULE AppConnectionsProofs -------------------------
(***************************************************************************)
(* The two connections that the app holds to the services.  Its live       *)
(* channels, for any channels and any number of stray lines; its session,  *)
(* for any number of requests, refreshes, pairs of tokens and kills, with  *)
(* the auth service at the other end.                                      *)
(***************************************************************************)
EXTENDS LiveChannel, Sessions, TLAPS

-----------------------------------------------------------------------------
(* Live channels.  The two invariants are each inductive over the types:    *)
(* the steps that could end the witness of WantedIsHeld hand it on (a close *)
(* schedules a timer, a timer dials) or raise refused, and a step that      *)
(* takes the last open socket away clears connected.                        *)

LEMMA StatesOfALine ==
    /\ NoLine \in LineState
    /\ \A c \in Channels : NoLine.ch # c
    /\ \A s \in Stages : NoLine.st # s
    /\ \A c \in Channels, s \in Stages : [ch |-> c, st |-> s] \in LineState
    /\ \A r \in LineState : r # NoLine => r.ch \in Channels /\ r.st \in Stages
BY LinesAssumption DEF NoLine, LineState, Stages

LEMMA CleanedTypes ==
    ASSUME TypeOK
    PROVE  /\ Cleaned \in [Lines -> LineState]
           /\ \A l \in Lines : line[l].st \in {"open", "closing"}
                                   => Cleaned[l].st \in {"open", "closing"}
<1>1. ASSUME NEW l \in Lines
      PROVE  /\ Cleaned[l] \in LineState
             /\ line[l].st \in {"open", "closing"} => Cleaned[l].st \in {"open", "closing"}
  <2>1. line[l] \in LineState
    BY DEF TypeOK
  <2>2. CASE l = timerRef /\ line[l].st = "waiting"
    BY <2>2, StatesOfALine DEF Cleaned
  <2>3. CASE l = wsRef /\ line[l].st \in {"connecting", "open"}
    <3>1. line[l] # NoLine
      BY <2>3 DEF NoLine
    <3>2. line[l] \in [ch : Channels, st : Stages]
      BY <2>1, <3>1 DEF LineState
    <3>3. Cleaned[l] = [line[l] EXCEPT !.st = "closing"]
      BY <2>3 DEF Cleaned
    <3>4. Cleaned[l] \in [ch : Channels, st : Stages] /\ Cleaned[l].st = "closing"
      BY <3>2, <3>3 DEF Stages
    <3> QED BY <3>4 DEF LineState
  <2>4. CASE /\ ~(l = timerRef /\ line[l].st = "waiting")
             /\ ~(l = wsRef /\ line[l].st \in {"connecting", "open"})
    BY <2>1, <2>4 DEF Cleaned
  <2> QED BY <2>2, <2>3, <2>4
<1>2. Cleaned \in [Lines -> LineState]
  BY <1>1 DEF Cleaned
<1> QED BY <1>1, <1>2

\* What the effect's connect leaves: a new line at a place that was free, or
\* the refusal.
LEMMA ConnectShape ==
    ASSUME NEW c \in Channels, NEW ls \in [Lines -> LineState], Connect(c, ls),
           wsRef \in Lines \cup {None}
    PROVE  /\ line' \in [Lines -> LineState]
           /\ wsRef' \in Lines \cup {None}
           /\ refused' \in BOOLEAN
           /\ ~refused' => \E l \in Lines : line'[l] = [ch |-> c, st |-> "connecting"]
           /\ \A l \in Lines : ls[l].st \in {"open", "closing"} => line'[l] = ls[l]
<1>1. CASE MayDial
  <2>1. PICK l \in Lines : /\ ls[l] = NoLine
                           /\ line' = [ls EXCEPT ![l] = [ch |-> c, st |-> "connecting"]]
                           /\ wsRef' = l
    BY <1>1 DEF Connect
  <2>2. refused' = FALSE
    BY <1>1 DEF Connect
  <2>3. [ch |-> c, st |-> "connecting"] \in LineState
    BY StatesOfALine DEF Stages
  <2>4. line' \in [Lines -> LineState] /\ line'[l] = [ch |-> c, st |-> "connecting"]
    BY <2>1, <2>3
  <2>5. \A k \in Lines : ls[k].st \in {"open", "closing"} => k # l
    BY <2>1 DEF NoLine
  <2> QED BY <2>1, <2>2, <2>4, <2>5
<1>2. CASE ~MayDial
  BY <1>2 DEF Connect
<1> QED BY <1>1, <1>2

IInv == TypeOK /\ WantedIsHeld /\ LiveIsBacked

\* The steps of one line, which change the line to another state of its own.
LEMMA OneLineTypes ==
    ASSUME TypeOK, NEW l \in Lines, line[l] # NoLine, NEW s \in Stages
    PROVE  /\ [line EXCEPT ![l].st = s] \in [Lines -> LineState]
           /\ [line EXCEPT ![l] = NoLine] \in [Lines -> LineState]
           /\ [line EXCEPT ![l].st = s][l].ch = line[l].ch
           /\ [line EXCEPT ![l].st = s][l].st = s
<1>1. line \in [Lines -> LineState]
  BY DEF TypeOK
<1>2. line[l] \in [ch : Channels, st : Stages]
  BY <1>1 DEF LineState
<1>3. [line[l] EXCEPT !.st = s] \in [ch : Channels, st : Stages]
  BY <1>2
<1>4. [line EXCEPT ![l].st = s] = [line EXCEPT ![l] = [line[l] EXCEPT !.st = s]]
  BY <1>1
<1> QED BY <1>1, <1>2, <1>3, <1>4, StatesOfALine DEF LineState

LEMMA InvHolds == Spec => []IInv
<1>1. Init => IInv
  BY StatesOfALine DEF Init, IInv, TypeOK, WantedIsHeld, LiveIsBacked
<1>2. IInv /\ [Next]_vars => IInv'
  <2> SUFFICES ASSUME IInv, [Next]_vars
               PROVE  IInv'
    OBVIOUS
  <2> USE DEF IInv
  <2>1. ASSUME NEW c \in Channels, Mount(c)
        PROVE  IInv'
    <3>1. /\ line \in [Lines -> LineState] /\ wsRef \in Lines \cup {None}
          /\ Connect(c, line)
      BY <2>1 DEF Mount, TypeOK
    <3>2. /\ line' \in [Lines -> LineState] /\ wsRef' \in Lines \cup {None}
          /\ refused' \in BOOLEAN
          /\ ~refused' => \E l \in Lines : line'[l] = [ch |-> c, st |-> "connecting"]
      BY <3>1, ConnectShape
    <3>3. /\ channel' = c /\ connected' = FALSE /\ mounted' = TRUE /\ timerRef' = None
          /\ UNCHANGED <<aware, online>>
      BY <2>1 DEF Mount
    <3>4. TypeOK'
      BY <3>2, <3>3 DEF TypeOK
    <3>5. WantedIsHeld'
      BY <3>2, <3>3 DEF WantedIsHeld, Alive
    <3>6. LiveIsBacked'
      BY <3>3 DEF LiveIsBacked
    <3> QED BY <3>4, <3>5, <3>6
  <2>2. ASSUME NEW c \in Channels, ChangeChannel(c)
        PROVE  IInv'
    <3>1. /\ Cleaned \in [Lines -> LineState] /\ wsRef \in Lines \cup {None}
          /\ Connect(c, Cleaned)
      BY <2>2, CleanedTypes DEF ChangeChannel, TypeOK
    <3>2. /\ line' \in [Lines -> LineState] /\ wsRef' \in Lines \cup {None}
          /\ refused' \in BOOLEAN
          /\ ~refused' => \E l \in Lines : line'[l] = [ch |-> c, st |-> "connecting"]
          /\ \A l \in Lines : Cleaned[l].st \in {"open", "closing"} => line'[l] = Cleaned[l]
      BY <3>1, ConnectShape
    <3>3. /\ channel' = c /\ mounted
          /\ UNCHANGED <<aware, online, mounted, timerRef, connected>>
      BY <2>2 DEF ChangeChannel
    <3>4. TypeOK'
      BY <3>2, <3>3 DEF TypeOK
    <3>5. WantedIsHeld'
      BY <3>2, <3>3 DEF WantedIsHeld, Alive
    <3>6. LiveIsBacked'
      BY <3>2, <3>3, CleanedTypes DEF LiveIsBacked
    <3> QED BY <3>4, <3>5, <3>6
  <2>3. CASE Unmount
    BY <2>3, CleanedTypes DEF Unmount, TypeOK, WantedIsHeld, LiveIsBacked
  <2>4. ASSUME NEW l \in Lines, Opens(l)
        PROVE  IInv'
    <3>1. /\ line[l].st = "connecting" /\ line' = [line EXCEPT ![l].st = "open"]
          /\ connected' = (connected \/ mounted)
          /\ UNCHANGED <<aware, online, mounted, channel, wsRef, timerRef, refused>>
      BY <2>4 DEF Opens
    <3>2. line[l] # NoLine /\ "open" \in Stages
      BY <3>1 DEF NoLine, Stages
    <3>3. /\ line' \in [Lines -> LineState]
          /\ line'[l].ch = line[l].ch /\ line'[l].st = "open"
          /\ \A k \in Lines \ {l} : line'[k] = line[k]
      BY <3>1, <3>2, OneLineTypes DEF TypeOK
    <3>4. TypeOK'
      BY <3>1, <3>3 DEF TypeOK
    <3>5. WantedIsHeld'
      BY <3>1, <3>3 DEF WantedIsHeld, Alive
    <3>6. LiveIsBacked'
      BY <3>3 DEF LiveIsBacked
    <3> QED BY <3>4, <3>5, <3>6
  <2>5. ASSUME NEW l \in Lines, Closes(l)
        PROVE  IInv'
    <3>1. /\ line[l].st \in {"connecting", "open", "closing"}
          /\ UNCHANGED <<aware, online, mounted, channel, wsRef, refused>>
      BY <2>5 DEF Closes
    <3>2. line[l] # NoLine /\ "waiting" \in Stages
      BY <3>1 DEF NoLine, Stages
    <3>3. CASE mounted
      <4>1. line' = [line EXCEPT ![l].st = "waiting"] /\ timerRef' = l /\ connected' = FALSE
        BY <2>5, <3>3 DEF Closes
      <4>2. /\ line' \in [Lines -> LineState]
            /\ line'[l].ch = line[l].ch /\ line'[l].st = "waiting"
            /\ \A k \in Lines \ {l} : line'[k] = line[k]
        BY <4>1, <3>2, OneLineTypes DEF TypeOK
      <4>3. TypeOK'
        BY <3>1, <4>1, <4>2 DEF TypeOK
      <4>4. WantedIsHeld'
        BY <3>1, <4>2 DEF WantedIsHeld, Alive
      <4>5. LiveIsBacked'
        BY <4>1 DEF LiveIsBacked
      <4> QED BY <4>3, <4>4, <4>5
    <3>4. CASE ~mounted
      <4>1. line' = [line EXCEPT ![l] = NoLine] /\ UNCHANGED <<timerRef, connected>>
        BY <2>5, <3>4 DEF Closes
      <4>2. line' \in [Lines -> LineState]
        BY <4>1, StatesOfALine DEF TypeOK
      <4>3. TypeOK'
        BY <3>1, <4>1, <4>2 DEF TypeOK
      <4> QED BY <3>1, <3>4, <4>3 DEF WantedIsHeld, LiveIsBacked
    <3> QED BY <3>3, <3>4
  <2>6. ASSUME NEW l \in Lines, TimerFires(l)
        PROVE  IInv'
    <3>1. /\ line[l].st = "waiting"
          /\ UNCHANGED <<aware, online, mounted, channel, timerRef, connected>>
      BY <2>6 DEF TimerFires
    <3>2. line[l] # NoLine /\ "connecting" \in Stages
      BY <3>1 DEF NoLine, Stages
    <3>3. CASE MayDial /\ mounted
      <4>1. /\ line' = [line EXCEPT ![l].st = "connecting"] /\ wsRef' = l
            /\ UNCHANGED refused
        BY <2>6, <3>3 DEF TimerFires
      <4>2. /\ line' \in [Lines -> LineState]
            /\ line'[l].ch = line[l].ch /\ line'[l].st = "connecting"
            /\ \A k \in Lines \ {l} : line'[k] = line[k]
        BY <4>1, <3>2, OneLineTypes DEF TypeOK
      <4>3. TypeOK'
        BY <3>1, <4>1, <4>2 DEF TypeOK
      <4>4. WantedIsHeld'
        BY <3>1, <4>1, <4>2 DEF WantedIsHeld, Alive
      <4>5. LiveIsBacked'
        BY <3>1, <4>2 DEF LiveIsBacked
      <4> QED BY <4>3, <4>4, <4>5
    <3>4. CASE ~(MayDial /\ mounted)
      <4>1. /\ line' = [line EXCEPT ![l] = NoLine]
            /\ refused' = (refused \/ (mounted /\ line[l].ch = channel))
            /\ UNCHANGED wsRef
        BY <2>6, <3>4 DEF TimerFires
      <4>2. /\ line' \in [Lines -> LineState]
            /\ \A k \in Lines \ {l} : line'[k] = line[k]
        BY <4>1, StatesOfALine DEF TypeOK
      <4>3. TypeOK'
        BY <3>1, <4>1, <4>2 DEF TypeOK
      <4>4. WantedIsHeld'
        BY <3>1, <4>1, <4>2 DEF WantedIsHeld, Alive, TypeOK
      <4>5. LiveIsBacked'
        BY <3>1, <4>2 DEF LiveIsBacked
      <4> QED BY <4>3, <4>4, <4>5
    <3> QED BY <3>3, <3>4
  <2>7. CASE StatusChanges
    BY <2>7 DEF StatusChanges, TypeOK, WantedIsHeld, LiveIsBacked, Alive
  <2>8. CASE UNCHANGED vars
    BY <2>8 DEF vars, TypeOK, WantedIsHeld, LiveIsBacked, Alive
  <2> QED BY <2>1, <2>2, <2>3, <2>4, <2>5, <2>6, <2>7, <2>8 DEF Next
<1> QED BY <1>1, <1>2, PTL DEF Spec

\* The hook's refs, lines and flags keep their types, for any number of lines.
THEOREM TypeCorrect == Spec => []TypeOK
BY InvHolds, PTL DEF IInv

\* A mounted page holds a line for the channel it shows unless it was refused
\* offline, however many stray lines the changes of channel left.
THEOREM PageHoldsItsChannel == Spec => []WantedIsHeld
BY InvHolds, PTL DEF IInv

\* A page says it is live only over a socket whose close it has yet to see.
THEOREM LiveMeansASocket == Spec => []LiveIsBacked
BY InvHolds, PTL DEF IInv

-----------------------------------------------------------------------------
(* The session (api/client.ts) and the tokens (auth-service).  That a pair *)
(* is exchanged once follows from where it is: in one handler's hands, or  *)
(* already a parent, or held by an app that is not refreshing with it.     *)

\* A handler holds pair p: it was asked to exchange it and has not answered.
Holds(h, p) == call[h].at # "idle" /\ call[h].pair = p

\* A pair in use has a row.
RowsExist ==
    /\ session # NoPair => token[session] # "none"
    /\ \A h \in Handlers : call[h].pair # NoPair => token[call[h].pair] # "none"
    /\ \A p \in Pairs : parent[p] # NoPair => token[p] # "none" /\ token[parent[p]] # "none"
    /\ \A h \in Handlers : call[h].at \in {"revoke", "user", "insert"} => call[h].pair # NoPair

\* A pair is held by one handler, until it has been exchanged.
UsedOnce ==
    \A s \in Pairs \ abandoned :
        /\ \A h, g \in Handlers : Holds(h, s) /\ Holds(g, s) => h = g
        /\ \A h \in Handlers, p \in Pairs : ~ (Holds(h, s) /\ parent[p] = s)
        /\ \A p, q \in Pairs : parent[p] = s /\ parent[q] = s => p = q

\* What the app holds and is not refreshing with is in nobody's hands.
Unused ==
    session # NoPair /\ ~isRefreshing /\ session \notin abandoned =>
        /\ \A h \in Handlers : ~Holds(h, session)
        /\ \A p \in Pairs : parent[p] # session

\* The inductive invariant.  ExchangedOnce speaks of pairs that were exchanged;
\* UsedOnce adds the handlers that are about to, and Unused the app that may
\* start another.
SessionInv == RowsExist /\ UsedOnce /\ Unused /\ HeldTokenIsGood

-----------------------------------------------------------------------------
\* No pair is not a pair: pairs are numbered from 1.
LEMMA NoPairIsNone == NoPair \notin Pairs
  BY BoundsAssumption DEF NoPair, Pairs

\* What an answer of pair p, or of none, does to the app.
LEMMA AnswerEffect ==
  ASSUME SessionTypeOK, NEW h \in Handlers, NEW p \in Pairs \cup {NoPair}, Answer(h, p)
  PROVE  /\ call' = [call EXCEPT ![h] = NoCall]
         /\ request' \in [Requests -> RequestStates]
         /\ \/ session' = session /\ isRefreshing' = isRefreshing
            \/ session' = p /\ isRefreshing' = FALSE
<1> DEFINE r == call[h].for
<1>1. CASE UNCHANGED <<session, isRefreshing, request>>
  BY <1>1 DEF Answer, SessionTypeOK
<1>2. CASE r # "nobody" /\ p = NoPair /\ RefreshFailed(r)
  <2>1. NoRequest \in RequestStates
    BY DEF NoRequest, RequestStates
  <2> QED  BY <1>2, <2>1 DEF Answer, RefreshFailed, SessionTypeOK
<1>3. CASE r # "nobody" /\ p # NoPair /\ Refreshed(r, p)
  <2>1. \A q \in Requests : Sent(request[q].kind, p, TRUE) \in RequestStates
    BY DEF SessionTypeOK, Sent, RequestStates
  <2> QED  BY <1>3, <2>1 DEF Answer, Refreshed, SessionTypeOK
<1> QED  BY <1>1, <1>2, <1>3 DEF Answer

\* Type correctness of the session, the requests, the handlers and the table.
THEOREM SessionTypesCorrect == SessionSpec => []SessionTypeOK
<1>1. SessionInit => SessionTypeOK
  <2>1. SessionInit => /\ session = NoPair /\ lapsed = NoPair /\ kills \in 0 .. MaxKills
    BY BoundsAssumption DEF SessionInit
  <2>2. NoRequest \in RequestStates /\ NoCall \in CallStates
    BY DEF NoRequest, RequestStates, NoCall, CallStates
  <2> QED  BY <2>1, <2>2 DEF SessionInit, SessionTypeOK
<1>2. SessionTypeOK /\ [SessionNext]_sessionVars => SessionTypeOK'
  <2> SUFFICES ASSUME SessionTypeOK, [SessionNext]_sessionVars PROVE SessionTypeOK'
    OBVIOUS
  <2>a. /\ NoCall \in CallStates /\ NoRequest \in RequestStates
        /\ \A r \in Requests : request[r] \in RequestStates
        /\ \A h \in Handlers : call[h] \in CallStates
    BY DEF NoCall, CallStates, NoRequest, RequestStates, SessionTypeOK
  <2>1. ASSUME NEW r \in Requests, SendRequest(r) \/ SendLogin(r) PROVE SessionTypeOK'
    <3>1. \A k \in {"call", "login"} : Sent(k, session, FALSE) \in RequestStates
      BY DEF Sent, RequestStates, SessionTypeOK
    <3> QED  BY <2>1, <3>1 DEF SendRequest, SendLogin, server, SessionTypeOK
  <2>2. ASSUME NEW r \in Requests, Settled(r) PROVE SessionTypeOK'
    BY <2>2, <2>a DEF Settled, server, SessionTypeOK
  <2>3. ASSUME NEW r \in Requests, Unauthorized(r) PROVE SessionTypeOK'
    <3>1. \A at \in {"queued", "refreshing"} : Await(at, r) \in RequestStates
      BY DEF Await, RequestStates, SessionTypeOK
    <3>2. \A h \in Handlers : [at |-> "select", pair |-> session, for |-> r] \in CallStates
      BY DEF CallStates, SessionTypeOK
    <3>3. request' \in [Requests -> RequestStates]
      BY <2>3, <2>a, <3>1 DEF Unauthorized, SessionTypeOK
    <3>4. call' \in [Handlers -> CallStates] /\ isRefreshing' \in BOOLEAN
      BY <2>3, <3>2 DEF Unauthorized, SessionTypeOK
    <3> QED  BY <2>3, <3>3, <3>4 DEF Unauthorized, SessionTypeOK
  <2>4. ASSUME NEW r \in Requests, LoseConnection(r) PROVE SessionTypeOK'
    <3>1. \A h \in Handlers : [call[h] EXCEPT !.for = "nobody"] \in CallStates
      BY <2>a DEF CallStates
    <3>2. call' \in [Handlers -> CallStates]
      BY <2>4, <2>a, <3>1 DEF LoseConnection
    <3> QED  BY <2>4, <2>a, <3>2 DEF LoseConnection, RefreshFailed, SessionTypeOK
  <2>5. ASSUME NEW r \in Requests, MatchUser(r) PROVE SessionTypeOK'
    <3>1. [request[r] EXCEPT !.at = "matched"] \in RequestStates
      BY <2>a DEF RequestStates
    <3> QED  BY <2>5, <3>1 DEF MatchUser, server, SessionTypeOK
  <2>6. ASSUME NEW r \in Requests, LoggedIn(r) PROVE SessionTypeOK'
    BY <2>6, <2>a DEF LoggedIn, Issue, SessionTypeOK
  <2>7. ASSUME NEW h \in Handlers, SelectToken(h) \/ FetchUser(h) PROVE SessionTypeOK'
    <3>1. \A at \in {"revoke", "insert"} : [call[h] EXCEPT !.at = at] \in CallStates
      BY <2>a DEF CallStates
    <3>2. ASSUME Refuse(h), UNCHANGED <<lapsed, account, abandoned, kills>> PROVE SessionTypeOK'
      BY <2>a, <3>2, AnswerEffect DEF Refuse, SessionTypeOK
    <3> QED  BY <2>7, <3>1, <3>2 DEF SelectToken, FetchUser, SessionTypeOK
  <2>8. ASSUME NEW h \in Handlers, RevokeToken(h) PROVE SessionTypeOK'
    <3>1. [call[h] EXCEPT !.at = "user"] \in CallStates
      BY <2>a DEF CallStates
    <3>2. token' \in [Pairs -> {"none", "live", "revoked"}]
      BY <2>8 DEF RevokeToken, SessionTypeOK
    <3> QED  BY <2>8, <3>1, <3>2 DEF RevokeToken, SessionTypeOK
  <2>9. ASSUME NEW h \in Handlers, InsertToken(h) PROVE SessionTypeOK'
    <3>1. PICK p \in Pairs : /\ Issue(p)
                             /\ parent' = [parent EXCEPT ![p] = call[h].pair]
                             /\ Answer(h, p)
      BY <2>9 DEF InsertToken
    <3>2. call[h].pair \in Pairs \cup {NoPair}
      BY <2>a DEF CallStates
    <3>3. /\ parent' \in [Pairs -> Pairs \cup {NoPair}]
          /\ token' \in [Pairs -> {"none", "live", "revoked"}]
      BY <3>1, <3>2 DEF Issue, SessionTypeOK
    <3>4. /\ call' \in [Handlers -> CallStates] /\ request' \in [Requests -> RequestStates]
          /\ session' \in Pairs \cup {NoPair} /\ isRefreshing' \in BOOLEAN
      BY <2>a, <3>1, AnswerEffect DEF SessionTypeOK
    <3> QED  BY <2>9, <3>3, <3>4 DEF InsertToken, SessionTypeOK
  <2>10. ASSUME NEW h \in Handlers, RefreshError(h) PROVE SessionTypeOK'
    BY <2>10, <2>a, AnswerEffect DEF RefreshError, Refuse, SessionTypeOK
  <2>11. CASE AccessLapses
    <3>1. lapsed' \in Pairs
      BY <2>11, BoundsAssumption DEF AccessLapses, SessionTypeOK, Pairs, NoPair
    <3> QED  BY <2>11, <3>1 DEF AccessLapses, server, SessionTypeOK
  <2>12. CASE DeleteUser
    BY <2>12 DEF DeleteUser, server, SessionTypeOK
  <2>13. CASE RevokeAll
    BY <2>13 DEF RevokeAll, SessionTypeOK
  <2>14. CASE Kill
    <3>1. \A h \in Handlers : [call[h] EXCEPT !.for = "nobody"] \in CallStates
      BY <2>a DEF CallStates
    <3>2. kills' \in 0 .. MaxKills
      BY <2>14, BoundsAssumption DEF Kill, SessionTypeOK
    <3>3. abandoned' \subseteq Pairs
      BY <2>14 DEF Kill, SessionTypeOK
    <3> QED  BY <2>14, <2>a, <3>1, <3>2, <3>3 DEF Kill, SessionTypeOK
  <2>15. CASE UNCHANGED sessionVars
    BY <2>15 DEF sessionVars, SessionTypeOK
  <2> QED  BY <2>1, <2>2, <2>3, <2>4, <2>5, <2>6, <2>7, <2>8, <2>9, <2>10, <2>11,
              <2>12, <2>13, <2>14, <2>15 DEF SessionNext, Refresh
<1> QED  BY <1>1, <1>2, PTL DEF SessionSpec

\* Nobody holds a pair to begin with.
LEMMA SessionInvInit == SessionInit => SessionInv
  BY NoPairIsNone DEF SessionInit, SessionInv, RowsExist, UsedOnce, Unused, HeldTokenIsGood, Holds, NoCall

\* Nothing that the invariant speaks of changes.
LEMMA SessionQuiet ==
  ASSUME SessionInv, session' = session, isRefreshing' = isRefreshing,
         token' = token, parent' = parent, abandoned' = abandoned,
         account' = account \/ (account' = "deleted" /\ account = "active"),
         \A h \in Handlers : call'[h].at = call[h].at /\ call'[h].pair = call[h].pair
  PROVE  SessionInv'
  BY DEF SessionInv, RowsExist, UsedOnce, Unused, HeldTokenIsGood, Holds

\* A handler that answers no pair leaves its pair alone.
LEMMA SessionRefuse ==
  ASSUME SessionTypeOK, SessionInv, NEW h \in Handlers, Refuse(h), UNCHANGED <<account, abandoned>>
  PROVE  SessionInv'
<1>1. /\ call' = [call EXCEPT ![h] = NoCall]
      /\ \/ session' = session /\ isRefreshing' = isRefreshing
         \/ session' = NoPair /\ isRefreshing' = FALSE
      /\ UNCHANGED <<token, parent>>
  BY AnswerEffect DEF Refuse
<1>2. \A g \in Handlers : /\ g # h => call'[g] = call[g]
                          /\ call'[h].at = "idle" /\ call'[h].pair = NoPair
  BY <1>1 DEF SessionTypeOK, NoCall
<1> QED  BY <1>1, <1>2 DEF SessionInv, RowsExist, UsedOnce, Unused, HeldTokenIsGood, Holds

\* Every step of the app, of a handler, of the database and of time keeps it.
LEMMA SessionInvStep == SessionTypeOK /\ SessionInv /\ [SessionNext]_sessionVars => SessionInv'
<1> SUFFICES ASSUME SessionTypeOK, SessionInv, [SessionNext]_sessionVars PROVE SessionInv'
  OBVIOUS
<1>1. ASSUME NEW r \in Requests, SendRequest(r) \/ SendLogin(r) \/ Settled(r) \/ MatchUser(r)
      PROVE  SessionInv'
  <2>1. /\ session' = session /\ isRefreshing' = isRefreshing /\ call' = call
        /\ token' = token /\ parent' = parent /\ abandoned' = abandoned
        /\ account' = account
    BY <1>1 DEF SendRequest, SendLogin, Settled, MatchUser, server
  <2> QED  BY <2>1, SessionQuiet
<1>2. ASSUME NEW r \in Requests, Unauthorized(r) PROVE SessionInv'
  <2>1. CASE UNCHANGED <<isRefreshing, call>>
    <3>1. /\ session' = session /\ isRefreshing' = isRefreshing /\ call' = call
          /\ token' = token /\ parent' = parent /\ abandoned' = abandoned
          /\ account' = account
      BY <1>2, <2>1 DEF Unauthorized
    <3> QED  BY <3>1, SessionQuiet
  <2>2. ASSUME ~isRefreshing, isRefreshing' = TRUE,
               NEW h \in Handlers, call[h].at = "idle",
               call' = [call EXCEPT ![h] = [at |-> "select", pair |-> session, for |-> r]]
        PROVE  SessionInv'
    <3>1. /\ \A g \in Handlers : g # h => call'[g] = call[g]
          /\ call'[h].at = "select" /\ call'[h].pair = session
          /\ UNCHANGED <<session, token, parent, account, abandoned>>
      BY <1>2, <2>2 DEF Unauthorized, SessionTypeOK
    <3> QED  BY <2>2, <3>1, NoPairIsNone
             DEF SessionInv, RowsExist, UsedOnce, Unused, HeldTokenIsGood, Holds
  <2> QED  BY <1>2, <2>1, <2>2 DEF Unauthorized
<1>3. ASSUME NEW r \in Requests, LoseConnection(r) PROVE SessionInv'
  <2>1. \A h \in Handlers : call'[h].at = call[h].at /\ call'[h].pair = call[h].pair
    BY <1>3 DEF LoseConnection, SessionTypeOK, CallStates
  <2>2. session' = NoPair /\ UNCHANGED <<token, parent, account, abandoned>>
    BY <1>3 DEF LoseConnection, RefreshFailed
  <2> QED  BY <2>1, <2>2 DEF SessionInv, RowsExist, UsedOnce, Unused, HeldTokenIsGood, Holds
<1>4. ASSUME NEW r \in Requests, LoggedIn(r) PROVE SessionInv'
  <2>1. PICK p \in Pairs : Issue(p) /\ session' = p
    BY <1>4 DEF LoggedIn
  <2>2. /\ token[p] = "none" /\ token'[p] = "live" /\ p # NoPair
        /\ \A q \in Pairs : q # p => token'[q] = token[q]
        /\ UNCHANGED <<isRefreshing, call, parent, account, abandoned>>
    BY <1>4, <2>1, NoPairIsNone DEF LoggedIn, Issue, SessionTypeOK
  <2>3. /\ \A h \in Handlers : call[h].pair # p /\ call[h].pair \in Pairs \cup {NoPair}
        /\ \A q \in Pairs : parent[q] # p /\ parent[q] \in Pairs \cup {NoPair}
    BY <2>2 DEF SessionInv, RowsExist, SessionTypeOK, CallStates
  <2> QED  BY <2>1, <2>2, <2>3
           DEF SessionInv, RowsExist, UsedOnce, Unused, HeldTokenIsGood, Holds
<1>5. ASSUME NEW h \in Handlers, SelectToken(h) \/ FetchUser(h) \/ RefreshError(h)
      PROVE  SessionInv'
  <2>1. CASE Refuse(h)
    BY <1>5, <2>1, SessionRefuse DEF SelectToken, FetchUser, RefreshError
  <2>2. CASE SelectToken(h) /\ ~ Refuse(h)
    <3>1. /\ call[h].at = "select" /\ call[h].pair # NoPair
          /\ call' = [call EXCEPT ![h].at = "revoke"]
          /\ UNCHANGED <<session, isRefreshing, token, parent, account, abandoned>>
      BY <2>2 DEF SelectToken
    <3>2. /\ \A g \in Handlers : g # h => call'[g] = call[g]
          /\ call'[h].at = "revoke" /\ call'[h].pair = call[h].pair
      BY <3>1 DEF SessionTypeOK, CallStates
    <3> QED  BY <3>1, <3>2 DEF SessionInv, RowsExist, UsedOnce, Unused, HeldTokenIsGood, Holds
  <2>3. CASE FetchUser(h) /\ ~ Refuse(h)
    <3>1. /\ call[h].at = "user"
          /\ call' = [call EXCEPT ![h].at = "insert"]
          /\ UNCHANGED <<session, isRefreshing, token, parent, account, abandoned>>
      BY <2>3 DEF FetchUser
    <3>2. /\ \A g \in Handlers : g # h => call'[g] = call[g]
          /\ call'[h].at = "insert" /\ call'[h].pair = call[h].pair
      BY <3>1 DEF SessionTypeOK, CallStates
    <3> QED  BY <3>1, <3>2 DEF SessionInv, RowsExist, UsedOnce, Unused, HeldTokenIsGood, Holds
  <2> QED  BY <1>5, <2>1, <2>2, <2>3 DEF RefreshError
<1>6. ASSUME NEW h \in Handlers, RevokeToken(h) PROVE SessionInv'
  <2> DEFINE s == call[h].pair
  <2>1. /\ call[h].at = "revoke" /\ s \in Pairs
        /\ UNCHANGED <<session, isRefreshing, parent, account, abandoned>>
    BY <1>6 DEF RevokeToken, SessionInv, RowsExist, SessionTypeOK, CallStates
  <2>2. /\ \A g \in Handlers : g # h => call'[g] = call[g]
        /\ call'[h].at = "user" /\ call'[h].pair = call[h].pair
    BY <1>6 DEF RevokeToken, SessionTypeOK, CallStates
  <2>3. token'[s] = "revoked" /\ \A q \in Pairs : q # s => token'[q] = token[q]
    BY <1>6, <2>1 DEF RevokeToken, SessionTypeOK
  <2>4. RowsExist'
    BY <2>1, <2>2, <2>3 DEF SessionInv, RowsExist, SessionTypeOK, CallStates
  <2>5. UsedOnce' /\ Unused'
    BY <2>1, <2>2 DEF SessionInv, UsedOnce, Unused, Holds
  <2>6. HeldTokenIsGood'
    BY <2>1, <2>3 DEF SessionInv, Unused, HeldTokenIsGood, Holds, SessionTypeOK
  <2> QED  BY <2>4, <2>5, <2>6 DEF SessionInv
<1>7. ASSUME NEW h \in Handlers, InsertToken(h) PROVE SessionInv'
  <2> DEFINE s == call[h].pair
  <2>1. PICK p \in Pairs : /\ Issue(p)
                           /\ parent' = [parent EXCEPT ![p] = s]
                           /\ Answer(h, p)
    BY <1>7 DEF InsertToken
  <2>2. /\ call[h].at = "insert" /\ s \in Pairs /\ s # NoPair
        /\ UNCHANGED <<account, abandoned>>
    BY <1>7 DEF InsertToken, SessionInv, RowsExist, SessionTypeOK, CallStates
  <2>3. /\ call' = [call EXCEPT ![h] = NoCall]
        /\ \/ session' = session /\ isRefreshing' = isRefreshing
           \/ session' = p
    BY <2>1, AnswerEffect
  <2>4. /\ \A g \in Handlers : g # h => call'[g] = call[g]
        /\ call'[h].at = "idle" /\ call'[h].pair = NoPair
    BY <2>3 DEF SessionTypeOK, NoCall
  <2>5. /\ token[p] = "none" /\ token'[p] = "live" /\ p # NoPair
        /\ \A q \in Pairs : q # p => token'[q] = token[q]
        /\ parent'[p] = s /\ \A q \in Pairs : q # p => parent'[q] = parent[q]
    BY <2>1, NoPairIsNone DEF Issue, SessionTypeOK
  <2>6. /\ \A g \in Handlers : call[g].pair # p /\ call[g].pair \in Pairs \cup {NoPair}
        /\ \A q \in Pairs : parent[q] # p /\ parent[q] \in Pairs \cup {NoPair}
        /\ parent[p] = NoPair /\ session # p /\ session \in Pairs \cup {NoPair}
    BY <2>5 DEF SessionInv, RowsExist, SessionTypeOK, CallStates
  <2>7. RowsExist'
    BY <2>2, <2>3, <2>4, <2>5, <2>6 DEF SessionInv, RowsExist
  <2>8. UsedOnce'
    <3> SUFFICES ASSUME NEW t \in Pairs \ abandoned
                 PROVE  /\ \A f, g \in Handlers : Holds(f, t)' /\ Holds(g, t)' => f = g
                        /\ \A g \in Handlers, q \in Pairs : ~ (Holds(g, t)' /\ parent'[q] = t)
                        /\ \A q, o \in Pairs : parent'[q] = t /\ parent'[o] = t => q = o
      BY <2>2 DEF UsedOnce
    <3>1. \A g \in Handlers : Holds(g, t)' => g # h /\ Holds(g, t)
      BY <2>4 DEF Holds
    <3>2. Holds(h, s)
      BY <2>2 DEF Holds
    <3> QED  BY <2>5, <3>1, <3>2 DEF SessionInv, UsedOnce
  <2>9. Unused'
    BY <2>2, <2>3, <2>4, <2>5, <2>6 DEF SessionInv, Unused, Holds
  <2>10. HeldTokenIsGood'
    BY <2>2, <2>3, <2>5, <2>6 DEF SessionInv, HeldTokenIsGood
  <2> QED  BY <2>7, <2>8, <2>9, <2>10 DEF SessionInv
<1>8. CASE AccessLapses \/ DeleteUser
  <2>1. /\ session' = session /\ isRefreshing' = isRefreshing /\ call' = call
        /\ token' = token /\ parent' = parent /\ abandoned' = abandoned
        /\ account' = account \/ (account' = "deleted" /\ account = "active")
    <3>1. CASE AccessLapses
      BY <3>1 DEF AccessLapses, server
    <3>2. CASE DeleteUser
      BY <3>2 DEF DeleteUser, server
    <3> QED  BY <1>8, <3>1, <3>2
  <2> QED  BY <2>1, SessionQuiet
<1>9. CASE RevokeAll
  <2>1. /\ account' = "revoked"
        /\ \A p \in Pairs : token[p] # "none" => token'[p] # "none"
        /\ UNCHANGED <<session, isRefreshing, call, parent, abandoned>>
    BY <1>9 DEF RevokeAll
  <2> QED  BY <2>1 DEF SessionInv, RowsExist, UsedOnce, Unused, HeldTokenIsGood, Holds, SessionTypeOK, CallStates
<1>10. CASE Kill
  <2>1. /\ \A h \in Handlers : call'[h].at = call[h].at /\ call'[h].pair = call[h].pair
        /\ isRefreshing /\ session # NoPair => session \in abandoned'
        /\ abandoned \subseteq abandoned'
        /\ UNCHANGED <<session, token, parent, account>>
    BY <1>10 DEF Kill, SessionTypeOK, CallStates
  <2> QED  BY <2>1 DEF SessionInv, RowsExist, UsedOnce, Unused, HeldTokenIsGood, Holds
<1>11. CASE UNCHANGED sessionVars
  <2>1. /\ session' = session /\ isRefreshing' = isRefreshing /\ call' = call
        /\ token' = token /\ parent' = parent /\ abandoned' = abandoned
        /\ account' = account
    BY <1>11 DEF sessionVars
  <2> QED  BY <2>1, SessionQuiet
<1> QED  BY <1>1, <1>2, <1>3, <1>4, <1>5, <1>6, <1>7, <1>8, <1>9, <1>10, <1>11
         DEF SessionNext, Refresh

\* The app never has a refresh token exchanged twice, unless it was killed during
\* the first exchange: requests that fail together wait for one refresh
\* (client.ts:44-107), and a token that failed is cleared before another is used.
THEOREM TokenExchangedOnce == SessionSpec => []ExchangedOnce
<1>1. SessionTypeOK /\ SessionInv => ExchangedOnce
  BY DEF SessionInv, UsedOnce, ExchangedOnce, SessionTypeOK
<1> QED  BY <1>1, SessionInvInit, SessionInvStep, SessionTypesCorrect, PTL DEF SessionSpec

\* The refresh token that an app holds and is not exchanging is the live one of
\* its row, unless the tokens of the account were revoked: no order of refreshes,
\* log-ins, failures and kills leaves the app with a token it has used up.
THEOREM TokenIsGood == SessionSpec => []HeldTokenIsGood
<1>1. SessionInv => HeldTokenIsGood
  BY DEF SessionInv
<1> QED  BY <1>1, SessionInvInit, SessionInvStep, SessionTypesCorrect, PTL DEF SessionSpec
===============================================================================
