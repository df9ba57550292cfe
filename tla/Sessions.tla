------------------------------ MODULE Sessions ------------------------------
(***************************************************************************)
(* A session of the mobile app: the interceptor of apps/mobile/src/api/     *)
(* client.ts, which refreshes the tokens once for all requests that are     *)
(* answered 401, and the handlers of services/auth-service/src/routes/      *)
(* auth.ts that issue, rotate and revoke refresh tokens.  The app and the   *)
(* server interleave at every statement and every message; the app may be   *)
(* killed, its tokens are in MMKV and survive.                              *)
(***************************************************************************)
EXTENDS Naturals, FiniteSets

CONSTANTS
    Requests,     \* requests the app may have under way
    Handlers,     \* activations of POST /auth/refresh
    MaxPairs,     \* bound: pairs of tokens issued
    MaxKills      \* bound: kills of the app

ASSUME BoundsAssumption == MaxPairs \in Nat /\ MaxKills \in Nat

\* An access and a refresh token are issued together: a pair is a number.
Pairs == 1 .. MaxPairs
NoPair == 0

VARIABLES
    session,      \* the pair in MMKV
    isRefreshing,
    request,      \* the app's requests
    call,         \* the handlers of POST /auth/refresh
    token,        \* refresh_tokens: the row of each pair
    lapsed,       \* the pairs up to this one are older than 15 minutes
    parent,       \* history: the pair each pair was exchanged for
    account,      \* users.deleted_at, and whether its tokens were revoked too
    abandoned,    \* history: pairs the app was killed with while it exchanged them
    kills

sessionVars == <<session, isRefreshing, request, call, token, lapsed, parent, account, abandoned, kills>>
server == <<call, token, parent>>

RequestStates ==
    [at : {"idle", "sent", "matched", "queued", "refreshing"},
     kind : {"call", "login"}, pair : Pairs \cup {NoPair}, retry : BOOLEAN]
CallStates ==
    [at : {"idle", "select", "revoke", "user", "insert"},
     pair : Pairs \cup {NoPair}, for : Requests \cup {"nobody"}]

NoRequest == [at |-> "idle", kind |-> "call", pair |-> NoPair, retry |-> FALSE]
NoCall == [at |-> "idle", pair |-> NoPair, for |-> "nobody"]

SessionTypeOK ==
    /\ session \in Pairs \cup {NoPair}
    /\ isRefreshing \in BOOLEAN
    /\ request \in [Requests -> RequestStates]
    /\ call \in [Handlers -> CallStates]
    /\ token \in [Pairs -> {"none", "live", "revoked"}]
    /\ lapsed \in Pairs \cup {NoPair}
    /\ parent \in [Pairs -> Pairs \cup {NoPair}]
    /\ account \in {"active", "deleted", "revoked"}
    /\ abandoned \subseteq Pairs
    /\ kills \in 0 .. MaxKills

SessionInit ==
    /\ session = NoPair
    /\ isRefreshing = FALSE
    /\ request = [r \in Requests |-> NoRequest]
    /\ call = [h \in Handlers |-> NoCall]
    /\ token = [p \in Pairs |-> "none"]
    /\ lapsed = NoPair
    /\ parent = [p \in Pairs |-> NoPair]
    /\ account = "active"
    /\ abandoned = {}
    /\ kills = 0

\* issueRefreshToken inserts the row of pair p.
Issue(p) ==
    /\ token[p] = "none"
    /\ \A q \in Pairs : q < p => token[q] # "none"
    /\ token' = [token EXCEPT ![p] = "live"]

-----------------------------------------------------------------------------
(* The app *)

\* A request leaves with the access token of the session.
Sent(kind, pair, retry) == [at |-> "sent", kind |-> kind, pair |-> pair, retry |-> retry]

\* A request that was answered 401 awaits the refresh.
Await(at, r) == [at |-> at, kind |-> request[r].kind, pair |-> NoPair, retry |-> TRUE]

SendRequest(r) ==
    /\ request[r].at = "idle"
    /\ request' = [request EXCEPT ![r] = Sent("call", session, FALSE)]
    /\ UNCHANGED <<session, isRefreshing, server, lapsed, account, abandoned, kills>>

\* LoginScreen.handleLogin; the screen is for users without a session.
SendLogin(r) ==
    /\ session = NoPair
    /\ request[r].at = "idle"
    /\ \A q \in Requests : request[q].at # "idle" => request[q].kind = "call"
    /\ request' = [request EXCEPT ![r] = Sent("login", session, FALSE)]
    /\ UNCHANGED <<session, isRefreshing, server, lapsed, account, abandoned, kills>>

\* Any answer but 401, or no answer in 15 seconds.
Settled(r) ==
    /\ request[r].at \in {"sent", "matched"}
    /\ request' = [request EXCEPT ![r] = NoRequest]
    /\ UNCHANGED <<session, isRefreshing, server, lapsed, account, abandoned, kills>>

\* A variant of the interceptor without isRefreshing.
UnauthorizedAlone(r) ==
    /\ request[r].at = "sent"
    /\ request[r].kind = "login" \/ request[r].pair <= lapsed
    /\ \/ /\ request[r].retry
          /\ request' = [request EXCEPT ![r] = NoRequest]
          /\ UNCHANGED <<isRefreshing, call>>
       \/ /\ ~request[r].retry
          /\ isRefreshing' = TRUE
          /\ request' = [request EXCEPT ![r] = Await("refreshing", r)]
          /\ \E h \in Handlers :
                /\ call[h].at = "idle"
                /\ call' = [call EXCEPT ![h] = [at |-> "select", pair |-> session, for |-> r]]
    /\ UNCHANGED <<session, token, parent, lapsed, account, abandoned, kills>>

\* The answer is 401: the access token has lapsed or is missing (requireAuth), or
\* the login is refused.  The interceptor refreshes, once for all requests.
Unauthorized(r) ==
    /\ request[r].at = "sent"
    /\ request[r].kind = "login" \/ request[r].pair <= lapsed
    /\ \/ /\ request[r].retry
          /\ request' = [request EXCEPT ![r] = NoRequest]
          /\ UNCHANGED <<isRefreshing, call>>
       \/ /\ ~request[r].retry /\ isRefreshing
          /\ request' = [request EXCEPT ![r] = Await("queued", r)]
          /\ UNCHANGED <<isRefreshing, call>>
       \/ /\ ~request[r].retry /\ ~isRefreshing
          /\ isRefreshing' = TRUE
          /\ request' = [request EXCEPT ![r] = Await("refreshing", r)]
          /\ \E h \in Handlers :
                /\ call[h].at = "idle"
                /\ call' = [call EXCEPT ![h] = [at |-> "select", pair |-> session, for |-> r]]
    /\ UNCHANGED <<session, token, parent, lapsed, account, abandoned, kills>>

\* The requests that wait for the refresh of r.
Waiting(r) == {q \in Requests : q = r \/ request[q].at = "queued"}

\* The refresh answers pair p: the app stores it and repeats what waited.
Refreshed(r, p) ==
    /\ session' = p
    /\ request' = [q \in Requests |->
                      IF q \in Waiting(r) THEN Sent(request[q].kind, p, TRUE) ELSE request[q]]
    /\ isRefreshing' = FALSE

\* A variant without clearTokens.
RefreshFailedKeepingTokens(r) ==
    /\ request' = [q \in Requests |-> IF q \in Waiting(r) THEN NoRequest ELSE request[q]]
    /\ isRefreshing' = FALSE
    /\ UNCHANGED session

\* A variant without the finally block.
RefreshFailedKeepingFlag(r) ==
    /\ session' = NoPair
    /\ request' = [q \in Requests |-> IF q \in Waiting(r) THEN NoRequest ELSE request[q]]
    /\ UNCHANGED isRefreshing

\* The refresh fails: what waited is rejected and the tokens are cleared.
RefreshFailed(r) ==
    /\ session' = NoPair
    /\ request' = [q \in Requests |-> IF q \in Waiting(r) THEN NoRequest ELSE request[q]]
    /\ isRefreshing' = FALSE

\* The connection breaks; the handler, if there is one, goes on.
LoseConnection(r) ==
    /\ request[r].at = "refreshing"
    /\ RefreshFailed(r)
    /\ call' = [h \in Handlers |-> IF call[h].for = r THEN [call[h] EXCEPT !.for = "nobody"] ELSE call[h]]
    /\ UNCHANGED <<token, parent, lapsed, account, abandoned, kills>>

\* The app is killed and started again.
Kill ==
    /\ kills < MaxKills
    /\ kills' = kills + 1
    /\ abandoned' = IF isRefreshing /\ session # NoPair THEN abandoned \cup {session} ELSE abandoned
    /\ request' = [r \in Requests |-> NoRequest]
    /\ isRefreshing' = FALSE
    /\ call' = [h \in Handlers |-> [call[h] EXCEPT !.for = "nobody"]]
    /\ UNCHANGED <<session, token, parent, lapsed, account>>

-----------------------------------------------------------------------------
(* The auth service *)

\* Handler h answers pair p, or 400, 401 or 500.  The answer finds the app waiting
\* for it; or nobody waits any more, or the connection has fallen silent without
\* breaking: then the refresh, which is posted without a timeout, waits on.
Answer(h, p) ==
    /\ call' = [call EXCEPT ![h] = NoCall]
    /\ \/ UNCHANGED <<session, isRefreshing, request>>
       \/ call[h].for # "nobody" /\ p = NoPair /\ RefreshFailed(call[h].for)
       \/ call[h].for # "nobody" /\ p # NoPair /\ Refreshed(call[h].for, p)

Refuse(h) == Answer(h, NoPair) /\ UNCHANGED <<token, parent>>

\* SELECT ... FROM refresh_tokens
SelectToken(h) ==
    /\ call[h].at = "select"
    /\ IF call[h].pair # NoPair /\ token[call[h].pair] = "live"
       THEN /\ call' = [call EXCEPT ![h].at = "revoke"]
            /\ UNCHANGED <<session, isRefreshing, request, token, parent>>
       ELSE Refuse(h)
    /\ UNCHANGED <<lapsed, account, abandoned, kills>>

\* UPDATE refresh_tokens SET revoked = TRUE
RevokeToken(h) ==
    /\ call[h].at = "revoke"
    /\ token' = [token EXCEPT ![call[h].pair] = "revoked"]
    /\ call' = [call EXCEPT ![h].at = "user"]
    /\ UNCHANGED <<session, isRefreshing, request, parent, lapsed, account, abandoned, kills>>

\* SELECT * FROM users ... AND deleted_at IS NULL
FetchUser(h) ==
    /\ call[h].at = "user"
    /\ IF account = "active"
       THEN /\ call' = [call EXCEPT ![h].at = "insert"]
            /\ UNCHANGED <<session, isRefreshing, request, token, parent>>
       ELSE Refuse(h)
    /\ UNCHANGED <<lapsed, account, abandoned, kills>>

\* INSERT INTO refresh_tokens; the handler answers the new pair.
InsertToken(h) ==
    /\ call[h].at = "insert"
    /\ \E p \in Pairs :
          /\ Issue(p)
          /\ parent' = [parent EXCEPT ![p] = call[h].pair]
          /\ Answer(h, p)
    /\ UNCHANGED <<lapsed, account, abandoned, kills>>

\* A statement fails, or the token is older than 7 days.
RefreshError(h) ==
    /\ call[h].at # "idle"
    /\ Refuse(h)
    /\ UNCHANGED <<lapsed, account, abandoned, kills>>

Refresh(h) == SelectToken(h) \/ RevokeToken(h) \/ FetchUser(h) \/ InsertToken(h) \/ RefreshError(h)

\* POST /auth/login: the user and the password match ...
MatchUser(r) ==
    /\ request[r].at = "sent" /\ request[r].kind = "login"
    /\ account = "active"
    /\ request' = [request EXCEPT ![r].at = "matched"]
    /\ UNCHANGED <<session, isRefreshing, server, lapsed, account, abandoned, kills>>

\* ... and the tokens are issued, which the screen stores.
LoggedIn(r) ==
    /\ request[r].at = "matched"
    /\ \E p \in Pairs : Issue(p) /\ session' = p
    /\ request' = [request EXCEPT ![r] = NoRequest]
    /\ UNCHANGED <<isRefreshing, call, parent, lapsed, account, abandoned, kills>>

\* DELETE /auth/account of a user who is logged in somewhere: first the user ...
DeleteUser ==
    /\ account = "active"
    /\ \E p \in Pairs : p > lapsed /\ token[p] # "none"
    /\ account' = "deleted"
    /\ UNCHANGED <<session, isRefreshing, request, server, lapsed, abandoned, kills>>

\* ... then all rows of refresh_tokens (unless that fails).
RevokeAll ==
    /\ account = "deleted"
    /\ account' = "revoked"
    /\ token' = [p \in Pairs |-> IF token[p] = "none" THEN "none" ELSE "revoked"]
    /\ UNCHANGED <<session, isRefreshing, request, call, parent, lapsed, abandoned, kills>>

\* 15 minutes go by.
AccessLapses ==
    /\ lapsed < MaxPairs /\ token[lapsed + 1] # "none"
    /\ lapsed' = lapsed + 1
    /\ UNCHANGED <<session, isRefreshing, request, server, account, abandoned, kills>>

-----------------------------------------------------------------------------
SessionNext ==
    \/ \E r \in Requests : \/ SendRequest(r) \/ SendLogin(r) \/ Settled(r) \/ Unauthorized(r)
                           \/ LoseConnection(r) \/ MatchUser(r) \/ LoggedIn(r)
    \/ \E h \in Handlers : Refresh(h)
    \/ AccessLapses \/ DeleteUser \/ RevokeAll \/ Kill

SessionSpec == SessionInit /\ [][SessionNext]_sessionVars

\* A request of apiClient is answered or times out after 15 s, and the statements
\* of the server settle.  The refresh itself is posted without a timeout: nothing
\* says that a silent connection is ever noticed.
SessionFairness ==
    /\ \A r \in Requests : WF_request(Settled(r) \/ Unauthorized(r))
    /\ \A h \in Handlers : WF_call(Refresh(h))

SessionFairSpec == SessionSpec /\ SessionFairness

-----------------------------------------------------------------------------
\* The app never exchanges a token twice, however many requests find their access
\* token lapsed at once, unless it is killed while it waits for the answer.
ExchangedOnce ==
    \A p, q \in Pairs :
        p # q /\ parent[p] = parent[q] /\ parent[p] # NoPair => parent[p] \in abandoned

\* The token the app would refresh with is one that the server accepts (for 7
\* days): no failure leaves the app with a token that was rotated away.
HeldTokenIsGood ==
    session # NoPair /\ ~isRefreshing /\ session \notin abandoned /\ account # "revoked"
        => token[session] = "live"

\* A refresh is under way that no handler will answer.
Unheard == \E r \in Requests : request[r].at = "refreshing" /\ \A h \in Handlers : call[h].for # r

\* Every request ends: none is left in refreshQueue, unless the one refresh that
\* it waits for is never heard of again (client.ts:56-95).  That excuse is real:
\* axios.post has no timeout at client.ts:72, and while isRefreshing stays set
\* every later 401 is queued too.
RequestsSettle ==
    \A r \in Requests : request[r].at # "idle" ~> (request[r].at = "idle" \/ []Unheard)
=============================================================================
