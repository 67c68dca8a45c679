------------------------------ MODULE AppSession ------------------------------
(***************************************************************************)
(* The session of the mobile app (client/lib/core/network/dio_client.dart, *)
(* features/auth/data/auth_repository.dart and cubit/auth_cubit.dart).     *)
(* Every request carries the stored access token.  The requests that come  *)
(* back with 401 share one refresh call and are sent once more with its    *)
(* token; signing out, signing in as somebody else and the death of the    *)
(* app happen while calls are under way.                                   *)
(***************************************************************************)
EXTENDS Integers

CONSTANTS
  Holders,   \* accounts that sign in on this device
  Requests,  \* requests that may overlap
  MaxTokens  \* bound: tokens issued

ASSUME SessionAssumption == MaxTokens \in Nat

VARIABLES
  access,    \* jwt_access_token: [owner, n], or NoToken
  refresh,   \* jwt_refresh_token: likewise
  userId,    \* user_id and username as stored, Guest for none
  shown,     \* the account AuthCubit shows, Guest for none
  minted,    \* tokens issued so far
  refusals,  \* tokens the server no longer takes: expired, or their account is gone
  request,   \* [Requests -> the request's state, token and whether it is a repeat]
  flight     \* _refreshFuture: the refresh call under way and its token

sessionVars == <<access, refresh, userId, shown, minted, refusals, request, flight>>
stored      == <<access, refresh, userId, shown>>

Guest     == "guest"
NoToken   == [owner |-> Guest, n |-> 0]
NoFlight  == [pc |-> "none", token |-> NoToken]
NoRequest == [pc |-> "idle", token |-> NoToken, again |-> FALSE]
Taken(t)  == t # NoToken /\ t.n \notin refusals

SessionInit ==
  /\ access = NoToken /\ refresh = NoToken /\ userId = Guest /\ shown = Guest
  /\ minted = 0 /\ refusals = {}
  /\ request = [r \in Requests |-> NoRequest]
  /\ flight = NoFlight

\* k new tokens, the first of them the access token
Mint(u, k) == /\ minted + k <= MaxTokens /\ minted' = minted + k
              /\ access' = [owner |-> u, n |-> minted + 1]

-----------------------------------------------------------------------------
\* verifyOtp: the answer's tokens and account are stored together.
SaveSession(u) ==
  /\ shown = Guest /\ Mint(u, 2)
  /\ refresh' = [owner |-> u, n |-> minted + 2]
  /\ userId' = u /\ shown' = u
  /\ UNCHANGED <<refusals, request, flight>>

Forget == access' = NoToken /\ refresh' = NoToken /\ userId' = Guest /\ shown' = Guest

Logout ==
  /\ shown # Guest /\ Forget
  /\ UNCHANGED <<minted, refusals, request, flight>>

\* init: a stored access token is taken as it is; without one the refresh token is
\* used, and whatever goes wrong with it signs the player out.
Restart ==
  /\ request' = [r \in Requests |-> NoRequest] /\ flight' = NoFlight
  /\ IF access # NoToken /\ userId # Guest
     THEN shown' = userId /\ UNCHANGED <<access, refresh, userId, minted>>
     ELSE IF refresh = NoToken THEN shown' = Guest /\ UNCHANGED <<access, refresh, userId, minted>>
     ELSE \/ Taken(refresh) /\ Mint(refresh.owner, 1) /\ shown' = userId /\ UNCHANGED <<refresh, userId>>
          \/ Forget /\ UNCHANGED minted
  /\ UNCHANGED refusals

-----------------------------------------------------------------------------
Becomes(r, state) == request' = [request EXCEPT ![r] = state]
Ends(r)           == Becomes(r, NoRequest)
Stranded(r)       == request[r].pc = "stranded"
Pending(r)        == request[r].pc \in {"sent", "waiting"}

\* onRequest
OnRequest(r) ==
  /\ ~Pending(r) /\ ~Stranded(r)
  /\ Becomes(r, [pc |-> "sent", token |-> access, again |-> FALSE])
  /\ UNCHANGED <<stored, minted, refusals, flight>>

Answered(r) ==
  /\ request[r].pc = "sent" /\ Taken(request[r].token) /\ Ends(r)
  /\ UNCHANGED <<stored, minted, refusals, flight>>

Lost(r) ==
  /\ request[r].pc = "sent" /\ Ends(r)
  /\ UNCHANGED <<stored, minted, refusals, flight>>

\* onError for a 401 of an ordinary request: it joins the refresh under way, or
\* starts one with the refresh token that is stored now.
OnError(r) ==
  /\ request[r].pc = "sent" /\ ~Taken(request[r].token)
  /\ IF request[r].again \/ refresh = NoToken
     THEN Ends(r) /\ UNCHANGED flight
     ELSE /\ Becomes(r, [request[r] EXCEPT !.pc = "waiting"])
          /\ flight' = IF flight = NoFlight THEN [pc |-> "asked", token |-> refresh] ELSE flight
  /\ UNCHANGED <<stored, minted, refusals>>

-----------------------------------------------------------------------------
(* _performRefresh                                                         *)

RefreshGranted ==
  /\ flight.pc = "asked" /\ Taken(flight.token) /\ Mint(flight.token.owner, 1)
  /\ flight' = [pc |-> "granted", token |-> access']
  /\ UNCHANGED <<refresh, userId, shown, refusals, request>>

\* Mutant: the 401 of the refresh call waits for the refresh, like any other.
Mut_RefreshRejected ==
  /\ flight.pc = "asked" /\ ~Taken(flight.token)
  /\ flight' = [flight EXCEPT !.pc = "waiting"]
  /\ UNCHANGED <<stored, minted, refusals, request>>

\* A 401 of the refresh call itself, which does not go through onError again: the
\* stored tokens are removed, first one ...
RefreshRejected ==
  /\ flight.pc = "asked" /\ ~Taken(flight.token)
  /\ access' = NoToken /\ flight' = [flight EXCEPT !.pc = "removing"]
  /\ UNCHANGED <<refresh, userId, shown, minted, refusals, request>>

\* ... then the other.
RemoveRefresh ==
  /\ flight.pc = "removing" /\ refresh' = NoToken
  /\ flight' = [flight EXCEPT !.pc = "null"]
  /\ UNCHANGED <<access, userId, shown, minted, refusals, request>>

\* Any other DioException leaves the session as it is.
RefreshFails ==
  /\ flight.pc = "asked" /\ flight' = [flight EXCEPT !.pc = "null"]
  /\ UNCHANGED <<stored, minted, refusals, request>>

\* What is no DioException is not caught: the body of a 200 that holds no token, a
\* token or a removal that cannot be written (in memory it may be done).  The future
\* ends in that error, and the await of onError stands outside its try: no waiter's
\* handler is called any more.
RefreshThrows ==
  /\ \/ flight.pc = "asked" /\ UNCHANGED <<access, refresh, minted>>
     \/ flight.pc = "asked" /\ Taken(flight.token) /\ Mint(flight.token.owner, 1) /\ UNCHANGED refresh
     \/ flight.pc = "asked" /\ ~Taken(flight.token) /\ access' = NoToken /\ UNCHANGED <<refresh, minted>>
     \/ flight.pc = "removing" /\ refresh' \in {refresh, NoToken} /\ UNCHANGED <<access, minted>>
  /\ request' = [r \in Requests |->
       IF request[r].pc = "waiting" THEN [request[r] EXCEPT !.pc = "stranded"] ELSE request[r]]
  /\ flight' = NoFlight
  /\ UNCHANGED <<userId, shown, refusals>>

\* The future completes: whoever waited fails, or is sent once more.  The repeat goes
\* through onRequest, whose token, if one is stored, replaces the refreshed one.
Repeated == [pc |-> "sent", token |-> IF access # NoToken THEN access ELSE flight.token, again |-> TRUE]
PerformRefresh ==
  /\ flight.pc \in {"granted", "null"}
  /\ request' = [r \in Requests |->
       IF request[r].pc # "waiting" THEN request[r]
       ELSE IF flight.pc = "granted" THEN Repeated ELSE NoRequest]
  /\ flight' = NoFlight
  /\ UNCHANGED <<stored, minted, refusals>>

\* On the server a token expires or its account is banned or deleted.
Expire(n) ==
  /\ n \notin refusals /\ refusals' = refusals \cup {n}
  /\ UNCHANGED <<stored, minted, request, flight>>

SessionNext ==
  \/ \E u \in Holders : SaveSession(u)
  \/ Logout \/ Restart
  \/ \E r \in Requests : OnRequest(r) \/ Answered(r) \/ Lost(r) \/ OnError(r)
  \/ RefreshGranted \/ RefreshRejected \/ RemoveRefresh \/ RefreshFails
  \/ RefreshThrows \/ PerformRefresh
  \/ \E n \in 1 .. minted : Expire(n)

\* Every call ends: it is answered, or times out after ten seconds (Dio's limits).
CallEnds(r)   == Answered(r) \/ Lost(r) \/ OnError(r)
RefreshEnds   == RefreshGranted \/ RefreshRejected \/ RefreshFails \/ RefreshThrows
SessionFairness ==
  /\ \A r \in Requests : WF_sessionVars(CallEnds(r))
  /\ WF_sessionVars(RefreshEnds) /\ WF_sessionVars(RemoveRefresh) /\ WF_sessionVars(PerformRefresh)
SessionSpec == SessionInit /\ [][SessionNext]_sessionVars /\ SessionFairness

-----------------------------------------------------------------------------
\* No request waits for ever, whatever the others and the session do, unless the
\* refresh it waits for throws: a refresh that is refused does not wait for itself,
\* every waiter of a future that completes gets its outcome, and what a refresh that
\* threw has stranded holds up no request and no refresh after it.
RequestsAreAnswered ==
  \A r \in Requests : [](Pending(r) => <>(request[r].pc = "idle" \/ Stranded(r)))

\* The 401s that share one refresh do not "fail permanently even though a valid new
\* token lands moments later": each request ends.  (Comment on _refreshFuture; it does
\* not hold: RefreshThrows.)
NobodyIsStranded == \A r \in Requests : [](Pending(r) => <>(request[r].pc = "idle"))

\* "Only a definitive rejection from the refresh endpoint ... clears stored
\* credentials": besides signing out, a refresh token is removed only if the
\* server refuses that one.  (Comment; it does not hold: the rejection may be of
\* the session before.)
OnlyRejectionClears ==
  [][refresh # NoToken /\ refresh' = NoToken => userId' = Guest \/ refresh.n \in refusals]_sessionVars
=============================================================================
