------------------------------ MODULE AppProofs ------------------------------
(***************************************************************************)
(* The safety that the liveness of the mobile app rests on, for any        *)
(* accounts, requests, games, purchases and bounds: a waiting request has  *)
(* its refresh under way (AppSession), no game is taken for synced that    *)
(* the server could still take (AppSync), and no purchase is consumed      *)
(* before it is delivered, or delivered to another account (AppStore).     *)
(***************************************************************************)
EXTENDS AppSession, AppSync, AppStore, TLAPS

-----------------------------------------------------------------------------
(* AppSession                                                              *)

Flying == {"asked", "removing", "granted", "null"}

RequestTypes ==
  /\ request = [r \in Requests |-> request[r]]
  /\ \A r \in Requests : request[r] = [pc |-> request[r].pc, token |-> request[r].token, again |-> request[r].again]
  /\ flight = [pc |-> flight.pc, token |-> flight.token]
  /\ flight.pc \in Flying \cup {"none"} /\ (flight.pc = "none" => flight = NoFlight)

\* Whoever waits is waited for: the shared refresh is under way, also after another
\* one threw and stranded its waiters; and it is the request's first try that waits or
\* is stranded, so that it is sent twice at most (onError, _performRefresh).
WaitersAreServed ==
  \A r \in Requests :
    /\ request[r].pc = "waiting" => flight.pc \in Flying
    /\ request[r].pc = "waiting" \/ Stranded(r) => ~request[r].again

SessionInv == RequestTypes /\ WaitersAreServed

\* A request that changes to a state in which it does not wait
LEMMA RequestMoves ==
  ASSUME SessionInv, NEW r \in Requests, NEW state,
         state = [pc |-> state.pc, token |-> state.token, again |-> state.again],
         state.pc = "waiting" => flight'.pc \in Flying /\ ~state.again,
         state.pc # "stranded",
         Becomes(r, state), flight' = flight \/ flight'.pc \in Flying,
         flight' = [pc |-> flight'.pc, token |-> flight'.token]
  PROVE  SessionInv'
<1>1. request' = [request EXCEPT ![r] = state] BY DEF Becomes
<1>2. request = [q \in Requests |-> request[q]] BY DEF SessionInv, RequestTypes
<1>3. request'[r] = state /\ \A q \in Requests : q # r => request'[q] = request[q]
  BY <1>1, <1>2
<1>4. request' = [q \in Requests |-> request'[q]] BY <1>1, <1>2
<1>5. flight'.pc \in Flying \cup {"none"} /\ (flight'.pc = "none" => flight' = NoFlight)
  BY DEF SessionInv, RequestTypes, Flying
<1>6. RequestTypes'
  <2>1. \A q \in Requests :
          request'[q] = [pc |-> request'[q].pc, token |-> request'[q].token, again |-> request'[q].again]
    <3>1. ASSUME NEW q \in Requests
          PROVE  request'[q] = [pc |-> request'[q].pc, token |-> request'[q].token, again |-> request'[q].again]
      <4>1. CASE q = r BY <1>3, <4>1
      <4>2. CASE q # r BY <1>3, <4>2 DEF SessionInv, RequestTypes
      <4> QED BY <4>1, <4>2
    <3> QED BY <3>1
  <2> QED BY <1>4, <1>5, <2>1 DEF RequestTypes
<1>7. WaitersAreServed'
  <2>1. ASSUME NEW q \in Requests
        PROVE  /\ request'[q].pc = "waiting" => flight'.pc \in Flying
               /\ request'[q].pc = "waiting" \/ request'[q].pc = "stranded" => ~request'[q].again
    <3>1. CASE q = r BY <1>3, <3>1
    <3>2. CASE q # r
      <4>1. /\ request[q].pc = "waiting" => flight.pc \in Flying
            /\ request[q].pc = "waiting" \/ request[q].pc = "stranded" => ~request[q].again
        BY DEF SessionInv, WaitersAreServed, Stranded
      <4> QED BY <1>3, <3>2, <4>1
    <3> QED BY <3>1, <3>2
  <2> QED BY <2>1 DEF WaitersAreServed, Stranded
<1> QED BY <1>6, <1>7 DEF SessionInv

\* The refresh goes on, while its waiters wait.
LEMMA FlightMoves ==
  ASSUME SessionInv, request' = request, flight' = [pc |-> flight'.pc, token |-> flight'.token],
         flight'.pc \in Flying
  PROVE  SessionInv'
BY DEF SessionInv, RequestTypes, WaitersAreServed, Flying, Stranded

LEMMA SessionStart == SessionInit => SessionInv
<1> SUFFICES ASSUME SessionInit PROVE SessionInv
  OBVIOUS
<1>1. request = [r \in Requests |-> NoRequest] /\ flight = NoFlight BY DEF SessionInit
<1>2. \A r \in Requests : request[r] = NoRequest /\ request[r].pc = "idle" BY <1>1 DEF NoRequest
<1>3. NoRequest = [pc |-> NoRequest.pc, token |-> NoRequest.token, again |-> NoRequest.again]
  BY DEF NoRequest
<1>4. flight.pc = "none" /\ flight = [pc |-> flight.pc, token |-> flight.token] BY <1>1 DEF NoFlight
<1> QED BY <1>1, <1>2, <1>3, <1>4 DEF SessionInv, RequestTypes, WaitersAreServed, Stranded

LEMMA SessionStep == SessionInv /\ [SessionNext]_sessionVars => SessionInv'
<1> SUFFICES ASSUME SessionInv, [SessionNext]_sessionVars PROVE SessionInv'
  OBVIOUS
<1>0. flight = [pc |-> flight.pc, token |-> flight.token]
  BY DEF SessionInv, RequestTypes
<1>1. CASE request' = request /\ flight' = flight
  BY <1>1 DEF SessionInv, RequestTypes, WaitersAreServed, Stranded
<1>2. CASE UNCHANGED sessionVars BY <1>1, <1>2 DEF sessionVars
<1>3. CASE Logout BY <1>1, <1>3 DEF Logout
<1>4. ASSUME NEW u, SaveSession(u) PROVE SessionInv' BY <1>1, <1>4 DEF SaveSession
<1>5. CASE Restart
  <2>1. request' = [r \in Requests |-> NoRequest] /\ flight' = NoFlight BY <1>5 DEF Restart
  <2> QED BY <2>1 DEF SessionInv, RequestTypes, WaitersAreServed, NoRequest, NoFlight, Flying, Stranded
<1>6. ASSUME NEW r \in Requests, OnRequest(r) PROVE SessionInv'
  <2>1. PICK state : state = [pc |-> "sent", token |-> access, again |-> FALSE] OBVIOUS
  <2>2. Becomes(r, state) /\ flight' = flight BY <1>6, <2>1 DEF OnRequest
  <2>3. state.pc = "sent" /\ state = [pc |-> state.pc, token |-> state.token, again |-> state.again] BY <2>1
  <2> QED BY <1>0, <2>2, <2>3, RequestMoves
<1>7. ASSUME NEW r \in Requests, Ends(r), flight' = flight PROVE SessionInv'
  <2>1. PICK state : state = NoRequest OBVIOUS
  <2>2. Becomes(r, state) BY <1>7, <2>1 DEF Ends
  <2>3. state.pc = "idle" /\ state = [pc |-> state.pc, token |-> state.token, again |-> state.again]
    BY <2>1 DEF NoRequest
  <2> QED BY <1>0, <1>7, <2>2, <2>3, RequestMoves
<1>8. ASSUME NEW r \in Requests, Answered(r) \/ Lost(r) PROVE SessionInv'
  BY <1>7, <1>8 DEF Answered, Lost
<1>9. ASSUME NEW r \in Requests, OnError(r) PROVE SessionInv'
  <2>1. CASE request[r].again \/ refresh = NoToken
    BY <1>7, <1>9, <2>1 DEF OnError
  <2>2. CASE ~(request[r].again \/ refresh = NoToken)
    <3>1. PICK state : state = [request[r] EXCEPT !.pc = "waiting"] OBVIOUS
    <3>2. Becomes(r, state) BY <1>9, <2>2, <3>1 DEF OnError
    <3>3. state = [pc |-> state.pc, token |-> state.token, again |-> state.again]
      BY <3>1 DEF SessionInv, RequestTypes
    <3>4. ~state.again /\ state.pc = "waiting" BY <2>2, <3>1, <3>3 DEF SessionInv, RequestTypes
    <3>5. flight' = [pc |-> flight'.pc, token |-> flight'.token] /\ flight'.pc \in Flying
      <4>1. CASE flight = NoFlight
        <5>1. flight' = [pc |-> "asked", token |-> refresh] BY <1>9, <2>2, <4>1 DEF OnError
        <5> QED BY <5>1 DEF Flying
      <4>2. CASE flight # NoFlight
        <5>1. flight' = flight BY <1>9, <2>2, <4>2 DEF OnError
        <5> QED BY <1>0, <4>2, <5>1 DEF SessionInv, RequestTypes
      <4> QED BY <4>1, <4>2
    <3> QED BY <3>2, <3>3, <3>4, <3>5, RequestMoves
  <2> QED BY <2>1, <2>2
<1>10. CASE RefreshGranted
  <2>1. flight' = [pc |-> "granted", token |-> access'] /\ request' = request BY <1>10 DEF RefreshGranted
  <2> QED BY <2>1, FlightMoves DEF Flying
<1>11. CASE RefreshRejected \/ RemoveRefresh \/ RefreshFails
  <2>1. PICK pc : flight' = [flight EXCEPT !.pc = pc] /\ pc \in Flying /\ request' = request
    BY <1>11 DEF RefreshRejected, RemoveRefresh, RefreshFails, Flying
  <2>2. flight' = [pc |-> flight'.pc, token |-> flight'.token] /\ flight'.pc \in Flying BY <1>0, <2>1
  <2> QED BY <2>1, <2>2, FlightMoves
<1>12. CASE PerformRefresh
  <2>1. PICK sent : sent = Repeated OBVIOUS
  <2>2. /\ flight' = NoFlight
        /\ request' = [r \in Requests |-> IF request[r].pc # "waiting" THEN request[r]
                                          ELSE IF flight.pc = "granted" THEN sent ELSE NoRequest]
    BY <1>12, <2>1 DEF PerformRefresh
  <2>3. ASSUME NEW r \in Requests
        PROVE  /\ request'[r].pc # "waiting" /\ (request'[r].pc = "stranded" => ~request'[r].again)
               /\ request'[r] = [pc |-> request'[r].pc, token |-> request'[r].token, again |-> request'[r].again]
    <3>1. CASE request[r].pc # "waiting"
      BY <2>2, <3>1 DEF SessionInv, RequestTypes, WaitersAreServed, Stranded
    <3>2. CASE request[r].pc = "waiting"
      <4>1. request'[r] = sent \/ request'[r] = NoRequest BY <2>2, <3>2
      <4> QED BY <2>1, <4>1 DEF NoRequest, Repeated
    <3> QED BY <3>1, <3>2
  <2>4. request' = [r \in Requests |-> request'[r]] BY <2>2
  <2> QED BY <2>2, <2>3, <2>4 DEF SessionInv, RequestTypes, WaitersAreServed, NoFlight, Stranded
<1>13. ASSUME NEW n, Expire(n) PROVE SessionInv' BY <1>1, <1>13 DEF Expire
<1>14. CASE RefreshThrows
  <2>1. /\ flight' = NoFlight
        /\ request' = [r \in Requests |-> IF request[r].pc = "waiting"
                                          THEN [request[r] EXCEPT !.pc = "stranded"] ELSE request[r]]
    BY <1>14 DEF RefreshThrows
  <2>2. ASSUME NEW r \in Requests
        PROVE  /\ request'[r].pc # "waiting" /\ (request'[r].pc = "stranded" => ~request'[r].again)
               /\ request'[r] = [pc |-> request'[r].pc, token |-> request'[r].token, again |-> request'[r].again]
    <3>1. request[r] = [pc |-> request[r].pc, token |-> request[r].token, again |-> request[r].again]
      BY DEF SessionInv, RequestTypes
    <3>2. request[r].pc = "waiting" \/ request[r].pc = "stranded" => ~request[r].again
      BY DEF SessionInv, WaitersAreServed, Stranded
    <3>3. CASE request[r].pc # "waiting" BY <2>1, <3>1, <3>2, <3>3
    <3>4. CASE request[r].pc = "waiting" BY <2>1, <3>1, <3>2, <3>4
    <3> QED BY <3>3, <3>4
  <2>3. request' = [r \in Requests |-> request'[r]] BY <2>1
  <2> QED BY <2>1, <2>2, <2>3 DEF SessionInv, RequestTypes, WaitersAreServed, NoFlight, Stranded
<1> QED
  BY <1>2, <1>3, <1>4, <1>5, <1>6, <1>8, <1>9, <1>10, <1>11, <1>12, <1>13, <1>14 DEF SessionNext

\* The safety half of RequestsAreAnswered: nobody waits for a refresh that is not under
\* way, whatever the others, a refresh that throws, a sign-out, another account or a
\* restart do meanwhile.
THEOREM WaitersAlwaysServed == SessionSpec => []WaitersAreServed
<1>1. SessionInv => WaitersAreServed BY DEF SessionInv
<1> QED BY <1>1, SessionStart, SessionStep, PTL DEF SessionSpec

-----------------------------------------------------------------------------
(* AppSync                                                                 *)

Rows(l) == loop[l].todo

\* What a run of sync() carries: finished games, and of the one it has posted the
\* server's word.
LoopIsSound(l) ==
  \/ loop[l].pc \in {"idle", "stats", "read", "merge"}
  \/ loop[l].pc = "upload" /\ Rows(l) \subseteq Finished
  \/ /\ loop[l].pc = "posted" /\ Rows(l) \subseteq Finished /\ loop[l].game \in Finished
     /\ loop[l].game \in server \cup Judged("barred")

SyncTypes ==
  /\ verdict \in [Matches -> {"kept", "invalid", "barred"}]
  /\ status \in [Matches -> {"none", "active", "finished"}]
  /\ loop = [l \in Loops |-> loop[l]]

\* Only games that are over are sent, and only those the server has or will never
\* take are marked as synced.
OutboxIsSound == marked \cup server \subseteq Finished /\ NothingIsDropped

SyncInv == SyncTypes /\ OutboxIsSound /\ \A l \in Loops : LoopIsSound(l)

\* Every step: games stay finished, and the server forgets none.
LEMMA LoopsGoOn ==
  ASSUME SyncInv, verdict' = verdict, server \subseteq server', Finished \subseteq Finished',
         NEW l \in Loops, loop'[l] = loop[l]
  PROVE  LoopIsSound(l)'
<1>1. Judged("barred")' = Judged("barred") BY DEF Judged
<1>2. LoopIsSound(l) BY DEF SyncInv
<1> QED BY <1>1, <1>2 DEF LoopIsSound, Rows

\* A step of one run
LEMMA LoopSteps ==
  ASSUME SyncInv, NEW l \in Loops, NEW state, Step(l, state), status' = status, verdict' = verdict,
         server \subseteq server', LoopIsSound(l)', OutboxIsSound'
  PROVE  SyncInv'
<1>1. loop' = [loop EXCEPT ![l] = state] BY DEF Step
<1>2. loop' = [k \in Loops |-> loop'[k]] /\ \A k \in Loops : k # l => loop'[k] = loop[k]
  BY <1>1 DEF SyncInv, SyncTypes
<1>3. SyncTypes' BY <1>2 DEF SyncInv, SyncTypes
<1>4. Finished \subseteq Finished' BY DEF Finished
<1>5. \A k \in Loops : LoopIsSound(k)' BY <1>2, <1>4, LoopsGoOn
<1> QED BY <1>3, <1>5 DEF SyncInv

\* Nothing on the device or the server but a run moves.
LEMMA SameRows ==
  ASSUME SyncInv, UNCHANGED <<verdict, status, marked, server>>
  PROVE  OutboxIsSound' /\ Finished' = Finished
BY DEF SyncInv, OutboxIsSound, NothingIsDropped, Finished, Judged

LEMMA SyncStart == SyncInit => SyncInv
BY DEF SyncInit, SyncInv, SyncTypes, OutboxIsSound, NothingIsDropped, LoopIsSound, NoLoop, Finished

\* The games on the device
LEMMA DeviceStep ==
  ASSUME SyncInv, NEW g \in Matches, StartLocalGame(g) \/ FinishLocalGame(g)
  PROVE  SyncInv'
<1>1. PICK s \in {"active", "finished"} :
        /\ status' = [status EXCEPT ![g] = s] /\ status[g] # "finished"
        /\ UNCHANGED <<verdict, marked, server, loop>>
  BY DEF StartLocalGame, FinishLocalGame
<1>2. Finished \subseteq Finished' BY <1>1 DEF Finished, SyncInv, SyncTypes
<1>3. \A l \in Loops : LoopIsSound(l)' BY <1>1, <1>2, LoopsGoOn
<1>4. SyncTypes' BY <1>1 DEF SyncInv, SyncTypes
<1>5. OutboxIsSound' BY <1>1, <1>2 DEF SyncInv, OutboxIsSound, NothingIsDropped, Judged
<1> QED BY <1>3, <1>4, <1>5 DEF SyncInv

LEMMA PostStep ==
  ASSUME SyncInv, NEW l \in Loops, NEW g \in Matches, Post(l, g)
  PROVE  SyncInv'
<1>1. loop[l].pc = "upload" /\ Rows(l) \subseteq Finished /\ g \in Rows(l)
  BY DEF Post, Oldest, SyncInv, LoopIsSound, Rows
<1>2. /\ status' = status /\ verdict' = verdict /\ marked' = marked
  BY DEF Post
<1>3. Finished' = Finished /\ Judged("barred")' = Judged("barred") BY <1>2 DEF Finished, Judged
<1>4. loop = [k \in Loops |-> loop[k]] BY DEF SyncInv, SyncTypes
<1>5. CASE ~signedIn \/ verdict[g] = "invalid"
  <2>1. PICK state : state = [pc |-> "upload", todo |-> Rows(l) \ {g}] OBVIOUS
  <2>2. Step(l, state) /\ server' = server BY <1>5, <2>1 DEF Post, Refuse, Uploading, Rows
  <2>3. loop'[l] = state BY <1>4, <2>2 DEF Step
  <2>4. LoopIsSound(l)' BY <1>1, <1>3, <2>1, <2>3 DEF LoopIsSound, Rows
  <2>5. OutboxIsSound' BY <1>2, <2>2, SameRows
  <2> QED BY <1>2, <2>2, <2>4, <2>5, LoopSteps
<1>6. CASE ~(~signedIn \/ verdict[g] = "invalid")
  <2>1. PICK state : state = [pc |-> "posted", game |-> g, todo |-> Rows(l) \ {g}] OBVIOUS
  <2>2. Step(l, state) /\ server' = server \cup ({g} \cap Judged("kept"))
    BY <1>6, <2>1 DEF Post, Rows
  <2>3. loop'[l] = state BY <1>4, <2>2 DEF Step
  <2>4. g \in server' \cup Judged("barred")
    BY <1>6, <2>2 DEF SyncInv, SyncTypes, Judged
  <2>5. LoopIsSound(l)' BY <1>1, <1>3, <2>1, <2>3, <2>4 DEF LoopIsSound, Rows
  <2>6. OutboxIsSound'
    BY <1>1, <1>2, <1>3, <2>2 DEF SyncInv, OutboxIsSound, NothingIsDropped
  <2> QED BY <1>2, <2>2, <2>5, <2>6, LoopSteps
<1> QED BY <1>5, <1>6

LEMMA MarkStep ==
  ASSUME SyncInv, NEW l \in Loops, MarkSynced(l)
  PROVE  SyncInv'
<1>1. /\ loop[l].pc = "posted" /\ Rows(l) \subseteq Finished /\ loop[l].game \in Finished
      /\ loop[l].game \in server \cup Judged("barred")
  BY DEF MarkSynced, SyncInv, LoopIsSound
<1>2. /\ status' = status /\ verdict' = verdict /\ server' = server
      /\ marked' = marked \cup {loop[l].game}
  BY DEF MarkSynced
<1>3. Finished' = Finished /\ Judged("barred")' = Judged("barred") BY <1>2 DEF Finished, Judged
<1>4. PICK state : state = [pc |-> "upload", todo |-> Rows(l)] OBVIOUS
<1>5. Step(l, state) BY <1>4 DEF MarkSynced, Uploading, Rows
<1>6. loop'[l] = state BY <1>5 DEF Step, SyncInv, SyncTypes
<1>7. LoopIsSound(l)' BY <1>1, <1>3, <1>4, <1>6 DEF LoopIsSound, Rows
<1>8. OutboxIsSound' BY <1>1, <1>2, <1>3 DEF SyncInv, OutboxIsSound, NothingIsDropped
<1> QED BY <1>2, <1>5, <1>7, <1>8, LoopSteps

\* The rest of a run uploads nothing.
LEMMA QuietStep ==
  ASSUME SyncInv, NEW l \in Loops,
         GetUnsyncedMatches(l) \/ Abort(l) \/ FetchStats(l) \/ StatsFail(l) \/ GetLocalStats(l) \/ MergeWithRemote(l)
  PROVE  SyncInv'
<1>1. status' = status /\ verdict' = verdict /\ server' = server /\ marked' = marked
  BY DEF GetUnsyncedMatches, Abort, FetchStats, StatsFail, GetLocalStats, MergeWithRemote
<1>2. OutboxIsSound' /\ Finished' = Finished BY <1>1, SameRows
<1>3. PICK state : /\ Step(l, state)
                   /\ \/ state.pc \in {"idle", "stats", "read", "merge"}
                      \/ state.pc = "upload" /\ state.todo \subseteq Finished
  <2>1. CASE GetUnsyncedMatches(l) BY <2>1 DEF GetUnsyncedMatches, Uploading
  <2>2. CASE Abort(l) BY <2>2 DEF Abort, ToStats
  <2>3. CASE FetchStats(l)
    <3>1. CASE signedIn BY <2>3, <3>1 DEF FetchStats
    <3>2. CASE ~signedIn BY <2>3, <3>2 DEF FetchStats, NoLoop
    <3> QED BY <3>1, <3>2
  <2>4. CASE StatsFail(l) BY <2>4 DEF StatsFail, NoLoop
  <2>5. CASE GetLocalStats(l) BY <2>5 DEF GetLocalStats
  <2>6. CASE MergeWithRemote(l) BY <2>6 DEF MergeWithRemote, NoLoop
  <2> QED BY <2>1, <2>2, <2>3, <2>4, <2>5, <2>6
<1>4. loop'[l] = state BY <1>3 DEF Step, SyncInv, SyncTypes
<1>5. LoopIsSound(l)' BY <1>2, <1>3, <1>4 DEF LoopIsSound, Rows
<1> QED BY <1>1, <1>2, <1>3, <1>5, LoopSteps

LEMMA SyncStep == SyncInv /\ [SyncNext]_syncVars => SyncInv'
<1> SUFFICES ASSUME SyncInv, [SyncNext]_syncVars PROVE SyncInv'
  OBVIOUS
<1>1. ASSUME NEW g \in Matches, StartLocalGame(g) \/ FinishLocalGame(g) PROVE SyncInv'
  BY <1>1, DeviceStep
<1>2. CASE UNCHANGED <<verdict, status, marked, server, loop>>
  <2>1. OutboxIsSound' /\ Finished' = Finished BY <1>2, SameRows
  <2>2. \A l \in Loops : LoopIsSound(l)' BY <1>2, <2>1, LoopsGoOn
  <2> QED BY <1>2, <2>1, <2>2 DEF SyncInv, SyncTypes
<1>3. CASE RecordGameResult \/ SignInOrOut \/ UNCHANGED syncVars
  BY <1>2, <1>3 DEF RecordGameResult, SignInOrOut, syncVars
<1>4. CASE KillApp
  <2>1. UNCHANGED <<verdict, status, marked, server>> /\ loop' = [l \in Loops |-> NoLoop]
    BY <1>4 DEF KillApp
  <2>2. OutboxIsSound' BY <2>1, SameRows
  <2>3. \A l \in Loops : LoopIsSound(l)' BY <2>1 DEF LoopIsSound, NoLoop
  <2> QED BY <2>1, <2>2, <2>3 DEF SyncInv, SyncTypes
<1>5. ASSUME NEW l \in Loops, LoopMoves(l) PROVE SyncInv'
  BY <1>5, PostStep, MarkStep, QuietStep DEF LoopMoves
<1> QED BY <1>1, <1>3, <1>4, <1>5 DEF SyncNext

\* The safety half of GamesArrive: whatever runs of sync() overlap, fail, die or change
\* accounts, a game is taken out of the outbox only when the server has it or never
\* takes it, and no game is sent before its end (sync_service.dart).
THEOREM OutboxAlwaysSound == SyncSpec => []NothingIsDropped /\ []OutboxIsSound
<1>1. SyncInv => NothingIsDropped /\ OutboxIsSound BY DEF SyncInv, OutboxIsSound
<1> QED BY <1>1, SyncStart, SyncStep, PTL DEF SyncSpec

-----------------------------------------------------------------------------
(* AppStore                                                                *)

Sold     == {o \in Orders : shop[o] # "unsold"}
Credited == {o \in Sold : \E u \in Buyers : u = payload[o] /\ paid[o][u] = 1}

StoreTypes ==
  /\ account \in Buyers \cup {Nobody}
  /\ shop \in [Orders -> {"unsold", "owned", "consumed", "refunded"}]
  /\ payload \in [Orders -> Buyers \cup {Nobody}]
  /\ paid \in [Orders -> [Buyers -> {0, 1}]]
  /\ buying = [pc |-> buying.pc, order |-> buying.order]
  /\ restoring = [pc |-> restoring.pc, order |-> restoring.order, todo |-> restoring.todo]

\* Only what was sold is delivered, and only to whom it was sold; what is consumed was.
PaymentsAreRight ==
  \A o \in Orders :
    /\ \A u \in Buyers : paid[o][u] = 1 => u = payload[o] /\ o \in Sold
    /\ shop[o] = "consumed" => o \in Credited

\* A call delivers what was sold and consumes what was delivered.
Sound(k) ==
  \/ k.pc \in {"idle", "next"}
  \/ k.pc = "deliver" /\ k.order \in Sold
  \/ k.pc \in {"delivered", "consume"} /\ k.order \in Credited
Paying(k) == k.pc = "paying" /\ k.order \in Orders \ Sold

CallsAreSound ==
  /\ Sound(buying) \/ Paying(buying)
  /\ Sound(restoring) /\ restoring.todo \subseteq Sold

StoreInv == StoreTypes /\ PaymentsAreRight /\ CallsAreSound

\* What was sold stays sold to the same account, and delivered.
SalesStand == Sold \subseteq Sold' /\ Credited \subseteq Credited'

LEMMA SoundCallsStay ==
  ASSUME SalesStand
  PROVE  /\ Sound(buying) /\ buying' = buying => Sound(buying)'
         /\ Sound(restoring) /\ restoring' = restoring => Sound(restoring)'
         /\ restoring.todo \subseteq Sold /\ restoring' = restoring => restoring'.todo \subseteq Sold'
BY DEF SalesStand, Sound

\* Nothing is sold: the calls that do not move stay sound.
LEMMA NothingSold ==
  ASSUME SalesStand, Sold' = Sold
  PROVE  Paying(buying) /\ buying' = buying => Paying(buying)'
BY DEF Paying

\* A delivery goes a step further ...
LEMMA EnterIsSound ==
  ASSUME StoreInv, NEW c \in Calls, NEW pc, Enter(c, pc), pc \in {"delivered", "consume"},
         SalesStand, Sold' = Sold, Of(c).order \in Credited'
  PROVE  /\ CallsAreSound'
         /\ buying' = [pc |-> buying'.pc, order |-> buying'.order]
         /\ restoring' = [pc |-> restoring'.pc, order |-> restoring'.order, todo |-> restoring'.todo]
<1>1. CASE c = "buy"
  <2>1. buying' = [buying EXCEPT !.pc = pc] /\ restoring' = restoring BY <1>1 DEF Enter
  <2>2. buying' = [pc |-> pc, order |-> buying.order] BY <2>1 DEF StoreInv, StoreTypes
  <2>3. buying'.pc = pc /\ buying'.order = Of(c).order BY <1>1, <2>2 DEF Of
  <2>4. Sound(buying)' BY <2>3 DEF Sound
  <2> QED BY <2>1, <2>2, <2>4, SoundCallsStay DEF StoreInv, StoreTypes, CallsAreSound
<1>2. CASE c # "buy"
  <2>1. restoring' = [restoring EXCEPT !.pc = pc] /\ buying' = buying BY <1>2 DEF Enter
  <2>2. restoring' = [pc |-> pc, order |-> restoring.order, todo |-> restoring.todo]
    BY <2>1 DEF StoreInv, StoreTypes
  <2>3. restoring'.pc = pc /\ restoring'.order = Of(c).order /\ restoring'.todo = restoring.todo
    BY <1>2, <2>2 DEF Of
  <2>4. Sound(restoring)' BY <2>3 DEF Sound
  <2> QED BY <2>1, <2>2, <2>3, <2>4, SoundCallsStay, NothingSold DEF StoreInv, StoreTypes, CallsAreSound
<1> QED BY <1>1, <1>2

\* ... or ends.
LEMMA LeaveIsSound ==
  ASSUME StoreInv, NEW c \in Calls, Leave(c), SalesStand, Sold' = Sold
  PROVE  /\ CallsAreSound'
         /\ buying' = [pc |-> buying'.pc, order |-> buying'.order]
         /\ restoring' = [pc |-> restoring'.pc, order |-> restoring'.order, todo |-> restoring'.todo]
<1>1. CASE c = "buy"
  <2>1. buying' = [pc |-> "idle", order |-> NoOrder] /\ restoring' = restoring BY <1>1 DEF Leave, Unbusy
  <2>2. Sound(buying)' BY <2>1 DEF Sound
  <2> QED BY <2>1, <2>2, SoundCallsStay DEF StoreInv, StoreTypes, CallsAreSound
<1>2. CASE c # "buy"
  <2>1. restoring' = [restoring EXCEPT !.pc = "next", !.order = NoOrder] /\ buying' = buying
    BY <1>2 DEF Leave
  <2>2. restoring' = [pc |-> "next", order |-> NoOrder, todo |-> restoring.todo]
    BY <2>1 DEF StoreInv, StoreTypes
  <2>3. Sound(restoring)' /\ restoring'.todo = restoring.todo BY <2>2 DEF Sound
  <2> QED BY <2>1, <2>2, <2>3, SoundCallsStay, NothingSold DEF StoreInv, StoreTypes, CallsAreSound
<1> QED BY <1>1, <1>2

\* A step that sells and delivers nothing
LEMMA SameSales ==
  ASSUME StoreInv, UNCHANGED <<shop, payload, paid>>
  PROVE  SalesStand /\ Sold' = Sold /\ PaymentsAreRight'
<1>1. Sold' = Sold /\ Credited' = Credited BY DEF Sold, Credited
<1> QED BY <1>1 DEF SalesStand, StoreInv, PaymentsAreRight

-----------------------------------------------------------------------------
LEMMA StoreStart == StoreInit => StoreInv
<1> SUFFICES ASSUME StoreInit PROVE StoreInv
  OBVIOUS
<1>1. StoreTypes BY DEF StoreInit, StoreTypes, Unbusy, Rested
<1>2. PaymentsAreRight BY DEF StoreInit, PaymentsAreRight
<1>3. CallsAreSound BY DEF StoreInit, CallsAreSound, Sound, Unbusy, Rested
<1> QED BY <1>1, <1>2, <1>3 DEF StoreInv

\* An order gets another state in the shop.
LEMMA ShopStep ==
  ASSUME StoreInv, NEW o \in Orders, NEW state \in {"owned", "consumed", "refunded"},
         shop' = [shop EXCEPT ![o] = state], UNCHANGED <<payload, paid>>,
         state = "consumed" => o \in Credited
  PROVE  /\ SalesStand /\ PaymentsAreRight' /\ Sold' = Sold \cup {o}
         /\ shop' \in [Orders -> {"unsold", "owned", "consumed", "refunded"}]
<1>1. Sold' = Sold \cup {o} BY DEF Sold, StoreInv, StoreTypes
<1>2. SalesStand
  <2>1. Credited \subseteq Credited' BY <1>1 DEF Credited
  <2> QED BY <1>1, <2>1 DEF SalesStand
<1>3. PaymentsAreRight'
  <2>1. ASSUME NEW p \in Orders
        PROVE  /\ \A u \in Buyers : paid'[p][u] = 1 => u = payload'[p] /\ p \in Sold'
               /\ shop'[p] = "consumed" => p \in Credited'
    <3>1. \A u \in Buyers : paid'[p][u] = 1 => u = payload'[p] /\ p \in Sold'
      BY <1>1 DEF StoreInv, PaymentsAreRight
    <3>2. shop'[p] = "consumed" => p \in Credited
      BY DEF StoreInv, StoreTypes, PaymentsAreRight
    <3> QED BY <1>2, <3>1, <3>2 DEF SalesStand
  <2> QED BY <2>1 DEF PaymentsAreRight
<1>4. shop' \in [Orders -> {"unsold", "owned", "consumed", "refunded"}] BY DEF StoreInv, StoreTypes
<1> QED BY <1>1, <1>2, <1>3, <1>4

\* Calls that start, end or go on by themselves
LEMMA BuyingStep ==
  ASSUME StoreInv,
         \/ \E u \in Buyers \cup {Nobody} : SignInAs(u)
         \/ AppDies \/ GiveUp \/ Restore \/ RestoreNext
  PROVE  StoreInv'
<1>1. UNCHANGED <<shop, payload, paid>>
  BY DEF SignInAs, AppDies, GiveUp, Restore, RestoreNext
<1>2. SalesStand /\ Sold' = Sold /\ PaymentsAreRight' BY <1>1, SameSales
<1>3. account' \in Buyers \cup {Nobody}
  BY DEF SignInAs, AppDies, GiveUp, Restore, RestoreNext, StoreInv, StoreTypes
<1>4. CallsAreSound' /\ buying' = [pc |-> buying'.pc, order |-> buying'.order]
      /\ restoring' = [pc |-> restoring'.pc, order |-> restoring'.order, todo |-> restoring'.todo]
  <2>1. CASE buying' = buying /\ restoring' = restoring
    BY <1>2, <2>1, SoundCallsStay, NothingSold DEF StoreInv, StoreTypes, CallsAreSound
  <2>2. CASE \E u \in Buyers \cup {Nobody} : SignInAs(u) BY <2>1, <2>2 DEF SignInAs
  <2>3. CASE AppDies
    BY <2>3 DEF AppDies, Unbusy, Rested, CallsAreSound, Sound
  <2>4. CASE GiveUp
    <3>1. buying' = [pc |-> "idle", order |-> NoOrder] /\ restoring' = restoring BY <2>4 DEF GiveUp, Unbusy
    <3>2. Sound(buying)' BY <3>1 DEF Sound
    <3> QED BY <1>2, <3>1, <3>2, SoundCallsStay DEF StoreInv, StoreTypes, CallsAreSound
  <2>5. CASE Restore \/ RestoreNext
    <3>1. PICK state : /\ restoring' = state /\ buying' = buying
                       /\ state = [pc |-> state.pc, order |-> state.order, todo |-> state.todo]
                       /\ state.todo \subseteq Sold
                       /\ state.pc \in {"idle", "next"} \/ (state.pc = "deliver" /\ state.order \in Sold)
      <4>1. CASE Restore BY <4>1 DEF Restore, Sold
      <4>2. CASE RestoreNext
        <5>1. restoring.todo \subseteq Sold BY DEF StoreInv, CallsAreSound
        <5>2. CASE restoring.todo = {} BY <4>2, <5>2 DEF RestoreNext, Rested
        <5>3. CASE restoring.todo # {} BY <4>2, <5>1, <5>3 DEF RestoreNext
        <5> QED BY <5>2, <5>3
      <4> QED BY <2>5, <4>1, <4>2
    <3>2. Sound(restoring)' /\ restoring'.todo \subseteq Sold' BY <1>2, <3>1 DEF Sound
    <3> QED BY <1>2, <3>1, <3>2, SoundCallsStay, NothingSold DEF StoreInv, StoreTypes, CallsAreSound
  <2> QED BY <2>2, <2>3, <2>4, <2>5
<1> QED BY <1>1, <1>2, <1>3, <1>4 DEF StoreInv, StoreTypes

\* The store's side of a purchase
LEMMA SaleStep ==
  ASSUME StoreInv, Pay \/ PayUnseen \/ \E o \in Orders : Buy(o) \/ Refund(o)
  PROVE  StoreInv'
<1>1. ASSUME NEW o \in Orders, Refund(o) PROVE StoreInv'
  <2>1. shop' = [shop EXCEPT ![o] = "refunded"] /\ shop[o] = "owned"
        /\ UNCHANGED <<account, payload, paid, buying, restoring>>
    BY <1>1 DEF Refund
  <2>2. SalesStand /\ PaymentsAreRight' /\ Sold' = Sold \cup {o}
        /\ shop' \in [Orders -> {"unsold", "owned", "consumed", "refunded"}]
    BY <2>1, ShopStep
  <2>3. Sold' = Sold BY <2>1, <2>2 DEF Sold
  <2>4. CallsAreSound' BY <2>1, <2>2, <2>3, SoundCallsStay, NothingSold DEF StoreInv, CallsAreSound
  <2> QED BY <2>1, <2>2, <2>4 DEF StoreInv, StoreTypes
<1>2. ASSUME NEW o \in Orders, Buy(o) PROVE StoreInv'
  <2>1. /\ buying' = [pc |-> "paying", order |-> o] /\ payload' = [payload EXCEPT ![o] = account]
        /\ shop[o] = "unsold" /\ UNCHANGED <<account, shop, paid, restoring>>
    BY <1>2 DEF Buy
  <2>2. Sold' = Sold /\ o \notin Sold BY <2>1 DEF Sold
  <2>3. \A p \in Orders : p # o => payload'[p] = payload[p] BY <2>1 DEF StoreInv, StoreTypes
  <2>4. Credited \subseteq Credited' BY <2>1, <2>2, <2>3 DEF Credited, Sold
  <2>5. SalesStand BY <2>2, <2>4 DEF SalesStand
  <2>6. PaymentsAreRight'
    BY <2>1, <2>2, <2>3, <2>4 DEF StoreInv, PaymentsAreRight
  <2>7. Paying(buying)' BY <2>1, <2>2 DEF Paying
  <2>8. CallsAreSound' BY <2>1, <2>5, <2>7, SoundCallsStay DEF StoreInv, CallsAreSound
  <2> QED BY <2>1, <2>6, <2>8 DEF StoreInv, StoreTypes
<1>3. CASE Pay \/ PayUnseen
  <2>1. PICK o \in Orders \ Sold : o = buying.order
    BY <1>3 DEF Pay, PayUnseen, StoreInv, CallsAreSound, Paying, Sound
  <2>2. shop' = [shop EXCEPT ![o] = "owned"] /\ UNCHANGED <<account, payload, paid>>
    BY <1>3, <2>1 DEF Pay, PayUnseen
  <2>3. SalesStand /\ PaymentsAreRight' /\ Sold' = Sold \cup {o}
        /\ shop' \in [Orders -> {"unsold", "owned", "consumed", "refunded"}]
    BY <2>2, ShopStep
  <2>4. CASE Pay
    <3>1. buying' = [pc |-> "deliver", order |-> o] /\ restoring' = restoring
      BY <2>1, <2>4 DEF Pay, StoreInv, StoreTypes
    <3>2. Sound(buying)' BY <2>3, <3>1 DEF Sound
    <3>3. CallsAreSound' BY <2>3, <3>1, <3>2, SoundCallsStay DEF StoreInv, CallsAreSound
    <3> QED BY <2>2, <2>3, <3>1, <3>3 DEF StoreInv, StoreTypes
  <2>5. CASE PayUnseen
    <3>1. buying' = Unbusy /\ restoring' = Rested BY <2>5 DEF PayUnseen
    <3>2. CallsAreSound' BY <3>1 DEF CallsAreSound, Sound, Unbusy, Rested
    <3> QED BY <2>2, <2>3, <3>1, <3>2 DEF StoreInv, StoreTypes, Unbusy, Rested
  <2> QED BY <1>3, <2>4, <2>5
<1> QED BY <1>1, <1>2, <1>3

\* VerifyBazaar credits the buyer.
LEMMA DeliverStep ==
  ASSUME StoreInv, NEW c \in Calls, Deliver(c)
  PROVE  StoreInv'
<1>1. PICK o \in Sold : o = Of(c).order /\ Of(c).pc = "deliver"
  BY DEF Deliver, Of, Calls, StoreInv, CallsAreSound, Sound, Paying
<1>2. PICK u \in Buyers : u = account /\ u = payload[o]
  BY <1>1 DEF Deliver, VerifyBazaar, StoreInv, StoreTypes
<1>3. UNCHANGED <<account, shop, payload>> /\ Enter(c, "delivered") BY DEF Deliver
<1>4. (paid' = paid /\ paid[o][u] = 1) \/ paid' = [paid EXCEPT ![o][u] = 1]
  <2>1. o \in Orders /\ paid[o][u] \in {0, 1} BY DEF Sold, StoreInv, StoreTypes
  <2> QED BY <1>1, <1>2, <2>1 DEF Deliver, VerifyBazaar
<1>5. /\ paid' \in [Orders -> [Buyers -> {0, 1}]] /\ paid'[o][u] = 1
      /\ \A p \in Orders, v \in Buyers : paid'[p][v] = paid[p][v] \/ (p = o /\ v = u)
  <2>1. paid \in [Orders -> [Buyers -> {0, 1}]] /\ o \in Orders BY DEF Sold, StoreInv, StoreTypes
  <2>2. CASE paid' = paid /\ paid[o][u] = 1 BY <2>1, <2>2
  <2>3. CASE paid' = [paid EXCEPT ![o][u] = 1] BY <2>1, <2>3
  <2> QED BY <1>4, <2>2, <2>3
<1>6. Sold' = Sold BY <1>3 DEF Sold
<1>7. SalesStand /\ o \in Credited'
  <2>1. o \in Credited' BY <1>2, <1>3, <1>5, <1>6 DEF Credited
  <2>2. ASSUME NEW p \in Credited PROVE p \in Credited'
    <3>1. PICK v \in Buyers : v = payload[p] /\ paid[p][v] = 1 BY DEF Credited
    <3>2. p \in Orders BY DEF Credited, Sold
    <3>3. paid'[p][v] = 1 BY <1>5, <3>1, <3>2
    <3> QED BY <1>3, <1>6, <3>1, <3>3 DEF Credited
  <2> QED BY <1>6, <2>1, <2>2 DEF SalesStand
<1>8. PaymentsAreRight'
  <2>1. ASSUME NEW p \in Orders, NEW v \in Buyers, paid'[p][v] = 1 PROVE v = payload'[p] /\ p \in Sold'
    <3>1. CASE p = o /\ v = u BY <1>2, <1>3, <1>6, <3>1
    <3>2. CASE paid'[p][v] = paid[p][v] BY <1>3, <1>6, <2>1, <3>2 DEF StoreInv, PaymentsAreRight
    <3> QED BY <1>5, <3>1, <3>2
  <2>2. \A p \in Orders : shop'[p] = "consumed" => p \in Credited'
    BY <1>3, <1>7 DEF SalesStand, StoreInv, PaymentsAreRight
  <2> QED BY <2>1, <2>2 DEF PaymentsAreRight
<1>9. /\ CallsAreSound' /\ buying' = [pc |-> buying'.pc, order |-> buying'.order]
      /\ restoring' = [pc |-> restoring'.pc, order |-> restoring'.order, todo |-> restoring'.todo]
  <2>1. Of(c).order \in Credited' BY <1>1, <1>7
  <2> QED BY <1>3, <1>6, <1>7, <2>1, EnterIsSound
<1> QED BY <1>3, <1>5, <1>8, <1>9 DEF StoreInv, StoreTypes

\* The rest of a delivery
LEMMA DeliveryStep ==
  ASSUME StoreInv, NEW c \in Calls, DeliverFails(c) \/ Refused(c) \/ Delivered(c) \/ Consume(c)
  PROVE  StoreInv'
<1>1. UNCHANGED <<account, payload, paid>> BY DEF DeliverFails, Refused, Delivered, Consume
<1>2. CASE Consume(c) /\ shop' # shop
  <2>1. PICK o \in Credited : o = Of(c).order
    BY <1>2 DEF Consume, Of, Calls, StoreInv, CallsAreSound, Sound, Paying
  <2>2. shop' = [shop EXCEPT ![o] = "consumed"] /\ Leave(c) BY <1>2, <2>1 DEF Consume
  <2>3. o \in Sold /\ o \in Orders BY DEF Credited, Sold
  <2>4. SalesStand /\ PaymentsAreRight' /\ Sold' = Sold \cup {o}
        /\ shop' \in [Orders -> {"unsold", "owned", "consumed", "refunded"}]
    BY <1>1, <2>2, <2>3, ShopStep
  <2>5. Sold' = Sold BY <2>3, <2>4
  <2> QED BY <1>1, <2>2, <2>4, <2>5, LeaveIsSound DEF StoreInv, StoreTypes
<1>3. CASE shop' = shop
  <2>1. SalesStand /\ Sold' = Sold /\ PaymentsAreRight' BY <1>1, <1>3, SameSales
  <2>2. Leave(c) \/ (Delivered(c) /\ Enter(c, "consume"))
    BY DEF DeliverFails, Refused, Delivered, Consume
  <2>3. CASE Leave(c)
    BY <1>1, <1>3, <2>1, <2>3, LeaveIsSound DEF StoreInv, StoreTypes
  <2>4. CASE Delivered(c) /\ Enter(c, "consume")
    <3>1. Of(c).order \in Credited
      BY <2>4 DEF Delivered, Of, Calls, StoreInv, CallsAreSound, Sound, Paying
    <3>2. Of(c).order \in Credited' BY <2>1, <3>1 DEF SalesStand
    <3> QED BY <1>1, <1>3, <2>1, <2>4, <3>2, EnterIsSound DEF StoreInv, StoreTypes
  <2> QED BY <2>2, <2>3, <2>4
<1>4. shop' = shop \/ Consume(c) BY DEF DeliverFails, Refused, Delivered
<1> QED BY <1>2, <1>3, <1>4

LEMMA StoreStep == StoreInv /\ [StoreNext]_storeVars => StoreInv'
<1> SUFFICES ASSUME StoreInv, [StoreNext]_storeVars PROVE StoreInv'
  OBVIOUS
<1>1. CASE UNCHANGED storeVars
  BY <1>1 DEF storeVars, StoreInv, StoreTypes, PaymentsAreRight, CallsAreSound, Sound, Paying, Sold, Credited
<1>2. ASSUME NEW c \in Calls, Deliver(c) \/ DeliverFails(c) \/ Refused(c) \/ Delivered(c) \/ Consume(c)
      PROVE  StoreInv'
  BY <1>2, DeliverStep, DeliveryStep
<1> QED BY <1>1, <1>2, BuyingStep, SaleStep DEF StoreNext

LEMMA RightOrders == StoreInv => \A o \in Orders : DeliveredBeforeConsumed(o)
<1> SUFFICES ASSUME StoreInv, NEW o \in Orders PROVE DeliveredBeforeConsumed(o)
  OBVIOUS
<1>1. \A u \in Buyers : paid[o][u] \in {0, 1} BY DEF StoreInv, StoreTypes
<1>2. \A u \in Buyers : paid[o][u] > 0 => u = payload[o] /\ paid[o][u] = 1
  BY <1>1 DEF StoreInv, PaymentsAreRight
<1>3. shop[o] = "consumed" => \E u \in Buyers : paid[o][u] = 1
  BY DEF StoreInv, PaymentsAreRight, Credited
<1> QED BY <1>2, <1>3 DEF DeliveredBeforeConsumed

\* The safety half of PurchasesArrive: however deaths, lost answers, refunds, other
\* accounts and restore() beside buy() fall, a purchase is credited once, to the account
\* it was made for, and consumed only then (store_purchase_service.dart).
THEOREM OrdersAlwaysRight == StoreSpec => OrdersStayRight
<1>1. StoreInv /\ [StoreNext]_storeVars => [\A o \in Orders : DeliveredBeforeConsumed(o)']_storeVars
  <2> SUFFICES ASSUME StoreInv, [StoreNext]_storeVars PROVE \A o \in Orders : DeliveredBeforeConsumed(o)'
    OBVIOUS
  <2>1. StoreInv' BY StoreStep
  <2>2. (\A o \in Orders : DeliveredBeforeConsumed(o))' BY <2>1, RightOrders, PTL
  <2> QED BY <2>2
<1> QED BY <1>1, StoreStart, StoreStep, PTL DEF StoreSpec, OrdersStayRight
=============================================================================
