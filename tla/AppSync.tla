-------------------------------- MODULE AppSync --------------------------------
(***************************************************************************)
(* Games played on the device on their way to the server: the local        *)
(* database (client/lib/core/database/daos) and SyncService                *)
(* (core/services/sync_service.dart).  sync() is started at sign-in, at    *)
(* start-up, after each game and before a search, and runs beside itself;  *)
(* the app may die and the player may sign out at any await.  The server's *)
(* side of an upload is module SoloGames.                                  *)
(***************************************************************************)
EXTENDS Integers, FiniteSets

CONSTANTS
  Matches,  \* local games 1 .. n, in the order of startedAt
  Loops,    \* runs of sync() that may overlap
  MaxFaults \* bound: deaths of the app and requests without an answer

ASSUME SyncAssumption == Matches = 1 .. Cardinality(Matches) /\ MaxFaults \in Nat

VARIABLES
  verdict,  \* [Matches -> what the server makes of the game: a row, 400, or 409
            \* without keeping it]
  signedIn, \* an access token is stored
  status,   \* [Matches -> "none", "active" or "finished"]
  marked,   \* synced rows
  ending,   \* the end of a game: recordGameResult between its read and its write
  total,    \* local_player_stats.totalMatches
  server,   \* games with a row on the server
  faults,   \* of those so far
  loop      \* [Loops -> the run's next step and what it has read]

syncVars == <<verdict, signedIn, status, marked, ending, total, server, faults, loop>>
Judged(v)  == {g \in Matches : verdict[g] = v}
NoLoop     == [pc |-> "idle"]
NoEnding   == -1
Greater(a, b) == IF a > b THEN a ELSE b

SyncInit ==
  /\ verdict \in [Matches -> {"kept", "invalid", "barred"}]
  /\ signedIn \in BOOLEAN /\ status = [g \in Matches |-> "none"] /\ marked = {}
  /\ ending = NoEnding /\ total = 0 /\ server = {} /\ faults = 0
  /\ loop = [l \in Loops |-> NoLoop]

Fault == faults < MaxFaults /\ faults' = faults + 1

-----------------------------------------------------------------------------
StartLocalGame(g) ==
  /\ status[g] = "none" /\ \A h \in Matches : h < g => status[h] = "finished"
  /\ status' = [status EXCEPT ![g] = "active"]
  /\ UNCHANGED <<verdict, signedIn, marked, ending, total, server, loop, faults>>

\* finishLocalGame, and the read of recordGameResult
FinishLocalGame(g) ==
  /\ status[g] = "active" /\ ending = NoEnding
  /\ status' = [status EXCEPT ![g] = "finished"] /\ ending' = total
  /\ UNCHANGED <<verdict, signedIn, marked, total, server, loop, faults>>

\* its write
RecordGameResult ==
  /\ ending # NoEnding /\ total' = ending + 1 /\ ending' = NoEnding
  /\ UNCHANGED <<verdict, signedIn, status, marked, server, loop, faults>>

SignInOrOut ==
  /\ signedIn' = ~signedIn
  /\ UNCHANGED <<verdict, status, marked, ending, total, server, loop, faults>>

KillApp ==
  /\ Fault /\ loop' = [l \in Loops |-> NoLoop] /\ ending' = NoEnding
  /\ UNCHANGED <<verdict, signedIn, status, marked, total, server>>

-----------------------------------------------------------------------------
Step(l, state) == loop' = [loop EXCEPT ![l] = state]
Finished       == {g \in Matches : status[g] = "finished"}
Uploading(rows) == [pc |-> "upload", todo |-> rows]
ToStats        == [pc |-> "stats"]

\* sync: the finished rows not yet marked
GetUnsyncedMatches(l) ==
  /\ loop[l] = NoLoop /\ signedIn
  /\ Step(l, Uploading(Finished \ marked))
  /\ UNCHANGED <<verdict, signedIn, status, marked, ending, total, server, faults>>

\* They are sent oldest first.
Oldest(g, rows) == g \in rows /\ \A h \in rows : g <= h

\* A 4xx: this row is left as it is and the next one is sent.
Refuse(l, g) == Step(l, Uploading(loop[l].todo \ {g}))

\* The request at the server: 401 for somebody who has signed out, 400, 409, or a row
Post(l, g) ==
  /\ loop[l].pc = "upload" /\ Oldest(g, loop[l].todo)
  /\ IF ~signedIn \/ verdict[g] = "invalid" THEN Refuse(l, g) /\ UNCHANGED server
     ELSE /\ Step(l, [pc |-> "posted", game |-> g, todo |-> loop[l].todo \ {g}])
          /\ server' = server \cup ({g} \cap Judged("kept"))
  /\ UNCHANGED <<verdict, signedIn, status, marked, ending, total, faults>>

\* 201 or 409
MarkSynced(l) ==
  /\ loop[l].pc = "posted"
  /\ marked' = marked \cup {loop[l].game} /\ Step(l, Uploading(loop[l].todo))
  /\ UNCHANGED <<verdict, signedIn, status, ending, total, server, faults>>

\* No answer, or a 5xx: the remaining rows wait for the next run.
Abort(l) ==
  /\ loop[l].pc \in {"upload", "posted"} /\ Step(l, ToStats) /\ Fault
  /\ UNCHANGED <<verdict, signedIn, status, marked, ending, total, server>>

\* _mergeStats: the server's numbers ...
FetchStats(l) ==
  /\ loop[l].pc = "stats" \/ (loop[l].pc = "upload" /\ loop[l].todo = {})
  /\ Step(l, IF signedIn THEN [pc |-> "read", remote |-> Cardinality(server)] ELSE NoLoop)
  /\ UNCHANGED <<verdict, signedIn, status, marked, ending, total, server, faults>>

StatsFail(l) ==
  /\ loop[l].pc = "stats" /\ Step(l, NoLoop) /\ Fault
  /\ UNCHANGED <<verdict, signedIn, status, marked, ending, total, server>>

\* ... the local ones ...
GetLocalStats(l) ==
  /\ loop[l].pc = "read"
  /\ Step(l, [pc |-> "merge", remote |-> loop[l].remote, local |-> total])
  /\ UNCHANGED <<verdict, signedIn, status, marked, ending, total, server, faults>>

\* ... and the greater of the two.
MergeWithRemote(l) ==
  /\ loop[l].pc = "merge" /\ Step(l, NoLoop)
  /\ total' = Greater(loop[l].local, loop[l].remote)
  /\ UNCHANGED <<verdict, signedIn, status, marked, ending, server, faults>>

LoopMoves(l) ==
  GetUnsyncedMatches(l) \/ (\E g \in Matches : Post(l, g)) \/ MarkSynced(l) \/ Abort(l) \/ FetchStats(l)
    \/ StatsFail(l) \/ GetLocalStats(l) \/ MergeWithRemote(l)

SyncNext ==
  \/ \E g \in Matches : StartLocalGame(g) \/ FinishLocalGame(g)
  \/ RecordGameResult \/ SignInOrOut \/ KillApp
  \/ \E l \in Loops : LoopMoves(l)

\* The player keeps opening the app and every await ends.
SyncFairness ==
  WF_syncVars(RecordGameResult) /\ WF_syncVars(\E l \in Loops : LoopMoves(l))
SyncSpec == SyncInit /\ [][SyncNext]_syncVars /\ SyncFairness

-----------------------------------------------------------------------------
\* A row leaves the outbox only when the server has the game, or says it will
\* never take it.
NothingIsDropped == marked \subseteq server \cup Judged("barred")

\* In the app of somebody who stays signed in, every game the server takes arrives
\* there although others before it are refused, and the profile counts them,
\* although the merge and the end of a game overwrite each other's number.
SyncCatchesUp ==
  <>[]signedIn =>
    /\ <>[](\A g \in Judged("kept") : status[g] = "finished" => g \in server)
    /\ <>[](total >= Cardinality(server))

GamesArrive == []NothingIsDropped /\ SyncCatchesUp
=============================================================================
