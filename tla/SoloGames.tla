------------------------------ MODULE SoloGames ------------------------------
(***************************************************************************)
(* Finished games on their way into the database: CreateSoloGame           *)
(* (backend/internal/service/game.go) statement by statement, the part of  *)
(* finalizeToDB (ws/room.go) that records a match for its player, the      *)
(* daily streak (service/streak.go) and the paid retry of the Daily        *)
(* Challenge (service/daily.go).                                           *)
(*                                                                         *)
(* The app starts an upload loop after every game, at start-up and in the  *)
(* lobby, with no guard against a loop that is still running, and repeats  *)
(* whatever was not answered.  No transaction spans two statements of a    *)
(* call, each statement may fail, and a caller who hangs up cancels the    *)
(* context of the call, which fails all that is left of it.                *)
(***************************************************************************)
EXTENDS Integers, FiniteSets

CONSTANTS
  Info,       \* finished games: [game -> [user, mode, day, ended, valid]]
  Calls,      \* server calls that may overlap
  Milestones, \* streaks with a reward (streakMilestoneCoins)
  RetryCoins, \* config.DailyRetryCoins
  LastDay,    \* bound: days 1 .. LastDay
  MaxUploads, \* bound: uploads started
  MaxRetries  \* bound: paid retries asked for

Modes   == {"solo", "daily", "match"}
Days    == 1 .. LastDay
Games   == DOMAIN Info
Players == {Info[g].user : g \in Games}

ASSUME GamesAssumption ==
  \A g \in Games : /\ Info[g].mode \in Modes /\ Info[g].day \in Days /\ Info[g].ended \in Days
                   /\ Info[g].valid \in BOOLEAN
ASSUME MilestoneAssumption == Milestones \subseteq Nat /\ RetryCoins \in Nat \ {0}
ASSUME SoloBounds == LastDay \in Nat /\ MaxUploads \in Nat /\ MaxRetries \in Nat

VARIABLES
  today,     \* the Iran calendar day of the server
  provided,  \* days with a daily_challenges row
  calls,     \* [Calls -> the call's next statement, game and what it has read]
  uploads,   \* uploads started so far
  rows,      \* [Games -> matches rows of that player, mode and start]
  visible,   \* [Games -> those of them with their match_players row]
  attempts,  \* daily_challenge_attempts: [user, day, number, game]
  retries,   \* daily_retries: <<user, day>>
  retryCall, \* [Players -> next statement of the running Retry and its day]
  retryAsked,\* Retry calls so far
  coins,     \* [Players -> coins]
  charges,   \* [Players -> [Days -> retries charged]]
  totals,    \* [Players -> total_matches and the games whose score is in xp]
  stats,     \* [Players -> streak, longest and last day in player_stats]
  inbox,     \* streak rewards: [user, streak, day]
  synced     \* games the app will not send again, matches recorded

soloVars == <<today, provided, calls, uploads, rows, visible, totals, attempts,
              retries, retryCall, retryAsked, coins, charges, stats, inbox, synced>>
games == <<rows, visible, totals>>
daily == <<provided, attempts, retries, retryCall, retryAsked, coins, charges>>

NoStats == [streak |-> 0, longest |-> 0, last |-> 0]  \* last = 0: never played
Idle    == [pc |-> "idle"]

SoloInit ==
  /\ today = 1 /\ provided = {} /\ uploads = 0 /\ retryAsked = 0
  /\ calls = [c \in Calls |-> Idle]
  /\ rows = [g \in Games |-> 0] /\ visible = [g \in Games |-> 0]
  /\ totals = [u \in Players |-> [matches |-> 0, xp |-> 0]]
  /\ attempts = {} /\ retries = {}
  /\ retryCall = [u \in Players |-> Idle]
  /\ coins = [u \in Players |-> RetryCoins]
  /\ charges = [u \in Players |-> [d \in Days |-> 0]]
  /\ stats = [u \in Players |-> NoStats]
  /\ inbox = {} /\ synced = {}

-----------------------------------------------------------------------------
(* Statements of the repositories                                          *)

\* FindSoloMatch joins match_players: a row without its player is not found.
FindSoloMatch(g) == visible[g] > 0

CreateMatchRow(g) == rows' = [rows EXCEPT ![g] = @ + 1]
AddPlayerRow(g)   == visible' = [visible EXCEPT ![g] = @ + 1]

IncrementMatchStats(u) == totals' = [totals EXCEPT ![u].matches = @ + 1]
CreditXP(u)            == totals' = [totals EXCEPT ![u].xp = @ + 1]
GetStats(u)            == stats[u]

GetChallenge(d)              == d \in provided
CreateChallengeIfMissing(ds) == provided' = provided \cup (ds \cap Days)

\* GetUserAttempts
GetUserAttempts(u, d) == {a \in attempts : a.user = u /\ a.day = d}

\* InsertAttempt: ON CONFLICT (user, date, number) DO NOTHING
InsertAttempt(u, d, n, g) ==
  attempts' = IF \E a \in GetUserAttempts(u, d) : a.number = n THEN attempts
              ELSE attempts \cup {[user |-> u, day |-> d, number |-> n, game |-> g]}

\* Mutant: the retry is bought again.
Mut_RecordRetry(u, d) == retries' = retries \cup {<<u, d>>}

\* RecordRetry, when it inserts
RecordRetry(u, d) == <<u, d>> \notin retries /\ retries' = retries \cup {<<u, d>>}

HasRetry(u, d) == <<u, d>> \in retries

DeleteRetry(u, d) == retries' = retries \ {<<u, d>>}

\* SpendCoins: one guarded UPDATE
SpendCoins(u, d) ==
  /\ coins[u] >= RetryCoins
  /\ coins' = [coins EXCEPT ![u] = @ - RetryCoins]
  /\ charges' = [charges EXCEPT ![u][d] = @ + 1]

\* Mutant: a second game of the day counts again.
Mut_ComputeNewStreak(s, d) ==
  IF s.last = 0 THEN 1 ELSE IF d < s.last THEN 0
  ELSE IF d <= s.last + 1 THEN s.streak + 1 ELSE 1

\* computeNewStreak: 0 when that day, or a later one, is already recorded
ComputeNewStreak(s, d) ==
  IF s.last = 0 THEN 1 ELSE IF d <= s.last THEN 0
  ELSE IF d = s.last + 1 THEN s.streak + 1 ELSE 1

\* UpdateStreak, from the row s that was read before: GREATEST(row, caller's)
UpdateStreak(u, s, d, new) ==
  LET seen == IF s.longest > new THEN s.longest ELSE new
  IN  stats' = [stats EXCEPT ![u] = [streak |-> new, last |-> d,
                  longest |-> IF @.longest > seen THEN @.longest ELSE seen]]

\* awardMilestone: one reward per streak and day of the award; it may fail.
AwardMilestone(u, streak) ==
  \/ streak \in Milestones
     /\ inbox' = inbox \cup {[user |-> u, streak |-> streak, day |-> today]}
  \/ UNCHANGED inbox

-----------------------------------------------------------------------------
(* CreateSoloGame                                                          *)

Goto(c, pc)  == calls' = [calls EXCEPT ![c].pc = pc]
Return(c)    == calls' = [calls EXCEPT ![c] = Idle]
At(c, pc)    == calls[c].pc = pc

\* The handler's status for the outcome of CreateSoloGame: a refused daily attempt
\* is answered like a game that is already there.
CreateSolo(outcome) ==
  CASE outcome = "created" -> 201 [] outcome \in {"exists", "not_allowed"} -> 409
    [] outcome = "invalid" -> 400 [] OTHER -> 500

\* What the app does with the answer: it keeps the game unless it is 201 or 409.
Drops(outcome) == CreateSolo(outcome) \in {201, 409}
Settle(g, outcome) == synced' = (IF Drops(outcome) THEN synced \cup {g} ELSE synced)

\* An upload begins with the lookup.
Upload(c, g) ==
  /\ At(c, "idle") /\ Info[g].mode # "match" /\ g \notin synced /\ Info[g].ended <= today
  /\ uploads < MaxUploads /\ uploads' = uploads + 1
  /\ IF FindSoloMatch(g)
     THEN Settle(g, "exists") /\ UNCHANGED calls
     ELSE /\ calls' = [calls EXCEPT ![c] = [pc |-> IF Info[g].mode = "daily" THEN "daily" ELSE "create",
                                            game |-> g, number |-> 0]]
          /\ UNCHANGED synced
  /\ UNCHANGED <<today, games, daily, stats, inbox>>

\* finalizeToDB for one player of a finished match: streak, then XP.
FinalizeToDB(c, g) ==
  /\ At(c, "idle") /\ Info[g].mode = "match" /\ g \notin synced /\ Info[g].ended = today
  /\ synced' = synced \cup {g}
  /\ calls' = [calls EXCEPT ![c] = [pc |-> "streak", game |-> g, number |-> 0]]
  /\ UNCHANGED <<today, uploads, games, daily, stats, inbox>>

\* dailyAttemptNumber: 0 stands for ErrDailyNotAllowed
DailyAttemptNumber(u, d) ==
  LET n == Cardinality(GetUserAttempts(u, d))
  IN  IF n = 0 THEN 1 ELSE IF n = 1 /\ HasRetry(u, d) THEN 2 ELSE 0

\* The checks of a daily upload: the attempt number, the challenge, the chain.
CheckDaily(c) ==
  LET g == calls[c].game
      n == DailyAttemptNumber(Info[g].user, Info[g].day)
      outcome == IF n = 0 THEN "not_allowed" ELSE IF ~GetChallenge(Info[g].day) THEN "error"
                 ELSE IF ~Info[g].valid THEN "invalid" ELSE "passed"
  IN  /\ At(c, "daily")
      /\ IF outcome = "passed"
         THEN calls' = [calls EXCEPT ![c].pc = "create", ![c].number = n] /\ UNCHANGED synced
         ELSE Return(c) /\ Settle(g, outcome)
      /\ UNCHANGED <<today, uploads, games, daily, stats, inbox>>

CreateMatch(c) ==
  /\ At(c, "create") /\ Goto(c, "player")
  /\ CreateMatchRow(calls[c].game)
  /\ UNCHANGED <<today, uploads, visible, totals, daily, stats, inbox, synced>>

AddMatchPlayer(c) ==
  /\ At(c, "player") /\ Goto(c, IF calls[c].number > 0 THEN "attempt" ELSE "stats")
  /\ AddPlayerRow(calls[c].game)
  /\ UNCHANGED <<today, uploads, rows, totals, daily, stats, inbox, synced>>

SaveAttempt(c) ==
  LET g == calls[c].game
  IN  /\ At(c, "attempt") /\ Goto(c, "stats")
      /\ InsertAttempt(Info[g].user, Info[g].day, calls[c].number, g)
      /\ UNCHANGED <<today, uploads, games, provided, retries, retryCall, retryAsked,
                     coins, charges, stats, inbox, synced>>

\* updateStatsAfterSoloGame; failing is not fatal
UpdateStats(c) ==
  /\ At(c, "stats") /\ Goto(c, "xp")
  /\ IncrementMatchStats(Info[calls[c].game].user) \/ UNCHANGED totals
  /\ UNCHANGED <<today, uploads, rows, visible, daily, stats, inbox, synced>>

Answer(c) == Return(c) /\ Settle(calls[c].game, "created")

\* AddXP; failing is not fatal.  A match is done afterwards, a solo game goes on.
AddXP(c) ==
  LET g == calls[c].game
  IN  /\ At(c, "xp")
      /\ CreditXP(Info[g].user) \/ UNCHANGED totals
      /\ IF Info[g].mode = "match" THEN Answer(c) ELSE Goto(c, "streak") /\ UNCHANGED synced
      /\ UNCHANGED <<today, uploads, rows, visible, daily, stats, inbox>>

\* RecordGamePlayed reads the row ...
ReadStreak(c) ==
  LET g == calls[c].game
  IN  /\ At(c, "streak")
      /\ calls' = [calls EXCEPT ![c] = [pc |-> "update", game |-> g, number |-> 0,
                                        read |-> GetStats(Info[g].user)]]
      /\ UNCHANGED <<today, uploads, games, daily, stats, inbox, synced>>

\* ... and writes what follows from it, unless the day is already in it or the
\* statement fails.
WriteStreak(c) ==
  LET g == calls[c].game
      new == ComputeNewStreak(calls[c].read, Info[g].ended)
  IN  /\ At(c, "update")
      /\ \/ /\ new > 0
            /\ UpdateStreak(Info[g].user, calls[c].read, Info[g].ended, new)
            /\ AwardMilestone(Info[g].user, new)
         \/ UNCHANGED <<stats, inbox>>
      /\ IF Info[g].mode = "match"
         THEN calls' = [calls EXCEPT ![c] = [pc |-> "xp", game |-> g, number |-> 0]] /\ UNCHANGED synced
         ELSE Answer(c)
      /\ UNCHANGED <<today, uploads, games, daily>>

\* A fatal error, a caller who is gone, a restart: nothing more of the call runs
\* and the app sends the game again some time.
Abort(c) ==
  /\ ~At(c, "idle") /\ Return(c)
  /\ UNCHANGED <<today, uploads, games, daily, stats, inbox, synced>>

-----------------------------------------------------------------------------
(* DailyService.Retry                                                      *)

\* The checks and RecordRetry; all refusals leave everything as it is.
BuyRetry(u) ==
  /\ retryCall[u] = Idle /\ retryAsked < MaxRetries /\ retryAsked' = retryAsked + 1
  /\ {a.number : a \in GetUserAttempts(u, today)} = {1}
  /\ RecordRetry(u, today)
  /\ retryCall' = [retryCall EXCEPT ![u] = [pc |-> "spend", day |-> today]]
  /\ UNCHANGED <<today, calls, uploads, games, provided, attempts, coins, charges,
                 stats, inbox, synced>>

PayRetry(u) ==
  /\ retryCall[u].pc = "spend"
  /\ SpendCoins(u, retryCall[u].day)
  /\ retryCall' = [retryCall EXCEPT ![u] = Idle]
  /\ UNCHANGED <<today, calls, uploads, games, provided, attempts, retries, retryAsked,
                 stats, inbox, synced>>

\* SpendCoins fails: too few coins, or an error.
RetryUnpaid(u) ==
  /\ retryCall[u].pc = "spend"
  /\ retryCall' = [retryCall EXCEPT ![u].pc = "delete"]
  /\ UNCHANGED <<today, calls, uploads, games, provided, attempts, retries, retryAsked,
                 coins, charges, stats, inbox, synced>>

\* The rollback, which may fail as well and is then only logged.
RollBackRetry(u) ==
  /\ retryCall[u].pc = "delete"
  /\ DeleteRetry(u, retryCall[u].day) \/ UNCHANGED retries
  /\ retryCall' = [retryCall EXCEPT ![u] = Idle]
  /\ UNCHANGED <<today, calls, uploads, games, provided, attempts, retryAsked, coins,
                 charges, stats, inbox, synced>>

-----------------------------------------------------------------------------
\* ensureDailyChallenges, every five minutes: today and tomorrow
EnsureDailyChallenges ==
  /\ ~({today, today + 1} \cap Days \subseteq provided)
  /\ CreateChallengeIfMissing({today, today + 1})
  /\ UNCHANGED <<today, calls, uploads, games, attempts, retries, retryCall, retryAsked,
                 coins, charges, stats, inbox, synced>>

Midnight ==
  /\ today < LastDay /\ today' = today + 1
  /\ UNCHANGED <<calls, uploads, games, daily, stats, inbox, synced>>

SoloNext ==
  \/ \E c \in Calls :
       \/ \E g \in Games : Upload(c, g) \/ FinalizeToDB(c, g)
       \/ CheckDaily(c) \/ CreateMatch(c) \/ AddMatchPlayer(c) \/ SaveAttempt(c)
       \/ UpdateStats(c) \/ AddXP(c) \/ ReadStreak(c) \/ WriteStreak(c) \/ Abort(c)
  \/ \E u \in Players : BuyRetry(u) \/ PayRetry(u) \/ RetryUnpaid(u) \/ RollBackRetry(u)
  \/ EnsureDailyChallenges \/ Midnight

SoloSpec == SoloInit /\ [][SoloNext]_soloVars

-----------------------------------------------------------------------------
\* Type invariant.
SoloTypeOK ==
  /\ today \in Days /\ provided \subseteq Days
  /\ uploads \in 0 .. MaxUploads /\ retryAsked \in 0 .. MaxRetries
  /\ \A c \in Calls : calls[c] = Idle \/
       /\ calls[c].game \in Games /\ calls[c].number \in 0 .. 2
       /\ calls[c].pc \in {"daily", "create", "player", "attempt", "stats", "xp", "streak", "update"}
  /\ rows \in [Games -> Nat] /\ visible \in [Games -> Nat]
  /\ totals \in [Players -> [matches : Nat, xp : Nat]]
  /\ attempts \subseteq [user : Players, day : Days, number : {1, 2}, game : Games]
  /\ retries \subseteq Players \X Days
  /\ \A u \in Players : retryCall[u] = Idle \/ retryCall[u].pc \in {"spend", "delete"}
  /\ coins \in [Players -> Nat] /\ charges \in [Players -> [Days -> Nat]]
  /\ stats \in [Players -> [streak : 0 .. LastDay, longest : 0 .. LastDay, last : 0 .. LastDay]]
  /\ inbox \subseteq [user : Players, streak : Milestones, day : Days]
  /\ synced \subseteq Games

\* A streak is earned: with a streak of n ending on day d, the player finished a
\* game on each of the days d-n+1 .. d.  The row is read and written in two
\* statements by uploads and rooms that overlap and arrive out of order, so the
\* streak may come out too short; it must never come out too long.
FinishedOn(u, d) ==
  \E g \in Games : /\ Info[g].user = u /\ Info[g].ended = d
                    /\ \/ visible[g] > 0
                       \/ Info[g].mode = "match" /\ g \in synced
StreakIsEarned(u) ==
  \A d \in stats[u].last - stats[u].streak + 1 .. stats[u].last : FinishedOn(u, d)

\* No write of a row read earlier makes a streak longer than it was earned.
StreaksStayEarned == [][\A u \in Players : StreakIsEarned(u)']_soloVars

\* No update from a stale read takes a record away: the longest streak never
\* shrinks and is never below the current one.
LongestIsKept ==
  [][\A u \in Players : /\ stats'[u].longest >= stats[u].longest
                        /\ stats'[u].longest >= stats'[u].streak]_soloVars

\* The streak row survives overlapping and late uploads: never too long, and no
\* record is lost.
StreakIsHonest == StreaksStayEarned /\ LongestIsKept

\* A day's retry is charged at most once, and what was charged stays bought: no
\* rollback of one call deletes the retry another call paid for.
RetryChargedOnce ==
  \A u \in Players : \A d \in Days :
    charges[u][d] > 0 => charges[u][d] = 1 /\ <<u, d>> \in retries

\* The ranking counts at most two attempts of a player and day, however uploads
\* overlap and are repeated: the slots are filled in order, a slot by one game
\* only, and each from a game whose match is stored.
AttemptsAreOrdered ==
  \A u \in Players : \A d \in Days :
    LET as == GetUserAttempts(u, d)
    IN  /\ {a.number : a \in as} \in {{}, {1}, {1, 2}}
        /\ \A a, b \in as : a.number = b.number => a = b
        /\ \A a \in as : visible[a.game] > 0 /\ Info[a.game].valid

\* The ranking and the wallet agree with what was played and paid.
DailyIsFair == RetryChargedOnce /\ AttemptsAreOrdered

\* An upload counts once, also when it is repeated.  (Doc: "idempotent sync
\* upload".  It does not hold: two overlapping uploads both find nothing.)
UploadIsIdempotent ==
  \A u \in Players :
    totals[u].matches <= Cardinality({g \in Games : /\ Info[g].user = u /\ Info[g].mode # "match"
                                                    /\ visible[g] > 0})
=============================================================================
