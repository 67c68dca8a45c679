------------------------------ MODULE DailyBoard ------------------------------
(***************************************************************************)
(* The readers of the Daily Challenge (backend/internal/service/daily.go): *)
(* the player's daily page, the ranking, and the payout of a finished day, *)
(* which the scheduler starts every five minutes until a Redis flag says   *)
(* that the day is paid.  Each of them runs several queries, and attempts  *)
(* arrive in between; games played offline arrive after their day.         *)
(***************************************************************************)
EXTENDS Integers, FiniteSets, FiniteSetsExt

CONSTANTS
  Entrants,  \* players of the Daily Challenge
  BoardDays, \* bound: days 1 .. BoardDays
  MaxAttempts, \* bound: attempts stored
  TopScore,  \* bound: scores 1 .. TopScore
  RankPrizes \* ranks with a prize: 1 .. RankPrizes (config.CoinDailyRank1 ..)

ASSUME BoardAssumption ==
  /\ BoardDays \in Nat \ {0} /\ TopScore \in Nat \ {0} /\ RankPrizes \in Nat
  /\ IsFiniteSet(Entrants)

VARIABLES
  day,     \* the Iran calendar day
  results, \* daily_challenge_attempts: [day -> player -> number of
           \* attempts and best score]
  stored,  \* attempts stored
  onTime,  \* [day -> players with an attempt stored before the day was over]
  reader,  \* the GetDailyInfo or Leaderboard call under way, or its answer
  payout,  \* the RunDailyPayout call under way
  prizes,  \* inbox_rewards of daily kinds: [user, kind, day, rank]
  flags    \* days whose Redis payout flag is set

boardVars == <<day, results, stored, onTime, reader, payout, prizes, flags>>
Attempted(d) == {u \in Entrants : results[d][u].tries > 0}
Best(d, u)   == results[d][u].best
Quiet        == [pc |-> "idle"]

BoardInit ==
  /\ day = 1
  /\ results = [d \in 1 .. BoardDays |-> [u \in Entrants |-> [tries |-> 0, best |-> 0]]]
  /\ stored = 0
  /\ onTime = [d \in 1 .. BoardDays |-> {}]
  /\ reader = Quiet /\ payout = Quiet
  /\ prizes = {} /\ flags = {}

\* An upload stores an attempt of that or an earlier day (module SoloGames).
StoreAttempt(u, d, s) ==
  /\ d <= day /\ results[d][u].tries < 2 /\ stored < MaxAttempts
  /\ stored' = stored + 1
  /\ results' = [results EXCEPT ![d][u] = [tries |-> @.tries + 1, best |-> IF s > @.best THEN s ELSE @.best]]
  /\ onTime' = IF d = day THEN [onTime EXCEPT ![d] = @ \cup {u}] ELSE onTime
  /\ UNCHANGED <<day, reader, payout, prizes, flags>>

MidnightPasses ==
  /\ day < BoardDays /\ day' = day + 1
  /\ UNCHANGED <<results, stored, onTime, reader, payout, prizes, flags>>

-----------------------------------------------------------------------------
\* Mutant: the players without an attempt are not told apart.
Mut_GetUserRank(d, u) == Cardinality({v \in Attempted(d) : Best(d, v) > Best(d, u)})

\* GetUserRank: RANK() by best score, 0 for a player without attempt
GetUserRank(d, u) ==
  IF u \notin Attempted(d) THEN 0
  ELSE 1 + Cardinality({v \in Attempted(d) : Best(d, v) > Best(d, u)})

\* GetDailyLeaderboard: player, rank and best score of everybody with an attempt
GetDailyLeaderboard(d) ==
  {[user |-> u, rank |-> GetUserRank(d, u), score |-> Best(d, u)] : u \in Attempted(d)}

GetTodayBest(d) == IF Attempted(d) = {} THEN 0 ELSE Max({Best(d, u) : u \in Attempted(d)})

\* What the handlers answer: the daily page and the ranking
GetDaily(r, mine, rank) ==
  [pc |-> "page", user |-> r.user, day |-> r.day, best |-> r.best, mine |-> mine, rank |-> rank]
GetLeaderboard(r, rank) ==
  [pc |-> "ranking", user |-> r.user, day |-> r.day, entries |-> r.entries, rank |-> rank]

\* GetDailyInfo: the best score of the day, the player's attempts, their rank
OpenPage(u) ==
  /\ reader.pc \in {"idle", "page", "ranking"}
  /\ reader' = [pc |-> "attempts", user |-> u, day |-> day, best |-> GetTodayBest(day)]
  /\ UNCHANGED <<day, results, stored, onTime, payout, prizes, flags>>

PageAttempts ==
  /\ reader.pc = "attempts"
  /\ LET mine == results[reader.day][reader.user]
     IN  reader' = IF mine.tries = 0 THEN GetDaily(reader, mine, 0)
                   ELSE [pc |-> "rank", user |-> reader.user, day |-> reader.day,
                         best |-> reader.best, mine |-> mine]
  /\ UNCHANGED <<day, results, stored, onTime, payout, prizes, flags>>

PageRank ==
  /\ reader.pc = "rank"
  /\ reader' = GetDaily(reader, reader.mine, GetUserRank(reader.day, reader.user))
  /\ UNCHANGED <<day, results, stored, onTime, payout, prizes, flags>>

\* Leaderboard: the entries, then the caller's own rank
OpenRanking(u) ==
  /\ reader.pc \in {"idle", "page", "ranking"}
  /\ reader' = [pc |-> "entries", user |-> u, day |-> day, entries |-> GetDailyLeaderboard(day)]
  /\ UNCHANGED <<day, results, stored, onTime, payout, prizes, flags>>

RankingRank ==
  /\ reader.pc = "entries"
  /\ reader' = GetLeaderboard(reader, GetUserRank(reader.day, reader.user))
  /\ UNCHANGED <<day, results, stored, onTime, payout, prizes, flags>>

-----------------------------------------------------------------------------
\* Mutant: the day that has just begun is paid.
Mut_StartPayout ==
  /\ payout.pc = "idle" /\ day \notin flags
  /\ payout' = [pc |-> "pay", day |-> day, rows |-> GetDailyLeaderboard(day)]
  /\ UNCHANGED <<day, results, stored, onTime, reader, prizes, flags>>

\* payoutYesterday: unless the flag is set, RunDailyPayout reads the ranking.
StartPayout ==
  /\ payout.pc = "idle" /\ day > 1 /\ day - 1 \notin flags
  /\ payout' = [pc |-> "pay", day |-> day - 1, rows |-> GetDailyLeaderboard(day - 1)]
  /\ UNCHANGED <<day, results, stored, onTime, reader, prizes, flags>>

\* CreateInboxReward: ON CONFLICT (user, kind, date) DO NOTHING
CreateInboxReward(p) ==
  IF \E q \in prizes : q.user = p.user /\ q.kind = p.kind /\ q.day = p.day THEN prizes
  ELSE prizes \cup {p}

\* What RunDailyPayout awards: every finisher, and the first ranks.
Awards ==
  LET prize(r, kind, k) == [user |-> r.user, kind |-> kind, day |-> payout.day, rank |-> k]
  IN  {prize(r, "daily_done", 0) : r \in payout.rows} \cup
      {prize(r, "daily_rank", r.rank) : r \in {s \in payout.rows : s.rank <= RankPrizes}}

\* The flag is set only after every award went through; setting it may fail.
FlagDay(given) ==
  \/ given = Awards /\ flags' = flags \cup {payout.day}
  \/ UNCHANGED flags

\* The awards, of which some may fail; all are tried.
PayAwards ==
  /\ payout.pc = "pay"
  /\ \E given \in SUBSET Awards :
       /\ prizes' = prizes \cup UNION {CreateInboxReward(p) : p \in given}
       /\ FlagDay(given)
  /\ payout' = Quiet
  /\ UNCHANGED <<day, results, stored, onTime, reader>>

\* A pass in which nothing fails
PayAll == PayAwards /\ flags' = flags \cup {payout.day}

BoardNext ==
  \/ \E u \in Entrants : \/ \E d \in 1 .. BoardDays : \E s \in 1 .. TopScore : StoreAttempt(u, d, s)
                         \/ OpenPage(u) \/ OpenRanking(u)
  \/ PageAttempts \/ PageRank \/ RankingRank
  \/ MidnightPasses \/ StartPayout \/ PayAwards

\* The scheduler keeps ticking, and a pass that is repeated long enough succeeds.
BoardFairness ==
  /\ WF_boardVars(StartPayout) /\ WF_boardVars(PayAwards) /\ SF_boardVars(PayAll)
BoardSpec == BoardInit /\ [][BoardNext]_boardVars /\ BoardFairness

-----------------------------------------------------------------------------
\* Type invariant.
BoardTypeOK ==
  /\ day \in 1 .. BoardDays
  /\ \A d \in 1 .. BoardDays : \A u \in Entrants :
       results[d][u] \in [tries : 0 .. 2, best : 0 .. TopScore]
  /\ stored \in 0 .. MaxAttempts
  /\ onTime \in [1 .. BoardDays -> SUBSET Entrants]
  /\ reader.pc \in {"idle", "attempts", "rank", "page", "entries", "ranking"}
  /\ payout.pc \in {"idle", "pay"}
  /\ prizes \subseteq [user : Entrants, kind : {"daily_done", "daily_rank"},
                       day : 1 .. BoardDays, rank : 0 .. Cardinality(Entrants)]
  /\ flags \subseteq 1 .. BoardDays

\* A page put together from queries of different moments does not contradict
\* itself: a player whose attempt is shown has a rank and the others none, a player
\* the ranking lists is told a rank, and no listed score beats whoever is told the
\* first.
ReadersAgree ==
  /\ reader.pc = "page" => (reader.mine.tries > 0 <=> reader.rank > 0)
  /\ reader.pc = "ranking" =>
       /\ (\E e \in reader.entries : e.user = reader.user) => reader.rank > 0
       /\ reader.rank = 1 =>
            \A e \in reader.entries : e.score <= Best(reader.day, reader.user)

\* Prizes are paid once however often a pass is repeated and although late
\* attempts move the ranks between two passes: one completion prize and one rank
\* prize per player and day.
PrizesOnce ==
  \A p, q \in prizes : p.user = q.user /\ p.kind = q.kind /\ p.day = q.day => p = q

\* The flag that ends the rescans of a day is set only when everybody whose
\* attempt was stored before midnight has the completion prize, although awards
\* fail one by one.
FlagMeansPaid ==
  \A d \in flags : \A u \in onTime[d] : \E p \in prizes : p.user = u /\ p.day = d /\ p.kind = "daily_done"

\* Every pass leaves the books right, also one that fails or is repeated.
BooksStayRight == [][PrizesOnce' /\ FlagMeansPaid']_boardVars

\* Whoever finished in time is paid, unless the whole next day goes by without a
\* pass that succeeds.
FinishersArePaid ==
  \A u \in Entrants : \A d \in 1 .. BoardDays - 1 :
    [](u \in onTime[d] /\ day = d =>
         (<>[](day = d + 1) => <>(\E p \in prizes : p.user = u /\ p.day = d)))

\* The payout as a whole: right after every step, and some pass succeeds.
PayoutIsRight == BooksStayRight /\ FinishersArePaid

\* "every finisher gets the completion prize": also one whose game arrives after
\* the payout.  (Doc; it does not hold.)
EveryFinisherIsPaid ==
  \A d \in flags : \A u \in Attempted(d) : \E p \in prizes : p.user = u /\ p.day = d
=============================================================================
