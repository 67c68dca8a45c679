------------------------------ MODULE WeeklyBoard ------------------------------
(***************************************************************************)
(* The weekly and the all-time leaderboard                                 *)
(* (backend/internal/service/leaderboard.go): scores go into a Redis       *)
(* sorted set and a database total, readers put a page together from       *)
(* several queries, and the Saturday reset rewards the first three and     *)
(* deletes the sorted set.  Nothing spans two statements; each may fail,   *)
(* and the scheduler may run the reset twice in its minute, or not at all. *)
(***************************************************************************)
EXTENDS Integers, Sequences, FiniteSets

CONSTANTS
  Rivals,    \* players with a score
  TopRanks,  \* ranks with a prize (rewardCoins), 3 in the code
  WeekCount, \* bound: weeks 1 .. WeekCount
  MaxPoints, \* bound: AddScore calls of one point
  MaxResets  \* bound: runs of the weekly reset

ASSUME WeeklyAssumption ==
  TopRanks \in Nat \ {0} /\ WeekCount \in Nat /\ MaxPoints \in Nat /\ IsFiniteSet(Rivals)

VARIABLES
  week,      \* the Iranian week
  points,    \* AddScore calls so far
  scores,    \* leaderboard:global:weekly: [player -> score], 0 = not a member
  lifetime,  \* player_stats.total_score
  halfAdded, \* players whose AddScore has done the first statement only
  shut,      \* banned players
  page,      \* the leaderboard page being read, or its answer
  reset,     \* the RunWeeklyReset call under way
  resets,    \* runs of it so far
  recorded,  \* weekly_leaderboard_rewards: [week, user, rank]
  inboxed    \* inbox_rewards of kind weekly_rank: [week, user, rank]

weekVars == <<week, points, scores, lifetime, halfAdded, shut, page, reset, resets, recorded, inboxed>>
Resting  == [pc |-> "idle"]

WeekInit ==
  /\ week = 1 /\ points = 0 /\ resets = 0
  /\ scores = [u \in Rivals |-> 0] /\ lifetime = [u \in Rivals |-> 0]
  /\ halfAdded = {} /\ shut = {}
  /\ page = Resting /\ reset = Resting
  /\ recorded = {} /\ inboxed = {}

\* AddScore for a player: the sorted set ...
AddScore(u) ==
  /\ points < MaxPoints /\ u \notin halfAdded /\ points' = points + 1
  /\ scores' = [scores EXCEPT ![u] = @ + 1]
  /\ halfAdded' = halfAdded \cup {u}
  /\ UNCHANGED <<week, lifetime, shut, page, reset, resets, recorded, inboxed>>

\* ... then the lifetime total, which may fail.
AddTotalScore(u) ==
  /\ u \in halfAdded /\ halfAdded' = halfAdded \ {u}
  /\ lifetime' = [lifetime EXCEPT ![u] = @ + 1] \/ UNCHANGED lifetime
  /\ UNCHANGED <<week, points, scores, shut, page, reset, resets, recorded, inboxed>>

\* BanUser and UnbanUser (repository/admin_users.go)
SetBan(u) ==
  /\ shut' = IF u \in shut THEN shut \ {u} ELSE shut \cup {u}
  /\ UNCHANGED <<week, points, scores, lifetime, halfAdded, page, reset, resets, recorded, inboxed>>

-----------------------------------------------------------------------------
\* The players of a set, best first, in some order where they are level.
Ranking(users, score) ==
  {s \in [1 .. Cardinality(users) -> users] :
     /\ \A u \in users : \E i \in DOMAIN s : s[i] = u
     /\ \A i, j \in DOMAIN s : i < j => score[s[i]] >= score[s[j]]}

Upto(s, n) == SubSeq(s, 1, IF n < Len(s) THEN n ELSE Len(s))

\* BannedIDs
BannedIDs(users) == users \cap shut

\* GetTopN: the members that are not banned, cut to n
GetTopN(n) ==
  LET members == {u \in Rivals : scores[u] > 0}
  IN  {Upto(s, n) : s \in Ranking(members \ BannedIDs(members), scores)}

\* GetFriendsLeaderboard: the caller and the friends that are not banned, a player
\* without a score with 0 (all players here are friends)
GetFriendsLeaderboard(u, n) ==
  {Upto(s, n) : s \in Ranking({u} \cup (Rivals \ BannedIDs(Rivals \ {u})), scores)}

\* AllTimeRow: positive totals of players who are not banned
AllTimeRows == {u \in Rivals \ shut : lifetime[u] > 0}
GetAllTimeTop(n) == {Upto(s, n) : s \in Ranking(AllTimeRows, lifetime)}

\* GetPlayerRank: 0 without a score this week
GetPlayerRank(u) ==
  IF scores[u] = 0 THEN 0 ELSE 1 + Cardinality({v \in Rivals : scores[v] > scores[u]})

\* GetAllTimeRank: 0 without a score; only the players above are checked for a ban
GetAllTimeRank(u) ==
  IF lifetime[u] = 0 THEN 0
  ELSE 1 + Cardinality({v \in Rivals \ shut : lifetime[v] > lifetime[u]})

\* GET /leaderboard: the entries of the board asked for ...
OpenBoard(u, kind) ==
  /\ page.pc # "entries"
  /\ \E s \in CASE kind = "friends" -> GetFriendsLeaderboard(u, TopRanks)
               [] kind = "alltime" -> GetAllTimeTop(TopRanks)
               [] OTHER            -> GetTopN(TopRanks) :
       page' = [pc |-> "entries", user |-> u, kind |-> kind, entries |-> s]
  /\ UNCHANGED <<week, points, scores, lifetime, halfAdded, shut, reset, resets, recorded, inboxed>>

\* ... then the caller's own rank.
FinishBoard ==
  /\ page.pc = "entries"
  /\ page' = [pc |-> "shown", user |-> page.user, kind |-> page.kind, entries |-> page.entries,
              rank |-> IF page.kind = "alltime" THEN GetAllTimeRank(page.user)
                       ELSE GetPlayerRank(page.user)]
  /\ UNCHANGED <<week, points, scores, lifetime, halfAdded, shut, reset, resets, recorded, inboxed>>

-----------------------------------------------------------------------------
\* RunWeeklyReset reads the first ranks; when that fails it gives up.
StartReset ==
  /\ reset.pc = "idle" /\ resets < MaxResets /\ resets' = resets + 1
  /\ \E s \in GetTopN(TopRanks) : reset' = [pc |-> "reward", week |-> week, top |-> s, at |-> 1]
  /\ UNCHANGED <<week, points, scores, lifetime, halfAdded, shut, page, recorded, inboxed>>

\* InsertWeeklyReward: ON CONFLICT (week, user) DO NOTHING, told apart by the caller
InsertWeeklyReward(r) ==
  IF \E q \in recorded : q.week = r.week /\ q.user = r.user THEN recorded ELSE recorded \cup {r}

\* CreateInboxReward: ON CONFLICT (user, kind, week) DO NOTHING
CreateWeeklyReward(r) ==
  IF \E q \in inboxed : q.week = r.week /\ q.user = r.user THEN inboxed ELSE inboxed \cup {r}

\* Mutant: a player who is rewarded already gets the inbox row again.
Mut_RewardRank(r) ==
  /\ recorded' = InsertWeeklyReward(r)
  /\ inboxed' = CreateWeeklyReward(r) \/ UNCHANGED inboxed

\* One rank of the reset: record it, put it into the inbox; either may fail, and a
\* failure is only logged.
RewardRank(r) ==
  \/ /\ InsertWeeklyReward(r) # recorded
     /\ recorded' = InsertWeeklyReward(r)
     /\ inboxed' = CreateWeeklyReward(r) \/ UNCHANGED inboxed
  \/ UNCHANGED <<recorded, inboxed>>

RewardNext ==
  /\ reset.pc = "reward" /\ reset.at <= Len(reset.top)
  /\ RewardRank([week |-> reset.week, user |-> reset.top[reset.at], rank |-> reset.at])
  /\ reset' = [reset EXCEPT !.at = @ + 1]
  /\ UNCHANGED <<week, points, scores, lifetime, halfAdded, shut, page, resets>>

\* The sorted set is deleted whatever happened to the rewards; that may fail too.
ClearBoard ==
  /\ reset.pc = "reward" /\ reset.at > Len(reset.top)
  /\ scores' = [u \in Rivals |-> 0] \/ UNCHANGED scores
  /\ reset' = Resting
  /\ UNCHANGED <<week, points, lifetime, halfAdded, shut, page, resets, recorded, inboxed>>

\* The server stops in the middle of a reset.
ResetStops ==
  /\ reset.pc = "reward" /\ reset' = Resting
  /\ UNCHANGED <<week, points, scores, lifetime, halfAdded, shut, page, resets, recorded, inboxed>>

NextWeek ==
  /\ week < WeekCount /\ week' = week + 1
  /\ UNCHANGED <<points, scores, lifetime, halfAdded, shut, page, reset, resets, recorded, inboxed>>

WeekNext ==
  \/ \E u \in Rivals : AddScore(u) \/ AddTotalScore(u) \/ SetBan(u)
  \/ \E u \in Rivals, kind \in {"global", "friends", "alltime"} : OpenBoard(u, kind)
  \/ FinishBoard \/ StartReset \/ RewardNext \/ ClearBoard \/ ResetStops \/ NextWeek

WeekSpec == WeekInit /\ [][WeekNext]_weekVars

-----------------------------------------------------------------------------
\* Type invariant.
WeekTypeOK ==
  /\ week \in 1 .. WeekCount /\ points \in 0 .. MaxPoints /\ resets \in 0 .. MaxResets
  /\ scores \in [Rivals -> 0 .. MaxPoints] /\ lifetime \in [Rivals -> 0 .. MaxPoints]
  /\ halfAdded \subseteq Rivals /\ shut \subseteq Rivals
  /\ page.pc \in {"idle", "entries", "shown"} /\ reset.pc \in {"idle", "reward"}
  /\ recorded \subseteq [week : 1 .. WeekCount, user : Rivals, rank : 1 .. TopRanks]
  /\ inboxed \subseteq [week : 1 .. WeekCount, user : Rivals, rank : 1 .. TopRanks]

\* What a winner is paid is what the books say: every weekly prize in an inbox has
\* its row in weekly_leaderboard_rewards with the same rank, also when the reset
\* runs again after a failure and finds the players in another order.
PrizeMatchesRecord == inboxed \subseteq recorded

\* A page of the all-time board does not contradict itself: a caller it lists has
\* a rank, although scores, bans and the weekly reset go on between its queries.
ListedIsRanked ==
  page.pc = "shown" /\ page.kind = "alltime" /\ (\E i \in DOMAIN page.entries : page.entries[i] = page.user)
    => page.rank > 0

\* (The two hazards of the boards: repeated resets and pages of several queries.)
BoardsAgree == PrizeMatchesRecord /\ ListedIsRanked

\* "It rewards the top 3 players, records the rewards": a recorded reward has
\* reached the inbox once the reset is over.  (Doc; it does not hold.)
WinnersArePaid == reset.pc = "idle" => recorded \subseteq inboxed
=============================================================================
