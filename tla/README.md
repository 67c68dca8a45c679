# snap-word (WordChain): TLA+ models and proofs

TLA+ modules for the word-chain game (its Go server and the parts of the Flutter
app that talk to it), the TLC configurations that model-check them, and theorems
checked by TLAPS. Paths are relative to the repository; `room.go` stands for
`backend/internal/ws/room.go`, `service/` for `backend/internal/service/`.
`PROJECT.json` lists components, runs, mutants, hazards, findings and theorems,
and maps every definition to the lines it models.

## 1. Inventory

The product is one Go process (`backend/cmd/server`) with PostgreSQL and Redis, a
Flutter app (`client/`) and a React panel for operators (`admin/`).

| component | state it keeps | operations | what makes it correct |
|---|---|---|---|
| match room (`ws/room.go`, `client.go`, `ai_client.go`) | seats, turn, chain, timers and their sequence numbers, reconnect grace, entry fee | Join, leave, the messages of `handleMessage`, timer goroutines, drain | one live timer, the right player loses, the fee is settled once, every room ends |
| hub (`ws/hub.go`, `handler/ws.go`) | `map[id]*Room` in memory | GetOrCreateRoom, RemoveRoom, ServeWS | the players of an id meet; coins are conserved across rooms |
| matchmaking (`service/matchmaking.go`) | Redis list per mode, map of waiters | Join (blocks), Cancel, background pass every 500 ms | two people per room, everybody is answered, no entry is served twice |
| challenges (`service/challenge.go`) | row with status, room id, expiry | create, accept, decline, expire, poll | one answer wins |
| solo and daily games (`service/game.go`, `daily.go`) | match rows, attempts, paid retries, totals | upload, retry, daily page, ranking, payout | a retry is paid and used once, prizes follow the ranking |
| streaks (`service/streak.go`) | streak, longest, last day | record a day, milestones | a streak is days really played |
| leaderboards (`service/leaderboard.go`) | Redis sorted set, total per player, weekly rewards | add, read pages, reset | recorded and paid prizes agree; who is listed is ranked |
| scheduler (`scheduler.go`) | busy and done flags | one tick a minute, dropped while a tick still works | the day's row exists, passes do not overlap |
| analytics (`service/analytics.go`) | raw events, install rows, roll-ups | check, insert, roll up, prune | a closed day misses only what its midnight overtook |
| accounts (`service/auth.go`, `middleware/auth.go`) | code, attempts, referrer, tokens, reward inbox | send, verify, sign up, redeem, claim, refresh | guesses are bounded, one reward per inviter and friend |
| wallet (`powerup.go`, `purchases.go`, `perks.go`) | coins, items, premium time, avatar | use, spend, deliver a receipt | paid once, delivered once |
| admin users (`admin_users.go`, `admin_audit.go`) | the same rows, audit log | page, adjust, gift, grant, rename, ban | what the log says really happened |
| panel sign-in (`admin_auth.go`, `cmd/adminctl`) | session keys with a TTL, their index, counters | login, authenticate, slide, revoke | a session ends; a revoked one is gone |
| friendships (`friends.go`) | a row per ordered pair | ask, answer, remove, list | friends have both agreed |
| dictionary (`service/dictionary.go`, `engine/dictionary.go`, `admin_words.go`, `word_suggestions.go`) | override rows, memory, overlay, reports | edit, report, approve, reject, page of changes | what is stored is what games and apps use |
| perks catalogue (`perks_catalog.go`) | two tables, a cached copy | read, edit, reorder, pick an avatar | no reader keeps a copy older than its TTL |
| campaigns (`admin_notifications.go`, `notification.go`) | campaign row, inbox rows, device tokens | send, deliver, close, clean up | the counts are honest; only dead tokens go |
| daily letter (`admin_content.go`, `engine/daily_letter.go`) | row per day with its letter | provide, show, choose | the operator's choice is kept; a day that began is locked |
| app: session, outbox, purchases, dictionary (`client/lib/core`) | tokens, local matches and totals, changes | refresh, sync, buy, restore, delta | every request ends unless its refresh throws, no game is dropped, no payment unanswered |
| word rules (`engine/validator.go`, `scorer.go`, `ws/ai_client.go`) | the chain, the words used, the AI's copy, a hint | validate, score, pick, hint | every word links and is new, wherever it comes from |
| app's game view, panel UI, settings, legal pages | none, or rows edited by one statement | | section 7 |

Interactions. Matchmaking and challenges ask the hub for a room and hand its id
to two apps; the apps dial `ServeWS`, which looks the room up under the hub's
lock and joins it later under the room's own. A room charges and pays coins,
inserts its match row when it starts, and from goroutines records the result and
removes itself from the hub. The scheduler provides days, pays the ranking,
resets the board, expires challenges and rolls up events. Players, operators and
the app's retries change the same rows from calls that overlap. Rooms, waiters,
caches and goroutines live in memory: a restart loses them and keeps rows, coins
and Redis.

Hard behaviours: timers that fire while the event that cancels them waits for the
same lock; rows read by one statement and written by a later one; goroutines that
run seconds after the decision they belong to; calls of several statements of
which one fails; apps that drop, return, repeat, die and give up; restarts.
`PROJECT.json` "hazards" has each at its line, with the properties that cover it.

## 2. Modules

| module | models |
|---|---|
| `Room` | a room: every handler under `r.mu`, every goroutine outside it |
| `EntryFeePot`, `RoomPot` | abstract: two equal stakes, taken together, paid out once; and the refinement mapping from `Room` |
| `WordChain` | the words of a match: the validator, the AI and its stale copy of the chain, hints, edits of the dictionary meanwhile, the app's Daily Challenge and its upload |
| `RoomLocks` | who reads and writes `r.clients` with and without `r.mu`, countdown goroutines, channel closing |
| `Matchmaking` | Join, Cancel and the background pass, step by step |
| `Hub` | rooms by id, ServeWS, drain, recording, restart, coins over all rooms |
| `Challenge` | friend challenges; EXTENDS `Hub` |
| `SoloGames` | uploads statement by statement, the result of a room's match, streak, paid retry |
| `DailyBoard` | the player's daily page, the ranking, the payout |
| `WeeklyBoard` | scores, boards, bans, the weekly reset |
| `Scheduler` | the ticker, the day's rows, analytics passes over late events |
| `DailyLetter` | the start letter between scheduler and operators |
| `Accounts` | codes, sign-up, referrals, sessions, inbox |
| `Friendship` | requests in both directions |
| `AdminAuth` | the panel's sign-in, sessions, `adminctl` |
| `Wallet`, `AdminUsers` | what a player owns; operators' edits of it (EXTENDS `Wallet`) |
| `Dictionary`, `AppDictionary` | stored rows, memory, overlay, reviews; the app's copy (EXTENDS `Dictionary`) |
| `PerksCatalog` | tables, cached copy, avatars |
| `Campaign` | campaigns, delivery, tokens, message inbox |
| `AppSession`, `AppSync`, `AppStore` | the app's tokens and refresh, outbox, purchases |
| `RoomProofs` | theorems about `Room`, its refinement of `EntryFeePot`, and `RoomLocks` |
| `MatchProofs` | theorems about `WordChain` and `Matchmaking` |
| `HubProofs` | theorems about `Hub` and `Challenge` |
| `AccountsProofs`, `OperatorProofs` | theorems about `Accounts` and `Friendship`; about `Wallet`, `AdminUsers` and `AdminAuth` |
| `GamesProofs` | theorems about `SoloGames`, `DailyBoard`, `WeeklyBoard`, `Scheduler` and `DailyLetter` |
| `ContentProofs` | theorems about `PerksCatalog`, `Campaign`, `Dictionary` and `AppDictionary` |
| `AppProofs` | theorems about `AppSession`, `AppSync` and `AppStore` |
| `MCRoom`, `MCRoomLocks`, `MCMatchmaking`, `MCRooms`, `MCGames`, `MCPeople`, `MCContent`, `MCApp` | instances for TLC |

Composition. `Challenge` uses the hub's actions inside its own (`CreateRoom` is
`MakeRoom`, a Dial needs an id the app was told); `AdminUsers` interleaves
operators with the players of `Wallet` on one row; `AppDictionary` reads the rows
`Dictionary` writes; `Room` implements `EntryFeePot` and `Challenge` implements
`Hub` (both proved).

What is left: a composition of `AppSync` with `SoloGames` in one state space, and
whatever needs liveness proofs (end of section 5).

## 3. How the models correspond to the code

**Room.** Every handler of `room.go` takes `r.mu` on its first line and returns
with it, so a handler is one action: `TakeSeat`, `Reconnect`, `JoinRejected` (the
paths of `Join`), `Leave`, `SubmitValidWord`, `SubmitInvalidWord`, `UsePowerup`,
`Continue`, `DeclineContinue`, `ProcessForfeit`, `TurnTimeout`,
`ContinueTimeout`, `ExpireIfWaiting`. What the code starts with `go` or
`AfterFunc` is state: `turnTimers` and `continueTimers` hold the sequence number
and player each sleeping goroutine carries, `grace` the reconnect goroutine of
each connection (running, or fired and waiting for the lock), `waitTimer` the
callback that `Stop` cannot recall once started, `drain` the two seconds before
the sockets are closed. A word is valid or invalid; the chain keeps the author of
every word; `ledger` is the net flow of entry fees. Charging stops at the first
player who cannot pay and refunds the one before; with `LedgerFails` a credit may
fail and be only logged, which `lost` counts.

**WordChain.** A match between a person and the AI as far as words go, the words being
sequences over a small alphabet with a half-space. `processSubmitWord` is the
room's handler with `ValidateMove` (the validator) and `handleLoss`. `runAI` reads
one message of the AI's channel; its turn starts an `aiSubmit` goroutine that
sleeps with a copy of the used words and the letter (`thinking`) and picks with
`SelectAIWord` when the chain may have moved on. `UseHint` asks `SuggestWord`,
`ApplyOverrides` edits the dictionary meanwhile. `PlayDaily` is the app's local game
and `UploadDaily` the server's check of it, `ValidateDailyChain`. What is assumed of
the dictionary (`WordsAssumption`) is what `SetWord` lets in, and that no word
consists of half-spaces only.

**RoomLocks.** The same room seen from `r.clients`: `held` is the handler that
owns `r.mu`, begun and ended in two steps, and in between fall the ticks of
`sendTimerUpdates`, the "ping" case of `handleMessage` and the drain.

**Matchmaking.** A call of `Join` goes through idle, registered, waiting,
returning (its deferred delete is due) and ended; its select takes any ready
case. `ReadQueue` snapshots the list and splits it by age, `Pair` and `Fallback`
work the copies off, `Notify` looks the waiter up by user. `CancelWaiter`,
`CancelFind` and `CancelRemove` are the steps of `Cancel` between which the pass may
run. `age` counts passes of 500 ms since the push (`EnqueuedAt` is taken a moment
before it) up to `Deadline`, where Join times out; so the old entries are the first
ones of the list, and the split is a cut (`Oldest`). That a place to cut always
exists is the theorem `ListSplitsByAge`.

**Hub, Challenge.** `rooms` is every room ever created and `hub` the map; `Dial`
and `Join` are the halves of `ServeWS`; `ResolveGame` pays and starts
`FinalizeToDB` and `RemoveRoom`, elements of `recording` and `draining`. A match is
decided in one step; how, is `Room`. A call of `RespondToChallenge` reads, checks
the coins, creates the room and runs one UPDATE guarded by `status = 'pending'`,
which may also fail.

**SoloGames, DailyBoard, WeeklyBoard, Scheduler.** A server call is a record with
the statement it stands at; each statement is one action and may fail (`Abort`
where the call returns the error, a logged stutter where it goes on). What a
reader has read stays in its record while others write (`OpenPage` ..
`PageRank`, `StartReset` .. `ClearBoard`). A ticker holds one tick and drops the
rest; time is cut into slots. An upload of events is two actions: `Ingest` takes the
time and clamps the events against it, `InsertAnalyticsEvents` commits them later,
when the day, and its daily pass, may have turned; the history `overtaken` keeps the
rows this happened to.

**Accounts, AdminAuth.** A call decides on the row it read first (`authCall`,
`login`, `request`); each SQL or Redis statement is an action, and a hang-up or a
refused statement ends it (`CallFails`, `LoginFails`, `RequestFails`). Redis keys
carry their remaining life, which `Tick` counts down.

**Wallet, AdminUsers.** The guarded UPDATEs (`coins >= price`, `quantity > 0`) are
guards of one action; delivery of a receipt is one transaction. The audit entry
is a second statement (`LogRecord`) that may be lost. It has what the service has at
hand: old values of coins, avatars and names (the last read before the UPDATE), new
ones of coins, names and premium; for gifts, bans and the end of premium neither
(`Untold`).

**Friendship.** The look in both directions and the INSERT are two steps
(`asking`), so crossing requests may leave two rows.

**Dictionary, AppDictionary.** `Draw` takes the sequence number, `Commit` makes the
row visible, `RecordRow` writes memory, `ReadOverlay` and `StoreOverlay` are the
load and the store of the overlay pointer, between which another call may store.
`RestoreDatabase` brings back an older database: the app is then ahead and starts
again. The app applies a page in memory and stores it.

**PerksCatalog, Campaign, DailyLetter.** A read of the catalogue is two queries and a
store; an edit is the write and, later, `Invalidate`. A push is a goroutine:
targets, jobs, answers of FCM (delivered, gone, lost), the closing of the row. The
letter of a day is chosen by `EnsureChallenge` (ON CONFLICT DO NOTHING) or
`SetStartLetter`/`SetDailyStartLetter`, the check and the guarded upsert.

**AppSession, AppSync, AppStore.** An `await` ends an action. Requests that got 401
share one refresh (`_refreshFuture`); what is no `DioException` leaves it as an error
(`RefreshThrows`), and its waiters, whose handlers are then never called, are
`Stranded` until the app is killed. `KillApp` and `AppDies` lose what is in
memory and keep what is stored; the server is a verdict per game and a receipt per
order, consistent with `SoloGames` and `Wallet`. A run of `sync()` holds the games
that were finished and unmarked when it read them and sends the oldest first
(`Oldest`: games are numbered in the order of `startedAt`).

Mutants: modules contain, marked as such, plausible wrong versions of some
definition (`Mut_...`); `PROJECT.json` pairs each with the property that catches
it. No specification uses them.

## 4. Runs

| run | instance | shows |
|---|---|---|
| room_seats | 2 people + AI, 4 connections, failing coin operations, fair timers | seats, `FeeSettled`, `FinishedIsFinal`, refinement of the pot, every room ends and is removed |
| room_match | 2 people, 1 return, shields, extra time, continues, 2 words | exactly one live timer, grace goroutines match absences, only who failed loses and gets one continue (`LossIsFair`), turns alternate |
| matchmaking | 4 calls by 3 patient users; 3 calls by 2 users with hang-ups, one Cancel or one restart | pairs of two people, everybody told in time; one room per entry, a room of one's own; calls return and entries leave |
| rooms | 2 answers to one challenge, 1 restart; 3 users on one id; 3 connections and 3 countdowns | one answer wins, orphan rooms leave the hub, the live room is the mapped one, each player's coins balance, results are recorded; no locked send on a closed channel, countdowns end |
| finished_games | a match of words with hints, the AI and an edit; 3 games by 2 overlapping calls; 2 entrants, 2 days; 2 rivals, 2 weeks; 1 event of 2 sends | words follow the rules and an honest Daily Challenge counts when it is uploaded; streak, retries and attempts; pages agree with the ranking; payout; boards and reset; roll-ups are whole up to what midnight overtakes, days are provided |
| people | 2 accounts, 2 calls; 3 people; 2 admins, 2 tokens; 2 players, 2 receipts, 2 editors | bounded guesses, sound referrals, agreed friends, ended sessions, sound wallet, true audit |
| content | 2 words, 3 edits, a restore; 2 readers and 2 editors of the catalogue; 2 campaigns, 2 tokens | `WordsAgree`, `CatalogIsFresh`, `CampaignIsHonest` |
| app | 2 requests, 2 accounts, 4 tokens; 2 games, 2 loops, 2 faults; 2 orders, 2 deaths; 3 days, 2 operators | requests end unless their refresh throws, no game and no purchase is lost (`NothingIsLost`), the panel is obeyed |
| matchmaking_timeout, locks_guarded, dictionary_live, letter_locked | | disagreements, section 6 |

**Parts.** `MCMatchmaking`, `MCRooms`, `MCGames`, `MCPeople`, `MCContent` and
`MCApp` check several questions in one run: a variable `part`, chosen at the start
and never changed, says which. Modules put together like this share no variable,
so a behaviour of one module is a behaviour of the composite in which the others
stand still, and the reachable states are the union and not the product. Where a
part is a slice of one module (`OtpPart`, `GuessPart`, `SignupPart`, `InboxPart` of
`Accounts`; `SignInPart`, `SessionsPart` of `AdminAuth`; `EditPart`, `StatusPart` of
`AdminUsers`; "rows", where no event arrives, and "analytics", where no upsert fails,
of `Scheduler`; `DictionaryPart`, `ReviewPart`; `CataloguePart`, `WearersPart`;
`DeliveryPart`, `AudiencePart`), a conjunct leaves out steps that concern another
property: for example the guesses at a code need no referral, and a campaign's
audience is settled before its delivery begins. Such a part checks fewer
interleavings than the whole module; the comments at each name what is left out,
and each action of a module is taken in one of its parts.

**Bounds.** A room has two seats, so two players with one return each way show
every pairing of old and new connection; a third contender (the AI) is needed for
full rooms. Two words make the turn wrap around. `StillPlaying` bounds room_match
to one stale turn timer asleep, which is what it takes for a timer to meet a turn
it was not started for, and to one power-up; finished rooms are explored by
room_seats. Three calls by two users are the least in which one user has an old
and a new search beside an opponent. Two ids and two rooms let one id be used
twice or two ids at once; the third user is the one a full room refuses. Two
overlapping calls show every lost update of a read followed by a write; a second
day, week or reset shows what is carried over (`LastDay`, `BoardDays`,
`WeekCount`, `MaxResets`, `Horizon`); `MaxUploads` and `MaxSends` allow one repeat,
which finds either the first call at work or its traces; skews of one slot
(`PastSkew`, `FutureSkew`) let an event be late, early or clamped. `OTPMaxAttempts` is 2 so
that two parallel guesses can pass the limit. `MaxFaults` and `MaxDeaths` of 2 let
the recovery itself be interrupted; `MaxTokens` of 4 lets a refreshed token expire
again and a second account get its own. `MaxSeq` of 3 edits over pages of one row
make an app miss, repeat and overtake a page. `Bounded` of `MCMatchmaking` lets
one Cancel or one restart interfere, not both. Amounts are the smallest that tell
the cases apart; 20 is `EntryFeeCoins`. Deadlock checking is off because rooms,
calls, uploads and bounded days do end.

**Fairness.** Weak fairness on goroutines that sleep or wait for a lock: timers fire
and `sync.Mutex` does not starve. No action of a player or an operator is fair.
An updater of `RoomLocks` may prefer its ticker to a cancelled context again and
again; Go picks among ready cases at random, hence strong fairness on
`UpdaterEnds`. A statement that may fail would be allowed to fail for ever by weak
fairness; the scheduler repeats the payout every five minutes and the day's rows
every minute, so that a pass without a failure is possible again and again:
strong fairness on `PayAll` and `EnsureBoth` says that one of them succeeds at
last, as the code assumes of a database that comes back. In the app the calls end
(Dio's time-outs), and the loops of `AppSync` and `AppStore` go on while the app
lives; deaths and faults are bounded, which is the assumption that the player
finally leaves the app open on a network. In `Hub` the steps of one room
(`RoomStep`: it expires or is decided, drains, is recorded and removed, each at most
once) are weakly fair together, because `RoomIsRemoved` of `Room` shows that
matches end.

## 5. Proofs

The theorems hold for every value of the constants, from the assumptions the
modules name. Most of these only say that bounds and amounts are numbers; five are
about finiteness, where the code counts or takes a greatest number (calls in
flight, entrants, rivals, players and tokens of a campaign, words), and `WordChain`
assumes of the dictionary what `SetWord` lets in, and of `fa.txt` that no word ends
with a half-space. A property of a run is rarely inductive as it stands. For each
theorem this says what the inductive invariant adds and why it is needed.

**Room (`RoomProofs`)**, for any players, connections, power-ups, stake and word bound:

* `TypeCorrect`, `SeatsAlwaysTaken`: `TypeOK` and `SeatsAreTaken`. They need each
  other (a turn indexes the seats) and `NoGraceYet`: in a waiting room no grace
  goroutine exists, or it could end a match that has not begun.
* `FeeAlwaysSettled`: `FeeSettled` speaks only about the outcome; `FeeInv` says for
  each phase where the stakes are (nobody paid; both paid and held; settled; or lost
  in a refused credit), and `RoomInv` joins it with the above.
* `FinishedStaysFinal`: the action property `FinishedIsFinal`, from `RoomInv`.
* `RoomImplementsPot`: `PotSpec`. Initial states map to initial states and each
  action of the room to `Collect`, `Abandon`, `PayOut` or a stutter.
* `OneTimerLives`: `OneLiveTimer`. `ClockInv` adds `TimersAreOld` (no sleeping
  goroutine carries a sequence number that is still to come, so raising the number
  makes all of them stale at once) and `WindowIsOwned` (the continue window belongs
  to the player on turn).
* `LossesAreFair`: `LossIsFair`, an action property; with `ClockInv` a timer that is
  not stale is the one of the player on turn.
* `AbsenceIsTimed`: `GraceMatchesAbsence`. `WatchInv` adds `CancelIsOwned`: the cancel
  function a player has is that of the connection whose grace runs.
* `TurnsAlwaysAlternate`: `TurnsAlternate`. `AlternateInv` counts the repeats of a
  player against the burnt shield of the other one, and says that whoever wrote the
  last word is on turn again only just after a shield was burnt.
* `LockedSendsAlwaysOpen` (of `RoomLocks`): `LockedSendsAreOpen`. `SendsInv` adds
  that the phase cannot change under the handler that holds the lock, and that
  channels are closed after the end alone.
* `OneCountdown`: never two countdowns that go on, and none uncancelled after the
  match. This is the safety half of `CountdownsEnd`, which is liveness.

* `RoomAlwaysWakesUp`: a room in the hub has a timer that is not stale, or a
  goroutine under way, that takes it on, and it leaves the hub only when it is over.
  This is the safety half of `RoomIsRemoved`. `WakeInv` ties the drain to the end of
  the room and the hub to the end of the drain; `ClockInv` has the match itself.

The arguments about seats and money group the actions by what they do: those that
keep everything (`Kept`), the start of the match, and the end (`Decided`); each
action is shown to be of one group once, and each invariant looks only at groups.

**Words (`MatchProofs`)**, for any alphabet, dictionary, lengths and edits:

* `WordsAlwaysFollowRules`: `WordsFollowRules`. The AI plays from a copy of the chain
  that it makes from its messages. `WordInv` says why the copy is good when it
  counts: what the AI knows and what it has not read yet are together the words of
  the room (`CopyCatchesUp`); it is told of its turn after all words before it and
  thinks with nothing left to read (`TurnIsToldLast`); and a hint fits the chain it
  was given for (`HintFits`).

* `HonestRunsAlwaysCount`: `HonestRunsCount`, an action property: the server accepts
  each Daily Challenge the app let somebody play, also after the dictionary has been
  edited. `RunInv` says that the words of the run link and do not repeat
  (`RunIsLinked`) and that its score is within the bound `maxTurnScore` adds up
  (`ScoreIsBounded`). The sum is a recursive function, about which nothing can be
  proved by induction here; but the invariant is about every function that satisfies
  the recursion (`AddsUp`), and a word more extends such a function by one value. So
  the induction over the words is the one over the steps of the behaviour.

**Matchmaking (`MatchProofs`)**, for any users, calls, windows, hang-ups, cancels and
restarts:

* `CallersAlwaysMeet`: `CallersMeet`. `QueueInv` has two layers. The first holds
  whatever happens: an entry is in the list and in one copy at most once and has no
  room yet (`EntriesFit`); a waiter belongs to the user it is filed under and a room
  is told to those inside it (`AnswersFit`); only a call that returns has an outcome
  (`OutcomesFit`). The second, `PatientInv`, holds while nobody hangs up, cancels or
  restarts: a user has one call at a time, which is the waiter on file (`CallersFit`);
  nobody who waits is older than the fallback window, because a pass serves all old
  entries before the next tick (`TimesFit`); and a call that waits is listed, about to
  be told, or has its answer (`NewsFit`). A pair is of two people because each of its
  entries is the one waiter of its user.
* `ListSplitsByAge`: the list is in the order of age (`ListIsByAge`), whatever LREM
  takes out of it and whatever a restart leaves in it.

**Hub and challenges (`HubProofs`)**, for any number of users, ids, rooms, restarts,
challenges and answers in flight:

* `LiveRoomsAlwaysMapped`: `LiveRoomIsMapped`. A removal goes by id, seconds after the
  decision, so the invariant must say what stands under an id meanwhile:
  `OwnersAreMapped` (a room that is still to be removed owns its id, so no newer room
  can have it), `DrainedAreOver` (only a finished room is removed) and `NoneIsGone`
  (neither the map nor a player who has dialled holds a room that a restart ended).
* `CoinsAlwaysBalance`: `CoinsBalance`. `BooksInv` ties the balance of each player to
  the state of each room: no match before the room runs, two who pay for each match,
  and a pot that is paid to one of them or, after a restart, to nobody.
* `HubNeverLittered`, `ResultsAlwaysKept`: the safety halves of `RoomsLeaveTheHub` and
  `MatchIsRecorded`. What an id leads to is a live room of that id or one whose
  removal is under way; a match stops running only to be recorded, a recording ends
  only by writing the row, and a written row stays, whatever other match the id has
  served. A restart is the one exception. `RowsExist` is what the recording needs: its
  match has a row to update.
* `OneAnswerAlwaysWins`: `OneAnswerWins`. The guarded UPDATE makes a decided row
  final (`RowsAreFinal`), which keeps an id that was told to an app the id of an
  accepted challenge. `ChallengeInv` adds `AcceptedHaveRooms` (a poll reads the room
  of an accepted row) and that a call in flight remembers the room it made.
* `ChallengesUseHub`: `ChallengeSpec => Spec`. A challenge's steps are `MakeRoom`, a
  Dial of a known id, another step of the hub, or leave the hub alone. So
  `LiveRoomIsMapped`, `CoinsBalance` and the first of the two above carry over:
  `FriendsDialTheLiveRoom`, `FriendsPayOnce`, `FriendsLeaveNoLitter`.

**Accounts and friendships (`AccountsProofs`)**, for any accounts and finitely many
calls in flight:

* `FriendsAlwaysAgreed`: `FriendsHaveAgreed`. `FriendInv` adds `RowsHaveAgreed`: a pair
  has agreed exactly if the row of one direction or the other is accepted, whatever
  the second row says.
* `GuessesAlwaysBounded`: `GuessesAreBounded`. Every call decides on the counter it
  read first, so the bound must count the calls that are still to write: `GuessesFit`
  bounds the wrong guesses together with those in flight for the current code.
* `ReferralsAlwaysSound`: `ReferralsAreSound`. `CallsInv` says of a call in flight what
  it must not carry (a code or a referrer that is its own account), and `InboxInv`
  that the inbox has one reward for each inviter and friend.

**Wallet, operators, panel (`OperatorProofs`)**, for any players, receipts, operators,
sessions and bounds:

* `WalletsAlwaysSound`: `WalletIsSound`, with the operators of `AdminUsers` at work on
  the same rows. `UseIsPaid` of `UseInv` counts the power-ups granted or lost, and
  the calls that have paid and are not answered yet, against the items and the coins
  really taken (`spent`).
* `AuditAlwaysTrue`: `AuditIsTrue`. The entry is written by a second statement, so
  `EditInv` speaks of the entries that are not logged yet as well: each tells an edit
  that was made, and no two entries, here or there, tell the same one. What the code
  leaves out of an entry, the theorem says nothing about.
* `PanelSessionsAlwaysEnd`: `PanelSessionsEnd`. `PanelInv` adds that age and remaining
  life of a session do not exceed the cap (`LivesAreCapped`), also for a request that
  is about to slide it (`SlidesFit`); that the index lists each live session and
  outlives it (`LiveAreListed`); and that a `RevokeAll` holds every session of its
  admin but those opened between its two commands (`RevokesAll`).

**Games (`GamesProofs`)**, for any players, games, days, calls and bounds:

* `PanelAlwaysObeyed`: `PanelIsObeyed`. `LetterInv` adds `PromiseIsGenerated`: a letter
  promised before its row exists is the one its date generates, which is why a late
  INSERT cannot differ from it.
* `DailyAlwaysFair`: `DailyIsFair`. `UploadInv` adds what each call has done before the
  statement it stands at, `RetryInv` that a retry still to be paid, or taken back, has
  its row and has not been charged.
* `StreakAlwaysHonest`: `StreakIsHonest`, an action property. `StreakInv` says that a
  row is earned by finished games (`RowIsEarned`), the one a call has read included,
  and that a call reaches the streak with a finished game (`CallHasFinished`).
* `ReadersAlwaysAgree`: `ReadersAgree`. `ReaderInv`: what a reader has seen so far is
  still true when its last query runs, because totals and attempts only grow.
* `BooksAlwaysRight`: prizes are paid once, and a flagged day has paid everybody who
  was in time: the safety half of `PayoutIsRight`. `BooksInv` says that the rows a
  pass works from are whole and that no attempt is in time for a day that is over.
* `BoardsAlwaysAgree`: `BoardsAgree`. `PageIsSound`: players of a page half read keep
  the totals that brought them there.
* `AnalyticsAlwaysWhole`: `AnalyticsAreWhole`. `AnalyticsInv`: a pass about to set its
  flag has the complete roll-up of the day it closes, and passes belong to days that
  have begun; and each batch between check and INSERT has times that were within the
  skew when it was checked (`BatchIsClamped`), so that a row stored on a closed day
  was checked before that day closed, and is in `overtaken`.

**Content (`ContentProofs`)**, for any readers, editors, operators, players, tokens,
workers and restarts:

* `CatalogAlwaysFresh`: `CatalogIsFresh`. `CatalogInv`: a read that an edit overtook is
  one of tables that have just changed, since no tick passes under a
  read, and the overtaking is remembered.
* `CampaignsAlwaysHonest`: `CampaignIsHonest`. `HonestInv` bounds the counts of a
  delivery by what FCM has answered at every step: each target is asked at most once,
  and what was taken and what is called dead are disjoint (`BatchIsSound`,
  `FinishIsSound`); a row exists before its delivery asks anybody (`StagesMatch`).
* `ReviewsAlwaysFair`: `ReviewsAreFair`, the review half of `WordsAgree`. `ReviewInv`
  adds what holds between a commit and its record: one call at work on a suggestion,
  which is pending before the commit and approved, and not on record, after it.
* `EditsReachTheApp`: memory and overlay hold every stored row once no edit is under
  way (`EditsAreLive`), and the app has the latest state of every word up to its number
  (`AppKeepsUp`), for operators who edit one after the other; with two at once the
  first part is false (dictionary_live, section 6). `TablesInStep` says by which one
  row the database, the memory and the overlay differ at each statement of an edit;
  `KeptUp` says of the app's list, of what it has stored and of the page on its way
  what the app may rely on, also when its number is from before a restore. Such an app
  must be told before the next edit (`Ahead`), or its number would pass for one of the
  new database. That a page with a gap-free beginning exists rests on the words being
  finitely many: of the words not yet sent, one has the least number.
* `WordsAlwaysAgree`: `WordsAgree`, the two together, in the composition of `MCContent`.
  Its hypothesis is that at most one operator edits, as in the run; reviews overlap
  without bound.

**App (`AppProofs`)**, for any accounts, requests, games, runs of `sync()`, purchases
and bounds; each is the safety half of a liveness property of the run app:

* `WaitersAlwaysServed`: a request waits only while a refresh is under way
  (`RequestsAreAnswered`), whatever a sign-out, another account, a restart, a rejection
  or an earlier refresh that threw does meanwhile; and only a first try waits or is
  stranded, so that no request is sent more than twice.
* `OutboxAlwaysSound`: a game leaves the outbox only when the server has it or will
  never take it, and only games that are over are sent (`GamesArrive`). `SyncInv` adds
  what an overlapping run still carries: rows of finished games, and, once its request
  is answered, a game the server has kept or has barred.
* `OrdersAlwaysRight`: a purchase is credited once, to the account it was made for, and
  consumed only then (`PurchasesArrive`). `CallsAreSound` adds that `buy` and
  `restore` deliver only what was sold and consume only what was credited, while a
  death, a refund or the other of the two overtakes them.

**Model-checked only**: liveness (`RoomIsRemoved`, `RoomsLeaveTheHub`,
`MatchIsRecorded`, `CountdownsEnd`, `EverythingEnds`, `DayIsProvisioned`, the part
`FinishersArePaid` of `PayoutIsRight`, and `RequestsAreAnswered`, `GamesArrive` and
`PurchasesArrive`, which are `NothingIsLost`). Fairness and ENABLED are out of the
prover's reach, and so is induction over data: where a recursive definition matters,
the invariant is about whatever satisfies its recursion (`ScoreIsBounded`). All
invariants and action properties of the passing runs are theorems. Of the liveness
properties, these theorems are the safety half, that is, what must not be lost for
the fair steps to get there: `RoomAlwaysWakesUp`, `HubNeverLittered`,
`ResultsAlwaysKept`, `OneCountdown`, `BooksAlwaysRight`, `WaitersAlwaysServed`,
`OutboxAlwaysSound`, `OrdersAlwaysRight`. `EverythingEnds` and `DayIsProvisioned` have
no such half beyond `CallersAlwaysMeet` and `PanelAlwaysObeyed`.

## 6. Where code and documentation disagree

Each of these is a run that TLC refutes; `PROJECT.json` "findings" quotes the text.

* locks_guarded: "ping" and the countdown read `r.clients` without `r.mu`.
* matchmaking_timeout: the deferred delete of a cancelled Join removes the waiter
  of the next one, which then times out. (Its part `cancel` has users who search
  again only when Cancel has answered; with a Cancel that is still at work, the
  entry of the new search may be removed as well.)
* dictionary_live: of two edits at once, one is missing from the live dictionary
  until the next start.
* letter_locked: the guard in SQL compares with the day read before, so a write
  that waits past midnight changes a day that has begun.

Promises of comments that the models state and refute the same way, without a run
of their own: `SoloGames.UploadIsIdempotent` (two overlapping uploads count
twice), `Scheduler.RetryIsHarmless` (an event with a clamped time is stored again
by a retry), `Scheduler.LateUploadsCount` (an upload checked before midnight and
committed after the new day's pass is in no roll-up), `WeeklyBoard.WinnersArePaid` (a recorded reward may miss the inbox),
`DailyBoard.EveryFinisherIsPaid` (a game that arrives after the payout),
`Accounts.WelcomedOnce` (two verifications, two bonuses),
`AppSession.OnlyRejectionClears` (a late rejection of the session before),
`AppSession.NobodyIsStranded` (a refresh answered with an unusable body, or whose
token cannot be stored, throws past the `try` of `onError`: the requests that share it
are never answered).

The models follow the code where no property is claimed:

* Room: a second freeze overwrites the first, which was paid; a player who returns
  during the two drain seconds is in no snapshot and stays connected; a full send
  buffer of 256 drops messages; a ping may meet a closed channel, which
  `gin.Recovery` turns into a log line and a leave.
* Matchmaking, hub, challenges: a caller who hung up is paired with the entry it
  left; a finished room id can be played again under the same match row; a restart
  ends running matches whose fees stay charged; a challenge accepted at its
  deadline is never offered to the challenger.
* Finished games: statements after a failed one of an upload are lost, since the
  repeat is answered that the game exists; an unpaid retry survives a failing
  rollback; a Saturday without a tick in its first minute has no reset; scores
  added between the reading and the deletion of the board are lost.
* Accounts: a failed SMS clears the code a later call has sent; a second sign-up
  overwrites the referrer; a counter whose `Expire` failed shuts an operator out.
* Content: the number of an edit is drawn before its row is visible, so with two
  operators an app may never ask for it; two operators may send one campaign
  twice; the tally of missed words is trimmed twice by two overlapping trims.
* App: games played as a guest or by another account are uploaded by whoever is
  signed in; the token of a refresh may be stored beside another account.

## 7. Not modelled

* In `Room` a word is valid or not; which words are is `WordChain`. There the app's
  list of words is the server's (their drift is `AppDictionary`), and
  `DailyChainSafetyCap`, which refuses an honest run longer than itself, is not
  reached.
* Small detail without effect on a property: a failing LREM or LRANGE of the queue, the
  margin of banned entries a board page fetches beyond its length, the replacement of
  an existing avatar, a failing stats request after a clean upload other than by
  `Abort`; the reads of an upload (`CheckDaily`) and of a retry (`BuyRetry`) that decide
  together are one step. The coins an entry of the audit log gives for a gift, and
  the durations of premium, are left out of its entry.
* Message contents, taunts, wording and layout, phone and
  code formats, signatures of tokens.
* Reports and lists of the panel, SQL aggregation of analytics, dashboards: they
  read, and their correctness is in the queries.
* Pushes without a campaign, the FCM token, the missed-word tally, reminders of
  the scheduler: no state that others decide on.
* Settings, legal pages, configuration and wiring; constants of `config` are
  CONSTANTS.
* The app's view of a match and the panel's UI. The socket and the challenge poll
  of the app are the environment of `Room`, `Hub` and `Challenge`: it may dial,
  drop, return, repeat and give up at any point.
