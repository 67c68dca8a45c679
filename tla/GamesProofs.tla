------------------------------ MODULE GamesProofs ------------------------------
(***************************************************************************)
(* What the modules about finished games promise, for any players, days,   *)
(* letters, calls and events: the letter of a day is the one its panel     *)
(* said (DailyLetter), the ranking and the wallet agree with what was      *)
(* played and paid (SoloGames), the pages of the two boards do not         *)
(* contradict themselves (DailyBoard, WeeklyBoard), and the analytics the  *)
(* panel reads are whole (Scheduler).                                      *)
(***************************************************************************)
EXTENDS DailyLetter, SoloGames, DailyBoard, WeeklyBoard, Scheduler, FiniteSetTheorems, TLAPS

(* The letter of a day                                                     *)

USE LetterAssumption

Edits == {NoEdit} \cup [pc : {"write"}, day : AllDates, letter : Letters, today : Nat]

LetterTypeOK ==
  /\ date \in Nat
  /\ letter \in [AllDates -> Letters \cup {NoLetter}]
  /\ told \in [AllDates -> Letters \cup {NoLetter}]
  /\ edit \in [Schedulers -> Edits]

\* PanelIsObeyed alone is not inductive: of a day without a row the panel must have
\* promised the letter that EnsureChallenge will generate.
PromiseIsGenerated ==
  \A d \in AllDates : letter[d] = NoLetter /\ told[d] # NoLetter => told[d] = Generated[d]

LetterInv == LetterTypeOK /\ PanelIsObeyed /\ PromiseIsGenerated

-----------------------------------------------------------------------------
LEMMA LetterInitInv == LetterInit => LetterInv
BY DEF LetterInit, LetterInv, LetterTypeOK, PanelIsObeyed, PromiseIsGenerated, Edits

\* An operator's write leaves the calls of the others alone.
LEMMA EditIsCall ==
  ASSUME LetterTypeOK, NEW o \in Schedulers, edit[o].pc = "write"
  PROVE  edit[o] \in [pc : {"write"}, day : AllDates, letter : Letters, today : Nat]
<1>1. edit[o] \in Edits BY DEF LetterTypeOK
<1>2. NoEdit.pc = "idle" BY DEF NoEdit
<1> QED BY <1>1, <1>2 DEF Edits

LEMMA EnsureKeeps ==
  ASSUME LetterInv, NEW d \in AllDates, EnsureChallenge(d)
  PROVE  LetterInv'
<1>1. letter' = [letter EXCEPT ![d] = Generated[d]] /\ letter[d] = NoLetter /\ told' = told
  BY DEF EnsureChallenge
<1>2. Generated[d] \in Letters BY DEF AllDates
<1>3. LetterTypeOK' BY <1>1, <1>2 DEF LetterInv, LetterTypeOK, EnsureChallenge
<1>4. PanelIsObeyed' BY <1>1 DEF LetterInv, LetterTypeOK, PanelIsObeyed, PromiseIsGenerated
<1>5. PromiseIsGenerated' BY <1>1, <1>2 DEF LetterInv, LetterTypeOK, PromiseIsGenerated
<1> QED BY <1>3, <1>4, <1>5 DEF LetterInv

LEMMA CalendarKeeps ==
  ASSUME LetterInv, DailyCalendar
  PROVE  LetterInv'
<1>1. \A d \in AllDates : Generated[d] \in Letters BY DEF AllDates
<1>2. \A d \in AllDates : told'[d] \in {DailyDay(d), told[d]} /\ (letter[d] # NoLetter => told'[d] = DailyDay(d))
  BY DEF DailyCalendar
<1>3. LetterTypeOK'
  BY <1>1 DEF LetterInv, LetterTypeOK, DailyCalendar, DailyDay
<1>4. letter' = letter BY DEF DailyCalendar
<1>5. PanelIsObeyed' BY <1>2, <1>4 DEF PanelIsObeyed, DailyDay
<1>6. PromiseIsGenerated' BY <1>2, <1>4 DEF LetterInv, PromiseIsGenerated, DailyDay
<1> QED BY <1>3, <1>5, <1>6 DEF LetterInv

LEMMA SetStartLetterKeeps ==
  ASSUME LetterInv, NEW o \in Schedulers, NEW d \in AllDates, NEW l \in Letters,
         SetStartLetter(o, d, l)
  PROVE  LetterInv'
<1>1. [pc |-> "write", day |-> d, letter |-> l, today |-> date] \in Edits
  BY DEF LetterInv, LetterTypeOK, Edits
<1>2. LetterTypeOK' BY <1>1 DEF LetterInv, LetterTypeOK, SetStartLetter
<1> QED BY <1>2 DEF LetterInv, PanelIsObeyed, PromiseIsGenerated, SetStartLetter

LEMMA SetDailyStartLetterKeeps ==
  ASSUME LetterInv, NEW o \in Schedulers, SetDailyStartLetter(o)
  PROVE  LetterInv'
<1> DEFINE e == edit[o]
<1>1. e.day \in AllDates /\ e.letter \in Letters
  BY EditIsCall DEF LetterInv, SetDailyStartLetter
<1>2. letter' = [letter EXCEPT ![e.day] = e.letter] /\ told' = [told EXCEPT ![e.day] = e.letter]
  BY DEF SetDailyStartLetter
<1>3. LetterTypeOK'
  BY <1>1, <1>2 DEF LetterInv, LetterTypeOK, SetDailyStartLetter, Edits
<1> HIDE DEF e
<1>4. \A d \in AllDates : IF d = e.day THEN letter'[d] = e.letter /\ told'[d] = e.letter
                          ELSE letter'[d] = letter[d] /\ told'[d] = told[d]
  BY <1>1, <1>2 DEF LetterInv, LetterTypeOK
<1>5. PanelIsObeyed' BY <1>4 DEF LetterInv, PanelIsObeyed
<1>6. PromiseIsGenerated' BY <1>1, <1>4 DEF LetterInv, PromiseIsGenerated
<1> QED BY <1>3, <1>5, <1>6 DEF LetterInv

LEMMA LetterNextInv == LetterInv /\ [LetterNext]_letterVars => LetterInv'
<1> SUFFICES ASSUME LetterInv, [LetterNext]_letterVars PROVE LetterInv' OBVIOUS
<1>1. CASE UNCHANGED letterVars
  BY <1>1 DEF LetterInv, LetterTypeOK, PanelIsObeyed, PromiseIsGenerated, letterVars
<1>2. ASSUME NEW d \in AllDates, EnsureChallenge(d) PROVE LetterInv' BY <1>2, EnsureKeeps
<1>3. CASE DailyCalendar BY <1>3, CalendarKeeps
<1>4. CASE NewDay BY <1>4 DEF LetterInv, LetterTypeOK, PanelIsObeyed, PromiseIsGenerated, NewDay
<1>5. ASSUME NEW o \in Schedulers, NEW d \in AllDates, NEW l \in Letters, SetStartLetter(o, d, l)
      PROVE  LetterInv'
  BY <1>5, SetStartLetterKeeps
<1>6. ASSUME NEW o \in Schedulers, SetDailyStartLetter(o) PROVE LetterInv'
  BY <1>6, SetDailyStartLetterKeeps
<1>7. ASSUME NEW o \in Schedulers, EditFails(o) PROVE LetterInv'
  BY <1>7 DEF LetterInv, LetterTypeOK, PanelIsObeyed, PromiseIsGenerated, EditFails, Edits
<1> QED BY <1>1, <1>2, <1>3, <1>4, <1>5, <1>6, <1>7 DEF LetterNext

\* The letter the calendar showed or an operator set is the letter of the day, for
\* any scheduler, operators and clock (service/admin_content.go, service/daily.go).
THEOREM PanelAlwaysObeyed == LetterSpec => []PanelIsObeyed
<1>1. LetterInv => PanelIsObeyed BY DEF LetterInv
<1> QED BY <1>1, LetterInitInv, LetterNextInv, PTL DEF LetterSpec

HIDE LetterAssumption

-----------------------------------------------------------------------------
(* Attempts and retries of the Daily Challenge                             *)

Steps == {"daily", "create", "player", "attempt", "stats", "xp", "streak"}
Call  == [pc : Steps, game : Games, number : 0 .. 2]
Retry == [pc : {"spend", "delete"}, day : Days]

FirstOf(g) == \E a \in attempts : a.user = Info[g].user /\ a.day = Info[g].day /\ a.number = 1

\* What a call knows stays true while others run: the slot it will take is not ahead
\* of the first one, its game has passed the checks, and its match is stored.
CallIsSound(c) ==
  \/ calls[c] = Idle
  \/ calls[c].pc = "update" /\ calls[c].game \in Games
  \/ /\ calls[c] \in Call
     /\ calls[c].pc \in {"create", "player", "attempt"} /\ calls[c].number > 0 => Info[calls[c].game].valid
     /\ calls[c].pc \in {"create", "player", "attempt"} /\ calls[c].number = 2 => FirstOf(calls[c].game)
     /\ calls[c].pc = "attempt" => calls[c].number > 0 /\ visible[calls[c].game] > 0

CallsAreSound == calls = [c \in Calls |-> calls[c]] /\ \A c \in Calls : CallIsSound(c)

AttemptTypes ==
  /\ visible \in [Games -> Nat]
  /\ attempts \subseteq [user : Players, day : Days, number : {1, 2}, game : Games]

\* AttemptsAreOrdered alone is not inductive: a call under way may hold a slot.
UploadInv == AttemptTypes /\ CallsAreSound /\ AttemptsAreOrdered

\* RetryChargedOnce alone is not inductive: a retry that is still to be paid, or taken
\* back, must not have been charged.
RetryInv ==
  /\ charges \in [Players -> [Days -> Nat]] /\ retryCall \in [Players -> {Idle} \cup Retry]
  /\ RetryChargedOnce
  /\ \A u \in Players : retryCall[u] # Idle =>
       charges[u][retryCall[u].day] = 0 /\ <<u, retryCall[u].day>> \in retries

-----------------------------------------------------------------------------
LEMMA IdleIsNoCall == Idle.pc = "idle"
BY DEF Idle

LEMMA CallAtStep ==
  ASSUME CallsAreSound, NEW c \in Calls, calls[c].pc \in Steps
  PROVE  calls[c] \in Call
<1>1. CallIsSound(c) BY DEF CallsAreSound
<1> QED BY <1>1, IdleIsNoCall DEF CallIsSound, Steps

LEMMA CallHasGame ==
  ASSUME CallsAreSound, NEW c \in Calls, ~At(c, "idle")
  PROVE  calls[c].game \in Games
<1>1. CallIsSound(c) BY DEF CallsAreSound
<1> QED BY <1>1, IdleIsNoCall DEF CallIsSound, Call, At

LEMMA GameOf ==
  ASSUME NEW g \in Games
  PROVE  Info[g].user \in Players /\ Info[g].day \in Days /\ Info[g].ended \in Days /\ Info[g].valid \in BOOLEAN
BY GamesAssumption DEF Players

\* Stored matches and attempts only grow, so what the other calls know stays true.
LEMMA OneCallMoves ==
  ASSUME CallsAreSound, NEW c \in Calls, NEW k, calls' = [calls EXCEPT ![c] = k],
         CallIsSound(c)', attempts \subseteq attempts',
         \A g \in Games : visible[g] > 0 => visible'[g] > 0
  PROVE  CallsAreSound'
<1>1. calls' = [x \in Calls |-> calls'[x]] BY DEF CallsAreSound
<1>2. ASSUME NEW x \in Calls, x # c PROVE CallIsSound(x)'
  <2>1. calls'[x] = calls[x] BY <1>2 DEF CallsAreSound
  <2>2. CallIsSound(x) BY DEF CallsAreSound
  <2>3. \A g \in Games : FirstOf(g) => FirstOf(g)' BY DEF FirstOf
  <2>4. calls[x] \in Call => calls[x].game \in Games BY DEF Call
  <2> QED BY <2>1, <2>2, <2>3, <2>4 DEF CallIsSound
<1> QED BY <1>1, <1>2 DEF CallsAreSound

\* While no attempt is stored, the slots stay filled in order.
LEMMA SlotsStay ==
  ASSUME AttemptTypes, AttemptsAreOrdered, attempts' = attempts,
         \A g \in Games : visible[g] > 0 => visible'[g] > 0
  PROVE  AttemptsAreOrdered'
<1> SUFFICES ASSUME NEW u \in Players, NEW d \in Days
             PROVE  LET as == GetUserAttempts(u, d)'
                    IN  /\ {a.number : a \in as} \in {{}, {1}, {1, 2}}
                        /\ \A a, b \in as : a.number = b.number => a = b
                        /\ \A a \in as : visible'[a.game] > 0 /\ Info[a.game].valid
  BY DEF AttemptsAreOrdered
<1>1. GetUserAttempts(u, d)' = GetUserAttempts(u, d) BY DEF GetUserAttempts
<1>2. \A a \in GetUserAttempts(u, d) : a.game \in Games BY DEF GetUserAttempts, AttemptTypes
<1> PICK as : as = GetUserAttempts(u, d) OBVIOUS
<1>3. /\ {a.number : a \in as} \in {{}, {1}, {1, 2}}
      /\ \A a, b \in as : a.number = b.number => a = b
      /\ \A a \in as : visible[a.game] > 0 /\ Info[a.game].valid
  BY DEF AttemptsAreOrdered
<1>4. \A a \in as : visible'[a.game] > 0 BY <1>2, <1>3
<1>5. GetUserAttempts(u, d)' = as BY <1>1
<1> QED BY <1>3, <1>4, <1>5

\* A step of a call that stores neither a match nor an attempt
LEMMA QuietCall ==
  ASSUME UploadInv, NEW c \in Calls, NEW k, calls' = [calls EXCEPT ![c] = k],
         CallIsSound(c)', UNCHANGED <<visible, attempts>>
  PROVE  UploadInv'
<1>1. CallsAreSound' BY OneCallMoves DEF UploadInv
<1>2. AttemptTypes' BY DEF UploadInv, AttemptTypes
<1>3. AttemptsAreOrdered' BY SlotsStay DEF UploadInv
<1> QED BY <1>1, <1>2, <1>3 DEF UploadInv

\* The same, where the call goes on to a step that needs no knowledge.
LEMMA PlainStep ==
  ASSUME UploadInv, NEW c \in Calls, NEW k, calls' = [calls EXCEPT ![c] = k],
         k = Idle \/ (k \in Call /\ k.pc \in {"daily", "stats", "xp", "streak"})
                  \/ (k.pc = "update" /\ k.game \in Games),
         UNCHANGED <<visible, attempts>>
  PROVE  UploadInv'
<1>1. calls'[c] = k BY DEF UploadInv, CallsAreSound
<1>2. CallIsSound(c)' BY <1>1 DEF CallIsSound
<1> QED BY <1>2, QuietCall

-----------------------------------------------------------------------------
LEMMA AttemptNumber ==
  ASSUME UploadInv, NEW u \in Players, NEW d \in Days
  PROVE  /\ DailyAttemptNumber(u, d) \in 0 .. 2
         /\ DailyAttemptNumber(u, d) = 2 => \E a \in attempts : a.user = u /\ a.day = d /\ a.number = 1
<1> DEFINE as == GetUserAttempts(u, d)
<1>1. Cardinality({}) = 0 BY FS_EmptySet
<1>2. DailyAttemptNumber(u, d) \in 0 .. 2 BY DEF DailyAttemptNumber
<1>3. ASSUME DailyAttemptNumber(u, d) = 2
      PROVE  \E a \in attempts : a.user = u /\ a.day = d /\ a.number = 1
  <2>1. as # {} BY <1>1, <1>3 DEF DailyAttemptNumber
  <2>2. {a.number : a \in as} \in {{}, {1}, {1, 2}} BY DEF UploadInv, AttemptsAreOrdered
  <2>3. \E a \in as : a.number = 1 BY <2>1, <2>2
  <2> QED BY <2>3 DEF GetUserAttempts
<1> QED BY <1>2, <1>3

LEMMA UploadKeeps ==
  ASSUME UploadInv, NEW c \in Calls, NEW g \in Games, Upload(c, g) \/ FinalizeToDB(c, g)
  PROVE  UploadInv'
<1>1. UNCHANGED <<visible, attempts>> BY DEF Upload, FinalizeToDB, games, daily
<1>2. CASE UNCHANGED calls
  BY <1>1, <1>2 DEF UploadInv, AttemptTypes, CallsAreSound, CallIsSound, FirstOf, AttemptsAreOrdered, GetUserAttempts
<1>3. CASE Upload(c, g) /\ ~UNCHANGED calls /\ Info[g].mode = "daily"
  <2> PICK k : k = [pc |-> "daily", game |-> g, number |-> 0] OBVIOUS
  <2>1. calls' = [calls EXCEPT ![c] = k] BY <1>3 DEF Upload
  <2>2. k \in Call /\ k.pc = "daily" BY DEF Call, Steps
  <2> QED BY <1>1, <2>1, <2>2, PlainStep
<1>4. CASE Upload(c, g) /\ ~UNCHANGED calls /\ Info[g].mode # "daily"
  <2> PICK k : k = [pc |-> "create", game |-> g, number |-> 0] OBVIOUS
  <2>1. calls' = [calls EXCEPT ![c] = k] BY <1>4 DEF Upload
  <2>2. k \in Call /\ k.pc = "create" /\ k.number = 0 BY DEF Call, Steps
  <2>3. calls'[c] = k BY <2>1 DEF UploadInv, CallsAreSound
  <2>4. CallIsSound(c)' BY <2>2, <2>3 DEF CallIsSound
  <2> QED BY <1>1, <2>1, <2>4, QuietCall
<1>5. CASE FinalizeToDB(c, g)
  <2> PICK k : k = [pc |-> "streak", game |-> g, number |-> 0] OBVIOUS
  <2>1. calls' = [calls EXCEPT ![c] = k] BY <1>5 DEF FinalizeToDB
  <2>2. k \in Call /\ k.pc = "streak" BY DEF Call, Steps
  <2> QED BY <1>1, <2>1, <2>2, PlainStep
<1> QED BY <1>2, <1>3, <1>4, <1>5

LEMMA CheckDailyKeeps ==
  ASSUME UploadInv, NEW c \in Calls, CheckDaily(c)
  PROVE  UploadInv'
<1> PICK g : g = calls[c].game OBVIOUS
<1> PICK n : n = DailyAttemptNumber(Info[g].user, Info[g].day) OBVIOUS
<1>1. UNCHANGED <<visible, attempts>> BY DEF CheckDaily, games, daily
<1>2. calls[c] \in Call BY CallAtStep DEF CheckDaily, At, Steps, UploadInv
<1>3. g \in Games BY <1>2 DEF Call
<1>4. n \in 0 .. 2 /\ (n = 2 => FirstOf(g)) BY <1>3, GameOf, AttemptNumber DEF FirstOf
<1>5. CASE calls' = [calls EXCEPT ![c] = Idle] BY <1>1, <1>5, PlainStep
<1>6. CASE calls' = [calls EXCEPT ![c].pc = "create", ![c].number = n] /\ n # 0 /\ Info[g].valid
  <2> PICK k : k = [calls[c] EXCEPT !.pc = "create", !.number = n] OBVIOUS
  <2>1. calls' = [calls EXCEPT ![c] = k] BY <1>6
  <2>2. k \in Call /\ k.pc = "create" /\ k.number = n /\ k.game = g BY <1>2, <1>4 DEF Call, Steps
  <2>3. calls'[c] = k BY <2>1 DEF UploadInv, CallsAreSound
  <2>4. FirstOf(g)' <=> FirstOf(g) BY <1>1 DEF FirstOf
  <2>5. CallIsSound(c)' BY <1>4, <1>6, <2>2, <2>3, <2>4 DEF CallIsSound
  <2> QED BY <1>1, <2>1, <2>5, QuietCall
<1> QED BY <1>5, <1>6 DEF CheckDaily, Return

LEMMA CreateMatchKeeps ==
  ASSUME UploadInv, NEW c \in Calls, CreateMatch(c)
  PROVE  UploadInv'
<1> PICK k : k = [calls[c] EXCEPT !.pc = "player"] OBVIOUS
<1>1. UNCHANGED <<visible, attempts>> BY DEF CreateMatch, daily
<1>2. calls[c] \in Call /\ calls[c].pc = "create" BY CallAtStep DEF CreateMatch, At, Steps, UploadInv
<1>3. calls' = [calls EXCEPT ![c] = k] BY DEF CreateMatch, Goto
<1>4. k \in Call /\ k.pc = "player" /\ k.number = calls[c].number /\ k.game = calls[c].game
  BY <1>2 DEF Call, Steps
<1>5. CallIsSound(c) BY DEF UploadInv, CallsAreSound
<1>6. calls'[c] = k BY <1>3 DEF UploadInv, CallsAreSound
<1>7. FirstOf(k.game) => FirstOf(k.game)' BY <1>1 DEF FirstOf
<1>8. CallIsSound(c)' BY <1>2, <1>4, <1>5, <1>6, <1>7, IdleIsNoCall DEF CallIsSound
<1> QED BY <1>1, <1>3, <1>8, QuietCall

LEMMA AddMatchPlayerKeeps ==
  ASSUME UploadInv, NEW c \in Calls, AddMatchPlayer(c)
  PROVE  UploadInv'
<1> PICK g : g = calls[c].game OBVIOUS
<1> PICK k : k = [calls[c] EXCEPT !.pc = IF calls[c].number > 0 THEN "attempt" ELSE "stats"] OBVIOUS
<1>1. attempts' = attempts BY DEF AddMatchPlayer, daily
<1>2. calls[c] \in Call /\ calls[c].pc = "player" BY CallAtStep DEF AddMatchPlayer, At, Steps, UploadInv
<1>3. g \in Games /\ visible \in [Games -> Nat] /\ visible' = [visible EXCEPT ![g] = @ + 1]
  BY <1>2 DEF UploadInv, AttemptTypes, AddMatchPlayer, AddPlayerRow, Call
<1>4. visible' \in [Games -> Nat] /\ visible'[g] > 0 /\ \A h \in Games : visible[h] > 0 => visible'[h] > 0
  BY <1>3
<1>5. calls' = [calls EXCEPT ![c] = k] BY DEF AddMatchPlayer, Goto
<1>6. k \in Call /\ k.number = calls[c].number /\ k.game = g /\ k.pc \in {"attempt", "stats"}
      /\ (k.pc = "attempt" => k.number > 0)
  BY <1>2 DEF Call, Steps
<1>7. CallIsSound(c) BY DEF UploadInv, CallsAreSound
<1>8. calls'[c] = k BY <1>5 DEF UploadInv, CallsAreSound
<1>9. FirstOf(g) => FirstOf(g)' BY <1>1 DEF FirstOf
<1>10. CallIsSound(c)' BY <1>2, <1>4, <1>6, <1>7, <1>8, <1>9, IdleIsNoCall DEF CallIsSound
<1>11. CallsAreSound' BY <1>1, <1>4, <1>5, <1>10, OneCallMoves DEF UploadInv
<1>12. AttemptTypes' BY <1>1, <1>4 DEF UploadInv, AttemptTypes
<1>13. AttemptsAreOrdered' BY <1>1, <1>4, SlotsStay DEF UploadInv
<1> QED BY <1>11, <1>12, <1>13 DEF UploadInv

\* An attempt in a free slot: the slots stay filled in order.
LEMMA SlotIsTaken ==
  ASSUME UploadInv, NEW g \in Games, NEW n \in {1, 2}, visible[g] > 0, Info[g].valid,
         n = 2 => FirstOf(g), InsertAttempt(Info[g].user, Info[g].day, n, g), visible' = visible
  PROVE  AttemptTypes' /\ AttemptsAreOrdered' /\ attempts \subseteq attempts'
<1> PICK new : new = [user |-> Info[g].user, day |-> Info[g].day, number |-> n, game |-> g] OBVIOUS
<1>1. CASE attempts' = attempts
  <2>1. AttemptTypes' BY <1>1 DEF UploadInv, AttemptTypes
  <2>2. AttemptsAreOrdered' BY <1>1, SlotsStay DEF UploadInv
  <2> QED BY <1>1, <2>1, <2>2
<1>2. CASE attempts' = attempts \cup {new}
           /\ ~\E a \in GetUserAttempts(Info[g].user, Info[g].day) : a.number = n
  <2>1. AttemptTypes' BY <1>2, GameOf DEF UploadInv, AttemptTypes
  <2>2. ASSUME NEW u \in Players, NEW d \in Days, ~(u = Info[g].user /\ d = Info[g].day)
        PROVE  GetUserAttempts(u, d)' = GetUserAttempts(u, d)
    BY <1>2, <2>2 DEF GetUserAttempts
  <2>3. GetUserAttempts(Info[g].user, Info[g].day)' = GetUserAttempts(Info[g].user, Info[g].day) \cup {new}
    BY <1>2 DEF GetUserAttempts
  <2>4. Info[g].user \in Players /\ Info[g].day \in Days BY GameOf
  <2> SUFFICES ASSUME NEW u \in Players, NEW d \in Days
               PROVE  LET as == GetUserAttempts(u, d)'
                      IN  /\ {a.number : a \in as} \in {{}, {1}, {1, 2}}
                          /\ \A a, b \in as : a.number = b.number => a = b
                          /\ \A a \in as : visible[a.game] > 0 /\ Info[a.game].valid
    BY <1>2, <2>1 DEF AttemptsAreOrdered
  <2> PICK as : as = GetUserAttempts(u, d) OBVIOUS
  <2>5. /\ {a.number : a \in as} \in {{}, {1}, {1, 2}}
        /\ \A a, b \in as : a.number = b.number => a = b
        /\ \A a \in as : visible[a.game] > 0 /\ Info[a.game].valid
    BY DEF UploadInv, AttemptsAreOrdered
  <2>6. CASE ~(u = Info[g].user /\ d = Info[g].day) BY <2>2, <2>5, <2>6
  <2>7. CASE u = Info[g].user /\ d = Info[g].day
    <3>1. GetUserAttempts(u, d)' = as \cup {new} BY <2>3, <2>7
    <3>2. ~\E a \in as : a.number = n BY <1>2, <2>7
    <3>3. {a.number : a \in as \cup {new}} = {a.number : a \in as} \cup {n} OBVIOUS
    <3>4. n = 2 => \E a \in as : a.number = 1 BY <2>7 DEF FirstOf, GetUserAttempts
    <3>5. {a.number : a \in as} \cup {n} \in {{}, {1}, {1, 2}}
      <4> PICK numbers : numbers = {a.number : a \in as} OBVIOUS
      <4>1. numbers \in {{}, {1}, {1, 2}} /\ n \notin numbers /\ (n = 2 => 1 \in numbers)
        BY <2>5, <3>2, <3>4
      <4>2. numbers \cup {n} \in {{1}, {1, 2}} BY <4>1
      <4> QED BY <4>2
    <3>6. \A a, b \in as \cup {new} : a.number = b.number => a = b BY <2>5, <3>2
    <3>7. \A a \in as \cup {new} : visible[a.game] > 0 /\ Info[a.game].valid BY <2>5
    <3> QED BY <3>1, <3>3, <3>5, <3>6, <3>7
  <2> QED BY <2>6, <2>7
<1> QED BY <1>1, <1>2 DEF InsertAttempt

LEMMA SaveAttemptKeeps ==
  ASSUME UploadInv, NEW c \in Calls, SaveAttempt(c)
  PROVE  UploadInv'
<1> PICK g : g = calls[c].game OBVIOUS
<1> PICK k : k = [calls[c] EXCEPT !.pc = "stats"] OBVIOUS
<1>1. visible' = visible BY DEF SaveAttempt, games
<1>2. calls[c] \in Call /\ calls[c].pc = "attempt" BY CallAtStep DEF SaveAttempt, At, Steps, UploadInv
<1>3. CallIsSound(c) BY DEF UploadInv, CallsAreSound
<1>4. /\ g \in Games /\ calls[c].number \in {1, 2} /\ visible[g] > 0
      /\ Info[g].valid /\ (calls[c].number = 2 => FirstOf(g))
  BY <1>2, <1>3, IdleIsNoCall DEF CallIsSound, Call
<1>5. InsertAttempt(Info[g].user, Info[g].day, calls[c].number, g) BY DEF SaveAttempt
<1>6. AttemptTypes' /\ AttemptsAreOrdered' /\ attempts \subseteq attempts'
  BY <1>1, <1>4, <1>5, SlotIsTaken
<1>7. calls' = [calls EXCEPT ![c] = k] BY DEF SaveAttempt, Goto
<1>8. k \in Call /\ k.pc = "stats" BY <1>2 DEF Call, Steps
<1>9. calls'[c] = k BY <1>7 DEF UploadInv, CallsAreSound
<1>10. CallIsSound(c)' BY <1>8, <1>9 DEF CallIsSound
<1>11. CallsAreSound' BY <1>1, <1>6, <1>7, <1>10, OneCallMoves DEF UploadInv
<1> QED BY <1>6, <1>11 DEF UploadInv

\* What follows the attempt: statistics, XP and the streak
LEMMA AfterwardsKeeps ==
  ASSUME UploadInv, NEW c \in Calls, UpdateStats(c) \/ AddXP(c) \/ ReadStreak(c) \/ WriteStreak(c) \/ Abort(c)
  PROVE  UploadInv'
<1>1. UNCHANGED <<visible, attempts>>
  BY DEF UpdateStats, AddXP, ReadStreak, WriteStreak, Abort, games, daily
<1>2. ~At(c, "idle") BY DEF UpdateStats, AddXP, ReadStreak, WriteStreak, Abort, At
<1> PICK g : g = calls[c].game OBVIOUS
<1>3. g \in Games BY <1>2, CallHasGame DEF UploadInv
<1>4. \E k : /\ calls' = [calls EXCEPT ![c] = k]
             /\ k = Idle \/ (k \in Call /\ k.pc \in {"daily", "stats", "xp", "streak"})
                         \/ (k.pc = "update" /\ k.game \in Games)
  <2>1. CASE UpdateStats(c)
    <3>1. calls[c] \in Call BY <2>1, CallAtStep DEF UpdateStats, At, Steps, UploadInv
    <3> WITNESS [calls[c] EXCEPT !.pc = "xp"]
    <3> QED BY <2>1, <3>1 DEF UpdateStats, Goto, Call, Steps
  <2>2. CASE AddXP(c) /\ Info[g].mode = "match"
    <3> WITNESS Idle
    <3> QED BY <2>2 DEF AddXP, Answer, Return
  <2>3. CASE AddXP(c) /\ Info[g].mode # "match"
    <3>1. calls[c] \in Call BY <2>3, CallAtStep DEF AddXP, At, Steps, UploadInv
    <3> WITNESS [calls[c] EXCEPT !.pc = "streak"]
    <3> QED BY <2>3, <3>1 DEF AddXP, Goto, Call, Steps
  <2>4. CASE ReadStreak(c)
    <3> WITNESS [pc |-> "update", game |-> g, number |-> 0, read |-> GetStats(Info[g].user)]
    <3> QED BY <1>3, <2>4 DEF ReadStreak
  <2>5. CASE WriteStreak(c) /\ Info[g].mode = "match"
    <3> WITNESS [pc |-> "xp", game |-> g, number |-> 0]
    <3> QED BY <1>3, <2>5 DEF WriteStreak, Call, Steps
  <2>6. CASE WriteStreak(c) /\ Info[g].mode # "match"
    <3> WITNESS Idle
    <3> QED BY <2>6 DEF WriteStreak, Answer, Return
  <2>7. CASE Abort(c)
    <3> WITNESS Idle
    <3> QED BY <2>7 DEF Abort, Return
  <2> QED BY <2>1, <2>2, <2>3, <2>4, <2>5, <2>6, <2>7
<1> QED BY <1>1, <1>4, PlainStep

-----------------------------------------------------------------------------
LEMMA SoloStartsSound == SoloInit => UploadInv
BY DEF SoloInit, UploadInv, AttemptTypes, CallsAreSound, CallIsSound, AttemptsAreOrdered, GetUserAttempts

LEMMA UploadStep ==
  ASSUME UploadInv, [SoloNext]_soloVars
  PROVE  UploadInv'
<1>1. ASSUME NEW c \in Calls, NEW g \in Games, Upload(c, g) \/ FinalizeToDB(c, g) PROVE UploadInv'
  BY <1>1, UploadKeeps
<1>2. ASSUME NEW c \in Calls,
             \/ CheckDaily(c) \/ CreateMatch(c) \/ AddMatchPlayer(c) \/ SaveAttempt(c)
             \/ UpdateStats(c) \/ AddXP(c) \/ ReadStreak(c) \/ WriteStreak(c) \/ Abort(c)
      PROVE  UploadInv'
  BY <1>2, CheckDailyKeeps, CreateMatchKeeps, AddMatchPlayerKeeps, SaveAttemptKeeps, AfterwardsKeeps
<1>3. CASE UNCHANGED <<calls, visible, attempts>>
  <2>1. AttemptTypes' BY <1>3 DEF UploadInv, AttemptTypes
  <2>2. CallsAreSound' BY <1>3 DEF UploadInv, CallsAreSound, CallIsSound, FirstOf
  <2>3. AttemptsAreOrdered' BY <1>3, SlotsStay DEF UploadInv
  <2> QED BY <2>1, <2>2, <2>3 DEF UploadInv
<1>4. ASSUME NEW u \in Players, BuyRetry(u) \/ PayRetry(u) \/ RetryUnpaid(u) \/ RollBackRetry(u)
      PROVE  UNCHANGED <<calls, visible, attempts>>
  BY <1>4 DEF BuyRetry, PayRetry, RetryUnpaid, RollBackRetry, games
<1>5. EnsureDailyChallenges \/ Midnight \/ UNCHANGED soloVars => UNCHANGED <<calls, visible, attempts>>
  BY DEF EnsureDailyChallenges, Midnight, soloVars, games, daily
<1> QED BY <1>1, <1>2, <1>3, <1>4, <1>5 DEF SoloNext

LEMMA RetryStep ==
  ASSUME UploadInv, RetryInv, [SoloNext]_soloVars
  PROVE  RetryInv'
<1>1. CASE UNCHANGED <<retries, retryCall, charges>>
  BY <1>1 DEF RetryInv, RetryChargedOnce
<1>2. Idle.pc = "idle" /\ \A r \in Retry : r.pc \in {"spend", "delete"} /\ r.day \in Days
  BY DEF Idle, Retry
<1>3. ASSUME NEW u \in Players, BuyRetry(u) PROVE RetryInv'
  <2> PICK d : d = today OBVIOUS
  <2>1. d \in Days
    <3>1. \E a \in attempts : a.day = d BY <1>3 DEF BuyRetry, GetUserAttempts
    <3> QED BY <3>1 DEF UploadInv, AttemptTypes
  <2> PICK r : r = [pc |-> "spend", day |-> d] OBVIOUS
  <2>2. r \in Retry /\ r.day = d BY <2>1 DEF Retry
  <2>3. <<u, d>> \notin retries /\ retries' = retries \cup {<<u, d>>} /\ charges' = charges
        /\ retryCall' = [retryCall EXCEPT ![u] = r]
    BY <1>3 DEF BuyRetry, RecordRetry
  <2>4. charges[u][d] = 0 BY <2>1, <2>3 DEF RetryInv, RetryChargedOnce
  <2> QED BY <2>1, <2>2, <2>3, <2>4 DEF RetryInv, RetryChargedOnce
<1>4. ASSUME NEW u \in Players, PayRetry(u) PROVE RetryInv'
  <2> PICK d : d = retryCall[u].day OBVIOUS
  <2>1. retryCall[u] # Idle /\ d \in Days BY <1>2, <1>4 DEF PayRetry, RetryInv
  <2>2. charges[u][d] = 0 /\ <<u, d>> \in retries BY <2>1 DEF RetryInv
  <2>3. charges' = [charges EXCEPT ![u][d] = @ + 1] /\ retries' = retries
        /\ retryCall' = [retryCall EXCEPT ![u] = Idle]
    BY <1>4 DEF PayRetry, SpendCoins
  <2>4. /\ charges' \in [Players -> [Days -> Nat]] /\ charges'[u][d] = 1
        /\ \A v \in Players, e \in Days : <<v, e>> # <<u, d>> => charges'[v][e] = charges[v][e]
    BY <2>1, <2>2, <2>3 DEF RetryInv
  <2>5. retryCall' \in [Players -> {Idle} \cup Retry] BY <2>3 DEF RetryInv
  <2>6. RetryChargedOnce' BY <2>1, <2>2, <2>3, <2>4 DEF RetryInv, RetryChargedOnce
  <2>7. ASSUME NEW v \in Players, retryCall'[v] # Idle
        PROVE  charges'[v][retryCall'[v].day] = 0 /\ <<v, retryCall'[v].day>> \in retries'
    <3>1. v # u /\ retryCall'[v] = retryCall[v] BY <2>3, <2>7 DEF RetryInv
    <3>2. retryCall[v].day \in Days BY <1>2, <2>7, <3>1 DEF RetryInv
    <3> QED BY <2>3, <2>4, <2>7, <3>1, <3>2 DEF RetryInv
  <2> QED BY <2>4, <2>5, <2>6, <2>7 DEF RetryInv
<1>5. ASSUME NEW u \in Players, RetryUnpaid(u) PROVE RetryInv'
  <2> PICK r : r = [retryCall[u] EXCEPT !.pc = "delete"] OBVIOUS
  <2>1. retryCall[u] \in Retry BY <1>2, <1>5 DEF RetryUnpaid, RetryInv
  <2>2. r \in Retry /\ r.day = retryCall[u].day BY <2>1 DEF Retry
  <2>3. retryCall[u] # Idle BY <1>2, <2>1
  <2>4. retryCall' = [retryCall EXCEPT ![u] = r] /\ UNCHANGED <<retries, charges>> BY <1>5 DEF RetryUnpaid
  <2> QED BY <2>2, <2>3, <2>4 DEF RetryInv, RetryChargedOnce
<1>6. ASSUME NEW u \in Players, RollBackRetry(u) PROVE RetryInv'
  <2> PICK d : d = retryCall[u].day OBVIOUS
  <2>1. retryCall[u] # Idle /\ d \in Days BY <1>2, <1>6 DEF RollBackRetry, RetryInv
  <2>2. charges[u][d] = 0 BY <2>1 DEF RetryInv
  <2>3. retries \ {<<u, d>>} \subseteq retries' /\ charges' = charges
        /\ retryCall' = [retryCall EXCEPT ![u] = Idle]
    BY <1>6 DEF RollBackRetry, DeleteRetry
  <2>4. RetryChargedOnce' BY <2>2, <2>3 DEF RetryInv, RetryChargedOnce
  <2>5. ASSUME NEW v \in Players, retryCall'[v] # Idle
        PROVE  charges'[v][retryCall'[v].day] = 0 /\ <<v, retryCall'[v].day>> \in retries'
    BY <2>3, <2>5 DEF RetryInv
  <2> QED BY <2>3, <2>4, <2>5 DEF RetryInv
<1>7. \/ UNCHANGED <<retries, retryCall, charges>>
      \/ \E u \in Players : BuyRetry(u) \/ PayRetry(u) \/ RetryUnpaid(u) \/ RollBackRetry(u)
  BY DEF SoloNext, soloVars, Upload, FinalizeToDB, CheckDaily, CreateMatch, AddMatchPlayer, SaveAttempt,
         UpdateStats, AddXP, ReadStreak, WriteStreak, Abort, EnsureDailyChallenges, Midnight, daily
<1> QED BY <1>1, <1>3, <1>4, <1>5, <1>6, <1>7

\* The Daily Challenge (service/daily.go, service/game.go): at most two attempts of a
\* player and day are ranked, in order and from stored matches, and a retry is charged
\* once and stays bought, however uploads, repetitions and rollbacks overlap.
THEOREM DailyAlwaysFair == SoloSpec => []DailyIsFair
<1>1. SoloInit => UploadInv /\ RetryInv
  BY SoloStartsSound DEF SoloInit, RetryInv, RetryChargedOnce
<1>2. UploadInv /\ RetryInv => DailyIsFair BY DEF UploadInv, RetryInv, DailyIsFair
<1> QED BY <1>1, <1>2, UploadStep, RetryStep, PTL DEF SoloSpec

-----------------------------------------------------------------------------
(* Streaks                                                                 *)

StreakRow == [streak : Nat, longest : Nat, last : Nat]
Finished(g) == visible[g] > 0 \/ (Info[g].mode = "match" /\ g \in synced)

RowIsEarned(u, s) ==
  s \in StreakRow /\ \A d \in s.last - s.streak + 1 .. s.last : FinishedOn(u, d)

\* The streak of the database is earned because a call only gets to the streak with a
\* finished game, and because the row it has read stays earned while others write.
CallHasFinished(c) ==
  /\ calls[c].pc \in {"attempt", "stats", "xp", "streak", "update"} => Finished(calls[c].game)
  /\ calls[c].pc = "update" => RowIsEarned(Info[calls[c].game].user, calls[c].read)

StreakInv ==
  /\ DOMAIN stats = Players /\ stats = [u \in Players |-> stats[u]]
  /\ \A u \in Players : RowIsEarned(u, stats[u]) /\ stats[u].longest >= stats[u].streak
  /\ \A c \in Calls : CallHasFinished(c)

-----------------------------------------------------------------------------
\* What is finished stays finished, and so does what was earned by it.
LEMMA FinishedStays ==
  ASSUME UploadInv, [SoloNext]_soloVars
  PROVE  /\ \A g \in Games : Finished(g) => Finished(g)'
         /\ \A u, s : RowIsEarned(u, s) => RowIsEarned(u, s)'
<1>1. synced \subseteq synced'
  BY DEF SoloNext, soloVars, Upload, FinalizeToDB, CheckDaily, CreateMatch, AddMatchPlayer, SaveAttempt,
         UpdateStats, AddXP, ReadStreak, WriteStreak, Abort, BuyRetry, PayRetry, RetryUnpaid,
         RollBackRetry, EnsureDailyChallenges, Midnight, Settle, Answer
<1>2. visible' = visible \/ \E c \in Calls : AddMatchPlayer(c)
  BY DEF SoloNext, soloVars, Upload, FinalizeToDB, CheckDaily, CreateMatch, SaveAttempt, UpdateStats, AddXP,
         ReadStreak, WriteStreak, Abort, BuyRetry, PayRetry, RetryUnpaid, RollBackRetry,
         EnsureDailyChallenges, Midnight, games
<1>3. \A g \in Games : visible[g] > 0 => visible'[g] > 0
  <2>1. ASSUME NEW c \in Calls, AddMatchPlayer(c), NEW g \in Games PROVE visible[g] > 0 => visible'[g] > 0
    BY <2>1 DEF AddMatchPlayer, AddPlayerRow, UploadInv, AttemptTypes
  <2> QED BY <1>2, <2>1
<1>4. \A g \in Games : Finished(g) => Finished(g)' BY <1>1, <1>3 DEF Finished
<1>5. \A u, d : FinishedOn(u, d) <=> \E g \in Games : Info[g].user = u /\ Info[g].ended = d /\ Finished(g)
  BY DEF FinishedOn, Finished
<1>6. \A u, d : FinishedOn(u, d)' <=> \E g \in Games : Info[g].user = u /\ Info[g].ended = d /\ Finished(g)'
  BY DEF FinishedOn, Finished
<1>7. \A u, d : FinishedOn(u, d) => FinishedOn(u, d)' BY <1>4, <1>5, <1>6
<1> QED BY <1>4, <1>7 DEF RowIsEarned

\* A call that moves leaves what the others have alone.
LEMMA OthersHaveFinished ==
  ASSUME UploadInv, StreakInv, [SoloNext]_soloVars, NEW c \in Calls, NEW k,
         calls' = [calls EXCEPT ![c] = k], CallHasFinished(c)'
  PROVE  \A x \in Calls : CallHasFinished(x)'
<1> SUFFICES ASSUME NEW x \in Calls, x # c PROVE CallHasFinished(x)' OBVIOUS
<1> PICK m : m = calls[x] OBVIOUS
<1>1. calls'[x] = m BY DEF UploadInv, CallsAreSound
<1>2. CallHasFinished(x) BY DEF StreakInv
<1>3. m.pc \in {"attempt", "stats", "xp", "streak", "update"} => m.game \in Games
  BY CallHasGame DEF UploadInv, At
<1> QED BY <1>1, <1>2, <1>3, FinishedStays DEF CallHasFinished

LEMMA CallsHaveFinished ==
  ASSUME UploadInv, StreakInv, [SoloNext]_soloVars
  PROVE  \A c \in Calls : CallHasFinished(c)'
<1> USE DEF At
<1>1. CASE calls' = calls
  <2> SUFFICES ASSUME NEW c \in Calls PROVE CallHasFinished(c)' OBVIOUS
  <2> PICK m : m = calls[c] OBVIOUS
  <2>1. CallHasFinished(c) /\ calls'[c] = m BY <1>1 DEF StreakInv
  <2>2. m.pc \in {"attempt", "stats", "xp", "streak", "update"} => m.game \in Games
    BY CallHasGame DEF UploadInv, At
  <2> QED BY <2>1, <2>2, FinishedStays DEF CallHasFinished
<1>2. ASSUME NEW c \in Calls, NEW k, calls' = [calls EXCEPT ![c] = k],
             k.pc \in {"idle", "daily", "create", "player"}
      PROVE  \A x \in Calls : CallHasFinished(x)'
  <2>1. calls'[c] = k BY <1>2 DEF UploadInv, CallsAreSound
  <2>2. CallHasFinished(c)' BY <1>2, <2>1 DEF CallHasFinished
  <2> QED BY <1>2, <2>2, OthersHaveFinished
<1>3. ASSUME NEW c \in Calls, NEW k, calls' = [calls EXCEPT ![c] = k],
             k.pc \in {"attempt", "stats", "xp", "streak"}, Finished(k.game)'
      PROVE  \A x \in Calls : CallHasFinished(x)'
  <2>1. calls'[c] = k BY <1>3 DEF UploadInv, CallsAreSound
  <2>2. CallHasFinished(c)' BY <1>3, <2>1 DEF CallHasFinished, Finished
  <2> QED BY <1>3, <2>2, OthersHaveFinished
<1>4. ASSUME NEW c \in Calls, calls' = [calls EXCEPT ![c] = Idle] PROVE \A x \in Calls : CallHasFinished(x)'
  <2> PICK k : k = Idle OBVIOUS
  <2> QED BY <1>2, <1>4, IdleIsNoCall
<1>5. ASSUME NEW c \in Calls, calls[c].pc \in {"attempt", "stats", "xp", "streak", "update"}
      PROVE  calls[c].game \in Games /\ Finished(calls[c].game)
  BY <1>5, CallHasGame DEF StreakInv, CallHasFinished, UploadInv, At
<1>6. ASSUME NEW c \in Calls, NEW g \in Games, Upload(c, g) PROVE \A x \in Calls : CallHasFinished(x)'
  <2>1. CASE calls' = calls BY <1>1, <2>1
  <2>2. CASE calls' # calls
    <3> PICK k : k = [pc |-> IF Info[g].mode = "daily" THEN "daily" ELSE "create", game |-> g, number |-> 0]
      OBVIOUS
    <3>1. calls' = [calls EXCEPT ![c] = k] BY <1>6, <2>2 DEF Upload
    <3>2. k.pc \in {"daily", "create"} OBVIOUS
    <3> QED BY <1>2, <3>1, <3>2
  <2> QED BY <2>1, <2>2
<1>7. ASSUME NEW c \in Calls, NEW g \in Games, FinalizeToDB(c, g) PROVE \A x \in Calls : CallHasFinished(x)'
  <2> PICK k : k = [pc |-> "streak", game |-> g, number |-> 0] OBVIOUS
  <2>1. calls' = [calls EXCEPT ![c] = k] BY <1>7 DEF FinalizeToDB
  <2>2. Finished(g)' BY <1>7 DEF FinalizeToDB, Finished
  <2>3. k.pc = "streak" /\ k.game = g OBVIOUS
  <2> QED BY <1>3, <2>1, <2>2, <2>3
<1>8. ASSUME NEW c \in Calls, CheckDaily(c) PROVE \A x \in Calls : CallHasFinished(x)'
  <2> PICK n : n = DailyAttemptNumber(Info[calls[c].game].user, Info[calls[c].game].day) OBVIOUS
  <2> PICK k : k = [calls[c] EXCEPT !.pc = "create", !.number = n] OBVIOUS
  <2>1. calls' = [calls EXCEPT ![c] = k] \/ calls' = [calls EXCEPT ![c] = Idle]
    BY <1>8 DEF CheckDaily, Return
  <2>2. calls[c] \in Call BY <1>8, CallAtStep DEF CheckDaily, Steps, UploadInv
  <2>3. k.pc = "create" BY <2>2 DEF Call
  <2> QED BY <1>2, <1>4, <2>1, <2>3
<1>9. ASSUME NEW c \in Calls, CreateMatch(c) PROVE \A x \in Calls : CallHasFinished(x)'
  <2> PICK k : k = [calls[c] EXCEPT !.pc = "player"] OBVIOUS
  <2>1. calls' = [calls EXCEPT ![c] = k] BY <1>9 DEF CreateMatch, Goto
  <2>2. calls[c] \in Call BY <1>9, CallAtStep DEF CreateMatch, Steps, UploadInv
  <2>3. k.pc = "player" BY <2>2 DEF Call
  <2> QED BY <1>2, <2>1, <2>3
<1>10. ASSUME NEW c \in Calls, AddMatchPlayer(c) PROVE \A x \in Calls : CallHasFinished(x)'
  <2> PICK g : g = calls[c].game OBVIOUS
  <2> PICK k : k = [calls[c] EXCEPT !.pc = IF calls[c].number > 0 THEN "attempt" ELSE "stats"] OBVIOUS
  <2>1. calls' = [calls EXCEPT ![c] = k] BY <1>10 DEF AddMatchPlayer, Goto
  <2>2. calls[c] \in Call BY <1>10, CallAtStep DEF AddMatchPlayer, Steps, UploadInv
  <2>3. k.pc \in {"attempt", "stats"} /\ k.game = g /\ g \in Games BY <2>2 DEF Call
  <2>4. Finished(g)' BY <1>10, <2>3 DEF AddMatchPlayer, AddPlayerRow, Finished, UploadInv, AttemptTypes
  <2> QED BY <1>3, <2>1, <2>3, <2>4
<1>11. ASSUME NEW c \in Calls, NEW pc \in {"stats", "xp", "streak"}, Goto(c, pc),
              calls[c].pc \in {"attempt", "stats", "xp"}
       PROVE  \A x \in Calls : CallHasFinished(x)'
  <2> PICK g : g = calls[c].game OBVIOUS
  <2> PICK k : k = [calls[c] EXCEPT !.pc = pc] OBVIOUS
  <2>1. calls' = [calls EXCEPT ![c] = k] BY <1>11 DEF Goto
  <2>2. calls[c] \in Call BY <1>11, CallAtStep DEF Steps, UploadInv
  <2>3. k.pc = pc /\ k.game = g BY <2>2 DEF Call
  <2>4. g \in Games /\ Finished(g) BY <1>5, <1>11
  <2>5. Finished(g)' BY <2>4, FinishedStays
  <2> QED BY <1>3, <2>1, <2>3, <2>5
<1>12. ASSUME NEW c \in Calls, SaveAttempt(c) \/ UpdateStats(c) \/ AddXP(c)
       PROVE  \A x \in Calls : CallHasFinished(x)'
  <2>1. \/ calls' = [calls EXCEPT ![c] = Idle]
        \/ /\ calls[c].pc \in {"attempt", "stats", "xp"}
           /\ Goto(c, "stats") \/ Goto(c, "xp") \/ Goto(c, "streak")
    BY <1>12 DEF SaveAttempt, UpdateStats, AddXP, Answer, Return
  <2> QED BY <1>4, <1>11, <2>1
<1>13. ASSUME NEW c \in Calls, ReadStreak(c) PROVE \A x \in Calls : CallHasFinished(x)'
  <2> PICK g : g = calls[c].game OBVIOUS
  <2> PICK s : s = stats[Info[g].user] OBVIOUS
  <2> PICK k : k = [pc |-> "update", game |-> g, number |-> 0, read |-> s] OBVIOUS
  <2>1. calls' = [calls EXCEPT ![c] = k] BY <1>13 DEF ReadStreak, GetStats
  <2>2. g \in Games /\ Finished(g) BY <1>5, <1>13 DEF ReadStreak
  <2>3. RowIsEarned(Info[g].user, s) BY <2>2, GameOf DEF StreakInv
  <2>4. Finished(g)' /\ RowIsEarned(Info[g].user, s)' BY <2>2, <2>3, FinishedStays
  <2>5. calls'[c] = k BY <2>1 DEF UploadInv, CallsAreSound
  <2>6. CallHasFinished(c)' BY <2>4, <2>5 DEF CallHasFinished
  <2> QED BY <2>1, <2>6, OthersHaveFinished
<1>14. ASSUME NEW c \in Calls, WriteStreak(c) PROVE \A x \in Calls : CallHasFinished(x)'
  <2> PICK g : g = calls[c].game OBVIOUS
  <2> PICK k : k = [pc |-> "xp", game |-> g, number |-> 0] OBVIOUS
  <2>1. calls' = [calls EXCEPT ![c] = k] \/ calls' = [calls EXCEPT ![c] = Idle]
    BY <1>14 DEF WriteStreak, Answer, Return
  <2>2. g \in Games /\ Finished(g) BY <1>5, <1>14 DEF WriteStreak
  <2>3. Finished(g)' BY <2>2, FinishedStays
  <2> QED BY <1>3, <1>4, <2>1, <2>3
<1>15. ASSUME NEW c \in Calls, Abort(c) PROVE \A x \in Calls : CallHasFinished(x)'
  BY <1>4, <1>15 DEF Abort, Return
<1>16. \/ calls' = calls
       \/ \E c \in Calls :
            \/ \E g \in Games : Upload(c, g) \/ FinalizeToDB(c, g)
            \/ CheckDaily(c) \/ CreateMatch(c) \/ AddMatchPlayer(c) \/ SaveAttempt(c)
            \/ UpdateStats(c) \/ AddXP(c) \/ ReadStreak(c) \/ WriteStreak(c) \/ Abort(c)
  BY DEF SoloNext, soloVars, BuyRetry, PayRetry, RetryUnpaid, RollBackRetry, EnsureDailyChallenges, Midnight
<1> QED BY <1>1, <1>6, <1>7, <1>8, <1>9, <1>10, <1>12, <1>13, <1>14, <1>15, <1>16

\* computeNewStreak lengthens an earned streak by the day of a finished game only.
LEMMA NewStreakIsEarned ==
  ASSUME NEW u, NEW s, RowIsEarned(u, s), NEW d \in Nat, FinishedOn(u, d),
         NEW longest \in Nat, NEW new, new = ComputeNewStreak(s, d), new > 0
  PROVE  new \in Nat /\ RowIsEarned(u, [streak |-> new, last |-> d, longest |-> longest])
<1> PICK r : r = [streak |-> new, last |-> d, longest |-> longest] OBVIOUS
<1>1. s.last \in Nat /\ s.streak \in Nat BY DEF RowIsEarned, StreakRow
<1>2. new = 1 \/ (new = s.streak + 1 /\ d = s.last + 1) BY <1>1 DEF ComputeNewStreak
<1>3. new \in Nat BY <1>1, <1>2
<1>4. r \in StreakRow /\ r.last = d /\ r.streak = new BY <1>3 DEF StreakRow
<1>5. ASSUME NEW e \in d - new + 1 .. d PROVE FinishedOn(u, e)
  <2>1. e = d \/ e \in s.last - s.streak + 1 .. s.last BY <1>1, <1>2
  <2> QED BY <2>1 DEF RowIsEarned
<1> QED BY <1>3, <1>4, <1>5 DEF RowIsEarned

LEMMA StreakStep ==
  ASSUME UploadInv, StreakInv, [SoloNext]_soloVars
  PROVE  StreakInv' /\ \A u \in Players : stats'[u].longest >= stats[u].longest
<1>1. \A u \in Players : stats[u].longest \in Nat /\ stats[u].streak \in Nat
  BY DEF StreakInv, RowIsEarned, StreakRow
<1>2. CASE stats' = stats
  <2>1. ASSUME NEW u \in Players PROVE RowIsEarned(u, stats[u])'
    <3> PICK s : s = stats[u] OBVIOUS
    <3>1. RowIsEarned(u, s) BY DEF StreakInv
    <3>2. RowIsEarned(u, s)' BY <3>1, FinishedStays
    <3> QED BY <1>2, <3>2 DEF RowIsEarned
  <2> QED BY <1>1, <1>2, <2>1, CallsHaveFinished DEF StreakInv
<1>3. ASSUME NEW c \in Calls, WriteStreak(c), stats' # stats
      PROVE  StreakInv' /\ \A u \in Players : stats'[u].longest >= stats[u].longest
  <2> PICK g : g = calls[c].game OBVIOUS
  <2> PICK u : u = Info[g].user OBVIOUS
  <2> PICK s : s = calls[c].read OBVIOUS
  <2> PICK d : d = Info[g].ended OBVIOUS
  <2> PICK new : new = ComputeNewStreak(s, d) OBVIOUS
  <2>1. calls[c].pc = "update" /\ new > 0 /\ UpdateStreak(u, s, d, new) BY <1>3 DEF WriteStreak, At
  <2>2. g \in Games BY <2>1, CallHasGame DEF UploadInv, At
  <2>3. Finished(g) /\ RowIsEarned(u, s) BY <2>1 DEF StreakInv, CallHasFinished
  <2>4. u \in Players /\ d \in Nat BY <2>2, GameOf DEF Days
  <2>5. FinishedOn(u, d) BY <2>2, <2>3 DEF FinishedOn, Finished
  <2> PICK seen : seen = IF s.longest > new THEN s.longest ELSE new OBVIOUS
  <2> PICK longest : longest = IF stats[u].longest > seen THEN stats[u].longest ELSE seen OBVIOUS
  <2> PICK row : row = [streak |-> new, last |-> d, longest |-> longest] OBVIOUS
  <2>6. new \in Nat BY <2>1, <2>3, <2>4, <2>5, NewStreakIsEarned
  <2>7. longest \in Nat /\ longest >= new /\ longest >= stats[u].longest
    BY <1>1, <2>3, <2>4, <2>6 DEF RowIsEarned, StreakRow
  <2>8. RowIsEarned(u, row) BY <2>1, <2>3, <2>4, <2>5, <2>7, NewStreakIsEarned
  <2>9. stats' = [stats EXCEPT ![u] = row] BY <2>1 DEF UpdateStreak
  <2>10. \A v \in Players : stats'[v] = IF v = u THEN row ELSE stats[v] BY <2>9 DEF StreakInv
  <2>11. ASSUME NEW v \in Players PROVE RowIsEarned(v, stats[v])' /\ stats'[v].longest >= stats'[v].streak
    <3> PICK t : t = IF v = u THEN row ELSE stats[v] OBVIOUS
    <3>1. RowIsEarned(v, t) /\ t.longest >= t.streak BY <2>7, <2>8 DEF StreakInv
    <3>2. RowIsEarned(v, t)' BY <3>1, FinishedStays
    <3>3. stats'[v] = t BY <2>10
    <3> QED BY <3>1, <3>2, <3>3 DEF RowIsEarned
  <2>12. ASSUME NEW v \in Players PROVE stats'[v].longest >= stats[v].longest
    <3>1. row.longest = longest OBVIOUS
    <3>2. CASE v = u BY <2>7, <2>10, <3>1, <3>2
    <3>3. CASE v # u BY <1>1, <2>10, <3>3
    <3> QED BY <3>2, <3>3
  <2>13. DOMAIN stats' = Players /\ stats' = [v \in Players |-> stats'[v]] BY <2>9 DEF StreakInv
  <2> QED BY <2>11, <2>12, <2>13, CallsHaveFinished DEF StreakInv
<1>4. stats' = stats \/ \E c \in Calls : WriteStreak(c)
  BY DEF SoloNext, soloVars, Upload, FinalizeToDB, CheckDaily, CreateMatch, AddMatchPlayer, SaveAttempt,
         UpdateStats, AddXP, ReadStreak, Abort, BuyRetry, PayRetry, RetryUnpaid, RollBackRetry,
         EnsureDailyChallenges, Midnight
<1> QED BY <1>2, <1>3, <1>4

\* The daily streak (service/streak.go RecordGamePlayed), read and written in two
\* statements: however uploads and matches overlap and arrive, a streak is never longer
\* than it was earned and the record is never lost.
THEOREM StreakAlwaysHonest == SoloSpec => StreakIsHonest
<1>1. SoloInit => UploadInv /\ StreakInv
  <2> SUFFICES ASSUME SoloInit PROVE UploadInv /\ StreakInv OBVIOUS
  <2>1. UploadInv BY SoloStartsSound
  <2>2. \A u \in Players : stats[u] = NoStats BY DEF SoloInit
  <2>3. NoStats \in StreakRow /\ NoStats.last = 0 /\ NoStats.streak = 0 /\ NoStats.longest = 0
    BY DEF NoStats, StreakRow
  <2>4. \A u \in Players : RowIsEarned(u, stats[u]) BY <2>2, <2>3 DEF RowIsEarned
  <2>5. \A c \in Calls : CallHasFinished(c) BY IdleIsNoCall DEF SoloInit, CallHasFinished
  <2> QED BY <2>1, <2>2, <2>3, <2>4, <2>5 DEF SoloInit, StreakInv
<1>2. UploadInv /\ StreakInv /\ [SoloNext]_soloVars =>
        /\ [\A u \in Players : StreakIsEarned(u)']_soloVars
        /\ [\A u \in Players : /\ stats'[u].longest >= stats[u].longest
                               /\ stats'[u].longest >= stats'[u].streak]_soloVars
  <2> SUFFICES ASSUME UploadInv, StreakInv, [SoloNext]_soloVars
               PROVE  \A u \in Players : /\ StreakIsEarned(u)'
                                         /\ stats'[u].longest >= stats[u].longest
                                         /\ stats'[u].longest >= stats'[u].streak
    OBVIOUS
  <2>1. StreakInv' /\ \A u \in Players : stats'[u].longest >= stats[u].longest BY StreakStep
  <2> QED BY <2>1 DEF StreakInv, RowIsEarned, StreakIsEarned
<1>3. UploadInv /\ StreakInv /\ [SoloNext]_soloVars => StreakInv' BY StreakStep
<1> QED BY <1>1, <1>2, <1>3, UploadStep, PTL
        DEF SoloSpec, StreakIsHonest, StreaksStayEarned, LongestIsKept

-----------------------------------------------------------------------------
(* Pages, rankings and payouts of the Daily Challenge                      *)

ResultTypes ==
  /\ day \in 1 .. BoardDays
  /\ results \in [1 .. BoardDays -> [Entrants -> [tries : Nat, best : Nat]]]

Reading(d, u) == d \in 1 .. BoardDays /\ u \in Entrants

\* ReadersAgree alone is not inductive: what a reader has seen so far must still be
\* true when its last query runs.
ReaderIsSound ==
  /\ reader.pc \in {"attempts", "rank", "entries", "ranking"} => Reading(reader.day, reader.user)
  /\ reader.pc = "rank" => reader.mine.tries > 0 /\ reader.user \in Attempted(reader.day)
  /\ reader.pc \in {"entries", "ranking"} =>
       \A e \in reader.entries : /\ e.user \in Attempted(reader.day)
                                  /\ e.score \in Nat /\ e.score <= Best(reader.day, e.user)

ReaderInv == ResultTypes /\ ReaderIsSound /\ ReadersAgree

-----------------------------------------------------------------------------
LEMMA RankOfAttempted ==
  ASSUME ResultTypes, NEW d \in 1 .. BoardDays, NEW u \in Entrants
  PROVE  /\ GetUserRank(d, u) \in Nat
         /\ GetUserRank(d, u) > 0 <=> u \in Attempted(d)
         /\ GetUserRank(d, u) = 1 => \A v \in Attempted(d) : Best(d, v) <= Best(d, u)
<1> PICK above : above = {v \in Attempted(d) : Best(d, v) > Best(d, u)} OBVIOUS
<1>1. IsFiniteSet(above) BY BoardAssumption, FS_Subset DEF Attempted
<1>2. Cardinality(above) \in Nat BY <1>1, FS_CardinalityType
<1>3. GetUserRank(d, u) = IF u \notin Attempted(d) THEN 0 ELSE 1 + Cardinality(above) BY DEF GetUserRank
<1>4. GetUserRank(d, u) = 1 => \A v \in Attempted(d) : Best(d, v) <= Best(d, u)
  <2> SUFFICES ASSUME GetUserRank(d, u) = 1, NEW v \in Attempted(d) PROVE Best(d, v) <= Best(d, u) OBVIOUS
  <2>1. Cardinality(above) = 0 BY <1>2, <1>3
  <2>2. above = {} BY <1>1, <2>1, FS_EmptySet
  <2>3. Best(d, v) \in Nat /\ Best(d, u) \in Nat BY DEF Best, Attempted, ResultTypes
  <2> QED BY <2>2, <2>3
<1> QED BY <1>2, <1>3, <1>4

\* An attempt more never takes an attempt or a best score away.
LEMMA AttemptsGrow ==
  ASSUME ResultTypes, NEW u \in Entrants, NEW d \in 1 .. BoardDays, NEW s \in 1 .. TopScore,
         StoreAttempt(u, d, s)
  PROVE  /\ ResultTypes'
         /\ \A e \in 1 .. BoardDays : \A v \in Entrants :
              /\ Best(e, v)' \in Nat /\ Best(e, v) \in Nat /\ Best(e, v)' >= Best(e, v)
              /\ v \in Attempted(e) => v \in Attempted(e)'
<1> PICK old : old = results[d][u] OBVIOUS
<1> PICK new : new = [tries |-> old.tries + 1, best |-> IF s > old.best THEN s ELSE old.best] OBVIOUS
<1>1. old \in [tries : Nat, best : Nat] /\ s \in Nat BY BoardAssumption DEF ResultTypes
<1>2. new \in [tries : Nat, best : Nat] /\ new.tries > 0 /\ new.best >= old.best BY <1>1
<1>3. results' = [results EXCEPT ![d][u] = new] /\ day' = day BY DEF StoreAttempt
<1>4. ResultTypes' BY <1>2, <1>3 DEF ResultTypes
<1>5. ASSUME NEW e \in 1 .. BoardDays, NEW v \in Entrants
      PROVE  results'[e][v] = IF e = d /\ v = u THEN new ELSE results[e][v]
  BY <1>3 DEF ResultTypes
<1>6. ASSUME NEW e \in 1 .. BoardDays, NEW v \in Entrants
      PROVE  results[e][v].best \in Nat /\ results'[e][v].best \in Nat
             /\ results'[e][v].best >= results[e][v].best
             /\ (results[e][v].tries > 0 => results'[e][v].tries > 0)
  <2>1. results[e][v] \in [tries : Nat, best : Nat] BY DEF ResultTypes
  <2> QED BY <1>2, <1>5, <2>1
<1> QED BY <1>4, <1>6 DEF Best, Attempted

LEMMA ReaderStep == ReaderInv /\ [BoardNext]_boardVars => ReaderInv'
<1> SUFFICES ASSUME ReaderInv, [BoardNext]_boardVars PROVE ReaderInv' OBVIOUS
<1> USE DEF ReaderInv
<1>1. CASE UNCHANGED <<day, results, reader>>
  BY <1>1 DEF ResultTypes, ReaderIsSound, ReadersAgree, Reading, Attempted, Best
<1>2. ASSUME NEW u \in Entrants, NEW d \in 1 .. BoardDays, NEW s \in 1 .. TopScore, StoreAttempt(u, d, s)
      PROVE  ReaderInv'
  <2>1. reader' = reader BY <1>2 DEF StoreAttempt
  <2>2. ResultTypes' BY <1>2, AttemptsGrow
  <2>3. \A e \in 1 .. BoardDays : \A v \in Entrants :
          /\ Best(e, v)' \in Nat /\ Best(e, v) \in Nat /\ Best(e, v)' >= Best(e, v)
          /\ v \in Attempted(e) => v \in Attempted(e)'
    BY <1>2, AttemptsGrow
  <2>4. \A e : Attempted(e) \subseteq Entrants BY DEF Attempted
  <2> PICK r : r = reader OBVIOUS
  <2>5. r.pc = "rank" => r.user \in Attempted(r.day)' BY <2>3 DEF ReaderIsSound, Reading
  <2>6. ASSUME r.pc \in {"entries", "ranking"}, NEW e \in r.entries
        PROVE  e.user \in Attempted(r.day)' /\ e.score <= Best(r.day, e.user)'
    <3>1. /\ r.day \in 1 .. BoardDays /\ e.user \in Attempted(r.day)
          /\ e.score \in Nat /\ e.score <= Best(r.day, e.user)
      BY <2>6 DEF ReaderIsSound, Reading
    <3>2. e.user \in Entrants BY <2>4, <3>1
    <3> QED BY <2>3, <3>1, <3>2
  <2>7. ReaderIsSound' BY <2>1, <2>5, <2>6 DEF ReaderIsSound, Reading
  <2>8. ASSUME r.pc = "ranking", r.rank = 1, NEW e \in r.entries
        PROVE  e.score <= Best(r.day, r.user)'
    <3>1. e.score \in Nat /\ Reading(r.day, r.user) BY <2>8 DEF ReaderIsSound
    <3>2. e.score <= Best(r.day, r.user) BY <2>8 DEF ReadersAgree
    <3> QED BY <2>3, <3>1, <3>2 DEF Reading
  <2>9. ReadersAgree' BY <2>1, <2>8 DEF ReadersAgree
  <2> QED BY <2>2, <2>7, <2>9
<1>3. ASSUME NEW u \in Entrants, OpenPage(u) PROVE ReaderInv'
  BY <1>3 DEF OpenPage, ResultTypes, ReaderIsSound, ReadersAgree, Reading
<1>4. ASSUME NEW u \in Entrants, OpenRanking(u) PROVE ReaderInv'
  <2>1. /\ reader' = [pc |-> "entries", user |-> u, day |-> day, entries |-> GetDailyLeaderboard(day)]
        /\ UNCHANGED <<day, results>>
    BY <1>4 DEF OpenRanking
  <2>2. \A e \in GetDailyLeaderboard(day) :
          e.user \in Attempted(day) /\ e.score \in Nat /\ e.score <= Best(day, e.user)
    BY DEF GetDailyLeaderboard, Attempted, Best, ResultTypes
  <2>3. ResultTypes' BY <2>1 DEF ResultTypes
  <2>4. \A d, v : Attempted(d)' = Attempted(d) /\ Best(d, v)' = Best(d, v) BY <2>1 DEF Attempted, Best
  <2>5. ReaderIsSound' BY <2>1, <2>2, <2>4 DEF ReaderIsSound, Reading, ResultTypes
  <2> QED BY <2>1, <2>3, <2>5 DEF ReadersAgree
<1>5. CASE PageAttempts
  <2> PICK mine : mine = results[reader.day][reader.user] OBVIOUS
  <2>1. mine \in [tries : Nat, best : Nat] BY <1>5 DEF PageAttempts, ReaderIsSound, Reading, ResultTypes
  <2>2. CASE mine.tries = 0
    <3>1. reader' = GetDaily(reader, mine, 0) /\ UNCHANGED <<day, results>> BY <1>5, <2>2 DEF PageAttempts
    <3> QED BY <2>2, <3>1 DEF GetDaily, ResultTypes, ReaderIsSound, ReadersAgree
  <2>3. CASE mine.tries > 0
    <3>1. reader' = [pc |-> "rank", user |-> reader.user, day |-> reader.day, best |-> reader.best, mine |-> mine]
          /\ UNCHANGED <<day, results>>
      BY <1>5, <2>3 DEF PageAttempts
    <3>2. Reading(reader.day, reader.user) BY <1>5 DEF PageAttempts, ReaderIsSound
    <3> QED BY <2>3, <3>1, <3>2 DEF ResultTypes, ReaderIsSound, ReadersAgree, Reading, Attempted
  <2> QED BY <2>1, <2>2, <2>3
<1>6. CASE PageRank
  <2>1. reader' = GetDaily(reader, reader.mine, GetUserRank(reader.day, reader.user)) /\ UNCHANGED <<day, results>>
    BY <1>6 DEF PageRank
  <2>2. reader.mine.tries > 0 /\ reader.user \in Attempted(reader.day) /\ Reading(reader.day, reader.user)
    BY <1>6 DEF PageRank, ReaderIsSound
  <2>3. GetUserRank(reader.day, reader.user) > 0 BY <2>2, RankOfAttempted DEF Reading
  <2> QED BY <2>1, <2>2, <2>3 DEF GetDaily, ResultTypes, ReaderIsSound, ReadersAgree
<1>7. CASE RankingRank
  <2> PICK rank : rank = GetUserRank(reader.day, reader.user) OBVIOUS
  <2>1. reader' = [pc |-> "ranking", user |-> reader.user, day |-> reader.day,
                   entries |-> reader.entries, rank |-> rank]
        /\ UNCHANGED <<day, results>>
    BY <1>7 DEF RankingRank, GetLeaderboard
  <2>2. /\ Reading(reader.day, reader.user)
        /\ \A e \in reader.entries : /\ e.user \in Attempted(reader.day)
                                      /\ e.score \in Nat /\ e.score <= Best(reader.day, e.user)
    BY <1>7 DEF RankingRank, ReaderIsSound
  <2>3. ResultTypes' BY <2>1 DEF ResultTypes
  <2>4. \A d, v : Attempted(d)' = Attempted(d) /\ Best(d, v)' = Best(d, v) BY <2>1 DEF Attempted, Best
  <2>5. ReaderIsSound' BY <2>1, <2>2, <2>4 DEF ReaderIsSound, Reading
  <2>6. /\ rank > 0 <=> reader.user \in Attempted(reader.day)
        /\ rank = 1 => \A v \in Attempted(reader.day) : Best(reader.day, v) <= Best(reader.day, reader.user)
    BY <2>2, RankOfAttempted DEF Reading
  <2>7. ASSUME rank = 1, NEW e \in reader.entries PROVE e.score <= Best(reader.day, reader.user)
    <3>1. e.score <= Best(reader.day, e.user) /\ Best(reader.day, e.user) <= Best(reader.day, reader.user)
      BY <2>2, <2>6, <2>7
    <3>2. e.score \in Nat /\ Best(reader.day, e.user) \in Nat /\ Best(reader.day, reader.user) \in Nat
      BY <2>2 DEF Reading, Best, Attempted, ResultTypes
    <3> QED BY <3>1, <3>2
  <2>8. ReadersAgree' BY <2>1, <2>2, <2>4, <2>6, <2>7 DEF ReadersAgree
  <2> QED BY <2>3, <2>5, <2>8
<1>8. CASE MidnightPasses
  BY <1>8, BoardAssumption DEF MidnightPasses, ResultTypes, ReaderIsSound, ReadersAgree, Reading, Attempted, Best
<1>9. StartPayout \/ PayAwards \/ UNCHANGED boardVars => UNCHANGED <<day, results, reader>>
  BY DEF StartPayout, PayAwards, boardVars
<1> QED BY <1>1, <1>2, <1>3, <1>4, <1>5, <1>6, <1>7, <1>8, <1>9 DEF BoardNext

\* The daily page and the ranking (service/daily.go GetDailyInfo and Leaderboard): a page
\* put together from queries of different moments does not contradict itself, for any
\* number of players, days and attempts.
THEOREM ReadersAlwaysAgree == BoardSpec => []ReadersAgree
<1>1. BoardInit => ReaderInv
  BY BoardAssumption DEF BoardInit, ReaderInv, ResultTypes, ReaderIsSound, ReadersAgree, Quiet
<1>2. ReaderInv => ReadersAgree BY DEF ReaderInv
<1> QED BY <1>1, <1>2, ReaderStep, PTL DEF BoardSpec

-----------------------------------------------------------------------------
SameKey(p, q) == p.user = q.user /\ p.kind = q.kind /\ p.day = q.day
HasDone(u, d) == \E p \in prizes : p.user = u /\ p.day = d /\ p.kind = "daily_done"

\* The rows a payout works from: one for each player, and all whose attempt was stored
\* in time, of a day that is over.
RowsAreWhole ==
  payout.pc = "pay" =>
    /\ payout.day \in 1 .. BoardDays /\ payout.day < day
    /\ \A r, s \in payout.rows : r.user = s.user => r = s
    /\ \A u \in onTime[payout.day] : \E r \in payout.rows : r.user = u

\* PrizesOnce and FlagMeansPaid are not inductive: they need the rows of the payout
\* under way, and that no attempt is in time for a day that is over.
BooksInv ==
  /\ ResultTypes
  /\ onTime \in [1 .. BoardDays -> SUBSET Entrants]
  /\ \A d \in 1 .. BoardDays : onTime[d] \subseteq Attempted(d)
  /\ RowsAreWhole
  /\ flags \subseteq 1 .. BoardDays /\ \A d \in flags : d < day
  /\ PrizesOnce /\ FlagMeansPaid

-----------------------------------------------------------------------------
\* One award for each player, kind and day of the payout
LEMMA AwardsOnce ==
  ASSUME \A r, s \in payout.rows : r.user = s.user => r = s,
         NEW p \in Awards, NEW q \in Awards, SameKey(p, q)
  PROVE  p = q
<1> PICK done : done = {[user |-> r.user, kind |-> "daily_done", day |-> payout.day, rank |-> 0] : r \in payout.rows}
  OBVIOUS
<1> PICK ranked : ranked = {[user |-> r.user, kind |-> "daily_rank", day |-> payout.day, rank |-> r.rank] :
                               r \in {s \in payout.rows : s.rank <= RankPrizes}}
  OBVIOUS
<1>1. Awards = done \cup ranked BY DEF Awards
<1>2. \A x, y \in done : x.user = y.user => x = y OBVIOUS
<1>3. \A x, y \in ranked : x.user = y.user => x = y OBVIOUS
<1>4. \A x \in done : x.kind = "daily_done" OBVIOUS
<1>5. \A x \in ranked : x.kind = "daily_rank" OBVIOUS
<1> QED BY <1>1, <1>2, <1>3, <1>4, <1>5 DEF SameKey

\* The unique index keeps one prize for each player, kind and day.
LEMMA PaidOnce ==
  ASSUME BooksInv, payout.pc = "pay", NEW given \in SUBSET Awards,
         prizes' = prizes \cup UNION {CreateInboxReward(p) : p \in given}
  PROVE  /\ PrizesOnce'
         /\ prizes \subseteq prizes'
         /\ \A p \in given : \E q \in prizes' : SameKey(p, q)
<1>1. \A r, s \in payout.rows : r.user = s.user => r = s BY DEF BooksInv, RowsAreWhole
<1>2. \A p : CreateInboxReward(p) = IF \E q \in prizes : SameKey(q, p) THEN prizes ELSE prizes \cup {p}
  BY DEF CreateInboxReward, SameKey
<1>3. ASSUME NEW p \in prizes'
      PROVE  p \in prizes \/ (p \in given /\ ~\E q \in prizes : SameKey(q, p))
  BY <1>2
<1>4. \A p, q \in prizes : SameKey(p, q) => p = q BY DEF BooksInv, PrizesOnce, SameKey
<1>5. \A p, q \in given : SameKey(p, q) => p = q BY <1>1, AwardsOnce
<1>6. \A p, q : SameKey(p, q) => SameKey(q, p) BY DEF SameKey
<1>7. \A p, q \in prizes' : SameKey(p, q) => p = q BY <1>3, <1>4, <1>5, <1>6
<1>8. PrizesOnce' BY <1>7 DEF PrizesOnce, SameKey
<1>9. ASSUME NEW p \in given PROVE \E q \in prizes' : SameKey(p, q)
  <2>1. CASE \E q \in prizes : SameKey(q, p) BY <1>6, <2>1
  <2>2. CASE ~\E q \in prizes : SameKey(q, p)
    <3>1. p \in CreateInboxReward(p) BY <1>2, <2>2
    <3> QED BY <3>1 DEF SameKey
  <2> QED BY <2>1, <2>2
<1> QED BY <1>8, <1>9

LEMMA PayAwardsKeeps ==
  ASSUME BooksInv, PayAwards
  PROVE  BooksInv'
<1> PICK d : d = payout.day OBVIOUS
<1>1. payout.pc = "pay" /\ UNCHANGED <<day, results, onTime>> /\ payout'.pc = "idle"
  BY DEF PayAwards, Quiet
<1>2. PICK given \in SUBSET Awards :
        prizes' = prizes \cup UNION {CreateInboxReward(p) : p \in given} /\ FlagDay(given)
  BY DEF PayAwards
<1>3. /\ PrizesOnce' /\ prizes \subseteq prizes'
      /\ \A p \in given : \E q \in prizes' : SameKey(p, q)
  BY <1>1, <1>2, PaidOnce
<1>4. d \in 1 .. BoardDays /\ d < day /\ \A u \in onTime[d] : \E r \in payout.rows : r.user = u
  BY <1>1 DEF BooksInv, RowsAreWhole
<1>5. flags' = flags \/ (given = Awards /\ flags' = flags \cup {d}) BY <1>2 DEF FlagDay
<1>6. flags' \subseteq 1 .. BoardDays /\ \A e \in flags' : e < day BY <1>4, <1>5 DEF BooksInv
<1>7. ASSUME given = Awards, NEW u \in onTime[d] PROVE HasDone(u, d)'
  <2>1. PICK r \in payout.rows : r.user = u BY <1>4, <1>7
  <2> PICK p : p = [user |-> u, kind |-> "daily_done", day |-> d, rank |-> 0] OBVIOUS
  <2>2. p \in Awards BY <2>1 DEF Awards
  <2>3. \E q \in prizes' : SameKey(p, q) BY <1>3, <1>7, <2>2
  <2> QED BY <2>3 DEF SameKey, HasDone
<1>8. FlagMeansPaid'
  <2> SUFFICES ASSUME NEW e \in flags', NEW u \in onTime[e] PROVE HasDone(u, e)'
    BY <1>1 DEF FlagMeansPaid, HasDone
  <2>1. CASE e \in flags BY <1>3, <2>1 DEF BooksInv, FlagMeansPaid, HasDone
  <2>2. CASE e = d /\ given = Awards BY <1>7, <2>2
  <2> QED BY <1>5, <2>1, <2>2
<1> QED BY <1>1, <1>3, <1>6, <1>8 DEF BooksInv, ResultTypes, RowsAreWhole, Attempted

LEMMA BooksStep == BooksInv /\ [BoardNext]_boardVars => BooksInv'
<1> SUFFICES ASSUME BooksInv, [BoardNext]_boardVars PROVE BooksInv' OBVIOUS
<1>1. CASE UNCHANGED <<day, results, onTime, payout, prizes, flags>>
  BY <1>1 DEF BooksInv, ResultTypes, RowsAreWhole, PrizesOnce, FlagMeansPaid, Attempted
<1>2. ASSUME NEW u \in Entrants, NEW d \in 1 .. BoardDays, NEW s \in 1 .. TopScore, StoreAttempt(u, d, s)
      PROVE  BooksInv'
  <2>1. ResultTypes /\ UNCHANGED <<day, payout, prizes, flags>> BY <1>2 DEF BooksInv, StoreAttempt
  <2>2. ResultTypes' BY <1>2, <2>1, AttemptsGrow
  <2>3. \A e \in 1 .. BoardDays : \A v \in Entrants : v \in Attempted(e) => v \in Attempted(e)'
    BY <1>2, <2>1, AttemptsGrow
  <2>4. onTime' = IF d = day THEN [onTime EXCEPT ![d] = @ \cup {u}] ELSE onTime BY <1>2 DEF StoreAttempt
  <2>5. u \in Attempted(d)'
    <3>1. results' = [results EXCEPT ![d][u] = [tries |-> @.tries + 1, best |-> IF s > @.best THEN s ELSE @.best]]
      BY <1>2 DEF StoreAttempt
    <3>2. results[d][u] \in [tries : Nat, best : Nat] BY <2>1 DEF ResultTypes
    <3>3. results'[d][u].tries = results[d][u].tries + 1 BY <2>1, <3>1 DEF ResultTypes
    <3> QED BY <3>2, <3>3 DEF Attempted
  <2>6. onTime \in [1 .. BoardDays -> SUBSET Entrants] /\ \A e \in 1 .. BoardDays : onTime[e] \subseteq Attempted(e)
    BY DEF BooksInv
  <2>7. onTime' \in [1 .. BoardDays -> SUBSET Entrants] BY <2>4, <2>6
  <2>8. \A e \in 1 .. BoardDays : \A v \in onTime'[e] : v \in onTime[e] \/ (e = d /\ v = u)
    BY <2>4, <2>6
  <2>9. \A e \in 1 .. BoardDays : onTime'[e] \subseteq Attempted(e)' BY <2>3, <2>5, <2>6, <2>8
  <2>10. \A e \in 1 .. BoardDays : e # day => onTime'[e] = onTime[e] BY <2>4, <2>6
  <2>11. RowsAreWhole'
    <3>1. payout.pc = "pay" => payout.day \in 1 .. BoardDays /\ payout.day # day
      BY <2>1 DEF BooksInv, RowsAreWhole, ResultTypes
    <3> QED BY <2>1, <2>10, <3>1 DEF BooksInv, RowsAreWhole
  <2>12. PrizesOnce' BY <2>1 DEF BooksInv, PrizesOnce
  <2>13. FlagMeansPaid'
    <3>1. \A e \in flags : e \in 1 .. BoardDays /\ e # day BY <2>1 DEF BooksInv, ResultTypes
    <3> QED BY <2>1, <2>10, <3>1 DEF BooksInv, FlagMeansPaid
  <2>14. flags' \subseteq 1 .. BoardDays /\ \A e \in flags' : e < day' BY <2>1 DEF BooksInv
  <2> QED BY <2>2, <2>7, <2>9, <2>11, <2>12, <2>13, <2>14 DEF BooksInv
<1>3. CASE StartPayout
  <2> PICK d : d = day - 1 OBVIOUS
  <2>1. /\ day > 1 /\ payout' = [pc |-> "pay", day |-> d, rows |-> GetDailyLeaderboard(d)]
        /\ UNCHANGED <<day, results, onTime, prizes, flags>>
    BY <1>3 DEF StartPayout
  <2>2. d \in 1 .. BoardDays /\ d < day BY <2>1, BoardAssumption DEF BooksInv, ResultTypes
  <2>3. \A r, s \in GetDailyLeaderboard(d) : r.user = s.user => r = s BY DEF GetDailyLeaderboard
  <2>4. \A u \in onTime[d] : \E r \in GetDailyLeaderboard(d) : r.user = u
    <3> SUFFICES ASSUME NEW u \in onTime[d] PROVE \E r \in GetDailyLeaderboard(d) : r.user = u OBVIOUS
    <3>1. u \in Attempted(d) BY <2>2 DEF BooksInv
    <3> PICK r : r = [user |-> u, rank |-> GetUserRank(d, u), score |-> Best(d, u)] OBVIOUS
    <3>2. r \in GetDailyLeaderboard(d) BY <3>1 DEF GetDailyLeaderboard
    <3> QED BY <3>2
  <2>5. RowsAreWhole' BY <2>1, <2>2, <2>3, <2>4 DEF RowsAreWhole
  <2> QED BY <2>1, <2>5 DEF BooksInv, ResultTypes, PrizesOnce, FlagMeansPaid, Attempted
<1>4. CASE PayAwards BY <1>4, PayAwardsKeeps
<1>5. CASE MidnightPasses
  <2>1. day' = day + 1 /\ day < BoardDays /\ UNCHANGED <<results, onTime, payout, prizes, flags>>
    BY <1>5 DEF MidnightPasses
  <2>2. ResultTypes' BY <2>1, BoardAssumption DEF BooksInv, ResultTypes
  <2>3. RowsAreWhole' BY <2>1 DEF BooksInv, ResultTypes, RowsAreWhole
  <2>4. flags' \subseteq 1 .. BoardDays /\ \A e \in flags' : e < day'
    <3>1. flags \subseteq 1 .. BoardDays /\ \A e \in flags : e < day BY DEF BooksInv
    <3> QED BY <2>1, <3>1 DEF BooksInv, ResultTypes
  <2>5. PrizesOnce' /\ FlagMeansPaid' BY <2>1 DEF BooksInv, PrizesOnce, FlagMeansPaid
  <2>6. \A d \in 1 .. BoardDays : onTime'[d] \subseteq Attempted(d)' BY <2>1 DEF BooksInv, Attempted
  <2> QED BY <2>1, <2>2, <2>3, <2>4, <2>5, <2>6 DEF BooksInv
<1>6. \/ UNCHANGED <<day, results, onTime, payout, prizes, flags>>
      \/ \E u \in Entrants : \E d \in 1 .. BoardDays : \E s \in 1 .. TopScore : StoreAttempt(u, d, s)
      \/ StartPayout \/ PayAwards \/ MidnightPasses
  BY DEF BoardNext, boardVars, OpenPage, OpenRanking, PageAttempts, PageRank, RankingRank
<1> QED BY <1>1, <1>2, <1>3, <1>4, <1>5, <1>6

\* The payout of a finished day (service/daily.go RunDailyPayout): repeated and partly
\* failing passes pay each prize once, and a day is flagged only when everybody who
\* finished in time has the completion prize, for any players and days.
THEOREM BooksAlwaysRight == BoardSpec => BooksStayRight
<1>1. BoardInit => BooksInv
  <2> SUFFICES ASSUME BoardInit PROVE BooksInv OBVIOUS
  <2>1. ResultTypes BY BoardAssumption DEF BoardInit, ResultTypes
  <2> QED BY <2>1 DEF BoardInit, BooksInv, RowsAreWhole, PrizesOnce, FlagMeansPaid, Quiet
<1>2. BooksInv /\ [BoardNext]_boardVars => [PrizesOnce' /\ FlagMeansPaid']_boardVars
  <2>1. BooksInv' => PrizesOnce' /\ FlagMeansPaid' BY DEF BooksInv
  <2> QED BY <2>1, BooksStep
<1> QED BY <1>1, <1>2, BooksStep, PTL DEF BoardSpec, BooksStayRight

-----------------------------------------------------------------------------
(* The weekly and the all-time board                                       *)

\* ListedIsRanked alone is not inductive: the players of a page half read must keep the
\* totals that brought them there, and totals only grow.
PageIsSound ==
  page.pc \in {"entries", "shown"} /\ page.kind = "alltime" =>
    /\ page.user \in Rivals
    /\ \A i \in DOMAIN page.entries : page.entries[i] \in Rivals /\ lifetime[page.entries[i]] > 0

BoardsInv == lifetime \in [Rivals -> Nat] /\ PageIsSound /\ BoardsAgree

-----------------------------------------------------------------------------
\* What is cut off a ranking lists players of the set only.
LEMMA RankingLists ==
  ASSUME NEW users, IsFiniteSet(users), NEW score, NEW s \in Ranking(users, score), NEW n \in Nat
  PROVE  \A i \in DOMAIN Upto(s, n) : Upto(s, n)[i] \in users
<1> PICK c \in Nat : c = Cardinality(users) BY FS_CardinalityType
<1>1. s \in [1 .. c -> users] BY DEF Ranking
<1>2. s \in Seq(users) /\ Len(s) = c BY <1>1
<1> PICK m : m = IF n < Len(s) THEN n ELSE Len(s) OBVIOUS
<1>3. m \in 0 .. c BY <1>2
<1>4. Upto(s, n) = SubSeq(s, 1, m) BY DEF Upto
<1>5. DOMAIN SubSeq(s, 1, m) = 1 .. m /\ \A i \in 1 .. m : SubSeq(s, 1, m)[i] = s[i]
  BY <1>2, <1>3
<1> QED BY <1>1, <1>3, <1>4, <1>5

LEMMA AllTimeLists ==
  ASSUME lifetime \in [Rivals -> Nat], NEW s \in GetAllTimeTop(TopRanks)
  PROVE  \A i \in DOMAIN s : s[i] \in Rivals /\ lifetime[s[i]] > 0
<1>1. IsFiniteSet(AllTimeRows) BY WeeklyAssumption, FS_Subset DEF AllTimeRows
<1>2. PICK ranking \in Ranking(AllTimeRows, lifetime) : s = Upto(ranking, TopRanks) BY DEF GetAllTimeTop
<1>3. \A i \in DOMAIN s : s[i] \in AllTimeRows BY <1>1, <1>2, RankingLists, WeeklyAssumption
<1> QED BY <1>3 DEF AllTimeRows

LEMMA AllTimeRankOf ==
  ASSUME lifetime \in [Rivals -> Nat], NEW u \in Rivals, lifetime[u] > 0
  PROVE  GetAllTimeRank(u) > 0
<1> PICK above : above = {v \in Rivals \ shut : lifetime[v] > lifetime[u]} OBVIOUS
<1>1. IsFiniteSet(above) BY WeeklyAssumption, FS_Subset
<1>2. Cardinality(above) \in Nat BY <1>1, FS_CardinalityType
<1>3. GetAllTimeRank(u) = 1 + Cardinality(above) BY DEF GetAllTimeRank
<1> QED BY <1>2, <1>3

LEMMA BoardsStep == BoardsInv /\ [WeekNext]_weekVars => BoardsInv'
<1> SUFFICES ASSUME BoardsInv, [WeekNext]_weekVars PROVE BoardsInv' OBVIOUS
<1> USE DEF BoardsInv, BoardsAgree
<1>1. CASE UNCHANGED <<lifetime, page, recorded, inboxed>>
  BY <1>1 DEF PageIsSound, PrizeMatchesRecord, ListedIsRanked
<1>2. ASSUME NEW u \in Rivals, AddTotalScore(u) PROVE BoardsInv'
  <2>1. /\ lifetime' \in [Rivals -> Nat] /\ \A v \in Rivals : lifetime[v] > 0 => lifetime'[v] > 0
        /\ UNCHANGED <<page, recorded, inboxed>>
    BY <1>2 DEF AddTotalScore
  <2>2. PageIsSound' BY <2>1 DEF PageIsSound
  <2> QED BY <2>1, <2>2 DEF PrizeMatchesRecord, ListedIsRanked
<1>3. ASSUME NEW u \in Rivals, NEW kind \in {"global", "friends", "alltime"}, OpenBoard(u, kind)
      PROVE  BoardsInv'
  <2>1. UNCHANGED <<lifetime, recorded, inboxed>> BY <1>3 DEF OpenBoard
  <2>2. \E s : /\ page' = [pc |-> "entries", user |-> u, kind |-> kind, entries |-> s]
               /\ kind = "alltime" => s \in GetAllTimeTop(TopRanks)
    BY <1>3 DEF OpenBoard
  <2>3. PageIsSound' BY <2>1, <2>2, AllTimeLists DEF PageIsSound
  <2> QED BY <2>1, <2>2, <2>3 DEF PrizeMatchesRecord, ListedIsRanked
<1>4. CASE FinishBoard
  <2> PICK p : p = page OBVIOUS
  <2> PICK rank : rank = IF p.kind = "alltime" THEN GetAllTimeRank(p.user) ELSE GetPlayerRank(p.user) OBVIOUS
  <2>1. /\ p.pc = "entries" /\ UNCHANGED <<lifetime, recorded, inboxed>>
        /\ page' = [pc |-> "shown", user |-> p.user, kind |-> p.kind, entries |-> p.entries, rank |-> rank]
    BY <1>4 DEF FinishBoard
  <2>2. PageIsSound' BY <2>1 DEF PageIsSound
  <2>3. p.kind = "alltime" /\ (\E i \in DOMAIN p.entries : p.entries[i] = p.user) => rank > 0
    BY <2>1, AllTimeRankOf DEF PageIsSound
  <2> QED BY <2>1, <2>2, <2>3 DEF PrizeMatchesRecord, ListedIsRanked
<1>5. CASE RewardNext
  <2> PICK r : r = [week |-> reset.week, user |-> reset.top[reset.at], rank |-> reset.at] OBVIOUS
  <2>1. RewardRank(r) /\ UNCHANGED <<lifetime, page>> BY <1>5 DEF RewardNext
  <2>2. inboxed' \subseteq recorded'
    BY <2>1 DEF RewardRank, InsertWeeklyReward, CreateWeeklyReward, PrizeMatchesRecord
  <2> QED BY <2>1, <2>2 DEF PageIsSound, PrizeMatchesRecord, ListedIsRanked
<1>6. \/ UNCHANGED <<lifetime, page, recorded, inboxed>>
      \/ \E u \in Rivals : \/ AddTotalScore(u)
                           \/ \E kind \in {"global", "friends", "alltime"} : OpenBoard(u, kind)
      \/ FinishBoard \/ RewardNext
  BY DEF WeekNext, weekVars, AddScore, SetBan, StartReset, ClearBoard, ResetStops, NextWeek
<1> QED BY <1>1, <1>2, <1>3, <1>4, <1>5, <1>6

\* The two boards (service/leaderboard.go): a weekly prize in an inbox is the one on
\* record, however the reset is repeated and fails, and a page of the all-time board
\* gives a rank to a caller it lists, for any players, bans and scores.
THEOREM BoardsAlwaysAgree == WeekSpec => []BoardsAgree
<1>1. WeekInit => BoardsInv
  BY DEF WeekInit, BoardsInv, BoardsAgree, PageIsSound, PrizeMatchesRecord, ListedIsRanked, Resting
<1>2. BoardsInv => BoardsAgree BY DEF BoardsInv
<1> QED BY <1>1, <1>2, BoardsStep, PTL DEF WeekSpec

-----------------------------------------------------------------------------
(* Analytics                                                               *)

\* Days and slots
LEMMA DayBounds ==
  ASSUME NEW t \in Nat
  PROVE  /\ DayOf(t) \in Nat
         /\ SlotsPerDay * DayOf(t) <= t /\ t < SlotsPerDay * (DayOf(t) + 1)
BY SkewAssumption DEF DayOf

LEMMA DaysInOrder ==
  ASSUME NEW s \in Nat, NEW t \in Nat, s <= t
  PROVE  DayOf(s) <= DayOf(t)
<1> PICK p \in Nat : p = DayOf(s) BY DayBounds
<1> PICK q \in Nat : q = DayOf(t) BY DayBounds
<1>1. SlotsPerDay * p <= s /\ t < SlotsPerDay * (q + 1) BY DayBounds
<1>2. SlotsPerDay * p < SlotsPerDay * (q + 1) BY <1>1, SkewAssumption
<1>3. p < q + 1 BY <1>2, SkewAssumption
<1> QED BY <1>3

\* An event that may still arrive is not as old as the last day of a pass.
LEMMA EventIsRecent ==
  ASSUME NEW now \in Nat, NEW t \in Nat, t >= now - PastSkew
  PROVE  DayOf(t) > DayOf(now) - Lookback
<1> PICK p \in Nat : p = DayOf(t) BY DayBounds
<1> PICK q \in Nat : q = DayOf(now) BY DayBounds
<1> PICK n \in Nat : n = PastSkew \div SlotsPerDay BY SkewAssumption
<1>1. PastSkew = SlotsPerDay * n BY SkewAssumption
<1>2. t < SlotsPerDay * (p + 1) /\ SlotsPerDay * q <= now BY DayBounds
<1>3. SlotsPerDay * q < SlotsPerDay * (p + 1) + SlotsPerDay * n BY <1>1, <1>2, SkewAssumption
<1>4. SlotsPerDay * q < SlotsPerDay * (p + 1 + n) BY <1>3, SkewAssumption
<1>5. q < p + 1 + n BY <1>4, SkewAssumption
<1> QED BY <1>5, SkewAssumption

\* What a pass still has to do
Todos == {<<"recent", "lookback", "flag">>, <<"lookback", "flag">>, <<"flag">>, <<"end">>}

Whole(d) == d >= Lookback => Stored(d - Lookback) \ overtaken \subseteq rolled[d - Lookback]

\* A batch in flight was checked before, and was no older then than an event may be.
BatchIsClamped(b) ==
  /\ b.event \in Events /\ b.ts \in Nat /\ b.checked \in Nat
  /\ b.checked <= clock /\ b.ts >= b.checked - PastSkew

PassIsSound(p) ==
  /\ p \in [day : Nat, todo : Todos] /\ p.day <= DayOf(clock)
  /\ p.todo = <<"flag">> => Whole(p.day)

ClockTypes ==
  /\ clock \in Nat /\ clock <= Horizon
  /\ tickAt \in Int /\ tickAt <= clock
  /\ job = NoJob \/ (job.slot \in Nat /\ job.slot <= clock /\ job = [slot |-> job.slot, todo |-> job.todo])
  /\ tickAt >= -1

\* RollupsAreComplete is not inductive: it needs that a pass about to set its flag has
\* the complete rollup, that passes belong to days that have begun, and that the batches
\* in flight were clamped when they were checked.
AnalyticsInv ==
  /\ ClockTypes
  /\ passes = {} \/ (\E p : passes = {p} /\ PassIsSound(p))
  /\ \A d \in passFlags : d \in Nat /\ d <= DayOf(clock)
  /\ \A b \in batches : BatchIsClamped(b)
  /\ raw \subseteq Events \X Nat
  /\ install.first \in Int /\ install.last \in Int
  /\ install.first = -1 => raw = {}
  /\ RollupsAreComplete /\ InstallSpansEvents

-----------------------------------------------------------------------------
\* The server's clock and its jobs
LEMMA ClockStep ==
  ASSUME ClockTypes, [SchedNext]_schedVars
  PROVE  ClockTypes' /\ clock' >= clock
<1> USE DEF ClockTypes
<1>1. CASE UNCHANGED <<clock, tickAt, job>> BY <1>1
<1>2. CASE ClockTicks BY <1>2, SkewAssumption DEF ClockTicks
<1>3. CASE StopOrStart BY <1>3 DEF StopOrStart
<1>4. CASE TickerFires BY <1>4 DEF TickerFires
<1>5. CASE Tick BY <1>5 DEF Tick
<1>6. CASE JobDone /\ UNCHANGED <<clock, tickAt>> /\ job.todo # <<>>
  <2>1. CASE job' = NoJob BY <1>6, <2>1
  <2>2. CASE job' = [job EXCEPT !.todo = Tail(@)]
    <3>1. job # NoJob BY <1>6 DEF NoJob
    <3>2. job'.slot = job.slot /\ job' = [slot |-> job.slot, todo |-> job'.todo] BY <2>2, <3>1
    <3> QED BY <1>6, <3>1, <3>2
  <2> QED BY <1>6, <2>1, <2>2 DEF JobDone
<1>7. \/ UNCHANGED <<clock, tickAt, job>>
      \/ ClockTicks \/ StopOrStart \/ TickerFires \/ Tick
      \/ JobDone /\ UNCHANGED <<clock, tickAt>> /\ job.todo # <<>>
  BY DEF SchedNext, schedVars, RunAnalytics, EnsureDaily, Doing, RefreshRecent, RunDailyPass, FlagPass,
         EndPass, Ingest, InsertAnalyticsEvents, InsertFails
<1> QED BY <1>1, <1>2, <1>3, <1>4, <1>5, <1>6, <1>7

\* While no event comes and no rollup is rebuilt
LEMMA RollupsStay ==
  ASSUME UNCHANGED <<raw, overtaken, rolled>>, NEW d
  PROVE  Whole(d)' <=> Whole(d)
BY DEF Whole, Stored

\* A rebuilt rollup is whole, the others are what they were.
LEMMA RollupsRebuilt ==
  ASSUME NEW ds, RollupDays(ds), UNCHANGED <<raw, overtaken>>, NEW d \in Nat, d <= DayOf(Horizon),
         Whole(d) \/ d - Lookback \in ds
  PROVE  Whole(d)'
<1> SUFFICES ASSUME d >= Lookback PROVE Stored(d - Lookback)' \ overtaken' \subseteq rolled'[d - Lookback]
  BY DEF Whole
<1>1. Lookback \in Nat BY SkewAssumption
<1>2. DayOf(Horizon) \in Nat BY SkewAssumption, DayBounds
<1>3. d - Lookback \in AllDays BY <1>1, <1>2 DEF AllDays
<1>4. Stored(d - Lookback)' = Stored(d - Lookback) BY DEF Stored
<1>5. rolled'[d - Lookback] = IF d - Lookback \in ds THEN Stored(d - Lookback) ELSE rolled[d - Lookback]
  BY <1>3 DEF RollupDays
<1> QED BY <1>4, <1>5 DEF Whole

\* An event that lands in a day that a pass is done with was overtaken by midnight.
LEMMA EventsComeInTime ==
  ASSUME AnalyticsInv, NEW b \in batches, InsertAnalyticsEvents(b), NEW d \in Nat, d <= DayOf(clock), Whole(d)
  PROVE  Whole(d)'
<1>1. /\ b.event \in Events /\ b.ts \in Nat /\ b.checked \in Nat
      /\ b.checked <= clock /\ b.ts >= b.checked - PastSkew /\ clock \in Nat
  BY DEF AnalyticsInv, ClockTypes, BatchIsClamped
<1> PICK on : on = DayOf(b.ts) OBVIOUS
<1> PICK seen : seen = DayOf(b.checked) OBVIOUS
<1> PICK new : new = <<b.event, b.ts>> OBVIOUS
<1>2. /\ on \in Nat /\ seen \in Nat /\ DayOf(clock) \in Nat /\ Lookback \in Nat /\ seen < on + Lookback
  <2>1. on \in Nat /\ seen \in Nat /\ DayOf(clock) \in Nat BY <1>1, DayBounds
  <2>2. Lookback \in Nat BY SkewAssumption
  <2>3. on > seen - Lookback BY <1>1, EventIsRecent
  <2> QED BY ONLY <2>1, <2>2, <2>3
<1>3. raw' = raw \cup {new} /\ rolled' = rolled /\ overtaken' = overtaken \cup Overtaken(b)
  BY DEF InsertAnalyticsEvents
<1>4. new[2] = b.ts OBVIOUS
<1>5. ASSUME d >= Lookback, NEW r \in Stored(d - Lookback)', r \notin overtaken' PROVE r \in rolled'[d - Lookback]
  <2>1. r \in raw' /\ DayOf(r[2]) = d - Lookback BY <1>5 DEF Stored, DayOf
  <2>2. CASE r \in raw
    <3>1. r \in Stored(d - Lookback) \ overtaken BY <1>3, <1>5, <2>1, <2>2 DEF Stored
    <3> QED BY <1>3, <1>5, <3>1 DEF Whole
  <2>3. CASE r \notin raw
    <3>1. r = new /\ on = d - Lookback BY <1>3, <1>4, <2>1, <2>3
    <3>2. seen < on + Lookback /\ on + Lookback <= DayOf(clock) BY <1>2, <3>1
    <3>3. r \in Overtaken(b) BY <2>3, <3>1, <3>2 DEF Overtaken, ClosedOn
    <3> QED BY <1>3, <1>5, <3>3
  <2> QED BY <2>2, <2>3
<1> QED BY <1>5 DEF Whole

\* An install row that spans what was stored spans the new event as well.
LEMMA InstallWidens ==
  ASSUME AnalyticsInv, NEW e \in Events, NEW t \in Nat,
         raw' = raw \cup {<<e, t>>}, install' = SeenOn(DayOf(t))
  PROVE  /\ raw' \subseteq Events \X Nat
         /\ install'.first \in Int /\ install'.last \in Int
         /\ install'.first # -1 \/ raw' = {}
         /\ InstallSpansEvents'
<1> PICK on : on = DayOf(t) OBVIOUS
<1>1. on \in Nat BY DayBounds
<1>2. raw' = raw \cup {<<e, t>>} /\ install' = SeenOn(on) OBVIOUS
<1>3. install.first \in Int /\ install.last \in Int /\ (install.first = -1 => raw = {}) BY DEF AnalyticsInv
<1>4. \A r \in raw : install.first <= DayOf(r[2]) /\ DayOf(r[2]) <= install.last /\ DayOf(r[2]) \in Nat
  BY DayBounds DEF AnalyticsInv, InstallSpansEvents
<1>5. /\ install'.first \in Int /\ install'.last \in Int /\ install'.first <= on /\ on <= install'.last
      /\ install.first # -1 => install'.first <= install.first /\ install.last <= install'.last
      /\ install'.first = on \/ (install.first # -1 /\ install'.first = install.first)
  BY <1>1, <1>2, <1>3 DEF SeenOn
<1>6. InstallSpansEvents'
  <2> SUFFICES ASSUME NEW r \in raw' PROVE install'.first <= DayOf(r[2]) /\ DayOf(r[2]) <= install'.last
    BY DEF InstallSpansEvents, DayOf
  <2>1. CASE r = <<e, t>>
    <3>1. DayOf(r[2]) = on BY <2>1
    <3> QED BY <1>5, <3>1
  <2>2. CASE r \in raw
    <3>1. install.first # -1 BY <1>3, <2>2
    <3> QED BY <1>3, <1>4, <1>5, <2>2, <3>1
  <2> QED BY <1>2, <2>1, <2>2
<1>7. install'.first # -1 BY <1>1, <1>3, <1>5
<1>8. raw' \subseteq Events \X Nat BY <1>2 DEF AnalyticsInv
<1> QED BY <1>3, <1>5, <1>6, <1>7, <1>8

LEMMA AnalyticsStep == AnalyticsInv /\ [SchedNext]_schedVars => AnalyticsInv'
<1> SUFFICES ASSUME AnalyticsInv, [SchedNext]_schedVars PROVE AnalyticsInv' OBVIOUS
<1>1. ClockTypes' /\ ClockTypes /\ clock' >= clock BY ClockStep DEF AnalyticsInv
<1>2. DayOf(clock) \in Nat /\ DayOf(clock') \in Nat /\ DayOf(clock) <= DayOf(clock')
      /\ DayOf(clock) <= DayOf(Horizon) /\ DayOf(Horizon) \in Nat
  BY <1>1, DayBounds, DaysInOrder, SkewAssumption DEF ClockTypes
<1>3. DayOf(clock)' = DayOf(clock') BY DEF DayOf
<1>4. RollupsAreComplete <=> \A d \in passFlags : Whole(d) BY DEF RollupsAreComplete, Whole
<1>5. RollupsAreComplete' <=> \A d \in passFlags' : Whole(d)' BY DEF RollupsAreComplete, Whole
<1>6. \A d \in passFlags : d \in Nat /\ d <= DayOf(clock) /\ Whole(d) BY <1>4 DEF AnalyticsInv
<1>7. ASSUME UNCHANGED <<raw, install>>, batches' \subseteq batches
      PROVE  /\ \A b \in batches' : BatchIsClamped(b)'
             /\ raw' \subseteq Events \X Nat /\ install'.first \in Int /\ install'.last \in Int
             /\ install'.first = -1 => raw' = {}
             /\ InstallSpansEvents'
  <2>1. \A b \in batches' : BatchIsClamped(b)' BY <1>1, <1>7 DEF AnalyticsInv, BatchIsClamped, ClockTypes
  <2> QED BY <1>7, <2>1 DEF AnalyticsInv, InstallSpansEvents, DayOf
<1>8. ASSUME NEW p, PassIsSound(p), Whole(p.day) => Whole(p.day)' PROVE PassIsSound(p)'
  <2>1. p.day \in Nat BY <1>8 DEF PassIsSound
  <2> QED BY <1>2, <1>3, <1>8, <2>1 DEF PassIsSound
<1>9. CASE /\ UNCHANGED <<passFlags, raw, install, overtaken, rolled>>
           /\ batches' \subseteq batches /\ (passes' = passes \/ passes' = {})
  <2>1. \A d : Whole(d)' <=> Whole(d) BY <1>9, RollupsStay
  <2>2. RollupsAreComplete' BY <1>5, <1>6, <1>9, <2>1
  <2>3. passes' = {} \/ (\E p : passes' = {p} /\ PassIsSound(p)') BY <1>8, <1>9, <2>1 DEF AnalyticsInv
  <2>4. \A d \in passFlags' : d \in Nat /\ d <= DayOf(clock)' BY <1>2, <1>3, <1>6, <1>9
  <2> QED BY <1>1, <1>7, <1>9, <2>2, <2>3, <2>4 DEF AnalyticsInv
<1>10. ASSUME NEW rollup \in BOOLEAN, RunAnalytics(rollup), passes' # passes PROVE AnalyticsInv'
  <2> PICK d : d = DayOf(job.slot) OBVIOUS
  <2> PICK p : p = [day |-> d, todo |-> IF rollup THEN <<"recent", "lookback", "flag">> ELSE <<"end">>] OBVIOUS
  <2>1. passes' = {p} /\ UNCHANGED <<clock, ingestVars, passFlags, rolled>> /\ job.todo # <<>>
    BY <1>10 DEF RunAnalytics, Doing
  <2>2. job.slot \in Nat /\ job.slot <= clock BY <1>1, <2>1 DEF ClockTypes, NoJob
  <2>3. d \in Nat /\ d <= DayOf(clock) BY <1>1, <2>2, DayBounds, DaysInOrder DEF ClockTypes
  <2>4. p.day = d /\ p.todo \in Todos /\ p.todo # <<"flag">> /\ p \in [day : Nat, todo : Todos]
    BY <2>3 DEF Todos
  <2>5. DayOf(clock)' = DayOf(clock) BY <2>1 DEF DayOf
  <2>6. PassIsSound(p)' BY <2>3, <2>4, <2>5 DEF PassIsSound
  <2>7. UNCHANGED <<batches, raw, install, overtaken>> BY <2>1 DEF ingestVars
  <2>8. RollupsAreComplete' BY <1>5, <1>6, <2>1, <2>7, RollupsStay
  <2>9. \A e \in passFlags' : e \in Nat /\ e <= DayOf(clock)' BY <1>6, <2>1, <2>5
  <2> QED BY <1>1, <1>7, <2>1, <2>6, <2>7, <2>8, <2>9 DEF AnalyticsInv
<1>11. ASSUME NEW p \in passes, RefreshRecent(p) \/ RunDailyPass(p) \/ FlagPass(p) \/ EndPass(p)
       PROVE  AnalyticsInv'
  <2> PICK todo : todo = p.todo OBVIOUS
  <2> PICK on : on = p.day OBVIOUS
  <2>1. passes = {p} /\ PassIsSound(p) BY DEF AnalyticsInv
  <2>2. p \in [day : Nat, todo : Todos] /\ on \in Nat /\ on <= DayOf(clock)
    BY <2>1 DEF PassIsSound
  <2>3. UNCHANGED <<clock, batches, raw, install, overtaken>>
    BY <1>11 DEF RefreshRecent, RunDailyPass, FlagPass, EndPass, ingestVars
  <2>4. DayOf(clock)' = DayOf(clock) BY <2>3 DEF DayOf
  <2>5. ASSUME NEW rest, PassStep(p, rest), rest = <<>> \/ rest \in Todos,
               rest = <<"flag">> => Whole(on)'
        PROVE  passes' = {} \/ (\E q : passes' = {q} /\ PassIsSound(q)')
    <3>1. CASE rest = <<>> BY <2>1, <2>5, <3>1 DEF PassStep
    <3>2. CASE rest # <<>>
      <4> PICK q : q = [p EXCEPT !.todo = rest] OBVIOUS
      <4>1. passes' = {q} BY <2>1, <2>5, <3>2 DEF PassStep
      <4>2. q \in [day : Nat, todo : Todos] /\ q.day = on /\ q.todo = rest BY <2>2, <2>5, <3>2
      <4>3. PassIsSound(q)' BY <2>2, <2>4, <2>5, <4>2 DEF PassIsSound
      <4> QED BY <4>1, <4>3
    <3> QED BY <3>1, <3>2
  <2>6. \A d \in passFlags : d <= DayOf(Horizon) BY <1>2, <1>6
  <2>7. CASE UNCHANGED <<passFlags, rolled>> /\ PassStep(p, <<>>)
    <3>1. RollupsAreComplete' BY <1>5, <1>6, <2>3, <2>7, RollupsStay
    <3>2. passes' = {} \/ (\E q : passes' = {q} /\ PassIsSound(q)') BY <2>5, <2>7
    <3> QED BY <1>1, <1>6, <1>7, <2>3, <2>4, <2>7, <3>1, <3>2 DEF AnalyticsInv
  <2>8. CASE RefreshRecent(p)
    <3>1. todo = <<"recent", "lookback", "flag">> /\ PassStep(p, Tail(todo)) /\ passFlags' = passFlags
          /\ RollupDays({on - 1, on})
      BY <2>2, <2>8 DEF RefreshRecent, Todos
    <3>2. Tail(todo) = <<"lookback", "flag">> BY <3>1
    <3>3. passes' = {} \/ (\E q : passes' = {q} /\ PassIsSound(q)') BY <2>5, <3>1, <3>2 DEF Todos
    <3>4. RollupsAreComplete' BY <1>5, <1>6, <2>3, <2>6, <3>1, RollupsRebuilt
    <3> QED BY <1>1, <1>6, <1>7, <2>3, <2>4, <3>1, <3>3, <3>4 DEF AnalyticsInv
  <2>9. CASE RunDailyPass(p) /\ on \notin passFlags
    <3>1. todo = <<"lookback", "flag">> /\ PassStep(p, Tail(todo)) /\ passFlags' = passFlags
          /\ RollupDays(on - Lookback .. on - 1)
      BY <2>2, <2>9 DEF RunDailyPass, Todos
    <3>2. Tail(todo) = <<"flag">> BY <3>1
    <3>3. Lookback \in Nat /\ Lookback >= 1 BY SkewAssumption
    <3>4. on - Lookback \in on - Lookback .. on - 1 BY <2>2, <3>3
    <3>5. Whole(on)' BY <1>2, <2>2, <2>3, <3>1, <3>4, RollupsRebuilt
    <3>6. passes' = {} \/ (\E q : passes' = {q} /\ PassIsSound(q)') BY <2>5, <3>1, <3>2, <3>5 DEF Todos
    <3>7. RollupsAreComplete' BY <1>5, <1>6, <2>3, <2>6, <3>1, RollupsRebuilt
    <3> QED BY <1>1, <1>6, <1>7, <2>3, <2>4, <3>1, <3>6, <3>7 DEF AnalyticsInv
  <2>10. CASE RunDailyPass(p) /\ on \in passFlags BY <2>7, <2>10 DEF RunDailyPass
  <2>11. CASE FlagPass(p)
    <3>1. todo = <<"flag">> /\ PassStep(p, <<>>) /\ rolled' = rolled /\ passFlags' \subseteq passFlags \cup {on}
      BY <2>2, <2>11 DEF FlagPass, Todos
    <3>2. Whole(on) BY <2>1, <3>1 DEF PassIsSound
    <3>3. RollupsAreComplete' BY <1>5, <1>6, <2>3, <3>1, <3>2, RollupsStay
    <3>4. passes' = {} \/ (\E q : passes' = {q} /\ PassIsSound(q)') BY <2>5, <3>1
    <3>5. \A d \in passFlags' : d \in Nat /\ d <= DayOf(clock)' BY <1>6, <2>2, <2>4, <3>1
    <3> QED BY <1>1, <1>7, <2>3, <3>3, <3>4, <3>5 DEF AnalyticsInv
  <2>12. CASE EndPass(p) BY <2>7, <2>12 DEF EndPass
  <2> QED BY <1>11, <2>8, <2>9, <2>10, <2>11, <2>12
<1>12. ASSUME NEW e \in Events, NEW ts \in Slots, Ingest(e, ts) PROVE AnalyticsInv'
  <2> PICK b : b = [event |-> e, ts |-> ClampTime(ts), checked |-> clock] OBVIOUS
  <2>1. batches' = batches \cup {b} /\ UNCHANGED <<clock, raw, install, overtaken, passes, passFlags, rolled>>
    BY <1>12 DEF Ingest
  <2>2. /\ b.event = e /\ b.ts \in Nat /\ b.checked = clock /\ b.ts >= clock - PastSkew
    BY <1>1, SkewAssumption DEF ClampTime, ClockTypes, Slots
  <2>3. BatchIsClamped(b)' BY <1>1, <2>1, <2>2 DEF BatchIsClamped, ClockTypes
  <2>4. \A q \in batches : BatchIsClamped(q)' BY <2>1 DEF AnalyticsInv, BatchIsClamped
  <2>5. \A d : Whole(d)' <=> Whole(d) BY <2>1, RollupsStay
  <2>6. RollupsAreComplete' BY <1>5, <1>6, <2>1, <2>5
  <2>7. passes' = {} \/ (\E p : passes' = {p} /\ PassIsSound(p)') BY <1>8, <2>1, <2>5 DEF AnalyticsInv
  <2>8. DayOf(clock)' = DayOf(clock) BY <2>1 DEF DayOf
  <2>9. InstallSpansEvents' BY <2>1 DEF AnalyticsInv, InstallSpansEvents, DayOf
  <2> QED BY <1>1, <1>6, <2>1, <2>3, <2>4, <2>6, <2>7, <2>8, <2>9 DEF AnalyticsInv
<1>13. ASSUME NEW b \in batches, InsertAnalyticsEvents(b) PROVE AnalyticsInv'
  <2>1. batches' \subseteq batches /\ UNCHANGED <<clock, passes, passFlags, rolled>>
    BY <1>13 DEF InsertAnalyticsEvents
  <2>2. b.event \in Events /\ b.ts \in Nat BY DEF AnalyticsInv, BatchIsClamped
  <2>3. \A d \in Nat : d <= DayOf(clock) /\ Whole(d) => Whole(d)' BY <1>13, EventsComeInTime
  <2>4. RollupsAreComplete' BY <1>5, <1>6, <2>1, <2>3
  <2>5. \A p : PassIsSound(p) => p.day \in Nat /\ p.day <= DayOf(clock) BY DEF PassIsSound
  <2>6. passes' = {} \/ (\E p : passes' = {p} /\ PassIsSound(p)')
    BY <1>8, <2>1, <2>3, <2>5 DEF AnalyticsInv
  <2>7. DayOf(clock)' = DayOf(clock) BY <2>1 DEF DayOf
  <2>8. /\ raw' \subseteq Events \X Nat
        /\ install'.first \in Int /\ install'.last \in Int
        /\ install'.first # -1 \/ raw' = {}
        /\ InstallSpansEvents'
    BY <1>13, <2>2, InstallWidens DEF InsertAnalyticsEvents
  <2>9. \A d \in passFlags' : d \in Nat /\ d <= DayOf(clock)' BY <1>6, <2>1, <2>7
  <2>10. \A q \in batches' : BatchIsClamped(q)' BY <2>1 DEF AnalyticsInv, BatchIsClamped
  <2> QED BY <1>1, <2>4, <2>6, <2>8, <2>9, <2>10 DEF AnalyticsInv
<1>14. \/ /\ UNCHANGED <<passFlags, raw, install, overtaken, rolled>>
          /\ batches' \subseteq batches /\ (passes' = passes \/ passes' = {})
       \/ \E rollup \in BOOLEAN : RunAnalytics(rollup) /\ passes' # passes
       \/ \E p \in passes : RefreshRecent(p) \/ RunDailyPass(p) \/ FlagPass(p) \/ EndPass(p)
       \/ \E e \in Events : \E ts \in Slots : Ingest(e, ts)
       \/ \E b \in batches : InsertAnalyticsEvents(b)
  BY DEF SchedNext, schedVars, ingestVars, ClockTicks, StopOrStart, TickerFires, Tick, RunAnalytics,
         EnsureDaily, InsertFails
<1> QED BY <1>9, <1>10, <1>11, <1>12, <1>13, <1>14

\* The analytics (scheduler/scheduler.go runAnalytics, service/analytics.go): passes do
\* not overlap, a day whose last pass is done misses no event however late its device
\* comes online, but for one whose batch that midnight overtook between its check and its
\* INSERT, and the install row spans every event, for any day length and skews.
THEOREM AnalyticsAlwaysWhole == SchedSpec => []AnalyticsAreWhole
<1>1. SchedInit => AnalyticsInv
  <2> SUFFICES ASSUME SchedInit PROVE AnalyticsInv OBVIOUS
  <2>1. clock = 0 /\ tickAt = -1 /\ job = NoJob BY DEF SchedInit
  <2>2. ClockTypes BY <2>1, SkewAssumption DEF ClockTypes
  <2> QED BY <2>2 DEF SchedInit, AnalyticsInv, RollupsAreComplete, InstallSpansEvents
<1>2. AnalyticsInv => AnalyticsAreWhole
  <2>1. Cardinality({}) <= 1 BY FS_EmptySet
  <2>2. ASSUME NEW p PROVE Cardinality({p}) <= 1
    <3>1. Cardinality({p}) = 1 BY FS_Singleton
    <3> QED BY <3>1
  <2> QED BY <2>1, <2>2 DEF AnalyticsInv, AnalyticsAreWhole, OnePass
<1> QED BY <1>1, <1>2, AnalyticsStep, PTL DEF SchedSpec
=============================================================================
