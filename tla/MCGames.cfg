SPECIFICATION GamesSpec
CONSTANTS
  u1 = u1
  Info <- MCInfo
  Calls = {c1, c2}
  Milestones = {2}
  RetryCoins = 10
  LastDay = 2
  MaxUploads = 2
  MaxRetries = 2
  Entrants = {e1, e2}
  BoardDays = 2
  TopScore = 2
  MaxAttempts = 2
  RankPrizes = 2
  Rivals = {r1, r2}
  TopRanks = 2
  WeekCount = 2
  MaxPoints = 2
  MaxResets = 2
  Events = {v1}
  SlotsPerDay = 1
  Horizon = 2
  PastSkew = 1
  FutureSkew = 1
  Lookback = 2
  MaxSends = 2
  Persian = {a, b}
  Zwnj = z
  a = a
  b = b
  z = z
  Foreign = {x}
  x = x
  NoLetter = NoLetter
  Fa <- MCFa
  Vocabulary <- MCWords
  Typed <- MCTyped
  aiInvalidWord <- MCBad
  MinWordLength = 2
  SuggestPreferredLen = 3
  LongWordBonusMinLen = 3
  LongWordBonusMult = 2
  AIMinLength = 3
  TurnTimerClassicSec = 15
  DailyChainSafetyCap = 4
  dailyLetterMinWordLen = 2
  minWordsForDaily = 2
  Alef = a
  MaxOverrides = 1
INVARIANTS WordsFollowRules DailyIsFair ReadersAgree BoardsAgree AnalyticsAreWhole
PROPERTIES HonestRunsCount StreakIsHonest PayoutIsRight DayIsProvisioned
CHECK_DEADLOCK FALSE
