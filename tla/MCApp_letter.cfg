SPECIFICATION MCSpec
CONSTANTS
  Parts = {"letter"}
  Holders = {u1, u2}
  Requests = {q1, q2}
  MaxTokens = 4
  Matches <- MCMatches
  Loops = {l1, l2}
  MaxFaults = 2
  Orders = {o1, o2}
  Subscriptions = {o2}
  Buyers = {u1, u2}
  MaxDeaths = 2
  Letters = {la, lb}
  la = la
  NoLetter = NoLetter
  Generated <- MCGenerated
  LetterDays = 3
  FutureDays = 2
  Schedulers = {s1, s2}
PROPERTY LetterIsLocked
CHECK_DEADLOCK FALSE
