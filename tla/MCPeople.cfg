SPECIFICATION PeopleSpec
CONSTANTS
  Accounts = {u1, r1}
  u1 = u1
  r1 = r1
  NoAccount = NoAccount
  Inviters = {r1}
  AuthCalls = {k1, k2}
  OTPMaxAttempts = 2
  OTPMaxSendsPerDay = 1
  CoinWelcome = 1
  CoinReferralSignup = 1
  CoinReferralRedeem = 1
  CoinReferralInviter = 1
  CoinDailyLogin = 1
  MaxCodes = 2
  MaxGuesses = 4
  LoginDays = 2
  People = {f1, f2, f3}
  Admins = {a1, a2}
  a1 = a1
  Owner = a1
  Tokens = {t1, t2}
  NoToken = NoToken
  Logins = {l1}
  Requests = {q1}
  IdleTTL = 2
  AbsTTL = 3
  LoginWindow = 1
  MaxFails = 1
  MaxPasswords = 2
  Players = {w1, w2}
  w1 = w1
  w2 = w2
  NoPlayer = NoPlayer
  Receipts = {packReceipt, passReceipt}
  packReceipt = packReceipt
  ProductKind <- MCKind
  Payload <- MCPayload
  BoughtOn <- MCBought
  PackCoins = 2
  PowerupPrice = 1
  CoinRewardedAd = 1
  PremiumPeriod = 1
  PremiumReverifyWindow = 1
  StartCoins = 1
  StartItems = 1
  UseCalls = {k1, k2}
  MaxCoins = 2
  MaxUses = 2
  WalletDays = 2
  Editors = {e1, e2}
  e1 = e1
  e2 = e2
  RoleRank <- MCRank
  Verified = {w1}
  Names = {"na", "nb", "nc"}
  NameOf <- MCNames
  Deltas <- MCDeltas
  GiftCoins = 1
  GrantDays = 1
  MaxEdits = 2
INVARIANTS GuessesAreBounded ReferralsAreSound FriendsHaveAgreed PanelSessionsEnd WalletIsSound AuditIsTrue
CHECK_DEADLOCK FALSE
