------------------------------- MODULE Accounts -------------------------------
(***************************************************************************)
(* Sign-in by one-time code, sign-up, referrals and the reward inbox       *)
(* (backend/internal/service/auth.go over repository/user.go, handler/     *)
(* auth.go and middleware/auth.go).  Every statement stands alone: a call  *)
(* decides on the row it read first, others write that row in between, and *)
(* any statement may fail, also because the caller hung up.                *)
(*                                                                         *)
(* A bare row without a code and no row at all are answered alike, so rows *)
(* exist from the start.  A code is the number of its SetOTP; 0 is a wrong *)
(* guess or no code, -1 the fixed code that counts while SMS is off.       *)
(***************************************************************************)
EXTENDS Integers, FiniteSets

CONSTANTS
  Accounts,       \* phones, each with its users row
  NoAccount,      \* no referrer
  Inviters,       \* those signed up from the start
  AuthCalls,      \* calls of the service that may overlap
  OTPMaxAttempts, OTPMaxSendsPerDay,             \* config
  CoinWelcome, CoinReferralSignup, CoinReferralRedeem, CoinReferralInviter, CoinDailyLogin,
  MaxCodes,       \* bound: codes stored
  MaxGuesses,     \* bound: verifications and redemptions
  LoginDays       \* bound: days 1 .. LoginDays

ASSUME AccountsAssumption == NoAccount \notin Accounts /\ Inviters \subseteq Accounts
ASSUME OTPAssumption == OTPMaxAttempts \in Nat \ {0} /\ OTPMaxSendsPerDay \in Nat /\ IsFiniteSet(AuthCalls)
ASSUME AuthBounds == MaxCodes \in Nat /\ MaxGuesses \in Nat /\ LoginDays \in Nat

VARIABLES
  account,  \* [Accounts -> the users row]
  coins,    \* [Accounts -> coins]
  rewards,  \* inbox_rewards: [user, kind, ref, claimed]
  authCall, \* [AuthCalls -> next statement, account and what the call has read]
  codes,    \* codes stored so far
  sends,    \* otp_sends: [Accounts -> counter in Redis]
  guesses,  \* verifications and redemptions so far
  wrong,    \* [Accounts -> guesses answered "invalid code" since the code was stored]
  welcomed, \* [Accounts -> welcome bonuses credited]
  session,  \* [Accounts -> the app's tokens: "none", "refresh" (access expired), "access"]
  smsOn,    \* the panel's SMS switch
  loginDay

accountVars == <<account, coins, rewards, authCall, codes, sends, guesses, wrong, welcomed,
                 session, smsOn, loginDay>>
Dev  == -1
Free == [pc |-> "idle"]

Bare == [verified |-> FALSE, banned |-> FALSE, code |-> 0, expired |-> FALSE, cooling |-> FALSE,
         attempts |-> 0, referral |-> 0, referrer |-> NoAccount]

AccountsInit ==
  /\ account = [u \in Accounts |-> [Bare EXCEPT !.verified = u \in Inviters,
                                                !.referral = IF u \in Inviters THEN 1 ELSE 0]]
  /\ coins = [u \in Accounts |-> 0] /\ rewards = {}
  /\ authCall = [c \in AuthCalls |-> Free]
  /\ codes = 0 /\ sends = [u \in Accounts |-> 0] /\ guesses = 0
  /\ wrong = [u \in Accounts |-> 0] /\ welcomed = [u \in Accounts |-> 0]
  /\ session = [u \in Accounts |-> IF u \in Inviters THEN "access" ELSE "none"]
  /\ smsOn = TRUE /\ loginDay = 1

-----------------------------------------------------------------------------
(* Statements of the repository.  A referral code is <<its owner, the number of the  *)
(* CompleteSignup that made it>>; usernames are left out.                             *)

UpsertByPhone(u)  == account[u]
GetUserByPhone(u) == account[u]
GetUserByID(u)    == account[u]
GetUserByReferralCode(r) ==
  IF r # <<>> /\ account[r[1]].referral = r[2] THEN r[1] ELSE NoAccount

SetOTP(u, code) == account' = [account EXCEPT ![u] =
  [@ EXCEPT !.code = code, !.expired = FALSE, !.cooling = TRUE, !.attempts = 0]]
ClearOTP(u) == account' = [account EXCEPT ![u] = [@ EXCEPT !.code = 0, !.expired = FALSE, !.cooling = FALSE]]
MarkVerified(u) == account' = [account EXCEPT ![u] = [@ EXCEPT !.code = 0, !.expired = FALSE]]

\* Mutant: the counter is written from the row that was read.
Mut_IncrementOTPAttempts(u, read) == account' = [account EXCEPT ![u].attempts = read.attempts + 1]

\* IncrementOTPAttempts: one UPDATE, whatever the caller has read
IncrementOTPAttempts(u, read) == account' = [account EXCEPT ![u].attempts = @ + 1]

\* CompleteSignup: whatever was there before is overwritten.
CompleteSignup(u, referrer) == account' = [account EXCEPT ![u] =
  [@ EXCEPT !.verified = TRUE, !.code = 0, !.expired = FALSE,
            !.referral = account[u].referral + 1, !.referrer = referrer]]

\* RedeemReferral, when it touches the row
LinkReferrer(u, referrer) ==
  account[u].referrer = NoAccount /\ account' = [account EXCEPT ![u].referrer = referrer]

AwardCoins(u, n) == coins' = [coins EXCEPT ![u] = @ + n]

\* Mutant: the row is inserted again once it was claimed.
Mut_CreateReward(u, kind, ref) ==
  rewards' = rewards \cup {[user |-> u, kind |-> kind, ref |-> ref, claimed |-> FALSE]}

\* CreateInboxReward: ON CONFLICT (user, kind, ref) DO NOTHING
CreateReward(u, kind, ref) ==
  rewards' = IF \E w \in rewards : w.user = u /\ w.kind = kind /\ w.ref = ref THEN rewards
             ELSE rewards \cup {[user |-> u, kind |-> kind, ref |-> ref, claimed |-> FALSE]}

IsBanned(u) == account[u].banned
RewardCoins(kind) == IF kind = "daily_login" THEN CoinDailyLogin ELSE CoinReferralInviter

-----------------------------------------------------------------------------
EndCall(c) == authCall' = [authCall EXCEPT ![c] = Free]
Step(c, pc) == authCall' = [authCall EXCEPT ![c].pc = pc]
Doing(c, pc) == authCall[c].pc = pc

\* SendOTP: the cooldown, from the row UpsertByPhone returns ...
SendOTP(c, u) ==
  /\ Doing(c, "idle") /\ ~UpsertByPhone(u).cooling
  /\ authCall' = [authCall EXCEPT ![c] = [pc |-> "rate", user |-> u]]
  /\ UNCHANGED <<account, coins, rewards, codes, sends, guesses, wrong, welcomed, session, smsOn, loginDay>>

\* ... checkAndIncrSendRate, which lets everything pass while Redis is away ...
CheckAndIncrSendRate(c) ==
  LET u == authCall[c].user
  IN  /\ Doing(c, "rate")
      /\ \/ /\ sends[u] < OTPMaxSendsPerDay /\ sends' = [sends EXCEPT ![u] = @ + 1] /\ Step(c, "store")
         \/ /\ sends[u] = OTPMaxSendsPerDay /\ UNCHANGED sends /\ EndCall(c)  \* counted on, to no effect
         \/ Step(c, "store") /\ UNCHANGED sends
      /\ UNCHANGED <<account, coins, rewards, codes, guesses, wrong, welcomed, session, smsOn, loginDay>>

\* ... SetOTP, of the fixed code while SMS is off (nothing is sent then) ...
SmsBypass == ~smsOn
StoreOTP(c) ==
  LET u == authCall[c].user
  IN  /\ Doing(c, "store") /\ codes < MaxCodes /\ codes' = codes + 1
      /\ SetOTP(u, IF SmsBypass THEN Dev ELSE codes + 1)
      /\ wrong' = [wrong EXCEPT ![u] = 0]
      /\ IF SmsBypass THEN EndCall(c) ELSE Step(c, "deliver")
      /\ UNCHANGED <<coins, rewards, sends, guesses, welcomed, session, smsOn, loginDay>>

\* ... and Kavenegar, after whose failure the code is dropped, or left there when
\* that fails as well.
DeliverOTP(c) ==
  /\ Doing(c, "deliver") /\ (EndCall(c) \/ Step(c, "clear"))
  /\ UNCHANGED <<account, coins, rewards, codes, sends, guesses, wrong, welcomed, session, smsOn, loginDay>>
DropOTP(c) ==
  /\ Doing(c, "clear") /\ EndCall(c)
  /\ ClearOTP(authCall[c].user) \/ UNCHANGED account
  /\ UNCHANGED <<coins, rewards, codes, sends, guesses, wrong, welcomed, session, smsOn, loginDay>>

-----------------------------------------------------------------------------
\* VerifyOTP on the row it reads: refused, a wrong guess, a sign-up or a sign-in.
Verdict(row, guess) ==
  IF row.banned THEN "refused"
  ELSE IF ~(guess = Dev /\ SmsBypass) /\ (row.code = 0 \/ row.attempts >= OTPMaxAttempts \/ row.expired)
  THEN "refused"
  ELSE IF ~(guess = Dev /\ SmsBypass) /\ guess # row.code THEN "wrong"
  ELSE IF row.verified THEN "mark" ELSE "signup"

VerifyOTP(c, u, guess, ref) ==
  LET row == GetUserByPhone(u)
  IN  /\ Doing(c, "idle") /\ guesses < MaxGuesses /\ guesses' = guesses + 1
      /\ Verdict(row, guess) # "refused"
      /\ authCall' = [authCall EXCEPT ![c] = [pc |-> Verdict(row, guess), user |-> u, ref |-> ref,
                                              read |-> [code |-> row.code, attempts |-> row.attempts]]]
      /\ UNCHANGED <<account, coins, rewards, codes, sends, wrong, welcomed, session, smsOn, loginDay>>

\* A wrong guess is counted and answered.
CountGuess(c) ==
  LET u == authCall[c].user
  IN  /\ Doing(c, "wrong") /\ EndCall(c)
      /\ IncrementOTPAttempts(u, authCall[c].read)
      /\ wrong' = [wrong EXCEPT ![u] = IF account[u].code = authCall[c].read.code THEN @ + 1 ELSE @]
      /\ UNCHANGED <<coins, rewards, codes, sends, guesses, welcomed, session, smsOn, loginDay>>

\* The answer with the token pair
GenerateTokenPair(c) == EndCall(c) /\ session' = [session EXCEPT ![authCall[c].user] = "access"]

SignIn(c) ==
  /\ Doing(c, "mark") /\ GenerateTokenPair(c) /\ MarkVerified(authCall[c].user)
  /\ UNCHANGED <<coins, rewards, codes, sends, guesses, wrong, welcomed, smsOn, loginDay>>

\* resolveReferrer, then completeSignupWithRetry; an unknown code is no referrer.
ResolveReferrer(c) ==
  /\ Doing(c, "signup")
  /\ authCall' = [authCall EXCEPT ![c] = [pc |-> "complete", user |-> @.user,
                                          referrer |-> GetUserByReferralCode(@.ref)]]
  /\ UNCHANGED <<account, coins, rewards, codes, sends, guesses, wrong, welcomed, session, smsOn, loginDay>>
CompleteSignupWithRetry(c) ==
  /\ Doing(c, "complete") /\ Step(c, "welcome")
  /\ CompleteSignup(authCall[c].user, authCall[c].referrer)
  /\ UNCHANGED <<coins, rewards, codes, sends, guesses, wrong, welcomed, session, smsOn, loginDay>>
AwardWelcome(c) ==
  LET u == authCall[c].user
  IN  /\ Doing(c, "welcome") /\ AwardCoins(u, CoinWelcome)
      /\ welcomed' = [welcomed EXCEPT ![u] = @ + 1]
      /\ IF authCall[c].referrer = NoAccount THEN GenerateTokenPair(c)
         ELSE Step(c, "bonus") /\ UNCHANGED session
      /\ UNCHANGED <<account, rewards, codes, sends, guesses, wrong, smsOn, loginDay>>
AwardSignup(c) ==
  /\ Doing(c, "bonus") /\ Step(c, "invited")
  /\ AwardCoins(authCall[c].user, CoinReferralSignup)
  /\ UNCHANGED <<account, rewards, codes, sends, guesses, wrong, welcomed, session, smsOn, loginDay>>
RewardInviter(c) ==
  /\ Doing(c, "invited") /\ GenerateTokenPair(c)
  /\ CreateReward(authCall[c].referrer, "referral_reward", authCall[c].user)
  /\ UNCHANGED <<account, coins, codes, sends, guesses, wrong, welcomed, smsOn, loginDay>>

-----------------------------------------------------------------------------
\* RequireAuth: a live access token of an account that is not banned.
RequireAuth(u) == session[u] = "access" /\ ~IsBanned(u)

\* RedeemReferral: the checks (the code is known from its owner, so it exists when
\* the call begins) ...
RedeemReferral(c, u, ref) ==
  /\ RequireAuth(u) /\ Doing(c, "idle") /\ guesses < MaxGuesses /\ guesses' = guesses + 1
  /\ ref # <<u, GetUserByID(u).referral>> /\ GetUserByReferralCode(ref) # NoAccount
  /\ authCall' = [authCall EXCEPT ![c] = [pc |-> "link", user |-> u,
                                          referrer |-> GetUserByReferralCode(ref)]]
  /\ UNCHANGED <<account, coins, rewards, codes, sends, wrong, welcomed, session, smsOn, loginDay>>

\* ... the link, refused when there is one, the coins, the inviter's reward.
Link(c) ==
  /\ Doing(c, "link") /\ Step(c, "redeemed")
  /\ LinkReferrer(authCall[c].user, authCall[c].referrer)
  /\ UNCHANGED <<coins, rewards, codes, sends, guesses, wrong, welcomed, session, smsOn, loginDay>>
AwardRedeem(c) ==
  /\ Doing(c, "redeemed") /\ Step(c, "inviter")
  /\ AwardCoins(authCall[c].user, CoinReferralRedeem)
  /\ UNCHANGED <<account, rewards, codes, sends, guesses, wrong, welcomed, session, smsOn, loginDay>>
RedeemedInviter(c) ==
  /\ Doing(c, "inviter") /\ EndCall(c)
  /\ CreateReward(authCall[c].referrer, "referral_reward", authCall[c].user)
  /\ UNCHANGED <<account, coins, codes, sends, guesses, wrong, welcomed, session, smsOn, loginDay>>

\* Any statement fails, or the server stops: the call ends where it is.
CallFails(c) ==
  /\ ~Doing(c, "idle") /\ EndCall(c)
  /\ UNCHANGED <<account, coins, rewards, codes, sends, guesses, wrong, welcomed, session, smsOn, loginDay>>

\* ListRewards makes today's login bonus; ClaimReward marks and credits in one
\* statement.
ListRewards(u) ==
  /\ RequireAuth(u) /\ CreateReward(u, "daily_login", loginDay)
  /\ UNCHANGED <<account, coins, authCall, codes, sends, guesses, wrong, welcomed, session, smsOn, loginDay>>
UnclaimedRewards(u) == {w \in rewards : w.user = u /\ ~w.claimed}
ClaimReward(u, w) ==
  /\ RequireAuth(u) /\ w \in UnclaimedRewards(u)
  /\ rewards' = (rewards \ {w}) \cup {[w EXCEPT !.claimed = TRUE]}
  /\ AwardCoins(u, RewardCoins(w.kind))
  /\ UNCHANGED <<account, authCall, codes, sends, guesses, wrong, welcomed, session, smsOn, loginDay>>

\* An access token lives for minutes; RefreshToken gives another one, unless banned.
AccessExpires(u) ==
  /\ session[u] = "access" /\ session' = [session EXCEPT ![u] = "refresh"]
  /\ UNCHANGED <<account, coins, rewards, authCall, codes, sends, guesses, wrong, welcomed, smsOn, loginDay>>
RefreshToken(u) ==
  /\ session[u] # "none" /\ ~IsBanned(u) /\ session' = [session EXCEPT ![u] = "access"]
  /\ UNCHANGED <<account, coins, rewards, authCall, codes, sends, guesses, wrong, welcomed, smsOn, loginDay>>

\* The two minutes of a code and of its cooldown, the day of the counter; the panel.
CooldownEnds(u) ==
  /\ account[u].cooling /\ account' = [account EXCEPT ![u].cooling = FALSE]
  /\ UNCHANGED <<coins, rewards, authCall, codes, sends, guesses, wrong, welcomed, session, smsOn, loginDay>>
CodeExpires(u) ==
  /\ account[u].code # 0 /\ ~account[u].expired /\ account' = [account EXCEPT ![u].expired = TRUE]
  /\ UNCHANGED <<coins, rewards, authCall, codes, sends, guesses, wrong, welcomed, session, smsOn, loginDay>>
NextDay ==
  /\ loginDay < LoginDays /\ loginDay' = loginDay + 1 /\ sends' = [u \in Accounts |-> 0]
  /\ UNCHANGED <<account, coins, rewards, authCall, codes, guesses, wrong, welcomed, session, smsOn>>
SwitchSMS ==
  /\ smsOn' = ~smsOn
  /\ UNCHANGED <<account, coins, rewards, authCall, codes, sends, guesses, wrong, welcomed, session, loginDay>>
SwitchBan(u) ==
  /\ account' = [account EXCEPT ![u].banned = ~@]
  /\ UNCHANGED <<coins, rewards, authCall, codes, sends, guesses, wrong, welcomed, session, smsOn, loginDay>>

\* The codes people know
SharedCodes == {<<u, account[u].referral>> : u \in {v \in Accounts : account[v].referral > 0}}

AccountsNext ==
  \/ \E c \in AuthCalls :
       \/ \E u \in Accounts :
            \/ SendOTP(c, u)
            \/ \E guess \in {0, Dev, account[u].code}, ref \in {<<>>} \cup SharedCodes : VerifyOTP(c, u, guess, ref)
            \/ \E ref \in SharedCodes : RedeemReferral(c, u, ref)
       \/ CheckAndIncrSendRate(c) \/ StoreOTP(c) \/ DeliverOTP(c) \/ DropOTP(c)
       \/ CountGuess(c) \/ SignIn(c) \/ ResolveReferrer(c) \/ CompleteSignupWithRetry(c)
       \/ AwardWelcome(c) \/ AwardSignup(c) \/ RewardInviter(c)
       \/ Link(c) \/ AwardRedeem(c) \/ RedeemedInviter(c) \/ CallFails(c)
  \/ \E u \in Accounts :
       \/ ListRewards(u) \/ AccessExpires(u) \/ RefreshToken(u)
       \/ CooldownEnds(u) \/ CodeExpires(u) \/ SwitchBan(u)
       \/ \E w \in rewards : ClaimReward(u, w)
  \/ NextDay \/ SwitchSMS

AccountsSpec == AccountsInit /\ [][AccountsNext]_accountVars

-----------------------------------------------------------------------------
\* Type invariant.
AccountsTypeOK ==
  /\ account \in [Accounts ->
       [verified : BOOLEAN, banned : BOOLEAN, code : Dev .. MaxCodes, expired : BOOLEAN,
        cooling : BOOLEAN, attempts : 0 .. MaxGuesses, referral : 0 .. MaxGuesses + 1,
        referrer : Accounts \cup {NoAccount}]]
  /\ coins \in [Accounts -> Nat]
  /\ rewards \subseteq [user : Accounts, kind : {"referral_reward", "daily_login"},
                        ref : Accounts \cup 1 .. LoginDays, claimed : BOOLEAN]
  /\ \A c \in AuthCalls : authCall[c] = Free \/ authCall[c].user \in Accounts
  /\ codes \in 0 .. MaxCodes /\ guesses \in 0 .. MaxGuesses
  /\ session \in [Accounts -> {"none", "refresh", "access"}]

\* The attempts at one code are limited however many verifications overlap: those
\* in flight, which have read the counter already, can each add one, and no more.
GuessesAreBounded ==
  \A u \in Accounts : account[u].code # 0 => wrong[u] <= OTPMaxAttempts + Cardinality(AuthCalls) - 1

\* Nobody is one's own referrer, neither by redeeming nor by a second verification
\* that overlaps the sign-up ("self-referral can't occur here since the new user's
\* own code doesn't exist yet").
NoSelfReferral == \A u \in Accounts : account[u].referrer # u

\* An inviter gets one reward for an invited account, claimed or not, although
\* sign-ups overlap, are repeated, and rewards are claimed in between.
InviterIsPaidOnce ==
  \A v, w \in rewards : v.user = w.user /\ v.kind = w.kind /\ v.ref = w.ref => v = w

\* The links and rewards of referrals stay sound.
ReferralsAreSound == NoSelfReferral /\ InviterIsPaidOnce

\* "On a phone's first successful verification" the welcome bonus is awarded: once.
\* (Doc; it does not hold: two verifications both read the row before sign-up.)
WelcomedOnce == \A u \in Accounts : welcomed[u] <= 1
=============================================================================
