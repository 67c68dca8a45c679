------------------------------- MODULE MCPeople -------------------------------
(***************************************************************************)
(* One run for the modules about people: accounts, friends, the panel's    *)
(* sign-in, wallets and the operators' edits.  They share no variable, so  *)
(* each behaviour belongs to one of them: `part`, chosen at the start,     *)
(* moves, on the slice of its module's actions that the part is about.     *)
(***************************************************************************)
EXTENDS Accounts, Friendship, AdminAuth, AdminUsers

CONSTANTS u1, r1, a1, w1, w2, packReceipt, e1, e2
MCKind    == [r \in Receipts |-> IF r = packReceipt THEN "coins" ELSE "premium"]
MCPayload == [r \in Receipts |-> IF r = packReceipt THEN NoPlayer ELSE w1]
MCBought  == [r \in Receipts |-> 1]
MCRank    == [e \in Editors |-> IF e = e1 THEN 2 ELSE 3]
MCNames   == [w \in Players |-> IF w = w1 THEN "na" ELSE "nb"]
MCDeltas  == {1, -1}

VARIABLE part

peopleVars == <<accountVars, friendVars, adminVars, walletVars, editVars, part>>
PeopleInit ==
  /\ AccountsInit /\ FriendInit /\ AdminAuthInit /\ WalletInit /\ EditInit
  /\ part \in {"otp", "guess", "signup", "inbox", "friends", "sign-in", "sessions", "wallet", "edit", "status"}

-----------------------------------------------------------------------------
\* Codes of one account, by one call and then guesses by two that overlap
CodesPart ==
  /\ AccountsNext /\ UNCHANGED <<rewards, session, coins, loginDay>>
  /\ account'[r1] = account[r1] /\ ~account'[u1].verified /\ ~account'[u1].banned
  /\ \A c \in AuthCalls : authCall'[c].pc # "signup" /\ (authCall'[c].pc = "wrong" => authCall'[c].ref = <<>>)
OtpPart   == CodesPart /\ \E c \in AuthCalls : authCall'[c] = Free /\ authCall[c] = Free
GuessPart == CodesPart /\ smsOn' /\ ~account'[u1].expired /\ \A c \in AuthCalls : authCall'[c].pc # "clear"
\* Sign-ups and redemptions that overlap, with the fixed code
SignupPart ==
  /\ AccountsNext /\ UNCHANGED <<sends, loginDay>> /\ ~smsOn'
  /\ \A u \in Accounts : ~account'[u].banned /\ account'[u].attempts = 0 /\ session'[u] # "refresh"
  /\ \A w \in rewards' : w.kind = "referral_reward"
  /\ \A c \in AuthCalls : authCall'[c].pc \notin {"rate", "wrong"}
\* Sessions, bans, the inbox
InboxPart == AccountsNext /\ UNCHANGED <<smsOn, guesses, authCall>>

\* The panel's counters and its cached existence; one session at most
SignInPart ==
  /\ AdminAuthNext /\ UNCHANGED request /\ Cardinality(drawn') <= 1 /\ ctl'.pc \in {"idle", "list"}
  /\ \A a \in Admins : admin'[a].password = 1
\* Sessions of one admin, without wrong passwords
SessionsPart ==
  /\ AdminAuthNext /\ UNCHANGED fails /\ panel'.known = (panel.known \/ panel'.value)
  /\ \A a \in Admins \ {a1} : ~admin'[a].exists
  /\ \A l \in Logins : login'[l].pc # "count"

\* Players on their own
WalletPart == WalletNext /\ UNCHANGED editVars
\* Two operators and the player on one account; one operator, and what is not theirs alone
EditingPart ==
  /\ EditNext \/ (WalletNext /\ UNCHANGED editVars)
  /\ UNCHANGED <<useCall, purchase, today>>
  /\ \A w \in Players \ {w1} : row'[w] = row[w] /\ profile'[w] = profile[w]
EditPart ==
  /\ EditingPart /\ row'[w1].premium = 0 /\ ~profile'[w1].banned /\ profile'[w1].gifts = 0
  /\ \A e \in Editors : edit[e].pc = "page" /\ edit'[e].pc = "page" => UNCHANGED edit[e]
StatusPart ==
  EditingPart /\ UNCHANGED <<edit[e2], profile[w1].name>>

NotAccounts == UNCHANGED <<friendVars, adminVars, walletVars, editVars, part>>
NotPanel    == UNCHANGED <<accountVars, friendVars, walletVars, editVars, part>>
NotWallets  == UNCHANGED <<accountVars, friendVars, adminVars, part>>

PeopleNext ==
  \/ part = "otp" /\ OtpPart /\ NotAccounts
  \/ part = "guess" /\ GuessPart /\ NotAccounts
  \/ part = "signup" /\ SignupPart /\ NotAccounts
  \/ part = "inbox" /\ InboxPart /\ NotAccounts
  \/ part = "friends" /\ FriendNext /\ UNCHANGED <<accountVars, adminVars, walletVars, editVars, part>>
  \/ part = "sign-in" /\ SignInPart /\ NotPanel
  \/ part = "sessions" /\ SessionsPart /\ NotPanel
  \/ part = "wallet" /\ WalletPart /\ NotWallets
  \/ part = "edit" /\ EditPart /\ NotWallets
  \/ part = "status" /\ StatusPart /\ NotWallets

PeopleSpec == PeopleInit /\ [][PeopleNext]_peopleVars
=============================================================================
