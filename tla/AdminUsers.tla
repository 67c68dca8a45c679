------------------------------ MODULE AdminUsers ------------------------------
(***************************************************************************)
(* The operators' edits of accounts (backend/internal/service/             *)
(* admin_users.go and admin_audit.go over repository/admin_users.go,       *)
(* handler/admin_users.go) on the rows that the players' own calls of      *)
(* Wallet change as well.  An operator looks at a page, and edits the      *)
(* account it shows with one guarded statement, which is then written to   *)
(* the audit log; that may fail without undoing the edit.                  *)
(***************************************************************************)
EXTENDS Wallet, Sequences

CONSTANTS
  Editors,       \* tabs of the panel
  RoleRank,      \* [Editors -> 1 viewer, 2 operator, 3 owner]
  Verified,      \* players who have signed up
  Names, NameOf, \* usernames, and whose they are at first: [Players -> Names]
  Deltas,        \* coins an operator gives or takes
  GiftCoins, GrantDays,
  MaxEdits       \* bound: edits of the panel

ASSUME AdminUsersAssumption ==
  /\ RoleRank \in [Editors -> 1 .. 3] /\ Verified \subseteq Players
  /\ NameOf \in [Players -> Names] /\ Deltas \subseteq Int \ {0} /\ MaxEdits \in Nat
  /\ GiftCoins \in Nat /\ GrantDays \in Nat

VARIABLES
  profile,  \* [Players -> [name, banned, gifts]]; gifts are unclaimed admin_gift rewards
  edit,     \* [Editors -> the page, the next statement and the entry to be logged]
  audit,    \* admin_audit_log
  changes   \* what the edits have done to the rows, in order (history)

editVars == <<profile, edit, audit, changes>>
NoPage   == [pc |-> "none"]

EditInit ==
  /\ profile = [u \in Players |-> [name |-> NameOf[u], banned |-> FALSE, gifts |-> 0]]
  /\ edit = [c \in Editors |-> NoPage] /\ audit = <<>> /\ changes = <<>>

-----------------------------------------------------------------------------
\* ListUsers, GetUserDetail: those who have signed up
GetUserDetail(u) == u \in Verified
Page(u) == [coins |-> row[u].coins, avatar |-> row[u].avatar, name |-> profile[u].name, banned |-> profile[u].banned]

OpenUser(c, u) ==
  /\ edit[c].pc \in {"none", "page"} /\ GetUserDetail(u)
  /\ edit' = [edit EXCEPT ![c] = [pc |-> "page", user |-> u, shown |-> Page(u)]]
  /\ UNCHANGED <<profile, audit, changes, walletVars>>

\* RequireRole(operator)
AdminRoleAtLeast(c, min) == RoleRank[c] >= min
Editing(c, u) ==
  /\ edit[c].pc = "page" /\ edit[c].user = u /\ AdminRoleAtLeast(c, 2)
  /\ Len(changes) < MaxEdits

\* The edit is done: what it has replaced, and by what.
Change(op, u, before, after) ==
  changes' = Append(changes, [op |-> op, user |-> u, before |-> <<before>>, after |-> <<after>>])

\* What goes to the log is what the service has at hand then: the old value for coins,
\* names and avatars, the new one for coins, names and granted premium, each as <<value>>.
Untold == <<>>
Entry(c, op, u, before, after) ==
  /\ edit' = [edit EXCEPT ![c] = [pc |-> "log", user |-> u, shown |-> @.shown, entry |->
       [n |-> Len(changes) + 1, op |-> op, user |-> u, before |-> before, after |-> after]]]
  /\ UNCHANGED audit
WalletRest == UNCHANGED <<items, purchase, useCall, spent, uses, credited, today>>

\* Mutant: the balance before is the one on the operator's page.
Mut_AdjustCoins(c, u, delta) ==
  /\ Editing(c, u) /\ row[u].coins + delta \in 0 .. MaxCoins
  /\ row' = [row EXCEPT ![u].coins = @ + delta]
  /\ Change("coins", u, row[u].coins, row[u].coins + delta)
  /\ Entry(c, "coins", u, <<edit[c].shown.coins>>, <<row[u].coins + delta>>)
  /\ WalletRest /\ UNCHANGED profile

SetCoins(u, balance) == row' = [row EXCEPT ![u].coins = balance]

\* AdjustCoins: refused below zero; the balance before is worked out from the one
\* the UPDATE returns.
AdjustCoins(c, u, delta) ==
  LET balance == row[u].coins + delta
  IN  /\ Editing(c, u) /\ balance \in 0 .. MaxCoins
      /\ SetCoins(u, balance)
      /\ Change("coins", u, row[u].coins, balance)
      /\ Entry(c, "coins", u, <<balance - delta>>, <<balance>>)
      /\ WalletRest /\ UNCHANGED profile

\* The same as a gift to be claimed: the entry has its amount and its new reference.
GiveReward(c, u) ==
  /\ Editing(c, u) /\ GetUserDetail(u) /\ row[u].coins < MaxCoins
  /\ profile' = [profile EXCEPT ![u].gifts = @ + 1]
  /\ Change("gift", u, profile[u].gifts, profile[u].gifts + 1) /\ Entry(c, "gift", u, Untold, Untold)
  /\ UNCHANGED walletVars
ClaimGift(u) ==
  /\ profile[u].gifts > 0 /\ profile' = [profile EXCEPT ![u].gifts = @ - 1]
  /\ row' = [row EXCEPT ![u].coins = @ + GiftCoins]
  /\ WalletRest /\ UNCHANGED <<edit, audit, changes>>

\* On top of what is left; the UPDATE returns the new date alone.
ExtendPremium(u) == Later(row[u].premium, today) + GrantDays
GrantPremium(c, u) ==
  LET until == ExtendPremium(u)
  IN  /\ Editing(c, u) /\ row' = [row EXCEPT ![u].premium = until]
      /\ Change("premium_grant", u, row[u].premium, until)
      /\ Entry(c, "premium_grant", u, Untold, <<until>>)
      /\ WalletRest /\ UNCHANGED profile
RevokePremium(c, u) ==
  /\ Editing(c, u) /\ row' = [row EXCEPT ![u].premium = 0]
  /\ Change("premium_revoke", u, row[u].premium, 0) /\ Entry(c, "premium_revoke", u, Untold, Untold)
  /\ WalletRest /\ UNCHANGED profile

\* ClearAvatar returns what its own UPDATE has replaced.
ClearAvatar(c, u) ==
  /\ Editing(c, u) /\ row' = [row EXCEPT ![u].avatar = FALSE]
  /\ Change("avatar_clear", u, row[u].avatar, FALSE)
  /\ Entry(c, "avatar_clear", u, <<row[u].avatar>>, Untold)
  /\ WalletRest /\ UNCHANGED profile

\* UpdateUsername: unique; a player may rename as well
TakenBy(u, name) == {v \in Players \ {u} : profile[v].name = name}
UpdateUsername(u, name) ==
  /\ TakenBy(u, name) = {}
  /\ profile' = [profile EXCEPT ![u].name = name]
RenameSelf(u, name) == UpdateUsername(u, name) /\ UNCHANGED <<edit, audit, changes, walletVars>>

\* Rename: the old name is read before the UPDATE.
ReadName(c, u, name) ==
  /\ Editing(c, u) /\ GetUserDetail(u)
  /\ edit' = [edit EXCEPT ![c] = [pc |-> "rename", user |-> u, shown |-> [@.shown EXCEPT !.name = profile[u].name],
                                  name |-> name]]
  /\ UNCHANGED <<profile, audit, changes, walletVars>>
Rename(c) ==
  LET u == edit[c].user
  IN  /\ edit[c].pc = "rename" /\ Len(changes) < MaxEdits /\ UpdateUsername(u, edit[c].name)
      /\ Change("rename", u, profile[u].name, edit[c].name)
      /\ Entry(c, "rename", u, <<edit[c].shown.name>>, <<edit[c].name>>)
      /\ UNCHANGED walletVars
NameTaken(c) ==
  /\ edit[c].pc = "rename" /\ TakenBy(edit[c].user, edit[c].name) # {}
  /\ edit' = [edit EXCEPT ![c] = [pc |-> "page", user |-> @.user, shown |-> @.shown]]
  /\ UNCHANGED <<profile, audit, changes, walletVars>>

\* Ban and Unban: only from the other state, else "already banned", "not banned"
BanUser(u, banned) == profile[u].banned # banned /\ profile' = [profile EXCEPT ![u].banned = banned]
SetBanned(c, u, banned) ==
  LET op == IF banned THEN "ban" ELSE "unban"
  IN  /\ Editing(c, u) /\ BanUser(u, banned)
      /\ Change(op, u, ~banned, banned) /\ Entry(c, op, u, Untold, Untold)
      /\ UNCHANGED walletVars

\* LogRecord: a failure is logged elsewhere.
LogRecord(c) ==
  /\ edit[c].pc = "log"
  /\ audit' = Append(audit, edit[c].entry) \/ UNCHANGED audit
  /\ edit' = [edit EXCEPT ![c] = [pc |-> "page", user |-> @.user, shown |-> @.shown]]
  /\ UNCHANGED <<profile, changes, walletVars>>

EditNext ==
  \/ \E c \in Editors :
       \/ \E u \in Players :
            \/ OpenUser(c, u) \/ GiveReward(c, u) \/ GrantPremium(c, u) \/ RevokePremium(c, u)
            \/ ClearAvatar(c, u)
            \/ \E delta \in Deltas : AdjustCoins(c, u, delta)
            \/ \E name \in Names : ReadName(c, u, name)
            \/ \E banned \in BOOLEAN : SetBanned(c, u, banned)
       \/ Rename(c) \/ NameTaken(c) \/ LogRecord(c)
  \/ \E u \in Players : ClaimGift(u) \/ \E name \in Names : RenameSelf(u, name)

AdminUsersSpec ==
  /\ WalletInit /\ EditInit
  /\ [][EditNext \/ (WalletNext /\ UNCHANGED editVars)]_<<walletVars, editVars>>

-----------------------------------------------------------------------------
\* Type invariant.
EditTypeOK ==
  /\ profile \in [Players -> [name : Names, banned : BOOLEAN, gifts : Nat]]
  /\ \A c \in Editors : edit[c].pc \in {"none", "page", "rename", "log"}
  /\ \A i \in DOMAIN audit : audit[i].n \in DOMAIN changes /\ audit[i].user \in Players
  /\ Len(changes) <= MaxEdits

\* What the audit log tells is true: each entry is of an edit that was made, to that
\* account, and the coins, avatar and premium date it gives are those the edit has
\* really replaced or set, although the page it was made from is old by then, players
\* spend and rename at the same time and two operators edit one account; no edit is
\* logged twice.  The old name alone is read apart from the UPDATE.
EntryIsTrue(a, x) ==
  /\ a.op = x.op /\ a.user = x.user /\ a.after \in {Untold, x.after}
  /\ a.op # "rename" => a.before \in {Untold, x.before}
AuditIsTrue ==
  /\ \A i \in DOMAIN audit : EntryIsTrue(audit[i], changes[audit[i].n])
  /\ \A i, j \in DOMAIN audit : audit[i].n = audit[j].n => i = j
=============================================================================
