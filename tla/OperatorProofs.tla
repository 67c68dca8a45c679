----------------------------- MODULE OperatorProofs -----------------------------
(***************************************************************************)
(* Wallets, the operators' edits of them, and the operators' sessions, for *)
(* any sets of players, editors, admins and tokens: packs are credited     *)
(* once and uses paid, the audit log tells the edits that were made, and   *)
(* no session outlives the cap or escapes the list it is revoked from.     *)
(***************************************************************************)
EXTENDS AdminUsers, AdminAuth, FiniteSetTheorems, SequenceTheorems, TLAPS

-----------------------------------------------------------------------------
(* Wallets                                                                   *)

Row == [coins : Nat, premium : Nat, avatar : BOOLEAN]
UseCall == [pc : {"idle"}] \cup [pc : {"spend", "balance"}, user : Players]
PaidSet(u) == {c \in UseCalls : useCall[c].pc = "balance" /\ useCall[c].user = u}
UseIsPaid(u) == spent[u] = PowerupPrice * CoinUses(u)

\* What the use of power-ups and the packs rest on; the rows are apart, since only they
\* are the operators' business as well.
RowsAreFine == row \in [Players -> Row] /\ today \in 1 .. WalletDays
PurchaseInv ==
  /\ purchase \in [Receipts -> Players \cup {NoPlayer}]
  /\ credited \in [Receipts -> Nat] /\ PacksCreditOnce
UseInv ==
  /\ items \in [Players -> 0 .. StartItems] /\ spent \in [Players -> Nat]
  /\ uses \in [Players -> [granted : Nat, lost : Nat]]
  /\ useCall \in [UseCalls -> UseCall]
  /\ \A u \in Players : IsFiniteSet(PaidSet(u)) /\ UseIsPaid(u)
WalletInv == RowsAreFine /\ PurchaseInv /\ UseInv

-----------------------------------------------------------------------------
LEMMA WalletInitInv == WalletInit => WalletInv
<1> SUFFICES ASSUME WalletInit PROVE WalletInv
  OBVIOUS
<1>1. RowsAreFine BY WalletAssumption DEF WalletInit, RowsAreFine, Row
<1>2. PurchaseInv BY WalletAssumption DEF WalletInit, PurchaseInv, PacksCreditOnce
<1>3. \A u \in Players : PaidSet(u) = {} BY DEF WalletInit, PaidSet, NotUsing
<1>4. \A u \in Players : IsFiniteSet(PaidSet(u)) /\ PaidCalls(u) = 0
  BY <1>3, FS_EmptySet DEF PaidCalls, PaidSet
<1>5. \A u \in Players : CoinUses(u) = 0 BY <1>4, WalletAssumption DEF WalletInit, CoinUses
<1>6. UseInv
  BY <1>4, <1>5, WalletAssumption DEF WalletInit, UseInv, UseCall, NotUsing, UseIsPaid
<1> QED BY <1>1, <1>2, <1>6 DEF WalletInv

\* A use of power-ups only changes the calls that are under way.
LEMMA UsesStay ==
  ASSUME UseInv, UNCHANGED <<items, spent, uses, useCall>>
  PROVE  UseInv'
BY DEF UseInv, UseIsPaid, CoinUses, PaidCalls, PaidSet

LEMMA PurchasesStay ==
  ASSUME PurchaseInv, UNCHANGED <<purchase, credited>>
  PROVE  PurchaseInv'
BY DEF PurchaseInv, PacksCreditOnce

\* A call that comes to be paid, is answered, or goes on unpaid.
LEMMA CallIsPaid ==
  ASSUME UseInv, NEW c \in UseCalls, NEW u \in Players, useCall[c].pc # "balance",
         SetUse(c, [pc |-> "balance", user |-> u])
  PROVE  /\ useCall' \in [UseCalls -> UseCall]
         /\ \A v \in Players :
              /\ IsFiniteSet(PaidSet(v)')
              /\ PaidCalls(v)' = PaidCalls(v) + (IF v = u THEN 1 ELSE 0)
              /\ PaidCalls(v) \in Nat
<1>1. useCall' = [useCall EXCEPT ![c] = [pc |-> "balance", user |-> u]] BY DEF SetUse
<1>2. useCall' \in [UseCalls -> UseCall] BY <1>1 DEF UseInv, UseCall
<1>3. \A v \in Players : PaidCalls(v) = Cardinality(PaidSet(v)) BY DEF PaidCalls, PaidSet
<1>4. \A v \in Players : PaidCalls(v)' = Cardinality(PaidSet(v)') BY DEF PaidCalls, PaidSet
<1>5. ASSUME NEW v \in Players
      PROVE  /\ IsFiniteSet(PaidSet(v)')
             /\ PaidCalls(v)' = PaidCalls(v) + (IF v = u THEN 1 ELSE 0) /\ PaidCalls(v) \in Nat
  <2>1. IsFiniteSet(PaidSet(v)) /\ Cardinality(PaidSet(v)) \in Nat
    BY FS_CardinalityType DEF UseInv
  <2>2. CASE v = u
    <3>1. PaidSet(v)' = PaidSet(v) \cup {c} /\ c \notin PaidSet(v)
      BY <1>1, <2>2 DEF PaidSet, UseInv
    <3> QED BY <1>3, <1>4, <2>1, <2>2, <3>1, FS_AddElement
  <2>3. CASE v # u
    <3>1. PaidSet(v)' = PaidSet(v) BY <1>1, <2>3 DEF PaidSet, UseInv
    <3> QED BY <1>3, <1>4, <2>1, <2>3, <3>1
  <2> QED BY <2>2, <2>3
<1> QED BY <1>2, <1>5

LEMMA CallStaysUnpaid ==
  ASSUME UseInv, NEW c \in UseCalls, NEW call \in UseCall, useCall[c].pc # "balance",
         call.pc # "balance", SetUse(c, call)
  PROVE  /\ useCall' \in [UseCalls -> UseCall]
         /\ \A v \in Players : PaidSet(v)' = PaidSet(v) /\ PaidCalls(v)' = PaidCalls(v)
<1>1. useCall' = [useCall EXCEPT ![c] = call] BY DEF SetUse
<1>2. \A v \in Players : PaidSet(v)' = PaidSet(v) BY <1>1 DEF PaidSet, UseInv
<1>3. \A v \in Players : PaidCalls(v)' = PaidCalls(v) BY <1>2 DEF PaidCalls, PaidSet
<1>4. useCall' \in [UseCalls -> UseCall] BY <1>1 DEF UseInv
<1> QED BY <1>2, <1>3, <1>4

LEMMA UseItemKeeps ==
  ASSUME UseInv, NEW c \in UseCalls, NEW u \in Players, UseItem(c, u)
  PROVE  UseInv'
<1>1. useCall[c].pc # "balance" /\ spent' = spent /\ uses' = uses BY DEF UseItem
<1>2. CASE DeductOne(u) /\ SetUse(c, [pc |-> "balance", user |-> u])
  <2>1. items[u] > 0 /\ items' = [items EXCEPT ![u] = @ - 1] BY <1>2 DEF DeductOne
  <2>2. items' \in [Players -> 0 .. StartItems]
    BY <2>1, WalletAssumption DEF UseInv
  <2>3. \A v \in Players : UseIsPaid(v)'
    <3> SUFFICES ASSUME NEW v \in Players PROVE UseIsPaid(v)'
      OBVIOUS
    <3>1. PaidCalls(v)' = PaidCalls(v) + (IF v = u THEN 1 ELSE 0) /\ PaidCalls(v) \in Nat
      BY <1>1, <1>2, CallIsPaid
    <3>2. UseIsPaid(v) /\ items[v] \in Nat /\ spent[v] \in Nat /\ uses[v].granted \in Nat /\ uses[v].lost \in Nat
      BY DEF UseInv
    <3>3. items'[v] = IF v = u THEN items[v] - 1 ELSE items[v] BY <2>1 DEF UseInv
    <3>4. CoinUses(v)' = CoinUses(v) BY <1>1, <3>1, <3>2, <3>3, WalletAssumption DEF CoinUses
    <3> QED BY <1>1, <3>2, <3>4 DEF UseIsPaid
  <2> QED BY <1>1, <1>2, <2>2, <2>3, CallIsPaid DEF UseInv
<1>3. CASE UNCHANGED items /\ SetUse(c, [pc |-> "spend", user |-> u])
  <2> DEFINE call == [pc |-> "spend", user |-> u]
  <2>1. call \in UseCall BY DEF UseCall
  <2>2. call.pc # "balance" OBVIOUS
  <2>3. SetUse(c, call) BY <1>3
  <2> HIDE DEF call
  <2>4. /\ useCall' \in [UseCalls -> UseCall]
        /\ \A v \in Players : PaidSet(v)' = PaidSet(v) /\ PaidCalls(v)' = PaidCalls(v)
    BY <1>1, <2>1, <2>2, <2>3, CallStaysUnpaid
  <2> QED BY <1>1, <1>3, <2>4 DEF UseInv, UseIsPaid, CoinUses
<1> QED BY <1>2, <1>3 DEF UseItem

LEMMA PayUseKeeps ==
  ASSUME RowsAreFine, UseInv, NEW c \in UseCalls, PayUse(c)
  PROVE  UseInv'
<1> DEFINE u == useCall[c].user
<1>1. useCall[c].pc = "spend" /\ items' = items /\ uses' = uses BY DEF PayUse
<1>2. u \in Players BY <1>1 DEF UseInv, UseCall
<1>3. CASE /\ SpendCoins(u, PowerupPrice) /\ spent' = [spent EXCEPT ![u] = @ + row[u].coins - row'[u].coins]
           /\ SetUse(c, [pc |-> "balance", user |-> u])
  <2> HIDE DEF u
  <2>1. row[u].coins \in Nat /\ row'[u].coins = row[u].coins - PowerupPrice
    BY <1>2, <1>3, WalletAssumption DEF RowsAreFine, Row, SpendCoins
  <2>2. spent[u] \in Nat /\ spent[u] + row[u].coins - row'[u].coins = spent[u] + PowerupPrice
    BY <1>2, <2>1, WalletAssumption DEF UseInv
  <2>3. spent' = [spent EXCEPT ![u] = spent[u] + PowerupPrice] BY <1>3, <2>2
  <2>4. spent' \in [Players -> Nat] BY <1>2, <2>2, <2>3, WalletAssumption DEF UseInv
  <2>5. \A v \in Players : UseIsPaid(v)'
    <3> SUFFICES ASSUME NEW v \in Players PROVE UseIsPaid(v)'
      OBVIOUS
    <3>1. PaidCalls(v)' = PaidCalls(v) + (IF v = u THEN 1 ELSE 0) /\ PaidCalls(v) \in Nat
      BY <1>1, <1>2, <1>3, CallIsPaid
    <3>2. UseIsPaid(v) /\ items[v] \in Nat /\ spent[v] \in Nat /\ uses[v].granted \in Nat /\ uses[v].lost \in Nat
      BY DEF UseInv
    <3> PICK k \in Int : k = CoinUses(v) BY <3>1, <3>2, WalletAssumption DEF CoinUses
    <3>3. spent'[v] = IF v = u THEN spent[v] + PowerupPrice ELSE spent[v] BY <2>3 DEF UseInv
    <3>4. CoinUses(v)' = IF v = u THEN k + 1 ELSE k BY <1>1, <3>1, <3>2, WalletAssumption DEF CoinUses
    <3>5. PowerupPrice * (k + 1) = PowerupPrice * k + PowerupPrice BY WalletAssumption
    <3>6. spent[v] = PowerupPrice * k BY <3>2 DEF UseIsPaid
    <3> QED BY <3>3, <3>4, <3>5, <3>6 DEF UseIsPaid
  <2> QED BY <1>1, <1>2, <1>3, <2>4, <2>5, CallIsPaid DEF UseInv
<1>4. CASE spent' = spent /\ SetUse(c, NotUsing)
  <2>1. NotUsing \in UseCall /\ NotUsing.pc # "balance" BY DEF UseCall, NotUsing
  <2>2. /\ useCall' \in [UseCalls -> UseCall]
        /\ \A v \in Players : PaidSet(v)' = PaidSet(v) /\ PaidCalls(v)' = PaidCalls(v)
    BY <1>1, <1>4, <2>1, CallStaysUnpaid
  <2> QED BY <1>1, <1>4, <2>2 DEF UseInv, UseIsPaid, CoinUses
<1> QED BY <1>3, <1>4 DEF PayUse

LEMMA UseBalanceKeeps ==
  ASSUME UseInv, NEW c \in UseCalls, UseBalance(c)
  PROVE  UseInv'
<1> DEFINE u == useCall[c].user
<1>1. useCall[c].pc = "balance" /\ items' = items /\ spent' = spent /\ useCall' = [useCall EXCEPT ![c] = NotUsing]
  BY DEF UseBalance, SetUse
<1>2. u \in Players BY <1>1 DEF UseInv, UseCall
<1>3. useCall' \in [UseCalls -> UseCall] BY <1>1 DEF UseInv, UseCall, NotUsing
<1>4. uses' = [uses EXCEPT ![u].granted = @ + 1] \/ uses' = [uses EXCEPT ![u].lost = @ + 1]
  BY DEF UseBalance
<1>5. ASSUME NEW v \in Players PROVE IsFiniteSet(PaidSet(v)') /\ UseIsPaid(v)'
  <2>1. IsFiniteSet(PaidSet(v)) /\ Cardinality(PaidSet(v)) \in Nat
    BY FS_CardinalityType DEF UseInv
  <2>2. PaidCalls(v) = Cardinality(PaidSet(v)) /\ PaidCalls(v)' = Cardinality(PaidSet(v)')
    BY DEF PaidCalls, PaidSet
  <2>3. UseIsPaid(v) /\ items[v] \in Nat /\ spent[v] \in Nat /\ uses[v].granted \in Nat /\ uses[v].lost \in Nat
    BY DEF UseInv
  <2>4. CASE v = u
    <3>1. PaidSet(v)' = PaidSet(v) \ {c} /\ c \in PaidSet(v)
      BY <1>1, <2>4 DEF PaidSet, UseInv, NotUsing
    <3>2. IsFiniteSet(PaidSet(v)') /\ PaidCalls(v)' = PaidCalls(v) - 1
      BY <2>1, <2>2, <3>1, FS_RemoveElement
    <3>3. uses'[v].granted + uses'[v].lost = uses[v].granted + uses[v].lost + 1
      <4>1. CASE uses' = [uses EXCEPT ![u].granted = @ + 1]
        BY <2>3, <2>4, <4>1 DEF UseInv
      <4>2. CASE uses' = [uses EXCEPT ![u].lost = @ + 1]
        BY <2>3, <2>4, <4>2 DEF UseInv
      <4> QED BY <1>4, <4>1, <4>2
    <3>4. uses'[v].granted \in Int /\ uses'[v].lost \in Int
      BY <1>2, <1>4, <2>3, <2>4 DEF UseInv
    <3>5. CoinUses(v)' = CoinUses(v)
      BY <1>1, <2>1, <2>2, <2>3, <3>2, <3>3, <3>4, WalletAssumption DEF CoinUses
    <3> QED BY <1>1, <2>1, <2>3, <3>2, <3>5 DEF UseIsPaid
  <2>5. CASE v # u
    <3>1. PaidSet(v)' = PaidSet(v) BY <1>1, <2>5 DEF PaidSet, UseInv, NotUsing
    <3>2. uses'[v] = uses[v] BY <1>4, <2>5 DEF UseInv
    <3> QED BY <1>1, <2>1, <2>2, <2>3, <3>1, <3>2 DEF UseIsPaid, CoinUses
  <2> QED BY <2>4, <2>5
<1>6. uses' \in [Players -> [granted : Nat, lost : Nat]]
  <2>1. CASE uses' = [uses EXCEPT ![u].granted = @ + 1]
    <3> HIDE DEF u
    <3> QED BY <1>2, <2>1 DEF UseInv
  <2>2. CASE uses' = [uses EXCEPT ![u].lost = @ + 1]
    <3> HIDE DEF u
    <3> QED BY <1>2, <2>2 DEF UseInv
  <2> QED BY <1>4, <2>1, <2>2
<1> QED BY <1>1, <1>3, <1>5, <1>6 DEF UseInv

-----------------------------------------------------------------------------
\* A receipt is credited with its row, and the row stays its first account's.
LEMMA VerifyKeeps ==
  ASSUME RowsAreFine, PurchaseInv, NEW u \in Players, NEW r \in Receipts, VerifyBazaar(u, r)
  PROVE  RowsAreFine' /\ PurchaseInv'
<1>1. CASE ProductKind[r] = "coins" /\ CreditCoins(u, r)
  <2>1. RowsAreFine'
    BY <1>1, WalletAssumption DEF CreditCoins, VerifyBazaar, RowsAreFine, Row
  <2>2. /\ purchase[r] = NoPlayer /\ purchase' = [purchase EXCEPT ![r] = u]
        /\ credited' = [credited EXCEPT ![r] = @ + 1]
    BY <1>1 DEF CreditCoins
  <2>3. credited[r] = 0 BY <1>1, <2>2 DEF PurchaseInv, PacksCreditOnce
  <2>4. PacksCreditOnce'
    BY <1>1, <2>2, <2>3, WalletAssumption DEF PurchaseInv, PacksCreditOnce
  <2> QED BY <2>1, <2>2, <2>4 DEF PurchaseInv
<1>2. CASE ProductKind[r] # "coins" /\ ApplyPremium(u, r, PremiumUntil(r))
  <2>1. PremiumUntil(r) \in Nat
    BY WalletAssumption DEF PremiumUntil, Later, Earlier, RowsAreFine
  <2>2. RowsAreFine'
    <3>1. row' = [row EXCEPT ![u].premium = Later(@, PremiumUntil(r))] /\ today' = today
      BY <1>2 DEF ApplyPremium, VerifyBazaar
    <3> QED BY <2>1, <3>1 DEF RowsAreFine, Row, Later
  <2>3. purchase' = [purchase EXCEPT ![r] = u] /\ credited' = credited BY <1>2 DEF ApplyPremium
  <2>4. PacksCreditOnce' BY <1>2, <2>3 DEF PurchaseInv, PacksCreditOnce
  <2> QED BY <2>2, <2>3, <2>4 DEF PurchaseInv
<1> QED BY <1>1, <1>2 DEF VerifyBazaar

\* PayUse never takes a balance below zero.
LEMMA SpendKeeps ==
  ASSUME RowsAreFine, UseInv, NEW c \in UseCalls, PayUse(c)
  PROVE  RowsAreFine'
<1> DEFINE u == useCall[c].user
<1>1. u \in Players BY DEF PayUse, UseInv, UseCall
<1>2. CASE SpendCoins(u, PowerupPrice)
  <2>1. row[u].coins >= PowerupPrice /\ row' = [row EXCEPT ![u].coins = @ - PowerupPrice]
    BY <1>2 DEF SpendCoins
  <2>2. today' = today BY DEF PayUse
  <2> HIDE DEF u
  <2> QED BY <1>1, <2>1, <2>2, WalletAssumption DEF RowsAreFine, Row
<1>3. CASE row' = row BY <1>3 DEF PayUse, RowsAreFine
<1> QED BY <1>2, <1>3 DEF PayUse

LEMMA WalletNextInv == WalletInv /\ [WalletNext]_walletVars => WalletInv'
<1> SUFFICES ASSUME WalletInv, [WalletNext]_walletVars PROVE WalletInv'
  OBVIOUS
<1> USE DEF WalletInv
<1>1. ASSUME NEW u \in Players, NEW c \in UseCalls, UseItem(c, u) PROVE WalletInv'
  <2>1. RowsAreFine' /\ PurchaseInv' BY <1>1, PurchasesStay DEF UseItem, RowsAreFine
  <2> QED BY <1>1, <2>1, UseItemKeeps
<1>2. ASSUME NEW u \in Players, NEW r \in Receipts, VerifyBazaar(u, r) PROVE WalletInv'
  <2>1. UseInv' BY <1>2, UsesStay DEF VerifyBazaar
  <2> QED BY <1>2, <2>1, VerifyKeeps
<1>3. ASSUME NEW u \in Players, ClaimRewardedAd(u) PROVE WalletInv'
  <2>1. RowsAreFine' BY <1>3, WalletAssumption DEF ClaimRewardedAd, RowsAreFine, Row
  <2> QED BY <1>3, <2>1, UsesStay, PurchasesStay DEF ClaimRewardedAd
<1>4. ASSUME NEW u \in Players, SetAvatar(u) PROVE WalletInv'
  <2>1. RowsAreFine' BY <1>4 DEF SetAvatar, RowsAreFine, Row
  <2> QED BY <1>4, <2>1, UsesStay, PurchasesStay DEF SetAvatar
<1>5. ASSUME NEW c \in UseCalls, PayUse(c) PROVE WalletInv'
  BY <1>5, SpendKeeps, PayUseKeeps, PurchasesStay DEF PayUse
<1>6. ASSUME NEW c \in UseCalls, UseBalance(c) PROVE WalletInv'
  <2>1. RowsAreFine' /\ PurchaseInv' BY <1>6, PurchasesStay DEF UseBalance, RowsAreFine
  <2> QED BY <1>6, <2>1, UseBalanceKeeps
<1>7. CASE NextDayComes
  <2>1. RowsAreFine' BY <1>7, WalletAssumption DEF NextDayComes, RowsAreFine
  <2> QED BY <1>7, <2>1, UsesStay, PurchasesStay DEF NextDayComes
<1>8. CASE UNCHANGED walletVars
  <2>1. RowsAreFine' BY <1>8 DEF walletVars, RowsAreFine
  <2> QED BY <1>8, <2>1, UsesStay, PurchasesStay DEF walletVars
<1> QED BY <1>1, <1>2, <1>3, <1>4, <1>5, <1>6, <1>7, <1>8 DEF WalletNext

LEMMA WalletInvSays == WalletInv => WalletTypeOK /\ WalletIsSound
BY DEF WalletInv, RowsAreFine, PurchaseInv, UseInv, WalletTypeOK, WalletIsSound, UsesArePaid,
       UseIsPaid, Row

-----------------------------------------------------------------------------
(* The operators' edits and the audit log                                    *)

Profile == [name : Names, banned : BOOLEAN, gifts : Nat]
Shown   == [coins : Nat, avatar : BOOLEAN, name : Names, banned : BOOLEAN]
EditOps == {"coins", "gift", "premium_grant", "premium_revoke", "avatar_clear", "rename", "ban", "unban"}
Values  == Nat \cup BOOLEAN \cup Names
Said    == {Untold} \cup {<<v>> : v \in Values}
Edit     == [op : EditOps, user : Players, before : Said, after : Said]
LogEntry == [n : Nat, op : EditOps, user : Players, before : Said, after : Said]
PageState ==
  {NoPage} \cup [pc : {"page"}, user : Players, shown : Shown]
  \cup [pc : {"rename"}, user : Players, shown : Shown, name : Names]
  \cup [pc : {"log"}, user : Players, shown : Shown, entry : LogEntry]

EditTypes ==
  /\ profile \in [Players -> Profile]
  /\ edit \in [Editors -> PageState]
  /\ changes \in Seq(Edit) /\ Len(changes) <= MaxEdits
  /\ audit \in Seq(LogEntry)

\* An entry tells of an edit that was made.
Tells(e) == e.n \in 1 .. Len(changes) /\ EntryIsTrue(e, changes[e.n])

\* The entries on their way to the log are as true as those in it, and each edit has one
\* entry, here or there.
Logging(c) == edit[c].pc = "log"
EntriesTell ==
  /\ \A i \in 1 .. Len(audit) : Tells(audit[i])
  /\ \A c \in Editors : Logging(c) => Tells(edit[c].entry)
EntriesDiffer ==
  /\ \A i, j \in 1 .. Len(audit) : audit[i].n = audit[j].n => i = j
  /\ \A c \in Editors, i \in 1 .. Len(audit) : Logging(c) => edit[c].entry.n # audit[i].n
  /\ \A c, d \in Editors : Logging(c) /\ Logging(d) /\ edit[c].entry.n = edit[d].entry.n => c = d

EditInv == EditTypes /\ EntriesTell /\ EntriesDiffer

LEMMA EditInitInv == EditInit => EditInv
<1> SUFFICES ASSUME EditInit PROVE EditInv
  OBVIOUS
<1>1. EditTypes
  BY AdminUsersAssumption DEF EditInit, EditTypes, Profile, PageState
<1>2. Len(audit) = 0 /\ \A c \in Editors : ~Logging(c) BY DEF EditInit, Logging, NoPage
<1>3. \A i \in 1 .. Len(audit) : FALSE BY <1>2
<1>4. EntriesTell /\ EntriesDiffer BY <1>2, <1>3 DEF EntriesTell, EntriesDiffer
<1> QED BY <1>1, <1>4 DEF EditInv

\* A tab goes to another page, and logs nothing.
LEMMA PageTurns ==
  ASSUME EditInv, NEW c \in Editors, NEW s \in PageState, s.pc # "log",
         edit' = [edit EXCEPT ![c] = s], UNCHANGED <<audit, changes>>,
         profile' \in [Players -> Profile]
  PROVE  EditInv'
<1>1. EditTypes' BY DEF EditInv, EditTypes
<1>2. \A d \in Editors : Logging(d)' => Logging(d) /\ edit'[d] = edit[d]
  BY DEF EditInv, EditTypes, Logging
<1>3. EntriesTell' BY <1>2 DEF EditInv, EntriesTell, Tells
<1>4. EntriesDiffer' BY <1>2 DEF EditInv, EntriesDiffer
<1> QED BY <1>1, <1>3, <1>4 DEF EditInv

LEMMA PagesStay ==
  ASSUME EditInv, UNCHANGED <<edit, audit, changes>>, profile' \in [Players -> Profile]
  PROVE  EditInv'
BY DEF EditInv, EditTypes, EntriesTell, EntriesDiffer, Tells, Logging

\* The edit is the last one, and the entry that comes with it the only one to tell of it.
LEMMA EditIsTold ==
  ASSUME EditInv, NEW c \in Editors, NEW u \in Players, NEW op \in EditOps,
         NEW before \in Values, NEW after \in Values, NEW old \in Said, NEW new \in {Untold, <<after>>},
         op # "rename" => old \in {Untold, <<before>>},
         edit[c].pc \in {"page", "rename"}, Len(changes) < MaxEdits,
         Change(op, u, before, after), Entry(c, op, u, old, new),
         profile' \in [Players -> Profile]
  PROVE  EditInv'
<1> PICK b, w : b = <<before>> /\ w = <<after>> OBVIOUS
<1> PICK x : x = [op |-> op, user |-> u, before |-> b, after |-> w] OBVIOUS
<1> PICK e : e = [n |-> Len(changes) + 1, op |-> op, user |-> u, before |-> old, after |-> new]
  OBVIOUS
<1> PICK s : s = [pc |-> "log", user |-> u, shown |-> edit[c].shown, entry |-> e] OBVIOUS
<1>0. b \in Said /\ w \in Said /\ new \in Said BY DEF Said
<1>1. changes' = Append(changes, x) /\ edit' = [edit EXCEPT ![c] = s] /\ audit' = audit
  BY DEF Change, Entry
<1>2. changes \in Seq(Edit) /\ Len(changes) \in Nat /\ x \in Edit BY <1>0 DEF EditInv, EditTypes, Edit
<1>3. e \in LogEntry BY <1>0, <1>2 DEF LogEntry
<1>4. edit[c].shown \in Shown BY DEF EditInv, EditTypes, PageState, NoPage
<1>5. s \in PageState BY <1>3, <1>4 DEF PageState
<1>6. s.pc = "log" /\ s.entry = e OBVIOUS
<1>7. e.n = Len(changes) + 1 /\ EntryIsTrue(e, x) BY DEF EntryIsTrue
<1>8. /\ changes' \in Seq(Edit) /\ Len(changes') = Len(changes) + 1
      /\ changes'[Len(changes) + 1] = x /\ \A i \in 1 .. Len(changes) : changes'[i] = changes[i]
  BY <1>1, <1>2
<1>9. EditTypes' BY <1>1, <1>2, <1>5, <1>8, AdminUsersAssumption DEF EditInv, EditTypes
<1>10. \A f : Tells(f) => Tells(f)'
  <2> SUFFICES ASSUME NEW f, Tells(f) PROVE f.n \in 1 .. Len(changes') /\ EntryIsTrue(f, changes'[f.n])
    BY DEF Tells, EntryIsTrue
  <2>1. f.n \in 1 .. Len(changes) BY DEF Tells
  <2> QED BY <1>2, <1>8, <2>1 DEF Tells
<1>11. Tells(e)' 
  <2>1. e.n \in 1 .. Len(changes') /\ changes'[e.n] = x BY <1>2, <1>7, <1>8
  <2> QED BY <1>7, <2>1 DEF Tells, EntryIsTrue
<1>12. edit'[c] = s /\ \A d \in Editors : d # c => edit'[d] = edit[d]
  BY <1>1 DEF EditInv, EditTypes
<1>13. \A i \in 1 .. Len(audit) : Tells(audit[i])' BY <1>1, <1>10 DEF EditInv, EntriesTell, Tells
<1>14. ASSUME NEW d \in Editors, Logging(d)' PROVE Tells(edit[d].entry)'
  <2>1. CASE d = c BY <1>6, <1>11, <1>12, <2>1 DEF Tells
  <2>2. CASE d # c
    <3>1. edit'[d] = edit[d] /\ Logging(d) BY <1>12, <1>14, <2>2 DEF Logging
    <3>2. Tells(edit[d].entry) BY <3>1 DEF EditInv, EntriesTell
    <3> PICK f : f = edit[d].entry OBVIOUS
    <3>3. Tells(f)' BY <1>10, <3>2
    <3> QED BY <3>1, <3>3 DEF Tells
  <2> QED BY <2>1, <2>2
<1>15. EntriesTell' BY <1>1, <1>13, <1>14 DEF EntriesTell
<1>16. /\ \A i \in 1 .. Len(audit) : audit[i].n # e.n
       /\ \A d \in Editors : Logging(d) => edit[d].entry.n # e.n
  <2>1. \A f : Tells(f) => f.n # e.n BY <1>2, <1>7 DEF Tells
  <2> QED BY <2>1 DEF EditInv, EntriesTell
<1>17. EntriesDiffer'
  <2>1. \A d \in Editors, i \in 1 .. Len(audit') : Logging(d)' => edit'[d].entry.n # audit'[i].n
    BY <1>1, <1>6, <1>12, <1>16 DEF EditInv, EntriesDiffer, Logging
  <2>2. ASSUME NEW a \in Editors, NEW d \in Editors, Logging(a)', Logging(d)',
               edit'[a].entry.n = edit'[d].entry.n
        PROVE  a = d
    <3>1. CASE a # c /\ d # c BY <1>12, <2>2, <3>1 DEF EditInv, EntriesDiffer, Logging
    <3>2. CASE a = c /\ d # c
      <4>1. edit'[d] = edit[d] /\ Logging(d) BY <1>12, <2>2, <3>2 DEF Logging
      <4> QED BY <1>6, <1>12, <1>16, <2>2, <3>2, <4>1
    <3>3. CASE a # c /\ d = c
      <4>1. edit'[a] = edit[a] /\ Logging(a) BY <1>12, <2>2, <3>3 DEF Logging
      <4> QED BY <1>6, <1>12, <1>16, <2>2, <3>3, <4>1
    <3> QED BY <3>1, <3>2, <3>3
  <2> QED BY <1>1, <2>1, <2>2 DEF EditInv, EntriesDiffer
<1> QED BY <1>9, <1>15, <1>17 DEF EditInv

\* The log takes an entry from the tab that made it.
LEMMA LogKeeps ==
  ASSUME EditInv, NEW c \in Editors, LogRecord(c)
  PROVE  EditInv'
<1> DEFINE s == [pc |-> "page", user |-> edit[c].user, shown |-> edit[c].shown]
<1>1. /\ Logging(c) /\ edit' = [edit EXCEPT ![c] = s] /\ UNCHANGED <<profile, changes>>
      /\ (audit' = Append(audit, edit[c].entry) \/ audit' = audit)
  BY DEF LogRecord, Logging
<1>2. edit[c].user \in Players /\ edit[c].shown \in Shown /\ edit[c].entry \in LogEntry
  BY <1>1 DEF EditInv, EditTypes, PageState, NoPage, Logging
<1>3. s \in PageState /\ s.pc # "log" BY <1>2 DEF PageState
<1> HIDE DEF s
<1>4. CASE audit' = audit
  BY <1>1, <1>3, <1>4, PageTurns DEF EditInv, EditTypes
<1>5. CASE audit' = Append(audit, edit[c].entry)
  <2> PICK e \in LogEntry : e = edit[c].entry BY <1>2
  <2>1. audit \in Seq(LogEntry) /\ Len(audit) \in Nat BY DEF EditInv, EditTypes
  <2> PICK n \in Nat : n = Len(audit) BY <2>1
  <2>2. /\ audit' \in Seq(LogEntry) /\ Len(audit') = n + 1
        /\ audit'[n + 1] = e /\ \A i \in 1 .. n : audit'[i] = audit[i]
    BY <1>5, <2>1
  <2>3. edit'[c] = s /\ \A d \in Editors : d # c => edit'[d] = edit[d]
    BY <1>1 DEF EditInv, EditTypes
  <2>4. \A d \in Editors : Logging(d)' => d # c /\ Logging(d) /\ edit'[d] = edit[d]
    BY <1>3, <2>3 DEF Logging
  <2>5. EditTypes' BY <1>1, <1>3, <2>2 DEF EditInv, EditTypes
  <2>6. Tells(e) BY <1>1 DEF EditInv, EntriesTell
  <2>7. \A i \in 1 .. n + 1 : i \in 1 .. n \/ i = n + 1 OBVIOUS
  <2>8. \A i \in 1 .. Len(audit') : Tells(audit'[i])
    BY <2>2, <2>6, <2>7 DEF EditInv, EntriesTell
  <2>9. EntriesTell'
    <3>1. \A i \in 1 .. Len(audit') : Tells(audit[i])' BY <1>1, <2>8 DEF Tells
    <3>2. \A d \in Editors : Logging(d)' => Tells(edit[d].entry)'
      BY <1>1, <2>4 DEF EditInv, EntriesTell, Tells
    <3> QED BY <3>1, <3>2 DEF EntriesTell
  <2>10. \A i \in 1 .. n : audit[i].n # e.n BY <1>1 DEF EditInv, EntriesDiffer
  <2>11. \A d \in Editors : d # c /\ Logging(d) => edit[d].entry.n # e.n
    BY <1>1 DEF EditInv, EntriesDiffer
  <2>12. ASSUME NEW i \in 1 .. Len(audit'), NEW j \in 1 .. Len(audit'), audit'[i].n = audit'[j].n
         PROVE  i = j
    <3>1. CASE i \in 1 .. n /\ j \in 1 .. n
      <4>1. audit[i].n = audit[j].n BY <2>2, <2>12, <3>1
      <4> QED BY <3>1, <4>1 DEF EditInv, EntriesDiffer
    <3>2. CASE i = n + 1 /\ j \in 1 .. n BY <2>2, <2>10, <2>12, <3>2
    <3>3. CASE i \in 1 .. n /\ j = n + 1 BY <2>2, <2>10, <2>12, <3>3
    <3> QED BY <2>2, <2>7, <3>1, <3>2, <3>3
  <2>13. ASSUME NEW d \in Editors, NEW i \in 1 .. Len(audit'), Logging(d)'
         PROVE  edit'[d].entry.n # audit'[i].n
    <3>1. d # c /\ Logging(d) /\ edit'[d] = edit[d] BY <2>4, <2>13
    <3>2. CASE i \in 1 .. n BY <2>2, <3>1, <3>2 DEF EditInv, EntriesDiffer
    <3>3. CASE i = n + 1 BY <2>2, <2>11, <3>1, <3>3
    <3> QED BY <2>2, <2>7, <3>2, <3>3
  <2>14. \A a, d \in Editors : Logging(a)' /\ Logging(d)' /\ edit'[a].entry.n = edit'[d].entry.n => a = d
    BY <2>4 DEF EditInv, EntriesDiffer
  <2> QED BY <2>5, <2>9, <2>12, <2>13, <2>14 DEF EditInv, EntriesDiffer
<1> QED BY <1>1, <1>4, <1>5

-----------------------------------------------------------------------------
\* What an operator sees is of the types of the rows.
LEMMA PageIsShown ==
  ASSUME RowsAreFine, EditTypes, NEW u \in Players
  PROVE  Page(u) \in Shown
BY DEF RowsAreFine, Row, EditTypes, Profile, Page, Shown

LEMMA TypedEditing ==
  ASSUME RowsAreFine, EditTypes, NEW c \in Editors, NEW u \in Players, Editing(c, u)
  PROVE  /\ edit[c].pc = "page" /\ edit[c].shown \in Shown /\ Len(changes) < MaxEdits
         /\ row[u] \in Row /\ profile[u] \in Profile
         /\ \A v \in Nat \cup BOOLEAN \cup Names : v \in Values
BY DEF Editing, EditTypes, PageState, NoPage, RowsAreFine, Values

LEMMA OpenKeeps ==
  ASSUME RowsAreFine, EditInv, NEW c \in Editors, NEW u \in Players, OpenUser(c, u)
  PROVE  EditInv'
<1>1. Page(u) \in Shown BY PageIsShown DEF EditInv
<1> PICK s : s = [pc |-> "page", user |-> u, shown |-> Page(u)] OBVIOUS
<1>2. s \in PageState /\ s.pc # "log" BY <1>1 DEF PageState
<1>3. edit' = [edit EXCEPT ![c] = s] BY DEF OpenUser
<1>4. UNCHANGED <<audit, changes, profile>> BY DEF OpenUser
<1> QED BY <1>2, <1>3, <1>4, PageTurns DEF EditInv, EditTypes

LEMMA AdjustKeeps ==
  ASSUME RowsAreFine, EditInv, NEW c \in Editors, NEW u \in Players, NEW delta \in Deltas,
         AdjustCoins(c, u, delta)
  PROVE  RowsAreFine' /\ EditInv'
<1>1. Editing(c, u) /\ profile' = profile BY DEF AdjustCoins
<1>2. row[u].coins \in Nat /\ delta \in Int BY AdminUsersAssumption DEF RowsAreFine, Row
<1> PICK balance : balance = row[u].coins + delta OBVIOUS
<1>3. /\ balance \in Nat /\ balance - delta = row[u].coins
      /\ row' = [row EXCEPT ![u].coins = balance] /\ today' = today
      /\ Change("coins", u, row[u].coins, balance)
      /\ Entry(c, "coins", u, <<balance - delta>>, <<balance>>)
  BY <1>2, WalletAssumption DEF AdjustCoins, SetCoins, WalletRest
<1>4. RowsAreFine' BY <1>3 DEF RowsAreFine, Row
<1>5. EditInv'
  <2>1. row[u].coins \in Values /\ balance \in Values BY <1>2, <1>3 DEF Values
  <2>2. "coins" \in EditOps /\ profile' \in [Players -> Profile] BY <1>1 DEF EditOps, EditInv, EditTypes
  <2>3. edit[c].pc = "page" /\ Len(changes) < MaxEdits BY <1>1 DEF Editing
  <2>4. Entry(c, "coins", u, <<row[u].coins>>, <<balance>>) BY <1>3
  <2>5. <<row[u].coins>> \in Said BY <2>1 DEF Said
  <2> QED BY <1>3, <2>1, <2>2, <2>3, <2>4, <2>5, EditIsTold
<1> QED BY <1>4, <1>5

LEMMA GiftsAdded ==
  ASSUME NEW p \in [Players -> Profile], NEW u \in Players
  PROVE  [p EXCEPT ![u].gifts = @ + 1] \in [Players -> Profile]
BY DEF Profile

LEMMA GiftsTaken ==
  ASSUME NEW p \in [Players -> Profile], NEW u \in Players, p[u].gifts > 0
  PROVE  [p EXCEPT ![u].gifts = @ - 1] \in [Players -> Profile]
BY DEF Profile

LEMMA GiveKeeps ==
  ASSUME RowsAreFine, EditInv, NEW c \in Editors, NEW u \in Players, GiveReward(c, u)
  PROVE  EditInv'
<1>1. edit[c].pc = "page" /\ Len(changes) < MaxEdits BY DEF GiveReward, Editing
<1>2. profile[u].gifts \in Nat BY DEF EditInv, EditTypes, Profile
<1>3. profile' \in [Players -> Profile]
  BY GiftsAdded DEF GiveReward, EditInv, EditTypes
<1> PICK b, a : b = profile[u].gifts /\ a = profile[u].gifts + 1 OBVIOUS
<1>4. b \in Values /\ a \in Values /\ "gift" \in EditOps BY <1>2 DEF Values, EditOps
<1>5. Change("gift", u, b, a) /\ Entry(c, "gift", u, Untold, Untold) BY DEF GiveReward
<1>6. Untold \in Said BY DEF Said
<1> QED BY <1>1, <1>3, <1>4, <1>5, <1>6, EditIsTold

LEMMA PremiumKeeps ==
  ASSUME RowsAreFine, EditInv, NEW c \in Editors, NEW u \in Players,
         GrantPremium(c, u) \/ RevokePremium(c, u)
  PROVE  RowsAreFine' /\ EditInv'
<1>1. edit[c].pc = "page" /\ Len(changes) < MaxEdits /\ profile' = profile /\ today' = today
  BY DEF GrantPremium, RevokePremium, Editing, WalletRest
<1> PICK op, a, new : /\ op \in {"premium_grant", "premium_revoke"} /\ (a = ExtendPremium(u) \/ a = 0)
                      /\ new \in {Untold, <<a>>} /\ row' = [row EXCEPT ![u].premium = a]
                      /\ Change(op, u, row[u].premium, a) /\ Entry(c, op, u, Untold, new)
  <2>1. CASE GrantPremium(c, u) BY <2>1 DEF GrantPremium
  <2>2. CASE RevokePremium(c, u) BY <2>2 DEF RevokePremium
  <2> QED BY <2>1, <2>2
<1>2. row[u].premium \in Nat BY DEF RowsAreFine, Row
<1>3. a \in Nat
  BY <1>2, AdminUsersAssumption, WalletAssumption DEF ExtendPremium, Later, RowsAreFine
<1>4. RowsAreFine' BY <1>1, <1>3 DEF RowsAreFine, Row
<1> PICK b : b = row[u].premium OBVIOUS
<1>5. b \in Values /\ a \in Values /\ op \in EditOps /\ Untold \in Said BY <1>2, <1>3 DEF Values, EditOps, Said
<1>6. Change(op, u, b, a) /\ Entry(c, op, u, Untold, new) OBVIOUS
<1>7. EditInv' BY <1>1, <1>5, <1>6, EditIsTold DEF EditInv, EditTypes
<1> QED BY <1>4, <1>7

LEMMA ClearKeeps ==
  ASSUME RowsAreFine, EditInv, NEW c \in Editors, NEW u \in Players, ClearAvatar(c, u)
  PROVE  RowsAreFine' /\ EditInv'
<1>1. /\ edit[c].pc = "page" /\ Len(changes) < MaxEdits /\ profile' = profile /\ today' = today
      /\ row' = [row EXCEPT ![u].avatar = FALSE]
  BY DEF ClearAvatar, Editing, WalletRest
<1>2. RowsAreFine' BY <1>1 DEF RowsAreFine, Row
<1>3. row[u].avatar \in BOOLEAN BY DEF RowsAreFine, Row
<1> PICK b, a : b = row[u].avatar /\ a = FALSE OBVIOUS
<1>4. b \in Values /\ a \in Values BY <1>3 DEF Values
<1>5. "avatar_clear" \in EditOps /\ <<b>> \in Said BY <1>4 DEF EditOps, Said
<1>6. Change("avatar_clear", u, b, a) /\ Entry(c, "avatar_clear", u, <<b>>, Untold) BY DEF ClearAvatar
<1>7. EditInv' BY <1>1, <1>4, <1>5, <1>6, EditIsTold DEF EditInv, EditTypes
<1> QED BY <1>2, <1>7

LEMMA BanKeeps ==
  ASSUME RowsAreFine, EditInv, NEW c \in Editors, NEW u \in Players, NEW banned \in BOOLEAN,
         SetBanned(c, u, banned)
  PROVE  EditInv'
<1>1. edit[c].pc = "page" /\ Len(changes) < MaxEdits BY DEF SetBanned, Editing
<1>2. profile' \in [Players -> Profile] BY DEF SetBanned, BanUser, EditInv, EditTypes, Profile
<1> PICK b, a : b = ~banned /\ a = banned OBVIOUS
<1>3. b \in BOOLEAN /\ a \in BOOLEAN OBVIOUS
<1>4. b \in Values /\ a \in Values BY <1>3 DEF Values
<1> PICK op : op = IF banned THEN "ban" ELSE "unban" OBVIOUS
<1>5. op \in EditOps /\ op # "rename" /\ Untold \in Said BY DEF EditOps, Said
<1>6. Change(op, u, b, a) /\ Entry(c, op, u, Untold, Untold) BY DEF SetBanned
<1> QED BY <1>1, <1>2, <1>4, <1>5, <1>6, EditIsTold

LEMMA ReadNameKeeps ==
  ASSUME RowsAreFine, EditInv, NEW c \in Editors, NEW u \in Players, NEW name \in Names,
         ReadName(c, u, name)
  PROVE  EditInv'
<1>1. edit[c].shown \in Shown /\ profile[u].name \in Names
  BY TypedEditing DEF ReadName, EditInv, Profile
<1> PICK s : s = [pc |-> "rename", user |-> u, shown |-> [edit[c].shown EXCEPT !.name = profile[u].name],
                  name |-> name]
  OBVIOUS
<1>2. [edit[c].shown EXCEPT !.name = profile[u].name] \in Shown BY <1>1 DEF Shown
<1>3. s \in PageState /\ s.pc # "log" BY <1>2 DEF PageState
<1>4. edit' = [edit EXCEPT ![c] = s] /\ UNCHANGED <<audit, changes, profile>> BY DEF ReadName
<1> QED BY <1>3, <1>4, PageTurns DEF EditInv, EditTypes

\* The old name in the entry is the one that was read; the new one is the edit's.
LEMMA RenameKeeps ==
  ASSUME EditInv, NEW c \in Editors, Rename(c)
  PROVE  EditInv'
<1>1. edit[c].pc = "rename" /\ Len(changes) < MaxEdits BY DEF Rename
<1>2. edit[c].user \in Players /\ edit[c].name \in Names /\ edit[c].shown.name \in Names
  BY <1>1 DEF EditInv, EditTypes, PageState, NoPage, Shown
<1> PICK u, name, old : u = edit[c].user /\ name = edit[c].name /\ old = edit[c].shown.name
  OBVIOUS
<1>3. /\ UpdateUsername(u, name) /\ Change("rename", u, profile[u].name, name)
      /\ Entry(c, "rename", u, <<old>>, <<name>>)
  BY DEF Rename
<1>4. profile' \in [Players -> Profile] BY <1>2, <1>3 DEF UpdateUsername, EditInv, EditTypes, Profile
<1>5. profile[u].name \in Names BY <1>2 DEF EditInv, EditTypes, Profile
<1>6. profile[u].name \in Values /\ name \in Values /\ <<old>> \in Said /\ "rename" \in EditOps
  BY <1>2, <1>5 DEF Values, EditOps, Said
<1> QED BY <1>1, <1>2, <1>3, <1>4, <1>6, EditIsTold

LEMMA TakenKeeps ==
  ASSUME EditInv, NEW c \in Editors, NameTaken(c)
  PROVE  EditInv'
<1>1. edit[c].user \in Players /\ edit[c].shown \in Shown
  BY DEF NameTaken, EditInv, EditTypes, PageState, NoPage
<1> PICK s : s = [pc |-> "page", user |-> edit[c].user, shown |-> edit[c].shown] OBVIOUS
<1>2. s \in PageState /\ s.pc # "log" BY <1>1 DEF PageState
<1>3. edit' = [edit EXCEPT ![c] = s] /\ UNCHANGED <<audit, changes, profile>> BY DEF NameTaken
<1> QED BY <1>2, <1>3, PageTurns DEF EditInv, EditTypes

LEMMA GiftKeeps ==
  ASSUME RowsAreFine, EditInv, NEW u \in Players, ClaimGift(u)
  PROVE  RowsAreFine' /\ EditInv'
<1>1. RowsAreFine' BY AdminUsersAssumption DEF ClaimGift, WalletRest, RowsAreFine, Row
<1>2. profile[u].gifts \in Nat \ {0} BY DEF ClaimGift, EditInv, EditTypes, Profile
<1>3. profile' \in [Players -> Profile]
  BY <1>2, GiftsTaken DEF ClaimGift, EditInv, EditTypes
<1> QED BY <1>1, <1>3, PagesStay DEF ClaimGift

\* Operators change rows and profiles; uses and purchases are the players'.
EditsInv == WalletInv /\ EditInv

LEMMA EditsLeaveUses == EditNext => WalletRest
<1> SUFFICES ASSUME EditNext PROVE WalletRest
  OBVIOUS
<1>1. ASSUME NEW c \in Editors, NEW u \in Players,
             OpenUser(c, u) \/ GiveReward(c, u) \/ GrantPremium(c, u) \/ RevokePremium(c, u) \/ ClearAvatar(c, u)
      PROVE  WalletRest
  BY <1>1 DEF OpenUser, GiveReward, GrantPremium, RevokePremium, ClearAvatar, WalletRest, walletVars
<1>2. ASSUME NEW c \in Editors, NEW u \in Players, NEW delta \in Deltas, AdjustCoins(c, u, delta)
      PROVE  WalletRest
  BY <1>2 DEF AdjustCoins
<1>3. ASSUME NEW c \in Editors, NEW u \in Players, NEW name \in Names, ReadName(c, u, name)
      PROVE  WalletRest
  BY <1>3 DEF ReadName, WalletRest, walletVars
<1>4. ASSUME NEW c \in Editors, NEW u \in Players, NEW banned \in BOOLEAN, SetBanned(c, u, banned)
      PROVE  WalletRest
  BY <1>4 DEF SetBanned, WalletRest, walletVars
<1>5. ASSUME NEW c \in Editors, Rename(c) \/ NameTaken(c) \/ LogRecord(c) PROVE WalletRest
  BY <1>5 DEF Rename, NameTaken, LogRecord, WalletRest, walletVars
<1>6. ASSUME NEW u \in Players, ClaimGift(u) PROVE WalletRest BY <1>6 DEF ClaimGift
<1>7. ASSUME NEW u \in Players, NEW name \in Names, RenameSelf(u, name) PROVE WalletRest
  BY <1>7 DEF RenameSelf, WalletRest, walletVars
<1> QED BY <1>1, <1>2, <1>3, <1>4, <1>5, <1>6, <1>7 DEF EditNext

LEMMA EditStepKeeps ==
  ASSUME WalletInv, EditInv, EditNext
  PROVE  WalletInv' /\ EditInv'
<1> USE DEF WalletInv
<1>1. UNCHANGED <<items, purchase, useCall, spent, uses, credited, today>>
  BY EditsLeaveUses DEF WalletRest
<1>2. UseInv' /\ PurchaseInv' BY <1>1, UsesStay, PurchasesStay
<1>3. row' = row => RowsAreFine' BY <1>1 DEF RowsAreFine
<1>4. ASSUME NEW c \in Editors, NEW u \in Players,
             OpenUser(c, u) \/ GiveReward(c, u) \/ (\E name \in Names : ReadName(c, u, name))
               \/ (\E banned \in BOOLEAN : SetBanned(c, u, banned))
      PROVE  RowsAreFine' /\ EditInv'
  <2>1. row' = row BY <1>4 DEF OpenUser, GiveReward, ReadName, SetBanned, walletVars
  <2> QED BY <1>3, <1>4, <2>1, OpenKeeps, GiveKeeps, ReadNameKeeps, BanKeeps
<1>5. ASSUME NEW c \in Editors, NEW u \in Players, GrantPremium(c, u) \/ RevokePremium(c, u)
      PROVE  RowsAreFine' /\ EditInv'
  BY <1>5, PremiumKeeps
<1>6. ASSUME NEW c \in Editors, NEW u \in Players, ClearAvatar(c, u) PROVE RowsAreFine' /\ EditInv'
  BY <1>6, ClearKeeps
<1>7. ASSUME NEW c \in Editors, NEW u \in Players, NEW delta \in Deltas, AdjustCoins(c, u, delta)
      PROVE  RowsAreFine' /\ EditInv'
  BY <1>7, AdjustKeeps
<1>8. ASSUME NEW c \in Editors, Rename(c) \/ NameTaken(c) \/ LogRecord(c)
      PROVE  RowsAreFine' /\ EditInv'
  <2>1. row' = row BY <1>8 DEF Rename, NameTaken, LogRecord, walletVars
  <2> QED BY <1>3, <1>8, <2>1, RenameKeeps, TakenKeeps, LogKeeps
<1>9. ASSUME NEW u \in Players, ClaimGift(u) PROVE RowsAreFine' /\ EditInv' BY <1>9, GiftKeeps
<1>10. ASSUME NEW u \in Players, NEW name \in Names, RenameSelf(u, name)
       PROVE  RowsAreFine' /\ EditInv'
  <2>1. row' = row /\ profile' \in [Players -> Profile]
    BY <1>10 DEF RenameSelf, UpdateUsername, walletVars, EditInv, EditTypes, Profile
  <2> QED BY <1>3, <1>10, <2>1, PagesStay DEF RenameSelf
<1> QED BY <1>2, <1>4, <1>5, <1>6, <1>7, <1>8, <1>9, <1>10 DEF EditNext

LEMMA EditsNextInv ==
  EditsInv /\ [EditNext \/ (WalletNext /\ UNCHANGED editVars)]_<<walletVars, editVars>> => EditsInv'
<1> SUFFICES ASSUME EditsInv, [EditNext \/ (WalletNext /\ UNCHANGED editVars)]_<<walletVars, editVars>>
             PROVE  EditsInv'
  OBVIOUS
<1>1. CASE EditNext BY <1>1, EditStepKeeps DEF EditsInv
<1>2. CASE [WalletNext]_walletVars /\ UNCHANGED editVars
  <2>1. profile' \in [Players -> Profile] BY <1>2 DEF editVars, EditsInv, EditInv, EditTypes
  <2> QED BY <1>2, <2>1, WalletNextInv, PagesStay DEF EditsInv, editVars
<1> QED BY <1>1, <1>2

LEMMA EditInvSays == EditInv => EditTypeOK /\ AuditIsTrue
<1> SUFFICES ASSUME EditInv PROVE EditTypeOK /\ AuditIsTrue
  OBVIOUS
<1>1. DOMAIN audit = 1 .. Len(audit) /\ DOMAIN changes = 1 .. Len(changes)
  BY DEF EditInv, EditTypes
<1>2. AuditIsTrue BY <1>1 DEF EditInv, EntriesTell, EntriesDiffer, Tells, AuditIsTrue
<1>3. \A c \in Editors : edit[c].pc \in {"none", "page", "rename", "log"}
  BY DEF EditInv, EditTypes, PageState, NoPage
<1>4. \A i \in 1 .. Len(audit) : audit[i].user \in Players /\ audit[i].n \in 1 .. Len(changes)
  <2>1. ASSUME NEW i \in 1 .. Len(audit) PROVE audit[i] \in LogEntry
    BY DEF EditInv, EditTypes
  <2> QED BY <2>1 DEF LogEntry, EditInv, EntriesTell, Tells
<1> QED BY <1>1, <1>2, <1>3, <1>4 DEF EditInv, EditTypes, EditTypeOK, Profile

\* Nobody plays for nothing, no use is paid twice, a pack is credited once per receipt,
\* and no balance goes below zero, for any players, calls, receipts and operators
\* (service/powerup.go, purchases.go, repository/user.go).
THEOREM WalletsAlwaysSound == AdminUsersSpec => [](WalletTypeOK /\ WalletIsSound)
<1>1. WalletInit /\ EditInit => EditsInv BY WalletInitInv, EditInitInv DEF EditsInv
<1>2. EditsInv => WalletTypeOK /\ WalletIsSound BY WalletInvSays DEF EditsInv
<1> QED BY <1>1, <1>2, EditsNextInv, PTL DEF AdminUsersSpec

\* The audit log tells what each edit has replaced and tells of none twice, for any
\* operators, players and edits (service/admin_users.go, admin_audit.go).
THEOREM AuditAlwaysTrue == AdminUsersSpec => [](EditTypeOK /\ AuditIsTrue)
<1>1. WalletInit /\ EditInit => EditsInv BY WalletInitInv, EditInitInv DEF EditsInv
<1>2. EditsInv => EditTypeOK /\ AuditIsTrue BY EditInvSays DEF EditsInv
<1> QED BY <1>1, <1>2, EditsNextInv, PTL DEF AdminUsersSpec

-----------------------------------------------------------------------------
(* Sessions of the panel                                                     *)

USE AdminAuthAssumption

Session    == [admin : Admins, age : Nat, ttl : Int]
LoginCall     == {Waiting} \cup [pc : {"lookup", "open", "count", "forget"}, admin : Admins, typed : Int]
Asking     == {Waiting} \cup [pc : {"row", "slide", "revoke"}, token : Tokens, admin : Admins, remaining : Int]
Ctl        == {Waiting} \cup [pc : {"list"}, admin : Admins]
              \cup [pc : {"del"}, admin : Admins, tokens : SUBSET Tokens]

PanelTypes ==
  /\ admin \in [Admins -> [exists : BOOLEAN, disabled : BOOLEAN, password : Int]]
  /\ stored \in [Tokens -> Session]
  /\ index \in [Admins -> [tokens : SUBSET Tokens, ttl : Int]]
  /\ drawn \subseteq Tokens /\ stray \subseteq Tokens
  /\ login \in [Logins -> LoginCall] /\ request \in [Requests -> Asking] /\ ctl \in Ctl

\* A live session was drawn once, and its time is over at the cap at the latest; the one
\* a request is about to slide is as old as when it was read.
LivesAreCapped == \A t \in Tokens : Live(t) => t \in drawn /\ stored[t].age + stored[t].ttl <= AbsTTL
Slides(q) == request[q].pc \in {"row", "slide"}
SlidesFit ==
  \A q \in Requests : Slides(q) =>
    /\ request[q].token \in drawn /\ request[q].remaining > 0
    /\ Live(request[q].token) => request[q].remaining = AbsTTL - stored[request[q].token].age

\* The set that lists a session outlives it, since it was renewed when the session was
\* opened or later; and a RevokeAll holds every session of its admin but the stray ones.
Listed(t) == LET i == index[stored[t].admin] IN t \in i.tokens /\ i.ttl >= AbsTTL - stored[t].age
LiveAreListed == \A t \in Tokens : Live(t) => Listed(t) \/ t \in stray
RevokesAll ==
  ctl.pc = "del" =>
    \A t \in Tokens : Live(t) /\ stored[t].admin = ctl.admin => t \in ctl.tokens \cup stray

PanelInv == PanelTypes /\ LivesAreCapped /\ SlidesFit /\ LiveAreListed /\ RevokesAll

LEMMA PanelInitInv == AdminAuthInit => PanelInv
<1> SUFFICES ASSUME AdminAuthInit PROVE PanelInv
  OBVIOUS
<1>1. PanelTypes
  BY DEF AdminAuthInit, PanelTypes, Session, LoginCall, Asking, Ctl, Expired, NoIndex, Waiting
<1>2. \A t \in Tokens : ~Live(t) BY DEF AdminAuthInit, Live, Expired
<1>3. ctl.pc # "del" /\ \A q \in Requests : ~Slides(q) BY DEF AdminAuthInit, Waiting, Slides
<1> QED BY <1>1, <1>2, <1>3 DEF PanelInv, LivesAreCapped, SlidesFit, LiveAreListed, RevokesAll

LEMMA CallsAreTyped ==
  ASSUME PanelInv
  PROVE  /\ \A l \in Logins : login[l].pc # "idle" => login[l].admin \in Admins
         /\ \A q \in Requests : request[q].pc # "idle" =>
              /\ request[q].token \in Tokens /\ request[q].admin \in Admins
              /\ request[q].remaining \in Int /\ request[q].pc \in {"row", "slide", "revoke"}
         /\ ctl.pc # "idle" => ctl.admin \in Admins
         /\ ctl.pc = "del" => ctl.tokens \subseteq Tokens
BY DEF PanelInv, PanelTypes, LoginCall, Asking, Ctl, Waiting

\* Whoever leaves sessions, requests and adminctl alone
LEMMA SessionsStay ==
  ASSUME PanelInv, UNCHANGED <<stored, index, drawn, stray, request, ctl>>,
         login' \in [Logins -> LoginCall],
         admin' \in [Admins -> [exists : BOOLEAN, disabled : BOOLEAN, password : Int]]
  PROVE  PanelInv'
BY DEF PanelInv, PanelTypes, LivesAreCapped, SlidesFit, Slides, LiveAreListed, Listed, RevokesAll, Live

\* A request that goes on with what it has read, or ends
LEMMA RequestGoesOn ==
  ASSUME PanelInv, NEW q \in Requests, NEW call \in Asking,
         request' = [request EXCEPT ![q] = call],
         call.pc \in {"row", "slide"} => Slides(q) /\ call.token = request[q].token
                                         /\ call.remaining = request[q].remaining,
         UNCHANGED <<admin, stored, index, drawn, stray, login, ctl>>
  PROVE  PanelInv'
<1>1. PanelTypes' BY DEF PanelInv, PanelTypes
<1>2. request'[q] = call /\ \A p \in Requests : p # q => request'[p] = request[p]
  BY DEF PanelInv, PanelTypes
<1>3. SlidesFit' BY <1>2 DEF PanelInv, SlidesFit, Slides, Live
<1> QED BY <1>1, <1>3 DEF PanelInv, LivesAreCapped, LiveAreListed, Listed, RevokesAll, Live

LEMMA AuthenticateKeeps ==
  ASSUME PanelInv, NEW q \in Requests, NEW t \in Tokens, Authenticate(q, t)
  PROVE  PanelInv'
<1>1. stored[t] \in Session BY DEF PanelInv, PanelTypes
<1>2. Live(t) /\ t \in drawn BY DEF Authenticate, PanelInv, LivesAreCapped
<1> PICK call : call = [pc |-> IF AbsTTL - stored[t].age <= 0 THEN "revoke" ELSE "row", token |-> t,
                        admin |-> stored[t].admin, remaining |-> AbsTTL - stored[t].age]
  OBVIOUS
<1>3. call \in Asking BY <1>1 DEF Asking, Session
<1>4. /\ call.pc \in {"row", "slide"} => call.remaining > 0
      /\ call.token = t /\ call.remaining = AbsTTL - stored[t].age
  BY <1>1 DEF Session
<1>5. request' = [request EXCEPT ![q] = call] /\ UNCHANGED <<admin, stored, index, drawn, stray, login, ctl>>
  BY DEF Authenticate, SetRequest
<1>6. PanelTypes' BY <1>3, <1>5 DEF PanelInv, PanelTypes
<1>7. request'[q] = call /\ \A p \in Requests : p # q => request'[p] = request[p]
  BY <1>5 DEF PanelInv, PanelTypes
<1>8. SlidesFit' BY <1>2, <1>4, <1>5, <1>7 DEF PanelInv, SlidesFit, Slides, Live
<1> QED BY <1>5, <1>6, <1>8 DEF PanelInv, LivesAreCapped, LiveAreListed, Listed, RevokesAll, Live

\* The window slides up to the cap and no further.
LEMMA SlideKeeps ==
  ASSUME PanelInv, NEW q \in Requests, Slide(q)
  PROVE  PanelInv'
<1> PICK t : t = request[q].token OBVIOUS
<1>1. /\ request[q].pc = "slide" /\ t \in Tokens /\ request[q] \in Asking
      /\ request[q].remaining \in Int /\ Slides(q)
  BY CallsAreTyped DEF Slide, Slides, PanelInv, PanelTypes
<1>2. PICK call \in Asking : request' = [request EXCEPT ![q] = call] /\ call.pc \notin {"row", "slide"}
  <2>1. Waiting \in Asking /\ Waiting.pc = "idle" BY DEF Asking, Waiting
  <2>2. [request[q] EXCEPT !.pc = "revoke"] \in Asking BY <1>1 DEF Asking, Waiting
  <2>3. [request[q] EXCEPT !.pc = "revoke"].pc = "revoke" BY <1>1 DEF Asking, Waiting
  <2> QED BY <2>1, <2>2, <2>3 DEF Slide, SetRequest
<1>3. UNCHANGED <<admin, index, drawn, stray, login, ctl>> BY DEF Slide
<1>4. request'[q] = call /\ \A p \in Requests : p # q => request'[p] = request[p]
  BY <1>2 DEF PanelInv, PanelTypes
<1>5. CASE ~Live(t)
  <2>1. stored' = stored BY <1>5 DEF Slide
  <2> QED BY <1>2, <1>3, <2>1, RequestGoesOn
<1>6. CASE Live(t)
  <2> PICK ttl : ttl = SlideTTL(request[q].remaining) OBVIOUS
  <2>1. stored' = [stored EXCEPT ![t].ttl = ttl] BY <1>6 DEF Slide
  <2>2. /\ ttl \in Int /\ ttl > 0 /\ stored[t].age + ttl <= AbsTTL /\ stored[t].age \in Int
    BY <1>1, <1>6 DEF SlideTTL, PanelInv, SlidesFit, PanelTypes, Session
  <2>3. stored' \in [Tokens -> Session] BY <1>1, <2>1, <2>2 DEF PanelInv, PanelTypes, Session
  <2>4. /\ stored'[t].ttl = ttl
        /\ \A s \in Tokens : /\ stored'[s].admin = stored[s].admin /\ stored'[s].age = stored[s].age
                             /\ s # t => stored'[s] = stored[s]
    BY <1>1, <2>1 DEF PanelInv, PanelTypes, Session
  <2>5. PanelTypes' BY <1>2, <1>3, <2>3 DEF PanelInv, PanelTypes
  <2>6. \A s \in Tokens : Live(s)' => Live(s) BY <1>6, <2>4 DEF Live
  <2>7. LivesAreCapped' BY <1>3, <2>2, <2>4, <2>6 DEF PanelInv, LivesAreCapped, Live
  <2>8. SlidesFit'
    <3> SUFFICES ASSUME NEW p \in Requests, Slides(p)'
                 PROVE  /\ request'[p].token \in drawn' /\ request'[p].remaining > 0
                        /\ Live(request[p].token)' =>
                             request'[p].remaining = AbsTTL - stored'[request'[p].token].age
      BY DEF SlidesFit
    <3>1. p # q /\ request'[p] = request[p] /\ Slides(p) BY <1>2, <1>4 DEF Slides
    <3>2. request[p].token \in Tokens BY <3>1, CallsAreTyped DEF Slides
    <3> PICK s \in Tokens : s = request[p].token BY <3>2
    <3>3. Live(s)' => Live(s) BY <2>6
    <3> QED BY <1>3, <2>4, <3>1, <3>3 DEF PanelInv, SlidesFit, Live
  <2>9. LiveAreListed' BY <1>3, <2>4, <2>6 DEF PanelInv, LiveAreListed, Listed
  <2>10. RevokesAll' BY <1>3, <2>4, <2>6 DEF PanelInv, RevokesAll
  <2> QED BY <2>5, <2>7, <2>8, <2>9, <2>10 DEF PanelInv
<1> QED BY <1>5, <1>6

\* A new session is in its admin's set, or the RevokeAll under way misses it.
LEMMA CreateSessionKeeps ==
  ASSUME PanelInv, NEW l \in Logins, NEW t \in Tokens, CreateSession(l, t)
  PROVE  PanelInv'
<1> PICK a : a = login[l].admin OBVIOUS
<1> PICK call : call = [login[l] EXCEPT !.pc = "forget"] OBVIOUS
<1>1. a \in Admins /\ login[l].pc = "open" /\ t \notin drawn /\ ~Live(t)
  BY CallsAreTyped DEF CreateSession, PanelInv, LivesAreCapped
<1>2. login[l] \in LoginCall /\ call \in LoginCall
  BY <1>1 DEF PanelInv, PanelTypes, LoginCall, Waiting
<1>3. /\ stored' = [stored EXCEPT ![t] = [admin |-> a, age |-> 0, ttl |-> IdleTTL]]
      /\ index' = [index EXCEPT ![a] = [tokens |-> index[a].tokens \cup {t}, ttl |-> AbsTTL]]
      /\ drawn' = drawn \cup {t} /\ login' = [login EXCEPT ![l] = call]
      /\ stray' = (IF ctl.pc = "del" /\ ctl.admin = a THEN stray \cup {t} ELSE stray)
      /\ UNCHANGED <<admin, request, ctl>>
  BY DEF CreateSession, SetIndex, SetLogin
<1>4. PanelTypes'
  <2>1. stored' \in [Tokens -> Session] BY <1>1, <1>3 DEF PanelInv, PanelTypes, Session
  <2>2. index' \in [Admins -> [tokens : SUBSET Tokens, ttl : Int]]
    BY <1>1, <1>3 DEF PanelInv, PanelTypes
  <2>3. login' \in [Logins -> LoginCall] BY <1>2, <1>3 DEF PanelInv, PanelTypes
  <2> QED BY <1>3, <2>1, <2>2, <2>3 DEF PanelInv, PanelTypes
<1>5. stored'[t].admin = a /\ stored'[t].age = 0 /\ stored'[t].ttl = IdleTTL
      /\ \A s \in Tokens : s # t => stored'[s] = stored[s]
  BY <1>3 DEF PanelInv, PanelTypes
<1>6. index'[a].tokens = index[a].tokens \cup {t} /\ index'[a].ttl = AbsTTL
      /\ \A b \in Admins : b # a => index'[b] = index[b]
  BY <1>1, <1>3 DEF PanelInv, PanelTypes
<1>7. stray \subseteq stray' BY <1>3
<1>8. LivesAreCapped' BY <1>3, <1>5 DEF PanelInv, LivesAreCapped, Live
<1>9. SlidesFit'
  <2> SUFFICES ASSUME NEW q \in Requests, Slides(q)
               PROVE  /\ request[q].token \in drawn' /\ request[q].remaining > 0
                      /\ Live(request[q].token)' =>
                           request[q].remaining = AbsTTL - stored'[request[q].token].age
    BY <1>3 DEF SlidesFit, Slides
  <2> PICK s : s = request[q].token OBVIOUS
  <2>1. s \in drawn /\ s \in Tokens /\ s # t BY <1>1 DEF PanelInv, PanelTypes, SlidesFit
  <2> QED BY <1>3, <1>5, <2>1 DEF PanelInv, SlidesFit, Live
<1>10. LiveAreListed'
  <2> SUFFICES ASSUME NEW s \in Tokens, Live(s)' PROVE Listed(s)' \/ s \in stray'
    BY DEF LiveAreListed
  <2>1. CASE s = t BY <1>5, <1>6, <2>1 DEF Listed
  <2>2. CASE s # t
    <3>1. stored'[s] = stored[s] /\ Live(s) /\ stored[s] \in Session
      BY <1>5, <2>2 DEF Live, PanelInv, PanelTypes
    <3>2. s \in stray \/ Listed(s) BY <3>1 DEF PanelInv, LiveAreListed
    <3>3. CASE stored[s].admin # a
      BY <1>6, <1>7, <3>1, <3>2, <3>3 DEF Listed, Session
    <3>4. CASE stored[s].admin = a
      <4>1. stored[s].age \in Nat BY <3>1 DEF Session
      <4>2. s \in index[a].tokens \/ s \in stray BY <3>2, <3>4 DEF Listed
      <4> QED BY <1>6, <1>7, <3>1, <3>4, <4>1, <4>2 DEF Listed
    <3> QED BY <3>3, <3>4
  <2> QED BY <2>1, <2>2
<1>11. RevokesAll' BY <1>3, <1>5 DEF PanelInv, RevokesAll, Live
<1> QED BY <1>4, <1>8, <1>9, <1>10, <1>11 DEF PanelInv

LEMMA RevokeKeeps ==
  ASSUME PanelInv, NEW q \in Requests, Revoke(q)
  PROVE  PanelInv'
<1> PICK t : t = request[q].token OBVIOUS
<1> PICK a : a = request[q].admin OBVIOUS
<1>1. t \in Tokens /\ a \in Admins /\ request[q].pc = "revoke"
  BY CallsAreTyped DEF Revoke
<1>2. Waiting \in Asking /\ Waiting.pc = "idle" BY DEF Asking, Waiting
<1>3. /\ request' = [request EXCEPT ![q] = Waiting]
      /\ UNCHANGED <<admin, drawn, stray, login, ctl>>
  BY DEF Revoke, SetRequest
<1>4. CASE UNCHANGED <<stored, index>>
  BY <1>2, <1>3, <1>4, RequestGoesOn
<1>5. CASE stored' = [stored EXCEPT ![t] = Expired] /\ index' = [index EXCEPT ![a].tokens = @ \ {t}]
  <2>1. stored' \in [Tokens -> Session] /\ ~Live(t)'
    <3>1. Expired \in Session BY DEF Expired, Session
    <3> QED BY <1>1, <1>5, <3>1 DEF PanelInv, PanelTypes, Live, Expired
  <2>2. index' \in [Admins -> [tokens : SUBSET Tokens, ttl : Int]]
    BY <1>1, <1>5 DEF PanelInv, PanelTypes
  <2>3. request' \in [Requests -> Asking] BY <1>2, <1>3 DEF PanelInv, PanelTypes
  <2>4. PanelTypes' BY <1>3, <2>1, <2>2, <2>3 DEF PanelInv, PanelTypes
  <2>5. \A s \in Tokens : s # t => stored'[s] = stored[s]
    BY <1>5 DEF PanelInv, PanelTypes
  <2>6. \A s \in Tokens : Live(s)' => s # t /\ Live(s) BY <2>1, <2>5 DEF Live
  <2>7. \A b \in Admins : index'[b].ttl = index[b].ttl /\ index[b].tokens \ {t} \subseteq index'[b].tokens
    BY <1>1, <1>5 DEF PanelInv, PanelTypes
  <2>8. LivesAreCapped' BY <1>3, <2>5, <2>6 DEF PanelInv, LivesAreCapped
  <2>9. SlidesFit'
    <3> SUFFICES ASSUME NEW p \in Requests, Slides(p)'
                 PROVE  /\ request'[p].token \in drawn' /\ request'[p].remaining > 0
                        /\ Live(request[p].token)' =>
                             request'[p].remaining = AbsTTL - stored'[request'[p].token].age
      BY DEF SlidesFit
    <3>1. p # q /\ request'[p] = request[p] /\ Slides(p)
      BY <1>2, <1>3 DEF Slides, PanelInv, PanelTypes
    <3>2. request[p].token \in Tokens BY <3>1, CallsAreTyped DEF Slides
    <3> PICK s \in Tokens : s = request[p].token BY <3>2
    <3>3. Live(s)' => stored'[s] = stored[s] /\ Live(s) BY <2>5, <2>6
    <3> QED BY <1>3, <3>1, <3>3 DEF PanelInv, SlidesFit
  <2>10. LiveAreListed'
    <3> SUFFICES ASSUME NEW s \in Tokens, Live(s)' PROVE Listed(s)' \/ s \in stray'
      BY DEF LiveAreListed
    <3>1. s # t /\ Live(s) /\ stored'[s] = stored[s] /\ stored[s].admin \in Admins
      BY <2>5, <2>6 DEF PanelInv, PanelTypes, Session
    <3> QED BY <1>3, <2>7, <3>1 DEF PanelInv, LiveAreListed, Listed
  <2>11. RevokesAll' BY <1>3, <2>5, <2>6 DEF PanelInv, RevokesAll
  <2> QED BY <2>4, <2>8, <2>9, <2>10, <2>11 DEF PanelInv
<1> QED BY <1>4, <1>5 DEF Revoke

\* adminctl: what RevokeAll is to end is read from the set ...
LEMMA CtlListsKeep ==
  ASSUME PanelInv, NEW c \in Ctl, ctl' = c,
         \/ c.pc # "del"
         \/ /\ c.admin \in Admins /\ ctl.pc = "list"
            /\ c = [pc |-> "del", admin |-> ctl.admin, tokens |-> index[ctl.admin].tokens],
         admin' \in [Admins -> [exists : BOOLEAN, disabled : BOOLEAN, password : Int]],
         UNCHANGED <<stored, index, drawn, stray, login, request>>
  PROVE  PanelInv'
<1>1. PanelTypes' BY DEF PanelInv, PanelTypes
<1>2. RevokesAll' BY DEF PanelInv, RevokesAll, LiveAreListed, Listed, Live
<1> QED BY <1>1, <1>2 DEF PanelInv, LivesAreCapped, SlidesFit, Slides, LiveAreListed, Listed, Live

\* ... and nothing it misses is left when it is done.
LEMMA DelSessionsKeeps ==
  ASSUME PanelInv, DelSessions
  PROVE  PanelInv'
<1> PICK a, ended : a = ctl.admin /\ ended = ctl.tokens OBVIOUS
<1>1. a \in Admins /\ ended \subseteq Tokens /\ ctl.pc = "del"
  BY CallsAreTyped DEF DelSessions
<1>2. /\ stored' = [t \in Tokens |-> IF t \in ended THEN Expired ELSE stored[t]]
      /\ index' = [index EXCEPT ![a] = NoIndex] /\ ctl' = Waiting
      /\ UNCHANGED <<admin, drawn, login, request, stray>>
  BY DEF DelSessions
<1>3. PanelTypes'
  <2>1. Expired \in Session /\ NoIndex \in [tokens : SUBSET Tokens, ttl : Int] /\ Waiting \in Ctl
    BY DEF Expired, Session, NoIndex, Ctl
  <2>2. stored' \in [Tokens -> Session] BY <1>2, <2>1 DEF PanelInv, PanelTypes
  <2>3. index' \in [Admins -> [tokens : SUBSET Tokens, ttl : Int]]
    BY <1>1, <1>2, <2>1 DEF PanelInv, PanelTypes
  <2> QED BY <1>2, <2>1, <2>2, <2>3 DEF PanelInv, PanelTypes
<1>4. \A s \in Tokens : Live(s)' => s \notin ended /\ stored'[s] = stored[s] /\ Live(s)
  BY <1>2 DEF Live, Expired
<1>5. LivesAreCapped' BY <1>2, <1>4 DEF PanelInv, LivesAreCapped
<1>6. SlidesFit'
  <2> SUFFICES ASSUME NEW q \in Requests, Slides(q)
               PROVE  /\ request[q].token \in drawn /\ request[q].remaining > 0
                      /\ Live(request[q].token)' =>
                           request[q].remaining = AbsTTL - stored'[request[q].token].age
    BY <1>2 DEF SlidesFit, Slides
  <2> PICK s \in Tokens : s = request[q].token BY CallsAreTyped DEF Slides
  <2>1. Live(s)' => stored'[s] = stored[s] /\ Live(s) BY <1>4
  <2>2. Live(request[q].token)' <=> Live(s)' BY <1>2 DEF Live
  <2> QED BY <2>1, <2>2 DEF PanelInv, SlidesFit
<1>7. LiveAreListed'
  <2> SUFFICES ASSUME NEW s \in Tokens, Live(s)' PROVE Listed(s)' \/ s \in stray
    BY <1>2 DEF LiveAreListed
  <2>1. stored'[s] = stored[s] /\ Live(s) /\ s \notin ended /\ stored[s].admin \in Admins
    BY <1>4 DEF PanelInv, PanelTypes, Session
  <2>2. CASE stored[s].admin = a BY <1>1, <2>1, <2>2 DEF PanelInv, RevokesAll
  <2>3. CASE stored[s].admin # a
    <3>1. index'[stored[s].admin] = index[stored[s].admin]
      BY <1>1, <1>2, <2>1, <2>3 DEF PanelInv, PanelTypes
    <3> QED BY <2>1, <3>1 DEF PanelInv, LiveAreListed, Listed
  <2> QED BY <2>2, <2>3
<1>8. RevokesAll' BY <1>2 DEF RevokesAll, Waiting
<1> QED BY <1>3, <1>5, <1>6, <1>7, <1>8 DEF PanelInv

\* With the hours, a session's end comes before that of the set that lists it.
LEMMA TickKeepsSessions ==
  ASSUME PanelInv, Tick
  PROVE  PanelInv'
<1>1. /\ \A q \in Requests : request[q].pc = "idle"
      /\ stored' = [t \in Tokens |-> Older(stored[t])]
      /\ index' = [a \in Admins |-> IF index[a].ttl <= 1 THEN NoIndex ELSE [index[a] EXCEPT !.ttl = @ - 1]]
      /\ UNCHANGED <<admin, drawn, login, request, ctl, stray>>
  BY DEF Tick
<1>2. ASSUME NEW s \in Session
      PROVE  /\ Older(s) \in Session
             /\ Older(s).ttl > 0 => /\ s.ttl > 1 /\ Older(s).admin = s.admin
                                    /\ Older(s).age = s.age + 1 /\ Older(s).ttl = s.ttl - 1
  <2>1. /\ s.admin \in Admins /\ s.age \in Nat /\ s.ttl \in Int
    BY DEF Session
  <2>2. CASE s.ttl <= 1 BY <2>2 DEF Older, Session, Expired
  <2>3. CASE s.ttl > 1
    <3>1. Older(s) = [s EXCEPT !.age = s.age + 1, !.ttl = s.ttl - 1] BY <2>1, <2>3 DEF Older
    <3>2. s.age + 1 \in Nat /\ s.ttl - 1 \in Int BY <2>1
    <3>3. Older(s) \in Session BY <3>1, <3>2 DEF Session
    <3>4. Older(s).admin = s.admin /\ Older(s).age = s.age + 1 /\ Older(s).ttl = s.ttl - 1
      BY <3>1 DEF Session
    <3> QED BY <2>3, <3>3, <3>4
  <2> QED BY <2>1, <2>2, <2>3
<1>3. \A t \in Tokens : stored[t] \in Session BY DEF PanelInv, PanelTypes
<1>4. PanelTypes'
  <2>1. stored' \in [Tokens -> Session] BY <1>1, <1>2, <1>3
  <2>2. index' \in [Admins -> [tokens : SUBSET Tokens, ttl : Int]]
    BY <1>1 DEF PanelInv, PanelTypes, NoIndex
  <2> QED BY <1>1, <2>1, <2>2 DEF PanelInv, PanelTypes
<1>5. \A t \in Tokens : Live(t)' =>
        /\ Live(t) /\ stored[t].ttl > 1 /\ stored'[t].admin = stored[t].admin
        /\ stored'[t].age = stored[t].age + 1 /\ stored'[t].ttl = stored[t].ttl - 1
  <2> SUFFICES ASSUME NEW t \in Tokens, stored'[t].ttl > 0
               PROVE  /\ Live(t) /\ stored[t].ttl > 1 /\ stored'[t].admin = stored[t].admin
                      /\ stored'[t].age = stored[t].age + 1 /\ stored'[t].ttl = stored[t].ttl - 1
    BY DEF Live
  <2> PICK s \in Session : s = stored[t] BY <1>3
  <2>1. stored'[t] = Older(s) BY <1>1
  <2>2. s.ttl \in Int BY DEF Session
  <2> QED BY <1>2, <2>1, <2>2 DEF Live
<1>6. LivesAreCapped' BY <1>1, <1>3, <1>5 DEF PanelInv, LivesAreCapped, Session
<1>7. SlidesFit' BY <1>1 DEF SlidesFit, Slides
<1>8. LiveAreListed'
  <2> SUFFICES ASSUME NEW t \in Tokens, Live(t)', t \notin stray PROVE Listed(t)'
    BY <1>1 DEF LiveAreListed
  <2> PICK a : a = stored[t].admin OBVIOUS
  <2>1. a \in Admins /\ stored[t].age \in Nat /\ stored[t].ttl \in Int /\ index[a].ttl \in Int
    BY <1>3 DEF Session, PanelInv, PanelTypes
  <2>2. /\ stored'[t].admin = a /\ stored'[t].age = stored[t].age + 1 /\ stored[t].ttl > 1
        /\ stored[t].age + stored[t].ttl <= AbsTTL
        /\ t \in index[a].tokens /\ index[a].ttl >= AbsTTL - stored[t].age
    BY <1>5 DEF PanelInv, LivesAreCapped, LiveAreListed, Listed
  <2>3. index[a].ttl > 1 BY <2>1, <2>2
  <2>4. index'[a] = [index[a] EXCEPT !.ttl = @ - 1] BY <1>1, <2>1, <2>3
  <2>5. index'[a].tokens = index[a].tokens /\ index'[a].ttl = index[a].ttl - 1
    BY <2>1, <2>4 DEF PanelInv, PanelTypes
  <2> QED BY <2>1, <2>2, <2>5 DEF Listed
<1>9. RevokesAll' BY <1>1, <1>5 DEF PanelInv, RevokesAll
<1> QED BY <1>4, <1>6, <1>7, <1>8, <1>9 DEF PanelInv

\* Every step keeps the invariant: one step of the proof per action.
LEMMA PanelStep ==
  ASSUME PanelInv, AdminAuthNext
  PROVE  PanelInv'
<1>1. ASSUME NEW l \in Logins,
             \/ \E a \in Admins : \E typed \in {0, admin[a].password} : Login(l, a, typed)
             \/ CompareHash(l) \/ RecordLoginFailure(l) \/ ForgetFailures(l) \/ LoginFails(l)
      PROVE  PanelInv'
  <2>1. UNCHANGED <<admin, stored, index, drawn, stray, request, ctl>>
    BY <1>1 DEF Login, CompareHash, RecordLoginFailure, ForgetFailures, LoginFails
  <2>2. PICK call \in LoginCall : login' = [login EXCEPT ![l] = call]
    <3>1. Waiting \in LoginCall BY DEF LoginCall
    <3>2. ASSUME NEW a \in Admins, NEW typed \in {0, admin[a].password}, Login(l, a, typed)
          PROVE  \E call \in LoginCall : login' = [login EXCEPT ![l] = call]
      <4>1. [pc |-> "lookup", admin |-> a, typed |-> typed] \in LoginCall
        BY DEF LoginCall, PanelInv, PanelTypes
      <4> QED BY <3>2, <4>1 DEF Login, SetLogin
    <3>3. ASSUME CompareHash(l) PROVE \E call \in LoginCall : login' = [login EXCEPT ![l] = call]
      <4>1. login[l] \in LoginCall /\ login[l].pc = "lookup" BY <3>3 DEF CompareHash, PanelInv, PanelTypes
      <4>2. \A pc \in {"open", "count"} : [login[l] EXCEPT !.pc = pc] \in LoginCall
        BY <4>1 DEF LoginCall, Waiting
      <4> QED BY <3>3, <4>2 DEF CompareHash, SetLogin
    <3> QED BY <1>1, <3>1, <3>2, <3>3 DEF RecordLoginFailure, ForgetFailures, LoginFails, SetLogin
  <2> QED BY <2>1, <2>2, SessionsStay DEF PanelInv, PanelTypes
<1>2. ASSUME NEW l \in Logins, NEW t \in Tokens, CreateSession(l, t) PROVE PanelInv'
  BY <1>2, CreateSessionKeeps
<1>3. ASSUME NEW q \in Requests, NEW t \in Tokens, Authenticate(q, t) PROVE PanelInv'
  BY <1>3, AuthenticateKeeps
<1>4. ASSUME NEW q \in Requests, GetByID(q) PROVE PanelInv'
  <2> PICK pc \in {"slide", "revoke"} : request' = [request EXCEPT ![q] = [request[q] EXCEPT !.pc = pc]]
    BY <1>4 DEF GetByID, SetRequest
  <2> PICK call : call = [request[q] EXCEPT !.pc = pc] OBVIOUS
  <2>1. request[q] \in Asking /\ request[q].pc = "row" BY <1>4 DEF GetByID, PanelInv, PanelTypes
  <2>2. /\ call \in Asking /\ call.token = request[q].token /\ call.remaining = request[q].remaining
    BY <2>1 DEF Asking, Waiting
  <2>3. UNCHANGED <<admin, stored, index, drawn, stray, login, ctl>> BY <1>4 DEF GetByID
  <2> QED BY <2>1, <2>2, <2>3, RequestGoesOn DEF Slides
<1>5. ASSUME NEW q \in Requests, Slide(q) PROVE PanelInv'
  BY <1>5, SlideKeeps
<1>6. ASSUME NEW q \in Requests, Revoke(q) PROVE PanelInv'
  BY <1>6, RevokeKeeps
<1>7. ASSUME NEW q \in Requests, RequestFails(q) PROVE PanelInv'
  <2>1. Waiting \in Asking /\ Waiting.pc = "idle" BY DEF Asking, Waiting
  <2> QED BY <1>7, <2>1, RequestGoesOn DEF RequestFails, SetRequest
<1>8. ASSUME NEW a \in Admins, \/ CreateAdmin(a) \/ SetPassword(a) \/ \E d \in BOOLEAN : SetDisabled(a, d)
      PROVE  PanelInv'
  <2>1. UNCHANGED <<stored, index, drawn, stray, login, request>>
    BY <1>8 DEF CreateAdmin, SetPassword, SetDisabled
  <2>2. admin' \in [Admins -> [exists : BOOLEAN, disabled : BOOLEAN, password : Int]]
    <3>1. /\ admin \in [Admins -> [exists : BOOLEAN, disabled : BOOLEAN, password : Int]]
          /\ admin[a] \in [exists : BOOLEAN, disabled : BOOLEAN, password : Int]
      BY DEF PanelInv, PanelTypes
    <3>2. CASE CreateAdmin(a) BY <3>1, <3>2 DEF CreateAdmin
    <3>3. CASE SetPassword(a) BY <3>1, <3>3 DEF SetPassword
    <3>4. ASSUME NEW d \in BOOLEAN, SetDisabled(a, d)
          PROVE  admin' \in [Admins -> [exists : BOOLEAN, disabled : BOOLEAN, password : Int]]
      BY <3>1, <3>4 DEF SetDisabled
    <3> QED BY <1>8, <3>2, <3>3, <3>4
  <2>3. ctl.pc = "idle" /\ ctl \in Ctl BY <1>8 DEF CreateAdmin, SetPassword, SetDisabled, PanelInv, PanelTypes
  <2>4. [pc |-> "list", admin |-> a] \in Ctl BY DEF Ctl
  <2>5. ctl' = ctl \/ ctl' = [pc |-> "list", admin |-> a]
    BY <1>8 DEF CreateAdmin, SetPassword, SetDisabled
  <2>6. PICK c \in Ctl : ctl' = c /\ c.pc # "del" BY <2>3, <2>4, <2>5
  <2> QED BY <2>1, <2>2, <2>6, CtlListsKeep
<1>9. CASE ListSessions
  <2> PICK c : c = [pc |-> "del", admin |-> ctl.admin, tokens |-> index[ctl.admin].tokens] OBVIOUS
  <2>1. ctl.pc = "list" /\ ctl.admin \in Admins BY <1>9, CallsAreTyped DEF ListSessions
  <2>2. c \in Ctl /\ c.admin = ctl.admin BY <2>1 DEF Ctl, PanelInv, PanelTypes
  <2>3. ctl' = c /\ UNCHANGED <<admin, stored, index, drawn, stray, login, request>>
    BY <1>9 DEF ListSessions
  <2>4. admin' \in [Admins -> [exists : BOOLEAN, disabled : BOOLEAN, password : Int]]
    BY <2>3 DEF PanelInv, PanelTypes
  <2> QED BY <2>1, <2>2, <2>3, <2>4, CtlListsKeep
<1>10. CASE DelSessions BY <1>10, DelSessionsKeeps
<1>11. CASE CtlFails
  <2>1. Waiting \in Ctl /\ Waiting.pc = "idle" BY DEF Ctl, Waiting
  <2>2. ctl' = Waiting /\ UNCHANGED <<admin, stored, index, drawn, stray, login, request>>
    BY <1>11 DEF CtlFails
  <2>3. admin' \in [Admins -> [exists : BOOLEAN, disabled : BOOLEAN, password : Int]]
    BY <2>2 DEF PanelInv, PanelTypes
  <2> QED BY <2>1, <2>2, <2>3, CtlListsKeep
<1>12. CASE AskPanel \/ PanelCacheEnds
  BY <1>12, SessionsStay DEF AskPanel, PanelCacheEnds, PanelInv, PanelTypes
<1>13. CASE Tick BY <1>13, TickKeepsSessions
<1> QED BY <1>1, <1>2, <1>3, <1>4, <1>5, <1>6, <1>7, <1>8, <1>9, <1>10, <1>11, <1>12, <1>13 DEF AdminAuthNext

\* "Each successful call slides the idle window, never past the absolute cap", and
\* "RevokeAll ends every session of one admin" (service/admin_auth.go,
\* repository/admin.go): no session lives past the cap, and the set that RevokeAll works
\* from lists every live session but those opened between its own two commands.
THEOREM PanelSessionsAlwaysEnd == AdminAuthSpec => []PanelSessionsEnd
<1>1. AdminAuthInit => PanelInv BY PanelInitInv
<1>2. ASSUME PanelInv, [AdminAuthNext]_adminVars PROVE PanelInv'
  <2>1. CASE AdminAuthNext BY <1>2, <2>1, PanelStep
  <2>2. CASE UNCHANGED adminVars BY <1>2, <2>2, SessionsStay DEF adminVars, PanelInv, PanelTypes
  <2> QED BY <1>2, <2>1, <2>2
<1>3. PanelInv => PanelSessionsEnd
  BY DEF PanelInv, PanelTypes, Session, LivesAreCapped, LiveAreListed, Listed, Live,
         PanelSessionsEnd, CapIsKept, SessionsAreListed
<1> QED BY <1>1, <1>2, <1>3, PTL DEF AdminAuthSpec
=============================================================================
