-------------------------------- MODULE Wallet --------------------------------
(***************************************************************************)
(* What a player owns: coins, power-ups, premium time and the avatar that  *)
(* goes with it (backend/internal/service/powerup.go, purchases.go,        *)
(* monetization.go and perks.go over their repositories).  The use of a    *)
(* power-up is three statements; the delivery of a purchase is one         *)
(* transaction, which the app repeats until it hears the answer.           *)
(***************************************************************************)
EXTENDS Integers, FiniteSets

CONSTANTS
  Players,
  NoPlayer,
  Receipts,        \* signed by the store, bought and not refunded
  ProductKind,     \* [Receipts -> "coins" or "premium"]
  Payload,         \* [Receipts -> the account that bought it, or NoPlayer]
  BoughtOn,        \* [Receipts -> day]
  PackCoins, PowerupPrice, CoinRewardedAd, PremiumPeriod, PremiumReverifyWindow, \* config
  StartCoins, StartItems,
  UseCalls,        \* calls of UseItem that may overlap
  MaxCoins,        \* bound: a richer player is given no more
  MaxUses,         \* bound: no use is begun once a player has had so many
  WalletDays       \* bound: days 1 .. WalletDays

ASSUME WalletAssumption ==
  /\ NoPlayer \notin Players
  /\ ProductKind \in [Receipts -> {"coins", "premium"}]
  /\ Payload \in [Receipts -> Players \cup {NoPlayer}] /\ BoughtOn \in [Receipts -> Nat]
  /\ PowerupPrice \in Nat \ {0} /\ StartCoins \in Nat /\ StartItems \in Nat
  /\ PackCoins \in Nat /\ CoinRewardedAd \in Nat
  /\ PremiumPeriod \in Nat /\ PremiumReverifyWindow \in Nat
  /\ MaxCoins \in Nat /\ WalletDays \in Nat \ {0}

VARIABLES
  row,       \* [Players -> [coins, premium (until the end of that day), avatar]]
  items,     \* powerup_inventory of one type: [Players -> quantity]
  purchase,  \* store_purchases: [Receipts -> the account it was redeemed by, or NoPlayer]
  useCall,   \* [UseCalls -> next statement of UseItem and its player]
  spent,     \* [Players -> coins taken for uses] (history)
  uses,      \* [Players -> [granted, lost]]: answered, and failed after they were paid (history)
  credited,  \* [Receipts -> times its coins were added] (history)
  today

walletVars == <<row, items, purchase, useCall, spent, uses, credited, today>>
NotUsing == [pc |-> "idle"]

WalletInit ==
  /\ row = [u \in Players |-> [coins |-> StartCoins, premium |-> 0, avatar |-> FALSE]]
  /\ items = [u \in Players |-> StartItems]
  /\ purchase = [r \in Receipts |-> NoPlayer]
  /\ useCall = [c \in UseCalls |-> NotUsing]
  /\ spent = [u \in Players |-> 0] /\ uses = [u \in Players |-> [granted |-> 0, lost |-> 0]]
  /\ credited = [r \in Receipts |-> 0] /\ today = 1

Later(a, b) == IF a > b THEN a ELSE b
Earlier(a, b) == IF a < b THEN a ELSE b
PaidCalls(u) == Cardinality({c \in UseCalls : useCall[c].pc = "balance" /\ useCall[c].user = u})
SetUse(c, call) == useCall' = [useCall EXCEPT ![c] = call]

-----------------------------------------------------------------------------
\* UseItem: an item, if there is one ...
DeductOne(u) == items[u] > 0 /\ items' = [items EXCEPT ![u] = @ - 1]

UseItem(c, u) ==
  /\ useCall[c].pc = "idle" /\ uses[u].granted + uses[u].lost < MaxUses
  /\ \/ DeductOne(u) /\ SetUse(c, [pc |-> "balance", user |-> u])
     \/ items[u] = 0 /\ UNCHANGED items /\ SetUse(c, [pc |-> "spend", user |-> u])
  /\ UNCHANGED <<row, purchase, spent, uses, credited, today>>

\* ... or its price; "insufficient" otherwise ...
SpendCoins(u, n) == row[u].coins >= n /\ row' = [row EXCEPT ![u].coins = @ - n]
PayUse(c) ==
  LET u == useCall[c].user
  IN  /\ useCall[c].pc = "spend"
      /\ \/ /\ SpendCoins(u, PowerupPrice)
            /\ spent' = [spent EXCEPT ![u] = @ + row[u].coins - row'[u].coins]
            /\ SetUse(c, [pc |-> "balance", user |-> u])
         \/ SetUse(c, NotUsing) /\ UNCHANGED <<row, spent>>  \* too poor, or the statement fails
      /\ UNCHANGED <<items, purchase, uses, credited, today>>

\* ... and the balance for the answer: when that read fails, so does the use.
UseBalance(c) ==
  LET u == useCall[c].user
  IN  /\ useCall[c].pc = "balance" /\ SetUse(c, NotUsing)
      /\ \/ uses' = [uses EXCEPT ![u].granted = @ + 1]
         \/ uses' = [uses EXCEPT ![u].lost = @ + 1]
      /\ UNCHANGED <<row, items, purchase, spent, credited, today>>

-----------------------------------------------------------------------------
\* Mutant: a token that is known is credited again to its owner.
Mut_CreditCoins(u, r) ==
  /\ purchase[r] \in {NoPlayer, u} /\ purchase' = [purchase EXCEPT ![r] = u]
  /\ row' = [row EXCEPT ![u].coins = @ + PackCoins] /\ credited' = [credited EXCEPT ![r] = @ + 1]

\* CreditCoins: the token's row and the coins, or neither
CreditCoins(u, r) ==
  /\ purchase[r] = NoPlayer /\ purchase' = [purchase EXCEPT ![r] = u]
  /\ row' = [row EXCEPT ![u].coins = @ + PackCoins] /\ credited' = [credited EXCEPT ![r] = @ + 1]

\* ApplyPremium: the token stays its first account's; premium only moves forward.
ApplyPremium(u, r, until) ==
  /\ purchase[r] \in {NoPlayer, u} /\ purchase' = [purchase EXCEPT ![r] = u]
  /\ row' = [row EXCEPT ![u].premium = Later(@, until)]
  /\ UNCHANGED credited

\* What one report of a receipt is worth: the period from the purchase, and a few
\* days from now for one the store still lists.
PremiumUntil(r) == Later(Earlier(BoughtOn[r], today) + PremiumPeriod, today + PremiumReverifyWindow)

\* VerifyBazaar of a receipt that names this account or none
VerifyBazaar(u, r) ==
  /\ Payload[r] \in {NoPlayer, u} /\ row[u].coins < MaxCoins
  /\ IF ProductKind[r] = "coins" THEN CreditCoins(u, r) ELSE ApplyPremium(u, r, PremiumUntil(r))
  /\ UNCHANGED <<items, useCall, spent, uses, today>>

ClaimRewardedAd(u) ==
  /\ row[u].coins < MaxCoins /\ row' = [row EXCEPT ![u].coins = @ + CoinRewardedAd]
  /\ UNCHANGED <<items, purchase, useCall, spent, uses, credited, today>>

IsPremium(u) == row[u].premium > today

\* SetAvatar, for active premium only; the row keeps it when that lapses.
SetAvatar(u) ==
  /\ IsPremium(u) /\ row' = [row EXCEPT ![u].avatar = TRUE]
  /\ UNCHANGED <<items, purchase, useCall, spent, uses, credited, today>>

NextDayComes ==
  /\ today < WalletDays /\ today' = today + 1
  /\ UNCHANGED <<row, items, purchase, useCall, spent, uses, credited>>

WalletNext ==
  \/ \E u \in Players :
       \/ \E c \in UseCalls : UseItem(c, u)
       \/ \E r \in Receipts : VerifyBazaar(u, r)
       \/ ClaimRewardedAd(u) \/ SetAvatar(u)
  \/ \E c \in UseCalls : PayUse(c) \/ UseBalance(c)
  \/ NextDayComes

WalletSpec == WalletInit /\ [][WalletNext]_walletVars

-----------------------------------------------------------------------------
\* Type invariant.
WalletTypeOK ==
  /\ row \in [Players -> [coins : Nat, premium : Nat, avatar : BOOLEAN]]
  /\ items \in [Players -> 0 .. StartItems]
  /\ purchase \in [Receipts -> Players \cup {NoPlayer}]
  /\ today \in 1 .. WalletDays

\* Uses that no item has paid for
CoinUses(u) == uses[u].granted + uses[u].lost + PaidCalls(u) - (StartItems - items[u])

\* Each use that was granted, is about to be, or was lost to a failing read has
\* taken one item or its price in coins, however many calls overlap: nobody plays for
\* nothing, and no use is paid twice.
UsesArePaid == \A u \in Players : spent[u] = PowerupPrice * CoinUses(u)

\* "Safe to repeat: coin packs credit once per purchase token", by whichever of
\* the accounts the receipt lets claim it.
PacksCreditOnce ==
  \A r \in Receipts : credited[r] = IF ProductKind[r] = "coins" /\ purchase[r] # NoPlayer THEN 1 ELSE 0
WalletIsSound == UsesArePaid /\ PacksCreditOnce
=============================================================================
