------------------------------- MODULE AppStore -------------------------------
(***************************************************************************)
(* Purchases with real money in the app                                    *)
(* (client/lib/core/services/store_purchase_service.dart over              *)
(* billing_gateway.dart): the store takes the money, the server delivers   *)
(* the receipt and only then the app consumes the pack.  The app may die   *)
(* at any await, somebody else may sign in, and restore(), started at      *)
(* sign-in and when the app comes back, runs beside a purchase.  The       *)
(* server's side is VerifyBazaar of module Wallet.                         *)
(***************************************************************************)
EXTENDS Integers, FiniteSets

CONSTANTS
  Orders,        \* purchases the store may take money for, by token
  Subscriptions, \* those that are never consumed
  Buyers,        \* accounts that sign in on this device
  MaxDeaths      \* bound: deaths of the app and deliveries without an answer

ASSUME StoreAssumption == Subscriptions \subseteq Orders /\ MaxDeaths \in Nat

VARIABLES
  account,  \* the account signed in, Nobody for none
  shop,     \* [Orders -> "unsold", "owned", "consumed" or "refunded"]
  payload,  \* [Orders -> the account the purchase was made for]
  paid,     \* [Orders -> [Buyers -> times the server delivered it to that account]]
  buying,   \* buy(): its next step and its order
  restoring, \* restore(): its next step, its order and the orders left
  deaths    \* deaths and lost answers so far

storeVars == <<account, shop, payload, paid, buying, restoring, deaths>>
Nobody   == "nobody"
NoOrder  == "no order"
Unbusy   == [pc |-> "idle", order |-> NoOrder]
Rested   == [pc |-> "idle", order |-> NoOrder, todo |-> {}]

StoreInit ==
  /\ account = Nobody /\ shop = [o \in Orders |-> "unsold"]
  /\ payload = [o \in Orders |-> Nobody] /\ paid = [o \in Orders |-> [u \in Buyers |-> 0]]
  /\ buying = Unbusy /\ restoring = Rested /\ deaths = 0

Mishap == deaths < MaxDeaths /\ deaths' = deaths + 1

-----------------------------------------------------------------------------
SignInAs(u) == account' = u /\ account # u /\ UNCHANGED <<shop, payload, paid, buying, restoring, deaths>>

AppDies ==
  /\ Mishap /\ buying' = Unbusy /\ restoring' = Rested
  /\ UNCHANGED <<account, shop, payload, paid>>

\* The store's operator refunds a purchase.
Refund(o) ==
  /\ shop[o] = "owned" /\ shop' = [shop EXCEPT ![o] = "refunded"]
  /\ UNCHANGED <<account, payload, paid, buying, restoring, deaths>>

\* buy opens the store's screen for the account that is signed in ...
Buy(o) ==
  /\ buying = Unbusy /\ account # Nobody /\ shop[o] = "unsold"
  /\ buying' = [pc |-> "paying", order |-> o]
  /\ payload' = [payload EXCEPT ![o] = account]
  /\ UNCHANGED <<account, shop, paid, restoring, deaths>>

\* ... which takes the money ...
Pay ==
  /\ buying.pc = "paying" /\ shop[buying.order] = "unsold"
  /\ shop' = [shop EXCEPT ![buying.order] = "owned"] /\ buying' = [buying EXCEPT !.pc = "deliver"]
  /\ UNCHANGED <<account, payload, paid, restoring, deaths>>

\* ... also of an app that dies meanwhile ...
PayUnseen ==
  /\ buying.pc = "paying" /\ shop' = [shop EXCEPT ![buying.order] = "owned"]
  /\ Mishap /\ buying' = Unbusy /\ restoring' = Rested
  /\ UNCHANGED <<account, payload, paid>>

\* ... or is closed by the player, is missing, or fails.
GiveUp ==
  /\ buying.pc = "paying" /\ buying' = Unbusy
  /\ UNCHANGED <<account, shop, payload, paid, restoring, deaths>>

\* restore lists what the store holds and was not refunded.
Restore ==
  /\ restoring = Rested /\ account # Nobody
  /\ restoring' = [pc |-> "next", order |-> NoOrder, todo |-> {o \in Orders : shop[o] = "owned"}]
  /\ UNCHANGED <<account, shop, payload, paid, buying, deaths>>

RestoreNext ==
  /\ restoring.pc = "next"
  /\ IF restoring.todo = {} THEN restoring' = Rested
     ELSE \E o \in restoring.todo :
            restoring' = [pc |-> "deliver", order |-> o, todo |-> restoring.todo \ {o}]
  /\ UNCHANGED <<account, shop, payload, paid, buying, deaths>>

-----------------------------------------------------------------------------
(* _deliver, for buy and for restore                                       *)

Calls == {"buy", "restore"}
Of(c)        == IF c = "buy" THEN buying ELSE restoring
Enter(c, pc) ==
  IF c = "buy" THEN buying' = [buying EXCEPT !.pc = pc] /\ UNCHANGED restoring
  ELSE restoring' = [restoring EXCEPT !.pc = pc] /\ UNCHANGED buying
Leave(c) ==
  IF c = "buy" THEN buying' = Unbusy /\ UNCHANGED restoring
  ELSE restoring' = [restoring EXCEPT !.pc = "next", !.order = NoOrder] /\ UNCHANGED buying

\* VerifyBazaar: refused for another account than the one the payload names, a
\* coin pack once per token, a subscription as often as it is reported.
VerifyBazaar(o, u) ==
  /\ u = payload[o]
  /\ paid' = IF o \notin Subscriptions /\ paid[o][u] > 0 THEN paid
             ELSE [paid EXCEPT ![o][u] = 1]

\* The server delivers to the account whose token the request carries; the answer
\* is still to come.
Deliver(c) ==
  /\ Of(c).pc = "deliver" /\ account # Nobody
  /\ VerifyBazaar(Of(c).order, account) /\ Enter(c, "delivered")
  /\ UNCHANGED <<account, shop, payload, deaths>>

\* Mutant: the purchase is consumed although the server did not take it.
Mut_DeliverFails(c) ==
  /\ Of(c).pc \in {"deliver", "delivered"} /\ Enter(c, "consume") /\ Mishap
  /\ UNCHANGED <<account, shop, payload, paid>>

\* An error or no answer: buy tells the player, restore goes on with the next.
DeliverFails(c) ==
  /\ Of(c).pc \in {"deliver", "delivered"} /\ Leave(c) /\ Mishap
  /\ UNCHANGED <<account, shop, payload, paid>>

\* A refusal: nobody, or somebody else, is signed in by now.
Refused(c) ==
  /\ Of(c).pc = "deliver" /\ account # payload[Of(c).order] /\ Leave(c)
  /\ UNCHANGED <<account, shop, payload, paid, deaths>>

\* The answer: a pack is consumed next.
Delivered(c) ==
  /\ Of(c).pc = "delivered"
  /\ IF Of(c).order \in Subscriptions THEN Leave(c) ELSE Enter(c, "consume")
  /\ UNCHANGED <<account, shop, payload, paid, deaths>>

Consume(c) ==
  /\ Of(c).pc = "consume" /\ Leave(c)
  /\ \/ shop[Of(c).order] = "owned" /\ shop' = [shop EXCEPT ![Of(c).order] = "consumed"]
     \/ UNCHANGED shop
  /\ UNCHANGED <<account, payload, paid, deaths>>

StoreNext ==
  \/ \E u \in Buyers \cup {Nobody} : SignInAs(u)
  \/ AppDies \/ Pay \/ PayUnseen \/ GiveUp \/ Restore \/ RestoreNext
  \/ \E o \in Orders : Buy(o) \/ Refund(o)
  \/ \E c \in Calls : Deliver(c) \/ DeliverFails(c) \/ Refused(c) \/ Delivered(c) \/ Consume(c)

\* The app is opened again and again, which restores, and every await ends.
RestoreMoves ==
  \/ Restore \/ RestoreNext
  \/ Deliver("restore") \/ Refused("restore") \/ Delivered("restore") \/ Consume("restore")
StoreFairness == WF_storeVars(RestoreMoves)
StoreSpec == StoreInit /\ [][StoreNext]_storeVars /\ StoreFairness

-----------------------------------------------------------------------------
\* A pack is credited once at most, and only to the account that was signed in
\* when it was bought; it leaves the store only when it was credited.
DeliveredBeforeConsumed(o) ==
  /\ \A u \in Buyers : paid[o][u] > 0 => u = payload[o] /\ paid[o][u] = 1
  /\ shop[o] = "consumed" => \E u \in Buyers : paid[o][u] = 1

\* Neither a death, a retry nor restore() beside a purchase breaks that.
OrdersStayRight == [][\A o \in Orders : DeliveredBeforeConsumed(o)']_storeVars

\* Money that has moved is answered: if its buyer is back for good, a purchase is
\* delivered, wherever the app died, unless it is refunded.
MoneyIsAnswered ==
  \A o \in Orders : \A u \in Buyers :
    <>[](account = u) => [](shop[o] = "owned" /\ payload[o] = u => <>(shop[o] = "refunded" \/ paid[o][u] = 1))

\* A purchase arrives once, with its buyer, and it does arrive.
PurchasesArrive == OrdersStayRight /\ MoneyIsAnswered
=============================================================================
