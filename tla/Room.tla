-------------------------------- MODULE Room --------------------------------
(***************************************************************************)
(* One multiplayer game room: backend/internal/ws/room.go, with the parts  *)
(* of client.go, ai_client.go and handler/ws.go that call into it.         *)
(*                                                                         *)
(* Every handler holds r.mu from its first line to its return, so one      *)
(* handler is one action.  What runs outside the lock is a goroutine with  *)
(* a state of its own: the read pump of every connection, the sleeping     *)
(* turn and continue timers, the reconnect-grace timers, the wait timer    *)
(* and the drain goroutine.  A timer may wake up at any moment; what makes *)
(* a stale one harmless is the sequence number it carries.                 *)
(*                                                                         *)
(* Abstractions: a word is only valid or invalid and the chain keeps the   *)
(* author of every accepted word (scores are sums over it); messages are   *)
(* left out; money is the net flow of entry fees per player (ledger).      *)
(***************************************************************************)
EXTENDS Integers, Sequences, FiniteSets

CONSTANTS
  Humans,       \* user ids of people
  AI,           \* config.SystemAIUserID
  NoOne,        \* the empty user id ""
  Conn,         \* connections: one Client struct per dialled socket
  UserOf,       \* Client.userID of every connection
  NoConn,       \* a nil *Client
  PowerupTypes, \* the power-up types the players use, of AllPowerups
  EntryFee,     \* config.EntryFeeCoins
  LedgerFails,  \* TRUE: a coin operation may fail with a database error
  MaxWords      \* bound: words accepted in one match (the dictionary is finite)

AllPowerups == {"hint", "freeze", "extra_time", "shield"}

Players == Humans \cup {AI}

ASSUME PlayersAssumption == /\ AI \notin Humans
                            /\ NoOne \notin Players
ASSUME ConnAssumption    == /\ UserOf \in [Conn -> Players]
                            /\ NoConn \notin Conn
ASSUME PowerupAssumption == PowerupTypes \subseteq AllPowerups
ASSUME FeeAssumption     == EntryFee \in Nat \ {0}
ASSUME FailAssumption    == LedgerFails \in BOOLEAN
ASSUME WordsAssumption   == MaxWords \in Nat

VARIABLES
  \* connections and the goroutines that watch them
  conns,            \* [Conn -> status of the connection and its read pump]
  clients,          \* r.clients
  disconnectCancel, \* r.disconnectCancel, naming the goroutine it cancels
  grace,            \* [Conn -> reconnect-grace goroutine its leave started]
  waitTimer,        \* r.waitTimer: "running", "fired" (callback started), "off"
  \* the game
  state, playerOrder, currentTurn, chain, continueUsed,
  powerupUsed,      \* r.powerupUsedInMatch, as a set of <<player, type>>
  shieldActive, freezePending, pendingLossPlayer,
  turnSeq, continueSeq,
  turnTimers,       \* sleeping triggerTurnTimeout goroutines
  continueTimers,   \* sleeping triggerContinueTimeout goroutines
  \* entry fee
  feeCharged,
  ledger,           \* [Players -> net entry-fee coins credited in the database]
  lost,             \* coins of AwardCoins calls that failed
  winner,           \* the id resolveGame was called with
  \* the end of the room
  drain,            \* closeAfterDrain goroutine: "none", "sleeping", "done"
  drainSnapshot,    \* the clients that goroutine will close
  inHub             \* the hub still maps this id to this room

connVars  == <<conns, clients, disconnectCancel, grace>>
turnVars  == <<currentTurn, turnSeq, turnTimers, freezePending>>
lossVars  == <<pendingLossPlayer, continueSeq, continueTimers>>
powerVars == <<powerupUsed, shieldActive>>
feeVars   == <<feeCharged, ledger, lost, winner>>
drainVars == <<drain, drainSnapshot>>
vars == <<connVars, waitTimer, state, playerOrder, chain, continueUsed,
          turnVars, lossVars, powerVars, feeVars, drainVars, inHub>>

States == {"waiting", "active", "continue_window", "finished"}
Timer  == [seq : Nat, player : Players]

Running == state \in {"active", "continue_window"}

Seated(u) == \E i \in 1 .. Len(playerOrder) : playerOrder[i] = u

\* currentPlayerID: the player whose index is currentTurn (0-based in Go)
CurrentPlayer == IF playerOrder = <<>> THEN NoOne
                 ELSE playerOrder[currentTurn + 1]

\* opponentOf: the first seated player who is not u, "" when there is none
OpponentOf(u) ==
  IF \E i \in 1 .. Len(playerOrder) : playerOrder[i] # u
  THEN playerOrder[CHOOSE i \in 1 .. Len(playerOrder) :
                     /\ playerOrder[i] # u
                     /\ \A j \in 1 .. i - 1 : playerOrder[j] = u]
  ELSE NoOne

\* Mutant: only the first seat is looked at.
Mut_HasEntryFee(order) == order[1] # AI

\* hasEntryFee: a ledger is configured and no seat belongs to the AI
HasEntryFee(order) == \A i \in 1 .. Len(order) : order[i] # AI

\* The read pump of c still delivers messages and has not called leave.
Pumping(c) == conns[c] \in {"open", "closed"}

Init ==
  /\ conns = [c \in Conn |-> "idle"]
  /\ clients = [u \in Players |-> NoConn]
  /\ disconnectCancel = [u \in Players |-> NoConn]
  /\ grace = [c \in Conn |-> "none"]
  /\ waitTimer = "running"
  /\ state = "waiting"
  /\ playerOrder = <<>>
  /\ currentTurn = 0
  /\ chain = <<>>
  /\ continueUsed = [u \in Players |-> FALSE]
  /\ powerupUsed = {}
  /\ shieldActive = [u \in Players |-> FALSE]
  /\ freezePending = NoOne
  /\ pendingLossPlayer = NoOne
  /\ turnSeq = 0 /\ continueSeq = 0
  /\ turnTimers = {} /\ continueTimers = {}
  /\ feeCharged = FALSE
  /\ ledger = [u \in Players |-> 0]
  /\ lost = 0
  /\ winner = NoOne
  /\ drain = "none" /\ drainSnapshot = {}
  /\ inHub = TRUE

-----------------------------------------------------------------------------
(* Steps shared by the handlers, each with r.mu held.                      *)

\* closeAfterDrain: remember the connected clients, start the 2 s goroutine
CloseAfterDrain(cl) ==
  /\ drain' = "sleeping"
  /\ drainSnapshot' = {cl[u] : u \in Players} \ {NoConn}

\* Mutant: the timer is started for the player who was on turn before.
Mut_StartTurn(order, turn, seq, timers) ==
  /\ currentTurn' = turn
  /\ turnSeq' = seq + 1
  /\ turnTimers' = timers \cup {[seq |-> seq + 1, player |-> order[currentTurn + 1]]}
  /\ freezePending' = freezePending

\* startTurn for seat `turn` of `order`, when turnSeq is already `seq` and the
\* turn timers still asleep are `timers`: that player's pending freeze is
\* consumed and a timer carrying the new sequence number starts.
StartTurn(order, turn, seq, timers) ==
  LET onTurn == order[turn + 1]
  IN  /\ currentTurn' = turn
      /\ turnSeq' = seq + 1
      /\ turnTimers' = timers \cup {[seq |-> seq + 1, player |-> onTurn]}
      /\ freezePending' = IF freezePending = onTurn THEN NoOne ELSE freezePending

\* AwardCoins to every player in `who`: credited, or failed and only logged
Award(who, amount) ==
  \E failed \in IF LedgerFails THEN SUBSET who ELSE {{}} :
    /\ ledger' = [u \in Players |->
         ledger[u] + IF u \in who \ failed THEN amount ELSE 0]
    /\ lost' = lost + amount * Cardinality(failed)

\* Mutant: the winner gets a single stake.
Mut_SettleEntryFees(w) ==
  /\ feeCharged' = FALSE
  /\ IF feeCharged THEN Award({w}, EntryFee) ELSE UNCHANGED <<ledger, lost>>

\* settleEntryFees: the pot goes to the winner, or back to both on a draw
SettleEntryFees(w) ==
  /\ feeCharged' = FALSE
  /\ IF ~feeCharged THEN UNCHANGED <<ledger, lost>>
     ELSE IF w = NoOne
     THEN Award({u \in Players : Seated(u)}, EntryFee)
     ELSE Award({w}, EntryFee * Len(playerOrder))

\* resolveGame, when turnSeq is already `seq`
ResolveGame(w, seq) ==
  /\ state # "finished"
  /\ state' = "finished"
  /\ turnSeq' = seq + 1
  /\ continueSeq' = continueSeq + 1
  /\ winner' = w
  /\ SettleEntryFees(w)
  /\ CloseAfterDrain(clients)
  /\ UNCHANGED <<waitTimer, playerOrder, chain, continueUsed, currentTurn,
                 freezePending, pendingLossPlayer, powerVars, inHub>>

\* startContinueWindow
StartContinueWindow(u, seq) ==
  /\ state' = "continue_window"
  /\ pendingLossPlayer' = u
  /\ continueSeq' = continueSeq + 1
  /\ continueTimers' = continueTimers \cup
                         {[seq |-> continueSeq + 1, player |-> u]}
  /\ turnSeq' = seq
  /\ UNCHANGED <<waitTimer, playerOrder, chain, continueUsed, currentTurn,
                 freezePending, powerVars, feeVars, drainVars, inHub>>

\* Mutant: the shield absorbs every loss and is never used up.
Mut_HandleLoss(u, seq, timers) ==
  \/ /\ shieldActive[u]
     /\ StartTurn(playerOrder, (currentTurn + 1) % Len(playerOrder), seq, timers)
     /\ UNCHANGED <<waitTimer, state, playerOrder, chain, continueUsed, lossVars,
                    powerVars, feeVars, drainVars, inHub>>
  \/ /\ ~shieldActive[u]
     /\ StartContinueWindow(u, seq)
     /\ turnTimers' = timers

\* handleLoss: a shield negates the loss and passes the turn; a player who has
\* continued before loses the game; otherwise a continue window opens.
HandleLoss(u, seq, timers) ==
  \/ /\ shieldActive[u]
     /\ shieldActive' = [shieldActive EXCEPT ![u] = FALSE]
     /\ StartTurn(playerOrder, (currentTurn + 1) % Len(playerOrder), seq, timers)
     /\ UNCHANGED <<waitTimer, state, playerOrder, chain, continueUsed, lossVars,
                    powerupUsed, feeVars, drainVars, inHub>>
  \/ /\ ~shieldActive[u] /\ continueUsed[u]
     /\ ResolveGame(OpponentOf(u), seq)
     /\ turnTimers' = timers /\ UNCHANGED continueTimers
  \/ /\ ~shieldActive[u] /\ ~continueUsed[u]
     /\ StartContinueWindow(u, seq)
     /\ turnTimers' = timers

\* chargeEntryFees fails at the k-th player (no coins, or a database error):
\* the player charged before it is refunded and the room closes.
ChargeFails(order, cl) ==
  /\ HasEntryFee(order)
  /\ \/ UNCHANGED <<ledger, lost>>                  \* the first player
     \/ /\ LedgerFails                              \* the second, refund lost
        /\ ledger' = [ledger EXCEPT ![order[1]] = @ - EntryFee]
        /\ lost' = lost + EntryFee
  /\ state' = "finished"
  /\ CloseAfterDrain(cl)
  /\ UNCHANGED <<feeCharged, winner, turnVars>>

\* chargeEntryFees succeeds, or the match is free, and the first turn starts
GameStarts(order) ==
  /\ IF HasEntryFee(order)
     THEN /\ feeCharged' = TRUE
          /\ ledger' = [u \in Players |-> ledger[u] -
               IF \E i \in 1 .. Len(order) : order[i] = u THEN EntryFee ELSE 0]
     ELSE UNCHANGED <<feeCharged, ledger>>
  /\ state' = "active"
  /\ StartTurn(order, 0, turnSeq, turnTimers)
  /\ UNCHANGED <<lost, winner, drainVars>>

\* startGame.  Stop() does not recall a callback that has already started.
StartGame(order, cl) ==
  /\ waitTimer' = IF waitTimer = "running" THEN "off" ELSE waitTimer
  /\ \/ ChargeFails(order, cl)
     \/ GameStarts(order)

-----------------------------------------------------------------------------
(* Joining and leaving.                                                    *)

\* ServeWS up to the upgrade (or matchmaking, for the AI): the hub hands out
\* this room; Join comes later.
Dial(c) ==
  /\ conns[c] = "idle" /\ inHub
  /\ conns' = [conns EXCEPT ![c] = "dialled"]
  /\ UNCHANGED <<clients, disconnectCancel, grace, waitTimer, state, playerOrder,
                 chain, continueUsed, turnVars, lossVars, powerVars, feeVars,
                 drainVars, inHub>>

\* Mutants: an expired room is still open; a third seat.
Mut_RoomClosed == FALSE
Mut_RoomFull == Len(playerOrder) > 2

\* The refusals of Join: "room is finished", "room is full"
RoomClosed == state = "finished"
RoomFull   == Len(playerOrder) >= 2

\* Mutants: the entry is deleted and the goroutine sleeps on; the seat is kept.
Mut_CancelGrace(u) ==
  /\ disconnectCancel' = [disconnectCancel EXCEPT ![u] = NoConn]
  /\ UNCHANGED grace
Mut_FreedSeats(u) == playerOrder

\* A connection is back: disconnectCancel stops the grace goroutine of u, unless
\* its timer has fired and it only waits for the lock.
CancelGrace(u) ==
  /\ disconnectCancel' = [disconnectCancel EXCEPT ![u] = NoConn]
  /\ grace' = [d \in Conn |->
       IF d = disconnectCancel[u] /\ grace[d] = "running" THEN "none" ELSE grace[d]]

\* The connection c of u is lost in a running match: 30 s to come back
StartGrace(u, c) ==
  /\ grace' = [grace EXCEPT ![c] = "running"]
  /\ disconnectCancel' = [disconnectCancel EXCEPT ![u] = c]

\* playerOrder without the seat of u
FreedSeats(u) ==
  LET i == CHOOSE k \in 1 .. Len(playerOrder) : playerOrder[k] = u
  IN  SubSeq(playerOrder, 1, i - 1) \o SubSeq(playerOrder, i + 1, Len(playerOrder))

\* Join of a player who already has a seat: the new connection replaces the
\* old one and a grace goroutine still asleep is cancelled.
Reconnect(c) ==
  LET u == UserOf[c]
  IN  /\ conns[c] = "dialled" /\ Seated(u)
      /\ conns' = [conns EXCEPT ![c] = "open"]
      /\ clients' = [clients EXCEPT ![u] = c]
      /\ CancelGrace(u)
      /\ UNCHANGED <<waitTimer, state, playerOrder, chain, continueUsed, turnVars,
                     lossVars, powerVars, feeVars, drainVars, inHub>>

\* Join of a new player: takes a seat, and the second seat starts the game.
TakeSeat(c) ==
  LET u == UserOf[c]
      order == Append(playerOrder, u)
      cl == [clients EXCEPT ![u] = c]
  IN  /\ conns[c] = "dialled" /\ ~Seated(u)
      /\ ~RoomClosed /\ ~RoomFull
      /\ conns' = [conns EXCEPT ![c] = "open"]
      /\ clients' = cl
      /\ playerOrder' = order
      /\ continueUsed' = [continueUsed EXCEPT ![u] = FALSE]
      /\ powerupUsed' = {e \in powerupUsed : e[1] # u}
      /\ IF Len(order) = 2 THEN StartGame(order, cl)
         ELSE UNCHANGED <<waitTimer, state, turnVars, feeVars, drainVars>>
      /\ UNCHANGED <<disconnectCancel, grace, chain, lossVars, shieldActive, inHub>>

\* Join of a new player refused
JoinRejected(c) ==
  /\ conns[c] = "dialled" /\ ~Seated(UserOf[c])
  /\ RoomClosed \/ RoomFull
  /\ conns' = [conns EXCEPT ![c] = "gone"]
  /\ UNCHANGED <<clients, disconnectCancel, grace, waitTimer, state, playerOrder,
                 chain, continueUsed, turnVars, lossVars, powerVars, feeVars,
                 drainVars, inHub>>

\* leave, run by the read pump of a human's connection when it ends.  A
\* replaced connection changes nothing; in a waiting room the seat is freed;
\* in a running match the grace goroutine of this connection starts.
Leave(c) ==
  LET u == UserOf[c]
  IN  /\ Pumping(c) /\ u # AI
      /\ conns' = [conns EXCEPT ![c] = "gone"]
      /\ \/ /\ clients[u] # c
            /\ UNCHANGED <<clients, disconnectCancel, grace, playerOrder,
                           continueUsed, powerupUsed>>
         \/ /\ clients[u] = c
            /\ clients' = [clients EXCEPT ![u] = NoConn]
            /\ \/ /\ state = "finished"
                  /\ UNCHANGED <<disconnectCancel, grace, playerOrder,
                                 continueUsed, powerupUsed>>
               \/ /\ state = "waiting"
                  /\ playerOrder' = IF Seated(u) THEN FreedSeats(u) ELSE playerOrder
                  /\ continueUsed' = [continueUsed EXCEPT ![u] = FALSE]
                  /\ powerupUsed' = {e \in powerupUsed : e[1] # u}
                  /\ UNCHANGED <<disconnectCancel, grace>>
               \/ /\ Running
                  /\ StartGrace(u, c)
                  /\ UNCHANGED <<playerOrder, continueUsed, powerupUsed>>
      /\ UNCHANGED <<waitTimer, state, chain, turnVars, lossVars, shieldActive,
                     feeVars, drainVars, inHub>>

\* The 30 s grace timer fires before a cancel: select takes the timer case.
GraceElapse(c) ==
  /\ grace[c] = "running"
  /\ grace' = [grace EXCEPT ![c] = "fired"]
  /\ UNCHANGED <<conns, clients, disconnectCancel, waitTimer, state, playerOrder,
                 chain, continueUsed, turnVars, lossVars, powerVars, feeVars,
                 drainVars, inHub>>

\* Its goroutine gets r.mu: unless the game is over, the opponent wins.
GraceResolve(c) ==
  /\ grace[c] = "fired"
  /\ grace' = [grace EXCEPT ![c] = "none"]
  /\ UNCHANGED <<conns, clients, disconnectCancel>>
  /\ IF state = "finished"
     THEN UNCHANGED <<waitTimer, state, playerOrder, chain, continueUsed, turnVars,
                      lossVars, powerVars, feeVars, drainVars, inHub>>
     ELSE /\ ResolveGame(OpponentOf(UserOf[c]), turnSeq)
          /\ UNCHANGED <<turnTimers, continueTimers>>

-----------------------------------------------------------------------------
(* Messages of a connected client, each a case of handleMessage.           *)

\* processSubmitWord, the word passes engine.ValidateMove
SubmitValidWord(c) ==
  /\ Pumping(c) /\ state = "active" /\ UserOf[c] = CurrentPlayer
  /\ Len(chain) < MaxWords
  /\ chain' = Append(chain, UserOf[c])
  /\ StartTurn(playerOrder, (currentTurn + 1) % Len(playerOrder), turnSeq + 1,
               turnTimers)
  /\ UNCHANGED <<connVars, waitTimer, state, playerOrder, continueUsed, lossVars,
                 powerVars, feeVars, drainVars, inHub>>

\* processSubmitWord, the word is rejected: the turn timer becomes stale
SubmitInvalidWord(c) ==
  /\ Pumping(c) /\ state = "active" /\ UserOf[c] = CurrentPlayer
  /\ HandleLoss(UserOf[c], turnSeq + 1, turnTimers)
  /\ UNCHANGED connVars

\* processUsePowerup after UseItem took the payment.  (A refused payment is
\* answered with powerup_rejected and changes nothing here.  A replaced connection
\* whose player's seat was freed before the match panics on the deleted inner map
\* of powerupUsedInMatch, and its read pump ends: that is Leave.)
UsePowerup(c, type) ==
  LET u == UserOf[c]
  IN  /\ Pumping(c) /\ u # AI /\ state = "active" /\ Seated(u)
      /\ type = "extra_time" => u = CurrentPlayer
      /\ <<u, type>> \notin powerupUsed
      /\ powerupUsed' = powerupUsed \cup {<<u, type>>}
      /\ freezePending' = IF type = "freeze" THEN OpponentOf(u) ELSE freezePending
      /\ shieldActive' = [shieldActive EXCEPT ![u] = @ \/ type = "shield"]
      /\ IF type = "extra_time"
         THEN /\ turnSeq' = turnSeq + 1
              /\ turnTimers' = turnTimers \cup {[seq |-> turnSeq + 1, player |-> u]}
         ELSE UNCHANGED <<turnSeq, turnTimers>>
      /\ UNCHANGED <<connVars, waitTimer, state, playerOrder, currentTurn, chain,
                     continueUsed, lossVars, feeVars, drainVars, inHub>>

\* processContinue with "ad" or "coins": the same player's turn starts again
Continue(c) ==
  LET u == UserOf[c]
  IN  /\ Pumping(c) /\ u # AI
      /\ state = "continue_window" /\ u = pendingLossPlayer
      /\ continueSeq' = continueSeq + 1
      /\ continueUsed' = [continueUsed EXCEPT ![u] = TRUE]
      /\ state' = "active"
      /\ pendingLossPlayer' = NoOne
      /\ StartTurn(playerOrder, currentTurn, turnSeq, turnTimers)
      /\ UNCHANGED <<connVars, waitTimer, playerOrder, chain, continueTimers,
                     powerVars, feeVars, drainVars, inHub>>

\* forfeit: only the player's current connection, only in a running match
Forfeit(c) ==
  /\ Running
  /\ clients[UserOf[c]] = c /\ Seated(UserOf[c])
  /\ ResolveGame(OpponentOf(UserOf[c]), turnSeq)
  /\ UNCHANGED <<connVars, turnTimers, continueTimers>>

\* processForfeit
ProcessForfeit(c) == Pumping(c) /\ UserOf[c] # AI /\ Forfeit(c)

\* processContinue with "forfeit": the player declines the continue
DeclineContinue(c) ==
  /\ Pumping(c) /\ UserOf[c] # AI
  /\ state = "continue_window" /\ UserOf[c] = pendingLossPlayer
  /\ Forfeit(c)

-----------------------------------------------------------------------------
(* Timers.                                                                 *)

\* Mutant: the turn timer does not check its number.
Mut_TurnTimerIsStale(t) == state # "active"

\* The sequence-number guards of the two timers
TurnTimerIsStale(t)     == turnSeq # t.seq \/ state # "active"
ContinueTimerIsStale(t) == continueSeq # t.seq \/ state # "continue_window"

\* triggerTurnTimeout
TurnTimeout(t) ==
  /\ t \in turnTimers
  /\ UNCHANGED connVars
  /\ IF TurnTimerIsStale(t)
     THEN /\ turnTimers' = turnTimers \ {t}
          /\ UNCHANGED <<waitTimer, state, playerOrder, chain, continueUsed,
                         currentTurn, turnSeq, freezePending, lossVars, powerVars,
                         feeVars, drainVars, inHub>>
     ELSE HandleLoss(t.player, turnSeq, turnTimers \ {t})

\* triggerContinueTimeout
ContinueTimeout(t) ==
  /\ t \in continueTimers
  /\ continueTimers' = continueTimers \ {t}
  /\ UNCHANGED <<connVars, turnTimers>>
  /\ IF ContinueTimerIsStale(t)
     THEN UNCHANGED <<waitTimer, state, playerOrder, chain, continueUsed,
                      currentTurn, turnSeq, freezePending, pendingLossPlayer,
                      continueSeq, powerVars, feeVars, drainVars, inHub>>
     ELSE ResolveGame(OpponentOf(t.player), turnSeq)

\* The wait timer elapses and its callback starts,
WaitElapse ==
  /\ waitTimer = "running"
  /\ waitTimer' = "fired"
  /\ UNCHANGED <<connVars, state, playerOrder, chain, continueUsed, turnVars,
                 lossVars, powerVars, feeVars, drainVars, inHub>>

\* Mutant: an expired room is marked finished but never drained.
Mut_ExpireIfWaiting ==
  /\ waitTimer = "fired"
  /\ waitTimer' = "off"
  /\ state' = IF state = "waiting" THEN "finished" ELSE state
  /\ UNCHANGED <<connVars, playerOrder, chain, continueUsed, turnVars, lossVars,
                 powerVars, feeVars, drainVars, inHub>>

\* expireIfWaiting: the callback gets r.mu; only a waiting room is cancelled.
ExpireIfWaiting ==
  /\ waitTimer = "fired"
  /\ waitTimer' = "off"
  /\ IF state # "waiting" THEN UNCHANGED <<state, drainVars>>
     ELSE state' = "finished" /\ CloseAfterDrain(clients)
  /\ UNCHANGED <<connVars, playerOrder, chain, continueUsed, turnVars, lossVars,
                 powerVars, feeVars, inHub>>

\* The drain goroutine closes the remembered clients (the AI's loop ends with
\* its channel) and removes the room from the hub.
DrainDone ==
  /\ drain = "sleeping"
  /\ drain' = "done"
  /\ conns' = [c \in Conn |->
       IF c \in drainSnapshot /\ conns[c] = "open"
       THEN IF UserOf[c] = AI THEN "gone" ELSE "closed"
       ELSE conns[c]]
  /\ inHub' = FALSE
  /\ UNCHANGED <<clients, disconnectCancel, grace, waitTimer, state, playerOrder,
                 chain, continueUsed, turnVars, lossVars, powerVars, feeVars,
                 drainSnapshot>>

Next ==
  \/ \E c \in Conn :
       \/ Dial(c) \/ Reconnect(c) \/ TakeSeat(c) \/ JoinRejected(c) \/ Leave(c)
       \/ GraceElapse(c) \/ GraceResolve(c)
       \/ SubmitValidWord(c) \/ SubmitInvalidWord(c)
       \/ \E type \in PowerupTypes : UsePowerup(c, type)
       \/ Continue(c) \/ ProcessForfeit(c) \/ DeclineContinue(c)
  \/ \E t \in turnTimers : TurnTimeout(t)
  \/ \E t \in continueTimers : ContinueTimeout(t)
  \/ WaitElapse \/ ExpireIfWaiting \/ DrainDone

Spec == Init /\ [][Next]_vars

\* What the runtime guarantees: sleeping goroutines wake up and get the lock,
\* and the read pump of a socket the server closed returns.
Fairness ==
  /\ WF_vars(\E t \in turnTimers : TurnTimeout(t))
  /\ WF_vars(\E t \in continueTimers : ContinueTimeout(t))
  /\ \A c \in Conn : WF_vars(GraceElapse(c)) /\ WF_vars(GraceResolve(c))
  /\ WF_vars(WaitElapse) /\ WF_vars(ExpireIfWaiting) /\ WF_vars(DrainDone)
  /\ \A c \in Conn : WF_vars(conns[c] = "closed" /\ Leave(c))

FairSpec == Spec /\ Fairness

-----------------------------------------------------------------------------
(* Type invariant: every variable ranges over the values its Go type and   *)
(* the handlers allow.                                                     *)
TypeOK ==
  /\ conns \in [Conn -> {"idle", "dialled", "open", "closed", "gone"}]
  /\ clients \in [Players -> Conn \cup {NoConn}]
  /\ disconnectCancel \in [Players -> Conn \cup {NoConn}]
  /\ grace \in [Conn -> {"none", "running", "fired"}]
  /\ waitTimer \in {"running", "fired", "off"}
  /\ state \in States
  /\ playerOrder \in Seq(Players) /\ Len(playerOrder) <= 2
  /\ currentTurn \in {0, 1}
  /\ chain \in Seq(Players)
  /\ continueUsed \in [Players -> BOOLEAN]
  /\ powerupUsed \subseteq Players \X AllPowerups
  /\ shieldActive \in [Players -> BOOLEAN]
  /\ freezePending \in Players \cup {NoOne}
  /\ pendingLossPlayer \in Players \cup {NoOne}
  /\ turnSeq \in Nat /\ continueSeq \in Nat
  /\ turnTimers \subseteq Timer /\ continueTimers \subseteq Timer
  /\ feeCharged \in BOOLEAN
  /\ ledger \in [Players -> Int]
  /\ lost \in Nat
  /\ winner \in Players \cup {NoOne}
  /\ drain \in {"none", "sleeping", "done"}
  /\ drainSnapshot \subseteq Conn
  /\ inHub \in BOOLEAN

-----------------------------------------------------------------------------
(* Safety.                                                                 *)

\* Net entry-fee flow in which exactly the players in `who` moved `amount`.
OnlyMoved(who, amount) ==
  ledger = [u \in Players |-> IF u \in who THEN amount ELSE 0]

SeatedPlayers == {u \in Players : Seated(u)}

\* The entry fee is settled exactly once (chargeEntryFees, settleEntryFees):
\* while the pot is held both seated players have paid and nobody else; a
\* match of two humans never runs unpaid and one against the AI never costs
\* anything; once the room is finished either nobody has paid anything, or
\* the recorded winner has gained exactly what the other one lost.  Only a
\* failed AwardCoins may take coins out of that balance, and `lost` says how
\* many.
FeeSettled ==
  /\ feeCharged => /\ Running /\ lost = 0
                   /\ AI \notin SeatedPlayers
                   /\ OnlyMoved(SeatedPlayers, -EntryFee)
  /\ Running /\ ~feeCharged => AI \in SeatedPlayers
  /\ ~feeCharged /\ lost = 0 =>
       \/ \A u \in Players : ledger[u] = 0
       \/ /\ state = "finished" /\ Seated(winner)
          /\ ledger = [u \in Players |->
               IF u = winner THEN EntryFee
               ELSE IF Seated(u) THEN -EntryFee ELSE 0]
  /\ lost > 0 =>
       /\ LedgerFails /\ state = "finished"
       /\ \/ lost = EntryFee /\ OnlyMoved({playerOrder[1]}, -EntryFee)
          \/ lost = 2 * EntryFee /\ OnlyMoved(SeatedPlayers, -EntryFee)

\* The timer of the current turn is always alive: in an active game exactly
\* one sleeping turn timer carries the current turnSeq, and it will charge the
\* loss to the player whose turn it is; the same for the continue window.  A
\* start without a timer would hang the match, a second one would end it early.
OneLiveTimer ==
  /\ state = "active" =>
       {t \in turnTimers : t.seq = turnSeq} =
         {[seq |-> turnSeq, player |-> CurrentPlayer]}
  /\ state = "continue_window" =>
       {t \in continueTimers : t.seq = continueSeq} =
         {[seq |-> continueSeq, player |-> CurrentPlayer]}

\* A player who left a running match is being watched: the grace goroutine of
\* the connection that left is asleep or already waiting for the lock, so the
\* opponent is not kept waiting for ever (leave).
AbsentIsWatched ==
  Running => \A u \in Players :
    Seated(u) /\ clients[u] = NoConn =>
      /\ disconnectCancel[u] \in Conn
      /\ grace[disconnectCancel[u]] \in {"running", "fired"}
      /\ UserOf[disconnectCancel[u]] = u

\* A player who is connected is not on the clock: no grace goroutine of that
\* user is still asleep once Join has put a connection back (Join cancels it,
\* whatever the number of drops and returns).
PresentIsNotWatched ==
  \A c \in Conn : grace[c] = "running" =>
    clients[UserOf[c]] = NoConn /\ disconnectCancel[UserOf[c]] = c

\* The reconnect grace follows the connections in both directions, however drops,
\* returns and timers that have fired already interleave (leave, Join).
GraceMatchesAbsence == AbsentIsWatched /\ PresentIsNotWatched

\* The two seats of a running match belong to two different players, and in a
\* waiting room every seat belongs to somebody who is connected, so nobody is
\* paired with (and charged alongside) an absent player.
SeatsAreTaken ==
  /\ Running => Len(playerOrder) = 2 /\ playerOrder[1] # playerOrder[2]
  /\ state = "waiting" => /\ Len(playerOrder) <= 1
                          /\ \A u \in Players : Seated(u) => clients[u] # NoConn

\* Nobody plays twice in a row except over a burnt shield: the author of two
\* adjacent words of the chain got the turn back because the other player's
\* shield, one per match, absorbed a loss.
Repeats(u) == Cardinality({i \in 1 .. Len(chain) - 1 : chain[i] = u /\ chain[i + 1] = u})
TurnsAlternate ==
  \A u \in SeatedPlayers :
    Repeats(u) <= IF /\ <<OpponentOf(u), "shield">> \in powerupUsed
                     /\ ~shieldActive[OpponentOf(u)]
                  THEN 1 ELSE 0

-----------------------------------------------------------------------------
(* Action properties.                                                      *)

\* A finished room stays finished: no late timer, message, return or expiry
\* changes the result, the fee or the drain once closeAfterDrain has run.
FinishedIsFinal ==
  [][state = "finished" =>
       /\ state' = "finished"
       /\ UNCHANGED <<feeVars, drainSnapshot, playerOrder, chain, continueUsed>>]_vars

\* The loser is the one who failed: unless somebody forfeits or a grace period
\* runs out, a running match is lost by the player on turn, also when the timer
\* that decides it was started many turns ago for somebody else.
LossIsOwned ==
  [][Running /\ state' = "finished" =>
       \/ winner' = OpponentOf(CurrentPlayer)
       \/ \E c \in Conn : ProcessForfeit(c) \/ GraceResolve(c)]_vars

\* One continue per player and match (README: "one continue per player"): the
\* continue window belongs to the player on turn, taking it is remembered until
\* the match ends, and whoever has taken one never gets a second window.
OneContinue ==
  [][/\ state = "continue_window" /\ state' = "active" =>
          /\ pendingLossPlayer = CurrentPlayer
          /\ continueUsed'[pendingLossPlayer]
     /\ state = "active" /\ state' = "continue_window" =>
          ~continueUsed[pendingLossPlayer']
     /\ Running => \A u \in Players : continueUsed[u] => continueUsed'[u]]_vars

\* A match is lost by the player who failed, and after one second chance.
LossIsFair == LossIsOwned /\ OneContinue

-----------------------------------------------------------------------------
(* Liveness, under Fairness.                                               *)

\* Every room ends and leaves the hub, whatever its players do: nobody waits
\* for ever for a second player, and a match of idle, stubborn or absent
\* players is decided by its timers.
RoomIsRemoved == <>[](state = "finished" /\ ~inHub)

=============================================================================
