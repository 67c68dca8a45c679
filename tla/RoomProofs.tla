----------------------------- MODULE RoomProofs -----------------------------
(***************************************************************************)
(* A room for any players, connections, power-ups, stakes and words: its   *)
(* fee, seats, turns, timers, losses and what wakes it up (Room, as an     *)
(* implementation of RoomPot), and its locks and channels (RoomLocks):     *)
(* what a handler sends under r.mu goes to open channels, and one          *)
(* countdown runs at a time.                                               *)
(***************************************************************************)
EXTENDS RoomPot, RoomLocks, FiniteSetTheorems, SequenceTheorems, TLAPS

\* The order of a match, when u takes the second seat.
LEMMA AppendSecond ==
  ASSUME NEW P, NEW s \in Seq(P), NEW u \in P, Len(s) = 1
  PROVE  Append(s, u) = <<s[1], u>>
  <1> DEFINE seating == Append(s, u)
  <1>1. seating \in Seq(P)
    OBVIOUS
  <1>2. Len(seating) = Len(s) + 1
    BY AppendProperties
  <1>3. seating[Len(s) + 1] = u
    BY AppendProperties
  <1>4. seating[1] = s[1]
    OBVIOUS
  <1>5. Len(seating) = 2
    BY <1>2
  <1>6. seating[2] = u
    BY <1>3
  <1>7. s[1] \in P
    BY ElementOfSeq
  <1>8. <<s[1], u>> \in Seq(P)
    BY <1>7
  <1>9. Len(<<s[1], u>>) = 2
    BY <1>7
  <1> HIDE DEF seating
  <1>10. \A i \in 1 .. Len(seating) : seating[i] = <<s[1], u>>[i]
    BY <1>4, <1>5, <1>6
  <1>11. seating = <<s[1], u>>
    BY <1>1, <1>5, <1>8, <1>9, <1>10, SeqEqual
  <1> QED BY <1>11 DEF seating

USE PlayersAssumption, ConnAssumption, PowerupAssumption, FeeAssumption,
    FailAssumption, WordsAssumption

-----------------------------------------------------------------------------
(* The invariant.  TypeOK and SeatsAreTaken hold each other up: startTurn  *)
(* indexes playerOrder, so its type needs two seats, and the wrap-around   *)
(* of the turn needs them too.                                             *)

\* The two seats, once both are taken.
TwoSeats == /\ Len(playerOrder) = 2
            /\ playerOrder[1] # playerOrder[2]

\* Nobody is missed in a room whose match has not started.
NoGraceYet == state = "waiting" => \A c \in Conn : grace[c] = "none"

LEMMA SeatsOfTwo ==
  ASSUME TypeOK, TwoSeats
  PROVE  /\ playerOrder[1] \in Players /\ playerOrder[2] \in Players
         /\ SeatedPlayers = {playerOrder[1], playerOrder[2]}
         /\ \A u \in Players : Seated(u) <=> u \in {playerOrder[1], playerOrder[2]}
  <1>0. playerOrder \in Seq(Players)
    BY DEF TypeOK
  <1>1. playerOrder[1] \in Players /\ playerOrder[2] \in Players
    BY <1>0, ElementOfSeq DEF TwoSeats
  <1>2. \A u \in Players : Seated(u) <=> u \in {playerOrder[1], playerOrder[2]}
    <2>1. 1 .. Len(playerOrder) = {1, 2}
      BY DEF TwoSeats
    <2> QED BY ONLY <2>1 DEF Seated
  <1> QED BY <1>1, <1>2 DEF SeatedPlayers

\* opponentOf in a match of two: the first seat that is not u.
LEMMA OpponentOfTwo ==
  ASSUME TypeOK, TwoSeats, NEW u \in Players
  PROVE  OpponentOf(u) = IF playerOrder[1] # u THEN playerOrder[1]
                         ELSE playerOrder[2]
  <1>1. CASE playerOrder[1] # u
    <2> DEFINE P(i) == /\ playerOrder[i] # u
                       /\ \A j \in 1 .. i - 1 : playerOrder[j] = u
    <2>1. 1 \in 1 .. Len(playerOrder) /\ P(1)
      BY <1>1 DEF TwoSeats
    <2>2. \A i \in 1 .. Len(playerOrder) : P(i) => i = 1
      BY <1>1 DEF TwoSeats
    <2> HIDE DEF P
    <2>3. (CHOOSE i \in 1 .. Len(playerOrder) : P(i)) = 1
      BY <2>1, <2>2
    <2>4. \E i \in 1 .. Len(playerOrder) : playerOrder[i] # u
      BY <1>1 DEF TwoSeats
    <2>5. OpponentOf(u) = playerOrder[CHOOSE i \in 1 .. Len(playerOrder) : P(i)]
      BY <2>4 DEF OpponentOf, P
    <2> QED BY <1>1, <2>3, <2>5
  <1>2. CASE playerOrder[1] = u
    <2> DEFINE P(i) == /\ playerOrder[i] # u
                       /\ \A j \in 1 .. i - 1 : playerOrder[j] = u
    <2>1. 2 \in 1 .. Len(playerOrder) /\ P(2)
      BY <1>2 DEF TwoSeats
    <2>2. \A i \in 1 .. Len(playerOrder) : P(i) => i = 2
      BY <1>2 DEF TwoSeats
    <2> HIDE DEF P
    <2>3. (CHOOSE i \in 1 .. Len(playerOrder) : P(i)) = 2
      BY <2>1, <2>2
    <2>4. \E i \in 1 .. Len(playerOrder) : playerOrder[i] # u
      BY <1>2, <2>1 DEF TwoSeats
    <2>5. OpponentOf(u) = playerOrder[CHOOSE i \in 1 .. Len(playerOrder) : P(i)]
      BY <2>4 DEF OpponentOf, P
    <2> QED BY <1>2, <2>3, <2>5
  <1> QED BY <1>1, <1>2

\* AwardCoins to one player either credits it or is counted as lost.
LEMMA AwardOne ==
  ASSUME TypeOK, NEW w \in Players, NEW amount \in Nat, Award({w}, amount)
  PROVE  \/ /\ ledger' = [u \in Players |-> ledger[u] + IF u = w THEN amount ELSE 0]
            /\ lost' = lost
         \/ /\ LedgerFails
            /\ ledger' = ledger
            /\ lost' = lost + amount
  <1>1. PICK failed \in IF LedgerFails THEN SUBSET {w} ELSE {{}} :
          /\ ledger' = [u \in Players |->
               ledger[u] + IF u \in {w} \ failed THEN amount ELSE 0]
          /\ lost' = lost + amount * Cardinality(failed)
    BY DEF Award
  <1>2. CASE failed = {}
    <2>1. Cardinality(failed) = 0
      BY <1>2, FS_EmptySet
    <2>2. ledger \in [Players -> Int] /\ lost \in Nat
      BY DEF TypeOK
    <2>3. lost' = lost
      BY <1>1, <2>1, <2>2
    <2>4. \A u \in Players : (u \in {w} \ failed) <=> u = w
      BY <1>2
    <2>5. ledger' = [u \in Players |-> ledger[u] + IF u = w THEN amount ELSE 0]
      BY <1>1, <2>4, Zenon
    <2> QED BY <2>3, <2>5
  <1>3. CASE failed # {}
    <2>1. failed = {w} /\ LedgerFails
      BY <1>1, <1>3
    <2>2. Cardinality(failed) = 1
      BY <2>1, FS_Singleton
    <2> QED BY <1>1, <2>1, <2>2 DEF TypeOK
  <1> QED BY <1>2, <1>3

\* The entry fee of a match that ends with winner w.
LEMMA SettleOne ==
  ASSUME TypeOK, TwoSeats, NEW w \in Players, SettleEntryFees(w)
  PROVE  /\ feeCharged' = FALSE
         /\ ~feeCharged => ledger' = ledger /\ lost' = lost
         /\ feeCharged =>
              \/ /\ ledger' = [u \in Players |->
                      ledger[u] + IF u = w THEN 2 * EntryFee ELSE 0]
                 /\ lost' = lost
              \/ /\ LedgerFails
                 /\ ledger' = ledger
                 /\ lost' = lost + 2 * EntryFee
  <1>1. w # NoOne
    OBVIOUS
  <1>2. ASSUME feeCharged PROVE Award({w}, 2 * EntryFee)
    BY <1>1, <1>2 DEF SettleEntryFees, TwoSeats
  <1>3. 2 * EntryFee \in Nat
    OBVIOUS
  <1> QED BY <1>2, <1>3, AwardOne DEF SettleEntryFees

-----------------------------------------------------------------------------
(* Type correctness.  TypeOK is taken apart along the groups of variables  *)
(* that the shared steps (startTurn, resolveGame, handleLoss) assign.      *)

ConnType == /\ conns \in [Conn -> {"idle", "dialled", "open", "closed", "gone"}]
            /\ clients \in [Players -> Conn \cup {NoConn}]
            /\ disconnectCancel \in [Players -> Conn \cup {NoConn}]
            /\ grace \in [Conn -> {"none", "running", "fired"}]

TurnType == /\ currentTurn \in {0, 1}
            /\ turnSeq \in Nat
            /\ turnTimers \subseteq Timer
            /\ freezePending \in Players \cup {NoOne}

LossType == /\ pendingLossPlayer \in Players \cup {NoOne}
            /\ continueSeq \in Nat
            /\ continueTimers \subseteq Timer

FeeType == /\ feeCharged \in BOOLEAN
           /\ ledger \in [Players -> Int]
           /\ lost \in Nat
           /\ winner \in Players \cup {NoOne}

DrainType == /\ drain \in {"none", "sleeping", "done"}
             /\ drainSnapshot \subseteq Conn

SeatType == /\ waitTimer \in {"running", "fired", "off"}
            /\ state \in States
            /\ playerOrder \in Seq(Players) /\ Len(playerOrder) <= 2
            /\ chain \in Seq(Players)
            /\ continueUsed \in [Players -> BOOLEAN]
            /\ powerupUsed \subseteq Players \X AllPowerups
            /\ shieldActive \in [Players -> BOOLEAN]
            /\ inHub \in BOOLEAN

LEMMA TypeGroups ==
  TypeOK <=> ConnType /\ TurnType /\ LossType /\ FeeType /\ DrainType /\ SeatType
  BY DEF TypeOK, ConnType, TurnType, LossType, FeeType, DrainType, SeatType

LEMMA TypeGroupsNext ==
  TypeOK' <=> ConnType' /\ TurnType' /\ LossType' /\ FeeType' /\ DrainType' /\ SeatType'
  BY DEF TypeOK, ConnType, TurnType, LossType, FeeType, DrainType, SeatType

LEMMA StartTurnType ==
  ASSUME freezePending \in Players \cup {NoOne},
         NEW seating \in Seq(Players), Len(seating) = 2,
         NEW turn \in {0, 1}, NEW seq \in Nat, NEW timers \in SUBSET Timer,
         StartTurn(seating, turn, seq, timers)
  PROVE  TurnType'
  <1>0. turn + 1 \in 1 .. Len(seating)
    OBVIOUS
  <1>1. seating[turn + 1] \in Players
    BY <1>0, ElementOfSeq
  <1>2. [seq |-> seq + 1, player |-> seating[turn + 1]] \in Timer
    BY <1>1 DEF Timer
  <1> QED BY <1>1, <1>2 DEF StartTurn, TurnType

LEMMA DrainTypeStep ==
  ASSUME NEW cl \in [Players -> Conn \cup {NoConn}], CloseAfterDrain(cl)
  PROVE  DrainType'
  BY DEF CloseAfterDrain, DrainType

\* The turn passed to the other seat is again a seat.
LEMMA NextTurn ==
  ASSUME TurnType, TwoSeats
  PROVE  (currentTurn + 1) % Len(playerOrder) \in {0, 1}
  BY DEF TurnType, TwoSeats

LEMMA ResolveType ==
  ASSUME TypeOK, TwoSeats, NEW w \in Players, NEW seq \in Nat, ResolveGame(w, seq)
  PROVE  /\ FeeType' /\ DrainType' /\ SeatType'
         /\ currentTurn' \in {0, 1} /\ turnSeq' \in Nat
         /\ freezePending' \in Players \cup {NoOne}
         /\ pendingLossPlayer' \in Players \cup {NoOne}
         /\ continueSeq' \in Nat
  <1> USE TypeGroups, TypeGroupsNext
  <1>1. FeeType'
    <2>1. SettleEntryFees(w) /\ winner' = w
      BY DEF ResolveGame
    <2>2. ledger \in [Players -> Int] /\ lost \in Nat
      BY DEF FeeType
    <2>3. 2 * EntryFee \in Nat
      OBVIOUS
    <2>4. CASE ~feeCharged
      BY <2>1, <2>2, <2>4, SettleOne DEF FeeType
    <2>5. CASE feeCharged
      <3>1. \/ /\ ledger' = [u \in Players |->
                      ledger[u] + IF u = w THEN 2 * EntryFee ELSE 0]
               /\ lost' = lost
            \/ ledger' = ledger /\ lost' = lost + 2 * EntryFee
        BY <2>1, <2>5, SettleOne
      <3>2. feeCharged' = FALSE
        BY <2>1, SettleOne
      <3>3. ledger' \in [Players -> Int] /\ lost' \in Nat
        BY <2>2, <2>3, <3>1
      <3> QED BY <2>1, <3>2, <3>3 DEF FeeType
    <2> QED BY <2>4, <2>5
  <1>2. DrainType'
    <2>1. clients \in [Players -> Conn \cup {NoConn}] /\ CloseAfterDrain(clients)
      BY DEF ResolveGame, ConnType
    <2> QED BY <2>1, DrainTypeStep
  <1>3. SeatType'
    BY DEF ResolveGame, SeatType, States, powerVars
  <1>4. /\ currentTurn' \in {0, 1} /\ turnSeq' \in Nat
        /\ freezePending' \in Players \cup {NoOne}
        /\ pendingLossPlayer' \in Players \cup {NoOne}
        /\ continueSeq' \in Nat
    BY DEF ResolveGame, TurnType, LossType
  <1> QED BY <1>1, <1>2, <1>3, <1>4

LEMMA HandleLossType ==
  ASSUME TypeOK, TwoSeats, NEW u \in Players, NEW seq \in Nat,
         NEW timers \in SUBSET Timer, HandleLoss(u, seq, timers)
  PROVE  TurnType' /\ LossType' /\ FeeType' /\ DrainType' /\ SeatType'
  <1> USE TypeGroups, TypeGroupsNext
  <1>0. OpponentOf(u) \in Players
    BY OpponentOfTwo, SeatsOfTwo
  <1>1. CASE shieldActive[u]
    <2>1. /\ StartTurn(playerOrder, (currentTurn + 1) % Len(playerOrder), seq, timers)
          /\ shieldActive' = [shieldActive EXCEPT ![u] = FALSE]
          /\ UNCHANGED <<waitTimer, state, playerOrder, chain, continueUsed, lossVars,
                         powerupUsed, feeVars, drainVars, inHub>>
      BY <1>1 DEF HandleLoss
    <2>2. TurnType'
      BY <2>1, NextTurn, StartTurnType DEF TurnType, SeatType, TwoSeats
    <2>3. SeatType' /\ LossType' /\ FeeType' /\ DrainType'
      BY <2>1 DEF SeatType, LossType, FeeType, DrainType, lossVars, feeVars, drainVars
    <2> QED BY <2>2, <2>3
  <1>2. CASE ~shieldActive[u] /\ continueUsed[u]
    <2>1. ResolveGame(OpponentOf(u), seq) /\ turnTimers' = timers /\ UNCHANGED continueTimers
      BY <1>2 DEF HandleLoss
    <2> QED BY <1>0, <2>1, ResolveType DEF TurnType, LossType
  <1>3. CASE ~shieldActive[u] /\ ~continueUsed[u]
    <2>1. StartContinueWindow(u, seq) /\ turnTimers' = timers
      BY <1>3 DEF HandleLoss
    <2>2. [seq |-> continueSeq + 1, player |-> u] \in Timer
      BY DEF Timer, LossType
    <2> QED BY <2>1, <2>2 DEF StartContinueWindow, TurnType, LossType, FeeType, DrainType,
              SeatType, States, powerVars, feeVars, drainVars
  <1> QED BY <1>1, <1>2, <1>3

LEMMA RunningHasTwoSeats ==
  ASSUME SeatsAreTaken, Running
  PROVE  TwoSeats
  BY DEF SeatsAreTaken, TwoSeats

\* A seat freed in a waiting room shortens the order.
LEMMA FreedSeatsType ==
  ASSUME playerOrder \in Seq(Players), Len(playerOrder) <= 1, NEW u \in Players, Seated(u)
  PROVE  FreedSeats(u) = << >>
  <1>1. Len(playerOrder) = 1 /\ playerOrder[1] = u
    BY DEF Seated
  <1>2. (CHOOSE k \in 1 .. Len(playerOrder) : playerOrder[k] = u) = 1
    BY <1>1
  <1>3. FreedSeats(u) = SubSeq(playerOrder, 1, 0) \o SubSeq(playerOrder, 2, 1)
    BY <1>1, <1>2 DEF FreedSeats
  <1>4. SubSeq(playerOrder, 1, 0) = << >> /\ SubSeq(playerOrder, 2, 1) = << >>
    BY <1>1
  <1> QED BY <1>3, <1>4

LEMMA ForfeitType ==
  ASSUME TypeOK, SeatsAreTaken, NEW c \in Conn, Forfeit(c)
  PROVE  TypeOK'
  <1> USE TypeGroups, TypeGroupsNext
  <1>1. TwoSeats /\ UserOf[c] \in Players
    BY RunningHasTwoSeats DEF Forfeit
  <1>2. OpponentOf(UserOf[c]) \in Players
    BY <1>1, OpponentOfTwo, SeatsOfTwo
  <1>3. ResolveGame(OpponentOf(UserOf[c]), turnSeq)
        /\ UNCHANGED <<connVars, turnTimers, continueTimers>>
    BY DEF Forfeit
  <1>4. ConnType' /\ turnTimers' \subseteq Timer /\ continueTimers' \subseteq Timer
    BY <1>3 DEF ConnType, TurnType, LossType, connVars
  <1>5. turnSeq \in Nat
    BY DEF TurnType
  <1> QED BY <1>1, <1>2, <1>3, <1>4, <1>5, ResolveType DEF TurnType, LossType

LEMMA StartGameType ==
  ASSUME TypeOK, NEW seating \in Seq(Players), Len(seating) = 2,
         NEW cl \in [Players -> Conn \cup {NoConn}], StartGame(seating, cl)
  PROVE  /\ waitTimer' \in {"running", "fired", "off"} /\ state' \in States
         /\ TurnType' /\ FeeType' /\ DrainType'
  <1> USE TypeGroups, TypeGroupsNext
  <1>1. waitTimer' \in {"running", "fired", "off"}
    BY DEF StartGame, SeatType
  <1>2. CASE ChargeFails(seating, cl)
    <2>1. DrainType' /\ state' \in States /\ TurnType'
      BY <1>2, DrainTypeStep DEF ChargeFails, States, TurnType, turnVars
    <2>2. ledger \in [Players -> Int] /\ lost \in Nat /\ EntryFee \in Nat
      BY DEF FeeType
    <2>3. FeeType'
      BY <1>2, <2>2 DEF ChargeFails, FeeType
    <2> QED BY <1>1, <2>1, <2>3
  <1>3. CASE GameStarts(seating)
    <2>1. StartTurn(seating, 0, turnSeq, turnTimers)
      BY <1>3 DEF GameStarts
    <2>2. TurnType'
      BY <2>1, StartTurnType DEF TurnType
    <2>3. ledger \in [Players -> Int] /\ EntryFee \in Nat
      BY DEF FeeType
    <2>4. ledger' \in [Players -> Int]
      <3> DEFINE paid(u) == \E i \in 1 .. Len(seating) : seating[i] = u
      <3>1. \/ ledger' = ledger
            \/ ledger' = [u \in Players |-> ledger[u] - IF paid(u) THEN EntryFee ELSE 0]
        BY <1>3 DEF GameStarts
      <3> HIDE DEF paid
      <3> QED BY <2>3, <3>1
    <2>5. FeeType' /\ DrainType' /\ state' \in States
      BY <1>3, <2>4 DEF GameStarts, FeeType, DrainType, States, drainVars
    <2> QED BY <1>1, <2>2, <2>5
  <1> QED BY <1>2, <1>3 DEF StartGame

LEMMA TypeStep ==
  ASSUME TypeOK, SeatsAreTaken, NoGraceYet, [Next]_vars
  PROVE  TypeOK'
  <1> USE TypeGroups, TypeGroupsNext
  <1>u. \A c \in Conn : UserOf[c] \in Players
    OBVIOUS
  <1>o. ASSUME Running, NEW u \in Players PROVE OpponentOf(u) \in Players
    BY <1>o, RunningHasTwoSeats, OpponentOfTwo, SeatsOfTwo
  <1>t. turnSeq \in Nat /\ turnSeq + 1 \in Nat /\ turnTimers \in SUBSET Timer
    BY DEF TurnType
  <1>1. ASSUME NEW c \in Conn, Dial(c) PROVE TypeOK'
    BY <1>1 DEF Dial, TypeOK, turnVars, lossVars, powerVars, feeVars, drainVars
  <1>2. ASSUME NEW c \in Conn, Reconnect(c) PROVE TypeOK'
    BY <1>2, <1>u DEF Reconnect, CancelGrace, TypeOK, turnVars, lossVars, powerVars,
       feeVars, drainVars
  <1>3. ASSUME NEW c \in Conn, TakeSeat(c) PROVE TypeOK'
    <2> DEFINE u == UserOf[c]
               seating == Append(playerOrder, u)
               cl == [clients EXCEPT ![u] = c]
    <2>1. u \in Players /\ cl \in [Players -> Conn \cup {NoConn}]
      BY <1>u DEF ConnType
    <2>2. seating \in Seq(Players) /\ Len(seating) <= 2 /\ Len(seating) = Len(playerOrder) + 1
      BY <1>3, <2>1 DEF TakeSeat, RoomFull, SeatType
    <2>3. /\ conns' = [conns EXCEPT ![c] = "open"] /\ clients' = cl
          /\ playerOrder' = seating
          /\ continueUsed' = [continueUsed EXCEPT ![u] = FALSE]
          /\ powerupUsed' = {e \in powerupUsed : e[1] # u}
          /\ UNCHANGED <<disconnectCancel, grace, chain, lossVars, shieldActive, inHub>>
      BY <1>3 DEF TakeSeat
    <2>4. ConnType' /\ LossType'
      BY <2>1, <2>3 DEF ConnType, LossType, lossVars
    <2>5. waitTimer' \in {"running", "fired", "off"} /\ state' \in States
          /\ TurnType' /\ FeeType' /\ DrainType'
      <3>1. CASE Len(seating) = 2
        <4>1. StartGame(seating, cl)
          BY <1>3, <3>1 DEF TakeSeat
        <4> HIDE DEF seating, cl
        <4> QED BY <2>1, <2>2, <3>1, <4>1, StartGameType
      <3>2. CASE Len(seating) # 2
        <4>1. UNCHANGED <<waitTimer, state, turnVars, feeVars, drainVars>>
          BY <1>3, <3>2 DEF TakeSeat
        <4> QED BY <4>1 DEF SeatType, TurnType, FeeType, DrainType, turnVars, feeVars, drainVars
      <3> QED BY <3>1, <3>2
    <2>6. SeatType'
      <3> HIDE DEF seating
      <3> QED BY <2>1, <2>2, <2>3, <2>5 DEF SeatType
    <2> QED BY <2>4, <2>5, <2>6
  <1>4. ASSUME NEW c \in Conn, JoinRejected(c) PROVE TypeOK'
    BY <1>4 DEF JoinRejected, TypeOK, turnVars, lossVars, powerVars, feeVars, drainVars
  <1>5. ASSUME NEW c \in Conn, Leave(c) PROVE TypeOK'
    <2> DEFINE u == UserOf[c]
    <2>1. u \in Players
      BY <1>u
    <2>2. conns' = [conns EXCEPT ![c] = "gone"]
          /\ UNCHANGED <<waitTimer, state, chain, turnVars, lossVars, shieldActive,
                         feeVars, drainVars, inHub>>
      BY <1>5 DEF Leave
    <2>3. TurnType' /\ LossType' /\ FeeType' /\ DrainType'
      BY <2>2 DEF TurnType, LossType, FeeType, DrainType, turnVars, lossVars, feeVars, drainVars
    <2>4. ConnType'
      BY <1>5, <2>1, <2>2 DEF Leave, StartGrace, ConnType
    <2>5. playerOrder' \in Seq(Players) /\ Len(playerOrder') <= 2
      <3>1. CASE playerOrder' = playerOrder
        BY <3>1 DEF SeatType
      <3>2. CASE playerOrder' # playerOrder
        <4>1. state = "waiting" /\ Seated(u) /\ playerOrder' = FreedSeats(u)
          BY <1>5, <3>2 DEF Leave
        <4>2. playerOrder' = << >>
          BY <2>1, <4>1, FreedSeatsType DEF SeatType, SeatsAreTaken
        <4> QED BY <4>2
      <3> QED BY <3>1, <3>2
    <2>6. continueUsed' \in [Players -> BOOLEAN] /\ powerupUsed' \subseteq Players \X AllPowerups
      BY <1>5, <2>1 DEF Leave, SeatType
    <2>7. SeatType'
      BY <2>2, <2>5, <2>6 DEF SeatType
    <2> QED BY <2>3, <2>4, <2>7
  <1>6. ASSUME NEW c \in Conn, GraceElapse(c) PROVE TypeOK'
    BY <1>6 DEF GraceElapse, TypeOK, turnVars, lossVars, powerVars, feeVars, drainVars
  <1>7. ASSUME NEW c \in Conn, GraceResolve(c) PROVE TypeOK'
    <2>1. ConnType'
      BY <1>7 DEF GraceResolve, ConnType
    <2>2. CASE state = "finished"
      BY <1>7, <2>1, <2>2 DEF GraceResolve, TurnType, LossType, FeeType, DrainType, SeatType,
         turnVars, lossVars, powerVars, feeVars, drainVars
    <2>3. CASE state # "finished"
      <3>1. ResolveGame(OpponentOf(UserOf[c]), turnSeq) /\ UNCHANGED <<turnTimers, continueTimers>>
        BY <1>7, <2>3 DEF GraceResolve
      <3>2. Running
        BY <1>7, <2>3 DEF NoGraceYet, GraceResolve, Running, SeatType, States
      <3>3. OpponentOf(UserOf[c]) \in Players
        BY <1>o, <1>u, <3>2
      <3> QED BY <1>t, <2>1, <3>1, <3>2, <3>3, ResolveType, RunningHasTwoSeats
              DEF TurnType, LossType
    <2> QED BY <2>2, <2>3

  <1>8. ASSUME NEW c \in Conn, SubmitValidWord(c) PROVE TypeOK'
    <2>1. TwoSeats /\ UserOf[c] \in Players
      BY <1>8, <1>u, RunningHasTwoSeats DEF SubmitValidWord, Running
    <2>2. StartTurn(playerOrder, (currentTurn + 1) % Len(playerOrder), turnSeq + 1, turnTimers)
      BY <1>8 DEF SubmitValidWord
    <2>3. TurnType'
      BY <1>t, <2>1, <2>2, NextTurn, StartTurnType DEF TurnType, SeatType, TwoSeats
    <2>4. ConnType' /\ LossType' /\ FeeType' /\ DrainType' /\ SeatType'
      BY <1>8, <2>1 DEF SubmitValidWord, ConnType, LossType, FeeType, DrainType, SeatType,
         connVars, lossVars, powerVars, feeVars, drainVars
    <2> QED BY <2>3, <2>4
  <1>9. ASSUME NEW c \in Conn, SubmitInvalidWord(c) PROVE TypeOK'
    <2>1. TwoSeats
      BY <1>9, RunningHasTwoSeats DEF SubmitInvalidWord, Running
    <2>2. HandleLoss(UserOf[c], turnSeq + 1, turnTimers) /\ UNCHANGED connVars
      BY <1>9 DEF SubmitInvalidWord
    <2>3. ConnType'
      BY <2>2 DEF ConnType, connVars
    <2> QED BY <1>t, <1>u, <2>1, <2>2, <2>3, HandleLossType
  <1>10. ASSUME NEW c \in Conn, NEW type \in PowerupTypes, UsePowerup(c, type) PROVE TypeOK'
    <2> DEFINE u == UserOf[c]
    <2>1. u \in Players /\ OpponentOf(u) \in Players
      BY <1>10, <1>o, <1>u DEF UsePowerup, Running
    <2>2. [seq |-> turnSeq + 1, player |-> u] \in Timer
      BY <1>t, <2>1 DEF Timer
    <2>3. TurnType'
      BY <1>10, <2>1, <2>2 DEF UsePowerup, TurnType
    <2>4. shieldActive' \in [Players -> BOOLEAN]
      BY <1>10, <2>1 DEF UsePowerup, SeatType
    <2>5. powerupUsed' \subseteq Players \X AllPowerups
      BY <1>10, <2>1 DEF UsePowerup, SeatType
    <2>6. ConnType' /\ LossType' /\ FeeType' /\ DrainType' /\ SeatType'
      BY <1>10, <2>4, <2>5 DEF UsePowerup, ConnType, LossType, FeeType, DrainType, SeatType,
         connVars, lossVars, feeVars, drainVars
    <2> QED BY <2>3, <2>6
  <1>11. ASSUME NEW c \in Conn, Continue(c) PROVE TypeOK'
    <2>1. TwoSeats /\ UserOf[c] \in Players
      BY <1>11, <1>u, RunningHasTwoSeats DEF Continue, Running
    <2>2. StartTurn(playerOrder, currentTurn, turnSeq, turnTimers)
      BY <1>11 DEF Continue
    <2>3. TurnType'
      BY <1>t, <2>1, <2>2, StartTurnType DEF TurnType, SeatType, TwoSeats
    <2>4. ConnType' /\ LossType' /\ FeeType' /\ DrainType' /\ SeatType'
      BY <1>11, <2>1 DEF Continue, ConnType, LossType, FeeType, DrainType, SeatType, States,
         connVars, powerVars, feeVars, drainVars
    <2> QED BY <2>3, <2>4
  <1>12. ASSUME NEW c \in Conn, ProcessForfeit(c) \/ DeclineContinue(c) PROVE TypeOK'
    BY <1>12, ForfeitType DEF ProcessForfeit, DeclineContinue
  <1>13. ASSUME NEW t \in turnTimers, TurnTimeout(t) PROVE TypeOK'
    <2>1. ConnType'
      BY <1>13 DEF TurnTimeout, ConnType, connVars
    <2>2. CASE TurnTimerIsStale(t)
      BY <1>13, <2>1, <2>2 DEF TurnTimeout, TurnType, LossType, FeeType, DrainType, SeatType,
         lossVars, powerVars, feeVars, drainVars
    <2>3. CASE ~TurnTimerIsStale(t)
      <3>1. HandleLoss(t.player, turnSeq, turnTimers \ {t})
        BY <1>13, <2>3 DEF TurnTimeout
      <3>2. t.player \in Players /\ turnTimers \ {t} \in SUBSET Timer
        BY <1>t DEF Timer
      <3>3. TwoSeats
        BY <2>3, RunningHasTwoSeats DEF TurnTimerIsStale, Running
      <3> QED BY <1>t, <2>1, <3>1, <3>2, <3>3, HandleLossType
    <2> QED BY <2>2, <2>3
  <1>14. ASSUME NEW t \in continueTimers, ContinueTimeout(t) PROVE TypeOK'
    <2>1. ConnType' /\ turnTimers' \subseteq Timer /\ continueTimers' \subseteq Timer
      BY <1>14 DEF ContinueTimeout, ConnType, connVars, TurnType, LossType
    <2>2. CASE ContinueTimerIsStale(t)
      BY <1>14, <2>1, <2>2 DEF ContinueTimeout, TurnType, LossType, FeeType, DrainType,
         SeatType, powerVars, feeVars, drainVars
    <2>3. CASE ~ContinueTimerIsStale(t)
      <3>1. ResolveGame(OpponentOf(t.player), turnSeq)
        BY <1>14, <2>3 DEF ContinueTimeout
      <3>2. Running
        BY <2>3 DEF ContinueTimerIsStale, Running
      <3>3. OpponentOf(t.player) \in Players
        BY <1>o, <3>2 DEF LossType, Timer
      <3> QED BY <1>t, <2>1, <3>1, <3>2, <3>3, ResolveType, RunningHasTwoSeats
              DEF TurnType, LossType
    <2> QED BY <2>2, <2>3
  <1>15. ASSUME WaitElapse PROVE TypeOK'
    BY <1>15 DEF WaitElapse, TypeOK, connVars, turnVars, lossVars, powerVars, feeVars, drainVars
  <1>16. ASSUME ExpireIfWaiting PROVE TypeOK'
    <2>1. ConnType' /\ TurnType' /\ LossType' /\ FeeType' /\ SeatType'
      BY <1>16 DEF ExpireIfWaiting, ConnType, TurnType, LossType, FeeType, SeatType, States,
         connVars, turnVars, lossVars, powerVars, feeVars
    <2>2. DrainType'
      BY <1>16, DrainTypeStep DEF ExpireIfWaiting, ConnType, DrainType, drainVars
    <2> QED BY <2>1, <2>2
  <1>17. ASSUME DrainDone PROVE TypeOK'
    BY <1>17 DEF DrainDone, TypeOK, turnVars, lossVars, powerVars, feeVars
  <1>18. ASSUME UNCHANGED vars PROVE TypeOK'
    BY <1>18 DEF TypeOK, vars, connVars, turnVars, lossVars, powerVars, feeVars, drainVars
  <1> QED
    BY <1>1, <1>2, <1>3, <1>4, <1>5, <1>6, <1>7, <1>8, <1>9, <1>10, <1>11, <1>12, <1>13,
       <1>14, <1>15, <1>16, <1>17, <1>18 DEF Next


-----------------------------------------------------------------------------
(* The four kinds of steps, as far as seats and money are concerned.       *)

\* Nothing moves: same seats, same money, and the match goes on (or the room
\* goes on waiting, or stays finished).
Kept ==
  /\ UNCHANGED <<playerOrder, feeCharged, ledger, lost, winner>>
  /\ state' = state \/ (Running /\ Running')
  /\ state = "waiting" =>
       /\ grace' = grace
       /\ \A u \in Players : Seated(u) /\ clients[u] # NoConn => clients'[u] # NoConn

\* A seat is freed before the match, or the room expires.
Vacated ==
  /\ state = "waiting" /\ grace' = grace
  /\ UNCHANGED <<feeCharged, ledger, lost, winner>>
  /\ \/ state' = "finished"
     \/ state' = "waiting" /\ playerOrder' = << >>

\* The match is decided for one of its players.
Decided ==
  /\ Running
  /\ \E w \in SeatedPlayers, seq \in Nat : ResolveGame(w, seq)

LEMMA OpponentIsSeated ==
  ASSUME TypeOK, SeatsAreTaken, Running, NEW u \in Players
  PROVE  OpponentOf(u) \in SeatedPlayers
  BY RunningHasTwoSeats, OpponentOfTwo, SeatsOfTwo

LEMMA HandleLossKind ==
  ASSUME TypeOK, SeatsAreTaken, state = "active", NEW u \in Players, NEW seq \in Nat,
         NEW timers, HandleLoss(u, seq, timers), UNCHANGED connVars
  PROVE  Kept \/ Decided
  <1>0. Running
    BY DEF Running
  <1>1. CASE shieldActive[u]
    BY <1>1 DEF HandleLoss, Kept, connVars, feeVars
  <1>2. CASE ~shieldActive[u] /\ continueUsed[u]
    BY <1>0, <1>2, OpponentIsSeated DEF HandleLoss, Decided
  <1>3. CASE ~shieldActive[u] /\ ~continueUsed[u]
    BY <1>0, <1>3 DEF HandleLoss, StartContinueWindow, Kept, connVars, feeVars, Running
  <1> QED BY <1>1, <1>2, <1>3

LEMMA StepKinds ==
  ASSUME TypeOK, SeatsAreTaken, NoGraceYet, [Next]_vars
  PROVE  Kept \/ Vacated \/ Decided \/ \E c \in Conn : TakeSeat(c)
  <1>u. \A c \in Conn : UserOf[c] \in Players
    OBVIOUS
  <1>t. turnSeq \in Nat /\ turnSeq + 1 \in Nat
    BY DEF TypeOK
  <1>1. ASSUME NEW c \in Conn, Dial(c) PROVE Kept
    BY <1>1 DEF Dial, Kept, feeVars
  <1>2. ASSUME NEW c \in Conn, Reconnect(c) PROVE Kept
    <2>1. state = "waiting" => grace' = grace
      BY <1>2 DEF Reconnect, CancelGrace, NoGraceYet, TypeOK
    <2>2. \A u \in Players : clients[u] # NoConn => clients'[u] # NoConn
      BY <1>2, <1>u DEF Reconnect, TypeOK
    <2> QED BY <1>2, <2>1, <2>2 DEF Reconnect, Kept, feeVars
  <1>4. ASSUME NEW c \in Conn, JoinRejected(c) PROVE Kept
    BY <1>4 DEF JoinRejected, Kept, feeVars
  <1>5. ASSUME NEW c \in Conn, Leave(c) PROVE Kept \/ Vacated
    <2> DEFINE u == UserOf[c]
    <2>1. UNCHANGED <<state, feeCharged, ledger, lost, winner>>
      BY <1>5 DEF Leave, feeVars
    <2>2. CASE clients[u] # c
      BY <1>5, <2>1, <2>2 DEF Leave, Kept
    <2>3. CASE clients[u] = c /\ state = "waiting"
      <3>1. grace' = grace /\ clients' = [clients EXCEPT ![u] = NoConn]
            /\ playerOrder' = IF Seated(u) THEN FreedSeats(u) ELSE playerOrder
        BY <1>5, <2>3 DEF Leave, Running
      <3>2. u \in Players /\ playerOrder \in Seq(Players) /\ Len(playerOrder) <= 1
        BY <1>u, <2>3 DEF TypeOK, SeatsAreTaken
      <3>3. CASE Seated(u)
        BY <2>1, <2>3, <3>1, <3>2, <3>3, FreedSeatsType DEF Vacated
      <3>4. CASE ~Seated(u)
        <4>1. \A v \in Players : Seated(v) /\ clients[v] # NoConn => clients'[v] # NoConn
          BY <3>1, <3>4 DEF TypeOK
        <4> QED BY <2>1, <2>3, <3>1, <3>4, <4>1 DEF Kept
      <3> QED BY <3>3, <3>4
    <2>4. CASE clients[u] = c /\ state # "waiting"
      BY <1>5, <2>1, <2>4 DEF Leave, Kept
    <2> QED BY <2>2, <2>3, <2>4
  <1>6. ASSUME NEW c \in Conn, GraceElapse(c) PROVE Kept
    BY <1>6 DEF GraceElapse, NoGraceYet, Kept, feeVars
  <1>7. ASSUME NEW c \in Conn, GraceResolve(c) PROVE Kept \/ Decided
    <2>1. state # "waiting"
      BY <1>7 DEF GraceResolve, NoGraceYet
    <2>2. CASE state = "finished"
      BY <1>7, <2>2 DEF GraceResolve, Kept, feeVars
    <2>3. CASE state # "finished"
      <3>1. Running
        BY <2>1, <2>3 DEF TypeOK, States, Running
      <3>2. ResolveGame(OpponentOf(UserOf[c]), turnSeq)
        BY <1>7, <2>3 DEF GraceResolve
      <3> QED BY <1>t, <1>u, <3>1, <3>2, OpponentIsSeated DEF Decided
    <2> QED BY <2>2, <2>3
  <1>8. ASSUME NEW c \in Conn, SubmitValidWord(c) PROVE Kept
    BY <1>8 DEF SubmitValidWord, Kept, connVars, feeVars
  <1>9. ASSUME NEW c \in Conn, SubmitInvalidWord(c) PROVE Kept \/ Decided
    BY <1>9, <1>t, <1>u, HandleLossKind DEF SubmitInvalidWord
  <1>10. ASSUME NEW c \in Conn, NEW type \in PowerupTypes, UsePowerup(c, type) PROVE Kept
    BY <1>10 DEF UsePowerup, Kept, connVars, feeVars
  <1>11. ASSUME NEW c \in Conn, Continue(c) PROVE Kept
    BY <1>11 DEF Continue, Kept, connVars, feeVars, Running
  <1>12. ASSUME NEW c \in Conn, ProcessForfeit(c) \/ DeclineContinue(c) PROVE Decided
    BY <1>12, <1>t, <1>u, OpponentIsSeated DEF ProcessForfeit, DeclineContinue, Forfeit, Decided
  <1>13. ASSUME NEW t \in turnTimers, TurnTimeout(t) PROVE Kept \/ Decided
    <2>1. t.player \in Players
      BY DEF TypeOK, Timer
    <2>2. CASE TurnTimerIsStale(t)
      BY <1>13, <2>2 DEF TurnTimeout, Kept, connVars, feeVars
    <2>3. CASE ~TurnTimerIsStale(t)
      BY <1>13, <1>t, <2>1, <2>3, HandleLossKind DEF TurnTimeout, TurnTimerIsStale
    <2> QED BY <2>2, <2>3
  <1>14. ASSUME NEW t \in continueTimers, ContinueTimeout(t) PROVE Kept \/ Decided
    <2>1. t.player \in Players
      BY DEF TypeOK, Timer
    <2>2. CASE ContinueTimerIsStale(t)
      BY <1>14, <2>2 DEF ContinueTimeout, Kept, connVars, feeVars
    <2>3. CASE ~ContinueTimerIsStale(t)
      BY <1>14, <1>t, <2>1, <2>3, OpponentIsSeated
         DEF ContinueTimeout, ContinueTimerIsStale, Decided, Running
    <2> QED BY <2>2, <2>3
  <1>15. ASSUME WaitElapse PROVE Kept
    BY <1>15 DEF WaitElapse, Kept, connVars, feeVars
  <1>16. ASSUME ExpireIfWaiting PROVE Kept \/ Vacated
    BY <1>16 DEF ExpireIfWaiting, Kept, Vacated, connVars, feeVars
  <1>17. ASSUME DrainDone PROVE Kept
    BY <1>17 DEF DrainDone, Kept, feeVars
  <1>18. ASSUME UNCHANGED vars PROVE Kept
    BY <1>18 DEF Kept, vars, connVars, feeVars
  <1> QED
    BY <1>1, <1>2, <1>4, <1>5, <1>6, <1>7, <1>8, <1>9, <1>10, <1>11, <1>12, <1>13,
       <1>14, <1>15, <1>16, <1>17, <1>18 DEF Next


-----------------------------------------------------------------------------
(* Seats.                                                                  *)

\* A player takes a seat only in a waiting room; the second seat starts the
\* match or ends the room.
LEMMA TakeSeatKind ==
  ASSUME TypeOK, SeatsAreTaken, NEW c \in Conn, TakeSeat(c),
         NEW u, u = UserOf[c]
  PROVE  /\ state = "waiting" /\ grace' = grace
         /\ u \in Players /\ ~Seated(u)
         /\ clients' = [clients EXCEPT ![u] = c]
         /\ \/ /\ playerOrder = << >> /\ playerOrder' = <<u>>
               /\ UNCHANGED <<state, feeCharged, ledger, lost, winner>>
            \/ /\ Len(playerOrder) = 1 /\ playerOrder[1] \in Players
               /\ playerOrder[1] # u
               /\ playerOrder' = <<playerOrder[1], u>>
               /\ ChargeFails(playerOrder', clients') \/ GameStarts(playerOrder')
  <1> DEFINE seating == Append(playerOrder, u)
             cl == [clients EXCEPT ![u] = c]
  <1>1. u \in Players /\ playerOrder \in Seq(Players)
    BY DEF TypeOK
  <1>2. /\ ~Seated(u) /\ state # "finished" /\ Len(playerOrder) < 2
        /\ clients' = cl /\ playerOrder' = seating /\ grace' = grace
    BY <1>1 DEF TakeSeat, RoomClosed, RoomFull, TypeOK
  <1>3. state = "waiting"
    BY <1>2 DEF TypeOK, States, SeatsAreTaken, Running
  <1>4. CASE Len(playerOrder) = 0
    <2>1. playerOrder = << >>
      BY <1>1, <1>4
    <2>2. seating = <<u>> /\ Len(seating) = 1
      BY <1>1, <2>1
    <2>3. UNCHANGED <<waitTimer, state, turnVars, feeVars, drainVars>>
      BY <2>2 DEF TakeSeat
    <2>4. UNCHANGED <<state, feeCharged, ledger, lost, winner>>
      BY <2>3 DEF feeVars
    <2> QED BY <1>1, <1>2, <1>3, <2>1, <2>2, <2>4
  <1>5. CASE Len(playerOrder) = 1
    <2>1. playerOrder[1] \in Players /\ playerOrder[1] # u
      BY <1>1, <1>2, <1>5 DEF Seated
    <2>2. seating = <<playerOrder[1], u>> /\ Len(seating) = 2
      <3>1. seating = <<playerOrder[1], u>>
        BY <1>1, <1>5, AppendSecond
      <3>2. Len(seating) = 2
        BY <3>1
      <3> QED BY <3>1, <3>2
    <2>3. StartGame(seating, cl)
      BY <2>2 DEF TakeSeat
    <2>4. ChargeFails(playerOrder', clients') \/ GameStarts(playerOrder')
      BY <1>2, <2>3 DEF StartGame
    <2>5. playerOrder' = <<playerOrder[1], u>>
      BY <1>2, <2>2
    <2>6. /\ Len(playerOrder) = 1 /\ playerOrder[1] \in Players
          /\ playerOrder[1] # u
          /\ playerOrder' = <<playerOrder[1], u>>
          /\ ChargeFails(playerOrder', clients') \/ GameStarts(playerOrder')
      BY <1>5, <2>1, <2>4, <2>5
    <2>7. clients' = [clients EXCEPT ![u] = c]
      BY <1>2
    <2> QED BY <1>1, <1>2, <1>3, <2>6, <2>7, Zenon
  <1>6. Len(playerOrder) = 0 \/ Len(playerOrder) = 1
    <2>1. Len(playerOrder) \in Nat
      BY <1>1
    <2>2. Len(playerOrder) < 2
      BY <1>2
    <2>3. \A n \in Nat : n < 2 => n = 0 \/ n = 1
      OBVIOUS
    <2> QED BY <2>1, <2>2, <2>3, Zenon
  <1> QED BY <1>4, <1>5, <1>6, Zenon

LEMMA SeatsStep ==
  ASSUME TypeOK, SeatsAreTaken, NoGraceYet, [Next]_vars
  PROVE  SeatsAreTaken' /\ NoGraceYet'
  <1>0. state \in States
    BY DEF TypeOK
  <1>1. CASE Kept
    <2>1. SeatsAreTaken'
      BY <1>1 DEF Kept, SeatsAreTaken, Running, Seated
    <2>2. NoGraceYet'
      BY <1>0, <1>1 DEF Kept, NoGraceYet, Running
    <2> QED BY <2>1, <2>2
  <1>2. CASE Vacated
    BY <1>2 DEF Vacated, SeatsAreTaken, NoGraceYet, Running, Seated
  <1>3. CASE Decided
    BY <1>3 DEF Decided, ResolveGame, SeatsAreTaken, NoGraceYet, Running
  <1>4. ASSUME NEW c \in Conn, TakeSeat(c) PROVE SeatsAreTaken' /\ NoGraceYet'
    <2> DEFINE u == UserOf[c]
    <2>1. /\ state = "waiting" /\ grace' = grace /\ u \in Players
          /\ clients' = [clients EXCEPT ![u] = c]
          /\ clients \in [Players -> Conn \cup {NoConn}]
      BY <1>4, TakeSeatKind DEF TypeOK
    <2>2. NoGraceYet'
      BY <2>1 DEF NoGraceYet
    <2>3. CASE playerOrder' = <<u>> /\ state' = state
      <3>1. Len(playerOrder') = 1 /\ playerOrder'[1] = u
        BY <2>3
      <3>2. clients'[u] # NoConn
        BY <2>1
      <3> QED BY <2>1, <2>2, <2>3, <3>1, <3>2 DEF SeatsAreTaken, Running, Seated
    <2>4. CASE /\ playerOrder' = <<playerOrder[1], u>> /\ playerOrder[1] # u
               /\ ChargeFails(playerOrder', clients') \/ GameStarts(playerOrder')
      <3>1. Len(playerOrder') = 2 /\ playerOrder'[1] # playerOrder'[2]
        BY <2>4
      <3>2. state' \in {"active", "finished"}
        BY <2>4 DEF ChargeFails, GameStarts
      <3> QED BY <2>2, <3>1, <3>2 DEF SeatsAreTaken, Running
    <2> QED BY <1>4, <2>3, <2>4, TakeSeatKind
  <1> QED BY <1>1, <1>2, <1>3, <1>4, StepKinds

-----------------------------------------------------------------------------
(* The entry fee.  FeeSettled does not say who has paid while a match is   *)
(* still to be decided, so it is not inductive; FeeInv says for each phase *)
(* of the room what has been paid.                                         *)

\* Nobody has paid anything yet, or everybody got it back.
NothingMoved == ~feeCharged /\ lost = 0 /\ \A u \in Players : ledger[u] = 0

\* Both stakes are in the pot.
PotHeld == feeCharged /\ lost = 0 /\ OnlyMoved(SeatedPlayers, -EntryFee)

FeeInv ==
  /\ state = "waiting" => NothingMoved
  /\ Running /\ AI \in SeatedPlayers => NothingMoved
  /\ Running /\ AI \notin SeatedPlayers => PotHeld
  /\ state = "finished" => ~feeCharged /\ FeeSettled

LEMMA NothingMovedSettles ==
  ASSUME NothingMoved, state \in {"waiting", "finished"}
  PROVE  FeeInv /\ FeeSettled
  BY DEF NothingMoved, FeeInv, FeeSettled, Running

LEMMA FeeInvSettles == TypeOK /\ FeeInv => FeeSettled
  <1> SUFFICES ASSUME TypeOK, FeeInv PROVE FeeSettled
    OBVIOUS
  <1>1. CASE state = "waiting"
    BY <1>1, NothingMovedSettles DEF FeeInv
  <1>2. CASE state = "finished"
    BY <1>2 DEF FeeInv
  <1>3. CASE Running /\ AI \in SeatedPlayers
    BY <1>3 DEF FeeInv, NothingMoved, FeeSettled, Running
  <1>4. CASE Running /\ AI \notin SeatedPlayers
    BY <1>4 DEF FeeInv, PotHeld, FeeSettled, Running
  <1> QED BY <1>1, <1>2, <1>3, <1>4 DEF TypeOK, States, Running

\* The same two facts about the state after a step.
LEMMA NothingMovedSettlesNext ==
  ASSUME NothingMoved', state' \in {"waiting", "finished"}
  PROVE  FeeInv'
  BY DEF NothingMoved, FeeInv, FeeSettled, Running

LEMMA FeeKept ==
  ASSUME TypeOK, FeeInv, Kept
  PROVE  FeeInv'
  <1>1. SeatedPlayers' = SeatedPlayers
    BY DEF Kept, SeatedPlayers, Seated
  <1>3. (NothingMoved' <=> NothingMoved) /\ (PotHeld' <=> PotHeld)
    BY <1>1 DEF Kept, NothingMoved, PotHeld, OnlyMoved
  <1>4. CASE state' = state
    <2>1. FeeSettled' <=> FeeSettled
      BY <1>1, <1>4 DEF Kept, FeeSettled, OnlyMoved, Running, Seated
    <2> QED BY <1>1, <1>3, <1>4, <2>1 DEF Kept, FeeInv, Running
  <1>5. CASE Running /\ Running'
    BY <1>1, <1>3, <1>5 DEF Kept, FeeInv, Running
  <1> QED BY <1>4, <1>5 DEF Kept

LEMMA FeeVacated ==
  ASSUME FeeInv, Vacated
  PROVE  FeeInv'
  <1>1. NothingMoved'
    BY DEF Vacated, FeeInv, NothingMoved
  <1> QED BY <1>1, NothingMovedSettlesNext DEF Vacated

\* resolveGame pays the pot out.
LEMMA FeeDecided ==
  ASSUME TypeOK, SeatsAreTaken, FeeInv, Running,
         NEW w \in SeatedPlayers, NEW seq \in Nat, ResolveGame(w, seq)
  PROVE  FeeInv'
  <1>1. /\ state' = "finished" /\ winner' = w /\ playerOrder' = playerOrder
        /\ SettleEntryFees(w) /\ w \in Players /\ Seated(w)
    BY DEF ResolveGame, SeatedPlayers
  <1>2. TwoSeats
    BY DEF SeatsAreTaken, TwoSeats
  <1>3. SeatedPlayers' = SeatedPlayers
    BY <1>1 DEF SeatedPlayers, Seated
  <1>4. CASE AI \in SeatedPlayers
    <2>1. NothingMoved
      BY <1>4 DEF FeeInv
    <2>2. feeCharged' = FALSE /\ ledger' = ledger /\ lost' = lost
      BY <1>1, <1>2, <2>1, SettleOne DEF NothingMoved
    <2> QED BY <1>1, <2>1, <2>2, NothingMovedSettlesNext DEF NothingMoved
  <1>5. CASE AI \notin SeatedPlayers
    <2>1. PotHeld
      BY <1>5 DEF FeeInv
    <2>2. /\ feeCharged' = FALSE
          /\ \/ /\ ledger' = [u \in Players |->
                      ledger[u] + IF u = w THEN 2 * EntryFee ELSE 0]
                /\ lost' = 0
             \/ /\ LedgerFails /\ ledger' = ledger /\ lost' = 2 * EntryFee
      <3>1. feeCharged /\ lost = 0 /\ 0 + 2 * EntryFee = 2 * EntryFee
        BY <2>1 DEF PotHeld
      <3>2. /\ feeCharged' = FALSE
            /\ \/ /\ ledger' = [u \in Players |->
                        ledger[u] + IF u = w THEN 2 * EntryFee ELSE 0]
                  /\ lost' = lost
               \/ LedgerFails /\ ledger' = ledger /\ lost' = lost + 2 * EntryFee
        BY <1>1, <1>2, <3>1, SettleOne, Zenon
      <3> QED BY <3>1, <3>2, Zenon
    <2>3. CASE /\ ledger' = [u \in Players |->
                      ledger[u] + IF u = w THEN 2 * EntryFee ELSE 0]
               /\ lost' = 0
      <3>1. \A u \in Players : ledger[u] = IF Seated(u) THEN -EntryFee ELSE 0
        BY <2>1 DEF PotHeld, OnlyMoved, SeatedPlayers
      <3>2. -EntryFee + 2 * EntryFee = EntryFee
        OBVIOUS
      <3>3. \A u \in Players : ledger[u] + (IF u = w THEN 2 * EntryFee ELSE 0)
                 = IF u = w THEN EntryFee ELSE IF Seated(u) THEN -EntryFee ELSE 0
        BY <1>1, <3>1, <3>2
      <3>4. ledger' = [u \in Players |->
               IF u = w THEN EntryFee ELSE IF Seated(u) THEN -EntryFee ELSE 0]
        BY <2>3, <3>3
      <3>5. \A u \in Players : Seated(u)' <=> Seated(u)
        BY <1>1 DEF Seated
      <3>6. ledger' = [u \in Players |->
               IF u = winner' THEN EntryFee ELSE IF Seated(u)' THEN -EntryFee ELSE 0]
        BY <1>1, <3>4, <3>5
      <3>7. FeeSettled'
        BY <1>1, <2>2, <2>3, <3>5, <3>6 DEF FeeSettled, Running
      <3> QED BY <1>1, <2>2, <3>7 DEF FeeInv, Running
    <2>4. CASE LedgerFails /\ ledger' = ledger /\ lost' = 2 * EntryFee
      <3>1. OnlyMoved(SeatedPlayers, -EntryFee)'
        BY <1>3, <2>1, <2>4 DEF PotHeld, OnlyMoved
      <3>2. lost' # 0
        BY <2>4
      <3>3. FeeSettled'
        BY <1>1, <2>2, <2>4, <3>1, <3>2 DEF FeeSettled, Running
      <3> QED BY <1>1, <2>2, <3>3 DEF FeeInv, Running
    <2> QED BY <2>2, <2>3, <2>4
  <1> QED BY <1>4, <1>5

\* The second seat: chargeEntryFees takes both stakes, or the room closes and
\* at most the first player's stake is missing.
LEMMA FeeCharging ==
  ASSUME TypeOK, NothingMoved, NEW v \in Players, NEW u \in Players,
         playerOrder' = <<v, u>>,
         ChargeFails(playerOrder', clients') \/ GameStarts(playerOrder')
  PROVE  FeeInv'
  <1>1. /\ \A p \in Players : Seated(p)' <=> p \in {v, u}
        /\ SeatedPlayers' = {v, u}
    BY DEF Seated, SeatedPlayers
  <1>2. HasEntryFee(playerOrder') <=> AI \notin {v, u}
    BY DEF HasEntryFee
  <1>3. playerOrder'[1] = v
    OBVIOUS
  <1>4. CASE ChargeFails(playerOrder', clients')
    <2>1. state' = "finished" /\ feeCharged' = feeCharged
      BY <1>4 DEF ChargeFails
    <2>2. CASE UNCHANGED <<ledger, lost>>
      <3>1. NothingMoved'
        BY <2>1, <2>2 DEF NothingMoved
      <3> QED BY <2>1, <3>1, NothingMovedSettlesNext
    <2>3. CASE /\ LedgerFails
               /\ ledger' = [ledger EXCEPT ![v] = @ - EntryFee]
               /\ lost' = lost + EntryFee
      <3>1. lost' = EntryFee /\ lost' > 0 /\ ~feeCharged'
        BY <2>1, <2>3 DEF NothingMoved
      <3>2. ledger' = [p \in Players |-> IF p \in {v} THEN -EntryFee ELSE 0]
        <4>1. ledger \in [Players -> Int] /\ \A p \in Players : ledger[p] = 0
          BY DEF NothingMoved, TypeOK
        <4>2. \A n \in {0} : n - EntryFee = -EntryFee
          OBVIOUS
        <4>3. ledger[v] - EntryFee = -EntryFee
          BY <4>1, <4>2
        <4>4. ledger' = [ledger EXCEPT ![v] = -EntryFee]
          BY <2>3, <4>3, Zenon
        <4> QED BY <4>1, <4>4
      <3>3. OnlyMoved({playerOrder[1]}, -EntryFee)'
        BY <1>3, <3>2 DEF OnlyMoved
      <3>4. FeeSettled'
        BY <2>1, <2>3, <3>1, <3>3 DEF FeeSettled, Running
      <3> QED BY <2>1, <3>1, <3>4 DEF FeeInv, Running
    <2> QED BY <1>3, <1>4, <2>2, <2>3 DEF ChargeFails
  <1>5. CASE GameStarts(playerOrder')
    <2>1. state' = "active" /\ lost' = 0
      BY <1>5 DEF GameStarts, NothingMoved
    <2>2. CASE AI \in {v, u}
      <3>1. feeCharged' = feeCharged /\ ledger' = ledger
        BY <1>2, <1>5, <2>2 DEF GameStarts
      <3>2. NothingMoved'
        BY <2>1, <3>1 DEF NothingMoved
      <3> QED BY <1>1, <2>1, <2>2, <3>2 DEF FeeInv, Running
    <2>3. CASE AI \notin {v, u}
      <3>1. /\ feeCharged' = TRUE
            /\ ledger' = [p \in Players |-> ledger[p] -
                 IF \E i \in 1 .. Len(playerOrder') : playerOrder'[i] = p
                 THEN EntryFee ELSE 0]
        BY <1>2, <1>5, <2>3 DEF GameStarts
      <3>0. \A p \in Players :
              (\E i \in 1 .. Len(playerOrder') : playerOrder'[i] = p) <=> p \in {v, u}
        BY <1>1 DEF Seated
      <3>2. ledger' = [p \in Players |->
                        ledger[p] - IF p \in {v, u} THEN EntryFee ELSE 0]
        BY <3>1, <3>0, Zenon
      <3>3. \A p \in Players : ledger[p] - (IF p \in {v, u} THEN EntryFee ELSE 0)
              = IF p \in {v, u} THEN -EntryFee ELSE 0
        BY DEF NothingMoved
      <3>4. ledger' = [p \in Players |-> IF p \in {v, u} THEN -EntryFee ELSE 0]
        BY <3>2, <3>3
      <3>5. PotHeld'
        BY <1>1, <2>1, <3>1, <3>4 DEF PotHeld, OnlyMoved
      <3> QED BY <1>1, <2>1, <2>3, <3>5 DEF FeeInv, Running
    <2> QED BY <2>2, <2>3
  <1> QED BY <1>4, <1>5

LEMMA FeeStep ==
  ASSUME TypeOK, SeatsAreTaken, NoGraceYet, FeeInv, [Next]_vars
  PROVE  FeeInv'
  <1>1. CASE Kept
    BY <1>1, FeeKept
  <1>2. CASE Vacated
    BY <1>2, FeeVacated
  <1>3. CASE Decided
    BY <1>3, FeeDecided DEF Decided
  <1>4. ASSUME NEW c \in Conn, TakeSeat(c) PROVE FeeInv'
    <2> DEFINE u == UserOf[c]
               v == playerOrder[1]
    <2>1. u \in Players /\ NothingMoved
      BY <1>4, TakeSeatKind DEF FeeInv
    <2>2. CASE UNCHANGED <<state, feeCharged, ledger, lost, winner>>
      <3>1. NothingMoved' /\ state' = "waiting"
        BY <1>4, <2>1, <2>2, TakeSeatKind DEF NothingMoved
      <3> QED BY <3>1, NothingMovedSettlesNext
    <2>3. CASE /\ v \in Players /\ playerOrder' = <<v, u>>
               /\ ChargeFails(playerOrder', clients') \/ GameStarts(playerOrder')
      BY <2>1, <2>3, FeeCharging
    <2> QED BY <1>4, <2>2, <2>3, TakeSeatKind
  <1> QED BY <1>1, <1>2, <1>3, <1>4, StepKinds

-----------------------------------------------------------------------------
(* The inductive invariant and what follows from it.                       *)

RoomInv == TypeOK /\ SeatsAreTaken /\ NoGraceYet /\ FeeInv

LEMMA InitRoomInv == Init => RoomInv
  <1> SUFFICES ASSUME Init PROVE RoomInv
    OBVIOUS
  <1>1. TypeOK
    <2>1. ConnType /\ TurnType /\ LossType
      BY DEF Init, ConnType, TurnType, LossType
    <2>2. ledger \in [Players -> Int]
      BY DEF Init
    <2>3. FeeType
      BY <2>2 DEF Init, FeeType
    <2>4. DrainType
      BY DEF Init, DrainType
    <2>5. SeatType
      BY DEF Init, SeatType, States
    <2> QED BY <2>1, <2>3, <2>4, <2>5, TypeGroups
  <1>2. SeatsAreTaken /\ NoGraceYet
    BY DEF Init, SeatsAreTaken, NoGraceYet, Running, Seated
  <1>3. NothingMoved /\ state = "waiting"
    BY DEF Init, NothingMoved
  <1> QED BY <1>1, <1>2, <1>3, NothingMovedSettles DEF RoomInv

LEMMA RoomInvariant == Spec => []RoomInv
  <1>1. RoomInv /\ [Next]_vars => RoomInv'
    BY TypeStep, SeatsStep, FeeStep DEF RoomInv
  <1> QED BY <1>1, InitRoomInv, PTL DEF Spec

\* Every variable of the room keeps the values its Go type and the handlers
\* allow, whatever the players, connections and timers do.
THEOREM TypeCorrect == Spec => []TypeOK
  BY RoomInvariant, PTL DEF RoomInv

\* A running match has two different players in its two seats, and a waiting
\* room never keeps the seat of a player who is not connected.
THEOREM SeatsAlwaysTaken == Spec => []SeatsAreTaken
  BY RoomInvariant, PTL DEF RoomInv

\* The entry fee of a match is settled exactly once: both humans of a running
\* match have paid, a match with the AI is free, and a finished room has handed
\* the pot to its winner or has charged nobody, up to the credits the database
\* refused, whichever of the messages, timers and connections ended it.
THEOREM FeeAlwaysSettled == Spec => []FeeSettled
  <1>1. RoomInv => FeeSettled
    BY FeeInvSettles DEF RoomInv
  <1> QED BY <1>1, RoomInvariant, PTL

-----------------------------------------------------------------------------
(* A finished room.                                                        *)

Frozen == /\ state' = "finished"
          /\ UNCHANGED <<feeVars, drainSnapshot, playerOrder, chain, continueUsed>>

LEMMA FinishedStep ==
  ASSUME state = "finished", [Next]_vars
  PROVE  Frozen
  <1>1. ASSUME NEW c \in Conn,
               Dial(c) \/ Reconnect(c) \/ JoinRejected(c) \/ GraceElapse(c)
        PROVE  Frozen
    BY <1>1 DEF Frozen, Dial, Reconnect, JoinRejected, GraceElapse, drainVars
  <1>2. ASSUME NEW c \in Conn, TakeSeat(c) PROVE FALSE
    BY <1>2 DEF TakeSeat, RoomClosed
  <1>3. ASSUME NEW c \in Conn, Leave(c) PROVE Frozen
    BY <1>3 DEF Frozen, Leave, Running, drainVars
  <1>4. ASSUME NEW c \in Conn, GraceResolve(c) PROVE Frozen
    BY <1>4 DEF Frozen, GraceResolve, drainVars
  <1>5. ASSUME NEW c \in Conn,
               \/ SubmitValidWord(c) \/ SubmitInvalidWord(c) \/ Continue(c)
               \/ ProcessForfeit(c) \/ DeclineContinue(c)
               \/ \E type \in PowerupTypes : UsePowerup(c, type)
        PROVE  FALSE
    BY <1>5 DEF SubmitValidWord, SubmitInvalidWord, Continue, ProcessForfeit,
                DeclineContinue, Forfeit, UsePowerup, Running
  <1>6. ASSUME NEW t \in turnTimers, TurnTimeout(t) PROVE Frozen
    BY <1>6 DEF Frozen, TurnTimeout, TurnTimerIsStale, drainVars
  <1>7. ASSUME NEW t \in continueTimers, ContinueTimeout(t) PROVE Frozen
    BY <1>7 DEF Frozen, ContinueTimeout, ContinueTimerIsStale, drainVars
  <1>8. ASSUME WaitElapse \/ ExpireIfWaiting \/ DrainDone PROVE Frozen
    BY <1>8 DEF Frozen, WaitElapse, ExpireIfWaiting, DrainDone, drainVars
  <1>9. ASSUME UNCHANGED vars PROVE Frozen
    BY <1>9 DEF Frozen, vars, drainVars
  <1> QED BY <1>1, <1>2, <1>3, <1>4, <1>5, <1>6, <1>7, <1>8, <1>9 DEF Next

\* Nothing that arrives late - a timer, a message, a returning player, the
\* expiry - changes the result, the fee or the drain of a finished room.
THEOREM FinishedStaysFinal == Spec => FinishedIsFinal
  <1>1. [Next]_vars => [state = "finished" => Frozen]_vars
    BY FinishedStep
  <1> QED BY <1>1, PTL DEF Spec, FinishedIsFinal, Frozen

-----------------------------------------------------------------------------
(* The room implements the entry-fee pot.                                  *)

\* The values of the pot's variables.
payersBar == IF feeCharged THEN SeatedPlayers ELSE {}
closedBar == state = "finished"

LEMMA PotStutters ==
  ASSUME payersBar' = payersBar, closedBar' = closedBar, ledger' = ledger, lost' = lost
  PROVE  UNCHANGED Pot!potVars
  BY DEF payersBar, closedBar, Pot!potVars

LEMMA PotAbandons ==
  ASSUME payersBar = {}, ~closedBar, payersBar' = {}, closedBar',
         \/ ledger' = ledger /\ lost' = lost
         \/ /\ LedgerFails
            /\ \E u \in Players \ {AI} : ledger' = [ledger EXCEPT ![u] = @ - EntryFee]
            /\ lost' = lost + EntryFee
  PROVE  Pot!Next
  BY DEF payersBar, closedBar, Pot!Next, Pot!Abandon

LEMMA PotKept ==
  ASSUME TypeOK, Kept
  PROVE  UNCHANGED Pot!potVars
  <1>1. SeatedPlayers' = SeatedPlayers
    BY DEF Kept, SeatedPlayers, Seated
  <1>2. payersBar' = payersBar /\ closedBar' = closedBar
    BY <1>1 DEF Kept, payersBar, closedBar, Running
  <1> QED BY <1>2, PotStutters DEF Kept

LEMMA PotVacated ==
  ASSUME FeeInv, Vacated
  PROVE  [Pot!Next]_Pot!potVars
  <1>1. /\ ~feeCharged /\ ~feeCharged' /\ ledger' = ledger /\ lost' = lost
        /\ state = "waiting"
    BY DEF Vacated, FeeInv, NothingMoved
  <1>2. payersBar = {} /\ payersBar' = {} /\ ~closedBar
    BY <1>1 DEF payersBar, closedBar
  <1>3. CASE state' = "finished"
    BY <1>1, <1>2, <1>3, PotAbandons DEF closedBar
  <1>4. CASE state' = "waiting"
    BY <1>1, <1>2, <1>4, PotStutters DEF closedBar
  <1> QED BY <1>3, <1>4 DEF Vacated

LEMMA PotDecided ==
  ASSUME TypeOK, SeatsAreTaken, FeeInv, Running,
         NEW w \in SeatedPlayers, NEW seq \in Nat, ResolveGame(w, seq)
  PROVE  Pot!Next
  <1>1. /\ state' = "finished" /\ SettleEntryFees(w) /\ w \in Players
    BY DEF ResolveGame, SeatedPlayers
  <1>2. TwoSeats /\ ~closedBar /\ closedBar'
    BY <1>1 DEF SeatsAreTaken, TwoSeats, closedBar, Running
  <1>3. ~feeCharged'
    BY <1>1, <1>2, SettleOne
  <1>4. payersBar' = {}
    BY <1>3 DEF payersBar
  <1>5. CASE ~feeCharged
    <2>1. payersBar = {} /\ ledger' = ledger /\ lost' = lost
      BY <1>1, <1>2, <1>5, SettleOne DEF payersBar
    <2> QED BY <1>2, <1>4, <2>1, PotAbandons
  <1>6. CASE feeCharged
    <2>1. payersBar = SeatedPlayers
      BY <1>6 DEF payersBar
    <2>2. CASE /\ ledger' = [u \in Players |->
                     ledger[u] + IF u = w THEN 2 * EntryFee ELSE 0]
               /\ lost' = lost
      <3>1. ledger \in [Players -> Int] /\ \A n \in Int : n + 0 = n
        BY DEF TypeOK
      <3>2. ledger' = [ledger EXCEPT ![w] = @ + 2 * EntryFee]
        BY <2>2, <3>1
      <3> QED BY <1>2, <1>4, <2>1, <2>2, <3>2
               DEF payersBar, closedBar, Pot!Next, Pot!PayOut
    <2>3. CASE LedgerFails /\ ledger' = ledger /\ lost' = lost + 2 * EntryFee
      BY <1>2, <1>4, <2>1, <2>3 DEF payersBar, closedBar, Pot!Next, Pot!PayOut
    <2> QED BY <1>1, <1>2, <1>6, <2>2, <2>3, SettleOne
  <1> QED BY <1>5, <1>6

LEMMA PotTakeSeat ==
  ASSUME TypeOK, SeatsAreTaken, FeeInv, NEW c \in Conn, TakeSeat(c)
  PROVE  [Pot!Next]_Pot!potVars
  <1> DEFINE u == UserOf[c]
             v == playerOrder[1]
  <1>1. u \in Players /\ state = "waiting" /\ NothingMoved
    BY TakeSeatKind DEF FeeInv
  <1>2. payersBar = {} /\ ~closedBar /\ ~feeCharged
    BY <1>1 DEF payersBar, closedBar, NothingMoved
  <1>3. CASE UNCHANGED <<state, feeCharged, ledger, lost, winner>>
    <2>1. payersBar' = payersBar /\ closedBar' = closedBar
      BY <1>2, <1>3 DEF payersBar, closedBar
    <2> QED BY <1>3, <2>1, PotStutters
  <1>4. CASE /\ v \in Players /\ v # u /\ playerOrder' = <<v, u>>
             /\ ChargeFails(playerOrder', clients')
    <2>1. v # AI /\ playerOrder'[1] = v
      BY <1>4 DEF ChargeFails, HasEntryFee
    <2>2. payersBar' = {} /\ closedBar'
      BY <1>2, <1>4 DEF ChargeFails, payersBar, closedBar
    <2>3. \/ ledger' = ledger /\ lost' = lost
          \/ /\ LedgerFails
             /\ ledger' = [ledger EXCEPT ![v] = @ - EntryFee]
             /\ lost' = lost + EntryFee
      BY <1>4, <2>1 DEF ChargeFails
    <2> QED BY <1>2, <1>4, <2>1, <2>2, <2>3, PotAbandons
  <1>5. CASE /\ v \in Players /\ v # u /\ playerOrder' = <<v, u>>
             /\ GameStarts(playerOrder')
    <2>1. /\ \A p \in Players : Seated(p)' <=> p \in {v, u}
          /\ SeatedPlayers' = {v, u}
      BY <1>1, <1>5 DEF Seated, SeatedPlayers
    <2>2. HasEntryFee(playerOrder') <=> AI \notin {v, u}
      BY <1>5 DEF HasEntryFee
    <2>3. lost' = lost /\ closedBar' = closedBar
      BY <1>1, <1>5 DEF GameStarts, closedBar
    <2>4. CASE AI \in {v, u}
      <3>1. feeCharged' = feeCharged /\ ledger' = ledger
        BY <1>5, <2>2, <2>4 DEF GameStarts
      <3>2. payersBar' = payersBar
        BY <1>2, <3>1 DEF payersBar
      <3> QED BY <2>3, <3>1, <3>2, PotStutters
    <2>5. CASE AI \notin {v, u}
      <3>1. /\ feeCharged'
            /\ ledger' = [p \in Players |-> ledger[p] -
                 IF \E i \in 1 .. Len(playerOrder') : playerOrder'[i] = p
                 THEN EntryFee ELSE 0]
        BY <1>5, <2>2, <2>5 DEF GameStarts
      <3>2. \A p \in Players :
              (\E i \in 1 .. Len(playerOrder') : playerOrder'[i] = p) <=> p \in {v, u}
        BY <2>1 DEF Seated
      <3>3. ledger' = [p \in Players |->
                        ledger[p] - IF p \in {v, u} THEN EntryFee ELSE 0]
        BY <3>1, <3>2, Zenon
      <3>4. payersBar' = {v, u}
        BY <2>1, <3>1 DEF payersBar
      <3> QED BY <1>1, <1>2, <1>5, <2>3, <2>5, <3>3, <3>4
               DEF payersBar, closedBar, Pot!Next, Pot!Collect
    <2> QED BY <2>4, <2>5
  <1> QED BY <1>3, <1>4, <1>5, TakeSeatKind

\* chargeEntryFees, settleEntryFees and every way a room can finish implement
\* the pot: two stakes go in together or none, and the pot is emptied once, in
\* one piece, to one of the two who filled it.
THEOREM RoomImplementsPot == Spec => PotSpec
  <1>1. Init => Pot!Init
    BY DEF Init, Pot!Init
  <1>2. RoomInv /\ [Next]_vars => [Pot!Next]_Pot!potVars
    <2> SUFFICES ASSUME RoomInv, [Next]_vars PROVE [Pot!Next]_Pot!potVars
      OBVIOUS
    <2>1. TypeOK /\ SeatsAreTaken /\ NoGraceYet /\ FeeInv
      BY DEF RoomInv
    <2>2. CASE Kept
      BY <2>1, <2>2, PotKept
    <2>3. CASE Vacated
      BY <2>1, <2>3, PotVacated
    <2>4. CASE Decided
      BY <2>1, <2>4, PotDecided DEF Decided
    <2>5. ASSUME NEW c \in Conn, TakeSeat(c) PROVE [Pot!Next]_Pot!potVars
      BY <2>1, <2>5, PotTakeSeat
    <2> QED BY <2>1, <2>2, <2>3, <2>4, <2>5, StepKinds
  <1> QED BY <1>1, <1>2, RoomInvariant, PTL DEF Spec, PotSpec, Pot!Spec

-----------------------------------------------------------------------------
(* The timers.  A sequence number is never given twice, so the timer that  *)
(* carries the current one is the last that was started.                   *)

TimersAreOld == /\ \A t \in turnTimers : t.seq <= turnSeq
                /\ \A t \in continueTimers : t.seq <= continueSeq

\* The player on turn is the one whose loss is pending.
WindowIsOwned == state = "continue_window" => pendingLossPlayer = CurrentPlayer

ClockInv == TimersAreOld /\ OneLiveTimer /\ WindowIsOwned

\* A step that starts no timer and lets none of the current number go.
LEMMA ClocksKept ==
  ASSUME TypeOK, ClockInv,
         UNCHANGED <<currentTurn, turnSeq, continueSeq, pendingLossPlayer>>,
         \/ state' = state /\ (Running => playerOrder' = playerOrder)
         \/ state' \notin {"active", "continue_window"},
         turnTimers' \subseteq turnTimers, continueTimers' \subseteq continueTimers,
         state = "active" => \A t \in turnTimers \ turnTimers' : t.seq # turnSeq,
         state = "continue_window" => \A t \in continueTimers \ continueTimers' : t.seq # continueSeq
  PROVE  ClockInv'
  <1>1. TimersAreOld'
    BY DEF ClockInv, TimersAreOld
  <1>2. CASE state' \notin {"active", "continue_window"}
    BY <1>1, <1>2 DEF ClockInv, OneLiveTimer, WindowIsOwned
  <1>3. CASE state' = state /\ playerOrder' = playerOrder
    <2>1. CurrentPlayer' = CurrentPlayer
      BY <1>3 DEF CurrentPlayer
    <2>2. state = "active" => {t \in turnTimers' : t.seq = turnSeq} = {t \in turnTimers : t.seq = turnSeq}
      OBVIOUS
    <2>3. state = "continue_window" =>
            {t \in continueTimers' : t.seq = continueSeq} = {t \in continueTimers : t.seq = continueSeq}
      OBVIOUS
    <2> QED BY <1>1, <1>3, <2>1, <2>2, <2>3 DEF ClockInv, OneLiveTimer, WindowIsOwned
  <1> QED BY <1>2, <1>3 DEF Running

\* A step that finishes the room.
LEMMA ClocksFinished ==
  ASSUME TypeOK, ClockInv, state' = "finished",
         turnSeq' \in Nat, turnSeq' >= turnSeq, continueSeq' \in Nat, continueSeq' >= continueSeq,
         turnTimers' \subseteq turnTimers, continueTimers' \subseteq continueTimers
  PROVE  ClockInv'
  BY DEF ClockInv, TimersAreOld, OneLiveTimer, WindowIsOwned, TypeOK, Timer

\* startTurn.
LEMMA ClocksTurn ==
  ASSUME TypeOK, ClockInv,
         NEW seating \in Seq(Players), Len(seating) = 2, NEW turn \in {0, 1},
         NEW seq \in Nat, seq >= turnSeq, NEW timers \in SUBSET turnTimers,
         StartTurn(seating, turn, seq, timers), playerOrder' = seating, state' = "active",
         continueSeq' \in Nat, continueSeq' >= continueSeq, continueTimers' = continueTimers
  PROVE  ClockInv'
  <1> DEFINE new == [seq |-> seq + 1, player |-> seating[turn + 1]]
  <1>1. /\ currentTurn' = turn /\ turnSeq' = seq + 1 /\ turnTimers' = timers \cup {new}
    BY DEF StartTurn
  <1>2. \A t \in timers : t.seq \in Nat /\ t.seq <= turnSeq /\ turnSeq \in Nat
    BY DEF ClockInv, TimersAreOld, TypeOK, Timer
  <1>3. TimersAreOld'
    BY <1>1, <1>2 DEF ClockInv, TimersAreOld, TypeOK, Timer
  <1>4. CurrentPlayer' = seating[turn + 1]
    <2>1. seating # <<>> /\ playerOrder' = seating /\ currentTurn' = turn
      BY <1>1
    <2> HIDE DEF new
    <2> QED BY ONLY <2>1 DEF CurrentPlayer
  <1>5. {t \in turnTimers' : t.seq = turnSeq'} = {new}
    <2>1. \A t \in timers : t.seq # seq + 1
      BY <1>2
    <2>2. new.seq = seq + 1
      OBVIOUS
    <2> HIDE DEF new
    <2> QED BY <1>1, <2>1, <2>2
  <1>6. OneLiveTimer'
    BY <1>1, <1>4, <1>5 DEF OneLiveTimer
  <1> QED BY <1>3, <1>6 DEF ClockInv, WindowIsOwned

\* handleLoss of the player on turn.
LEMMA ClocksLoss ==
  ASSUME TypeOK, TwoSeats, ClockInv, state = "active",
         NEW u \in Players, u = CurrentPlayer,
         NEW seq \in Nat, seq >= turnSeq, NEW timers \in SUBSET turnTimers,
         HandleLoss(u, seq, timers)
  PROVE  ClockInv'
  <1>0. continueSeq \in Nat /\ turnSeq \in Nat /\ TurnType /\ playerOrder \in Seq(Players) /\ Len(playerOrder) = 2
    BY DEF TypeOK, TurnType, TwoSeats
  <1>1. CASE shieldActive[u]
    <2>1. /\ StartTurn(playerOrder, (currentTurn + 1) % Len(playerOrder), seq, timers)
          /\ UNCHANGED <<state, playerOrder, continueSeq, continueTimers>>
      BY <1>1 DEF HandleLoss, lossVars
    <2> QED BY <1>0, <2>1, NextTurn, ClocksTurn
  <1>2. CASE ~shieldActive[u] /\ continueUsed[u]
    <2>1. /\ state' = "finished" /\ turnSeq' = seq + 1 /\ continueSeq' = continueSeq + 1
          /\ turnTimers' = timers /\ continueTimers' = continueTimers
      BY <1>2 DEF HandleLoss, ResolveGame
    <2> QED BY <1>0, <2>1, ClocksFinished
  <1>3. CASE ~shieldActive[u] /\ ~continueUsed[u]
    <2> DEFINE new == [seq |-> continueSeq + 1, player |-> u]
    <2>1. /\ state' = "continue_window" /\ pendingLossPlayer' = u
          /\ continueSeq' = continueSeq + 1 /\ continueTimers' = continueTimers \cup {new}
          /\ turnSeq' = seq /\ turnTimers' = timers
          /\ UNCHANGED <<playerOrder, currentTurn>>
      BY <1>3 DEF HandleLoss, StartContinueWindow
    <2>2. \A t \in continueTimers : t.seq \in Nat /\ t.seq <= continueSeq
      BY DEF ClockInv, TimersAreOld, TypeOK, Timer
    <2>3. CurrentPlayer' = u
      BY <2>1 DEF CurrentPlayer
    <2>4. TimersAreOld'
      BY <1>0, <2>1, <2>2 DEF ClockInv, TimersAreOld, TypeOK, Timer
    <2>5. {t \in continueTimers' : t.seq = continueSeq'} = {new}
      <3>1. \A t \in continueTimers : t.seq # continueSeq + 1
        BY <1>0, <2>2
      <3>2. new.seq = continueSeq + 1
        OBVIOUS
      <3> HIDE DEF new
      <3> QED BY <2>1, <3>1, <3>2
    <2> QED BY <2>1, <2>3, <2>4, <2>5 DEF ClockInv, OneLiveTimer, WindowIsOwned
  <1> QED BY <1>1, <1>2, <1>3

\* A turn timer that is not stale is the timer of the player on turn.
LEMMA LiveTimersOwner ==
  ASSUME TypeOK, ClockInv
  PROVE  /\ \A t \in turnTimers : ~TurnTimerIsStale(t) => t.player = CurrentPlayer
         /\ \A t \in continueTimers : ~ContinueTimerIsStale(t) =>
              t.player = CurrentPlayer /\ t.player = pendingLossPlayer
  BY DEF ClockInv, OneLiveTimer, WindowIsOwned, TurnTimerIsStale, ContinueTimerIsStale

LEMMA ClockStep ==
  ASSUME RoomInv, ClockInv, [Next]_vars
  PROVE  ClockInv'
  <1>0. TypeOK /\ SeatsAreTaken /\ NoGraceYet
    BY DEF RoomInv
  <1>n. turnSeq \in Nat /\ continueSeq \in Nat /\ playerOrder \in Seq(Players) /\ TurnType
    BY <1>0 DEF TypeOK, TurnType
  <1>r. ASSUME NEW w, ResolveGame(w, turnSeq), turnTimers' \subseteq turnTimers, continueTimers' \subseteq continueTimers
        PROVE  ClockInv'
    BY <1>0, <1>n, <1>r, ClocksFinished DEF ResolveGame
  <1>1. ASSUME NEW c \in Conn, Dial(c) \/ Reconnect(c) \/ JoinRejected(c) \/ GraceElapse(c)
        PROVE  ClockInv'
    BY <1>0, <1>1, ClocksKept DEF Dial, Reconnect, JoinRejected, GraceElapse, turnVars, lossVars
  <1>2. ASSUME NEW c \in Conn, TakeSeat(c) PROVE ClockInv'
    <2> DEFINE u == UserOf[c]
               seating == Append(playerOrder, u)
    <2>1. /\ ~Running /\ playerOrder' = seating /\ Len(seating) <= 2 /\ seating \in Seq(Players)
          /\ UNCHANGED lossVars
      BY <1>0, <1>2 DEF TakeSeat, RoomFull, SeatsAreTaken, TypeOK
    <2>2. CASE Len(seating) = 2
      <3>1. StartGame(seating, clients')
        BY <1>2, <2>2 DEF TakeSeat
      <3>2. CASE ChargeFails(seating, clients')
        BY <1>0, <2>1, <3>2, ClocksKept DEF ChargeFails, turnVars, lossVars
      <3>3. CASE GameStarts(seating)
        <4>1. StartTurn(seating, 0, turnSeq, turnTimers) /\ state' = "active"
          BY <3>3 DEF GameStarts
        <4> HIDE DEF seating
        <4> QED BY <1>0, <1>n, <2>1, <2>2, <4>1, ClocksTurn DEF lossVars
      <3> QED BY <3>1, <3>2, <3>3 DEF StartGame
    <2>3. CASE Len(seating) # 2
      <3>1. UNCHANGED <<state, turnVars, lossVars>>
        BY <1>2, <2>3 DEF TakeSeat
      <3> QED BY <1>0, <2>1, <3>1, ClocksKept DEF turnVars, lossVars
    <2> QED BY <2>2, <2>3
  <1>3. ASSUME NEW c \in Conn, Leave(c) PROVE ClockInv'
    <2>1. UNCHANGED <<state, turnVars, lossVars>> /\ (Running => playerOrder' = playerOrder)
      BY <1>3 DEF Leave, Running
    <2> QED BY <1>0, <2>1, ClocksKept DEF turnVars, lossVars
  <1>4. ASSUME NEW c \in Conn, GraceResolve(c) PROVE ClockInv'
    <2>1. CASE state = "finished"
      BY <1>0, <1>4, <2>1, ClocksKept DEF GraceResolve, turnVars, lossVars
    <2>2. CASE state # "finished"
      BY <1>4, <1>r, <2>2 DEF GraceResolve
    <2> QED BY <2>1, <2>2
  <1>5. ASSUME NEW c \in Conn, SubmitValidWord(c) PROVE ClockInv'
    <2>1. TwoSeats /\ state' = "active"
      BY <1>0, <1>5, RunningHasTwoSeats DEF SubmitValidWord, Running
    <2>2. /\ StartTurn(playerOrder, (currentTurn + 1) % Len(playerOrder), turnSeq + 1, turnTimers)
          /\ UNCHANGED <<playerOrder, continueSeq, continueTimers>>
      BY <1>5 DEF SubmitValidWord, lossVars
    <2> QED BY <1>0, <1>n, <2>1, <2>2, NextTurn, ClocksTurn DEF TwoSeats
  <1>6. ASSUME NEW c \in Conn, SubmitInvalidWord(c) PROVE ClockInv'
    <2>1. TwoSeats /\ state = "active" /\ UserOf[c] = CurrentPlayer /\ UserOf[c] \in Players
      BY <1>0, <1>6, RunningHasTwoSeats DEF SubmitInvalidWord, Running
    <2> QED BY <1>0, <1>6, <1>n, <2>1, ClocksLoss DEF SubmitInvalidWord
  <1>7. ASSUME NEW c \in Conn, NEW type \in PowerupTypes, UsePowerup(c, type) PROVE ClockInv'
    <2>1. CASE type # "extra_time"
      BY <1>0, <1>7, <2>1, ClocksKept DEF UsePowerup, lossVars
    <2>2. CASE type = "extra_time"
      <3> DEFINE new == [seq |-> turnSeq + 1, player |-> CurrentPlayer]
      <3>1. /\ state = "active" /\ state' = "active" /\ turnSeq' = turnSeq + 1
            /\ turnTimers' = turnTimers \cup {new}
            /\ UNCHANGED <<playerOrder, currentTurn, continueSeq, continueTimers>>
        BY <1>7, <2>2 DEF UsePowerup, lossVars
      <3>2. \A t \in turnTimers : t.seq \in Nat /\ t.seq <= turnSeq
        BY <1>0 DEF ClockInv, TimersAreOld, TypeOK, Timer
      <3>3. CurrentPlayer' = CurrentPlayer
        BY <3>1 DEF CurrentPlayer
      <3>4. TimersAreOld'
        BY <1>n, <3>1, <3>2 DEF ClockInv, TimersAreOld
      <3>5. {t \in turnTimers' : t.seq = turnSeq'} = {new}
        <4>1. \A t \in turnTimers : t.seq # turnSeq + 1
          BY <1>n, <3>2
        <4>2. new.seq = turnSeq + 1
          OBVIOUS
        <4> HIDE DEF new
        <4> QED BY <3>1, <4>1, <4>2
      <3> QED BY <3>1, <3>3, <3>4, <3>5 DEF ClockInv, OneLiveTimer, WindowIsOwned
    <2> QED BY <2>1, <2>2
  <1>8. ASSUME NEW c \in Conn, Continue(c) PROVE ClockInv'
    <2>1. TwoSeats
      BY <1>0, <1>8, RunningHasTwoSeats DEF Continue, Running
    <2>2. /\ StartTurn(playerOrder, currentTurn, turnSeq, turnTimers)
          /\ state' = "active" /\ continueSeq' = continueSeq + 1
          /\ UNCHANGED <<playerOrder, continueTimers>>
      BY <1>8 DEF Continue
    <2> QED BY <1>0, <1>n, <2>1, <2>2, ClocksTurn DEF TwoSeats, TurnType
  <1>9. ASSUME NEW c \in Conn, ProcessForfeit(c) \/ DeclineContinue(c) PROVE ClockInv'
    BY <1>9, <1>r DEF ProcessForfeit, DeclineContinue, Forfeit
  <1>10. ASSUME NEW t \in turnTimers, TurnTimeout(t) PROVE ClockInv'
    <2>1. CASE TurnTimerIsStale(t)
      BY <1>0, <1>10, <2>1, ClocksKept DEF TurnTimeout, TurnTimerIsStale, lossVars
    <2>2. CASE ~TurnTimerIsStale(t)
      <3>1. TwoSeats /\ state = "active" /\ t.player = CurrentPlayer /\ t.player \in Players
        BY <1>0, <2>2, LiveTimersOwner, RunningHasTwoSeats DEF TurnTimerIsStale, Running, TypeOK, Timer
      <3>2. HandleLoss(t.player, turnSeq, turnTimers \ {t})
        BY <1>10, <2>2 DEF TurnTimeout
      <3> QED BY <1>0, <1>n, <3>1, <3>2, ClocksLoss
    <2> QED BY <2>1, <2>2
  <1>11. ASSUME NEW t \in continueTimers, ContinueTimeout(t) PROVE ClockInv'
    <2>1. CASE ContinueTimerIsStale(t)
      BY <1>0, <1>11, <2>1, ClocksKept DEF ContinueTimeout, ContinueTimerIsStale
    <2>2. CASE ~ContinueTimerIsStale(t)
      BY <1>11, <1>r, <2>2 DEF ContinueTimeout
    <2> QED BY <2>1, <2>2
  <1>12. ASSUME WaitElapse \/ ExpireIfWaiting \/ DrainDone PROVE ClockInv'
    BY <1>0, <1>12, ClocksKept DEF WaitElapse, ExpireIfWaiting, DrainDone, turnVars, lossVars
  <1>13. ASSUME UNCHANGED vars PROVE ClockInv'
    BY <1>0, <1>13, ClocksKept DEF vars, turnVars, lossVars
  <1> QED BY <1>1, <1>2, <1>3, <1>4, <1>5, <1>6, <1>7, <1>8, <1>9, <1>10, <1>11, <1>12, <1>13 DEF Next

LEMMA ClockInvariant == Spec => [](RoomInv /\ ClockInv)
  <1>1. Init => ClockInv
    BY DEF Init, ClockInv, TimersAreOld, OneLiveTimer, WindowIsOwned
  <1>2. RoomInv /\ ClockInv /\ [Next]_vars => ClockInv'
    BY ClockStep
  <1> QED BY <1>1, <1>2, RoomInvariant, PTL DEF Spec

\* The clock of the current turn, or of the continue window, is always running,
\* there is one of it, and it is the clock of the player on turn.
THEOREM OneTimerLives == Spec => []OneLiveTimer
  BY ClockInvariant, PTL DEF ClockInv
-----------------------------------------------------------------------------
(* A room always has something to wake it up: the safety half of           *)
(* RoomIsRemoved.                                                          *)

\* A goroutine or timer is under way that takes the room on, until it has left the hub.
RoomWakesUp ==
  /\ state = "waiting" => waitTimer \in {"running", "fired"}
  /\ state = "active" => \E t \in turnTimers : ~TurnTimerIsStale(t)
  /\ state = "continue_window" => \E t \in continueTimers : ~ContinueTimerIsStale(t)
  /\ state = "finished" => drain = "sleeping" \/ ~inHub
  /\ ~inHub => state = "finished"

\* The drain belongs to the end of the room, and the hub to the end of the drain.
WakeInv ==
  /\ state = "waiting" => waitTimer \in {"running", "fired"}
  /\ drain = "none" <=> state # "finished"
  /\ ~inHub <=> drain = "done"

\* A step within a phase, or within the match
WakeKept ==
  /\ UNCHANGED <<waitTimer, drain, inHub>>
  /\ state' = state \/ (Running /\ Running')

\* The step that ends the room
WakeEnds == state' = "finished" /\ drain' = "sleeping" /\ inHub' = inHub

LEMMA WakeLoss ==
  ASSUME state = "active", NEW u, NEW seq, NEW timers, HandleLoss(u, seq, timers)
  PROVE  WakeKept \/ WakeEnds
BY DEF HandleLoss, StartContinueWindow, ResolveGame, CloseAfterDrain, drainVars, WakeKept, WakeEnds, Running

LEMMA WakeKinds ==
  ASSUME [Next]_vars
  PROVE  \/ WakeKept
         \/ state # "finished" /\ WakeEnds
         \/ (\E c \in Conn : TakeSeat(c)) \/ WaitElapse \/ ExpireIfWaiting \/ DrainDone
  <1>1. ASSUME NEW c \in Conn, Dial(c) \/ Reconnect(c) \/ JoinRejected(c) \/ Leave(c) \/ GraceElapse(c)
        PROVE  WakeKept
    BY <1>1 DEF Dial, Reconnect, JoinRejected, Leave, GraceElapse, WakeKept, drainVars
  <1>2. ASSUME NEW c \in Conn, GraceResolve(c)
        PROVE  WakeKept \/ (state # "finished" /\ WakeEnds)
    BY <1>2 DEF GraceResolve, ResolveGame, CloseAfterDrain, WakeKept, WakeEnds, drainVars
  <1>3. ASSUME NEW c \in Conn,
               \/ SubmitValidWord(c) \/ Continue(c)
               \/ \E type \in PowerupTypes : UsePowerup(c, type)
        PROVE  WakeKept
    BY <1>3 DEF SubmitValidWord, Continue, UsePowerup, WakeKept, Running, drainVars
  <1>4. ASSUME NEW c \in Conn, SubmitInvalidWord(c)
        PROVE  WakeKept \/ (state # "finished" /\ WakeEnds)
    BY <1>4, WakeLoss DEF SubmitInvalidWord
  <1>5. ASSUME NEW c \in Conn, ProcessForfeit(c) \/ DeclineContinue(c)
        PROVE  state # "finished" /\ WakeEnds
    BY <1>5 DEF ProcessForfeit, DeclineContinue, Forfeit, ResolveGame, CloseAfterDrain, WakeEnds
  <1>6. ASSUME NEW t \in turnTimers, TurnTimeout(t)
        PROVE  WakeKept \/ (state # "finished" /\ WakeEnds)
    <2>1. CASE TurnTimerIsStale(t) BY <1>6, <2>1 DEF TurnTimeout, WakeKept, drainVars
    <2>2. CASE ~TurnTimerIsStale(t)
      BY <1>6, <2>2, WakeLoss DEF TurnTimeout, TurnTimerIsStale
    <2> QED BY <2>1, <2>2
  <1>7. ASSUME NEW t \in continueTimers, ContinueTimeout(t)
        PROVE  WakeKept \/ (state # "finished" /\ WakeEnds)
    BY <1>7 DEF ContinueTimeout, ResolveGame, CloseAfterDrain, WakeKept, WakeEnds, drainVars
  <1>8. ASSUME UNCHANGED vars PROVE WakeKept
    BY <1>8 DEF vars, WakeKept, drainVars
  <1> QED BY <1>1, <1>2, <1>3, <1>4, <1>5, <1>6, <1>7, <1>8 DEF Next

LEMMA WakeStep ==
  ASSUME TypeOK, SeatsAreTaken, WakeInv, [Next]_vars
  PROVE  WakeInv'
  <1>1. CASE WakeKept BY <1>1 DEF WakeKept, WakeInv, Running
  <1>2. CASE state # "finished" /\ WakeEnds BY <1>2 DEF WakeEnds, WakeInv
  <1>3. ASSUME NEW c \in Conn, TakeSeat(c) PROVE WakeInv'
    <2>1. state = "waiting" /\ inHub' = inHub BY <1>3, TakeSeatKind DEF TakeSeat
    <2>2. CASE UNCHANGED <<waitTimer, state, turnVars, feeVars, drainVars>>
      BY <2>1, <2>2 DEF WakeInv, drainVars
    <2>3. ASSUME NEW seating, NEW cl, StartGame(seating, cl) PROVE WakeInv'
      BY <2>1, <2>3 DEF StartGame, ChargeFails, GameStarts, CloseAfterDrain, WakeInv, drainVars
    <2> QED BY <1>3, <2>2, <2>3 DEF TakeSeat
  <1>4. CASE WaitElapse BY <1>4 DEF WaitElapse, WakeInv, drainVars
  <1>5. CASE ExpireIfWaiting BY <1>5 DEF ExpireIfWaiting, CloseAfterDrain, WakeInv, drainVars
  <1>6. CASE DrainDone BY <1>6 DEF DrainDone, WakeInv
  <1> QED BY <1>1, <1>2, <1>3, <1>4, <1>5, <1>6, WakeKinds

\* Whatever its players do, a room that is in the hub has a timer that is not stale, or
\* a goroutine under way, that takes it on; and it leaves the hub only when it is over
\* (expireIfWaiting, triggerTurnTimeout, closeAfterDrain).  With the runtime's fairness,
\* which TLC assumes, that is RoomIsRemoved.
THEOREM RoomAlwaysWakesUp == Spec => []RoomWakesUp
  <1>1. Init => WakeInv
    BY DEF Init, WakeInv
  <1>2. RoomInv /\ WakeInv /\ [Next]_vars => WakeInv'
    BY WakeStep DEF RoomInv
  <1>3. RoomInv /\ ClockInv /\ WakeInv => RoomWakesUp
    <2> SUFFICES ASSUME RoomInv, ClockInv, WakeInv PROVE RoomWakesUp
      OBVIOUS
    <2>1. ASSUME state = "active" PROVE \E t \in turnTimers : ~TurnTimerIsStale(t)
      <3>1. [seq |-> turnSeq, player |-> CurrentPlayer] \in {t \in turnTimers : t.seq = turnSeq}
        BY <2>1 DEF ClockInv, OneLiveTimer
      <3> QED BY <2>1, <3>1 DEF TurnTimerIsStale
    <2>2. ASSUME state = "continue_window"
          PROVE  \E t \in continueTimers : ~ContinueTimerIsStale(t)
      <3>1. [seq |-> continueSeq, player |-> CurrentPlayer] \in {t \in continueTimers : t.seq = continueSeq}
        BY <2>2 DEF ClockInv, OneLiveTimer
      <3> QED BY <2>2, <3>1 DEF ContinueTimerIsStale
    <2>3. drain \in {"none", "sleeping", "done"} BY DEF RoomInv, TypeOK
    <2> QED BY <2>1, <2>2, <2>3 DEF WakeInv, RoomWakesUp
  <1> QED BY <1>1, <1>2, <1>3, RoomInvariant, ClockInvariant, PTL DEF Spec

-----------------------------------------------------------------------------
(* Who loses.                                                              *)

\* What LossIsOwned and OneContinue ask of one step.
OwnedStep == Running /\ state' = "finished" =>
               \/ winner' = OpponentOf(CurrentPlayer)
               \/ \E c \in Conn : ProcessForfeit(c) \/ GraceResolve(c)
ContinueStep ==
  /\ state = "continue_window" /\ state' = "active" =>
       /\ pendingLossPlayer = CurrentPlayer
       /\ continueUsed'[pendingLossPlayer]
  /\ state = "active" /\ state' = "continue_window" =>
       ~continueUsed[pendingLossPlayer']
  /\ Running => \A u \in Players : continueUsed[u] => continueUsed'[u]
FairStep == OwnedStep /\ ContinueStep

\* A step that leaves a running match as it is, or meets none.
LEMMA FairQuiet ==
  ASSUME TypeOK, Running => state' = state /\ continueUsed' = continueUsed
  PROVE  FairStep
  BY DEF FairStep, OwnedStep, ContinueStep, Running

\* A step that ends the match for the player on turn.
LEMMA FairLoss ==
  ASSUME TypeOK, NEW seq, ResolveGame(OpponentOf(CurrentPlayer), seq)
  PROVE  FairStep
  BY DEF FairStep, OwnedStep, ContinueStep, ResolveGame

LEMMA FairHandleLoss ==
  ASSUME TypeOK, state = "active", NEW seq, NEW timers,
         HandleLoss(CurrentPlayer, seq, timers)
  PROVE  FairStep
  <1>1. CASE shieldActive[CurrentPlayer]
    BY <1>1, FairQuiet DEF HandleLoss
  <1>2. CASE ~shieldActive[CurrentPlayer] /\ continueUsed[CurrentPlayer]
    BY <1>2, FairLoss DEF HandleLoss
  <1>3. CASE ~shieldActive[CurrentPlayer] /\ ~continueUsed[CurrentPlayer]
    BY <1>3 DEF HandleLoss, StartContinueWindow, FairStep, OwnedStep, ContinueStep
  <1> QED BY <1>1, <1>2, <1>3

LEMMA FairLossStep ==
  ASSUME RoomInv, ClockInv, [Next]_vars
  PROVE  FairStep
  <1>0. TypeOK /\ SeatsAreTaken
    BY DEF RoomInv
  <1>1. ASSUME NEW c \in Conn, Dial(c) \/ Reconnect(c) \/ JoinRejected(c) \/ GraceElapse(c)
        PROVE  FairStep
    BY <1>0, <1>1, FairQuiet DEF Dial, Reconnect, JoinRejected, GraceElapse
  <1>2. ASSUME NEW c \in Conn, TakeSeat(c) PROVE FairStep
    BY <1>0, <1>2, FairQuiet DEF TakeSeat, RoomFull, SeatsAreTaken
  <1>3. ASSUME NEW c \in Conn, Leave(c) PROVE FairStep
    BY <1>0, <1>3, FairQuiet DEF Leave, Running
  <1>4. ASSUME NEW c \in Conn, GraceResolve(c) PROVE FairStep
    <2>1. OwnedStep
      BY <1>4 DEF OwnedStep
    <2>2. ContinueStep
      BY <1>4 DEF GraceResolve, ResolveGame, ContinueStep
    <2> QED BY <2>1, <2>2 DEF FairStep
  <1>5. ASSUME NEW c \in Conn, SubmitValidWord(c) PROVE FairStep
    BY <1>0, <1>5, FairQuiet DEF SubmitValidWord
  <1>6. ASSUME NEW c \in Conn, SubmitInvalidWord(c) PROVE FairStep
    BY <1>0, <1>6, FairHandleLoss DEF SubmitInvalidWord
  <1>7. ASSUME NEW c \in Conn, NEW type \in PowerupTypes, UsePowerup(c, type) PROVE FairStep
    BY <1>0, <1>7, FairQuiet DEF UsePowerup
  <1>8. ASSUME NEW c \in Conn, Continue(c) PROVE FairStep
    <2>1. /\ state = "continue_window" /\ state' = "active"
          /\ UserOf[c] = pendingLossPlayer /\ UserOf[c] \in Players
          /\ continueUsed' = [continueUsed EXCEPT ![UserOf[c]] = TRUE]
      BY <1>8 DEF Continue
    <2>2. pendingLossPlayer = CurrentPlayer
      BY <2>1 DEF ClockInv, WindowIsOwned
    <2> QED BY <1>0, <2>1, <2>2 DEF FairStep, OwnedStep, ContinueStep, TypeOK
  <1>9. ASSUME NEW c \in Conn, ProcessForfeit(c) PROVE FairStep
    <2>1. OwnedStep
      BY <1>9 DEF OwnedStep
    <2>2. ContinueStep
      BY <1>9 DEF ProcessForfeit, Forfeit, ResolveGame, ContinueStep
    <2> QED BY <2>1, <2>2 DEF FairStep
  <1>10. ASSUME NEW c \in Conn, DeclineContinue(c) PROVE FairStep
    <2>1. UserOf[c] = CurrentPlayer
      BY <1>10 DEF DeclineContinue, ClockInv, WindowIsOwned
    <2> QED BY <1>0, <1>10, <2>1, FairLoss DEF DeclineContinue, Forfeit
  <1>11. ASSUME NEW t \in turnTimers, TurnTimeout(t) PROVE FairStep
    <2>1. CASE TurnTimerIsStale(t)
      BY <1>0, <1>11, <2>1, FairQuiet DEF TurnTimeout
    <2>2. CASE ~TurnTimerIsStale(t)
      <3>1. t.player = CurrentPlayer /\ state = "active"
        BY <1>0, <2>2, LiveTimersOwner DEF TurnTimerIsStale
      <3> QED BY <1>0, <1>11, <2>2, <3>1, FairHandleLoss DEF TurnTimeout
    <2> QED BY <2>1, <2>2
  <1>12. ASSUME NEW t \in continueTimers, ContinueTimeout(t) PROVE FairStep
    <2>1. CASE ContinueTimerIsStale(t)
      BY <1>0, <1>12, <2>1, FairQuiet DEF ContinueTimeout
    <2>2. CASE ~ContinueTimerIsStale(t)
      <3>1. t.player = CurrentPlayer
        BY <1>0, <2>2, LiveTimersOwner
      <3> QED BY <1>0, <1>12, <2>2, <3>1, FairLoss DEF ContinueTimeout
    <2> QED BY <2>1, <2>2
  <1>13. ASSUME WaitElapse \/ ExpireIfWaiting \/ DrainDone PROVE FairStep
    BY <1>0, <1>13, FairQuiet DEF WaitElapse, ExpireIfWaiting, DrainDone, Running
  <1>14. ASSUME UNCHANGED vars PROVE FairStep
    BY <1>0, <1>14, FairQuiet DEF vars
  <1> QED BY <1>1, <1>2, <1>3, <1>4, <1>5, <1>6, <1>7, <1>8, <1>9, <1>10, <1>11,
             <1>12, <1>13, <1>14 DEF Next

\* Unless somebody forfeits or is away too long, the player on turn is the one
\* who loses; and a player who has taken a continue gets no second window.
THEOREM LossesAreFair == Spec => LossIsFair
  <1>1. RoomInv /\ ClockInv /\ [Next]_vars => [OwnedStep]_vars /\ [ContinueStep]_vars
    BY FairLossStep DEF FairStep
  <1>2. Spec => [][OwnedStep]_vars /\ [][ContinueStep]_vars
    BY <1>1, ClockInvariant, PTL DEF Spec
  <1> QED BY <1>2 DEF LossIsFair, LossIsOwned, OneContinue, OwnedStep, ContinueStep

-----------------------------------------------------------------------------
(* The reconnect grace.                                                    *)

\* disconnectCancel of a player is the cancel function of one of the player's
\* own connections.
CancelIsOwned == \A u \in Players : disconnectCancel[u] \in Conn =>
                   UserOf[disconnectCancel[u]] = u

WatchInv == GraceMatchesAbsence /\ CancelIsOwned

\* A step that touches neither connections nor seats of a match in progress.
LEMMA WatchKept ==
  ASSUME WatchInv, UNCHANGED <<clients, disconnectCancel, grace>>,
         Running' => Running /\ playerOrder' = playerOrder
  PROVE  WatchInv'
  BY DEF WatchInv, GraceMatchesAbsence, AbsentIsWatched, PresentIsNotWatched, CancelIsOwned, Seated

LEMMA WatchStep ==
  ASSUME RoomInv, WatchInv, [Next]_vars
  PROVE  WatchInv'
  <1>0. TypeOK /\ SeatsAreTaken /\ NoGraceYet
    BY DEF RoomInv
  <1>u. \A c \in Conn : UserOf[c] \in Players
    OBVIOUS
  <1>t. /\ clients \in [Players -> Conn \cup {NoConn}] /\ grace \in [Conn -> {"none", "running", "fired"}]
        /\ disconnectCancel \in [Players -> Conn \cup {NoConn}]
    BY <1>0 DEF TypeOK
  <1>1. ASSUME NEW c \in Conn,
               \/ Dial(c) \/ JoinRejected(c) \/ SubmitValidWord(c) \/ Continue(c)
               \/ \E type \in PowerupTypes : UsePowerup(c, type)
        PROVE  WatchInv'
    BY <1>1, WatchKept
       DEF Dial, JoinRejected, SubmitValidWord, Continue, UsePowerup, connVars, Running
  <1>2. ASSUME NEW c \in Conn, Reconnect(c) PROVE WatchInv'
    <2> DEFINE u == UserOf[c]
    <2>1. /\ clients' = [clients EXCEPT ![u] = c]
          /\ disconnectCancel' = [disconnectCancel EXCEPT ![u] = NoConn]
          /\ grace' = [d \in Conn |->
               IF d = disconnectCancel[u] /\ grace[d] = "running" THEN "none" ELSE grace[d]]
          /\ UNCHANGED <<state, playerOrder>> /\ u \in Players
      BY <1>2, <1>u DEF Reconnect, CancelGrace
    <2>2. \A v \in Players : v # u => clients'[v] = clients[v] /\ disconnectCancel'[v] = disconnectCancel[v]
      BY <1>t, <2>1
    <2>3. AbsentIsWatched'
      <3> SUFFICES ASSUME Running', NEW v \in Players, Seated(v)', clients'[v] = NoConn
                   PROVE  /\ disconnectCancel'[v] \in Conn
                          /\ grace'[disconnectCancel'[v]] \in {"running", "fired"}
                          /\ UserOf[disconnectCancel'[v]] = v
        BY DEF AbsentIsWatched
      <3>1. v # u
        BY <1>t, <2>1
      <3>2. Running /\ Seated(v) /\ clients[v] = NoConn
        BY <2>1, <2>2, <3>1 DEF Running, Seated
      <3>3. disconnectCancel[v] \in Conn /\ grace[disconnectCancel[v]] \in {"running", "fired"}
            /\ UserOf[disconnectCancel[v]] = v
        BY <3>2 DEF WatchInv, GraceMatchesAbsence, AbsentIsWatched
      <3>4. disconnectCancel[u] # disconnectCancel[v]
        BY <2>1, <3>1, <3>3 DEF WatchInv, CancelIsOwned
      <3> QED BY <2>1, <2>2, <3>1, <3>3, <3>4
    <2>4. PresentIsNotWatched'
      <3> SUFFICES ASSUME NEW d \in Conn, grace'[d] = "running"
                   PROVE  clients'[UserOf[d]] = NoConn /\ disconnectCancel'[UserOf[d]] = d
        BY DEF PresentIsNotWatched
      <3>1. grace[d] = "running" /\ d # disconnectCancel[u]
        BY <2>1
      <3>2. clients[UserOf[d]] = NoConn /\ disconnectCancel[UserOf[d]] = d
        BY <3>1 DEF WatchInv, GraceMatchesAbsence, PresentIsNotWatched
      <3> QED BY <1>u, <2>2, <3>1, <3>2
    <2>5. CancelIsOwned'
      BY <1>t, <2>1, <2>2 DEF WatchInv, CancelIsOwned
    <2> QED BY <2>3, <2>4, <2>5 DEF WatchInv, GraceMatchesAbsence
  <1>3. ASSUME NEW c \in Conn, TakeSeat(c) PROVE WatchInv'
    <2> DEFINE u == UserOf[c]
    <2>1. /\ state = "waiting" /\ u \in Players
          /\ clients' = [clients EXCEPT ![u] = c]
          /\ UNCHANGED <<disconnectCancel, grace>>
      BY <1>0, <1>3, <1>u DEF TakeSeat, RoomFull, RoomClosed, SeatsAreTaken, TypeOK, States, Running
    <2>2. PresentIsNotWatched'
      BY <1>0, <2>1 DEF NoGraceYet, PresentIsNotWatched
    <2>3. AbsentIsWatched'
      <3> SUFFICES ASSUME Running', NEW v \in Players, Seated(v)' PROVE clients'[v] # NoConn
        BY DEF AbsentIsWatched
      <3>1. playerOrder' = Append(playerOrder, u) /\ playerOrder \in Seq(Players)
        BY <1>0, <1>3 DEF TakeSeat, TypeOK
      <3>2. Seated(v) \/ v = u
        BY <3>1 DEF Seated
      <3> QED BY <1>0, <1>t, <2>1, <3>2 DEF SeatsAreTaken
    <2> QED BY <2>1, <2>2, <2>3 DEF WatchInv, GraceMatchesAbsence, CancelIsOwned
  <1>4. ASSUME NEW c \in Conn, Leave(c) PROVE WatchInv'
    <2> DEFINE u == UserOf[c]
    <2>0. state' = state /\ u \in Players
      BY <1>4, <1>u DEF Leave
    <2>1. CASE clients[u] # c
      BY <1>4, <2>0, <2>1, WatchKept DEF Leave, Running
    <2>2. CASE clients[u] = c /\ ~Running
      <3>1. clients' = [clients EXCEPT ![u] = NoConn] /\ UNCHANGED <<disconnectCancel, grace>>
        BY <1>4, <2>2 DEF Leave
      <3>2. ~Running'
        BY <2>0, <2>2 DEF Running
      <3>3. PresentIsNotWatched'
        BY <1>t, <1>u, <3>1 DEF WatchInv, GraceMatchesAbsence, PresentIsNotWatched
      <3> QED BY <3>1, <3>2, <3>3 DEF WatchInv, GraceMatchesAbsence, AbsentIsWatched, CancelIsOwned
    <2>3. CASE clients[u] = c /\ Running
      <3>1. /\ clients' = [clients EXCEPT ![u] = NoConn]
            /\ grace' = [grace EXCEPT ![c] = "running"]
            /\ disconnectCancel' = [disconnectCancel EXCEPT ![u] = c]
            /\ playerOrder' = playerOrder
        BY <1>4, <2>3 DEF Leave, StartGrace, Running
      <3>2. \A v \in Players : v # u => clients'[v] = clients[v] /\ disconnectCancel'[v] = disconnectCancel[v]
        BY <1>t, <3>1
      <3>3. /\ clients'[u] = NoConn /\ disconnectCancel'[u] = c /\ grace'[c] = "running"
            /\ \A d \in Conn : d # c => grace'[d] = grace[d]
        BY <1>t, <2>0, <3>1
      <3>4. PresentIsNotWatched'
        <4> SUFFICES ASSUME NEW d \in Conn, grace'[d] = "running"
                     PROVE  clients'[UserOf[d]] = NoConn /\ disconnectCancel'[UserOf[d]] = d
          BY DEF PresentIsNotWatched
        <4>1. CASE d = c
          BY <3>3, <4>1
        <4>2. CASE d # c
          <5>1. clients[UserOf[d]] = NoConn /\ disconnectCancel[UserOf[d]] = d
            BY <3>3, <4>2 DEF WatchInv, GraceMatchesAbsence, PresentIsNotWatched
          <5> QED BY <1>u, <2>3, <3>2, <5>1
        <4> QED BY <4>1, <4>2
      <3>5. AbsentIsWatched'
        <4> SUFFICES ASSUME NEW v \in Players, Seated(v)', clients'[v] = NoConn
                     PROVE  /\ disconnectCancel'[v] \in Conn
                            /\ grace'[disconnectCancel'[v]] \in {"running", "fired"}
                            /\ UserOf[disconnectCancel'[v]] = v
          BY DEF AbsentIsWatched
        <4>1. CASE v = u
          BY <3>3, <4>1
        <4>2. CASE v # u
          <5>1. disconnectCancel[v] \in Conn /\ grace[disconnectCancel[v]] \in {"running", "fired"}
                /\ UserOf[disconnectCancel[v]] = v
            BY <2>3, <3>1, <3>2, <4>2 DEF WatchInv, GraceMatchesAbsence, AbsentIsWatched, Seated
          <5> QED BY <3>2, <3>3, <4>2, <5>1
        <4> QED BY <4>1, <4>2
      <3>6. CancelIsOwned'
        BY <3>2, <3>3 DEF WatchInv, CancelIsOwned
      <3> QED BY <3>4, <3>5, <3>6 DEF WatchInv, GraceMatchesAbsence
    <2> QED BY <2>1, <2>2, <2>3
  <1>5. ASSUME NEW c \in Conn, GraceElapse(c) PROVE WatchInv'
    <2>1. grace[c] = "running" /\ grace' = [grace EXCEPT ![c] = "fired"]
          /\ UNCHANGED <<clients, disconnectCancel, state, playerOrder>>
      BY <1>5 DEF GraceElapse
    <2> QED BY <1>t, <2>1 DEF WatchInv, GraceMatchesAbsence, AbsentIsWatched,
                             PresentIsNotWatched, CancelIsOwned, Running, Seated
  <1>6. ASSUME NEW c \in Conn, GraceResolve(c) PROVE WatchInv'
    <2>1. grace' = [grace EXCEPT ![c] = "none"] /\ UNCHANGED <<clients, disconnectCancel>>
          /\ state' = "finished"
      BY <1>6 DEF GraceResolve, ResolveGame
    <2> QED BY <1>t, <2>1 DEF WatchInv, GraceMatchesAbsence, AbsentIsWatched,
                             PresentIsNotWatched, CancelIsOwned, Running
  <1>h. ASSUME state = "active", NEW u, NEW seq, NEW timers, HandleLoss(u, seq, timers), UNCHANGED connVars
        PROVE  WatchInv'
    BY <1>h, WatchKept DEF HandleLoss, StartContinueWindow, ResolveGame, connVars, Running
  <1>7. ASSUME NEW c \in Conn, SubmitInvalidWord(c) PROVE WatchInv'
    BY <1>7, <1>h DEF SubmitInvalidWord
  <1>8. ASSUME NEW c \in Conn, ProcessForfeit(c) \/ DeclineContinue(c) PROVE WatchInv'
    BY <1>8, WatchKept DEF ProcessForfeit, DeclineContinue, Forfeit, ResolveGame, connVars, Running
  <1>9. ASSUME NEW t \in turnTimers, TurnTimeout(t) PROVE WatchInv'
    <2>1. CASE TurnTimerIsStale(t)
      BY <1>9, <2>1, WatchKept DEF TurnTimeout, connVars, Running
    <2>2. CASE ~TurnTimerIsStale(t)
      BY <1>9, <1>h, <2>2 DEF TurnTimeout, TurnTimerIsStale
    <2> QED BY <2>1, <2>2
  <1>10. ASSUME NEW t \in continueTimers, ContinueTimeout(t) PROVE WatchInv'
    BY <1>10, WatchKept DEF ContinueTimeout, ResolveGame, connVars, Running
  <1>11. ASSUME WaitElapse \/ ExpireIfWaiting \/ DrainDone PROVE WatchInv'
    BY <1>11, WatchKept DEF WaitElapse, ExpireIfWaiting, DrainDone, connVars, Running
  <1>12. ASSUME UNCHANGED vars PROVE WatchInv'
    BY <1>12, WatchKept DEF vars, connVars, Running
  <1> QED BY <1>1, <1>2, <1>3, <1>4, <1>5, <1>6, <1>7, <1>8, <1>9, <1>10, <1>11, <1>12 DEF Next

\* A seated player who is away from a running match is on the clock of the
\* connection that was lost, and nobody who is back is.
THEOREM AbsenceIsTimed == Spec => []GraceMatchesAbsence
  <1>1. Init => WatchInv
    BY DEF Init, WatchInv, GraceMatchesAbsence, AbsentIsWatched, PresentIsNotWatched,
           CancelIsOwned, Running
  <1>2. RoomInv /\ WatchInv /\ [Next]_vars => WatchInv'
    BY WatchStep
  <1>3. WatchInv => GraceMatchesAbsence
    BY DEF WatchInv
  <1> QED BY <1>1, <1>2, <1>3, RoomInvariant, PTL DEF Spec
-----------------------------------------------------------------------------
(* Who plays.                                                              *)

\* The places of two adjacent words of u in the chain
RepeatsAt(u) == {i \in 1 .. Len(chain) - 1 : chain[i] = u /\ chain[i + 1] = u}
LastWordBy(u) == chain # <<>> /\ chain[Len(chain)] = u

\* The shield of u has absorbed a loss; there is one shield per match.
Burnt(u) == <<u, "shield">> \in powerupUsed /\ ~shieldActive[u]

\* Whoever wrote the last word is on turn again only when the other player's
\* shield has just been used up, for the first and last time.
AlternateInv ==
  /\ state = "waiting" => chain = <<>> /\ \A u \in Players : ~shieldActive[u]
  /\ chain # <<>> => TwoSeats
  /\ \A u \in Players : shieldActive[u] => <<u, "shield">> \in powerupUsed
  /\ chain # <<>> => \A u, o \in SeatedPlayers : u # o =>
       /\ Repeats(u) <= IF Burnt(o) THEN 1 ELSE 0
       /\ Running /\ CurrentPlayer = u /\ LastWordBy(u) => Repeats(u) = 0 /\ Burnt(o)

LEMMA RepeatsFinite ==
  ASSUME chain \in Seq(Players), NEW u
  PROVE  IsFiniteSet(RepeatsAt(u)) /\ Repeats(u) = Cardinality(RepeatsAt(u)) /\ Repeats(u) \in Nat
  <1>1. IsFiniteSet(1 .. Len(chain) - 1)
    BY FS_Interval
  <1>2. IsFiniteSet(RepeatsAt(u))
    BY <1>1, FS_Subset DEF RepeatsAt
  <1> QED BY <1>2, FS_CardinalityType DEF Repeats, RepeatsAt

LEMMA NoRepeats ==
  ASSUME chain = <<>>, NEW u PROVE Repeats(u) = 0
  <1>1. {i \in 1 .. Len(chain) - 1 : chain[i] = u /\ chain[i + 1] = u} = {}
    OBVIOUS
  <1> QED BY <1>1, FS_EmptySet DEF Repeats

\* A word of v adds a repetition only when the word before is v's own.
LEMMA RepeatsOfAppend ==
  ASSUME chain \in Seq(Players), NEW v \in Players, chain' = Append(chain, v), NEW u
  PROVE  Repeats(u)' = IF u = v /\ LastWordBy(u) THEN Repeats(u) + 1 ELSE Repeats(u)
  <1> DEFINE n == Len(chain)
  <1>0. /\ n \in Nat /\ Len(chain') = n + 1 /\ chain'[n + 1] = v
        /\ \A i \in 1 .. n : chain'[i] = chain[i]
        /\ (chain = <<>> <=> n = 0)
    OBVIOUS
  <1>1. CASE u = v /\ LastWordBy(u)
    <2>1. n > 0 /\ chain[n] = u
      BY <1>0, <1>1 DEF LastWordBy
    <2>2. RepeatsAt(u)' = RepeatsAt(u) \cup {n}
      <3>1. \A i \in 1 .. n : (chain'[i] = u /\ chain'[i + 1] = u)
                              <=> (i = n \/ (i \in 1 .. n - 1 /\ chain[i] = u /\ chain[i + 1] = u))
        BY <1>0, <1>1, <2>1
      <3>2. RepeatsAt(u)' = {i \in 1 .. n : chain'[i] = u /\ chain'[i + 1] = u}
        BY <1>0 DEF RepeatsAt
      <3> QED BY <1>0, <2>1, <3>1, <3>2 DEF RepeatsAt
    <2>3. n \notin RepeatsAt(u)
      BY <1>0 DEF RepeatsAt
    <2>4. Cardinality(RepeatsAt(u) \cup {n}) = Cardinality(RepeatsAt(u)) + 1
      BY <2>3, RepeatsFinite, FS_AddElement
    <2>5. Repeats(u)' = Cardinality(RepeatsAt(u)')
      BY DEF Repeats, RepeatsAt
    <2> QED BY <1>1, <2>2, <2>4, <2>5, RepeatsFinite
  <1>2. CASE ~(u = v /\ LastWordBy(u))
    <2>1. \A i \in 1 .. n : (chain'[i] = u /\ chain'[i + 1] = u)
                            <=> (i \in 1 .. n - 1 /\ chain[i] = u /\ chain[i + 1] = u)
      BY <1>0, <1>2 DEF LastWordBy
    <2>2. RepeatsAt(u)' = {i \in 1 .. n : chain'[i] = u /\ chain'[i + 1] = u}
      BY <1>0 DEF RepeatsAt
    <2>3. RepeatsAt(u)' = RepeatsAt(u)
      BY <1>0, <2>1, <2>2 DEF RepeatsAt
    <2>4. Repeats(u)' = Cardinality(RepeatsAt(u)')
      BY DEF Repeats, RepeatsAt
    <2> QED BY <1>2, <2>3, <2>4, RepeatsFinite
  <1> QED BY <1>1, <1>2

LEMMA AlternateImplies == TypeOK /\ AlternateInv => TurnsAlternate
  <1> SUFFICES ASSUME TypeOK, AlternateInv, NEW u \in SeatedPlayers
               PROVE  Repeats(u) <= IF Burnt(OpponentOf(u)) THEN 1 ELSE 0
    BY DEF TurnsAlternate, Burnt
  <1>1. CASE chain = <<>>
    BY <1>1, NoRepeats
  <1>2. CASE chain # <<>>
    <2>1. TwoSeats /\ u \in Players
      BY <1>2 DEF AlternateInv, SeatedPlayers
    <2>2. OpponentOf(u) \in SeatedPlayers /\ OpponentOf(u) # u
      BY <2>1, SeatsOfTwo, OpponentOfTwo DEF TwoSeats
    <2> QED BY <1>2, <2>2 DEF AlternateInv
  <1> QED BY <1>1, <1>2

\* A step that adds no word and passes no turn.
LEMMA AlternateKept ==
  ASSUME TypeOK, AlternateInv, UNCHANGED <<chain, playerOrder, powerVars>>,
         state' = "waiting" => state = "waiting",
         Running' /\ chain # <<>> => Running /\ currentTurn' = currentTurn
  PROVE  AlternateInv'
  <1>1. \A u : Repeats(u)' = Repeats(u) /\ Burnt(u)' = Burnt(u) /\ LastWordBy(u)' = LastWordBy(u)
    BY DEF Repeats, Burnt, LastWordBy, powerVars
  <1>2. SeatedPlayers' = SeatedPlayers /\ TwoSeats' = TwoSeats
    BY DEF SeatedPlayers, Seated, TwoSeats
  <1>3. Running' /\ chain # <<>> => Running /\ CurrentPlayer' = CurrentPlayer
    BY DEF CurrentPlayer
  <1> QED BY <1>1, <1>2, <1>3 DEF AlternateInv, powerVars

\* A step of a room where no word has been played.
LEMMA AlternateEmpty ==
  ASSUME chain' = <<>>, \A u \in Players : ~shieldActive'[u]
  PROVE  AlternateInv'
  BY DEF AlternateInv

\* The seats of a running match and the player on turn.
LEMMA OnTurn ==
  ASSUME TypeOK, TwoSeats
  PROVE  /\ CurrentPlayer \in SeatedPlayers /\ SeatedPlayers \subseteq Players
         /\ CurrentPlayer = playerOrder[currentTurn + 1] /\ playerOrder # <<>>
         /\ \A u, v, w \in SeatedPlayers : u # w /\ v # w => u = v
         /\ \A turn \in {0, 1} : turn # currentTurn =>
              playerOrder[turn + 1] \in SeatedPlayers /\ playerOrder[turn + 1] # CurrentPlayer
  <1>0. TurnType /\ playerOrder \in Seq(Players)
    BY TypeGroups DEF SeatType
  <1>1. currentTurn \in {0, 1} /\ playerOrder # <<>>
    <2>1. \A s \in Seq(Players) : Len(s) = 2 => s # <<>>
      OBVIOUS
    <2> QED BY <1>0, <2>1 DEF TurnType, TwoSeats
  <1> QED BY <1>1, SeatsOfTwo DEF CurrentPlayer, TwoSeats, SeatedPlayers

LEMMA TurnPassed ==
  ASSUME TypeOK, TwoSeats
  PROVE  (currentTurn + 1) % Len(playerOrder) \in {0, 1} \ {currentTurn}
  <1>1. currentTurn \in {0, 1}
    BY TypeGroups DEF TurnType
  <1> QED BY <1>1 DEF TwoSeats

\* handleLoss of the player on turn: a shield that passes the turn is burnt.
LEMMA AlternateLoss ==
  ASSUME TypeOK, TwoSeats, AlternateInv, state = "active",
         NEW seq, NEW timers, HandleLoss(CurrentPlayer, seq, timers)
  PROVE  AlternateInv'
  <1>p. PICK p \in Players : p = CurrentPlayer
    BY OnTurn
  <1>0. p \in SeatedPlayers /\ HandleLoss(p, seq, timers)
    BY <1>p, OnTurn
  <1>1. CASE ~shieldActive[p]
    BY <1>0, <1>1, AlternateKept DEF HandleLoss, ResolveGame, StartContinueWindow, Running
  <1>2. CASE shieldActive[p]
    <2> DEFINE turn == (currentTurn + 1) % Len(playerOrder)
    <2>1. /\ shieldActive' = [shieldActive EXCEPT ![p] = FALSE]
          /\ currentTurn' = turn
          /\ UNCHANGED <<state, playerOrder, chain, powerupUsed>>
      BY <1>0, <1>2 DEF HandleLoss, StartTurn
    <2>2. shieldActive \in [Players -> BOOLEAN]
      BY DEF TypeOK
    <2>3. /\ SeatedPlayers' = SeatedPlayers /\ TwoSeats'
          /\ \A u : Repeats(u)' = Repeats(u) /\ LastWordBy(u)' = LastWordBy(u)
      BY <2>1 DEF SeatedPlayers, Seated, TwoSeats, Repeats, LastWordBy
    <2>4. ~Burnt(p) /\ Burnt(p)' /\ \A u \in Players : u # p => Burnt(u)' = Burnt(u)
      <3>1. <<p, "shield">> \in powerupUsed
        BY <1>0, <1>2 DEF AlternateInv
      <3>2. ~shieldActive'[p] /\ \A u \in Players : u # p => shieldActive'[u] = shieldActive[u]
        BY <1>0, <2>1, <2>2
      <3>3. ~Burnt(p) /\ Burnt(p)'
        BY <1>2, <2>1, <3>1, <3>2 DEF Burnt
      <3>4. \A u \in Players : u # p => Burnt(u)' = Burnt(u)
        BY <2>1, <3>2 DEF Burnt
      <3> QED BY <3>3, <3>4
    <2>5. CurrentPlayer' \in SeatedPlayers /\ CurrentPlayer' # p
      <3>1. CurrentPlayer' = playerOrder[turn + 1]
        BY <2>1, OnTurn DEF CurrentPlayer
      <3>2. turn \in {0, 1} /\ turn # currentTurn
        BY TurnPassed
      <3> HIDE DEF turn
      <3> QED BY <1>p, <3>1, <3>2, OnTurn
    <2>6. ASSUME NEW u \in SeatedPlayers, NEW o \in SeatedPlayers, u # o, chain # <<>>
          PROVE  /\ Repeats(u) <= IF Burnt(o)' THEN 1 ELSE 0
                 /\ CurrentPlayer' = u => Repeats(u) = 0 /\ Burnt(o)'
      <3>1. u \in Players /\ o \in Players /\ Repeats(u) \in Nat
        BY OnTurn, RepeatsFinite DEF TypeOK
      <3>2. Repeats(u) <= IF Burnt(o) THEN 1 ELSE 0
        BY <2>6 DEF AlternateInv
      <3>3. CASE o = p
        <4>1. ~Burnt(o) /\ Burnt(o)'
          BY <2>4, <3>3
        <4>2. Repeats(u) = 0
          BY <3>1, <3>2, <4>1
        <4> QED BY <4>1, <4>2
      <3>4. CASE o # p
        <4>1. u = p
          BY <1>0, <2>6, <3>4, OnTurn
        <4> QED BY <2>4, <2>5, <3>1, <3>2, <3>4, <4>1
      <3> QED BY <3>3, <3>4
    <2>7. \A u \in Players : shieldActive'[u] => <<u, "shield">> \in powerupUsed'
      BY <1>0, <2>1, <2>2 DEF AlternateInv
    <2> HIDE DEF turn
    <2> QED BY <2>1, <2>3, <2>6, <2>7 DEF AlternateInv
  <1> QED BY <1>1, <1>2

LEMMA AlternateWord ==
  ASSUME TypeOK, TwoSeats, AlternateInv, NEW c \in Conn, SubmitValidWord(c)
  PROVE  AlternateInv'
  <1> DEFINE p == CurrentPlayer
             turn == (currentTurn + 1) % Len(playerOrder)
  <1>0. p \in SeatedPlayers /\ p \in Players /\ chain \in Seq(Players)
    BY OnTurn DEF TypeOK
  <1>1. /\ state = "active" /\ chain' = Append(chain, p) /\ currentTurn' = turn
        /\ UNCHANGED <<state, playerOrder, powerVars>>
    BY DEF SubmitValidWord, StartTurn
  <1>2. /\ SeatedPlayers' = SeatedPlayers /\ TwoSeats'
        /\ \A u : Burnt(u)' = Burnt(u)
    BY <1>1 DEF SeatedPlayers, Seated, TwoSeats, Burnt, powerVars
  <1>3. CurrentPlayer' \in SeatedPlayers /\ CurrentPlayer' # p
    <2>1. CurrentPlayer' = playerOrder[turn + 1]
      BY <1>1, OnTurn DEF CurrentPlayer
    <2>2. turn \in {0, 1} /\ turn # currentTurn
      BY TurnPassed
    <2> HIDE DEF turn
    <2> QED BY <2>1, <2>2, OnTurn
  <1>4. chain' # <<>> /\ \A u : LastWordBy(u)' => u = p
    BY <1>0, <1>1 DEF LastWordBy
  <1>5. ASSUME NEW u \in SeatedPlayers, NEW o \in SeatedPlayers, u # o
        PROVE  Repeats(u)' <= IF Burnt(o) THEN 1 ELSE 0
    <2>1. Repeats(u) \in Nat
      BY <1>0, RepeatsFinite
    <2>2. CASE chain = <<>>
      <3>1. Repeats(u) = 0 /\ ~LastWordBy(u)
        BY <2>2, NoRepeats DEF LastWordBy
      <3>2. Repeats(u)' = 0
        BY <1>0, <1>1, <3>1, RepeatsOfAppend
      <3> QED BY <3>2
    <2>3. CASE chain # <<>>
      <3>1. Repeats(u) <= IF Burnt(o) THEN 1 ELSE 0
        BY <1>5, <2>3 DEF AlternateInv
      <3>2. CASE u = p /\ LastWordBy(u)
        <4>1. Repeats(u) = 0 /\ Burnt(o)
          BY <1>1, <1>5, <2>3, <3>2 DEF AlternateInv, Running
        <4>2. Repeats(u)' = 1
          BY <1>0, <1>1, <3>2, <4>1, RepeatsOfAppend
        <4> QED BY <4>1, <4>2
      <3>3. CASE ~(u = p /\ LastWordBy(u))
        <4>1. Repeats(u)' = Repeats(u)
          BY <1>0, <1>1, <3>3, RepeatsOfAppend
        <4> QED BY <3>1, <4>1
      <3> QED BY <3>2, <3>3
    <2> QED BY <2>2, <2>3
  <1>6. \A u \in Players : shieldActive'[u] => <<u, "shield">> \in powerupUsed'
    BY <1>1 DEF AlternateInv, powerVars
  <1> HIDE DEF turn
  <1> QED BY <1>1, <1>2, <1>3, <1>4, <1>5, <1>6 DEF AlternateInv

LEMMA AlternatePowerup ==
  ASSUME TypeOK, AlternateInv, NEW c \in Conn, NEW type \in PowerupTypes, UsePowerup(c, type)
  PROVE  AlternateInv'
  <1> DEFINE p == UserOf[c]
  <1>0. p \in Players /\ shieldActive \in [Players -> BOOLEAN]
    BY DEF TypeOK
  <1>1. /\ state = "active" /\ <<p, type>> \notin powerupUsed
        /\ powerupUsed' = powerupUsed \cup {<<p, type>>}
        /\ shieldActive' = [shieldActive EXCEPT ![p] = @ \/ type = "shield"]
        /\ UNCHANGED <<state, playerOrder, currentTurn, chain>>
    BY DEF UsePowerup
  <1>2. /\ SeatedPlayers' = SeatedPlayers /\ TwoSeats' = TwoSeats
        /\ CurrentPlayer' = CurrentPlayer /\ Running' = Running
        /\ \A u : Repeats(u)' = Repeats(u) /\ LastWordBy(u)' = LastWordBy(u)
    BY <1>1 DEF SeatedPlayers, Seated, TwoSeats, Repeats, LastWordBy, CurrentPlayer, Running
  <1>3. \A u \in Players : /\ Burnt(u)' = Burnt(u)
                           /\ shieldActive'[u] => <<u, "shield">> \in powerupUsed'
    <2> SUFFICES ASSUME NEW u \in Players
                 PROVE  /\ Burnt(u)' = Burnt(u)
                        /\ shieldActive'[u] => <<u, "shield">> \in powerupUsed'
      OBVIOUS
    <2>1. CASE u = p /\ type = "shield"
      BY <1>0, <1>1, <2>1 DEF Burnt
    <2>2. CASE u # p \/ type # "shield"
      <3>1. <<u, "shield">> \in powerupUsed' <=> <<u, "shield">> \in powerupUsed
        BY <1>1, <2>2
      <3>2. shieldActive'[u] = shieldActive[u]
        BY <1>0, <1>1, <2>2
      <3> QED BY <3>1, <3>2 DEF Burnt, AlternateInv
    <2> QED BY <2>1, <2>2
  <1>4. SeatedPlayers \subseteq Players
    BY DEF SeatedPlayers
  <1> QED BY <1>1, <1>2, <1>3, <1>4 DEF AlternateInv

LEMMA AlternateStep ==
  ASSUME RoomInv, ClockInv, AlternateInv, [Next]_vars
  PROVE  AlternateInv'
  <1>0. TypeOK /\ SeatsAreTaken
    BY DEF RoomInv
  <1>1. ASSUME NEW c \in Conn,
               \/ Dial(c) \/ Reconnect(c) \/ JoinRejected(c) \/ GraceElapse(c)
               \/ GraceResolve(c) \/ ProcessForfeit(c) \/ DeclineContinue(c)
        PROVE  AlternateInv'
    BY <1>0, <1>1, AlternateKept
       DEF Dial, Reconnect, JoinRejected, GraceElapse, GraceResolve, ProcessForfeit,
           DeclineContinue, Forfeit, ResolveGame, turnVars, Running
  <1>2. ASSUME NEW c \in Conn, TakeSeat(c) PROVE AlternateInv'
    <2>1. state = "waiting"
      BY <1>0, <1>2 DEF TakeSeat, RoomFull, RoomClosed, SeatsAreTaken, TypeOK, States, Running
    <2> QED BY <1>2, <2>1, AlternateEmpty DEF TakeSeat, AlternateInv
  <1>3. ASSUME NEW c \in Conn, Leave(c) PROVE AlternateInv'
    <2>1. CASE state = "waiting"
      BY <1>3, <2>1, AlternateEmpty DEF Leave, AlternateInv
    <2>2. CASE state # "waiting"
      BY <1>0, <1>3, <2>2, AlternateKept DEF Leave, turnVars, powerVars, Running
    <2> QED BY <2>1, <2>2
  <1>4. ASSUME NEW c \in Conn, SubmitValidWord(c) PROVE AlternateInv'
    BY <1>0, <1>4, RunningHasTwoSeats, AlternateWord DEF SubmitValidWord, Running
  <1>5. ASSUME NEW c \in Conn, SubmitInvalidWord(c) PROVE AlternateInv'
    BY <1>0, <1>5, RunningHasTwoSeats, AlternateLoss DEF SubmitInvalidWord, Running
  <1>6. ASSUME NEW c \in Conn, NEW type \in PowerupTypes, UsePowerup(c, type) PROVE AlternateInv'
    BY <1>0, <1>6, AlternatePowerup
  <1>7. ASSUME NEW c \in Conn, Continue(c) PROVE AlternateInv'
    BY <1>0, <1>7, AlternateKept DEF Continue, StartTurn, Running
  <1>8. ASSUME NEW t \in turnTimers, TurnTimeout(t) PROVE AlternateInv'
    <2>1. CASE TurnTimerIsStale(t)
      BY <1>0, <1>8, <2>1, AlternateKept DEF TurnTimeout, Running
    <2>2. CASE ~TurnTimerIsStale(t)
      <3>1. t.player = CurrentPlayer /\ state = "active" /\ TwoSeats
        BY <1>0, <2>2, LiveTimersOwner, RunningHasTwoSeats DEF TurnTimerIsStale, Running
      <3> QED BY <1>0, <1>8, <2>2, <3>1, AlternateLoss DEF TurnTimeout
    <2> QED BY <2>1, <2>2
  <1>9. ASSUME NEW t \in continueTimers, ContinueTimeout(t) PROVE AlternateInv'
    BY <1>0, <1>9, AlternateKept DEF ContinueTimeout, ResolveGame, Running
  <1>10. ASSUME WaitElapse \/ ExpireIfWaiting \/ DrainDone PROVE AlternateInv'
    BY <1>0, <1>10, AlternateKept DEF WaitElapse, ExpireIfWaiting, DrainDone, turnVars, Running
  <1>11. ASSUME UNCHANGED vars PROVE AlternateInv'
    BY <1>0, <1>11, AlternateKept DEF vars, turnVars, Running
  <1> QED BY <1>1, <1>2, <1>3, <1>4, <1>5, <1>6, <1>7, <1>8, <1>9, <1>10, <1>11 DEF Next

\* Nobody plays twice in a row, except once over the other player's shield.
THEOREM TurnsAlwaysAlternate == Spec => []TurnsAlternate
  <1>1. Init => AlternateInv
    BY DEF Init, AlternateInv
  <1>2. RoomInv /\ ClockInv /\ AlternateInv /\ [Next]_vars => AlternateInv'
    BY AlternateStep
  <1>3. RoomInv /\ AlternateInv => TurnsAlternate
    BY AlternateImplies DEF RoomInv
  <1> QED BY <1>1, <1>2, <1>3, ClockInvariant, PTL DEF Spec

-----------------------------------------------------------------------------
(* The locks of a room                                                     *)

USE OwnersAssumption, TurnsAssumption

\* The phase cannot change under a handler: the one that holds the lock is the one the
\* phase let in, and only its own return ends the match.
HeldFits ==
  /\ held.op \in {"turn", "finish"} => phase = "active"
  /\ held.op = "expire" => phase = "waiting"

\* Channels are closed after the end alone.
ClosedAfterEnd == phase # "finished" => closed = {}
SendsInv == phase \in {"waiting", "active", "finished"} /\ HeldFits /\ ClosedAfterEnd

LEMMA SendsInit == LocksInit => SendsInv
BY DEF LocksInit, SendsInv, HeldFits, ClosedAfterEnd, Free

\* Whoever begins has been let in by the phase; nobody else changes it meanwhile.
LEMMA HoldKeepsSends ==
  ASSUME SendsInv, NEW op, NEW c, Hold(op, c),
         op \in {"turn", "finish"} => phase = "active", op = "expire" => phase = "waiting"
  PROVE  SendsInv'
BY DEF Hold, SendsInv, HeldFits, ClosedAfterEnd

LEMMA QuietKeepsSends ==
  ASSUME SendsInv, UNCHANGED <<phase, held, closed>>
  PROVE  SendsInv'
BY DEF SendsInv, HeldFits, ClosedAfterEnd

LEMMA SendsNext == SendsInv /\ [LocksNext]_lockVars => SendsInv'
<1> SUFFICES ASSUME SendsInv, [LocksNext]_lockVars PROVE SendsInv'
  OBVIOUS
<1>1. ASSUME NEW c \in Conns, BeginJoin(c) \/ BeginLeave(c) PROVE SendsInv'
  BY <1>1, HoldKeepsSends DEF BeginJoin, BeginLeave
<1>2. CASE BeginTurn \/ BeginFinish \/ BeginExpire
  BY <1>2, HoldKeepsSends DEF BeginTurn, BeginFinish, BeginExpire
<1>3. ASSUME NEW c \in Conns, JoinDone(c) PROVE SendsInv'
  BY <1>3 DEF JoinDone, SendsInv, HeldFits, ClosedAfterEnd, Free
<1>4. ASSUME NEW c \in Conns, LeaveDone(c) PROVE SendsInv'
  BY <1>4 DEF LeaveDone, SendsInv, HeldFits, ClosedAfterEnd, Free
<1>5. ASSUME NEW c \in Conns, Ping(c) \/ PingDone(c) PROVE SendsInv'
  BY <1>5, QuietKeepsSends DEF Ping, PingDone
<1>6. ASSUME NEW k \in Turns, Tick(k) \/ TickDone(k) \/ UpdaterEnds(k) PROVE SendsInv'
  BY <1>6, QuietKeepsSends DEF Tick, TickDone, UpdaterEnds
<1>7. CASE TurnDone BY <1>7 DEF TurnDone, SendsInv, HeldFits, ClosedAfterEnd, Free
<1>8. CASE EndDone BY <1>8 DEF EndDone, SendsInv, HeldFits, ClosedAfterEnd, Free
<1>9. CASE DrainCloses BY <1>9 DEF DrainCloses, SendsInv, HeldFits, ClosedAfterEnd
<1>10. CASE UNCHANGED lockVars BY <1>10, QuietKeepsSends DEF lockVars
<1> QED BY <1>1, <1>2, <1>3, <1>4, <1>5, <1>6, <1>7, <1>8, <1>9, <1>10 DEF LocksNext

\* A handler never sends on a closed channel (Room.broadcast and sendTo under r.mu, the
\* drain of closeAfterDrain), for any connections, returns and disconnects.
THEOREM LockedSendsAlwaysOpen == LocksSpec => []LockedSendsAreOpen
<1>1. SendsInv => LockedSendsAreOpen
  BY DEF SendsInv, HeldFits, ClosedAfterEnd, LockedSendsAreOpen, Sends
<1> QED BY <1>1, SendsInit, SendsNext, PTL DEF LocksSpec

-----------------------------------------------------------------------------
(* The countdowns.                                                         *)

\* The lobby has none, and resolveGame stops the last one.
CancelFits == phase # "active" => current = 0
CountInv == updater \in [Turns -> {"none", "select", "broadcast", "ended"}] /\ OneUpdater /\ CancelFits

LEMMA CountInit == LocksInit => CountInv
BY DEF LocksInit, CountInv, OneUpdater, CancelFits, Turns

LEMMA QuietKeepsCount ==
  ASSUME CountInv, UNCHANGED <<phase, updater, cancelled, current>>
  PROVE  CountInv'
BY DEF CountInv, OneUpdater, CancelFits

\* startTurn cancels the updater r.timerUpdateCancel names before it starts its own, and
\* that was the only one that went on.
LEMMA NextUpdaterKeeps ==
  ASSUME CountInv, NextUpdater, phase' = "active"
  PROVE  CountInv'
<1>1. PICK k : /\ updater' = [updater EXCEPT ![k] = "select"]
               /\ cancelled' = cancelled \cup ({current} \ {0}) /\ current' = k
  BY DEF NextUpdater
<1>2. updater' \in [Turns -> {"none", "select", "broadcast", "ended"}] BY <1>1 DEF CountInv
<1>3. ASSUME NEW j \in Turns, updater'[j] \in {"select", "broadcast"}, j \notin cancelled'
      PROVE  j = current'
  <2>1. CASE j = k BY <1>1, <2>1
  <2>2. CASE j # k
    <3>1. updater[j] \in {"select", "broadcast"} /\ j \notin cancelled
      BY <1>1, <1>3, <2>2 DEF CountInv
    <3>2. j = current /\ j # 0 BY <3>1 DEF CountInv, OneUpdater, Turns
    <3> QED BY <1>1, <1>3, <3>2
  <2> QED BY <2>1, <2>2
<1> QED BY <1>2, <1>3 DEF CountInv, OneUpdater, CancelFits

LEMMA CountNext == SendsInv /\ CountInv /\ [LocksNext]_lockVars => CountInv'
<1> SUFFICES ASSUME SendsInv, CountInv, [LocksNext]_lockVars PROVE CountInv'
  OBVIOUS
<1>1. ASSUME NEW c \in Conns, BeginJoin(c) \/ BeginLeave(c) PROVE CountInv'
  BY <1>1, QuietKeepsCount DEF BeginJoin, BeginLeave, Hold
<1>2. CASE BeginTurn \/ BeginFinish \/ BeginExpire
  BY <1>2, QuietKeepsCount DEF BeginTurn, BeginFinish, BeginExpire, Hold
<1>3. ASSUME NEW c \in Conns, JoinDone(c) PROVE CountInv'
  BY <1>3, NextUpdaterKeeps, QuietKeepsCount DEF JoinDone
<1>4. ASSUME NEW c \in Conns, LeaveDone(c) \/ Ping(c) \/ PingDone(c) PROVE CountInv'
  BY <1>4, QuietKeepsCount DEF LeaveDone, Ping, PingDone
<1>5. ASSUME NEW k \in Turns, Tick(k) \/ TickDone(k) \/ UpdaterEnds(k) PROVE CountInv'
  <2>1. /\ UNCHANGED <<phase, cancelled, current>> /\ updater[k] \in {"select", "broadcast"}
        /\ \E s \in {"select", "broadcast", "ended"} : updater' = [updater EXCEPT ![k] = s]
    BY <1>5 DEF Tick, TickDone, UpdaterEnds
  <2> QED BY <2>1 DEF CountInv, OneUpdater, CancelFits
<1>6. CASE TurnDone
  <2>1. phase' = "active" BY <1>6 DEF TurnDone, SendsInv, HeldFits
  <2> QED BY <1>6, <2>1, NextUpdaterKeeps DEF TurnDone
<1>7. CASE EndDone
  <2>1. CASE held.op = "finish"
    BY <1>7, <2>1 DEF EndDone, StopUpdater, CountInv, OneUpdater, CancelFits, Turns
  <2>2. CASE held.op = "expire"
    BY <1>7, <2>2 DEF EndDone, SendsInv, HeldFits, CountInv, OneUpdater, CancelFits
  <2> QED BY <1>7, <2>1, <2>2 DEF EndDone
<1>8. CASE DrainCloses \/ UNCHANGED lockVars BY <1>8, QuietKeepsCount DEF DrainCloses, lockVars
<1> QED BY <1>1, <1>2, <1>3, <1>4, <1>5, <1>6, <1>7, <1>8 DEF LocksNext

\* A match that is over has told every countdown to stop.
CountdownsAreStopped ==
  phase = "finished" => \A k \in Turns : updater[k] \in {"select", "broadcast"} => k \in cancelled

\* Never two countdowns that go on, and none that was not cancelled once the match is
\* over (Room.startTurn, cancelTimerUpdates), for any number of turns: the safety half of
\* CountdownsEnd, and what its liveness half rests on.
THEOREM OneCountdown == LocksSpec => [](OneUpdater /\ CountdownsAreStopped)
<1>1. CountInv => OneUpdater /\ CountdownsAreStopped
  BY DEF CountInv, OneUpdater, CancelFits, CountdownsAreStopped, Turns
<1> QED BY <1>1, SendsInit, SendsNext, CountInit, CountNext, PTL DEF LocksSpec
=============================================================================
