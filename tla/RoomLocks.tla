------------------------------ MODULE RoomLocks ------------------------------
(***************************************************************************)
(* Who touches r.clients of a room, and when: the memory discipline of     *)
(* backend/internal/ws/room.go below the atomic handlers of module Room.   *)
(*                                                                         *)
(* A handler holds r.mu from beginning to end; here it is the operation    *)
(* `held`, with one step where it starts and one where it returns, so that *)
(* what runs without the lock can fall in between: the timer updaters,     *)
(* which range over the map in broadcast every 500 ms, the "ping" case of  *)
(* handleMessage, which looks a client up, and the drain goroutine, which  *)
(* closes the send channels.                                               *)
(***************************************************************************)
EXTENDS Naturals, FiniteSets

CONSTANTS
  Conns,     \* connections, each with a send channel
  Owners,    \* their user ids
  OwnerOf,   \* Client.userID
  NoClient,  \* the nil client
  MaxTurns   \* bound: timer updaters started

ASSUME OwnersAssumption == /\ OwnerOf \in [Conns -> Owners]
                           /\ NoClient \notin Conns
ASSUME TurnsAssumption  == MaxTurns \in Nat

VARIABLES
  phase,     \* r.state: "waiting", "active", "finished"
  order,     \* the users with a seat
  inMap,     \* r.clients
  socket,    \* [Conns -> "idle", "open", "gone"]
  held,      \* the operation of the goroutine that holds r.mu
  updater,   \* [1 .. MaxTurns -> state of that turn's sendTimerUpdates]
  cancelled, \* updaters whose context is cancelled
  current,   \* the updater r.timerUpdateCancel cancels, 0 for nil
  pinging,   \* read pumps inside sendTo for a "ping"
  snapshot,  \* the clients the drain goroutine will close
  closed     \* closed send channels

lockVars == <<phase, order, inMap, socket, held, updater, cancelled, current,
              pinging, snapshot, closed>>

Turns == 1 .. MaxTurns
Free  == [op |-> "free", conn |-> NoClient]
Ops   == {"free", "join", "leave", "turn", "finish", "expire"}

Connected == {inMap[u] : u \in Owners} \ {NoClient}

\* Operations that write the map, and operations that send to everybody in it.
\* (The second join starts the game, a leave tells the opponent.)
Writes == {"join", "leave"}

\* leave ignores a client that a newer connection has replaced.
Replaced(c) == inMap[OwnerOf[c]] # c

\* Mutant: leave tells the opponent in every state.
Mut_Sends(op, c) == op \in {"join", "leave", "turn", "finish", "expire"}
Sends(op, c) ==
  \/ op \in {"turn", "finish", "expire"}
  \/ op = "join" /\ phase # "finished"
  \/ op = "leave" /\ phase = "active" /\ ~Replaced(c)

LocksInit ==
  /\ phase = "waiting" /\ order = {}
  /\ inMap = [u \in Owners |-> NoClient]
  /\ socket = [c \in Conns |-> "idle"]
  /\ held = Free
  /\ updater = [k \in Turns |-> "none"]
  /\ cancelled = {} /\ current = 0
  /\ pinging = {} /\ snapshot = {} /\ closed = {}

-----------------------------------------------------------------------------
(* Under the lock.                                                         *)

\* A handler gets r.mu and passes its early returns.
Hold(op, c) ==
  /\ held = Free
  /\ held' = [op |-> op, conn |-> c]
  /\ UNCHANGED <<phase, order, inMap, socket, updater, cancelled, current,
                 pinging, snapshot, closed>>

\* Join, of a player with a seat or of a new one while there is a seat
BeginJoin(c) ==
  /\ socket[c] = "idle"
  /\ OwnerOf[c] \in order \/ (phase # "finished" /\ Cardinality(order) < 2)
  /\ Hold("join", c)

\* leave, called by the read pump once it handles no message any more
BeginLeave(c) == socket[c] = "open" /\ c \notin pinging /\ Hold("leave", c)

\* a word, a continue or a power-up that starts a turn; resolveGame; expireIfWaiting
BeginTurn ==
  /\ phase = "active" /\ \E k \in Turns : updater[k] = "none"
  /\ Hold("turn", NoClient)
BeginFinish == phase = "active" /\ Hold("finish", NoClient)
BeginExpire == phase = "waiting" /\ Hold("expire", NoClient)

\* Mutant: the last updater is not cancelled.
Mut_StopUpdater == UNCHANGED <<cancelled, current>>

\* startTurn (and extra_time): cancelTimerUpdates, then an updater for the turn
NextUpdater ==
  LET k == CHOOSE t \in Turns : updater[t] = "none" /\ \A s \in Turns : s < t => updater[s] # "none"
  IN  /\ updater' = [updater EXCEPT ![k] = "select"]
      /\ cancelled' = cancelled \cup ({current} \ {0})
      /\ current' = k

\* cancelTimerUpdates
StopUpdater ==
  /\ cancelled' = cancelled \cup ({current} \ {0})
  /\ current' = 0

\* Join returns: the client is in the map, the second seat starts the game.
JoinDone(c) ==
  /\ held = [op |-> "join", conn |-> c]
  /\ held' = Free
  /\ socket' = [socket EXCEPT ![c] = "open"]
  /\ inMap' = [inMap EXCEPT ![OwnerOf[c]] = c]
  /\ order' = order \cup {OwnerOf[c]}
  /\ IF phase = "waiting" /\ Cardinality(order') = 2
     THEN phase' = "active" /\ NextUpdater
     ELSE UNCHANGED <<phase, updater, cancelled, current>>
  /\ UNCHANGED <<pinging, snapshot, closed>>

\* leave returns: a client that was not replaced is out of the map.
LeaveDone(c) ==
  /\ held = [op |-> "leave", conn |-> c]
  /\ held' = Free
  /\ socket' = [socket EXCEPT ![c] = "gone"]
  /\ IF Replaced(c) THEN UNCHANGED <<inMap, order>>
     ELSE /\ inMap' = [inMap EXCEPT ![OwnerOf[c]] = NoClient]
          /\ order' = IF phase = "waiting" THEN order \ {OwnerOf[c]} ELSE order
  /\ UNCHANGED <<phase, updater, cancelled, current, pinging, snapshot, closed>>

\* A word, a continue or a power-up starts a turn.
TurnDone ==
  /\ held.op = "turn" /\ held' = Free
  /\ NextUpdater
  /\ UNCHANGED <<phase, order, inMap, socket, pinging, snapshot, closed>>

\* resolveGame or expireIfWaiting: closeAfterDrain takes its snapshot.
EndDone ==
  /\ held.op \in {"finish", "expire"} /\ held' = Free
  /\ phase' = "finished"
  /\ IF held.op = "finish" THEN StopUpdater ELSE UNCHANGED <<cancelled, current>>
  /\ snapshot' = Connected
  /\ UNCHANGED <<order, inMap, socket, updater, pinging, closed>>

-----------------------------------------------------------------------------
(* Without the lock.                                                       *)

\* sendTimerUpdates: the ticker case, and its broadcast returns
Tick(k) ==
  /\ updater[k] = "select" /\ updater' = [updater EXCEPT ![k] = "broadcast"]
  /\ UNCHANGED <<phase, order, inMap, socket, held, cancelled, current, pinging,
                 snapshot, closed>>
TickDone(k) ==
  /\ updater[k] = "broadcast" /\ updater' = [updater EXCEPT ![k] = "select"]
  /\ UNCHANGED <<phase, order, inMap, socket, held, cancelled, current, pinging,
                 snapshot, closed>>

\* the ctx.Done case
UpdaterEnds(k) ==
  /\ updater[k] = "select" /\ k \in cancelled
  /\ updater' = [updater EXCEPT ![k] = "ended"]
  /\ UNCHANGED <<phase, order, inMap, socket, held, cancelled, current, pinging,
                 snapshot, closed>>

\* handleMessage "ping": sendTo looks the client up, and returns
Ping(c) ==
  /\ socket[c] = "open" /\ c \notin pinging /\ held.conn # c
  /\ pinging' = pinging \cup {c}
  /\ UNCHANGED <<phase, order, inMap, socket, held, updater, cancelled, current,
                 snapshot, closed>>
PingDone(c) ==
  /\ c \in pinging /\ pinging' = pinging \ {c}
  /\ UNCHANGED <<phase, order, inMap, socket, held, updater, cancelled, current,
                 snapshot, closed>>

\* the drain goroutine after its 2 s
DrainCloses ==
  /\ phase = "finished" /\ ~(snapshot \subseteq closed)
  /\ closed' = closed \cup snapshot
  /\ UNCHANGED <<phase, order, inMap, socket, held, updater, cancelled, current,
                 pinging, snapshot>>

LocksNext ==
  \/ \E c \in Conns : BeginJoin(c) \/ BeginLeave(c)
  \/ BeginTurn \/ BeginFinish \/ BeginExpire
  \/ \E c \in Conns : JoinDone(c) \/ LeaveDone(c) \/ Ping(c) \/ PingDone(c)
  \/ \E k \in Turns : Tick(k) \/ TickDone(k) \/ UpdaterEnds(k)
  \/ TurnDone \/ EndDone \/ DrainCloses

LocksSpec == LocksInit /\ [][LocksNext]_lockVars

\* Handlers and broadcast return, and select picks a ready case at random: an updater
\* that finds its context cancelled again and again ends.
HandlerReturns == TurnDone \/ EndDone \/ \E c \in Conns : JoinDone(c) \/ LeaveDone(c)
FairLocksSpec ==
  /\ LocksSpec
  /\ \A k \in Turns : WF_lockVars(TickDone(k)) /\ SF_lockVars(UpdaterEnds(k))
  /\ WF_lockVars(HandlerReturns)

-----------------------------------------------------------------------------
\* Type invariant; the map holds open sockets of their owner.
LocksTypeOK ==
  /\ phase \in {"waiting", "active", "finished"}
  /\ order \subseteq Owners /\ Cardinality(order) <= 2
  /\ inMap \in [Owners -> Conns \cup {NoClient}]
  /\ socket \in [Conns -> {"idle", "open", "gone"}]
  /\ \A u \in Owners : inMap[u] # NoClient =>
       OwnerOf[inMap[u]] = u /\ socket[inMap[u]] = "open"
  /\ held \in [op : Ops, conn : Conns \cup {NoClient}]
  /\ updater \in [Turns -> {"none", "select", "broadcast", "ended"}]
  /\ cancelled \subseteq Turns /\ current \in 0 .. MaxTurns
  /\ pinging \subseteq Conns /\ snapshot \subseteq Conns /\ closed \subseteq Conns

\* A handler never sends on a closed channel, which would panic with r.mu held:
\* channels are closed seconds after the end, when r.clients still holds them
\* and messages, returns and disconnects still arrive.
LockedSendsAreOpen ==
  Sends(held.op, held.conn) => Connected \cap closed = {}

\* One countdown at a time: the only updater that is not told to stop is the one
\* r.timerUpdateCancel names, so none can be left behind when a turn ends early.
OneUpdater ==
  \A k \in Turns : updater[k] \in {"select", "broadcast"} /\ k \notin cancelled
                     => k = current

\* No countdown survives the match: the updaters end once the room is finished,
\* although select may prefer the ticker for a while.
UpdatersEnd ==
  phase = "finished" ~> \A k \in Turns : updater[k] \in {"none", "ended"}

\* Countdowns follow the turns: never two that go on, and none after the match.
CountdownsEnd == []OneUpdater /\ UpdatersEnd

\* "All mutable state is guarded by mu": while a handler writes r.clients nobody
\* is reading it.
GuardedByMu ==
  held.op \in Writes =>
    /\ pinging = {}
    /\ \A k \in Turns : updater[k] # "broadcast"

=============================================================================
