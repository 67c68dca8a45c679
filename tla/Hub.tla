--------------------------------- MODULE Hub ---------------------------------
(***************************************************************************)
(* The hub of rooms: backend/internal/ws/hub.go with its callers           *)
(* handler/ws.go (ServeWS), the services that ask for a room, and the life *)
(* of a room as far as the hub, the coins and the matches table see it.    *)
(* What happens inside a match is module Room; here a running match is     *)
(* decided in one step.                                                    *)
(*                                                                         *)
(* ServeWS looks a room up under the hub's lock and joins it later under   *)
(* the room's own: the room may have finished, and its id may belong to    *)
(* another room, in between.  The removal of a room runs in a goroutine 2 s *)
(* after its end and the recording of the result in another one.  All of   *)
(* this lives in the memory of one process; coins and rows do not.         *)
(***************************************************************************)
EXTENDS Integers, Sequences, FiniteSets

CONSTANTS
  Users,      \* user ids
  RoomIds,    \* room ids; a room id is also the id of its match
  EntryFee,   \* config.EntryFeeCoins
  MaxRooms,   \* bound: rooms created
  MaxRestarts \* bound: restarts of the process

ASSUME FeeAssumption   == EntryFee \in Nat \ {0}
ASSUME BoundAssumption == MaxRooms \in Nat /\ MaxRestarts \in Nat

VARIABLES
  hub,       \* h.rooms: [RoomIds -> number of the room, 0 for none]
  rooms,     \* every room ever created: its id, state and seats, whether its
             \* match was started and who was paid for it
  dialled,   \* [Users -> the room ServeWS holds and has not joined, or 0]
  joined,    \* [Users -> the room of the user's connection, or 0]
  draining,  \* rooms whose closeAfterDrain goroutine is asleep
  recording, \* <<room>> of the finalizeToDB goroutines that have not run
  ledger,    \* [Users -> net entry-fee coins in the database]
  matches,   \* [RoomIds -> status of the row: "none", "active", "finished"]
  restarts

hubVars == <<hub, rooms, dialled, joined, draining, recording, ledger, matches,
             restarts>>

Live(r) == rooms[r].state \in {"waiting", "running"}
Known   == 1 .. Len(rooms)

Init ==
  /\ hub = [i \in RoomIds |-> 0]
  /\ rooms = <<>>
  /\ dialled = [u \in Users |-> 0]
  /\ joined = [u \in Users |-> 0]
  /\ draining = {} /\ recording = {}
  /\ ledger = [u \in Users |-> 0]
  /\ matches = [i \in RoomIds |-> "none"]
  /\ restarts = 0

\* Mutant: always a new room.
Mut_GetOrCreateRoom(i) ==
  /\ Len(rooms) < MaxRooms
  /\ rooms' = Append(rooms, [id |-> i, state |-> "waiting", seats |-> {},
                             started |-> FALSE, won |-> {}])
  /\ hub' = [hub EXCEPT ![i] = Len(rooms) + 1]

\* GetOrCreateRoom: the room of that id is hub'[i] afterwards.
GetOrCreateRoom(i) ==
  IF hub[i] # 0 THEN UNCHANGED <<hub, rooms>>
  ELSE /\ Len(rooms) < MaxRooms
       /\ rooms' = Append(rooms, [id |-> i, state |-> "waiting", seats |-> {},
                                  started |-> FALSE, won |-> {}])
       /\ hub' = [hub EXCEPT ![i] = Len(rooms) + 1]

\* Matchmaking and challenges take a random id nobody has used.
MakeRoom(i) ==
  /\ \A r \in Known : rooms[r].id # i
  /\ GetOrCreateRoom(i)
  /\ UNCHANGED <<dialled, joined, draining, recording, ledger, matches, restarts>>

\* ServeWS up to the upgrade
Dial(u, i) ==
  /\ dialled[u] = 0 /\ joined[u] = 0
  /\ GetOrCreateRoom(i)
  /\ dialled' = [dialled EXCEPT ![u] = hub'[i]]
  /\ UNCHANGED <<joined, draining, recording, ledger, matches, restarts>>

\* The upgrade fails: ServeWS gives up the room it holds.
UpgradeFails(u) ==
  /\ dialled[u] # 0
  /\ dialled' = [dialled EXCEPT ![u] = 0]
  /\ UNCHANGED <<hub, rooms, joined, draining, recording, ledger, matches, restarts>>

\* startGame with both seats taken: both are charged and the match row is
\* inserted unless there is one; or a player cannot pay and the room closes.
StartGame(r, seats) ==
  \/ /\ rooms' = [rooms EXCEPT ![r] = [@ EXCEPT !.seats = seats, !.state = "running",
                                                !.started = TRUE]]
     /\ ledger' = [u \in Users |-> ledger[u] - IF u \in seats THEN EntryFee ELSE 0]
     /\ matches' = [matches EXCEPT ![rooms[r].id] = IF @ = "none" THEN "active" ELSE @]
     /\ UNCHANGED draining
  \/ /\ rooms' = [rooms EXCEPT ![r] = [@ EXCEPT !.seats = seats, !.state = "finished"]]
     /\ draining' = draining \cup {r}
     /\ UNCHANGED <<ledger, matches>>

\* The new player of a finished or a full room is turned away.
Refuses(r) == rooms[r].state = "finished" \/ Cardinality(rooms[r].seats) >= 2

\* Room.Join of the room ServeWS holds: a return to one's seat, a refusal, or a
\* seat.
Join(u) ==
  LET r == dialled[u]
      seats == rooms[r].seats \cup {u}
  IN  /\ r # 0
      /\ dialled' = [dialled EXCEPT ![u] = 0]
      /\ \/ /\ u \in rooms[r].seats
            /\ joined' = [joined EXCEPT ![u] = r]
            /\ UNCHANGED <<rooms, draining, ledger, matches>>
         \/ /\ u \notin rooms[r].seats
            /\ Refuses(r)
            /\ UNCHANGED <<joined, rooms, draining, ledger, matches>>
         \/ /\ u \notin rooms[r].seats
            /\ ~Refuses(r)
            /\ joined' = [joined EXCEPT ![u] = r]
            /\ IF Cardinality(seats) = 2 THEN StartGame(r, seats)
               ELSE /\ rooms' = [rooms EXCEPT ![r].seats = seats]
                    /\ UNCHANGED <<draining, ledger, matches>>
      /\ UNCHANGED <<hub, recording, restarts>>

\* Room.leave: the seat is freed only before the match.
Leave(u) ==
  LET r == joined[u]
  IN  /\ r # 0
      /\ joined' = [joined EXCEPT ![u] = 0]
      /\ rooms' = IF rooms[r].state = "waiting"
                  THEN [rooms EXCEPT ![r].seats = @ \ {u}] ELSE rooms
      /\ UNCHANGED <<hub, dialled, draining, recording, ledger, matches, restarts>>

\* Mutant: only a room with a player in it expires.
Mut_ExpireIfSeated(r) ==
  /\ rooms[r].state = "waiting" /\ rooms[r].seats # {}
  /\ rooms' = [rooms EXCEPT ![r].state = "finished"]
  /\ draining' = draining \cup {r}
  /\ UNCHANGED <<hub, dialled, joined, recording, ledger, matches, restarts>>

\* expireIfWaiting
ExpireIfWaiting(r) ==
  /\ rooms[r].state = "waiting"
  /\ rooms' = [rooms EXCEPT ![r].state = "finished"]
  /\ draining' = draining \cup {r}
  /\ UNCHANGED <<hub, dialled, joined, recording, ledger, matches, restarts>>

\* Mutants: no guard against a second resolution; the result is not recorded.
Mut_ResolveGame(r) ==
  /\ rooms[r].state \in {"running", "finished"} /\ rooms[r].started
  /\ \E w \in rooms[r].seats :
       /\ ledger' = [ledger EXCEPT ![w] = @ + 2 * EntryFee]
       /\ rooms' = [rooms EXCEPT ![r].state = "finished", ![r].won = {w}]
  /\ draining' = draining \cup {r}
  /\ recording' = recording \cup {r}
  /\ UNCHANGED <<hub, dialled, joined, matches, restarts>>
Mut_ResolveUnrecorded(r) ==
  /\ rooms[r].state = "running"
  /\ \E w \in rooms[r].seats :
       /\ ledger' = [ledger EXCEPT ![w] = @ + 2 * EntryFee]
       /\ rooms' = [rooms EXCEPT ![r].state = "finished", ![r].won = {w}]
  /\ draining' = draining \cup {r}
  /\ UNCHANGED <<hub, dialled, joined, recording, matches, restarts>>

\* resolveGame: the winner gets the pot, finalizeToDB and closeAfterDrain start.
ResolveGame(r) ==
  /\ rooms[r].state = "running"
  /\ \E w \in rooms[r].seats :
       /\ ledger' = [ledger EXCEPT ![w] = @ + 2 * EntryFee]
       /\ rooms' = [rooms EXCEPT ![r].state = "finished", ![r].won = {w}]
  /\ draining' = draining \cup {r}
  /\ recording' = recording \cup {r}
  /\ UNCHANGED <<hub, dialled, joined, matches, restarts>>

\* finalizeToDB: SetMatchWinner on the row of that id
FinalizeToDB(r) ==
  /\ r \in recording
  /\ recording' = recording \ {r}
  /\ matches' = [matches EXCEPT ![rooms[r].id] = IF @ = "none" THEN @ ELSE "finished"]
  /\ UNCHANGED <<hub, rooms, dialled, joined, draining, ledger, restarts>>

\* RemoveRoom at the end of the drain: by id, whatever room has it now.
RemoveRoom(r) ==
  /\ r \in draining
  /\ draining' = draining \ {r}
  /\ hub' = [hub EXCEPT ![rooms[r].id] = 0]
  /\ UNCHANGED <<rooms, dialled, joined, recording, ledger, matches, restarts>>

\* A deploy or a crash: rooms, connections and goroutines are gone.
Restart ==
  /\ restarts < MaxRestarts
  /\ restarts' = restarts + 1
  /\ hub' = [i \in RoomIds |-> 0]
  /\ rooms' = [r \in Known |-> [rooms[r] EXCEPT !.state = IF Live(r) THEN "gone" ELSE @]]
  /\ dialled' = [u \in Users |-> 0]
  /\ joined' = [u \in Users |-> 0]
  /\ draining' = {} /\ recording' = {}
  /\ UNCHANGED <<ledger, matches>>

\* A room's timer, its match, and the goroutines of its end
RoomStep(r) ==
  ExpireIfWaiting(r) \/ ResolveGame(r) \/ FinalizeToDB(r) \/ RemoveRoom(r)

HubNext ==
  \/ \E i \in RoomIds : MakeRoom(i) \/ \E u \in Users : Dial(u, i)
  \/ \E u \in Users : UpgradeFails(u) \/ Join(u) \/ Leave(u)
  \/ \E r \in Known : RoomStep(r)
  \/ Restart

Spec == Init /\ [][HubNext]_hubVars

\* Goroutines run; every running match is decided (module Room, RoomIsRemoved).  A
\* room takes each of these steps at most once, so fairness of all of them together
\* is all that is needed.
FairSpec == Spec /\ \A r \in 1 .. MaxRooms : WF_hubVars(r \in Known /\ RoomStep(r))

-----------------------------------------------------------------------------
\* Type invariant.
TypeOK ==
  /\ hub \in [RoomIds -> 0 .. Len(rooms)]
  /\ rooms \in Seq([id : RoomIds, state : {"waiting", "running", "finished", "gone"},
                    seats : {s \in SUBSET Users : Cardinality(s) <= 2}, started : BOOLEAN,
                    won : SUBSET Users])
  /\ dialled \in [Users -> 0 .. Len(rooms)]
  /\ joined \in [Users -> 0 .. Len(rooms)]
  /\ draining \subseteq Known /\ recording \subseteq Known
  /\ ledger \in [Users -> Int]
  /\ matches \in [RoomIds -> {"none", "active", "finished"}]
  /\ restarts \in 0 .. MaxRestarts

\* The two players of an id always meet: a room that is still waiting or running
\* is the one the hub hands out for its id.  Rooms are removed by id from a
\* goroutine started seconds earlier, so a late removal of an old room must
\* never hit the new room of the same id.
LiveRoomIsMapped == \A r \in Known : Live(r) => hub[rooms[r].id] = r

\* Coins are neither made nor lost across rooms.  Each player is missing one entry
\* fee for each match that was started with them and has gained one pot for each that
\* was paid to them; a pot goes to one of the two who paid for it, once, and only that
\* of a match which is undecided, or was when the process restarted, is still held.
\* So it is however joins, expiries, removals and second rooms of one id interleave.
FeesOf(u) == {r \in Known : rooms[r].started /\ u \in rooms[r].seats}
PotsOf(u) == {r \in Known : u \in rooms[r].won}
Balanced(u) == ledger[u] = EntryFee * (2 * Cardinality(PotsOf(u)) - Cardinality(FeesOf(u)))
PotIsPaid(r) ==
  IF rooms[r].started /\ rooms[r].state = "finished"
  THEN \E w \in rooms[r].seats : rooms[r].won = {w}
  ELSE rooms[r].won = {}
CoinsBalance ==
  /\ \A u \in Users : Balanced(u)
  /\ \A r \in Known : PotIsPaid(r) /\ (rooms[r].started => Cardinality(rooms[r].seats) = 2)

\* A running match ends up in a finished row once the process is not restarted any
\* more, also when the room has left the hub before finalizeToDB runs or the row
\* belongs to an earlier match of the id.
MatchIsRecorded ==
  \A r \in 1 .. MaxRooms :
    (r \in Known /\ rooms[r].state = "running" /\ restarts = MaxRestarts)
      ~> (r \in Known /\ matches[rooms[r].id] = "finished")

=============================================================================
