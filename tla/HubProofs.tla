------------------------------- MODULE HubProofs -------------------------------
(***************************************************************************)
(* The hub for any users, room ids and numbers of rooms and restarts: the  *)
(* room an id leads to is the live one, and the coins balance.  Then the   *)
(* friend challenges on top of it, for any challenges and answers in       *)
(* flight: one answer wins, and the composition is a use of the hub.       *)
(***************************************************************************)
EXTENDS Challenge, SequenceTheorems, FiniteSetTheorems, TLAPS

USE FeeAssumption, BoundAssumption

RoomRecord == [id : RoomIds, state : {"waiting", "running", "finished", "gone"},
               seats : SUBSET Users, started : BOOLEAN, won : SUBSET Users]

HubTypeOK ==
  /\ rooms \in Seq(RoomRecord)
  /\ hub \in [RoomIds -> 0 .. Len(rooms)]
  /\ dialled \in [Users -> 0 .. Len(rooms)]
  /\ joined \in [Users -> 0 .. Len(rooms)]
  /\ draining \subseteq Known

\* A room stays mapped until its own removal: LiveRoomIsMapped holds because the rooms
\* whose removal is under way still own their id, so that no second room takes it.
Owned(r) == Live(r) \/ r \in draining
OwnersAreMapped == \A r \in Known : Owned(r) => hub[rooms[r].id] = r

\* The removal comes after the end, and nobody holds a room a restart has ended.
DrainedAreOver == \A r \in draining : ~Live(r)
Gone(r) == rooms[r].state = "gone"
NoneIsGone == /\ \A i \in RoomIds : hub[i] # 0 => ~Gone(hub[i])
              /\ \A u \in Users : dialled[u] # 0 => ~Gone(dialled[u])

HubInv == HubTypeOK /\ OwnersAreMapped /\ DrainedAreOver /\ NoneIsGone

\* What a step does to the rooms that are there, unless it is a restart
RoomsGoOn ==
  /\ rooms' \in Seq(RoomRecord) /\ Len(rooms') = Len(rooms) /\ draining' \subseteq Known
  /\ \A s \in Known : /\ rooms'[s].id = rooms[s].id /\ (Owned(s)' => Owned(s))
                      /\ (Gone(s)' => Gone(s))
  /\ DrainedAreOver'

-----------------------------------------------------------------------------
LEMMA HubInitInv == Init => HubInv
BY DEF Init, HubInv, HubTypeOK, OwnersAreMapped, DrainedAreOver, NoneIsGone, Known

LEMMA RoomTyped ==
  ASSUME HubInv, NEW r \in Known
  PROVE  rooms[r] \in RoomRecord
BY DEF HubInv, HubTypeOK, Known

LEMMA RoomsUpdate ==
  ASSUME HubInv, NEW r \in Known, NEW rec \in RoomRecord, rooms' = [rooms EXCEPT ![r] = rec]
  PROVE  /\ rooms' \in Seq(RoomRecord) /\ Len(rooms') = Len(rooms)
         /\ rooms'[r] = rec /\ \A s \in Known : s # r => rooms'[s] = rooms[s]
BY DEF HubInv, HubTypeOK, Known

LEMMA SameRooms ==
  ASSUME HubInv, rooms' = rooms, draining' = draining
  PROVE  RoomsGoOn
BY DEF HubInv, HubTypeOK, RoomsGoOn, Owned, Live, Gone, DrainedAreOver, Known

\* A room that is live goes on, with its id, as a live room or into its drain.
LEMMA LiveGoesOn ==
  ASSUME HubInv, NEW r \in Known, Live(r), NEW rec \in RoomRecord, rec.id = rooms[r].id,
         rec.state # "gone", rooms' = [rooms EXCEPT ![r] = rec],
         \/ draining' = draining
         \/ draining' = draining \cup {r} /\ rec.state = "finished"
  PROVE  RoomsGoOn
<1>1. /\ rooms' \in Seq(RoomRecord) /\ Len(rooms') = Len(rooms)
      /\ rooms'[r] = rec /\ \A s \in Known : s # r => rooms'[s] = rooms[s]
  BY RoomsUpdate
<1>2. draining \subseteq Known /\ r \notin draining
  BY DEF HubInv, HubTypeOK, DrainedAreOver
<1>3. draining' \subseteq Known BY <1>2
<1>4. ASSUME NEW s \in Known
      PROVE  rooms'[s].id = rooms[s].id /\ (Owned(s)' => Owned(s)) /\ (Gone(s)' => Gone(s))
  <2>1. CASE s = r BY <1>1, <2>1 DEF Owned, Gone
  <2>2. CASE s # r
    <3>1. rooms'[s] = rooms[s] /\ (s \in draining' <=> s \in draining) BY <1>1, <2>2
    <3> QED BY <3>1 DEF Owned, Live, Gone
  <2> QED BY <2>1, <2>2
<1>5. ASSUME NEW s \in draining' PROVE ~Live(s)'
  <2>1. CASE s = r BY <1>1, <1>2, <1>5, <2>1 DEF Live
  <2>2. CASE s # r
    <3>1. s \in draining /\ s \in Known BY <1>2, <1>5, <2>2
    <3> QED BY <1>1, <2>2, <3>1 DEF HubInv, DrainedAreOver, Live
  <2> QED BY <2>1, <2>2
<1> QED BY <1>1, <1>3, <1>4, <1>5 DEF RoomsGoOn, DrainedAreOver

\* Then the invariant is kept by whoever leaves the map alone and dials nothing new.
LEMMA GoOnKeeps ==
  ASSUME HubInv, RoomsGoOn, hub' = hub,
         dialled' \in [Users -> 0 .. Len(rooms)], joined' \in [Users -> 0 .. Len(rooms)],
         \A u \in Users : dialled'[u] \in {0, dialled[u]}
  PROVE  HubInv'
<1>1. Known' = Known BY DEF RoomsGoOn, Known
<1>2. HubTypeOK' BY <1>1 DEF HubInv, HubTypeOK, RoomsGoOn
<1>3. OwnersAreMapped' BY <1>1 DEF HubInv, OwnersAreMapped, RoomsGoOn
<1>4. ASSUME NEW i \in RoomIds, hub'[i] # 0 PROVE rooms'[hub'[i]].state # "gone"
  <2>1. hub[i] \in Known BY <1>4 DEF HubInv, HubTypeOK, Known
  <2> QED BY <1>4, <2>1 DEF HubInv, NoneIsGone, RoomsGoOn, Gone
<1>5. ASSUME NEW u \in Users, dialled'[u] # 0 PROVE rooms'[dialled'[u]].state # "gone"
  <2>1. dialled'[u] = dialled[u] /\ dialled[u] \in Known BY <1>5 DEF HubInv, HubTypeOK, Known
  <2> QED BY <1>5, <2>1 DEF HubInv, NoneIsGone, RoomsGoOn, Gone
<1> QED BY <1>2, <1>3, <1>4, <1>5 DEF HubInv, RoomsGoOn, NoneIsGone, Gone

-----------------------------------------------------------------------------
\* A new room takes an id that is free, so it displaces no room that owns one.
LEMMA CreateKeeps ==
  ASSUME HubInv, NEW i \in RoomIds, GetOrCreateRoom(i), draining' = draining
  PROVE  /\ rooms' \in Seq(RoomRecord) /\ hub' \in [RoomIds -> 0 .. Len(rooms')]
         /\ Len(rooms) <= Len(rooms') /\ Known \subseteq Known'
         /\ OwnersAreMapped' /\ DrainedAreOver'
         /\ hub'[i] \in Known' /\ (\A j \in RoomIds : hub'[j] # 0 => rooms'[hub'[j]].state # "gone")
         /\ \A s \in Known : rooms'[s] = rooms[s]
<1>1. CASE hub[i] # 0
  <2>1. hub' = hub /\ rooms' = rooms BY <1>1 DEF GetOrCreateRoom
  <2> QED BY <1>1, <2>1 DEF HubInv, HubTypeOK, OwnersAreMapped, DrainedAreOver, NoneIsGone, Gone, Owned, Live, Known
<1>2. CASE hub[i] = 0
  <2> DEFINE new == [id |-> i, state |-> "waiting", seats |-> {}, started |-> FALSE, won |-> {}]
             n   == Len(rooms) + 1
  <2>1. rooms' = Append(rooms, new) /\ hub' = [hub EXCEPT ![i] = n] BY <1>2 DEF GetOrCreateRoom
  <2>2. new \in RoomRecord BY DEF RoomRecord
  <2>3. rooms \in Seq(RoomRecord) /\ Len(rooms) \in Nat BY DEF HubInv, HubTypeOK
  <2>4. rooms' \in Seq(RoomRecord) /\ Len(rooms') = n BY <2>1, <2>2, <2>3
  <2>5. \A r \in Known : rooms'[r] = rooms[r] BY <2>1, <2>2, <2>3 DEF Known
  <2>6. rooms'[n] = new BY <2>1, <2>2, <2>3
  <2>7. new.id = i /\ new.state = "waiting" OBVIOUS
  <2> HIDE DEF new
  <2>8. hub' \in [RoomIds -> 0 .. Len(rooms')] BY <2>1, <2>3, <2>4 DEF HubInv, HubTypeOK
  <2>9. Known' = Known \cup {n} /\ n \notin Known BY <2>3, <2>4 DEF Known
  <2>10. \A r \in Known : rooms[r].id \in RoomIds /\ r # 0
    <3>1. \A r \in Known : rooms[r].id \in RoomIds BY RoomTyped DEF RoomRecord
    <3> QED BY <3>1, <2>3 DEF Known
  <2>11. ASSUME NEW r \in Known, Owned(r)' PROVE hub'[rooms'[r].id] = r
    <3>1. Owned(r) BY <2>5, <2>11 DEF Owned, Live
    <3>2. hub[rooms[r].id] = r BY <3>1 DEF HubInv, OwnersAreMapped
    <3>3. rooms[r].id # i BY <1>2, <2>10, <3>2
    <3> QED BY <2>1, <2>5, <2>10, <3>2, <3>3 DEF HubInv, HubTypeOK
  <2>12. hub'[i] = n BY <2>1 DEF HubInv, HubTypeOK
  <2>13. OwnersAreMapped' BY <2>6, <2>7, <2>9, <2>11, <2>12 DEF OwnersAreMapped
  <2>14. DrainedAreOver'
    <3>1. draining \subseteq Known BY DEF HubInv, HubTypeOK
    <3> QED BY <2>5, <3>1 DEF HubInv, DrainedAreOver, Live
  <2>15. ASSUME NEW j \in RoomIds, hub'[j] # 0 PROVE rooms'[hub'[j]].state # "gone"
    <3>1. CASE j = i BY <2>6, <2>7, <2>12, <3>1
    <3>2. CASE j # i
      <4>1. hub'[j] = hub[j] /\ hub[j] \in Known BY <2>1, <2>15, <3>2 DEF HubInv, HubTypeOK, Known
      <4> QED BY <2>5, <2>15, <4>1 DEF HubInv, NoneIsGone, Gone
    <3> QED BY <3>1, <3>2
  <2>16. Len(rooms) <= Len(rooms') /\ Known \subseteq Known' /\ hub'[i] \in Known'
    BY <2>3, <2>4, <2>9, <2>12
  <2> QED BY <2>4, <2>5, <2>8, <2>13, <2>14, <2>15, <2>16
<1> QED BY <1>1, <1>2

LEMMA MakeRoomKeeps ==
  ASSUME HubInv, NEW i \in RoomIds, MakeRoom(i)
  PROVE  HubInv'
<1>1. GetOrCreateRoom(i) /\ draining' = draining /\ dialled' = dialled /\ joined' = joined
  BY DEF MakeRoom
<1>2. HubTypeOK' BY <1>1, CreateKeeps DEF HubInv, HubTypeOK
<1>3. \A u \in Users : dialled[u] # 0 => dialled[u] \in Known BY DEF HubInv, HubTypeOK, Known
<1>4. NoneIsGone' BY <1>1, <1>3, CreateKeeps DEF HubInv, NoneIsGone, Gone
<1> QED BY <1>1, <1>2, <1>4, CreateKeeps DEF HubInv

LEMMA DialKeeps ==
  ASSUME HubInv, NEW u \in Users, NEW i \in RoomIds, Dial(u, i)
  PROVE  HubInv'
<1>1. GetOrCreateRoom(i) /\ draining' = draining /\ joined' = joined
      /\ dialled' = [dialled EXCEPT ![u] = hub'[i]]
  BY DEF Dial
<1>2. hub'[i] \in Known' BY <1>1, CreateKeeps
<1>3. HubTypeOK' BY <1>1, <1>2, CreateKeeps DEF HubInv, HubTypeOK, Known
<1>4. ASSUME NEW v \in Users, dialled'[v] # 0 PROVE rooms'[dialled'[v]].state # "gone"
  <2>1. CASE v = u
    <3>1. dialled'[v] = hub'[i] BY <1>1, <2>1 DEF HubInv, HubTypeOK
    <3> QED BY <1>1, <1>4, <3>1, CreateKeeps
  <2>2. CASE v # u
    <3>1. dialled'[v] = dialled[v] /\ dialled[v] \in Known
      BY <1>1, <1>4, <2>2 DEF HubInv, HubTypeOK, Known
    <3> QED BY <1>1, <1>4, <3>1, CreateKeeps DEF HubInv, NoneIsGone, Gone
  <2> QED BY <2>1, <2>2
<1>5. NoneIsGone' BY <1>1, <1>4, CreateKeeps DEF NoneIsGone, Gone
<1> QED BY <1>1, <1>3, <1>5, CreateKeeps DEF HubInv

-----------------------------------------------------------------------------
LEMMA StartGameKeeps ==
  ASSUME HubInv, NEW r \in Known, Live(r), NEW seats \in SUBSET Users, StartGame(r, seats)
  PROVE  RoomsGoOn
<1>0. rooms[r] \in RoomRecord BY RoomTyped
<1>1. CASE /\ rooms' = [rooms EXCEPT ![r] = [@ EXCEPT !.seats = seats, !.state = "running",
                                                      !.started = TRUE]]
           /\ draining' = draining
  <2> DEFINE rec == [rooms[r] EXCEPT !.seats = seats, !.state = "running", !.started = TRUE]
  <2>1. rec \in RoomRecord /\ rec.id = rooms[r].id /\ rec.state # "gone" BY <1>0 DEF RoomRecord
  <2>2. rooms' = [rooms EXCEPT ![r] = rec] BY <1>1
  <2> HIDE DEF rec
  <2> QED BY <1>1, <2>1, <2>2, LiveGoesOn
<1>2. CASE /\ rooms' = [rooms EXCEPT ![r] = [@ EXCEPT !.seats = seats, !.state = "finished"]]
           /\ draining' = draining \cup {r}
  <2> DEFINE rec == [rooms[r] EXCEPT !.seats = seats, !.state = "finished"]
  <2>1. rec \in RoomRecord /\ rec.id = rooms[r].id /\ rec.state = "finished"
    BY <1>0 DEF RoomRecord
  <2>2. rooms' = [rooms EXCEPT ![r] = rec] BY <1>2
  <2> HIDE DEF rec
  <2> QED BY <1>2, <2>1, <2>2, LiveGoesOn
<1> QED BY <1>1, <1>2 DEF StartGame

LEMMA JoinKeeps ==
  ASSUME HubInv, NEW u \in Users, Join(u)
  PROVE  HubInv'
<1> DEFINE r == dialled[u]
           seats == rooms[r].seats \cup {u}
<1>1. r \in Known /\ rooms[r].state # "gone"
  BY DEF Join, HubInv, HubTypeOK, NoneIsGone, Gone, Known
<1>2. rooms[r] \in RoomRecord BY <1>1, RoomTyped
<1>3. seats \in SUBSET Users BY <1>2 DEF RoomRecord
<1>4. dialled' = [dialled EXCEPT ![u] = 0] /\ hub' = hub BY DEF Join
<1>5. joined' = joined \/ joined' = [joined EXCEPT ![u] = r] BY DEF Join
<1>6. RoomsGoOn
  <2>1. CASE rooms' = rooms /\ draining' = draining BY <2>1, SameRooms
  <2>2. CASE ~Refuses(r) /\ StartGame(r, seats)
    <3>1. Live(r) BY <1>1, <1>2, <2>2 DEF Refuses, Live, RoomRecord
    <3> HIDE DEF r, seats
    <3> QED BY <1>1, <1>3, <2>2, <3>1, StartGameKeeps
  <2>3. CASE ~Refuses(r) /\ rooms' = [rooms EXCEPT ![r].seats = seats] /\ draining' = draining
    <3>1. Live(r) BY <1>1, <1>2, <2>3 DEF Refuses, Live, RoomRecord
    <3> DEFINE rec == [rooms[r] EXCEPT !.seats = seats]
    <3>2. rec \in RoomRecord /\ rec.id = rooms[r].id /\ rec.state # "gone"
      BY <1>1, <1>2, <1>3 DEF RoomRecord
    <3>3. rooms' = [rooms EXCEPT ![r] = rec] BY <2>3
    <3> HIDE DEF r, seats, rec
    <3> QED BY <1>1, <2>3, <3>1, <3>2, <3>3, LiveGoesOn
  <2> QED BY <2>1, <2>2, <2>3 DEF Join
<1>7. dialled' \in [Users -> 0 .. Len(rooms)] /\ joined' \in [Users -> 0 .. Len(rooms)]
  <2>1. Len(rooms) \in Nat /\ r \in 0 .. Len(rooms) BY <1>1 DEF HubInv, HubTypeOK, Known
  <2> HIDE DEF r
  <2> QED BY <1>4, <1>5, <2>1 DEF HubInv, HubTypeOK
<1>8. \A v \in Users : dialled'[v] \in {0, dialled[v]} BY <1>4 DEF HubInv, HubTypeOK
<1> QED BY <1>4, <1>6, <1>7, <1>8, GoOnKeeps

LEMMA LeaveKeeps ==
  ASSUME HubInv, NEW u \in Users, Leave(u)
  PROVE  HubInv'
<1> DEFINE r == joined[u]
<1>1. r \in Known BY DEF Leave, HubInv, HubTypeOK, Known
<1>2. rooms[r] \in RoomRecord BY <1>1, RoomTyped
<1>3. hub' = hub /\ dialled' = dialled /\ draining' = draining /\ joined' = [joined EXCEPT ![u] = 0]
  BY DEF Leave
<1>4. RoomsGoOn
  <2>1. CASE rooms[r].state # "waiting" BY <1>3, <2>1, SameRooms DEF Leave
  <2>2. CASE rooms[r].state = "waiting"
    <3> DEFINE rec == [rooms[r] EXCEPT !.seats = @ \ {u}]
    <3>1. rec \in RoomRecord /\ rec.id = rooms[r].id /\ rec.state # "gone"
      BY <1>2, <2>2 DEF RoomRecord
    <3>2. rooms' = [rooms EXCEPT ![r] = rec] BY <2>2 DEF Leave
    <3>3. Live(r) BY <2>2 DEF Live
    <3> HIDE DEF r, rec
    <3> QED BY <1>1, <1>3, <3>1, <3>2, <3>3, LiveGoesOn
  <2> QED BY <2>1, <2>2
<1>5. dialled' \in [Users -> 0 .. Len(rooms)] /\ joined' \in [Users -> 0 .. Len(rooms)]
  BY <1>3 DEF HubInv, HubTypeOK
<1> QED BY <1>3, <1>4, <1>5, GoOnKeeps

LEMMA UpgradeFailsKeeps ==
  ASSUME HubInv, NEW u \in Users, UpgradeFails(u)
  PROVE  HubInv'
<1>1. RoomsGoOn BY SameRooms DEF UpgradeFails
<1>2. /\ hub' = hub /\ dialled' \in [Users -> 0 .. Len(rooms)]
      /\ joined' \in [Users -> 0 .. Len(rooms)] /\ \A v \in Users : dialled'[v] \in {0, dialled[v]}
  BY DEF UpgradeFails, HubInv, HubTypeOK
<1> QED BY <1>1, <1>2, GoOnKeeps

\* The end of a room, by its timer or its match.
LEMMA EndKeeps ==
  ASSUME HubInv, NEW r \in Known, Live(r), NEW rec \in RoomRecord, rec.id = rooms[r].id,
         rec.state = "finished", rooms' = [rooms EXCEPT ![r] = rec],
         draining' = draining \cup {r}, UNCHANGED <<hub, dialled, joined>>
  PROVE  HubInv'
<1>1. RoomsGoOn BY LiveGoesOn
<1> QED BY <1>1, GoOnKeeps DEF HubInv, HubTypeOK

LEMMA RoomExpiryKeeps ==
  ASSUME HubInv, NEW r \in Known, ExpireIfWaiting(r)
  PROVE  HubInv'
<1> DEFINE rec == [rooms[r] EXCEPT !.state = "finished"]
<1>1. rec \in RoomRecord /\ rec.id = rooms[r].id /\ rec.state = "finished"
  BY RoomTyped DEF RoomRecord
<1>2. rooms' = [rooms EXCEPT ![r] = rec] BY DEF ExpireIfWaiting
<1> HIDE DEF rec
<1> QED BY <1>1, <1>2, EndKeeps DEF ExpireIfWaiting, Live

LEMMA ResolveKeeps ==
  ASSUME HubInv, NEW r \in Known, ResolveGame(r)
  PROVE  HubInv'
<1>1. PICK w \in rooms[r].seats : rooms' = [rooms EXCEPT ![r].state = "finished", ![r].won = {w}]
  BY DEF ResolveGame
<1> DEFINE rec == [rooms[r] EXCEPT !.state = "finished", !.won = {w}]
<1>2. rec \in RoomRecord /\ rec.id = rooms[r].id /\ rec.state = "finished"
  BY RoomTyped DEF RoomRecord
<1>3. rooms' = [rooms EXCEPT ![r] = rec] BY <1>1, RoomTyped DEF RoomRecord
<1> HIDE DEF rec
<1> QED BY <1>2, <1>3, EndKeeps DEF ResolveGame, Live

\* The removal by id takes the right room away: no other room owns the id.
LEMMA RemoveRoomKeeps ==
  ASSUME HubInv, NEW r \in Known, RemoveRoom(r)
  PROVE  HubInv'
<1>1. /\ r \in draining /\ rooms' = rooms /\ draining' = draining \ {r} /\ dialled' = dialled
      /\ joined' = joined /\ hub' = [hub EXCEPT ![rooms[r].id] = 0]
  BY DEF RemoveRoom
<1>2. \A s \in Known : rooms[s].id \in RoomIds BY RoomTyped DEF RoomRecord
<1>3. HubTypeOK' BY <1>1, <1>2 DEF HubInv, HubTypeOK, Known
<1>4. ASSUME NEW s \in Known, Owned(s)' PROVE hub'[rooms[s].id] = s
  <2>1. Owned(s) /\ s # r BY <1>1, <1>4 DEF HubInv, DrainedAreOver, Owned, Live
  <2>2. hub[rooms[s].id] = s /\ hub[rooms[r].id] = r
    BY <1>1, <2>1 DEF HubInv, OwnersAreMapped, Owned
  <2> QED BY <1>1, <1>2, <2>1, <2>2 DEF HubInv, HubTypeOK
<1>5. OwnersAreMapped' BY <1>1, <1>4 DEF OwnersAreMapped, Known
<1>6. DrainedAreOver' BY <1>1 DEF HubInv, DrainedAreOver, Live
<1>7. NoneIsGone' BY <1>1, <1>2 DEF HubInv, HubTypeOK, NoneIsGone, Gone
<1> QED BY <1>3, <1>5, <1>6, <1>7 DEF HubInv

LEMMA RestartKeeps ==
  ASSUME HubInv, Restart
  PROVE  HubInv'
<1> DEFINE rec(r) == [rooms[r] EXCEPT !.state = IF Live(r) THEN "gone" ELSE @]
<1>1. /\ rooms' = [r \in Known |-> rec(r)] /\ draining' = {} /\ hub' = [i \in RoomIds |-> 0]
      /\ dialled' = [u \in Users |-> 0] /\ joined' = [u \in Users |-> 0]
  BY DEF Restart
<1>2. \A r \in Known : rec(r) \in RoomRecord /\ rec(r).state \notin {"waiting", "running"}
  BY RoomTyped DEF RoomRecord, Live
<1> HIDE DEF rec
<1>3. Len(rooms) \in Nat BY DEF HubInv, HubTypeOK
<1>4. rooms' \in Seq(RoomRecord) /\ Len(rooms') = Len(rooms)
  <2>1. rooms' \in [1 .. Len(rooms) -> RoomRecord] BY <1>1, <1>2 DEF Known
  <2> QED BY <1>3, <2>1, IsASeq, LenProperties
<1>5. \A r \in Known' : ~Live(r)' BY <1>1, <1>2, <1>4 DEF Live, Known
<1> QED BY <1>1, <1>4, <1>5 DEF HubInv, HubTypeOK, OwnersAreMapped, DrainedAreOver, NoneIsGone,
                                Owned

LEMMA HubNextInv == HubInv /\ [HubNext]_hubVars => HubInv'
<1> SUFFICES ASSUME HubInv, [HubNext]_hubVars PROVE HubInv'
  OBVIOUS
<1>1. ASSUME NEW i \in RoomIds, MakeRoom(i) PROVE HubInv' BY <1>1, MakeRoomKeeps
<1>2. ASSUME NEW i \in RoomIds, NEW u \in Users, Dial(u, i) PROVE HubInv' BY <1>2, DialKeeps
<1>3. ASSUME NEW u \in Users, UpgradeFails(u) \/ Join(u) \/ Leave(u) PROVE HubInv'
  BY <1>3, UpgradeFailsKeeps, JoinKeeps, LeaveKeeps
<1>4. ASSUME NEW r \in Known, ExpireIfWaiting(r) \/ ResolveGame(r) PROVE HubInv'
  BY <1>4, RoomExpiryKeeps, ResolveKeeps
<1>5. ASSUME NEW r \in Known, FinalizeToDB(r) PROVE HubInv'
  BY <1>5, SameRooms, GoOnKeeps DEF FinalizeToDB, HubInv, HubTypeOK
<1>6. ASSUME NEW r \in Known, RemoveRoom(r) PROVE HubInv' BY <1>6, RemoveRoomKeeps
<1>7. CASE Restart BY <1>7, RestartKeeps
<1>8. CASE UNCHANGED hubVars
  BY <1>8, SameRooms, GoOnKeeps DEF hubVars, HubInv, HubTypeOK
<1> QED BY <1>1, <1>2, <1>3, <1>4, <1>5, <1>6, <1>7, <1>8 DEF HubNext, RoomStep

\* A room that still waits or plays is the one the hub hands out for its id, for any
\* number of rooms of one id, late removals and restarts (Hub.RemoveRoom by id).
THEOREM LiveRoomsAlwaysMapped == Spec => []LiveRoomIsMapped
<1>1. HubInv => LiveRoomIsMapped BY DEF HubInv, OwnersAreMapped, Owned, LiveRoomIsMapped
<1> QED BY <1>1, HubInitInv, HubNextInv, PTL DEF Spec

-----------------------------------------------------------------------------
(***************************************************************************)
(* The coins.  CoinsBalance is inductive together with what the state of a *)
(* room says of its match: none yet while it waits, one while it runs.     *)
(***************************************************************************)
MatchFits(r) == /\ rooms[r].state = "waiting" => ~rooms[r].started
                /\ rooms[r].state = "running" => rooms[r].started
TwoPay(r) == rooms[r].started => Cardinality(rooms[r].seats) = 2
BooksInv == /\ ledger \in [Users -> Int]
            /\ \A u \in Users : Balanced(u)
            /\ \A r \in Known : MatchFits(r) /\ PotIsPaid(r) /\ TwoPay(r)

LEMMA BooksInit == Init => BooksInv
<1> SUFFICES ASSUME Init PROVE BooksInv
  OBVIOUS
<1>1. Known = {} /\ ledger = [u \in Users |-> 0] BY DEF Init, Known
<1>2. \A u \in Users : FeesOf(u) = {} /\ PotsOf(u) = {} BY <1>1 DEF FeesOf, PotsOf
<1>3. Cardinality({}) = 0 /\ EntryFee * (2 * 0 - 0) = 0 BY FS_EmptySet
<1>4. \A u \in Users : Balanced(u) BY <1>1, <1>2, <1>3 DEF Balanced
<1> QED BY <1>1, <1>4 DEF BooksInv

LEMMA BooksAreFinite ==
  ASSUME HubInv, NEW u \in Users
  PROVE  /\ IsFiniteSet(FeesOf(u)) /\ IsFiniteSet(PotsOf(u))
         /\ Cardinality(FeesOf(u)) \in Nat /\ Cardinality(PotsOf(u)) \in Nat
<1>1. Len(rooms) \in Nat BY DEF HubInv, HubTypeOK
<1>2. IsFiniteSet(Known) BY <1>1, FS_Interval DEF Known
<1>3. FeesOf(u) \subseteq Known /\ PotsOf(u) \subseteq Known BY DEF FeesOf, PotsOf
<1>4. IsFiniteSet(FeesOf(u)) /\ IsFiniteSet(PotsOf(u)) BY <1>2, <1>3, FS_Subset
<1> QED BY <1>4, FS_CardinalityType

\* A player who takes a seat, leaves one or finds a room closed changes no book.
LEMMA BooksStay ==
  ASSUME BooksInv, ledger' = ledger, Known \subseteq Known',
         \A s \in Known : /\ rooms'[s].started = rooms[s].started /\ rooms'[s].won = rooms[s].won
                          /\ (rooms[s].started => rooms'[s].seats = rooms[s].seats),
         \A s \in Known' \ Known : ~rooms'[s].started /\ rooms'[s].won = {}
  PROVE  \A u \in Users : Balanced(u)'
<1> SUFFICES ASSUME NEW u \in Users PROVE Balanced(u)'
  OBVIOUS
<1>1. FeesOf(u)' = FeesOf(u) BY DEF FeesOf
<1>2. PotsOf(u)' = PotsOf(u) BY DEF PotsOf
<1> QED BY <1>1, <1>2 DEF BooksInv, Balanced

\* The fee of a player is booked with the match that takes it.
LEMMA FeeIsBooked ==
  ASSUME HubInv, BooksInv, NEW u \in Users, NEW r \in Known, r \notin FeesOf(u),
         FeesOf(u)' = FeesOf(u) \cup {r}, PotsOf(u)' = PotsOf(u),
         ledger'[u] = ledger[u] - EntryFee
  PROVE  Balanced(u)'
<1> DEFINE n == Cardinality(FeesOf(u))
           p == Cardinality(PotsOf(u))
<1>1. n \in Nat /\ p \in Nat /\ IsFiniteSet(FeesOf(u)) BY BooksAreFinite
<1>2. Cardinality(FeesOf(u) \cup {r}) = n + 1 BY <1>1, FS_AddElement
<1>3. ledger[u] = EntryFee * (2 * p - n) BY DEF BooksInv, Balanced
<1> HIDE DEF n, p
<1>4. EntryFee * (2 * p - n) - EntryFee = EntryFee * (2 * p - (n + 1)) BY <1>1
<1>5. ledger'[u] = EntryFee * (2 * p - (n + 1)) BY <1>3, <1>4
<1> QED BY <1>2, <1>5 DEF Balanced, p

\* The pot likewise
LEMMA PotIsBooked ==
  ASSUME HubInv, BooksInv, NEW u \in Users, NEW r \in Known, r \notin PotsOf(u),
         PotsOf(u)' = PotsOf(u) \cup {r}, FeesOf(u)' = FeesOf(u),
         ledger'[u] = ledger[u] + 2 * EntryFee
  PROVE  Balanced(u)'
<1> DEFINE n == Cardinality(FeesOf(u))
           p == Cardinality(PotsOf(u))
<1>1. n \in Nat /\ p \in Nat /\ IsFiniteSet(PotsOf(u)) BY BooksAreFinite
<1>2. Cardinality(PotsOf(u) \cup {r}) = p + 1 BY <1>1, FS_AddElement
<1>3. ledger[u] = EntryFee * (2 * p - n) BY DEF BooksInv, Balanced
<1> HIDE DEF n, p
<1>4. EntryFee * (2 * p - n) + 2 * EntryFee = EntryFee * (2 * (p + 1) - n) BY <1>1
<1>5. ledger'[u] = EntryFee * (2 * (p + 1) - n) BY <1>3, <1>4
<1> QED BY <1>2, <1>5 DEF Balanced, n

\* A step that changes one room and no book
LEMMA QuietRoomKeeps ==
  ASSUME HubInv, BooksInv, NEW r \in Known, NEW rec \in RoomRecord,
         rooms' = [rooms EXCEPT ![r] = rec], ledger' = ledger,
         rec.started = rooms[r].started, rec.won = rooms[r].won,
         rec.started => rec.seats = rooms[r].seats /\ rec.state = rooms[r].state,
         rec.state \in {"waiting", "finished"} \/ rec = rooms[r]
  PROVE  BooksInv'
<1>1. /\ rooms'[r] = rec /\ Len(rooms') = Len(rooms)
      /\ \A s \in Known : s # r => rooms'[s] = rooms[s]
  BY RoomsUpdate
<1>2. Known' = Known BY <1>1 DEF Known
<1>3. \A u \in Users : Balanced(u)' BY <1>1, <1>2, BooksStay
<1>4. MatchFits(r)' /\ PotIsPaid(r)' /\ TwoPay(r)'
  <2>1. MatchFits(r) /\ PotIsPaid(r) /\ TwoPay(r) BY DEF BooksInv
  <2> QED BY <1>1, <2>1 DEF MatchFits, PotIsPaid, TwoPay
<1>5. \A s \in Known : s # r => MatchFits(s)' /\ PotIsPaid(s)' /\ TwoPay(s)'
  BY <1>1 DEF BooksInv, MatchFits, PotIsPaid, TwoPay
<1> QED BY <1>2, <1>3, <1>4, <1>5 DEF BooksInv

LEMMA UnchangedKeepsBooks ==
  ASSUME BooksInv, rooms' = rooms, ledger' = ledger
  PROVE  BooksInv'
BY DEF BooksInv, Balanced, FeesOf, PotsOf, MatchFits, PotIsPaid, TwoPay, Known

LEMMA CreateKeepsBooks ==
  ASSUME HubInv, BooksInv, NEW i \in RoomIds, GetOrCreateRoom(i), ledger' = ledger
  PROVE  BooksInv'
<1>1. CASE hub[i] # 0 BY <1>1, UnchangedKeepsBooks DEF GetOrCreateRoom
<1>2. CASE hub[i] = 0
  <2> DEFINE new == [id |-> i, state |-> "waiting", seats |-> {}, started |-> FALSE, won |-> {}]
  <2>1. rooms' = Append(rooms, new) BY <1>2 DEF GetOrCreateRoom
  <2>2. new \in RoomRecord BY DEF RoomRecord
  <2>3. rooms \in Seq(RoomRecord) /\ Len(rooms) \in Nat BY DEF HubInv, HubTypeOK
  <2>4. new.state = "waiting" /\ ~new.started /\ new.won = {} OBVIOUS
  <2> HIDE DEF new
  <2> PICK n \in Nat : n = Len(rooms) + 1 BY <2>3
  <2>5. Len(rooms') = n /\ rooms'[n] = new /\ \A r \in Known : rooms'[r] = rooms[r]
    BY <2>1, <2>2, <2>3 DEF Known
  <2>6. Known' = Known \cup {n} BY <2>3, <2>5 DEF Known
  <2>7. \A u \in Users : Balanced(u)' BY <2>4, <2>5, <2>6, BooksStay
  <2>8. MatchFits(n)' /\ PotIsPaid(n)' /\ TwoPay(n)' BY <2>4, <2>5 DEF MatchFits, PotIsPaid, TwoPay
  <2>9. \A r \in Known : MatchFits(r)' /\ PotIsPaid(r)' /\ TwoPay(r)'
    BY <2>5 DEF BooksInv, MatchFits, PotIsPaid, TwoPay
  <2> QED BY <2>6, <2>7, <2>8, <2>9 DEF BooksInv
<1> QED BY <1>1, <1>2

\* Both seats pay, once: the room had no match before.
LEMMA StartKeepsBooks ==
  ASSUME HubInv, BooksInv, NEW r \in Known, rooms[r].state = "waiting",
         NEW seats \in SUBSET Users, Cardinality(seats) = 2, StartGame(r, seats)
  PROVE  BooksInv'
<1>0. rooms[r] \in RoomRecord /\ MatchFits(r) /\ PotIsPaid(r) BY RoomTyped DEF BooksInv
<1>1. CASE /\ rooms' = [rooms EXCEPT ![r] = [@ EXCEPT !.seats = seats, !.state = "running",
                                                      !.started = TRUE]]
           /\ ledger' = [u \in Users |-> ledger[u] - IF u \in seats THEN EntryFee ELSE 0]
  <2> DEFINE rec == [rooms[r] EXCEPT !.seats = seats, !.state = "running", !.started = TRUE]
  <2>1. rec \in RoomRecord /\ rec.state = "running" /\ rec.started /\ rec.seats = seats /\ rec.won = rooms[r].won
    BY <1>0 DEF RoomRecord
  <2>2. rooms' = [rooms EXCEPT ![r] = rec] BY <1>1
  <2>3. ~rooms[r].started /\ rooms[r].won = {} BY <1>0 DEF MatchFits, PotIsPaid
  <2> HIDE DEF rec
  <2>4. /\ rooms'[r] = rec /\ Len(rooms') = Len(rooms)
        /\ \A s \in Known : s # r => rooms'[s] = rooms[s]
    BY <2>1, <2>2, RoomsUpdate
  <2>5. Known' = Known BY <2>4 DEF Known
  <2>6. ASSUME NEW u \in Users PROVE Balanced(u)'
    <3>1. PotsOf(u)' = PotsOf(u) BY <2>1, <2>4, <2>5 DEF PotsOf
    <3>2. CASE u \in seats
      <4>1. FeesOf(u)' = FeesOf(u) \cup {r} /\ r \notin FeesOf(u)
        BY <2>1, <2>3, <2>4, <2>5, <3>2 DEF FeesOf
      <4>2. ledger'[u] = ledger[u] - EntryFee BY <1>1, <3>2
      <4> QED BY <3>1, <4>1, <4>2, FeeIsBooked
    <3>3. CASE u \notin seats
      <4>1. FeesOf(u)' = FeesOf(u) BY <2>1, <2>3, <2>4, <2>5, <3>3 DEF FeesOf
      <4>2. ledger'[u] = ledger[u] BY <1>1, <3>3 DEF BooksInv
      <4> QED BY <3>1, <4>1, <4>2 DEF BooksInv, Balanced
    <3> QED BY <3>2, <3>3
  <2>7. ledger' \in [Users -> Int] BY <1>1 DEF BooksInv
  <2>8. MatchFits(r)' /\ PotIsPaid(r)' /\ TwoPay(r)'
    BY <2>1, <2>3, <2>4 DEF MatchFits, PotIsPaid, TwoPay
  <2>9. \A s \in Known : s # r => MatchFits(s)' /\ PotIsPaid(s)' /\ TwoPay(s)'
    BY <2>4 DEF BooksInv, MatchFits, PotIsPaid, TwoPay
  <2> QED BY <2>5, <2>6, <2>7, <2>8, <2>9 DEF BooksInv
<1>2. CASE /\ rooms' = [rooms EXCEPT ![r] = [@ EXCEPT !.seats = seats, !.state = "finished"]]
           /\ ledger' = ledger
  <2> DEFINE rec == [rooms[r] EXCEPT !.seats = seats, !.state = "finished"]
  <2>1. /\ rec \in RoomRecord /\ rec.state = "finished" /\ rec.won = rooms[r].won
        /\ rec.started = rooms[r].started /\ ~rec.started
    BY <1>0 DEF RoomRecord, MatchFits
  <2>2. rooms' = [rooms EXCEPT ![r] = rec] BY <1>2
  <2> HIDE DEF rec
  <2> QED BY <1>2, <2>1, <2>2, QuietRoomKeeps
<1> QED BY <1>1, <1>2 DEF StartGame

\* Nobody new gets into a running match: both its seats are taken.
LEMMA JoinKeepsBooks ==
  ASSUME HubInv, BooksInv, NEW u \in Users, Join(u)
  PROVE  BooksInv'
<1> DEFINE r == dialled[u]
           seats == rooms[r].seats \cup {u}
<1>1. r \in Known /\ rooms[r].state # "gone"
  BY DEF Join, HubInv, HubTypeOK, NoneIsGone, Gone, Known
<1>2. rooms[r] \in RoomRecord /\ MatchFits(r) /\ PotIsPaid(r) /\ TwoPay(r)
  BY <1>1, RoomTyped DEF BooksInv
<1>3. seats \in SUBSET Users BY <1>2 DEF RoomRecord
<1>4. CASE rooms' = rooms /\ ledger' = ledger BY <1>4, UnchangedKeepsBooks
<1>5. ~Refuses(r) => rooms[r].state = "waiting"
  BY <1>1, <1>2 DEF Refuses, RoomRecord, MatchFits, TwoPay
<1>6. CASE ~Refuses(r) /\ Cardinality(seats) = 2 /\ StartGame(r, seats)
  <2> HIDE DEF r, seats
  <2> QED BY <1>1, <1>3, <1>5, <1>6, StartKeepsBooks
<1>7. CASE ~Refuses(r) /\ rooms' = [rooms EXCEPT ![r].seats = seats] /\ ledger' = ledger
  <2> DEFINE rec == [rooms[r] EXCEPT !.seats = seats]
  <2>1. /\ rec \in RoomRecord /\ rec.state = "waiting" /\ rec.won = rooms[r].won
        /\ rec.started = rooms[r].started /\ ~rec.started
    BY <1>2, <1>3, <1>5, <1>7 DEF RoomRecord, MatchFits
  <2>2. rooms' = [rooms EXCEPT ![r] = rec] BY <1>7
  <2> HIDE DEF r, seats, rec
  <2> QED BY <1>1, <1>7, <2>1, <2>2, QuietRoomKeeps
<1> QED BY <1>4, <1>6, <1>7 DEF Join

LEMMA LeaveKeepsBooks ==
  ASSUME HubInv, BooksInv, NEW u \in Users, Leave(u)
  PROVE  BooksInv'
<1> DEFINE r == joined[u]
<1>1. r \in Known /\ ledger' = ledger BY DEF Leave, HubInv, HubTypeOK, Known
<1>2. rooms[r] \in RoomRecord /\ MatchFits(r) BY <1>1, RoomTyped DEF BooksInv
<1>3. CASE rooms[r].state # "waiting" BY <1>1, <1>3, UnchangedKeepsBooks DEF Leave
<1>4. CASE rooms[r].state = "waiting"
  <2> DEFINE rec == [rooms[r] EXCEPT !.seats = @ \ {u}]
  <2>1. /\ rec \in RoomRecord /\ rec.state = "waiting" /\ rec.won = rooms[r].won
        /\ rec.started = rooms[r].started /\ ~rec.started
    BY <1>2, <1>4 DEF RoomRecord, MatchFits
  <2>2. rooms' = [rooms EXCEPT ![r] = rec] BY <1>4 DEF Leave
  <2> HIDE DEF r, rec
  <2> QED BY <1>1, <2>1, <2>2, QuietRoomKeeps
<1> QED BY <1>3, <1>4

LEMMA RoomExpiryKeepsBooks ==
  ASSUME HubInv, BooksInv, NEW r \in Known, ExpireIfWaiting(r)
  PROVE  BooksInv'
<1> DEFINE rec == [rooms[r] EXCEPT !.state = "finished"]
<1>1. /\ rec \in RoomRecord /\ rec.state = "finished" /\ rec.won = rooms[r].won
      /\ rec.started = rooms[r].started /\ ~rec.started
  BY RoomTyped DEF RoomRecord, ExpireIfWaiting, BooksInv, MatchFits
<1>2. rooms' = [rooms EXCEPT ![r] = rec] /\ ledger' = ledger BY DEF ExpireIfWaiting
<1> HIDE DEF rec
<1> QED BY <1>1, <1>2, QuietRoomKeeps

\* The pot is booked once: a room is resolved from "running" alone.
LEMMA ResolveKeepsBooks ==
  ASSUME HubInv, BooksInv, NEW r \in Known, ResolveGame(r)
  PROVE  BooksInv'
<1>1. PICK w \in rooms[r].seats :
        /\ ledger' = [ledger EXCEPT ![w] = @ + 2 * EntryFee]
        /\ rooms' = [rooms EXCEPT ![r].state = "finished", ![r].won = {w}]
  BY DEF ResolveGame
<1>2. rooms[r] \in RoomRecord /\ rooms[r].state = "running" /\ rooms[r].started
      /\ rooms[r].won = {} /\ TwoPay(r) /\ w \in Users
  BY RoomTyped DEF BooksInv, ResolveGame, MatchFits, PotIsPaid, RoomRecord
<1> DEFINE rec == [rooms[r] EXCEPT !.state = "finished", !.won = {w}]
<1>3. /\ rec \in RoomRecord /\ rec.state = "finished" /\ rec.won = {w}
      /\ rec.started = rooms[r].started /\ rec.seats = rooms[r].seats
  BY <1>2 DEF RoomRecord
<1>4. rooms' = [rooms EXCEPT ![r] = rec] BY <1>1, <1>2 DEF RoomRecord
<1> HIDE DEF rec
<1>5. /\ rooms'[r] = rec /\ Len(rooms') = Len(rooms)
      /\ \A s \in Known : s # r => rooms'[s] = rooms[s]
  BY <1>3, <1>4, RoomsUpdate
<1>6. Known' = Known BY <1>5 DEF Known
<1>7. ASSUME NEW u \in Users PROVE Balanced(u)'
  <2>1. FeesOf(u)' = FeesOf(u) BY <1>3, <1>5, <1>6 DEF FeesOf
  <2>2. CASE u = w
    <3>1. PotsOf(u)' = PotsOf(u) \cup {r} /\ r \notin PotsOf(u)
      BY <1>2, <1>3, <1>5, <1>6, <2>2 DEF PotsOf
    <3>2. ledger'[u] = ledger[u] + 2 * EntryFee BY <1>1, <2>2 DEF BooksInv
    <3> QED BY <2>1, <3>1, <3>2, PotIsBooked
  <2>3. CASE u # w
    <3>1. PotsOf(u)' = PotsOf(u) BY <1>2, <1>3, <1>5, <1>6, <2>3 DEF PotsOf
    <3>2. ledger'[u] = ledger[u] BY <1>1, <2>3 DEF BooksInv
    <3> QED BY <2>1, <3>1, <3>2 DEF BooksInv, Balanced
  <2> QED BY <2>2, <2>3
<1>8. ledger' \in [Users -> Int]
  <2>1. 2 * EntryFee \in Int OBVIOUS
  <2> QED BY <1>1, <1>2, <2>1 DEF BooksInv
<1>9. MatchFits(r)' /\ PotIsPaid(r)' /\ TwoPay(r)'
  BY <1>2, <1>3, <1>5 DEF MatchFits, PotIsPaid, TwoPay
<1>10. \A s \in Known : s # r => MatchFits(s)' /\ PotIsPaid(s)' /\ TwoPay(s)'
  BY <1>5 DEF BooksInv, MatchFits, PotIsPaid, TwoPay
<1> QED BY <1>6, <1>7, <1>8, <1>9, <1>10 DEF BooksInv

\* The process forgets the match, and the pot stays where it is.
LEMMA RestartKeepsBooks ==
  ASSUME HubInv, BooksInv, Restart
  PROVE  BooksInv'
<1> DEFINE rec(r) == [rooms[r] EXCEPT !.state = IF Live(r) THEN "gone" ELSE @]
<1>1. rooms' = [r \in Known |-> rec(r)] /\ ledger' = ledger BY DEF Restart
<1>2. \A r \in Known : /\ rec(r) \in RoomRecord /\ rec(r).started = rooms[r].started
                       /\ rec(r).won = rooms[r].won /\ rec(r).seats = rooms[r].seats
                       /\ rec(r).state = IF Live(r) THEN "gone" ELSE rooms[r].state
  BY RoomTyped DEF RoomRecord
<1> HIDE DEF rec
<1>3. Len(rooms) \in Nat BY DEF HubInv, HubTypeOK
<1>4. Len(rooms') = Len(rooms)
  <2>1. rooms' \in [1 .. Len(rooms) -> RoomRecord] BY <1>1, <1>2 DEF Known
  <2> QED BY <1>3, <2>1, IsASeq, LenProperties
<1>5. Known' = Known BY <1>4 DEF Known
<1>6. \A u \in Users : Balanced(u)' BY <1>1, <1>2, <1>5, BooksStay
<1>7. \A r \in Known : MatchFits(r)' /\ PotIsPaid(r)' /\ TwoPay(r)'
  <2> SUFFICES ASSUME NEW r \in Known PROVE MatchFits(r)' /\ PotIsPaid(r)' /\ TwoPay(r)'
    OBVIOUS
  <2>1. rooms'[r] = rec(r) BY <1>1
  <2>2. MatchFits(r) /\ PotIsPaid(r) /\ TwoPay(r) BY DEF BooksInv
  <2> QED BY <1>2, <2>1, <2>2 DEF MatchFits, PotIsPaid, TwoPay, Live
<1> QED BY <1>1, <1>5, <1>6, <1>7 DEF BooksInv

LEMMA BooksNext == HubInv /\ BooksInv /\ [HubNext]_hubVars => BooksInv'
<1> SUFFICES ASSUME HubInv, BooksInv, [HubNext]_hubVars PROVE BooksInv'
  OBVIOUS
<1>1. ASSUME NEW i \in RoomIds, MakeRoom(i) PROVE BooksInv' BY <1>1, CreateKeepsBooks DEF MakeRoom
<1>2. ASSUME NEW i \in RoomIds, NEW u \in Users, Dial(u, i) PROVE BooksInv'
  BY <1>2, CreateKeepsBooks DEF Dial
<1>3. ASSUME NEW u \in Users, UpgradeFails(u) PROVE BooksInv'
  BY <1>3, UnchangedKeepsBooks DEF UpgradeFails
<1>4. ASSUME NEW u \in Users, Join(u) \/ Leave(u) PROVE BooksInv'
  BY <1>4, JoinKeepsBooks, LeaveKeepsBooks
<1>5. ASSUME NEW r \in Known, ExpireIfWaiting(r) \/ ResolveGame(r) PROVE BooksInv'
  BY <1>5, RoomExpiryKeepsBooks, ResolveKeepsBooks
<1>6. ASSUME NEW r \in Known, FinalizeToDB(r) \/ RemoveRoom(r) PROVE BooksInv'
  BY <1>6, UnchangedKeepsBooks DEF FinalizeToDB, RemoveRoom
<1>7. CASE Restart BY <1>7, RestartKeepsBooks
<1>8. CASE UNCHANGED hubVars BY <1>8, UnchangedKeepsBooks DEF hubVars
<1> QED BY <1>1, <1>2, <1>3, <1>4, <1>5, <1>6, <1>7, <1>8 DEF HubNext, RoomStep

\* Every player's entry-fee coins are accounted for by the matches, for any number of
\* rooms, ids and restarts (Room.startGame charges, resolveGame pays the pot): no fee
\* is taken twice, no pot is paid twice or to somebody who did not pay.
THEOREM CoinsAlwaysBalance == Spec => []CoinsBalance
<1>1. BooksInv => CoinsBalance BY DEF BooksInv, CoinsBalance, TwoPay
<1> QED BY <1>1, HubInitInv, HubNextInv, BooksInit, BooksNext, PTL DEF Spec

-----------------------------------------------------------------------------
(***************************************************************************)
(* Rooms leave and results are kept: the safety of RoomsLeaveTheHub and of *)
(* MatchIsRecorded.  Both rest on goroutines that are still to run: the    *)
(* removal of a mapped room that is over, and the recording of a result.   *)
(***************************************************************************)
Running(r) == rooms[r].state = "running"

\* No id leads to a room nobody will take out of the hub.
HubHoldsNoLitter ==
  \A i \in RoomIds : hub[i] # 0 =>
    hub[i] \in Known /\ rooms[hub[i]].id = i /\ (Live(hub[i]) \/ hub[i] \in draining)

\* A match that runs, or waits for its result to be written, has a row.
HasRow(r) == matches[rooms[r].id] # "none"
RowsExist ==
  /\ matches \in [RoomIds -> {"none", "active", "finished"}] /\ recording \subseteq Known
  /\ \A r \in Known : Running(r) \/ r \in recording => HasRow(r)

DueInv == HubHoldsNoLitter /\ RowsExist

LEMMA DueInit == Init => DueInv
BY DEF Init, DueInv, HubHoldsNoLitter, RowsExist, Known

LEMMA RoomIdsFit ==
  ASSUME HubInv, NEW r \in Known
  PROVE  rooms[r].id \in RoomIds
BY RoomTyped DEF RoomRecord

\* Rooms, map and goroutines stay; rows are only written.
LEMMA SameRoomsDue ==
  ASSUME HubInv, DueInv, UNCHANGED <<hub, rooms, draining>>, recording' \subseteq recording,
         matches' \in [RoomIds -> {"none", "active", "finished"}],
         \A i \in RoomIds : matches[i] # "none" => matches'[i] # "none"
  PROVE  DueInv'
<1>1. Known' = Known BY DEF Known
<1>2. HubHoldsNoLitter' BY <1>1 DEF DueInv, HubHoldsNoLitter, Live
<1>3. ASSUME NEW r \in Known, Running(r)' \/ r \in recording' PROVE HasRow(r)'
  <2>1. Running(r) \/ r \in recording BY <1>3 DEF Running
  <2> QED BY <2>1, RoomIdsFit DEF DueInv, RowsExist, HasRow
<1>4. RowsExist' BY <1>1, <1>3 DEF DueInv, RowsExist
<1> QED BY <1>2, <1>4 DEF DueInv

\* A room that is live goes on or gets its removal; a match that starts gets its row,
\* one that is decided its recording.
LEMMA LiveRoomDue ==
  ASSUME HubInv, DueInv, NEW r \in Known, Live(r), NEW rec \in RoomRecord, rec.id = rooms[r].id,
         rooms' = [rooms EXCEPT ![r] = rec], hub' = hub,
         \/ rec.state \in {"waiting", "running"} /\ draining' = draining
         \/ rec.state = "finished" /\ draining' = draining \cup {r},
         matches' \in [RoomIds -> {"none", "active", "finished"}],
         \A i \in RoomIds : matches[i] # "none" => matches'[i] # "none",
         rec.state = "running" => matches'[rec.id] # "none",
         recording' = recording \/ (recording' = recording \cup {r} /\ Running(r))
  PROVE  DueInv'
<1>1. /\ rooms' \in Seq(RoomRecord) /\ Len(rooms') = Len(rooms)
      /\ rooms'[r] = rec /\ \A s \in Known : s # r => rooms'[s] = rooms[s]
  BY RoomsUpdate
<1>2. Known' = Known BY <1>1 DEF Known
<1>3. \A s \in Known : rooms'[s].id = rooms[s].id
  <2>1. ASSUME NEW s \in Known PROVE rooms'[s].id = rooms[s].id
    <3>1. CASE s = r BY <1>1, <3>1
    <3>2. CASE s # r BY <1>1, <3>2
    <3> QED BY <3>1, <3>2
  <2> QED BY <2>1
<1>4. ASSUME NEW s \in Known, Live(s) \/ s \in draining PROVE Live(s)' \/ s \in draining'
  <2>1. CASE s = r
    <3>1. rooms'[s].state \in {"waiting", "running"} \/ s \in draining' BY <1>1, <2>1
    <3> QED BY <3>1 DEF Live
  <2>2. CASE s # r
    <3>1. rooms'[s] = rooms[s] /\ (s \in draining => s \in draining') BY <1>1, <2>2
    <3> QED BY <1>4, <3>1 DEF Live
  <2> QED BY <2>1, <2>2
<1>5. HubHoldsNoLitter' BY <1>2, <1>3, <1>4 DEF DueInv, HubHoldsNoLitter
<1>6. ASSUME NEW s \in Known, Running(s)' \/ s \in recording' PROVE HasRow(s)'
  <2>1. rooms'[s].id = rooms[s].id /\ rooms[s].id \in RoomIds BY <1>3, RoomIdsFit
  <2>2. CASE s = r
    <3>1. CASE Running(s)' BY <1>1, <2>2, <3>1 DEF HasRow, Running
    <3>2. CASE s \in recording'
      <4>1. HasRow(s) BY <2>2, <3>2 DEF DueInv, RowsExist
      <4> QED BY <2>1, <4>1 DEF HasRow
    <3> QED BY <1>6, <3>1, <3>2
  <2>3. CASE s # r
    <3>1. Running(s) \/ s \in recording BY <1>1, <1>6, <2>3 DEF Running
    <3>2. HasRow(s) BY <3>1 DEF DueInv, RowsExist
    <3> QED BY <2>1, <3>2 DEF HasRow
  <2> QED BY <2>2, <2>3
<1>7. recording' \subseteq Known' BY <1>2 DEF DueInv, RowsExist
<1>8. RowsExist' BY <1>2, <1>6, <1>7 DEF RowsExist
<1> QED BY <1>5, <1>8 DEF DueInv

LEMMA CreateDue ==
  ASSUME HubInv, DueInv, NEW i \in RoomIds, GetOrCreateRoom(i), UNCHANGED <<draining, recording, matches>>
  PROVE  DueInv'
<1>1. CASE hub[i] # 0
  BY <1>1, SameRoomsDue DEF GetOrCreateRoom, DueInv, RowsExist
<1>2. CASE hub[i] = 0
  <2> DEFINE new == [id |-> i, state |-> "waiting", seats |-> {}, started |-> FALSE, won |-> {}]
             n   == Len(rooms) + 1
  <2>1. rooms' = Append(rooms, new) /\ hub' = [hub EXCEPT ![i] = n] BY <1>2 DEF GetOrCreateRoom
  <2>2. new \in RoomRecord BY DEF RoomRecord
  <2>3. rooms \in Seq(RoomRecord) /\ Len(rooms) \in Nat BY DEF HubInv, HubTypeOK
  <2>4. Len(rooms') = n /\ rooms'[n] = new /\ \A r \in Known : rooms'[r] = rooms[r]
    BY <2>1, <2>2, <2>3 DEF Known
  <2>5. new.id = i /\ new.state = "waiting" OBVIOUS
  <2> HIDE DEF new
  <2>6. Known' = Known \cup {n} /\ n \notin Known BY <2>3, <2>4 DEF Known
  <2>7. recording \subseteq Known /\ draining \subseteq Known
    BY DEF DueInv, RowsExist, HubInv, HubTypeOK
  <2>8. ASSUME NEW j \in RoomIds, hub'[j] # 0
        PROVE  /\ hub'[j] \in Known' /\ rooms'[hub'[j]].id = j
               /\ rooms'[hub'[j]].state \in {"waiting", "running"} \/ hub'[j] \in draining'
    <3>1. CASE j = i
      <4>1. hub'[j] = n BY <2>1, <3>1 DEF HubInv, HubTypeOK
      <4> QED BY <2>4, <2>5, <2>6, <3>1, <4>1 DEF Live
    <3>2. CASE j # i
      <4>1. hub'[j] = hub[j] BY <2>1, <3>2 DEF HubInv, HubTypeOK
      <4>2. hub[j] \in Known /\ rooms[hub[j]].id = j /\ (Live(hub[j]) \/ hub[j] \in draining)
        BY <2>8, <4>1 DEF DueInv, HubHoldsNoLitter
      <4> QED BY <2>4, <2>6, <4>1, <4>2 DEF Live
    <3> QED BY <3>1, <3>2
  <2>9. HubHoldsNoLitter' BY <2>8 DEF HubHoldsNoLitter, Live
  <2>10. ASSUME NEW s \in Known', Running(s)' \/ s \in recording' PROVE HasRow(s)'
    <3>1. s # n
      <4>1. s = n => rooms'[s].state = "waiting" BY <2>4, <2>5
      <4>2. s = n => s \notin recording' BY <2>6, <2>7
      <4> QED BY <2>10, <4>1, <4>2 DEF Running
    <3>2. s \in Known /\ rooms'[s] = rooms[s] BY <2>4, <2>6, <3>1
    <3>3. Running(s) \/ s \in recording BY <2>10, <3>2 DEF Running
    <3>4. HasRow(s) BY <3>2, <3>3 DEF DueInv, RowsExist
    <3> QED BY <3>2, <3>4 DEF HasRow
  <2>11. RowsExist' BY <2>6, <2>7, <2>10 DEF DueInv, RowsExist
  <2> QED BY <2>9, <2>11 DEF DueInv
<1> QED BY <1>1, <1>2

LEMMA JoinDue ==
  ASSUME HubInv, DueInv, NEW u \in Users, Join(u)
  PROVE  DueInv'
<1>0. PICK r : r = dialled[u] OBVIOUS
<1>1. PICK seats : seats = rooms[r].seats \cup {u} OBVIOUS
<1>2. r \in Known /\ rooms[r].state # "gone"
  BY <1>0 DEF Join, HubInv, HubTypeOK, NoneIsGone, Gone, Known
<1>3. rooms[r] \in RoomRecord BY <1>2, RoomTyped
<1>4. seats \in SUBSET Users BY <1>1, <1>3 DEF RoomRecord
<1>5. hub' = hub /\ recording' = recording BY DEF Join
<1>6. matches \in [RoomIds -> {"none", "active", "finished"}] /\ rooms[r].id \in RoomIds
  BY <1>2, RoomIdsFit DEF DueInv, RowsExist
<1>7. CASE rooms' = rooms /\ draining' = draining /\ matches' = matches
  BY <1>5, <1>6, <1>7, SameRoomsDue
<1>8. CASE ~Refuses(r)
           /\ rooms' = [rooms EXCEPT ![r] = [@ EXCEPT !.seats = seats, !.state = "running", !.started = TRUE]]
           /\ matches' = [matches EXCEPT ![rooms[r].id] = IF @ = "none" THEN "active" ELSE @]
           /\ draining' = draining
  <2>1. Live(r) BY <1>2, <1>3, <1>8 DEF Refuses, Live, RoomRecord
  <2>2. PICK rec : rec = [rooms[r] EXCEPT !.seats = seats, !.state = "running", !.started = TRUE] OBVIOUS
  <2>3. rec \in RoomRecord /\ rec.id = rooms[r].id /\ rec.state = "running"
    BY <1>3, <1>4, <2>2 DEF RoomRecord
  <2>4. rooms' = [rooms EXCEPT ![r] = rec] BY <1>8, <2>2
  <2>5. /\ matches' \in [RoomIds -> {"none", "active", "finished"}]
        /\ \A i \in RoomIds : matches[i] # "none" => matches'[i] # "none"
        /\ matches'[rec.id] # "none"
    BY <1>6, <1>8, <2>3
  <2> QED BY <1>2, <1>5, <1>8, <2>1, <2>3, <2>4, <2>5, LiveRoomDue
<1>9. CASE ~Refuses(r)
           /\ rooms' = [rooms EXCEPT ![r] = [@ EXCEPT !.seats = seats, !.state = "finished"]]
           /\ draining' = draining \cup {r} /\ matches' = matches
  <2>1. Live(r) BY <1>2, <1>3, <1>9 DEF Refuses, Live, RoomRecord
  <2>2. PICK rec : rec = [rooms[r] EXCEPT !.seats = seats, !.state = "finished"] OBVIOUS
  <2>3. rec \in RoomRecord /\ rec.id = rooms[r].id /\ rec.state = "finished"
    BY <1>3, <1>4, <2>2 DEF RoomRecord
  <2>4. rooms' = [rooms EXCEPT ![r] = rec] BY <1>9, <2>2
  <2> QED BY <1>2, <1>5, <1>6, <1>9, <2>1, <2>3, <2>4, LiveRoomDue
<1>10. CASE ~Refuses(r) /\ rooms' = [rooms EXCEPT ![r].seats = seats]
            /\ draining' = draining /\ matches' = matches
  <2>1. Live(r) BY <1>2, <1>3, <1>10 DEF Refuses, Live, RoomRecord
  <2>2. PICK rec : rec = [rooms[r] EXCEPT !.seats = seats] OBVIOUS
  <2>3. rec \in RoomRecord /\ rec.id = rooms[r].id /\ rec.state = rooms[r].state
    BY <1>3, <1>4, <2>2 DEF RoomRecord
  <2>4. rooms' = [rooms EXCEPT ![r] = rec] BY <1>10, <2>2
  <2>5. rec.state \in {"waiting", "running"} BY <2>1, <2>3 DEF Live
  <2>6. rec.state = "running" => matches'[rec.id] # "none"
    BY <1>2, <1>10, <2>3 DEF DueInv, RowsExist, Running, HasRow
  <2> QED BY <1>2, <1>5, <1>6, <1>10, <2>1, <2>3, <2>4, <2>5, <2>6, LiveRoomDue
<1> QED BY <1>0, <1>1, <1>7, <1>8, <1>9, <1>10 DEF Join, StartGame

LEMMA EndDue ==
  ASSUME HubInv, DueInv, NEW r \in Known, ExpireIfWaiting(r) \/ ResolveGame(r)
  PROVE  DueInv'
<1>1. PICK rec \in RoomRecord : /\ rec.id = rooms[r].id /\ rec.state = "finished"
                                /\ rooms' = [rooms EXCEPT ![r] = rec]
  <2>1. rooms[r] \in RoomRecord BY RoomTyped
  <2>2. CASE ExpireIfWaiting(r)
    <3>1. PICK rec : rec = [rooms[r] EXCEPT !.state = "finished"] OBVIOUS
    <3>2. rooms' = [rooms EXCEPT ![r] = rec] BY <2>2, <3>1 DEF ExpireIfWaiting
    <3>3. rec \in RoomRecord /\ rec.id = rooms[r].id /\ rec.state = "finished" BY <2>1, <3>1 DEF RoomRecord
    <3> QED BY <3>2, <3>3
  <2>3. CASE ResolveGame(r)
    <3>1. PICK w \in rooms[r].seats : rooms' = [rooms EXCEPT ![r].state = "finished", ![r].won = {w}]
      BY <2>3 DEF ResolveGame
    <3>2. PICK rec : rec = [rooms[r] EXCEPT !.state = "finished", !.won = {w}] OBVIOUS
    <3>3. rooms' = [rooms EXCEPT ![r] = rec] BY <2>1, <3>1, <3>2 DEF RoomRecord
    <3>4. rec \in RoomRecord /\ rec.id = rooms[r].id /\ rec.state = "finished"
      BY <2>1, <3>1, <3>2 DEF RoomRecord
    <3> QED BY <3>3, <3>4
  <2> QED BY <2>2, <2>3
<1>2. Live(r) /\ draining' = draining \cup {r} /\ hub' = hub /\ matches' = matches
  BY DEF ExpireIfWaiting, ResolveGame, Live
<1>3. recording' = recording \/ (recording' = recording \cup {r} /\ Running(r))
  BY DEF ExpireIfWaiting, ResolveGame, Running
<1>4. matches \in [RoomIds -> {"none", "active", "finished"}] BY DEF DueInv, RowsExist
<1> QED BY <1>1, <1>2, <1>3, <1>4, LiveRoomDue

LEMMA LeaveDue ==
  ASSUME HubInv, DueInv, NEW u \in Users, Leave(u)
  PROVE  DueInv'
<1>1. PICK r \in Known : r = joined[u] BY DEF Leave, HubInv, HubTypeOK, Known
<1>2. /\ UNCHANGED <<hub, draining, recording, matches>>
      /\ matches \in [RoomIds -> {"none", "active", "finished"}]
  BY DEF Leave, DueInv, RowsExist
<1>3. CASE rooms' = rooms BY <1>2, <1>3, SameRoomsDue
<1>4. CASE rooms[r].state = "waiting" /\ rooms' = [rooms EXCEPT ![r].seats = @ \ {u}]
  <2>1. PICK rec : rec = [rooms[r] EXCEPT !.seats = @ \ {u}] OBVIOUS
  <2>2. rec \in RoomRecord /\ rec.id = rooms[r].id /\ rec.state = "waiting"
    BY <1>4, <2>1, RoomTyped DEF RoomRecord
  <2>3. rooms' = [rooms EXCEPT ![r] = rec] /\ Live(r) BY <1>4, <2>1 DEF Live
  <2> QED BY <1>2, <2>2, <2>3, LiveRoomDue
<1> QED BY <1>1, <1>3, <1>4 DEF Leave

LEMMA RemovalDue ==
  ASSUME HubInv, DueInv, NEW r \in Known, RemoveRoom(r)
  PROVE  DueInv'
<1>1. /\ draining' = draining \ {r} /\ hub' = [hub EXCEPT ![rooms[r].id] = 0]
      /\ UNCHANGED <<rooms, recording, matches>>
  BY DEF RemoveRoom
<1>2. Known' = Known BY <1>1 DEF Known
<1>3. ASSUME NEW i \in RoomIds, hub'[i] # 0
      PROVE  /\ hub'[i] \in Known /\ rooms'[hub'[i]].id = i
             /\ rooms'[hub'[i]].state \in {"waiting", "running"} \/ hub'[i] \in draining'
  <2>1. i # rooms[r].id /\ hub'[i] = hub[i] BY <1>1, <1>3 DEF HubInv, HubTypeOK
  <2>2. hub[i] \in Known /\ rooms[hub[i]].id = i /\ (Live(hub[i]) \/ hub[i] \in draining)
    BY <1>3, <2>1 DEF DueInv, HubHoldsNoLitter
  <2> QED BY <1>1, <2>1, <2>2 DEF Live
<1>4. HubHoldsNoLitter' BY <1>2, <1>3 DEF HubHoldsNoLitter, Live
<1>5. RowsExist' BY <1>1, <1>2 DEF DueInv, RowsExist, Running, HasRow
<1> QED BY <1>4, <1>5 DEF DueInv

LEMMA RestartDue ==
  ASSUME HubInv, DueInv, Restart
  PROVE  DueInv'
<1>1. hub' = [i \in RoomIds |-> 0] /\ recording' = {} /\ matches' = matches BY DEF Restart
<1>2. HubInv' BY RestartKeeps
<1>3. ASSUME NEW r \in Known' PROVE ~Running(r)'
  <2>1. PICK rec : rec = [s \in Known |-> [rooms[s] EXCEPT !.state = IF Live(s) THEN "gone" ELSE @]] OBVIOUS
  <2>2. rooms' = rec /\ \A s \in Known : rec[s].state # "running"
    BY <2>1, RoomTyped DEF Restart, RoomRecord, Live
  <2>3. DOMAIN rooms' = Known /\ DOMAIN rooms' = Known'
    BY <1>2, <2>1, <2>2 DEF HubInv, HubTypeOK, Known
  <2> QED BY <2>2, <2>3 DEF Running
<1>4. HubHoldsNoLitter' BY <1>1 DEF HubHoldsNoLitter
<1>5. RowsExist' BY <1>1, <1>3 DEF DueInv, RowsExist
<1> QED BY <1>4, <1>5 DEF DueInv

LEMMA DueNext == HubInv /\ DueInv /\ [HubNext]_hubVars => DueInv'
<1> SUFFICES ASSUME HubInv, DueInv, [HubNext]_hubVars PROVE DueInv'
  OBVIOUS
<1>0. matches \in [RoomIds -> {"none", "active", "finished"}] BY DEF DueInv, RowsExist
<1>1. ASSUME NEW i \in RoomIds, MakeRoom(i) PROVE DueInv' BY <1>1, CreateDue DEF MakeRoom
<1>2. ASSUME NEW i \in RoomIds, NEW u \in Users, Dial(u, i) PROVE DueInv' BY <1>2, CreateDue DEF Dial
<1>3. ASSUME NEW u \in Users, UpgradeFails(u) PROVE DueInv' BY <1>0, <1>3, SameRoomsDue DEF UpgradeFails
<1>4. ASSUME NEW u \in Users, Join(u) \/ Leave(u) PROVE DueInv' BY <1>4, JoinDue, LeaveDue
<1>5. ASSUME NEW r \in Known, ExpireIfWaiting(r) \/ ResolveGame(r) PROVE DueInv' BY <1>5, EndDue
<1>6. ASSUME NEW r \in Known, FinalizeToDB(r) PROVE DueInv'
  <2>1. /\ UNCHANGED <<hub, rooms, draining>> /\ recording' \subseteq recording
        /\ matches' = [matches EXCEPT ![rooms[r].id] = IF @ = "none" THEN @ ELSE "finished"]
    BY <1>6 DEF FinalizeToDB
  <2>2. /\ matches' \in [RoomIds -> {"none", "active", "finished"}]
        /\ \A i \in RoomIds : matches[i] # "none" => matches'[i] # "none"
    BY <1>0, <2>1
  <2> QED BY <2>1, <2>2, SameRoomsDue
<1>7. ASSUME NEW r \in Known, RemoveRoom(r) PROVE DueInv' BY <1>7, RemovalDue
<1>8. CASE Restart BY <1>8, RestartDue
<1>9. CASE UNCHANGED hubVars BY <1>0, <1>9, SameRoomsDue DEF hubVars
<1> QED BY <1>1, <1>2, <1>3, <1>4, <1>5, <1>6, <1>7, <1>8, <1>9 DEF HubNext, RoomStep

\* Nothing is left behind in the hub: what an id leads to is a room of that id that is
\* still live, or one whose removal is under way.  With the goroutines' fairness, which
\* TLC assumes, that is RoomsLeaveTheHub (Hub.RemoveRoom, closeAfterDrain).
THEOREM HubNeverLittered == Spec => []HubHoldsNoLitter
<1>1. DueInv => HubHoldsNoLitter BY DEF DueInv
<1> QED BY <1>1, HubInitInv, HubNextInv, DueInit, DueNext, PTL DEF Spec

\* The two ways to a finished row: a running match is decided into its recording, and
\* the recording writes it; no row is unwritten.  A restart is what loses a result.
ResultIsKept(r) ==
  /\ Running(r) => Running(r)' \/ r \in recording'
  /\ r \in recording => r \in recording' \/ matches'[rooms[r].id] = "finished"
ResultsAreKept ==
  /\ Restart \/ \A r \in Known : ResultIsKept(r)
  /\ \A i \in RoomIds : matches[i] = "finished" => matches'[i] = "finished"

LEMMA ResultStep ==
  ASSUME HubInv, DueInv, BooksInv, [HubNext]_hubVars
  PROVE  ResultsAreKept
<1>0. matches \in [RoomIds -> {"none", "active", "finished"}] /\ rooms \in Seq(RoomRecord)
  BY DEF DueInv, RowsExist, HubInv, HubTypeOK
<1>1. ASSUME NEW i \in RoomIds, GetOrCreateRoom(i), UNCHANGED <<draining, recording, matches>>
      PROVE  ResultsAreKept
  <2>1. \A s \in Known : rooms'[s] = rooms[s] BY <1>1, CreateKeeps
  <2> QED BY <1>1, <2>1 DEF ResultsAreKept, ResultIsKept, Running
<1>2. CASE rooms' = rooms /\ recording' = recording /\ matches' = matches
  BY <1>2 DEF ResultsAreKept, ResultIsKept, Running
<1>3. ASSUME NEW u \in Users, Join(u) PROVE ResultsAreKept
  <2>1. PICK r \in Known : r = dialled[u] BY <1>3 DEF Join, HubInv, HubTypeOK, Known
  <2>2. recording' = recording /\ rooms[r].id \in RoomIds BY <1>3, <2>1, RoomIdsFit DEF Join
  <2>3. \A i \in RoomIds : matches[i] = "finished" => matches'[i] = "finished"
    BY <1>0, <1>3, <2>1, <2>2 DEF Join, StartGame
  <2>4. CASE Refuses(r)
    <3>1. rooms' = rooms BY <1>3, <2>1, <2>4 DEF Join
    <3> QED BY <2>2, <2>3, <3>1 DEF ResultsAreKept, ResultIsKept, Running
  <2>5. CASE ~Refuses(r)
    <3>1. ~Running(r)
      <4>1. Running(r) => rooms[r].started BY DEF BooksInv, MatchFits, Running
      <4>2. rooms[r].started => Cardinality(rooms[r].seats) = 2 BY DEF BooksInv, TwoPay
      <4> QED BY <2>5, <4>1, <4>2 DEF Refuses
    <3>2. \A s \in Known : s # r => rooms'[s] = rooms[s]
      BY <1>0, <1>3, <2>1 DEF Join, StartGame, Known
    <3> QED BY <2>2, <2>3, <3>1, <3>2 DEF ResultsAreKept, ResultIsKept, Running
  <2> QED BY <2>4, <2>5
<1>4. ASSUME NEW u \in Users, Leave(u) PROVE ResultsAreKept
  <2>1. PICK r \in Known : r = joined[u] BY <1>4 DEF Leave, HubInv, HubTypeOK, Known
  <2>2. recording' = recording /\ matches' = matches BY <1>4 DEF Leave
  <2>3. \A s \in Known : Running(s) => rooms'[s] = rooms[s]
    BY <1>0, <1>4, <2>1 DEF Leave, Known, Running
  <2> QED BY <2>2, <2>3 DEF ResultsAreKept, ResultIsKept, Running
<1>5. ASSUME NEW r \in Known, ExpireIfWaiting(r) PROVE ResultsAreKept
  <2>1. recording' = recording /\ matches' = matches /\ rooms[r].state = "waiting"
        /\ rooms' = [rooms EXCEPT ![r].state = "finished"]
    BY <1>5 DEF ExpireIfWaiting
  <2>2. \A s \in Known : Running(s) => rooms'[s] = rooms[s] BY <1>0, <2>1 DEF Known, Running
  <2> QED BY <2>1, <2>2 DEF ResultsAreKept, ResultIsKept, Running
<1>6. ASSUME NEW r \in Known, ResolveGame(r) PROVE ResultsAreKept
  <2>1. recording' = recording \cup {r} /\ matches' = matches
        /\ \E w : rooms' = [rooms EXCEPT ![r].state = "finished", ![r].won = {w}]
    BY <1>6 DEF ResolveGame
  <2>2. \A s \in Known : s # r => rooms'[s] = rooms[s] BY <1>0, <2>1 DEF Known
  <2> QED BY <2>1, <2>2 DEF ResultsAreKept, ResultIsKept, Running
<1>7. ASSUME NEW r \in Known, FinalizeToDB(r) PROVE ResultsAreKept
  <2>1. /\ rooms' = rooms /\ recording' = recording \ {r} /\ r \in recording
        /\ matches' = [matches EXCEPT ![rooms[r].id] = IF @ = "none" THEN @ ELSE "finished"]
    BY <1>7 DEF FinalizeToDB
  <2>2. HasRow(r) /\ rooms[r].id \in RoomIds BY <2>1, RoomIdsFit DEF DueInv, RowsExist
  <2>3. matches'[rooms[r].id] = "finished" BY <1>0, <2>1, <2>2 DEF HasRow
  <2>4. \A i \in RoomIds : matches[i] = "finished" => matches'[i] = "finished" BY <1>0, <2>1
  <2> QED BY <2>1, <2>3, <2>4 DEF ResultsAreKept, ResultIsKept, Running
<1>8. CASE Restart
  <2>1. matches' = matches BY <1>8 DEF Restart
  <2> QED BY <1>8, <2>1 DEF ResultsAreKept
<1>9. CASE UNCHANGED hubVars BY <1>2, <1>9 DEF hubVars
<1>10. ASSUME NEW u \in Users, UpgradeFails(u) PROVE ResultsAreKept BY <1>2, <1>10 DEF UpgradeFails
<1>11. ASSUME NEW r \in Known, RemoveRoom(r) PROVE ResultsAreKept BY <1>2, <1>11 DEF RemoveRoom
<1>12. ASSUME NEW i \in RoomIds, MakeRoom(i) PROVE ResultsAreKept BY <1>1, <1>12 DEF MakeRoom
<1>13. ASSUME NEW i \in RoomIds, NEW u \in Users, Dial(u, i) PROVE ResultsAreKept BY <1>1, <1>13 DEF Dial
<1> QED BY <1>3, <1>4, <1>5, <1>6, <1>7, <1>8, <1>9, <1>10, <1>11, <1>12, <1>13 DEF HubNext, RoomStep

\* No result is lost but by a restart: a running match only stops to be recorded, and a
\* recording only ends by writing the row, whether or not the room has left the hub and
\* whatever earlier match the row was made for.  With fairness, that is MatchIsRecorded
\* (Room.resolveGame starts finalizeToDB, which sets the winner).
THEOREM ResultsAlwaysKept == Spec => [][ResultsAreKept]_hubVars
<1>1. HubInv /\ DueInv /\ BooksInv /\ [HubNext]_hubVars => [ResultsAreKept]_hubVars BY ResultStep
<1> QED BY <1>1, HubInitInv, HubNextInv, DueInit, DueNext, BooksInit, BooksNext, PTL DEF Spec

-----------------------------------------------------------------------------
(* Friend challenges                                                       *)

USE FriendsAssumption, NoRoomAssumption

Call ==
  {Idle} \cup [at : {"accept", "decline"}, ch : Challenges]
         \cup [at : {"roomed"}, ch : Challenges, room : RoomIds]

\* FriendsMeet is about the ids the apps were told; that such an id is one of a
\* room needs the rows: an accepted row has a room, and a call that made a room
\* remembers which.
RowsTypeOK ==
  /\ status \in [Challenges -> {"none", "pending", "accepted", "declined", "expired"}]
  /\ roomOf \in [Challenges -> RoomIds \cup {NoRoom}]
  /\ overdue \subseteq Challenges
  /\ request \in [Requests -> Call]
  /\ told \in [Users -> SUBSET RoomIds]
AcceptedHaveRooms == \A c \in Challenges : status[c] = "accepted" => roomOf[c] # NoRoom

ChallengeInv == RowsTypeOK /\ AcceptedHaveRooms /\ FriendsMeet

\* What a step does to a row that is decided
Decided(c) == status[c] \in {"accepted", "declined", "expired"}
RowsAreFinal == \A c \in Challenges : Decided(c) => status'[c] = status[c] /\ roomOf'[c] = roomOf[c]

-----------------------------------------------------------------------------
LEMMA ChallengeInitInv == ChallengeInit => ChallengeInv
BY DEF ChallengeInit, ChallengeInv, RowsTypeOK, AcceptedHaveRooms, FriendsMeet, Call, Idle

\* The UPDATE decides a pending row: decided rows, and with them what the apps were
\* told, stay as they are.
LEMMA UpdateKeeps ==
  ASSUME ChallengeInv, NEW c \in Challenges, NEW s \in {"accepted", "declined"},
         NEW i \in RoomIds \cup {NoRoom}, s = "accepted" => i # NoRoom, UpdateRow(c, s, i)
  PROVE  /\ status' \in [Challenges -> {"none", "pending", "accepted", "declined", "expired"}]
         /\ roomOf' \in [Challenges -> RoomIds \cup {NoRoom}]
         /\ status'[c] = s /\ (s = "accepted" => roomOf'[c] = i)
         /\ AcceptedHaveRooms' /\ RowsAreFinal
<1>1. /\ status[c] = "pending" /\ status' = [status EXCEPT ![c] = s]
      /\ roomOf' = [roomOf EXCEPT ![c] = IF i = NoRoom THEN @ ELSE i]
  BY DEF UpdateRow
<1>2. RowsAreFinal BY <1>1 DEF ChallengeInv, RowsTypeOK, RowsAreFinal, Decided
<1>3. AcceptedHaveRooms' BY <1>1 DEF ChallengeInv, RowsTypeOK, AcceptedHaveRooms
<1> QED BY <1>1, <1>2, <1>3 DEF ChallengeInv, RowsTypeOK

\* Who was told of a room is one of the friends of an accepted challenge, and that
\* challenge goes on.
LEMMA TheyStillMeet ==
  ASSUME ChallengeInv, RowsAreFinal, NEW u \in Users, NEW i \in told[u]
  PROVE  \E c \in Challenges : /\ u \in {Challenger[c], Challenged[c]}
                               /\ status'[c] = "accepted" /\ roomOf'[c] = i
<1>1. PICK c \in Challenges : /\ u \in {Challenger[c], Challenged[c]}
                              /\ status[c] = "accepted" /\ roomOf[c] = i
  BY DEF ChallengeInv, FriendsMeet
<1> QED BY <1>1 DEF RowsAreFinal, Decided

\* A step that tells nobody anything.
LEMMA UntoldKeeps ==
  ASSUME ChallengeInv, RowsAreFinal, told' = told
  PROVE  FriendsMeet'
BY TheyStillMeet DEF FriendsMeet

\* A step that writes no row.
LEMMA SameRowsKeep ==
  ASSUME ChallengeInv, UNCHANGED <<status, roomOf, told>>, overdue' \subseteq Challenges,
         request' \in [Requests -> Call]
  PROVE  ChallengeInv' /\ RowsAreFinal
<1>1. RowsAreFinal BY DEF RowsAreFinal
<1>2. RowsTypeOK' /\ AcceptedHaveRooms' BY DEF ChallengeInv, RowsTypeOK, AcceptedHaveRooms
<1> QED BY <1>1, <1>2, UntoldKeeps DEF ChallengeInv

LEMMA AnswerKeeps ==
  ASSUME ChallengeInv, NEW p \in Requests, Decline(p) \/ Accept(p)
  PROVE  ChallengeInv' /\ RowsAreFinal
<1> DEFINE c == request[p].ch
<1>1. request[p] \in Call /\ request' = [request EXCEPT ![p] = Idle] /\ overdue' = overdue
  BY DEF ChallengeInv, RowsTypeOK, Decline, Accept
<1>2. request' \in [Requests -> Call] BY <1>1 DEF ChallengeInv, RowsTypeOK, Call
<1>3. CASE Decline(p)
  <2>1. c \in Challenges BY <1>1, <1>3 DEF Decline, Call, Idle
  <2>2. UpdateRow(c, "declined", NoRoom) /\ told' = told BY <1>3 DEF Decline
  <2> HIDE DEF c
  <2>3. /\ status' \in [Challenges -> {"none", "pending", "accepted", "declined", "expired"}]
        /\ roomOf' \in [Challenges -> RoomIds \cup {NoRoom}] /\ AcceptedHaveRooms' /\ RowsAreFinal
    BY <2>1, <2>2, UpdateKeeps
  <2> QED BY <1>1, <1>2, <2>2, <2>3, UntoldKeeps DEF ChallengeInv, RowsTypeOK
<1>4. CASE Accept(p)
  <2> DEFINE i == request[p].room
  <2>1. c \in Challenges /\ i \in RoomIds BY <1>1, <1>4 DEF Accept, Call, Idle
  <2>2. UpdateRow(c, "accepted", i) /\ told' = [told EXCEPT ![Challenged[c]] = @ \cup {i}]
    BY <1>4 DEF Accept
  <2> HIDE DEF c, i
  <2>3. /\ status' \in [Challenges -> {"none", "pending", "accepted", "declined", "expired"}]
        /\ roomOf' \in [Challenges -> RoomIds \cup {NoRoom}] /\ AcceptedHaveRooms' /\ RowsAreFinal
        /\ status'[c] = "accepted" /\ roomOf'[c] = i
    BY <2>1, <2>2, UpdateKeeps
  <2>4. told' \in [Users -> SUBSET RoomIds] BY <2>1, <2>2 DEF ChallengeInv, RowsTypeOK
  <2>5. ASSUME NEW u \in Users, NEW j \in told'[u]
        PROVE  \E d \in Challenges : /\ u \in {Challenger[d], Challenged[d]}
                                     /\ status'[d] = "accepted" /\ roomOf'[d] = j
    <3>1. CASE j \in told[u] BY <2>3, <3>1, TheyStillMeet
    <3>2. CASE j \notin told[u]
      <4>1. u = Challenged[c] /\ j = i BY <2>2, <2>5, <3>2 DEF ChallengeInv, RowsTypeOK
      <4> QED BY <2>1, <2>3, <4>1
    <3> QED BY <3>1, <3>2
  <2> QED BY <1>1, <1>2, <2>3, <2>4, <2>5 DEF ChallengeInv, RowsTypeOK, FriendsMeet
<1> QED BY <1>3, <1>4

LEMMA ExpireKeeps ==
  ASSUME ChallengeInv, ExpireOldChallenges
  PROVE  ChallengeInv' /\ RowsAreFinal
<1> DEFINE old == {c \in overdue : status[c] = "pending"}
<1>1. /\ status' = [c \in Challenges |-> IF c \in old THEN "expired" ELSE status[c]]
      /\ UNCHANGED <<roomOf, overdue, request, told>>
  BY DEF ExpireOldChallenges, ExpiredRows
<1>2. RowsAreFinal BY <1>1 DEF RowsAreFinal, Decided
<1>3. RowsTypeOK' /\ AcceptedHaveRooms' BY <1>1 DEF ChallengeInv, RowsTypeOK, AcceptedHaveRooms
<1> QED BY <1>1, <1>2, <1>3, UntoldKeeps DEF ChallengeInv

\* The poll tells rooms of accepted rows.
LEMMA PollKeeps ==
  ASSUME ChallengeInv, NEW u \in Users, PollJoinable(u)
  PROVE  ChallengeInv' /\ RowsAreFinal
<1> DEFINE found == {roomOf[c] : c \in JoinableChallenges(u)}
<1>1. /\ told' = [told EXCEPT ![u] = @ \cup found]
      /\ UNCHANGED <<status, roomOf, overdue, request>>
  BY DEF PollJoinable
<1>2. \A c \in JoinableChallenges(u) : c \in Challenges /\ Challenger[c] = u /\ status[c] = "accepted"
  BY DEF JoinableChallenges
<1>3. RowsAreFinal BY <1>1 DEF RowsAreFinal
<1>4. found \subseteq RoomIds BY <1>2 DEF ChallengeInv, RowsTypeOK, AcceptedHaveRooms
<1>5. RowsTypeOK' /\ AcceptedHaveRooms'
  BY <1>1, <1>4 DEF ChallengeInv, RowsTypeOK, AcceptedHaveRooms
<1>6. ASSUME NEW v \in Users, NEW j \in told'[v]
      PROVE  \E d \in Challenges : /\ v \in {Challenger[d], Challenged[d]}
                                   /\ status'[d] = "accepted" /\ roomOf'[d] = j
  <2>1. CASE j \in told[v] BY <1>3, <2>1, TheyStillMeet
  <2>2. CASE j \notin told[v]
    <3>1. v = u /\ j \in found BY <1>1, <1>6, <2>2 DEF ChallengeInv, RowsTypeOK
    <3>2. PICK c \in JoinableChallenges(u) : j = roomOf[c] BY <3>1
    <3> QED BY <1>1, <1>2, <3>1, <3>2
  <2> QED BY <2>1, <2>2
<1> QED BY <1>3, <1>5, <1>6 DEF ChallengeInv, FriendsMeet

LEMMA ChallengeNextInv ==
  ASSUME ChallengeInv, [ChallengeNext]_allVars
  PROVE  ChallengeInv' /\ RowsAreFinal
<1>1. ASSUME NEW c \in Challenges, CreateChallenge(c) PROVE ChallengeInv' /\ RowsAreFinal
  <2>1. /\ status[c] = "none" /\ status' = [status EXCEPT ![c] = "pending"]
        /\ UNCHANGED <<roomOf, overdue, request, told>>
    BY <1>1 DEF CreateChallenge
  <2>2. RowsAreFinal BY <2>1 DEF ChallengeInv, RowsTypeOK, RowsAreFinal, Decided
  <2>3. RowsTypeOK' /\ AcceptedHaveRooms' BY <2>1 DEF ChallengeInv, RowsTypeOK, AcceptedHaveRooms
  <2> QED BY <2>1, <2>2, <2>3, UntoldKeeps DEF ChallengeInv
<1>2. ASSUME NEW c \in Challenges, PassDeadline(c) PROVE ChallengeInv' /\ RowsAreFinal
  BY <1>2, SameRowsKeep DEF PassDeadline, ChallengeInv, RowsTypeOK
<1>3. ASSUME NEW p \in Requests, NEW c \in Challenges, NEW answer \in {"accept", "decline"},
             ReadChallenge(p, c, answer)
      PROVE  ChallengeInv' /\ RowsAreFinal
  <2>1. [at |-> answer, ch |-> c] \in Call BY DEF Call
  <2>2. request' \in [Requests -> Call]
    BY <1>3, <2>1 DEF ReadChallenge, ChallengeInv, RowsTypeOK
  <2> QED BY <1>3, <2>2, SameRowsKeep DEF ReadChallenge, ChallengeInv, RowsTypeOK
<1>4. ASSUME NEW p \in Requests, RespondFails(p) \/ CannotAfford(p)
      PROVE  ChallengeInv' /\ RowsAreFinal
  <2>1. request' \in [Requests -> Call]
    BY <1>4 DEF RespondFails, CannotAfford, ChallengeInv, RowsTypeOK, Call
  <2> QED BY <1>4, <2>1, SameRowsKeep DEF RespondFails, CannotAfford, ChallengeInv, RowsTypeOK
<1>5. ASSUME NEW p \in Requests, CreateRoom(p) PROVE ChallengeInv' /\ RowsAreFinal
  <2>1. PICK i \in RoomIds : request' = [request EXCEPT
                               ![p] = [at |-> "roomed", ch |-> request[p].ch, room |-> i]]
    BY <1>5 DEF CreateRoom
  <2>2. request[p].ch \in Challenges
    BY <1>5 DEF CreateRoom, ChallengeInv, RowsTypeOK, Call, Idle
  <2>3. request' \in [Requests -> Call] BY <2>1, <2>2 DEF ChallengeInv, RowsTypeOK, Call
  <2> QED BY <1>5, <2>3, SameRowsKeep DEF CreateRoom, ChallengeInv, RowsTypeOK
<1>6. ASSUME NEW p \in Requests, Decline(p) \/ Accept(p) PROVE ChallengeInv' /\ RowsAreFinal
  BY <1>6, AnswerKeeps
<1>7. CASE ExpireOldChallenges BY <1>7, ExpireKeeps
<1>8. ASSUME NEW u \in Users, PollJoinable(u) PROVE ChallengeInv' /\ RowsAreFinal
  BY <1>8, PollKeeps
<1>9. CASE HubStep \/ UNCHANGED allVars
  BY <1>9, SameRowsKeep DEF HubStep, challengeVars, allVars, ChallengeInv, RowsTypeOK
<1>10. CASE RestartServer
  <2>1. request' \in [Requests -> Call] BY <1>10 DEF RestartServer, Call
  <2> QED BY <1>10, <2>1, SameRowsKeep DEF RestartServer, ChallengeInv, RowsTypeOK
<1> QED BY <1>1, <1>2, <1>3, <1>4, <1>5, <1>6, <1>7, <1>8, <1>9, <1>10 DEF ChallengeNext

\* One answer wins: no late accept, decline or expiry changes a decided row, and
\* every room an app was told of is the one of an accepted challenge of its player
\* (service/challenge.go over the guarded UPDATE of repository/challenge.go).
THEOREM OneAnswerAlwaysWins == ChallengeSpec => OneAnswerWins
<1>1. ChallengeInv /\ [ChallengeNext]_allVars => ChallengeInv' BY ChallengeNextInv
<1>2. ChallengeInv /\ [ChallengeNext]_allVars
        => [\A c \in Challenges : status[c] \in {"accepted", "declined", "expired"} =>
              status'[c] = status[c] /\ roomOf'[c] = roomOf[c]]_allVars
  BY ChallengeNextInv DEF RowsAreFinal, Decided
<1>3. ChallengeInv => FriendsMeet BY DEF ChallengeInv
<1> QED BY <1>1, <1>2, <1>3, ChallengeInitInv, PTL DEF ChallengeSpec, OneAnswerWins, AnswerIsFinal

-----------------------------------------------------------------------------
\* Challenges use the hub and nothing beside it: a step makes a room, dials one the
\* app was told of, is another step of the hub, or leaves the hub alone.
LEMMA StepUsesHub ==
  ASSUME ChallengeInv, [ChallengeNext]_allVars
  PROVE  [HubNext]_hubVars
<1>1. CASE \E p \in Requests : CreateRoom(p) BY <1>1 DEF CreateRoom, HubNext
<1>2. CASE HubStep
  <2>1. ASSUME NEW u \in Users, NEW i \in told[u], Dial(u, i) PROVE HubNext
    <3>1. i \in RoomIds BY DEF ChallengeInv, RowsTypeOK
    <3> QED BY <2>1, <3>1 DEF HubNext
  <2> QED BY <1>2, <2>1 DEF HubStep, HubNext
<1>3. CASE RestartServer BY <1>3 DEF RestartServer, HubNext
<1>4. CASE UNCHANGED hubVars BY <1>4
<1> QED
  BY <1>1, <1>2, <1>3, <1>4
  DEF ChallengeNext, allVars, CreateChallenge, PassDeadline, ReadChallenge, RespondFails, Decline,
      CannotAfford, Accept, ExpireOldChallenges, PollJoinable

\* The challenge layer implements the hub (handler/ws.go dials what it tells).
THEOREM ChallengesUseHub == ChallengeSpec => Spec
<1>1. ChallengeInit => Init BY DEF ChallengeInit
<1>2. ChallengeInv /\ [ChallengeNext]_allVars => ChallengeInv' BY ChallengeNextInv
<1>3. ChallengeInv /\ [ChallengeNext]_allVars => [HubNext]_hubVars BY StepUsesHub
<1> QED BY <1>1, <1>2, <1>3, ChallengeInitInv, PTL DEF ChallengeSpec, Spec

\* Hence friends who accept, poll and dial meet in the room that is mapped.
THEOREM FriendsDialTheLiveRoom == ChallengeSpec => []LiveRoomIsMapped
BY ChallengesUseHub, LiveRoomsAlwaysMapped, PTL

\* And the matches they play keep the coins balanced.
THEOREM FriendsPayOnce == ChallengeSpec => []CoinsBalance
BY ChallengesUseHub, CoinsAlwaysBalance, PTL

\* And no room is left in the hub for good, also the one an accept made and then could
\* not record.
THEOREM FriendsLeaveNoLitter == ChallengeSpec => []HubHoldsNoLitter
BY ChallengesUseHub, HubNeverLittered, PTL
=============================================================================
