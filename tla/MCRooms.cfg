\* Two answers to one challenge with a restart; three users of one room; a room's locks.
SPECIFICATION MCSpec
CONSTANTS
  Parts = {"challenge", "hub", "locks"}
  alice = alice
  bob = bob
  i1 = i1
  c1 = c1
  a1 = a1
  a2 = a2
  b1 = b1
  Users = {alice, bob, carol}
  Challenges = {c1}
  Challenger <- Sender
  Challenged <- Receiver
  Requests = {p1, p2}
  RoomIds = {i1, i2}
  NoRoom = NoRoom
  EntryFee = 20
  MaxRooms = 2
  MaxRestarts = 1
  Owners <- TwoOwners
  Conns <- ThreeConns
  OwnerOf <- ConnOwnerOf
  NoClient = NoClient
  MaxTurns = 3
INVARIANTS LiveRoomIsMapped CoinsBalance LockedSendsAreOpen
PROPERTIES OneAnswerWins RoomsLeaveTheHub MatchIsRecorded CountdownsEnd
CHECK_DEADLOCK FALSE
