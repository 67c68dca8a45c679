\* Two people and the AI contest the two seats; coin operations may fail; timers are fair.
SPECIFICATION FairSpec
CONSTANTS
  alice = alice
  bob = bob
  robot = robot
  a1 = a1
  a2 = a2
  b1 = b1
  r1 = r1
  Humans = {alice, bob}
  AI = robot
  NoOne = NoOne
  NoConn = NoConn
  Conn = {a1, a2, b1, r1}
  UserOf <- SeatConns
  PowerupTypes = {}
  EntryFee = 20
  LedgerFails = TRUE
  MaxWords = 0
INVARIANTS TypeOK FeeSettled SeatsAreTaken
PROPERTIES PotSpec FinishedIsFinal RoomIsRemoved
CHECK_DEADLOCK FALSE
