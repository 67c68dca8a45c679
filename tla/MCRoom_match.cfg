\* Two people, one of whom may drop and return, who use power-ups and continues.
SPECIFICATION Spec
CONSTANTS
  alice = alice
  bob = bob
  robot = robot
  a1 = a1
  a2 = a2
  b1 = b1
  r1 = r1
  Humans = {alice, bob}
  AI = robot
  NoOne = NoOne
  NoConn = NoConn
  Conn = {a1, a2, b1}
  UserOf <- ThreeConns
  PowerupTypes = {"shield", "extra_time"}
  EntryFee = 20
  LedgerFails = FALSE
  MaxWords = 2
INVARIANTS OneLiveTimer GraceMatchesAbsence TurnsAlternate
PROPERTY LossIsFair
CONSTRAINT StillPlaying
CHECK_DEADLOCK FALSE
