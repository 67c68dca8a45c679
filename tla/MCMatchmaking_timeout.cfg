\* A cancelled search removes the waiter of the next one.
SPECIFICATION MCSpec
CONSTANTS
  Parts = {"cancel"}
  alice = alice
  bob = bob
  carol = carol
  j1 = j1
  j2 = j2
  j3 = j3
  j4 = j4
  Users = {alice, bob}
  Calls = {j1, j2, j3}
  Caller <- ThreeCalls
  NoCall = NoCall
  FallbackTicks = 1
  SlackTicks = 1
  HangUps = FALSE
  MaxCancels = 1
  MaxRestarts = 0
INVARIANTS AnsweredInTime
CHECK_DEADLOCK FALSE
