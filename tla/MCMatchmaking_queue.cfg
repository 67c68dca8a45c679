\* Callers wait for their answer, or hang up, cancel and see a restart.
SPECIFICATION MCSpec
CONSTANTS
  Parts = {"patient", "impatient"}
  alice = alice
  bob = bob
  carol = carol
  j1 = j1
  j2 = j2
  j3 = j3
  j4 = j4
  Users = {alice, bob, carol}
  Calls = {j1, j2, j3, j4}
  Caller <- FourCalls
  NoCall = NoCall
  FallbackTicks = 1
  SlackTicks = 1
  HangUps = TRUE
  MaxCancels = 1
  MaxRestarts = 1
INVARIANT CallersMeet
PROPERTY EverythingEnds
CHECK_DEADLOCK FALSE
