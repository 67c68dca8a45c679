\* The map is read without the lock.
SPECIFICATION LocksSpec
CONSTANTS
  alice = alice
  bob = bob
  a1 = a1
  a2 = a2
  b1 = b1
  Owners <- TwoOwners
  Conns <- ThreeConns
  OwnerOf <- ConnOwnerOf
  NoClient = NoClient
  MaxTurns = 3
INVARIANTS GuardedByMu
CHECK_DEADLOCK FALSE
