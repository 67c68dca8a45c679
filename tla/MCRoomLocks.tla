----------------------------- MODULE MCRoomLocks -----------------------------
(* Instances of RoomLocks for TLC.                                         *)
EXTENDS RoomLocks

CONSTANTS alice, bob, a1, a2, b1

\* Alice may come back once.
TwoOwners   == {alice, bob}
ThreeConns  == {a1, a2, b1}
ConnOwnerOf == [c \in ThreeConns |-> IF c = b1 THEN bob ELSE alice]

=============================================================================
