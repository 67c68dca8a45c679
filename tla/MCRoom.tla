------------------------------- MODULE MCRoom -------------------------------
(* Instances of Room for TLC: who owns which connection.                   *)
EXTENDS RoomPot, TLC

CONSTANTS alice, bob, robot, a1, a2, b1, r1

\* alice and bob, one connection each
TwoConns == a1 :> alice @@ b1 :> bob
\* alice can come back once
ThreeConns == TwoConns @@ a2 :> alice
\* alice, bob and the AI contest two seats, alice can come back once
SeatConns == ThreeConns @@ r1 :> robot

\* Bounds of room_match: one power-up in the match, at most one stale turn timer
\* asleep at a time, and a finished room is not explored further (room_seats
\* does).
StillPlaying ==
  /\ state # "finished"
  /\ Cardinality(powerupUsed) <= 1
  /\ Cardinality({t \in turnTimers : t.seq # turnSeq}) <= 1

=============================================================================
