-------------------------------- MODULE MCRooms --------------------------------
(***************************************************************************)
(* One run for what surrounds a match: the hub with friend challenges on   *)
(* top, the hub with three users and one room id, and the locks of a room. *)
(* RoomLocks shares no variable with the others, so each behaviour belongs *)
(* to the part that is chosen at the start.                                *)
(***************************************************************************)
EXTENDS Challenge, RoomLocks

CONSTANTS Parts, alice, bob, i1, c1, a1, a2, b1

\* Alice challenges Bob.
Sender   == [c \in {c1} |-> alice]
Receiver == [c \in {c1} |-> bob]
\* Alice may come back once to a room.
TwoOwners   == {alice, bob}
ThreeConns  == {a1, a2, b1}
ConnOwnerOf == [c \in ThreeConns |-> IF c = b1 THEN bob ELSE alice]

VARIABLE part
mcVars == <<allVars, lockVars, part>>

MCInit == ChallengeInit /\ LocksInit /\ part \in Parts

\* In "hub" nobody has to be told of a room, and all users share one id.
MCNext ==
  \/ part = "challenge" /\ ChallengeNext /\ UNCHANGED <<lockVars, part>>
  \/ part = "hub" /\ HubNext /\ (\A r \in DOMAIN rooms' : rooms'[r].id = i1)
       /\ UNCHANGED <<challengeVars, lockVars, part>>
  \/ part = "locks" /\ LocksNext /\ UNCHANGED <<allVars, part>>

\* The fairness of FairChallengeSpec, of Hub's FairSpec and of FairLocksSpec, in the
\* behaviours that are theirs
InHub(r, A)  == part # "locks" /\ r \in Known /\ A
InLocks(A)   == part = "locks" /\ A
MCSpec ==
  /\ MCInit /\ [][MCNext]_mcVars
  /\ WF_allVars(part = "challenge" /\ ExpireOldChallenges)
  /\ \A r \in 1 .. MaxRooms : WF_hubVars(InHub(r, RoomStep(r)))
  /\ \A k \in Turns : WF_lockVars(InLocks(TickDone(k))) /\ SF_lockVars(InLocks(UpdaterEnds(k)))
  /\ WF_lockVars(InLocks(HandlerReturns))

=============================================================================
