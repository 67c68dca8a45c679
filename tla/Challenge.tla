------------------------------ MODULE Challenge ------------------------------
(***************************************************************************)
(* Friend challenges: backend/internal/service/challenge.go with its       *)
(* repository, handler/challenge.go and the expiry job of the scheduler,   *)
(* on top of the hub of rooms (module Hub).                                *)
(*                                                                         *)
(* A row goes from pending to accepted, declined or expired by one UPDATE  *)
(* guarded by status = 'pending'.  Everything a handler reads or creates   *)
(* before that UPDATE (the row, the coins, the private room) may be stale  *)
(* or superfluous by the time it runs: two answers, the expiry job, a      *)
(* restart and the room's own 120 s timer interleave with it.  A player    *)
(* dials a room only when told its id: the friend by the answer to accept, *)
(* the challenger by polling GetJoinableChallenges.                        *)
(***************************************************************************)
EXTENDS Hub

CONSTANTS
  Challenges,  \* challenge ids
  Challenger,  \* [Challenges -> Users]
  Challenged,  \* [Challenges -> Users]
  Requests,    \* RespondToChallenge calls that may be in flight
  NoRoom       \* a NULL room_id

ASSUME FriendsAssumption == /\ Challenger \in [Challenges -> Users]
                            /\ Challenged \in [Challenges -> Users]
                            /\ \A c \in Challenges : Challenger[c] # Challenged[c]
ASSUME NoRoomAssumption  == NoRoom \notin RoomIds

VARIABLES
  status,  \* [Challenges -> status of the row, "none" before CreateChallenge]
  roomOf,  \* [Challenges -> room_id]
  overdue, \* challenges with expires_at <= now()
  request, \* [Requests -> step, challenge and room of the call]
  told     \* [Users -> ids of the rooms the user's app was told of]

challengeVars == <<status, roomOf, overdue, request, told>>
allVars == <<hubVars, challengeVars>>

Idle == [at |-> "idle"]

ChallengeInit ==
  /\ Init
  /\ status = [c \in Challenges |-> "none"]
  /\ roomOf = [c \in Challenges |-> NoRoom]
  /\ overdue = {}
  /\ request = [p \in Requests |-> Idle]
  /\ told = [u \in Users |-> {}]

\* CreateChallenge, once friendship and coins are checked
CreateChallenge(c) ==
  /\ status[c] = "none"
  /\ status' = [status EXCEPT ![c] = "pending"]
  /\ UNCHANGED <<hubVars, roomOf, overdue, request, told>>

\* 24 hours have passed.
PassDeadline(c) ==
  /\ status[c] # "none" /\ c \notin overdue
  /\ overdue' = overdue \cup {c}
  /\ UNCHANGED <<hubVars, status, roomOf, request, told>>

\* RespondToChallenge up to its first write: the row was pending when read.  An
\* overdue row still is, until the job has run.  (Coins are enough.)
ReadChallenge(p, c, answer) ==
  /\ request[p] = Idle /\ status[c] = "pending"
  /\ request' = [request EXCEPT ![p] = [at |-> answer, ch |-> c]]
  /\ UNCHANGED <<hubVars, status, roomOf, overdue, told>>

\* Mutant: the UPDATE without its guard.
Mut_UpdateRow(c, s, i) ==
  /\ status' = [status EXCEPT ![c] = s]
  /\ roomOf' = [roomOf EXCEPT ![c] = IF i = NoRoom THEN @ ELSE i]

\* ChallengeRepository.RespondToChallenge touches one row.
UpdateRow(c, s, i) ==
  /\ status[c] = "pending"
  /\ status' = [status EXCEPT ![c] = s]
  /\ roomOf' = [roomOf EXCEPT ![c] = IF i = NoRoom THEN @ ELSE i]

\* The UPDATE touches no row, or fails: the caller gets an error.
RespondFails(p) ==
  /\ request[p].at \in {"decline", "roomed"}
  /\ request' = [request EXCEPT ![p] = Idle]
  /\ UNCHANGED <<hubVars, status, roomOf, overdue, told>>

Decline(p) ==
  /\ request[p].at = "decline"
  /\ UpdateRow(request[p].ch, "declined", NoRoom)
  /\ request' = [request EXCEPT ![p] = Idle]
  /\ UNCHANGED <<hubVars, overdue, told>>

\* Accept creates the private room first ...
CreateRoom(p) ==
  /\ request[p].at = "accept"
  /\ \E i \in RoomIds :
       /\ MakeRoom(i)
       /\ request' = [request EXCEPT
            ![p] = [at |-> "roomed", ch |-> request[p].ch, room |-> i]]
  /\ UNCHANGED <<status, roomOf, overdue, told>>

\* ... or refuses, when a player cannot pay ...
CannotAfford(p) ==
  /\ request[p].at = "accept"
  /\ request' = [request EXCEPT ![p] = Idle]
  /\ UNCHANGED <<hubVars, status, roomOf, overdue, told>>

\* ... then records its id, and answers with it.
Accept(p) ==
  /\ request[p].at = "roomed"
  /\ UpdateRow(request[p].ch, "accepted", request[p].room)
  /\ told' = [told EXCEPT ![Challenged[request[p].ch]] = @ \cup {request[p].room}]
  /\ request' = [request EXCEPT ![p] = Idle]
  /\ UNCHANGED <<hubVars, overdue>>

\* The rows the UPDATE of the repository touches
ExpiredRows == {c \in overdue : status[c] = "pending"}

\* ExpireOldChallenges, every 5 minutes
ExpireOldChallenges ==
  /\ ExpiredRows # {}
  /\ status' = [c \in Challenges |-> IF c \in ExpiredRows THEN "expired" ELSE status[c]]
  /\ UNCHANGED <<hubVars, roomOf, overdue, request, told>>

\* Room.AwaitingPlayer of the room of this id
AwaitingPlayer(i, u) ==
  /\ hub[i] # 0
  /\ rooms[hub[i]].state = "waiting" /\ u \notin rooms[hub[i]].seats

\* GetAcceptedByChallenger, filtered by GetJoinableChallenges
JoinableChallenges(u) ==
  {c \in Challenges : /\ Challenger[c] = u
                      /\ status[c] = "accepted" /\ c \notin overdue
                      /\ AwaitingPlayer(roomOf[c], u)}

\* The challenger's app polls and gets the rooms.
PollJoinable(u) ==
  /\ JoinableChallenges(u) # {}
  /\ told' = [told EXCEPT ![u] = @ \cup {roomOf[c] : c \in JoinableChallenges(u)}]
  /\ UNCHANGED <<hubVars, status, roomOf, overdue, request>>

\* The hub's own steps; nobody dials a room without being told of it.
HubStep ==
  /\ \/ \E u \in Users : \/ \E i \in told[u] : Dial(u, i)
                         \/ UpgradeFails(u) \/ Join(u) \/ Leave(u)
     \/ \E r \in Known : RoomStep(r)
  /\ UNCHANGED challengeVars

\* The process restarts: calls in flight are gone, rows and apps remain.
RestartServer ==
  /\ Restart
  /\ request' = [p \in Requests |-> Idle]
  /\ UNCHANGED <<status, roomOf, overdue, told>>

ChallengeNext ==
  \/ \E c \in Challenges : CreateChallenge(c) \/ PassDeadline(c)
  \/ \E p \in Requests :
       \/ \E c \in Challenges, answer \in {"accept", "decline"} :
            ReadChallenge(p, c, answer)
       \/ RespondFails(p) \/ Decline(p) \/ CreateRoom(p)
       \/ CannotAfford(p) \/ Accept(p)
  \/ ExpireOldChallenges
  \/ \E u \in Users : PollJoinable(u)
  \/ HubStep
  \/ RestartServer

ChallengeSpec == ChallengeInit /\ [][ChallengeNext]_allVars

\* Rooms end as in Hub; the job runs.
FairChallengeSpec ==
  /\ ChallengeSpec
  /\ WF_allVars(ExpireOldChallenges)
  /\ \A r \in 1 .. MaxRooms : WF_hubVars(r \in Known /\ RoomStep(r))

-----------------------------------------------------------------------------
\* Type invariant; a row has a room exactly when it is accepted.
ChallengeTypeOK ==
  /\ TypeOK
  /\ status \in [Challenges -> {"none", "pending", "accepted", "declined", "expired"}]
  /\ roomOf \in [Challenges -> RoomIds \cup {NoRoom}]
  /\ \A c \in Challenges : status[c] = "accepted" <=> roomOf[c] # NoRoom
  /\ overdue \subseteq Challenges
  /\ told \in [Users -> SUBSET RoomIds]
  /\ \A p \in Requests : request[p].at \in {"idle", "accept", "decline", "roomed"}

\* Friends meet in one room: every room id an app was told of is the one of an
\* accepted challenge of that user, however many answers, declines and expiries
\* were in flight.  (A second accept must not hand out a second room.)
FriendsMeet ==
  \A u \in Users : \A i \in told[u] :
    \E c \in Challenges : /\ u \in {Challenger[c], Challenged[c]}
                          /\ status[c] = "accepted" /\ roomOf[c] = i

\* An answer is final: no late accept, decline or expiry changes a decided row.
AnswerIsFinal ==
  [][\A c \in Challenges : status[c] \in {"accepted", "declined", "expired"} =>
       status'[c] = status[c] /\ roomOf'[c] = roomOf[c]]_allVars

\* One answer wins: rows are final, and what the apps were told agrees with them.
OneAnswerWins == AnswerIsFinal /\ []FriendsMeet

\* No room stays in the hub for ever, also the one an accept made and then could
\* not record, whose id nobody was told.
RoomsLeaveTheHub == \A i \in RoomIds : hub[i] # 0 ~> hub[i] = 0

=============================================================================
