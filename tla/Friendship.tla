------------------------------ MODULE Friendship ------------------------------
(***************************************************************************)
(* Friend requests (backend/internal/service/friends.go over               *)
(* repository/friendship.go and handler/friends.go).  A row of friendships *)
(* has a direction, and its key is the ordered pair: the look in both      *)
(* directions and the INSERT are two statements, so that crossing requests *)
(* leave two rows for two people, each with its own answer.                *)
(***************************************************************************)
EXTENDS FiniteSets

CONSTANT People

VARIABLES
  friendship, \* [People \X People -> "none", "pending", "accepted", "declined"], by <<requester, addressee>>
  asking,     \* ordered pairs whose SendFriendRequest is between its look and its INSERT
  agreed      \* pairs that have accepted a request since the last removal (history)

friendVars == <<friendship, asking, agreed>>
Pairs == {p \in People \X People : p[1] # p[2]}
Pair(a, b) == {a, b}

FriendInit == friendship = [p \in Pairs |-> "none"] /\ asking = {} /\ agreed = {}

-----------------------------------------------------------------------------
\* Statements

GetFriendship(a, b) == {p \in {<<a, b>>, <<b, a>>} : friendship[p] # "none"}

\* The others in the accepted rows of a, from either side
Other(p, a) == IF p[1] = a THEN p[2] ELSE p[1]
Accepted(a) == {p \in Pairs : a \in {p[1], p[2]} /\ friendship[p] = "accepted"}
GetFriendIDs(a) == {Other(p, a) : p \in Accepted(a)}
ListFriends(a) == GetFriendIDs(a)
ListPendingRequests(b) == {a \in People \ {b} : friendship[<<a, b>>] = "pending"}

\* INSERT ... ON CONFLICT (requester_id, addressee_id) DO NOTHING
InsertRequest(a, b) ==
  friendship' = [friendship EXCEPT ![<<a, b>>] = IF @ = "none" THEN "pending" ELSE @]

\* Mutant: the row is looked up the way it was requested.
Mut_DeletePair(a, b) == friendship' = [friendship EXCEPT ![<<a, b>>] = "none"]

\* DELETE, in both directions
DeletePair(a, b) == friendship' = [friendship EXCEPT ![<<a, b>>] = "none", ![<<b, a>>] = "none"]

\* UPDATE ... WHERE status = 'pending'
UpdatePending(a, b, status) ==
  friendship[<<a, b>>] = "pending" /\ friendship' = [friendship EXCEPT ![<<a, b>>] = status]

-----------------------------------------------------------------------------
\* SendFriendRequest: any row between the two refuses it, a declined one too ...
SendFriendRequest(a, b) ==
  /\ <<a, b>> \notin asking /\ GetFriendship(a, b) = {}
  /\ asking' = asking \cup {<<a, b>>} /\ UNCHANGED <<friendship, agreed>>

\* ... then the INSERT, which may fail; the notification is not awaited.
SendRequest(a, b) ==
  /\ <<a, b>> \in asking /\ asking' = asking \ {<<a, b>>}
  /\ InsertRequest(a, b) \/ UNCHANGED friendship
  /\ UNCHANGED agreed

\* RespondToFriendRequest of the addressee b; the two apps may both show the
\* other's request.
RespondToRequest(a, b, action) ==
  /\ a \in ListPendingRequests(b)
  /\ UpdatePending(a, b, IF action = "accept" THEN "accepted" ELSE "declined")
  /\ agreed' = IF action = "accept" THEN agreed \cup {Pair(a, b)} ELSE agreed
  /\ UNCHANGED asking

\* RemoveFriend asks for no status: a request goes with it as well.
RemoveFriend(a, b) ==
  /\ DeletePair(a, b)
  /\ agreed' = agreed \ {Pair(a, b)} /\ UNCHANGED asking

FriendNext ==
  \E p \in Pairs :
    \/ SendFriendRequest(p[1], p[2]) \/ SendRequest(p[1], p[2]) \/ RemoveFriend(p[1], p[2])
    \/ \E action \in {"accept", "decline"} : RespondToRequest(p[1], p[2], action)

FriendSpec == FriendInit /\ [][FriendNext]_friendVars

-----------------------------------------------------------------------------
\* Type invariant.
FriendTypeOK ==
  /\ friendship \in [Pairs -> {"none", "pending", "accepted", "declined"}]
  /\ asking \subseteq Pairs /\ agreed \subseteq {Pair(p[1], p[2]) : p \in Pairs}

\* Two people are in each other's list exactly while one has accepted the other's
\* request since they were last separated: crossing requests answered differently,
\* requests still on their way while a friend is removed, and repeated requests
\* neither make friends of strangers nor keep a friend who was removed.
FriendsHaveAgreed ==
  \A p \in Pairs : p[2] \in GetFriendIDs(p[1]) <=> Pair(p[1], p[2]) \in agreed
=============================================================================
