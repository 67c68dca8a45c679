----------------------------- MODULE AccountsProofs -----------------------------
(***************************************************************************)
(* Accounts and Friendship for any set of people and of overlapping calls: *)
(* guesses at a code stay bounded, referrals sound, and friend lists       *)
(* symmetric, holding exactly the pairs that agreed.                       *)
(***************************************************************************)
EXTENDS Accounts, Friendship, FiniteSetTheorems, TLAPS

-----------------------------------------------------------------------------
(* Friendship                                                                *)

Swap(p) == <<p[2], p[1]>>

\* The rows of a pair, in either direction, say what `agreed` says.
RowsHaveAgreed ==
  \A p \in Pairs :
    friendship[p] = "accepted" \/ friendship[Swap(p)] = "accepted" <=> Pair(p[1], p[2]) \in agreed

FriendInv == FriendTypeOK /\ RowsHaveAgreed

-----------------------------------------------------------------------------
LEMMA SwapIsPair ==
  ASSUME NEW p \in Pairs
  PROVE  Swap(p) \in Pairs /\ Swap(Swap(p)) = p /\ Pair(p[2], p[1]) = Pair(p[1], p[2])
BY DEF Pairs, Swap, Pair

\* Two ordered pairs of the same two people are the same one or each other's swap.
LEMMA SamePair ==
  ASSUME NEW p \in Pairs, NEW q \in Pairs, Pair(p[1], p[2]) = Pair(q[1], q[2])
  PROVE  p = q \/ p = Swap(q)
BY DEF Pairs, Swap, Pair

\* The list of one side shows the other exactly if a row of either direction is
\* accepted.
LEMMA ListIsRows ==
  ASSUME NEW p \in Pairs
  PROVE  p[2] \in GetFriendIDs(p[1]) <=>
           friendship[p] = "accepted" \/ friendship[Swap(p)] = "accepted"
<1>1. ASSUME friendship[p] = "accepted" PROVE p[2] \in GetFriendIDs(p[1])
  <2>1. p \in Accepted(p[1]) BY <1>1 DEF Accepted
  <2>2. Other(p, p[1]) = p[2] BY DEF Other
  <2> QED BY <2>1, <2>2 DEF GetFriendIDs
<1>2. ASSUME friendship[Swap(p)] = "accepted" PROVE p[2] \in GetFriendIDs(p[1])
  <2>1. Swap(p) \in Accepted(p[1]) BY <1>2, SwapIsPair DEF Accepted, Swap
  <2>2. Other(Swap(p), p[1]) = p[2] BY DEF Other, Swap, Pairs
  <2> QED BY <2>1, <2>2 DEF GetFriendIDs
<1>3. ASSUME p[2] \in GetFriendIDs(p[1])
      PROVE  friendship[p] = "accepted" \/ friendship[Swap(p)] = "accepted"
  <2>1. PICK q \in Accepted(p[1]) : Other(q, p[1]) = p[2] BY <1>3 DEF GetFriendIDs
  <2>2. q \in Pairs /\ friendship[q] = "accepted" /\ p[1] \in {q[1], q[2]} BY <2>1 DEF Accepted
  <2>3. Pair(p[1], p[2]) = Pair(q[1], q[2]) BY <2>1, <2>2 DEF Other, Pair, Pairs
  <2>4. q = p \/ q = Swap(p) BY <2>2, <2>3, SamePair
  <2> QED BY <2>2, <2>4
<1> QED BY <1>1, <1>2, <1>3

LEMMA RowsDecideLists == RowsHaveAgreed => FriendsHaveAgreed
BY ListIsRows DEF RowsHaveAgreed, FriendsHaveAgreed

-----------------------------------------------------------------------------
LEMMA FriendInitInv == FriendInit => FriendInv
BY SwapIsPair DEF FriendInit, FriendInv, FriendTypeOK, RowsHaveAgreed

\* A row that is not accepted and does not become so changes no list.
LEMMA ListsKept ==
  ASSUME RowsHaveAgreed, agreed' = agreed,
         \A p \in Pairs : friendship'[p] = "accepted" <=> friendship[p] = "accepted"
  PROVE  RowsHaveAgreed'
BY SwapIsPair DEF RowsHaveAgreed, Swap

LEMMA SendRequestKeeps ==
  ASSUME FriendInv, NEW p \in Pairs, SendRequest(p[1], p[2])
  PROVE  FriendInv'
<1>1. <<p[1], p[2]>> = p BY DEF Pairs
<1>2. FriendTypeOK' BY <1>1 DEF FriendInv, FriendTypeOK, SendRequest, InsertRequest
<1>3. agreed' = agreed BY DEF SendRequest
<1>4. \A q \in Pairs : friendship'[q] = "accepted" <=> friendship[q] = "accepted"
  BY <1>1 DEF FriendInv, FriendTypeOK, SendRequest, InsertRequest
<1> QED BY <1>2, <1>3, <1>4, ListsKept DEF FriendInv

\* An accepted request brings the pair into both; a declined one changes neither.
LEMMA RespondKeeps ==
  ASSUME FriendInv, NEW p \in Pairs, NEW action \in {"accept", "decline"},
         RespondToRequest(p[1], p[2], action)
  PROVE  FriendInv'
<1>1. <<p[1], p[2]>> = p BY DEF Pairs
<1>2. friendship[p] = "pending" BY <1>1 DEF RespondToRequest, UpdatePending
<1>3. friendship' = [friendship EXCEPT ![p] = IF action = "accept" THEN "accepted" ELSE "declined"]
  BY <1>1 DEF RespondToRequest, UpdatePending
<1>4. FriendTypeOK'
  BY <1>3 DEF FriendInv, FriendTypeOK, RespondToRequest
<1>5. CASE action = "decline"
  <2>1. agreed' = agreed BY <1>5 DEF RespondToRequest
  <2>2. \A q \in Pairs : friendship'[q] = "accepted" <=> friendship[q] = "accepted"
    BY <1>2, <1>3, <1>5 DEF FriendInv, FriendTypeOK
  <2> QED BY <1>4, <2>1, <2>2, ListsKept DEF FriendInv
<1>6. CASE action = "accept"
  <2>1. agreed' = agreed \cup {Pair(p[1], p[2])} BY <1>6 DEF RespondToRequest
  <2>2. \A q \in Pairs : friendship'[q] = "accepted" <=> q = p \/ friendship[q] = "accepted"
    BY <1>3, <1>6 DEF FriendInv, FriendTypeOK
  <2>3. SUFFICES ASSUME NEW q \in Pairs
                 PROVE friendship'[q] = "accepted" \/ friendship'[Swap(q)] = "accepted"
                         <=> Pair(q[1], q[2]) \in agreed'
    BY <1>4 DEF FriendInv, RowsHaveAgreed, Swap
  <2>4. CASE q = p \/ Swap(q) = p
    BY <2>1, <2>2, <2>4, SwapIsPair DEF Swap
  <2>5. CASE q # p /\ Swap(q) # p
    <3>1. Pair(q[1], q[2]) # Pair(p[1], p[2]) BY <2>5, SamePair, SwapIsPair
    <3>2. friendship[q] = "accepted" \/ friendship[Swap(q)] = "accepted" <=> Pair(q[1], q[2]) \in agreed
      BY DEF FriendInv, RowsHaveAgreed
    <3> QED BY <2>1, <2>2, <2>5, <3>1, <3>2, SwapIsPair
  <2> QED BY <2>4, <2>5
<1> QED BY <1>5, <1>6

\* A removal takes the rows of both directions.
LEMMA RemoveKeeps ==
  ASSUME FriendInv, NEW p \in Pairs, RemoveFriend(p[1], p[2])
  PROVE  FriendInv'
<1>1. <<p[1], p[2]>> = p /\ <<p[2], p[1]>> = Swap(p) BY DEF Pairs, Swap
<1>2. friendship' = [friendship EXCEPT ![p] = "none", ![Swap(p)] = "none"]
  BY <1>1 DEF RemoveFriend, DeletePair
<1>3. agreed' = agreed \ {Pair(p[1], p[2])} BY DEF RemoveFriend
<1>4. FriendTypeOK' BY <1>2, <1>3, SwapIsPair DEF FriendInv, FriendTypeOK, RemoveFriend
<1>5. \A q \in Pairs : friendship'[q] = "accepted" <=> q # p /\ q # Swap(p) /\ friendship[q] = "accepted"
  BY <1>2, SwapIsPair DEF FriendInv, FriendTypeOK
<1>6. SUFFICES ASSUME NEW q \in Pairs
               PROVE friendship'[q] = "accepted" \/ friendship'[Swap(q)] = "accepted"
                       <=> Pair(q[1], q[2]) \in agreed'
  BY <1>4 DEF FriendInv, RowsHaveAgreed, Swap
<1>7. CASE q = p \/ Swap(q) = p
  BY <1>3, <1>5, <1>7, SwapIsPair DEF Swap
<1>8. CASE q # p /\ Swap(q) # p
  <2>1. Pair(q[1], q[2]) # Pair(p[1], p[2]) BY <1>8, SamePair, SwapIsPair
  <2>2. friendship[q] = "accepted" \/ friendship[Swap(q)] = "accepted" <=> Pair(q[1], q[2]) \in agreed
    BY DEF FriendInv, RowsHaveAgreed
  <2>3. q # Swap(p) /\ Swap(q) # Swap(p) BY <1>8, SwapIsPair
  <2> QED BY <1>3, <1>5, <1>8, <2>1, <2>2, <2>3, SwapIsPair
<1> QED BY <1>7, <1>8

LEMMA FriendNextInv == FriendInv /\ [FriendNext]_friendVars => FriendInv'
<1> SUFFICES ASSUME FriendInv, [FriendNext]_friendVars PROVE FriendInv' OBVIOUS
<1>1. CASE UNCHANGED friendVars
  BY <1>1 DEF FriendInv, FriendTypeOK, RowsHaveAgreed, friendVars
<1>2. ASSUME NEW p \in Pairs, SendFriendRequest(p[1], p[2]) PROVE FriendInv'
  <2>1. <<p[1], p[2]>> = p BY DEF Pairs
  <2> QED BY <1>2, <2>1 DEF FriendInv, FriendTypeOK, RowsHaveAgreed, SendFriendRequest
<1>3. ASSUME NEW p \in Pairs, SendRequest(p[1], p[2]) PROVE FriendInv' BY <1>3, SendRequestKeeps
<1>4. ASSUME NEW p \in Pairs, RemoveFriend(p[1], p[2]) PROVE FriendInv' BY <1>4, RemoveKeeps
<1>5. ASSUME NEW p \in Pairs, NEW action \in {"accept", "decline"}, RespondToRequest(p[1], p[2], action)
      PROVE  FriendInv'
  BY <1>5, RespondKeeps
<1> QED BY <1>1, <1>2, <1>3, <1>4, <1>5 DEF FriendNext

\* Friends have agreed, whoever asks, answers and removes: a friend is in both lists
\* or in none, and exactly if a request of the two was accepted since the last
\* removal (service/friends.go, repository/friendship.go).
THEOREM FriendsAlwaysAgreed == FriendSpec => []FriendsHaveAgreed
<1>1. FriendInv => FriendsHaveAgreed BY RowsDecideLists DEF FriendInv
<1> QED BY <1>1, FriendInitInv, FriendNextInv, PTL DEF FriendSpec

-----------------------------------------------------------------------------
(* Accounts                                                                  *)

USE AccountsAssumption, OTPAssumption

-----------------------------------------------------------------------------
(* Types: rows, and what a call of the service has read.                     *)

UserRow  == [verified : BOOLEAN, banned : BOOLEAN, code : Int, expired : BOOLEAN, cooling : BOOLEAN,
             attempts : Nat, referral : Nat, referrer : Accounts \cup {NoAccount}]
RefCodes == {<<>>} \cup (Accounts \X Nat)
Sending  == [pc : {"rate", "store", "deliver", "clear"}, user : Accounts]
Guessing == [pc : {"wrong", "mark", "signup"}, user : Accounts, ref : RefCodes,
             read : [code : Int, attempts : Nat]]
Crediting == [pc : {"complete", "welcome", "bonus", "invited", "link", "redeemed", "inviter"},
              user : Accounts, referrer : Accounts \cup {NoAccount}]
Calls    == {Free} \cup Sending \cup Guessing \cup Crediting
RewardKinds == {"referral_reward", "daily_login"}
Reward   == [user : Accounts \cup {NoAccount}, kind : RewardKinds, ref : Accounts \cup Int, claimed : BOOLEAN]

RowTypes ==
  /\ account \in [Accounts -> UserRow] /\ authCall \in [AuthCalls -> Calls]
  /\ wrong \in [Accounts -> Nat] /\ codes \in Nat
InboxTypes == rewards \subseteq Reward /\ loginDay \in Int

LEMMA StepsAreCalls ==
  ASSUME NEW call \in Calls
  PROVE  /\ call.pc # "idle" => call.user \in Accounts
         /\ call.pc \in {"rate", "store", "deliver", "clear"} => call \in Sending
         /\ call.pc \in {"wrong", "mark", "signup"} => call \in Guessing
         /\ call.pc \in {"complete", "welcome", "bonus", "invited", "link", "redeemed", "inviter"} =>
              call \in Crediting
BY DEF Calls, Free, Sending, Guessing, Crediting

-----------------------------------------------------------------------------
(* Guesses, and who credits whom.                                             *)

\* A call to sign up with somebody's referral code holds one of another account, since
\* its own account has none yet; a referrer that a call has resolved is another account.
CreditSteps == {"complete", "welcome", "bonus", "invited", "link", "redeemed", "inviter"}
CallIsSound(call) ==
  /\ call.pc = "signup" => call.ref = <<>> \/ call.ref[1] # call.user
  /\ call.pc \in CreditSteps => call.referrer # call.user
RowIsSound(u, row) == row.referrer # u /\ (row.referral > 0 => row.verified)

\* The wrong guesses in flight that will be counted against the code of u
InFlight(u) == {c \in AuthCalls : /\ authCall[c].pc = "wrong" /\ authCall[c].user = u
                                  /\ authCall[c].read.code = account[u].code}
GuessesFit ==
  \A u \in Accounts :
    /\ wrong[u] <= account[u].attempts
    /\ account[u].code # 0 =>
         wrong[u] + Cardinality(InFlight(u)) <= OTPMaxAttempts + Cardinality(AuthCalls) - 1

CallsInv ==
  /\ RowTypes /\ GuessesFit
  /\ \A c \in AuthCalls : CallIsSound(authCall[c])
  /\ \A u \in Accounts : RowIsSound(u, account[u])

LEMMA InFlightIsFinite ==
  ASSUME NEW u PROVE /\ IsFiniteSet(InFlight(u)) /\ Cardinality(InFlight(u)) \in Nat
                     /\ Cardinality(InFlight(u)) <= Cardinality(AuthCalls) /\ Cardinality(AuthCalls) \in Nat
<1>1. InFlight(u) \subseteq AuthCalls BY DEF InFlight
<1> QED BY <1>1, FS_Subset, FS_CardinalityType

\* What most steps do: no new guess, no new code, and calls and rows stay sound.
CallsGoOn ==
  /\ authCall' \in [AuthCalls -> Calls]
  /\ \A c \in AuthCalls : authCall'[c] = authCall[c] \/ (authCall'[c].pc # "wrong" /\ CallIsSound(authCall'[c]))
RowsGoOn ==
  /\ account' \in [Accounts -> UserRow]
  /\ \A u \in Accounts : /\ RowIsSound(u, account'[u]) /\ account'[u].attempts = account[u].attempts
                         /\ account'[u].code \in {0, account[u].code}

LEMMA QuietStep ==
  ASSUME CallsInv, CallsGoOn, RowsGoOn, wrong' = wrong, codes' = codes
  PROVE  CallsInv'
<1>1. RowTypes' BY DEF CallsInv, RowTypes, CallsGoOn, RowsGoOn
<1>2. GuessesFit'
  <2> SUFFICES ASSUME NEW u \in Accounts
               PROVE  /\ wrong[u] <= account'[u].attempts
                      /\ account'[u].code # 0 =>
                           wrong[u] + Cardinality(InFlight(u)') <= OTPMaxAttempts + Cardinality(AuthCalls) - 1
    BY DEF GuessesFit
  <2>1. wrong[u] <= account'[u].attempts /\ wrong[u] \in Nat
    BY DEF CallsInv, GuessesFit, RowsGoOn, RowTypes
  <2>2. ASSUME account'[u].code # 0
        PROVE  wrong[u] + Cardinality(InFlight(u)') <= OTPMaxAttempts + Cardinality(AuthCalls) - 1
    <3>1. account'[u].code = account[u].code BY <2>2 DEF RowsGoOn
    <3>2. InFlight(u)' \subseteq InFlight(u) BY <3>1 DEF InFlight, CallsGoOn
    <3> PICK flying, fewer : flying = InFlight(u) /\ fewer = InFlight(u)' OBVIOUS
    <3>3. IsFiniteSet(flying) /\ Cardinality(flying) \in Nat /\ Cardinality(AuthCalls) \in Nat
      BY InFlightIsFinite
    <3>4. Cardinality(fewer) <= Cardinality(flying) /\ Cardinality(fewer) \in Nat
      BY <3>2, <3>3, FS_Subset, FS_CardinalityType
    <3>5. wrong[u] + Cardinality(flying) <= OTPMaxAttempts + Cardinality(AuthCalls) - 1
      BY <2>2, <3>1 DEF CallsInv, GuessesFit
    <3>6. OTPMaxAttempts \in Nat OBVIOUS
    <3>7. Cardinality(fewer) = Cardinality(InFlight(u)') OBVIOUS
    <3> HIDE DEF InFlight
    <3> QED BY <2>1, <3>3, <3>4, <3>5, <3>6, <3>7
  <2> QED BY <2>1, <2>2
<1>3. \A c \in AuthCalls : CallIsSound(authCall'[c]) BY DEF CallsInv, CallsGoOn
<1> QED BY <1>1, <1>2, <1>3 DEF CallsInv, RowsGoOn

LEMMA OneCallGoesOn ==
  ASSUME CallsInv, NEW c \in AuthCalls, NEW call \in Calls, call.pc # "wrong", CallIsSound(call),
         authCall' = [authCall EXCEPT ![c] = call]
  PROVE  CallsGoOn
BY DEF CallsInv, RowTypes, CallsGoOn

LEMMA OneRowGoesOn ==
  ASSUME CallsInv, NEW u \in Accounts, NEW row \in UserRow, RowIsSound(u, row),
         row.attempts = account[u].attempts, row.code \in {0, account[u].code},
         account' = [account EXCEPT ![u] = row]
  PROVE  RowsGoOn
BY DEF CallsInv, RowTypes, RowsGoOn

LEMMA NothingMoves ==
  ASSUME CallsInv
  PROVE  (authCall' = authCall => CallsGoOn) /\ (account' = account => RowsGoOn)
BY DEF CallsInv, RowTypes, RowsGoOn, CallsGoOn

LEMMA EndingIsQuiet ==
  ASSUME CallsInv, NEW c \in AuthCalls, EndCall(c)
  PROVE  CallsGoOn
<1>1. Free \in Calls /\ Free.pc # "wrong" /\ CallIsSound(Free)
  BY DEF Calls, Free, CallIsSound, CreditSteps
<1> QED BY <1>1, OneCallGoesOn DEF EndCall

LEMMA StepIsQuiet ==
  ASSUME CallsInv, NEW c \in AuthCalls, NEW pc, Step(c, pc),
         \/ authCall[c].pc \in {"rate", "store", "deliver", "clear"} /\ pc \in {"rate", "store", "deliver", "clear"}
         \/ authCall[c].pc \in CreditSteps /\ pc \in CreditSteps
  PROVE  CallsGoOn
<1> PICK call \in Calls : call = authCall[c] BY DEF CallsInv, RowTypes
<1> PICK next : next = [call EXCEPT !.pc = pc] OBVIOUS
<1>0. authCall' = [authCall EXCEPT ![c] = next] BY DEF Step
<1>1. CASE authCall[c].pc \in {"rate", "store", "deliver", "clear"} /\ pc \in {"rate", "store", "deliver", "clear"}
  <2>1. call \in Sending BY <1>1, StepsAreCalls
  <2>2. next \in Sending /\ next.pc = pc BY <1>1, <2>1 DEF Sending
  <2>3. next \in Calls /\ CallIsSound(next) BY <1>1, <2>2 DEF Calls, CallIsSound, CreditSteps
  <2> QED BY <1>0, <1>1, <2>2, <2>3, OneCallGoesOn
<1>2. CASE authCall[c].pc \in CreditSteps /\ pc \in CreditSteps
  <2>1. call \in Crediting /\ CallIsSound(call) BY <1>2, StepsAreCalls DEF CreditSteps, CallsInv
  <2>2. next \in Crediting /\ next.pc = pc /\ next.user = call.user /\ next.referrer = call.referrer
    BY <1>2, <2>1 DEF CreditSteps, Crediting
  <2>3. next \in Calls /\ CallIsSound(next)
    BY <1>2, <2>1, <2>2 DEF Calls, CallIsSound, CreditSteps
  <2>4. next.pc # "wrong" BY <1>2, <2>2 DEF CreditSteps
  <2> QED BY <1>0, <2>3, <2>4, OneCallGoesOn
<1> QED BY <1>1, <1>2

LEMMA WhoseCall ==
  ASSUME CallsInv, NEW c \in AuthCalls, authCall[c].pc # "idle"
  PROVE  /\ authCall[c] \in Calls /\ authCall[c].user \in Accounts
         /\ account[authCall[c].user] \in UserRow /\ CallIsSound(authCall[c])
         /\ authCall[c].pc \in {"wrong", "mark", "signup"} => authCall[c] \in Guessing
         /\ authCall[c].pc \in CreditSteps => authCall[c] \in Crediting
<1>1. authCall[c] \in Calls BY DEF CallsInv, RowTypes
<1>2. authCall[c].user \in Accounts BY <1>1, StepsAreCalls
<1>3. authCall[c].pc \in {"wrong", "mark", "signup"} => authCall[c] \in Guessing BY <1>1, StepsAreCalls
<1>4. authCall[c].pc \in CreditSteps => authCall[c] \in Crediting
  BY <1>1, StepsAreCalls DEF CreditSteps
<1> QED BY <1>1, <1>2, <1>3, <1>4 DEF CallsInv, RowTypes

-----------------------------------------------------------------------------
(* Rows                                                                       *)

LEMMA SignedUpRow ==
  ASSUME CallsInv, NEW u \in Accounts, NEW referrer \in Accounts \cup {NoAccount}, referrer # u,
         CompleteSignup(u, referrer)
  PROVE  RowsGoOn
<1> PICK r : r = account[u] OBVIOUS
<1>0. PICK none : none = 0 OBVIOUS
<1>1. r \in UserRow BY DEF CallsInv, RowTypes
<1>2. PICK m \in Nat : m = r.referral + 1 BY <1>1 DEF UserRow
<1> PICK row : row = [r EXCEPT !.verified = TRUE, !.code = none, !.expired = FALSE, !.referral = m,
                               !.referrer = referrer]
  OBVIOUS
<1>3. none \in Int BY <1>0
<1>4. row \in UserRow BY <1>1, <1>3 DEF UserRow
<1>5. row.verified = TRUE /\ row.referrer = referrer /\ row.attempts = r.attempts /\ row.code = none
  BY <1>1 DEF UserRow
<1>6. account' = [account EXCEPT ![u] = row] BY <1>0, <1>2 DEF CompleteSignup
<1>7. RowIsSound(u, row) BY <1>5 DEF RowIsSound
<1> QED BY <1>0, <1>4, <1>5, <1>6, <1>7, OneRowGoesOn

LEMMA LinkedRow ==
  ASSUME CallsInv, NEW u \in Accounts, NEW referrer \in Accounts \cup {NoAccount}, referrer # u,
         LinkReferrer(u, referrer)
  PROVE  RowsGoOn
<1> PICK r : r = account[u] OBVIOUS
<1> PICK row : row = [r EXCEPT !.referrer = referrer] OBVIOUS
<1>1. r \in UserRow /\ RowIsSound(u, r) BY DEF CallsInv, RowTypes
<1>2. row \in UserRow BY <1>1 DEF UserRow
<1>3. /\ row.referrer = referrer /\ row.attempts = r.attempts /\ row.code = r.code
      /\ row.verified = r.verified /\ row.referral = r.referral
  BY <1>1 DEF UserRow
<1>4. account' = [account EXCEPT ![u] = row] BY DEF LinkReferrer
<1>5. RowIsSound(u, row) BY <1>1, <1>3 DEF RowIsSound
<1> QED BY <1>2, <1>3, <1>4, <1>5, OneRowGoesOn

-----------------------------------------------------------------------------
(* The three steps a guess depends on                                         *)

\* A new code: nobody has guessed at it, and only those in flight still may.
LEMMA StoreOTPKeeps ==
  ASSUME CallsInv, NEW c \in AuthCalls, StoreOTP(c)
  PROVE  CallsInv'
<1> PICK u : u = authCall[c].user OBVIOUS
<1> PICK code : code = (IF SmsBypass THEN Dev ELSE codes + 1) OBVIOUS
<1> PICK r : r = account[u] OBVIOUS
<1> PICK row : row = [r EXCEPT !.code = code, !.expired = FALSE, !.cooling = TRUE, !.attempts = 0]
  OBVIOUS
<1>1. authCall[c].pc = "store" /\ u \in Accounts /\ r \in UserRow /\ RowIsSound(u, r)
  BY WhoseCall DEF StoreOTP, Doing, CallsInv
<1>2. code \in Int /\ codes + 1 \in Nat BY DEF Dev, CallsInv, RowTypes
<1>3. row \in UserRow BY <1>1, <1>2 DEF UserRow
<1>4. row.referrer = r.referrer /\ row.verified = r.verified /\ row.referral = r.referral /\ row.attempts = 0
  BY <1>1 DEF UserRow
<1>5. /\ account' = [account EXCEPT ![u] = row] /\ wrong' = [wrong EXCEPT ![u] = 0] /\ codes' = codes + 1
      /\ EndCall(c) \/ Step(c, "deliver")
  BY DEF StoreOTP, SetOTP
<1>6. CallsGoOn BY <1>1, <1>5, EndingIsQuiet, StepIsQuiet
<1>7. account'[u] = row /\ \A v \in Accounts : v # u => account'[v] = account[v] /\ wrong'[v] = wrong[v]
  BY <1>1, <1>5 DEF CallsInv, RowTypes
<1>8. RowTypes' BY <1>1, <1>2, <1>3, <1>5, <1>6 DEF CallsInv, RowTypes, CallsGoOn
<1>9. GuessesFit'
  <2> SUFFICES ASSUME NEW v \in Accounts
               PROVE  /\ wrong'[v] <= account'[v].attempts
                      /\ account'[v].code # 0 =>
                           wrong'[v] + Cardinality(InFlight(v)') <= OTPMaxAttempts + Cardinality(AuthCalls) - 1
    BY DEF GuessesFit
  <2> PICK flying, fewer : flying = InFlight(v) /\ fewer = InFlight(v)' OBVIOUS
  <2>1. fewer \subseteq AuthCalls BY DEF InFlight
  <2>2. /\ Cardinality(fewer) <= Cardinality(AuthCalls) /\ Cardinality(fewer) \in Nat
        /\ Cardinality(AuthCalls) \in Nat
    BY <2>1, FS_Subset, FS_CardinalityType
  <2>3. Cardinality(fewer) = Cardinality(InFlight(v)') OBVIOUS
  <2>4. CASE v = u
    <3>1. wrong'[v] = 0 BY <1>1, <1>5, <2>4 DEF CallsInv, RowTypes
    <3>2. account'[v].attempts = 0 BY <1>4, <1>7, <2>4
    <3>3. Cardinality(fewer) <= OTPMaxAttempts + Cardinality(AuthCalls) - 1
      <4>1. OTPMaxAttempts \in Nat /\ OTPMaxAttempts > 0 OBVIOUS
      <4> QED BY <2>2, <4>1
    <3> HIDE DEF InFlight
    <3> QED BY <2>2, <2>3, <3>1, <3>2, <3>3
  <2>5. CASE v # u
    <3>1. account'[v] = account[v] /\ wrong'[v] = wrong[v] /\ wrong[v] \in Nat
      BY <1>7, <2>5 DEF CallsInv, RowTypes
    <3>2. fewer \subseteq flying BY <1>6, <3>1 DEF InFlight, CallsGoOn
    <3>3. IsFiniteSet(flying) /\ Cardinality(flying) \in Nat BY InFlightIsFinite
    <3>4. Cardinality(fewer) <= Cardinality(flying) BY <3>2, <3>3, FS_Subset
    <3>5. /\ wrong[v] <= account[v].attempts
          /\ account[v].code # 0 =>
               wrong[v] + Cardinality(flying) <= OTPMaxAttempts + Cardinality(AuthCalls) - 1
      BY DEF CallsInv, GuessesFit
    <3> HIDE DEF InFlight
    <3> QED BY <2>2, <2>3, <3>1, <3>3, <3>4, <3>5
  <2> QED BY <2>4, <2>5
<1>10. \A d \in AuthCalls : CallIsSound(authCall'[d]) BY <1>6 DEF CallsInv, CallsGoOn
<1>11. \A v \in Accounts : RowIsSound(v, account'[v])
  <2>1. RowIsSound(u, row) BY <1>1, <1>4 DEF RowIsSound
  <2> QED BY <1>7, <2>1 DEF CallsInv
<1> QED BY <1>8, <1>9, <1>10, <1>11 DEF CallsInv

\* A guess that goes wrong has read a counter below the maximum, and the guesses
\* counted until then were no more than that.
LEMMA VerifyOTPKeeps ==
  ASSUME CallsInv, NEW c \in AuthCalls, NEW u \in Accounts, NEW guess,
         NEW ref \in {<<>>} \cup SharedCodes, VerifyOTP(c, u, guess, ref)
  PROVE  CallsInv'
<1> PICK r : r = account[u] OBVIOUS
<1> PICK pc : pc = Verdict(r, guess) OBVIOUS
<1> PICK read : read = [code |-> r.code, attempts |-> r.attempts] OBVIOUS
<1> PICK call : call = [pc |-> pc, user |-> u, ref |-> ref, read |-> read] OBVIOUS
<1>1. r \in UserRow /\ RowIsSound(u, r) /\ authCall[c].pc = "idle"
  BY DEF VerifyOTP, Doing, CallsInv, RowTypes
<1>2. pc \in {"wrong", "mark", "signup"} BY DEF VerifyOTP, Verdict, GetUserByPhone
<1>3. pc = "wrong" => r.code # 0 /\ r.attempts < OTPMaxAttempts BY <1>1 DEF Verdict, UserRow
<1>4. pc = "signup" => ~r.verified BY DEF Verdict
<1>5. authCall' = [authCall EXCEPT ![c] = call] /\ account' = account /\ wrong' = wrong /\ codes' = codes
  BY DEF VerifyOTP, GetUserByPhone
<1>6. ref \in RefCodes /\ (ref # <<>> => ref[1] \in Accounts /\ account[ref[1]].referral > 0)
  BY DEF SharedCodes, RefCodes, CallsInv, RowTypes, UserRow
<1>7. read \in [code : Int, attempts : Nat] BY <1>1 DEF UserRow
<1>8. call \in Guessing /\ call.pc = pc /\ call.user = u /\ call.ref = ref /\ call.read = read
  BY <1>2, <1>6, <1>7 DEF Guessing
<1>9. call \in Calls BY <1>8 DEF Calls
<1>10. CallIsSound(call)
  <2>1. r.referral > 0 => r.verified BY <1>1 DEF RowIsSound
  <2>2. pc \notin CreditSteps BY <1>2 DEF CreditSteps
  <2> QED BY <1>4, <1>6, <1>8, <2>1, <2>2 DEF CallIsSound
<1>11. RowsGoOn BY <1>5, NothingMoves
<1>12. CASE pc # "wrong" BY <1>5, <1>8, <1>9, <1>10, <1>11, <1>12, OneCallGoesOn, QuietStep
<1>13. CASE pc = "wrong"
  <2>1. RowTypes' BY <1>5, <1>9 DEF CallsInv, RowTypes
  <2>2. authCall'[c] = call /\ \A d \in AuthCalls : d # c => authCall'[d] = authCall[d]
    BY <1>5 DEF CallsInv, RowTypes
  <2>3. \A d \in AuthCalls : CallIsSound(authCall'[d]) BY <1>10, <2>2 DEF CallsInv
  <2>4. GuessesFit'
    <3> SUFFICES ASSUME NEW v \in Accounts
                 PROVE  /\ wrong[v] <= account[v].attempts
                        /\ account[v].code # 0 =>
                             wrong[v] + Cardinality(InFlight(v)') <= OTPMaxAttempts + Cardinality(AuthCalls) - 1
      BY <1>5 DEF GuessesFit
    <3>1. wrong[v] <= account[v].attempts /\ wrong[v] \in Nat BY DEF CallsInv, GuessesFit, RowTypes
    <3>2. CASE v = u
      <4> PICK fewer : fewer = InFlight(v)' OBVIOUS
      <4>1. fewer \subseteq AuthCalls BY DEF InFlight
      <4>2. /\ Cardinality(fewer) <= Cardinality(AuthCalls) /\ Cardinality(fewer) \in Nat
            /\ Cardinality(AuthCalls) \in Nat
        BY <4>1, FS_Subset, FS_CardinalityType
      <4>3. Cardinality(fewer) = Cardinality(InFlight(v)') OBVIOUS
      <4>4. r.attempts \in Nat BY <1>1 DEF UserRow
      <4> HIDE DEF InFlight
      <4> QED BY <1>3, <1>13, <3>1, <3>2, <4>2, <4>3, <4>4
    <3>3. CASE v # u
      <4>1. InFlight(v)' = InFlight(v) BY <1>1, <1>5, <1>8, <2>2, <3>3 DEF InFlight
      <4> QED BY <3>1, <4>1 DEF CallsInv, GuessesFit
    <3> QED BY <3>2, <3>3
  <2> QED BY <1>5, <2>1, <2>3, <2>4 DEF CallsInv
<1> QED BY <1>12, <1>13

\* A counted guess is no longer in flight.
LEMMA CountGuessKeeps ==
  ASSUME CallsInv, NEW c \in AuthCalls, CountGuess(c)
  PROVE  CallsInv'
<1> PICK u : u = authCall[c].user OBVIOUS
<1> PICK r : r = account[u] OBVIOUS
<1> PICK row : row = [r EXCEPT !.attempts = r.attempts + 1] OBVIOUS
<1> PICK n : n = (IF account[u].code = authCall[c].read.code THEN wrong[u] + 1 ELSE wrong[u]) OBVIOUS
<1>1. /\ authCall[c].pc = "wrong" /\ u \in Accounts /\ r \in UserRow /\ RowIsSound(u, r)
      /\ wrong[u] \in Nat /\ wrong[u] <= r.attempts
  BY WhoseCall DEF CountGuess, Doing, CallsInv, RowTypes, GuessesFit
<1>2. row \in UserRow BY <1>1 DEF UserRow
<1>3. /\ row.referrer = r.referrer /\ row.verified = r.verified /\ row.referral = r.referral
      /\ row.attempts = r.attempts + 1 /\ row.code = r.code
  BY <1>1 DEF UserRow
<1>4. /\ account' = [account EXCEPT ![u] = row] /\ wrong' = [wrong EXCEPT ![u] = n] /\ codes' = codes
      /\ EndCall(c)
  BY DEF CountGuess, IncrementOTPAttempts
<1>5. n \in Nat BY <1>1
<1>6. CallsGoOn BY <1>4, EndingIsQuiet
<1>7. account'[u] = row /\ wrong'[u] = n
      /\ \A v \in Accounts : v # u => account'[v] = account[v] /\ wrong'[v] = wrong[v]
  BY <1>1, <1>4 DEF CallsInv, RowTypes
<1>8. RowTypes' BY <1>1, <1>2, <1>4, <1>5, <1>6 DEF CallsInv, RowTypes, CallsGoOn
<1>9. authCall'[c].pc = "idle" BY <1>4 DEF EndCall, Free, CallsInv, RowTypes
<1>10. GuessesFit'
  <2> SUFFICES ASSUME NEW v \in Accounts
               PROVE  /\ wrong'[v] <= account'[v].attempts
                      /\ account'[v].code # 0 =>
                           wrong'[v] + Cardinality(InFlight(v)') <= OTPMaxAttempts + Cardinality(AuthCalls) - 1
    BY DEF GuessesFit
  <2> PICK flying, fewer : flying = InFlight(v) /\ fewer = InFlight(v)' OBVIOUS
  <2>1. account'[v].code = account[v].code BY <1>3, <1>7
  <2>2. fewer \subseteq flying BY <1>6, <2>1 DEF InFlight, CallsGoOn
  <2>3. IsFiniteSet(flying) /\ Cardinality(flying) \in Nat /\ Cardinality(AuthCalls) \in Nat
    BY InFlightIsFinite
  <2>4. Cardinality(fewer) <= Cardinality(flying) /\ Cardinality(fewer) \in Nat
    BY <2>2, <2>3, FS_Subset, FS_CardinalityType
  <2>5. Cardinality(fewer) = Cardinality(InFlight(v)') OBVIOUS
  <2>6. /\ wrong[v] <= account[v].attempts /\ wrong[v] \in Nat
        /\ account[v].code # 0 =>
             wrong[v] + Cardinality(flying) <= OTPMaxAttempts + Cardinality(AuthCalls) - 1
    BY DEF CallsInv, GuessesFit, RowTypes
  <2>7. CASE v # u
    <3> HIDE DEF InFlight
    <3> QED BY <1>7, <2>1, <2>3, <2>4, <2>5, <2>6, <2>7
  <2>8. CASE v = u /\ n = wrong[u]
    <3>1. r.attempts \in Nat BY <1>1 DEF UserRow
    <3>2. account'[v].attempts = account[v].attempts + 1 /\ wrong'[v] = wrong[v] BY <1>3, <1>7, <2>8
    <3>3. account[v].attempts \in Nat BY <2>8, <3>1
    <3> HIDE DEF InFlight
    <3> QED BY <2>1, <2>3, <2>4, <2>5, <2>6, <3>2, <3>3
  <2>9. CASE v = u /\ n # wrong[u]
    <3>1. n = wrong[u] + 1 /\ c \in flying BY <1>1, <2>9 DEF InFlight
    <3>2. c \notin fewer BY <1>9 DEF InFlight
    <3>3. fewer \subseteq flying \ {c} BY <2>2, <3>2
    <3>4. Cardinality(flying \ {c}) = Cardinality(flying) - 1 /\ IsFiniteSet(flying \ {c})
      BY <2>3, <3>1, FS_RemoveElement
    <3>5. Cardinality(fewer) <= Cardinality(flying) - 1 BY <3>3, <3>4, FS_Subset
    <3>6. account[v].attempts \in Nat BY <1>1, <2>9 DEF UserRow
    <3>7. account'[v].attempts = account[v].attempts + 1 /\ wrong'[v] = wrong[v] + 1
      BY <1>3, <1>7, <2>9, <3>1
    <3> HIDE DEF InFlight
    <3> QED BY <2>1, <2>3, <2>4, <2>5, <2>6, <3>5, <3>6, <3>7
  <2> QED BY <2>7, <2>8, <2>9
<1>11. \A d \in AuthCalls : CallIsSound(authCall'[d]) BY <1>6 DEF CallsInv, CallsGoOn
<1>12. \A v \in Accounts : RowIsSound(v, account'[v])
  <2>1. RowIsSound(u, row) BY <1>1, <1>3 DEF RowIsSound
  <2> QED BY <1>7, <2>1 DEF CallsInv
<1> QED BY <1>8, <1>10, <1>11, <1>12 DEF CallsInv

-----------------------------------------------------------------------------
(* Every step, and what it leaves.                                            *)

LEMMA CallsInitInv == AccountsInit => CallsInv
<1> SUFFICES ASSUME AccountsInit PROVE CallsInv
  OBVIOUS
<1>1. \A u \in Accounts :
        /\ account[u].referrer = NoAccount /\ account[u].attempts = 0 /\ account[u].code = 0
        /\ account[u].referral > 0 => account[u].verified
        /\ account[u] \in UserRow
  <2> SUFFICES ASSUME NEW u \in Accounts
               PROVE  /\ account[u].referrer = NoAccount /\ account[u].attempts = 0 /\ account[u].code = 0
                      /\ account[u].referral > 0 => account[u].verified
                      /\ account[u] \in UserRow
    OBVIOUS
  <2>1. Bare \in UserRow /\ Bare.referrer = NoAccount /\ Bare.attempts = 0 /\ Bare.code = 0 /\ Bare.referral = 0
    <3>0. PICK none \in Nat : none = 0 OBVIOUS
    <3> PICK bare : bare = [verified |-> FALSE, banned |-> FALSE, code |-> none, expired |-> FALSE,
                            cooling |-> FALSE, attempts |-> none, referral |-> none, referrer |-> NoAccount]
      OBVIOUS
    <3>1. Bare = bare BY <3>0 DEF Bare
    <3>2. bare.referrer = NoAccount /\ bare.attempts = none /\ bare.code = none /\ bare.referral = none
      OBVIOUS
    <3>3. bare \in UserRow BY DEF UserRow
    <3> QED BY <3>0, <3>1, <3>2, <3>3
  <2>2. CASE u \in Inviters
    <3>0. PICK one \in Nat : one = 1 OBVIOUS
    <3>1. account[u] = [Bare EXCEPT !.verified = TRUE, !.referral = one] BY <2>2, <3>0 DEF AccountsInit
    <3> QED BY <2>1, <3>1 DEF UserRow
  <2>3. CASE u \notin Inviters
    <3>0. PICK none \in Nat : none = 0 OBVIOUS
    <3>1. account[u] = [Bare EXCEPT !.verified = FALSE, !.referral = none]
      <4>1. account[u] = [Bare EXCEPT !.verified = u \in Inviters, !.referral = IF u \in Inviters THEN 1 ELSE 0]
        BY DEF AccountsInit
      <4>2. (u \in Inviters) = FALSE /\ (IF u \in Inviters THEN 1 ELSE 0) = none BY <2>3, <3>0
      <4> QED BY <4>1, <4>2
    <3>2. account[u].referral = none BY <2>1, <3>1 DEF UserRow
    <3>3. account[u].referrer = NoAccount /\ account[u].attempts = 0 /\ account[u].code = 0
      BY <2>1, <3>1 DEF UserRow
    <3>4. ~(none > 0) BY <3>0
    <3>5. account[u] \in UserRow BY <2>1, <3>1 DEF UserRow
    <3> QED BY <3>2, <3>3, <3>4, <3>5
  <2> QED BY <2>2, <2>3
<1>2. account \in [Accounts -> UserRow] BY <1>1 DEF AccountsInit
<1>3. \A c \in AuthCalls : authCall[c] = Free BY DEF AccountsInit
<1>4. RowTypes BY <1>2 DEF AccountsInit, RowTypes, Calls
<1>5. GuessesFit
  <2> SUFFICES ASSUME NEW u \in Accounts PROVE wrong[u] <= account[u].attempts
    BY <1>1 DEF GuessesFit
  <2>1. wrong[u] = 0 BY DEF AccountsInit
  <2> QED BY <1>1, <2>1
<1>6. CallIsSound(Free) BY DEF CallIsSound, CreditSteps, Free
<1> QED BY <1>1, <1>3, <1>4, <1>5, <1>6 DEF CallsInv, RowIsSound

\* The steps of SendOTP and VerifyOTP, one after the other
LEMMA CodeStepsKeep ==
  ASSUME CallsInv, NEW c \in AuthCalls,
         \/ \E u \in Accounts : SendOTP(c, u)
         \/ CheckAndIncrSendRate(c) \/ DeliverOTP(c) \/ DropOTP(c) \/ SignIn(c) \/ CallFails(c)
  PROVE  CallsInv'
<1>1. ASSUME NEW u \in Accounts, SendOTP(c, u) PROVE CallsInv'
  <2> PICK call : call = [pc |-> "rate", user |-> u] OBVIOUS
  <2>1. call \in Calls /\ call.pc = "rate" /\ CallIsSound(call)
    BY DEF Calls, Sending, CallIsSound, CreditSteps
  <2>2. authCall' = [authCall EXCEPT ![c] = call] /\ UNCHANGED <<account, wrong, codes>>
    BY <1>1 DEF SendOTP
  <2> QED BY <2>1, <2>2, OneCallGoesOn, NothingMoves, QuietStep
<1>2. CASE CheckAndIncrSendRate(c)
  <2>1. authCall[c].pc = "rate" /\ UNCHANGED <<account, wrong, codes>> BY <1>2 DEF CheckAndIncrSendRate, Doing
  <2>2. EndCall(c) \/ Step(c, "store") BY <1>2 DEF CheckAndIncrSendRate
  <2>3. CallsGoOn BY <2>1, <2>2, EndingIsQuiet, StepIsQuiet
  <2> QED BY <2>1, <2>3, NothingMoves, QuietStep
<1>3. CASE DeliverOTP(c)
  <2>1. authCall[c].pc = "deliver" /\ UNCHANGED <<account, wrong, codes>> BY <1>3 DEF DeliverOTP, Doing
  <2>2. CallsGoOn BY <1>3, <2>1, EndingIsQuiet, StepIsQuiet DEF DeliverOTP
  <2> QED BY <2>1, <2>2, NothingMoves, QuietStep
<1>4. CASE DropOTP(c) \/ SignIn(c)
  <2> PICK u : u = authCall[c].user OBVIOUS
  <2>1. /\ authCall[c].pc # "idle" /\ UNCHANGED <<wrong, codes>> /\ EndCall(c)
        /\ ClearOTP(u) \/ MarkVerified(u) \/ account' = account
    BY <1>4 DEF DropOTP, SignIn, GenerateTokenPair, Doing
  <2>2. u \in Accounts /\ account[u] \in UserRow BY <2>1, WhoseCall
  <2>3. RowsGoOn
    <3>1. CASE ClearOTP(u) \/ MarkVerified(u)
      <4>0. PICK none : none = 0 OBVIOUS
      <4> PICK row, r : /\ r = account[u]
                        /\ row = [r EXCEPT !.code = none, !.expired = FALSE, !.cooling = FALSE]
                           \/ row = [r EXCEPT !.code = none, !.expired = FALSE]
                        /\ account' = [account EXCEPT ![u] = row]
        BY <3>1, <4>0 DEF ClearOTP, MarkVerified
      <4>1. none \in Int BY <4>0
      <4>2. none \in {0, account[u].code} BY <4>0
      <4>3. row \in UserRow /\ row.verified = r.verified /\ row.referral = r.referral
            /\ row.referrer = r.referrer /\ row.attempts = r.attempts /\ row.code = none
        BY <2>2, <4>1 DEF UserRow
      <4>4. RowIsSound(u, row) BY <2>2, <4>3 DEF RowIsSound, CallsInv
      <4> QED BY <2>2, <4>2, <4>3, <4>4, OneRowGoesOn
    <3> QED BY <2>1, <3>1, NothingMoves
  <2> QED BY <2>1, <2>3, EndingIsQuiet, QuietStep
<1>5. CASE CallFails(c)
  BY <1>5, EndingIsQuiet, NothingMoves, QuietStep DEF CallFails
<1> QED BY <1>1, <1>2, <1>3, <1>4, <1>5

\* Sign-up: the referrer is resolved, written, and rewarded.
LEMMA SignupStepsKeep ==
  ASSUME CallsInv, NEW c \in AuthCalls,
         \/ ResolveReferrer(c) \/ CompleteSignupWithRetry(c) \/ AwardWelcome(c) \/ AwardSignup(c)
         \/ RewardInviter(c)
  PROVE  CallsInv'
<1> PICK u : u = authCall[c].user OBVIOUS
<1>1. authCall[c].pc # "idle" /\ wrong' = wrong /\ codes' = codes
  BY DEF ResolveReferrer, CompleteSignupWithRetry, AwardWelcome, AwardSignup, RewardInviter, Doing
<1>2. u \in Accounts /\ account[u] \in UserRow /\ CallIsSound(authCall[c]) BY <1>1, WhoseCall
<1>3. CASE ResolveReferrer(c)
  <2> PICK ref : ref = authCall[c].ref OBVIOUS
  <2> PICK referrer : referrer = GetUserByReferralCode(ref) OBVIOUS
  <2> PICK call : call = [pc |-> "complete", user |-> u, referrer |-> referrer] OBVIOUS
  <2>1. authCall[c].pc = "signup" /\ authCall[c] \in Guessing
    BY <1>3, WhoseCall DEF ResolveReferrer, Doing
  <2>2. ref \in RefCodes /\ (ref = <<>> \/ ref[1] # u) BY <1>2, <2>1 DEF Guessing, CallIsSound
  <2>3. referrer \in Accounts \cup {NoAccount} /\ referrer # u
    BY <1>2, <2>2 DEF GetUserByReferralCode, RefCodes
  <2>4. call \in Calls /\ call.pc # "wrong" /\ CallIsSound(call)
    BY <1>2, <2>3 DEF Calls, Crediting, CallIsSound
  <2>5. authCall' = [authCall EXCEPT ![c] = call] /\ account' = account BY <1>3 DEF ResolveReferrer
  <2> QED BY <1>1, <2>4, <2>5, OneCallGoesOn, NothingMoves, QuietStep
<1>4. CASE CompleteSignupWithRetry(c)
  <2> PICK referrer : referrer = authCall[c].referrer OBVIOUS
  <2>1. authCall[c].pc = "complete" /\ Step(c, "welcome") /\ CompleteSignup(u, referrer)
    BY <1>4 DEF CompleteSignupWithRetry, Doing
  <2>2. authCall[c] \in Crediting BY <2>1, WhoseCall DEF CreditSteps
  <2>3. referrer \in Accounts \cup {NoAccount} /\ referrer # u
    BY <1>2, <2>1, <2>2 DEF Crediting, CallIsSound, CreditSteps
  <2>4. CallsGoOn BY <2>1, StepIsQuiet DEF CreditSteps
  <2> QED BY <1>1, <1>2, <2>1, <2>3, <2>4, SignedUpRow, QuietStep
<1>5. CASE AwardWelcome(c) \/ AwardSignup(c) \/ RewardInviter(c)
  <2>1. authCall[c].pc \in CreditSteps /\ account' = account
    BY <1>5 DEF AwardWelcome, AwardSignup, RewardInviter, Doing, CreditSteps
  <2>2. EndCall(c) \/ Step(c, "bonus") \/ Step(c, "invited")
    BY <1>5 DEF AwardWelcome, AwardSignup, RewardInviter, GenerateTokenPair
  <2>3. "bonus" \in CreditSteps /\ "invited" \in CreditSteps BY DEF CreditSteps
  <2>4. CallsGoOn BY <2>1, <2>2, <2>3, EndingIsQuiet, StepIsQuiet
  <2> QED BY <1>1, <2>1, <2>4, NothingMoves, QuietStep
<1> QED BY <1>3, <1>4, <1>5

\* Redemption: nobody redeems the code of his own.
LEMMA RedeemStepsKeep ==
  ASSUME CallsInv, NEW c \in AuthCalls,
         \/ \E u \in Accounts, ref \in SharedCodes : RedeemReferral(c, u, ref)
         \/ Link(c) \/ AwardRedeem(c) \/ RedeemedInviter(c)
  PROVE  CallsInv'
<1>1. ASSUME NEW u \in Accounts, NEW ref \in SharedCodes, RedeemReferral(c, u, ref) PROVE CallsInv'
  <2> PICK referrer : referrer = GetUserByReferralCode(ref) OBVIOUS
  <2> PICK call : call = [pc |-> "link", user |-> u, referrer |-> referrer] OBVIOUS
  <2>1. PICK v \in Accounts : ref = <<v, account[v].referral>> BY DEF SharedCodes
  <2>2. referrer = v BY <2>1 DEF GetUserByReferralCode
  <2>3. v # u BY <1>1, <2>1 DEF RedeemReferral, GetUserByID
  <2>4. call \in Calls /\ call.pc # "wrong" /\ CallIsSound(call)
    BY <2>2, <2>3 DEF Calls, Crediting, CallIsSound
  <2>5. authCall' = [authCall EXCEPT ![c] = call] /\ UNCHANGED <<account, wrong, codes>>
    BY <1>1 DEF RedeemReferral
  <2> QED BY <2>4, <2>5, OneCallGoesOn, NothingMoves, QuietStep
<1>2. CASE Link(c)
  <2> PICK u, referrer : u = authCall[c].user /\ referrer = authCall[c].referrer OBVIOUS
  <2>1. authCall[c].pc = "link" /\ Step(c, "redeemed") /\ LinkReferrer(u, referrer) /\ UNCHANGED <<wrong, codes>>
    BY <1>2 DEF Link, Doing
  <2>2. authCall[c] \in Crediting /\ CallIsSound(authCall[c]) /\ u \in Accounts
    BY <2>1, WhoseCall DEF CreditSteps
  <2>3. referrer \in Accounts \cup {NoAccount} /\ referrer # u
    BY <2>1, <2>2 DEF Crediting, CallIsSound, CreditSteps
  <2>4. CallsGoOn BY <2>1, StepIsQuiet DEF CreditSteps
  <2> QED BY <2>1, <2>2, <2>3, <2>4, LinkedRow, QuietStep
<1>3. CASE AwardRedeem(c) \/ RedeemedInviter(c)
  <2>1. authCall[c].pc \in CreditSteps /\ UNCHANGED <<account, wrong, codes>>
    BY <1>3 DEF AwardRedeem, RedeemedInviter, Doing, CreditSteps
  <2>2. EndCall(c) \/ Step(c, "inviter") BY <1>3 DEF AwardRedeem, RedeemedInviter
  <2>3. "inviter" \in CreditSteps BY DEF CreditSteps
  <2>4. CallsGoOn BY <2>1, <2>2, <2>3, EndingIsQuiet, StepIsQuiet
  <2> QED BY <2>1, <2>4, NothingMoves, QuietStep
<1> QED BY <1>1, <1>2, <1>3

\* What needs no call, or is done by the clock and the panel
LEMMA OthersKeep ==
  ASSUME CallsInv,
         \/ \E u \in Accounts :
              \/ ListRewards(u) \/ AccessExpires(u) \/ RefreshToken(u)
              \/ CooldownEnds(u) \/ CodeExpires(u) \/ SwitchBan(u)
              \/ \E w \in rewards : ClaimReward(u, w)
         \/ NextDay \/ SwitchSMS
  PROVE  CallsInv'
<1>1. UNCHANGED <<authCall, wrong, codes>>
  BY DEF ListRewards, AccessExpires, RefreshToken, CooldownEnds, CodeExpires, SwitchBan, ClaimReward,
         NextDay, SwitchSMS
<1>2. ASSUME NEW u \in Accounts, CooldownEnds(u) \/ CodeExpires(u) \/ SwitchBan(u) PROVE RowsGoOn
  <2> PICK r : r = account[u] OBVIOUS
  <2>1. r \in UserRow /\ RowIsSound(u, r) BY DEF CallsInv, RowTypes
  <2> PICK row : /\ account' = [account EXCEPT ![u] = row]
                 /\ \/ row = [r EXCEPT !.cooling = FALSE] \/ row = [r EXCEPT !.expired = TRUE]
                    \/ row = [r EXCEPT !.banned = ~r.banned]
    BY <1>2 DEF CooldownEnds, CodeExpires, SwitchBan
  <2>2. /\ row \in UserRow /\ row.verified = r.verified /\ row.referral = r.referral
        /\ row.referrer = r.referrer /\ row.attempts = r.attempts /\ row.code = r.code
    <3>1. CASE row = [r EXCEPT !.cooling = FALSE] BY <2>1, <3>1 DEF UserRow
    <3>2. CASE row = [r EXCEPT !.expired = TRUE] BY <2>1, <3>2 DEF UserRow
    <3>3. CASE row = [r EXCEPT !.banned = ~r.banned] BY <2>1, <3>3 DEF UserRow
    <3> QED BY <3>1, <3>2, <3>3
  <2>3. RowIsSound(u, row) BY <2>1, <2>2 DEF RowIsSound
  <2> QED BY <2>2, <2>3, OneRowGoesOn
<1>3. RowsGoOn
  <2>1. \/ account' = account
        \/ \E u \in Accounts : CooldownEnds(u) \/ CodeExpires(u) \/ SwitchBan(u)
    BY DEF ListRewards, AccessExpires, RefreshToken, ClaimReward, NextDay, SwitchSMS
  <2> QED BY <1>2, <2>1, NothingMoves
<1> QED BY <1>1, <1>3, NothingMoves, QuietStep

LEMMA CallsStep ==
  ASSUME CallsInv, [AccountsNext]_accountVars
  PROVE  CallsInv'
<1>1. CASE UNCHANGED accountVars BY <1>1, NothingMoves, QuietStep DEF accountVars
<1>2. ASSUME NEW c \in AuthCalls, NEW u \in Accounts, NEW guess, NEW ref \in {<<>>} \cup SharedCodes,
             VerifyOTP(c, u, guess, ref)
      PROVE  CallsInv'
  BY <1>2, VerifyOTPKeeps
<1>3. ASSUME NEW c \in AuthCalls, StoreOTP(c) PROVE CallsInv'
  BY <1>3, StoreOTPKeeps
<1>4. ASSUME NEW c \in AuthCalls, CountGuess(c) PROVE CallsInv'
  BY <1>4, CountGuessKeeps
<1>5. CASE AccountsNext
  BY <1>2, <1>3, <1>4, <1>5, CodeStepsKeep, SignupStepsKeep, RedeemStepsKeep, OthersKeep DEF AccountsNext
<1> QED BY <1>1, <1>5

\* The attempts at one code are limited, whatever overlaps (service/auth.go VerifyOTP,
\* repository/user.go IncrementOTPAttempts): the calls in flight, which have read the
\* counter already, can each add one guess to the configured maximum, and no more.
THEOREM GuessesAlwaysBounded == AccountsSpec => []GuessesAreBounded
<1>1. CallsInv => GuessesAreBounded
  <2> SUFFICES ASSUME CallsInv, NEW u \in Accounts, account[u].code # 0
               PROVE  wrong[u] <= OTPMaxAttempts + Cardinality(AuthCalls) - 1
    BY DEF GuessesAreBounded
  <2> PICK flying : flying = Cardinality(InFlight(u)) OBVIOUS
  <2>1. flying \in Nat /\ Cardinality(AuthCalls) \in Nat BY InFlightIsFinite
  <2>2. wrong[u] + flying <= OTPMaxAttempts + Cardinality(AuthCalls) - 1 /\ wrong[u] \in Nat
    BY DEF CallsInv, GuessesFit, RowTypes
  <2>3. OTPMaxAttempts \in Nat OBVIOUS
  <2> QED BY <2>1, <2>2, <2>3
<1> QED BY <1>1, CallsInitInv, CallsStep, PTL DEF AccountsSpec

-----------------------------------------------------------------------------
(* The inbox                                                                  *)

InboxInv == InboxTypes /\ InviterIsPaidOnce

LEMMA CreatedOnce ==
  ASSUME InboxInv, NEW u \in Accounts \cup {NoAccount}, NEW kind \in RewardKinds, NEW ref \in Accounts \cup Int,
         CreateReward(u, kind, ref), loginDay' = loginDay
  PROVE  InboxInv'
<1> PICK made : made = [user |-> u, kind |-> kind, ref |-> ref, claimed |-> FALSE] OBVIOUS
<1>1. made \in Reward /\ made.user = u /\ made.kind = kind /\ made.ref = ref BY DEF Reward
<1>2. CASE \E w \in rewards : w.user = u /\ w.kind = kind /\ w.ref = ref
  BY <1>2 DEF CreateReward, InboxInv, InboxTypes, InviterIsPaidOnce
<1>3. CASE ~\E w \in rewards : w.user = u /\ w.kind = kind /\ w.ref = ref
  <2>1. rewards' = rewards \cup {made} BY <1>3 DEF CreateReward
  <2>2. InboxTypes' BY <1>1, <2>1 DEF InboxInv, InboxTypes
  <2>3. InviterIsPaidOnce'
    <3> SUFFICES ASSUME NEW v \in rewards', NEW w \in rewards',
                        v.user = w.user, v.kind = w.kind, v.ref = w.ref
                 PROVE  v = w
      BY DEF InviterIsPaidOnce
    <3>1. v \in rewards /\ w \in rewards => v = w BY DEF InboxInv, InviterIsPaidOnce
    <3>2. v \in rewards \/ v = made BY <2>1
    <3>3. w \in rewards \/ w = made BY <2>1
    <3> QED BY <1>1, <1>3, <3>1, <3>2, <3>3
  <2> QED BY <2>2, <2>3 DEF InboxInv
<1> QED BY <1>2, <1>3

LEMMA ClaimedInPlace ==
  ASSUME InboxInv, NEW u \in Accounts, NEW w \in rewards, ClaimReward(u, w)
  PROVE  InboxInv'
<1> PICK claimed : claimed = [w EXCEPT !.claimed = TRUE] OBVIOUS
<1>1. w \in Reward BY DEF InboxInv, InboxTypes
<1>2. claimed \in Reward /\ claimed.user = w.user /\ claimed.kind = w.kind /\ claimed.ref = w.ref
  BY <1>1 DEF Reward
<1>3. rewards' = (rewards \ {w}) \cup {claimed} /\ loginDay' = loginDay BY DEF ClaimReward
<1>4. InboxTypes' BY <1>2, <1>3 DEF InboxInv, InboxTypes
<1>5. InviterIsPaidOnce'
  <2> SUFFICES ASSUME NEW v \in rewards', NEW x \in rewards',
                      v.user = x.user, v.kind = x.kind, v.ref = x.ref
               PROVE  v = x
    BY DEF InviterIsPaidOnce
  <2>1. \A y, z \in rewards : y.user = z.user /\ y.kind = z.kind /\ y.ref = z.ref => y = z
    BY DEF InboxInv, InviterIsPaidOnce
  <2>2. (v \in rewards /\ v # w) \/ v = claimed BY <1>3
  <2>3. (x \in rewards /\ x # w) \/ x = claimed BY <1>3
  <2> QED BY <1>2, <2>1, <2>2, <2>3
<1> QED BY <1>4, <1>5 DEF InboxInv

LEMMA InboxStep ==
  ASSUME CallsInv, InboxInv, [AccountsNext]_accountVars
  PROVE  InboxInv'
<1>1. CASE UNCHANGED <<rewards, loginDay>> BY <1>1 DEF InboxInv, InboxTypes, InviterIsPaidOnce
<1>2. ASSUME NEW c \in AuthCalls, RewardInviter(c) \/ RedeemedInviter(c) PROVE InboxInv'
  <2>1. authCall[c].pc \in {"invited", "inviter"} BY <1>2 DEF RewardInviter, RedeemedInviter, Doing
  <2>2. authCall[c] \in Crediting BY <2>1, WhoseCall DEF CreditSteps
  <2>3. authCall[c].referrer \in Accounts \cup {NoAccount} /\ authCall[c].user \in Accounts
    BY <2>2 DEF Crediting
  <2>4. CreateReward(authCall[c].referrer, "referral_reward", authCall[c].user) /\ loginDay' = loginDay
    BY <1>2 DEF RewardInviter, RedeemedInviter
  <2>5. "referral_reward" \in RewardKinds BY DEF RewardKinds
  <2> QED BY <2>3, <2>4, <2>5, CreatedOnce
<1>3. ASSUME NEW u \in Accounts, ListRewards(u) PROVE InboxInv'
  <2> PICK day \in Int : day = loginDay BY DEF InboxInv, InboxTypes
  <2>1. CreateReward(u, "daily_login", day) /\ loginDay' = loginDay BY <1>3 DEF ListRewards
  <2>2. "daily_login" \in RewardKinds /\ day \in Accounts \cup Int BY DEF RewardKinds
  <2> QED BY <2>1, <2>2, CreatedOnce
<1>4. ASSUME NEW u \in Accounts, NEW w \in rewards, ClaimReward(u, w) PROVE InboxInv'
  BY <1>4, ClaimedInPlace
<1>5. CASE NextDay BY <1>5 DEF NextDay, InboxInv, InboxTypes, InviterIsPaidOnce
<1>6. \/ UNCHANGED <<rewards, loginDay>>
      \/ \E c \in AuthCalls : RewardInviter(c) \/ RedeemedInviter(c)
      \/ \E u \in Accounts : ListRewards(u) \/ \E w \in rewards : ClaimReward(u, w)
      \/ NextDay
  BY DEF accountVars, AccountsNext, SendOTP, VerifyOTP, RedeemReferral, CheckAndIncrSendRate, StoreOTP,
         DeliverOTP, DropOTP, CountGuess, SignIn, ResolveReferrer, CompleteSignupWithRetry, AwardWelcome,
         AwardSignup, Link, AwardRedeem, CallFails, AccessExpires, RefreshToken, CooldownEnds,
         CodeExpires, SwitchBan, SwitchSMS
<1> QED BY <1>1, <1>2, <1>3, <1>4, <1>5, <1>6

\* Referrals (service/auth.go resolveReferrer and RedeemReferral, service/inbox.go): nobody
\* becomes one's own referrer, by redeeming or by a verification that overlaps the
\* sign-up, and an invited account is rewarded to its inviter once.
THEOREM ReferralsAlwaysSound == AccountsSpec => []ReferralsAreSound
<1>1. AccountsInit => InboxInv
  <2>1. AccountsInit => rewards = {} /\ loginDay = 1 BY DEF AccountsInit
  <2> QED BY <2>1 DEF InboxInv, InboxTypes, InviterIsPaidOnce
<1>2. CallsInv /\ InboxInv => ReferralsAreSound
  BY DEF CallsInv, RowIsSound, InboxInv, ReferralsAreSound, NoSelfReferral
<1> QED BY <1>1, <1>2, CallsInitInv, CallsStep, InboxStep, PTL DEF AccountsSpec
=============================================================================
