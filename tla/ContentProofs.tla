------------------------------ MODULE ContentProofs ------------------------------
(***************************************************************************)
(* What operators publish, for any sets of players, words, devices and     *)
(* calls: the catalogue a player is served is fresh (PerksCatalog), a      *)
(* campaign's row tells what became of it (Campaign), a reported word is   *)
(* decided once, and an edit of the dictionary reaches the memory, the     *)
(* overlay and the app's copy (Dictionary, AppDictionary, MCContent).      *)
(***************************************************************************)
EXTENDS MCContent, FiniteSetTheorems, WellFoundedInduction, TLAPS

-----------------------------------------------------------------------------
(* The catalogues                                                          *)

Reading == {r \in Readers : load[r] # NotLoading}
Served  == <<copy.taunts, copy.avatars>>

\* What a read under way has seen of the tables so far is what they say now
Agrees(r) ==
  /\ load[r].pc \in {"avatars", "store"} => load[r].taunts = taunts
  /\ load[r].pc = "store" => load[r].avatars = avatars

CatalogTypes ==
  /\ copy = [loaded |-> copy.loaded, age |-> copy.age, taunts |-> copy.taunts, avatars |-> copy.avatars]
  /\ copy.loaded \in BOOLEAN /\ copy.age \in 0 .. CatalogTTL /\ unchanged \in Nat
  /\ overtaken \in BOOLEAN
  /\ load = [r \in Readers |-> load[r]]
  /\ \A r \in Readers : load[r] = NotLoading \/ load[r].pc \in {"avatars", "store"}

\* CatalogIsFresh alone is not inductive: a copy is about to be stored from a read that
\* an edit has overtaken.  Such a read is of tables that have only just changed, since
\* no tick passes under a read, and the overtaking is remembered.
CatalogInv ==
  /\ CatalogTypes
  /\ \A r \in Readers : ~Agrees(r) => unchanged = 0 /\ overtaken
  /\ Fresh /\ Served # tables => unchanged <= copy.age
  /\ copy.loaded /\ Served # tables => overtaken \/ editing # {}

-----------------------------------------------------------------------------
LEMMA NotLoadingIsIdle == NotLoading.pc = "idle"
BY DEF NotLoading

\* A step of a reader that leaves the copy alone
LEMMA ReaderKeeps ==
  ASSUME CatalogInv, NEW r \in Readers, NEW l, load' = [load EXCEPT ![r] = l],
         l = NotLoading \/ l.pc \in {"avatars", "store"},
         l.pc \in {"avatars", "store"} /\ l.taunts # taunts => unchanged = 0 /\ overtaken,
         l.pc = "store" /\ l.avatars # avatars => unchanged = 0 /\ overtaken,
         UNCHANGED <<tables, copy, editing, unchanged, overtaken>>
  PROVE  CatalogInv'
<1>1. \A q \in Readers : load'[q] = IF q = r THEN l ELSE load[q] BY DEF CatalogInv, CatalogTypes
<1>2. CatalogTypes' BY <1>1 DEF CatalogInv, CatalogTypes
<1>3. UNCHANGED <<taunts, avatars, copy, editing, unchanged, overtaken>> BY DEF tables
<1>4. \A q \in Readers : ~Agrees(q)' => unchanged = 0 /\ overtaken
  BY <1>1, <1>3 DEF CatalogInv, Agrees
<1> QED BY <1>2, <1>3, <1>4 DEF CatalogInv, Fresh, Served, tables

LEMMA StoreCopyKeeps ==
  ASSUME CatalogInv, NEW r \in Readers, StoreCopy(r)
  PROVE  CatalogInv'
<1> PICK l : l = load[r] OBVIOUS
<1>1. /\ l.pc = "store" /\ load' = [load EXCEPT ![r] = NotLoading]
      /\ copy' = [loaded |-> TRUE, age |-> 0, taunts |-> l.taunts, avatars |-> l.avatars]
      /\ UNCHANGED <<taunts, avatars, editing, unchanged>>
  BY DEF StoreCopy, tables
<1>2. copy'.loaded = TRUE /\ copy'.age = 0 /\ copy'.taunts = l.taunts /\ copy'.avatars = l.avatars
  BY <1>1
<1>3. overtaken' = (overtaken /\ (load' # [q \in Readers |-> NotLoading] \/ Served' # tables))
  BY <1>1 DEF StoreCopy, Served
<1>4. \A q \in Readers : load'[q] = IF q = r THEN NotLoading ELSE load[q]
  BY <1>1 DEF CatalogInv, CatalogTypes
<1>5. CatalogTypes'
  <2>1. CatalogTTL \in Nat BY CatalogAssumption
  <2>2. overtaken' \in BOOLEAN BY <1>3
  <2> QED BY <1>1, <1>2, <1>4, <2>1, <2>2 DEF CatalogInv, CatalogTypes
<1>6. ASSUME NEW q \in Readers, ~Agrees(q)' PROVE unchanged' = 0 /\ overtaken'
  <2>1. q # r /\ load'[q] = load[q] /\ load[q].pc \in {"avatars", "store"}
    BY <1>4, <1>6, NotLoadingIsIdle DEF Agrees
  <2>2. ~Agrees(q) BY <1>1, <1>6, <2>1 DEF Agrees
  <2>3. load' # [x \in Readers |-> NotLoading] BY <2>1, NotLoadingIsIdle
  <2> QED BY <1>1, <1>3, <2>2, <2>3 DEF CatalogInv
<1>7. Served' # tables' => ~Agrees(r)
  BY <1>1, <1>2 DEF Served, tables, Agrees
<1>8. Served' # tables' => unchanged' = 0 /\ overtaken'
  BY <1>1, <1>3, <1>7 DEF CatalogInv, tables
<1> QED BY <1>2, <1>5, <1>6, <1>8 DEF CatalogInv

\* An edit, by this service or by somebody else
LEMMA EditKeeps ==
  ASSUME CatalogInv, UNCHANGED <<copy, load>>, unchanged' = 0, overtaken' \in BOOLEAN,
         (\E r \in Readers : load[r] # NotLoading) => overtaken',
         overtaken => overtaken', overtaken' \/ editing' # {}
  PROVE  CatalogInv'
<1>1. CatalogTypes' BY DEF CatalogInv, CatalogTypes
<1>2. \A r \in Readers : ~Agrees(r)' => load[r] # NotLoading BY NotLoadingIsIdle DEF Agrees
<1>3. Fresh' => unchanged' <= copy'.age BY DEF CatalogInv, CatalogTypes
<1> QED BY <1>1, <1>2, <1>3 DEF CatalogInv

LEMMA CatalogStep == CatalogInv /\ [CatalogNext]_catalogVars => CatalogInv'
<1> SUFFICES ASSUME CatalogInv, [CatalogNext]_catalogVars PROVE CatalogInv' OBVIOUS
<1>1. CASE UNCHANGED <<tables, copy, load, editing, unchanged, overtaken>>
  BY <1>1 DEF CatalogInv, CatalogTypes, Agrees, Fresh, Served, tables
<1>2. ASSUME NEW r \in Readers, ListTaunts(r) PROVE CatalogInv'
  <2> PICK l : l = [pc |-> "avatars", taunts |-> taunts] OBVIOUS
  <2>1. load' = [load EXCEPT ![r] = l] /\ UNCHANGED <<tables, copy, editing, unchanged, overtaken>>
    BY <1>2 DEF ListTaunts
  <2> QED BY <2>1, ReaderKeeps
<1>3. ASSUME NEW r \in Readers, ListAvatars(r) PROVE CatalogInv'
  <2> PICK l : l = [pc |-> "store", taunts |-> load[r].taunts, avatars |-> avatars] OBVIOUS
  <2>1. load' = [load EXCEPT ![r] = l] /\ UNCHANGED <<tables, copy, editing, unchanged, overtaken>>
    BY <1>3 DEF ListAvatars, CatalogInv, CatalogTypes
  <2>2. l.taunts # taunts => unchanged = 0 /\ overtaken BY <1>3 DEF ListAvatars, CatalogInv, Agrees
  <2> QED BY <2>1, <2>2, ReaderKeeps
<1>4. ASSUME NEW r \in Readers, StoreCopy(r) PROVE CatalogInv' BY <1>4, StoreCopyKeeps
<1>5. ASSUME NEW r \in Readers, LoadFails(r) PROVE CatalogInv'
  <2> PICK l : l = NotLoading OBVIOUS
  <2>1. load' = [load EXCEPT ![r] = l] /\ UNCHANGED <<tables, copy, editing, unchanged, overtaken>>
    BY <1>5 DEF LoadFails
  <2> QED BY <2>1, ReaderKeeps, NotLoadingIsIdle
<1>6. ASSUME NEW e \in CatalogEditors, Edit(e) PROVE CatalogInv'
  <2>1. overtaken \in BOOLEAN BY DEF CatalogInv, CatalogTypes
  <2> QED BY <1>6, <2>1, EditKeeps DEF Edit
<1>7. CASE EditElsewhere BY <1>7, EditKeeps DEF EditElsewhere
<1>8. ASSUME NEW e \in CatalogEditors, Invalidate(e) PROVE CatalogInv'
  <2>1. copy' = [copy EXCEPT !.loaded = FALSE] /\ UNCHANGED <<tables, load, unchanged, overtaken>>
    BY <1>8 DEF Invalidate
  <2>2. copy'.loaded = FALSE /\ CatalogTypes' BY <2>1 DEF CatalogInv, CatalogTypes
  <2> QED BY <2>1, <2>2 DEF CatalogInv, Agrees, Fresh, tables
<1>9. CASE CatalogTick
  <2> PICK age : age = copy.age OBVIOUS
  <2>1. /\ \A r \in Readers : load[r] = NotLoading
        /\ copy' = [copy EXCEPT !.age = IF age < CatalogTTL THEN age + 1 ELSE age]
        /\ unchanged' = IF unchanged < CatalogTTL THEN unchanged + 1 ELSE unchanged
        /\ UNCHANGED <<taunts, avatars, load, editing, overtaken>>
    BY <1>9 DEF CatalogTick, tables
  <2>2. age \in 0 .. CatalogTTL /\ unchanged \in Nat /\ CatalogTTL \in Nat
    BY CatalogAssumption DEF CatalogInv, CatalogTypes
  <2>3. /\ copy'.loaded = copy.loaded /\ copy'.taunts = copy.taunts /\ copy'.avatars = copy.avatars
        /\ copy'.age = IF age < CatalogTTL THEN age + 1 ELSE age
    BY <2>1 DEF CatalogInv, CatalogTypes
  <2>4. CatalogTypes'
    <3>1. copy' = [loaded |-> copy'.loaded, age |-> copy'.age, taunts |-> copy'.taunts, avatars |-> copy'.avatars]
      BY <2>1 DEF CatalogInv, CatalogTypes
    <3> QED BY <2>1, <2>2, <2>3, <3>1 DEF CatalogInv, CatalogTypes
  <2>5. \A r \in Readers : Agrees(r)' BY <2>1, NotLoadingIsIdle DEF Agrees
  <2>6. Served' = Served /\ tables' = tables BY <2>1, <2>3 DEF Served, tables
  <2>7. Fresh' /\ Served' # tables' => unchanged' <= copy'.age
    BY <2>1, <2>2, <2>3, <2>6 DEF Fresh, CatalogInv
  <2>8. copy'.loaded /\ Served' # tables' => overtaken' \/ editing' # {}
    BY <2>1, <2>3, <2>6 DEF CatalogInv
  <2> QED BY <2>4, <2>5, <2>7, <2>8 DEF CatalogInv
<1>10. \/ UNCHANGED <<tables, copy, load, editing, unchanged, overtaken>>
       \/ \E r \in Readers : ListTaunts(r) \/ ListAvatars(r) \/ StoreCopy(r) \/ LoadFails(r)
       \/ \E e \in CatalogEditors : Edit(e) \/ Invalidate(e)
       \/ EditElsewhere \/ CatalogTick
  BY DEF CatalogNext, catalogVars, OpenPage, PickAvatar, SetAvatar, PremiumTurns, tables
<1> QED BY <1>1, <1>2, <1>3, <1>4, <1>5, <1>6, <1>7, <1>8, <1>9, <1>10

\* The catalogues (service/perks_catalog.go ensureLoaded and invalidate): a copy that is
\* served without a read is no older than its TTL, and exact unless a change overtook a
\* read or came from elsewhere, for any readers, editors and players.
THEOREM CatalogAlwaysFresh == CatalogSpec => []CatalogIsFresh
<1>1. CatalogInit => CatalogInv
  <2> SUFFICES ASSUME CatalogInit PROVE CatalogInv OBVIOUS
  <2>1. CatalogTTL \in Nat BY CatalogAssumption
  <2>2. CatalogTypes
    <3>1. copy = [loaded |-> FALSE, age |-> CatalogTTL, taunts |-> <<>>, avatars |-> {}]
      BY DEF CatalogInit
    <3>2. copy.loaded = FALSE /\ copy.age = CatalogTTL /\ copy.taunts = <<>> /\ copy.avatars = {}
      BY <3>1
    <3>3. copy = [loaded |-> copy.loaded, age |-> copy.age, taunts |-> copy.taunts, avatars |-> copy.avatars]
      BY <3>1
    <3>4. \A r \in Readers : load[r] = NotLoading BY DEF CatalogInit
    <3>5. load = [r \in Readers |-> load[r]] BY DEF CatalogInit
    <3>6. unchanged = 0 /\ overtaken = FALSE BY DEF CatalogInit
    <3>7. copy.loaded \in BOOLEAN /\ overtaken \in BOOLEAN BY <3>2, <3>6, Zenon
    <3>9. copy.age \in 0 .. CatalogTTL /\ unchanged \in Nat BY <2>1, <3>2, <3>6
    <3>8. \A r \in Readers : load[r] = NotLoading \/ load[r].pc \in {"avatars", "store"} BY <3>4
    <3> QED BY <3>3, <3>5, <3>7, <3>8, <3>9, Zenon DEF CatalogTypes
  <2>3. \A r \in Readers : Agrees(r) BY NotLoadingIsIdle DEF CatalogInit, Agrees
  <2>4. ~copy.loaded
    <3>1. copy = [loaded |-> FALSE, age |-> CatalogTTL, taunts |-> <<>>, avatars |-> {}]
      BY DEF CatalogInit
    <3> QED BY <3>1
  <2> QED BY <2>2, <2>3, <2>4 DEF CatalogInv, Fresh
<1>2. CatalogInv => CatalogIsFresh BY DEF CatalogInv, CatalogIsFresh, Served, GetPerks
<1> QED BY <1>1, <1>2, CatalogStep, PTL DEF CatalogSpec

-----------------------------------------------------------------------------
(* Campaigns                                                               *)

Targets == Users \X Tokens
Rows == [status : {"free", "none", "sending", "done", "failed", "interrupted"}, recipients : Nat,
         inapp : BOOLEAN, users : Nat, devices : Nat, sent : Nat, failed : Nat, removed : Nat]
Sized == [pc : {"sized", "checked"}, audience : Audiences, push : BOOLEAN, inapp : BOOLEAN]
Resolving == [pc : {"resolve"}, audience : Audiences]
Batches == [pc : {"batch"}, targets : SUBSET Targets, queue : SUBSET Targets, busy : SUBSET Targets,
            sent : Nat, gone : SUBSET Targets, expired : BOOLEAN]
Finishing == [pc : {"finish"}, status : {"done", "failed"}, users : Nat, devices : Nat, sent : Nat,
              failed : Nat, removed : Nat]

CampaignTypes ==
  /\ campaign \in [Campaigns -> Rows]
  /\ delivery \in [Campaigns -> {Off} \cup Sized \cup Resolving \cup Batches \cup Finishing]
  /\ accepted \in [Campaigns -> SUBSET Targets]
  /\ DOMAIN inbox = Campaigns \X Users
  /\ DOMAIN device = Targets /\ kept \subseteq Targets

\* A row is written once its Send is past its checks, and FCM is asked only after that.
StagesMatch(c) ==
  /\ delivery[c].pc \in {"sized", "checked"} => campaign[c].status = "free"
  /\ delivery[c].pc \in {"resolve", "batch", "finish"} => campaign[c].status # "free"
  /\ campaign[c].status = "free" \/ delivery[c].pc = "resolve" => accepted[c] = {}
  /\ campaign[c].status = "free" => ~campaign[c].inapp /\ \A u \in Users : inbox[<<c, u>>] = "none"

\* Each target is asked once at most: what FCM took and what it called dead are
\* disjoint parts of the targets that are neither queued nor with a worker.
BatchIsSound(c) ==
  LET d == delivery[c] IN
  d.pc = "batch" =>
    /\ accepted[c] \subseteq d.targets /\ d.gone \subseteq d.targets
    /\ d.queue \subseteq d.targets /\ d.busy \subseteq d.targets
    /\ accepted[c] \cap d.gone = {} /\ (accepted[c] \cup d.gone) \cap (d.queue \cup d.busy) = {}
    /\ d.queue \cap d.busy = {}
    /\ d.sent <= Cardinality(accepted[c])
    /\ \A x \in d.gone : x[2] \notin alive

FinishIsSound(c) ==
  LET d == delivery[c] IN
  d.pc = "finish" =>
    /\ d.sent + d.failed = d.devices /\ d.removed <= d.failed
    /\ d.sent <= Cardinality(accepted[c])

Received(c) == {u \in Users : inbox[<<c, u>>] # "none"}

RowIsHonest(c) ==
  LET r == campaign[c] IN
  /\ r.status = "sending" => delivery[c] # Off \/ c \in unwritten
  /\ r.status \in {"done", "failed"} => r.sent + r.failed = r.devices /\ r.removed <= r.failed
  /\ r.sent <= Cardinality(accepted[c])
  /\ r.inapp => r.recipients = Cardinality(Received(c))

CampaignIsSound(c) == StagesMatch(c) /\ BatchIsSound(c) /\ FinishIsSound(c) /\ RowIsHonest(c)
DevicesAreKept == \A x \in kept : x[2] \in alive => device[x] # "absent"

\* CampaignIsHonest is not inductive: the counts of a row are those its delivery comes
\* to, so what a delivery counts has to be bounded by what FCM answered at every step.
HonestInv ==
  /\ CampaignTypes /\ DevicesAreKept
  /\ \A c \in Campaigns : CampaignIsSound(c)

-----------------------------------------------------------------------------
LEMMA TargetsAreFinite ==
  /\ IsFiniteSet(Targets)
  /\ \A S \in SUBSET Targets : IsFiniteSet(S) /\ Cardinality(S) \in Nat
  /\ \A S \in SUBSET Users : IsFiniteSet(S) /\ Cardinality(S) \in Nat
<1>1. IsFiniteSet(Users) /\ IsFiniteSet(Tokens) BY CampaignAssumption
<1>2. IsFiniteSet(Targets) BY <1>1, FS_Product DEF Targets
<1>3. ASSUME NEW S \in SUBSET Targets PROVE IsFiniteSet(S) /\ Cardinality(S) \in Nat
  BY <1>2, FS_Subset, FS_CardinalityType
<1>4. ASSUME NEW S \in SUBSET Users PROVE IsFiniteSet(S) /\ Cardinality(S) \in Nat
  BY <1>1, FS_Subset, FS_CardinalityType
<1> QED BY <1>2, <1>3, <1>4

\* Who a campaign is for
LEMMA AudienceIsOfPlayers ==
  ASSUME NEW a
  PROVE  AudienceWhere(a) \subseteq Users /\ PushTargets(a) \subseteq Targets
BY DEF AudienceWhere, PushTargets, Targets

LEMMA OffIsIdle == Off.pc = "off"
BY DEF Off

\* What a delivery holds, by the stage it is at
LEMMA StageOf ==
  ASSUME CampaignTypes, NEW c \in Campaigns
  PROVE  /\ delivery[c].pc \in {"sized", "checked"} => delivery[c] \in Sized
         /\ delivery[c].pc = "resolve" => delivery[c] \in Resolving
         /\ delivery[c].pc = "batch" => delivery[c] \in Batches
         /\ delivery[c].pc = "finish" => delivery[c] \in Finishing
         /\ delivery[c].pc \in {"off", "sized", "checked", "resolve", "batch", "finish"}
         /\ delivery[c].pc = "off" => delivery[c] = Off
<1>1. delivery[c] \in {Off} \cup Sized \cup Resolving \cup Batches \cup Finishing BY DEF CampaignTypes
<1>2. CASE delivery[c] = Off BY <1>2, OffIsIdle
<1>3. CASE delivery[c] \in Sized BY <1>3 DEF Sized
<1>4. CASE delivery[c] \in Resolving BY <1>4 DEF Resolving
<1>5. CASE delivery[c] \in Batches BY <1>5 DEF Batches
<1>6. CASE delivery[c] \in Finishing BY <1>6 DEF Finishing
<1> QED BY <1>1, <1>2, <1>3, <1>4, <1>5, <1>6

\* A campaign that a step does not touch
LEMMA OtherCampaignKeeps ==
  ASSUME NEW c \in Campaigns, CampaignIsSound(c),
         delivery'[c] = delivery[c], campaign'[c] = campaign[c], accepted'[c] = accepted[c],
         \A u \in Users : inbox'[<<c, u>>] = inbox[<<c, u>>],
         c \in unwritten => c \in unwritten', alive' \subseteq alive
  PROVE  CampaignIsSound(c)'
<1>1. StagesMatch(c)' BY DEF CampaignIsSound, StagesMatch
<1>2. BatchIsSound(c)' BY DEF CampaignIsSound, BatchIsSound
<1>3. FinishIsSound(c)' BY DEF CampaignIsSound, FinishIsSound
<1>4. Received(c)' = Received(c) BY DEF Received
<1>5. RowIsHonest(c)' BY <1>4 DEF CampaignIsSound, RowIsHonest
<1> QED BY <1>1, <1>2, <1>3, <1>5 DEF CampaignIsSound

\* A step of one delivery, which leaves the rows and the players alone
LEMMA DeliveryKeeps ==
  ASSUME HonestInv, NEW c \in Campaigns, NEW to,
         to \in {Off} \cup Sized \cup Resolving \cup Batches \cup Finishing,
         delivery' = [delivery EXCEPT ![c] = to],
         UNCHANGED <<banned, alive, campaign, inbox, unwritten>>,
         accepted' \in [Campaigns -> SUBSET Targets],
         \A q \in Campaigns \ {c} : accepted'[q] = accepted[q],
         DOMAIN device' = Targets, kept' = kept, DevicesAreKept',
         CampaignIsSound(c)'
  PROVE  HonestInv'
<1>1. delivery' \in [Campaigns -> {Off} \cup Sized \cup Resolving \cup Batches \cup Finishing]
  BY DEF HonestInv, CampaignTypes
<1>2. CampaignTypes' BY <1>1 DEF HonestInv, CampaignTypes
<1>3. ASSUME NEW q \in Campaigns, q # c PROVE CampaignIsSound(q)'
  <2>1. delivery'[q] = delivery[q] BY <1>3 DEF HonestInv, CampaignTypes
  <2> QED BY <1>3, <2>1, OtherCampaignKeeps DEF HonestInv
<1> QED BY <1>2, <1>3 DEF HonestInv

-----------------------------------------------------------------------------
LEMMA PlayerStepKeeps == ASSUME HonestInv, PlayerStep PROVE HonestInv'
<1>1. UNCHANGED <<campaign, inbox, recent, delivery, accepted, unwritten>> BY DEF PlayerStep
<1>2. /\ alive' \subseteq alive /\ DOMAIN device' = Targets /\ kept' \subseteq Targets
      /\ DevicesAreKept'
  <2>0. DOMAIN device = Targets /\ kept \subseteq Targets /\ DevicesAreKept
    BY DEF HonestInv, CampaignTypes
  <2>1. ASSUME NEW u \in Users, NEW t \in Tokens, DeregisterToken(u, t)
        PROVE  /\ alive' \subseteq alive /\ DOMAIN device' = Targets /\ kept' \subseteq Targets
               /\ DevicesAreKept'
    BY <2>0, <2>1 DEF DeregisterToken, DevicesAreKept
  <2>2. ASSUME NEW u \in Users, NEW t \in Tokens, NEW p \in Permissions \cup {"unknown"},
               RegisterToken(u, t, p)
        PROVE  /\ alive' \subseteq alive /\ DOMAIN device' = Targets /\ kept' \subseteq Targets
               /\ DevicesAreKept'
    <3> PICK now : now = IF p = "unknown" /\ device[<<u, t>>] # "absent" THEN device[<<u, t>>] ELSE p
      OBVIOUS
    <3>1. device' = [device EXCEPT ![<<u, t>>] = now] /\ kept' = kept \cup {<<u, t>>} /\ alive' = alive
      BY <2>2 DEF RegisterToken
    <3>2. now # "absent" BY DEF Permissions
    <3>3. <<u, t>> \in Targets BY DEF Targets
    <3> QED BY <2>0, <3>1, <3>2, <3>3 DEF DevicesAreKept
  <2>3. ASSUME NEW t \in Tokens, Uninstall(t)
        PROVE  /\ alive' \subseteq alive /\ DOMAIN device' = Targets /\ kept' \subseteq Targets
               /\ DevicesAreKept'
    BY <2>0, <2>3 DEF Uninstall, DevicesAreKept
  <2>4. ASSUME NEW u \in Users, BanTurns(u)
        PROVE  /\ alive' \subseteq alive /\ DOMAIN device' = Targets /\ kept' \subseteq Targets
               /\ DevicesAreKept'
    BY <2>0, <2>4 DEF BanTurns, DevicesAreKept
  <2> QED BY <2>1, <2>2, <2>3, <2>4 DEF PlayerStep
<1>3. CampaignTypes' BY <1>1, <1>2 DEF HonestInv, CampaignTypes
<1>4. \A c \in Campaigns : CampaignIsSound(c)' BY <1>1, <1>2, OtherCampaignKeeps DEF HonestInv
<1> QED BY <1>2, <1>3, <1>4 DEF HonestInv

\* Send's checks, up to the row: no row yet
LEMMA ChecksKeep ==
  ASSUME HonestInv, NEW c \in Campaigns, NEW to, to = Off \/ to \in Sized,
         campaign[c].status = "free",
         delivery' = [delivery EXCEPT ![c] = to],
         UNCHANGED <<players, campaign, inbox, accepted, unwritten>>
  PROVE  HonestInv'
<1>1. delivery'[c] = to BY DEF HonestInv, CampaignTypes
<1>2. to.pc \in {"off", "sized", "checked"} BY OffIsIdle DEF Sized
<1>3. CampaignIsSound(c) BY DEF HonestInv
<1>4. StagesMatch(c)' BY <1>1, <1>2, <1>3 DEF CampaignIsSound, StagesMatch
<1>5. BatchIsSound(c)' /\ FinishIsSound(c)' BY <1>1, <1>2 DEF BatchIsSound, FinishIsSound
<1>6. Received(c)' = Received(c) BY DEF Received
<1>7. RowIsHonest(c)' BY <1>3, <1>6 DEF CampaignIsSound, RowIsHonest
<1>8. CampaignIsSound(c)' BY <1>4, <1>5, <1>7 DEF CampaignIsSound
<1>9. UNCHANGED <<device, kept, banned, alive>> BY DEF players
<1> QED BY <1>8, <1>9, DeliveryKeeps DEF HonestInv, CampaignTypes, DevicesAreKept

LEMMA SendKeeps ==
  ASSUME HonestInv, NEW c \in Campaigns, NEW a \in Audiences, NEW push \in BOOLEAN, NEW inapp \in BOOLEAN,
         Send(c, a, push, inapp)
  PROVE  HonestInv'
<1> PICK to : to = [pc |-> "sized", audience |-> a, push |-> push, inapp |-> inapp] OBVIOUS
<1>1. to \in Sized BY DEF Sized
<1>2. /\ campaign[c].status = "free" /\ delivery' = [delivery EXCEPT ![c] = to]
      /\ UNCHANGED <<players, campaign, inbox, accepted, unwritten>>
  BY DEF Send
<1> QED BY <1>1, <1>2, ChecksKeep

LEMMA CheckDuplicateKeeps == ASSUME HonestInv, NEW c \in Campaigns, CheckDuplicate(c) PROVE HonestInv'
<1> PICK d : d = delivery[c] OBVIOUS
<1> PICK to : to = IF \E q \in recent : Text[q] = Text[c] THEN Off ELSE [d EXCEPT !.pc = "checked"] OBVIOUS
<1>1. d \in Sized /\ campaign[c].status = "free"
  BY StageOf DEF CheckDuplicate, HonestInv, CampaignIsSound, StagesMatch
<1>2. to = Off \/ to \in Sized BY <1>1 DEF Sized
<1>3. /\ delivery' = [delivery EXCEPT ![c] = to]
      /\ UNCHANGED <<players, campaign, inbox, accepted, unwritten>>
  BY DEF CheckDuplicate, HonestInv, CampaignTypes
<1> QED BY <1>1, <1>2, <1>3, ChecksKeep

LEMMA CreateFailsKeeps == ASSUME HonestInv, NEW c \in Campaigns, CreateFails(c) PROVE HonestInv'
<1>1. campaign[c].status = "free" BY DEF CreateFails, HonestInv, CampaignIsSound, StagesMatch
<1> QED BY <1>1, ChecksKeep DEF CreateFails

LEMMA CreateCampaignKeeps == ASSUME HonestInv, NEW c \in Campaigns, CreateCampaign(c) PROVE HonestInv'
<1> PICK d : d = delivery[c] OBVIOUS
<1> PICK to : to = AudienceWhere(d.audience) OBVIOUS
<1> PICK n : n = Cardinality(to) OBVIOUS
<1> PICK next : next = IF d.push THEN [pc |-> "resolve", audience |-> d.audience] ELSE Off OBVIOUS
<1> PICK state : state = IF d.push THEN "sending" ELSE "none" OBVIOUS
<1>1. /\ d.pc = "checked"
      /\ campaign' = [campaign EXCEPT ![c].status = state, ![c].inapp = d.inapp, ![c].recipients = n]
      /\ inbox' = [x \in DOMAIN inbox |-> IF x[1] = c /\ d.inapp /\ x[2] \in to THEN "unread" ELSE inbox[x]]
      /\ delivery' = [delivery EXCEPT ![c] = next]
      /\ UNCHANGED <<device, kept, banned, alive, accepted, unwritten>>
  BY DEF CreateCampaign, players
<1>2. d \in Sized /\ campaign[c].status = "free" /\ CampaignIsSound(c)
  BY <1>1, StageOf DEF HonestInv, CampaignIsSound, StagesMatch
<1>3. to \subseteq Users /\ n \in Nat BY AudienceIsOfPlayers, TargetsAreFinite
<1>4. next \in {Off} \cup Resolving /\ (next.pc = "off" \/ next.pc = "resolve") /\ (d.push => next # Off)
  BY <1>2, OffIsIdle DEF Sized, Resolving
<1>5. campaign[c] \in Rows /\ d.inapp \in BOOLEAN /\ d.push \in BOOLEAN
  BY <1>2 DEF HonestInv, CampaignTypes, Sized
<1>6. /\ campaign'[c].status = state /\ campaign'[c].inapp = d.inapp /\ campaign'[c].recipients = n
      /\ campaign'[c].sent = campaign[c].sent /\ campaign'[c] \in Rows
  <2> PICK row : row = campaign[c] OBVIOUS
  <2>1. campaign'[c] = [row EXCEPT !.status = state, !.inapp = d.inapp, !.recipients = n]
    BY <1>1 DEF HonestInv, CampaignTypes
  <2> QED BY <1>3, <1>5, <2>1 DEF Rows
<1>7. \A q \in Campaigns \ {c} : campaign'[q] = campaign[q] /\ delivery'[q] = delivery[q]
  BY <1>1 DEF HonestInv, CampaignTypes
<1>8. CampaignTypes'
  <2>1. DOMAIN campaign' = Campaigns BY <1>1 DEF HonestInv, CampaignTypes
  <2>2. campaign' \in [Campaigns -> Rows]
    <3>1. campaign' = [q \in Campaigns |-> campaign'[q]] BY <1>1 DEF HonestInv, CampaignTypes
    <3>2. \A q \in Campaigns : campaign'[q] \in Rows BY <1>6, <1>7 DEF HonestInv, CampaignTypes
    <3> QED BY <3>1, <3>2
  <2>3. delivery' \in [Campaigns -> {Off} \cup Sized \cup Resolving \cup Batches \cup Finishing]
    BY <1>1, <1>4 DEF HonestInv, CampaignTypes
  <2>4. DOMAIN inbox' = Campaigns \X Users BY <1>1 DEF HonestInv, CampaignTypes
  <2> QED BY <1>1, <2>2, <2>3, <2>4 DEF HonestInv, CampaignTypes
<1>9. \A q \in Campaigns, u \in Users :
        inbox'[<<q, u>>] = IF q = c /\ d.inapp /\ u \in to THEN "unread" ELSE inbox[<<q, u>>]
  BY <1>1 DEF HonestInv, CampaignTypes
<1>10. delivery'[c] = next BY <1>1 DEF HonestInv, CampaignTypes
<1>11. CampaignIsSound(c)'
  <2>1. StagesMatch(c)' BY <1>1, <1>2, <1>4, <1>6, <1>10 DEF CampaignIsSound, StagesMatch
  <2>2. BatchIsSound(c)' /\ FinishIsSound(c)' BY <1>4, <1>10 DEF BatchIsSound, FinishIsSound
  <2>3. d.inapp => Received(c)' = to
    BY <1>2, <1>3, <1>9 DEF Received, CampaignIsSound, StagesMatch
  <2>4. campaign'[c].inapp => campaign'[c].recipients = Cardinality(Received(c)')
    BY <1>6, <2>3
  <2>5. state # "sending" \/ delivery'[c] # Off BY <1>4, <1>10
  <2>6. campaign'[c].sent <= Cardinality(accepted'[c])
    BY <1>1, <1>2, <1>6 DEF CampaignIsSound, RowIsHonest
  <2>7. RowIsHonest(c)' BY <1>6, <2>4, <2>5, <2>6 DEF RowIsHonest
  <2> QED BY <2>1, <2>2, <2>7 DEF CampaignIsSound
<1>12. ASSUME NEW q \in Campaigns, q # c PROVE CampaignIsSound(q)'
  <2>1. CampaignIsSound(q) BY DEF HonestInv
  <2>2. accepted'[q] = accepted[q] /\ (q \in unwritten => q \in unwritten') /\ alive' \subseteq alive
    BY <1>1
  <2>3. \A u \in Users : inbox'[<<q, u>>] = inbox[<<q, u>>] BY <1>9, <1>12
  <2>4. delivery'[q] = delivery[q] /\ campaign'[q] = campaign[q] BY <1>7, <1>12
  <2> QED BY <2>1, <2>2, <2>3, <2>4, OtherCampaignKeeps
<1>13. DevicesAreKept' BY <1>1 DEF HonestInv, DevicesAreKept
<1> QED BY <1>8, <1>11, <1>12, <1>13 DEF HonestInv

-----------------------------------------------------------------------------
LEMMA WindowEndsKeeps == ASSUME HonestInv, UNCHANGED <<players, campaign, inbox, delivery, accepted, unwritten>>
                         PROVE  HonestInv'
<1>1. UNCHANGED <<device, kept, banned, alive>> BY DEF players
<1>2. CampaignTypes' /\ DevicesAreKept' BY <1>1 DEF HonestInv, CampaignTypes, DevicesAreKept
<1>3. \A c \in Campaigns : CampaignIsSound(c)' BY <1>1, OtherCampaignKeeps DEF HonestInv
<1> QED BY <1>2, <1>3 DEF HonestInv

\* A step of a delivery under way, up to its outcome
LEMMA PushStepKeeps ==
  ASSUME HonestInv, NEW c \in Campaigns, NEW from, NEW to, DeliveryStep(c, from, to),
         from \in {"resolve", "batch"}, to \in Batches \cup Finishing,
         accepted' = accepted, kept' = kept, DOMAIN device' = Targets, DevicesAreKept',
         BatchIsSound(c)', FinishIsSound(c)'
  PROVE  HonestInv'
<1>1. /\ delivery[c].pc = from /\ delivery' = [delivery EXCEPT ![c] = to]
      /\ UNCHANGED <<banned, alive, campaign, inbox, recent, unwritten>>
  BY DEF DeliveryStep
<1>2. delivery'[c] = to BY <1>1 DEF HonestInv, CampaignTypes
<1>3. to.pc \in {"batch", "finish"} /\ to # Off BY OffIsIdle DEF Batches, Finishing
<1>4. CampaignIsSound(c) /\ campaign[c].status # "free"
  BY <1>1 DEF HonestInv, CampaignIsSound, StagesMatch
<1>5. StagesMatch(c)' BY <1>1, <1>2, <1>3, <1>4 DEF StagesMatch
<1>6. Received(c)' = Received(c) BY <1>1 DEF Received
<1>7. RowIsHonest(c)' BY <1>1, <1>2, <1>3, <1>4, <1>6 DEF CampaignIsSound, RowIsHonest
<1>8. CampaignIsSound(c)' BY <1>5, <1>7 DEF CampaignIsSound
<1> QED BY <1>1, <1>8, DeliveryKeeps DEF HonestInv, CampaignTypes

LEMMA PushTargetsFailsKeeps == ASSUME HonestInv, NEW c \in Campaigns, PushTargetsFails(c) PROVE HonestInv'
<1> PICK to : to = Outcome("failed", 0, 0, 0, 0) OBVIOUS
<1>1. DeliveryStep(c, "resolve", to) /\ UNCHANGED <<device, kept, accepted>> BY DEF PushTargetsFails
<1>2. to \in Finishing /\ to.pc = "finish" /\ to.sent = 0 /\ to.failed = 0 /\ to.devices = 0 /\ to.removed = 0
  BY DEF Outcome, Finishing
<1>3. delivery'[c] = to /\ alive' = alive BY <1>1 DEF DeliveryStep, HonestInv, CampaignTypes
<1>4. Cardinality(accepted[c]) \in Nat BY TargetsAreFinite DEF HonestInv, CampaignTypes
<1>5. BatchIsSound(c)' BY <1>2, <1>3 DEF BatchIsSound
<1>6. FinishIsSound(c)' BY <1>1, <1>2, <1>3, <1>4 DEF FinishIsSound
<1>7. DevicesAreKept' BY <1>1, <1>3 DEF HonestInv, DevicesAreKept
<1> QED BY <1>1, <1>2, <1>5, <1>6, <1>7, PushStepKeeps DEF HonestInv, CampaignTypes

LEMMA DeliverPushKeeps == ASSUME HonestInv, NEW c \in Campaigns, DeliverPush(c) PROVE HonestInv'
<1> PICK set : set = PushTargets(delivery[c].audience) OBVIOUS
<1> PICK to : to = [pc |-> "batch", targets |-> set, queue |-> set, busy |-> {}, sent |-> 0,
                    gone |-> {}, expired |-> FALSE] OBVIOUS
<1>1. DeliveryStep(c, "resolve", to) /\ UNCHANGED <<device, kept, accepted>> BY DEF DeliverPush
<1>2. set \subseteq Targets BY AudienceIsOfPlayers
<1>3. to \in Batches BY <1>2 DEF Batches
<1>4. /\ to.pc = "batch" /\ to.targets = set /\ to.queue = set /\ to.busy = {} /\ to.sent = 0
      /\ to.gone = {}
  OBVIOUS
<1>5. delivery'[c] = to /\ alive' = alive BY <1>1 DEF DeliveryStep, HonestInv, CampaignTypes
<1>6. accepted[c] = {} BY <1>1 DEF DeliveryStep, HonestInv, CampaignIsSound, StagesMatch
<1>7. BatchIsSound(c)' BY <1>1, <1>4, <1>5, <1>6, FS_EmptySet DEF BatchIsSound
<1>8. FinishIsSound(c)' BY <1>4, <1>5 DEF FinishIsSound
<1>9. DevicesAreKept' BY <1>1, <1>5 DEF HonestInv, DevicesAreKept
<1> QED BY <1>1, <1>3, <1>7, <1>8, <1>9, PushStepKeeps DEF HonestInv, CampaignTypes

LEMMA TakeJobKeeps ==
  ASSUME HonestInv, NEW c \in Campaigns, NEW x \in Targets, TakeJob(c, x) PROVE HonestInv'
<1> PICK d : d = delivery[c] OBVIOUS
<1> PICK to : to = [d EXCEPT !.queue = @ \ {x}, !.busy = @ \cup {x}] OBVIOUS
<1>1. /\ d.pc = "batch" /\ x \in d.queue /\ DeliveryStep(c, "batch", to)
      /\ UNCHANGED <<device, kept, accepted>>
  BY DEF TakeJob
<1>2. d \in Batches BY <1>1, StageOf DEF HonestInv
<1>3. /\ to \in Batches /\ to.pc = "batch" /\ to.targets = d.targets /\ to.queue = d.queue \ {x}
      /\ to.busy = d.busy \cup {x} /\ to.sent = d.sent /\ to.gone = d.gone
  BY <1>2 DEF Batches
<1>4. delivery'[c] = to /\ alive' = alive BY <1>1 DEF DeliveryStep, HonestInv, CampaignTypes
<1>5. BatchIsSound(c) BY DEF HonestInv, CampaignIsSound
<1>6. BatchIsSound(c)' BY <1>1, <1>3, <1>4, <1>5 DEF BatchIsSound
<1>7. FinishIsSound(c)' BY <1>3, <1>4 DEF FinishIsSound
<1>8. DevicesAreKept' BY <1>1, <1>4 DEF HonestInv, DevicesAreKept
<1> QED BY <1>1, <1>3, <1>6, <1>7, <1>8, PushStepKeeps DEF HonestInv, CampaignTypes

LEMMA ExpireKeeps == ASSUME HonestInv, NEW c \in Campaigns, Expire(c) PROVE HonestInv'
<1> PICK d : d = delivery[c] OBVIOUS
<1> PICK to : to = [d EXCEPT !.expired = TRUE] OBVIOUS
<1>1. d.pc = "batch" /\ DeliveryStep(c, "batch", to) /\ UNCHANGED <<device, kept, accepted>>
  BY DEF Expire
<1>2. d \in Batches BY <1>1, StageOf DEF HonestInv
<1>3. /\ to \in Batches /\ to.pc = "batch" /\ to.targets = d.targets /\ to.queue = d.queue
      /\ to.busy = d.busy /\ to.sent = d.sent /\ to.gone = d.gone
  BY <1>2 DEF Batches
<1>4. delivery'[c] = to /\ alive' = alive BY <1>1 DEF DeliveryStep, HonestInv, CampaignTypes
<1>5. BatchIsSound(c) BY DEF HonestInv, CampaignIsSound
<1>6. BatchIsSound(c)' BY <1>1, <1>3, <1>4, <1>5 DEF BatchIsSound
<1>7. FinishIsSound(c)' BY <1>3, <1>4 DEF FinishIsSound
<1>8. DevicesAreKept' BY <1>1, <1>4 DEF HonestInv, DevicesAreKept
<1> QED BY <1>1, <1>3, <1>6, <1>7, <1>8, PushStepKeeps DEF HonestInv, CampaignTypes

\* An answer: what FCM took is remembered before it is counted
LEMMA SendMessageKeeps ==
  ASSUME HonestInv, NEW c \in Campaigns, NEW x \in Targets, SendMessage(c, x) PROVE HonestInv'
<1> PICK d : d = delivery[c] OBVIOUS
<1>0. d.pc = "batch" /\ x \in d.busy /\ kept' = kept /\ device' = device BY DEF SendMessage
<1> PICK r \in FcmAnswers(x) :
      /\ DeliveryStep(c, "batch", [d EXCEPT !.busy = @ \ {x}, !.sent = IF r[2] = "ok" THEN @ + 1 ELSE @,
                                            !.gone = IF TokenGone(r[2]) THEN @ \cup {x} ELSE @])
      /\ accepted' = IF r[1] THEN [accepted EXCEPT ![c] = @ \cup {x}] ELSE accepted
  BY DEF SendMessage
<1> PICK n : n = IF r[2] = "ok" THEN d.sent + 1 ELSE d.sent OBVIOUS
<1> PICK gone : gone = IF TokenGone(r[2]) THEN d.gone \cup {x} ELSE d.gone OBVIOUS
<1> PICK took : took = IF r[1] THEN accepted[c] \cup {x} ELSE accepted[c] OBVIOUS
<1> PICK to : to = [d EXCEPT !.busy = @ \ {x}, !.sent = n, !.gone = gone] OBVIOUS
<1>1. d \in Batches BY <1>0, StageOf DEF HonestInv
<1>2. /\ r[2] = "ok" => r[1] = TRUE
      /\ r[1] \in BOOLEAN
      /\ TokenGone(r[2]) => r[1] = FALSE /\ x[2] \notin alive
  <2>1. CASE x[2] \in alive
    <3>1. r \in {<<TRUE, "ok">>, <<TRUE, "lost">>, <<FALSE, "error">>, <<FALSE, "not found">>}
      BY <2>1 DEF FcmAnswers
    <3>2. CASE r = <<TRUE, "ok">> BY <3>2 DEF TokenGone
    <3>3. CASE r = <<TRUE, "lost">> BY <3>3 DEF TokenGone
    <3>4. CASE r = <<FALSE, "error">> BY <3>4 DEF TokenGone
    <3>5. CASE r = <<FALSE, "not found">> BY <3>5 DEF TokenGone
    <3> QED BY <3>1, <3>2, <3>3, <3>4, <3>5
  <2>2. CASE x[2] \notin alive
    <3>1. r \in {<<FALSE, "unregistered">>, <<FALSE, "error">>} BY <2>2 DEF FcmAnswers
    <3>2. CASE r = <<FALSE, "unregistered">> BY <2>2, <3>2
    <3>3. CASE r = <<FALSE, "error">> BY <3>3 DEF TokenGone
    <3> QED BY <3>1, <3>2, <3>3
  <2> QED BY <2>1, <2>2
<1>3. n \in Nat /\ gone \in SUBSET Targets BY <1>1 DEF Batches
<1>4. /\ to \in Batches /\ to.pc = "batch" /\ to.targets = d.targets /\ to.queue = d.queue
      /\ to.busy = d.busy \ {x} /\ to.sent = n /\ to.gone = gone
  BY <1>1, <1>3 DEF Batches
<1>5. DeliveryStep(c, "batch", to)
  <2>1. [d EXCEPT !.busy = @ \ {x}, !.sent = IF r[2] = "ok" THEN @ + 1 ELSE @,
                  !.gone = IF TokenGone(r[2]) THEN @ \cup {x} ELSE @] = to
    BY <1>1 DEF Batches
  <2> QED BY <2>1
<1>6. /\ delivery' = [delivery EXCEPT ![c] = to]
      /\ UNCHANGED <<banned, alive, campaign, inbox, recent, unwritten>>
  BY <1>5 DEF DeliveryStep
<1>7. delivery'[c] = to BY <1>6 DEF HonestInv, CampaignTypes
<1>8. /\ accepted' \in [Campaigns -> SUBSET Targets] /\ accepted'[c] = took
      /\ \A q \in Campaigns \ {c} : accepted'[q] = accepted[q]
  <2>0. accepted \in [Campaigns -> SUBSET Targets] BY DEF HonestInv, CampaignTypes
  <2>1. CASE r[1] BY <2>0, <2>1
  <2>2. CASE ~r[1] BY <2>0, <2>2
  <2> QED BY <2>1, <2>2
<1>9. BatchIsSound(c) /\ CampaignIsSound(c) BY DEF HonestInv, CampaignIsSound
<1>10. x \notin accepted[c] /\ x \notin d.gone /\ x \notin d.queue /\ x \in d.targets
  BY <1>0, <1>9 DEF BatchIsSound
<1>11. IsFiniteSet(accepted[c]) /\ Cardinality(accepted[c]) \in Nat
  BY TargetsAreFinite DEF HonestInv, CampaignTypes
<1>12. Cardinality(took) \in Nat /\ Cardinality(accepted[c]) <= Cardinality(took) /\ n <= Cardinality(took)
  <2>1. d.sent <= Cardinality(accepted[c]) /\ d.sent \in Nat BY <1>0, <1>1, <1>9 DEF BatchIsSound, Batches
  <2>2. Cardinality(accepted[c] \cup {x}) = Cardinality(accepted[c]) + 1
    BY <1>10, <1>11, FS_AddElement
  <2>3. CASE r[1] BY <1>11, <2>1, <2>2, <2>3
  <2>4. CASE ~r[1] BY <1>2, <1>11, <2>1, <2>4
  <2> QED BY <2>3, <2>4
<1>13. BatchIsSound(c)'
  <2>1. /\ accepted[c] \subseteq d.targets /\ d.gone \subseteq d.targets
        /\ d.queue \subseteq d.targets /\ d.busy \subseteq d.targets
        /\ accepted[c] \cap d.gone = {} /\ (accepted[c] \cup d.gone) \cap (d.queue \cup d.busy) = {}
        /\ d.queue \cap d.busy = {}
        /\ \A y \in d.gone : y[2] \notin alive
    BY <1>0, <1>9 DEF BatchIsSound
  <2>2. /\ took \subseteq d.targets /\ gone \subseteq d.targets /\ took \cap gone = {}
        /\ (took \cup gone) \cap (d.queue \cup (d.busy \ {x})) = {}
        /\ d.queue \cap (d.busy \ {x}) = {} /\ d.busy \ {x} \subseteq d.targets
    BY <1>2, <1>10, <2>1
  <2>3. \A y \in gone : y[2] \notin alive BY <1>2, <2>1
  <2> QED BY <1>4, <1>6, <1>7, <1>8, <1>12, <2>1, <2>2, <2>3 DEF BatchIsSound
<1>14. FinishIsSound(c)' BY <1>4, <1>7 DEF FinishIsSound
<1>15. campaign[c].status # "free" BY <1>0, <1>9 DEF CampaignIsSound, StagesMatch
<1>16. StagesMatch(c)' BY <1>4, <1>6, <1>7, <1>15 DEF StagesMatch
<1>17. RowIsHonest(c)'
  <2>1. Received(c)' = Received(c) BY <1>6 DEF Received
  <2>2. to # Off BY <1>4, OffIsIdle
  <2>3. campaign[c].sent \in Nat BY DEF HonestInv, CampaignTypes, Rows
  <2>4. campaign[c].sent <= Cardinality(took)
    BY <1>9, <1>11, <1>12, <2>3 DEF CampaignIsSound, RowIsHonest
  <2>5. \/ campaign[c].status \in {"done", "failed"} => /\ campaign[c].sent + campaign[c].failed = campaign[c].devices
                                                       /\ campaign[c].removed <= campaign[c].failed
    BY <1>9 DEF CampaignIsSound, RowIsHonest
  <2>6. campaign[c].inapp => campaign[c].recipients = Cardinality(Received(c))
    BY <1>9 DEF CampaignIsSound, RowIsHonest
  <2> QED BY <1>6, <1>7, <1>8, <2>1, <2>2, <2>4, <2>5, <2>6 DEF RowIsHonest
<1>18. CampaignIsSound(c)' BY <1>13, <1>14, <1>16, <1>17 DEF CampaignIsSound
<1>19. DevicesAreKept' BY <1>0, <1>6 DEF HonestInv, DevicesAreKept
<1> QED BY <1>0, <1>4, <1>6, <1>8, <1>18, <1>19, DeliveryKeeps DEF HonestInv, CampaignTypes

\* The dead tokens go, and what was not attempted counts as failed.
LEMMA CloseBatchKeeps == ASSUME HonestInv, NEW c \in Campaigns, CloseBatch(c) PROVE HonestInv'
<1> PICK d : d = delivery[c] OBVIOUS
<1> PICK n : n = Cardinality(d.targets) OBVIOUS
<1> PICK state : state = IF n > 0 /\ d.sent = 0 THEN "failed" ELSE "done" OBVIOUS
<1> PICK reached : reached = Cardinality({x[1] : x \in d.targets}) OBVIOUS
<1> PICK dead : dead = {x[2] : x \in d.gone} OBVIOUS
<1>1. PICK removed \in {Cardinality(d.gone), 0} :
        /\ d.pc = "batch" /\ kept' = kept /\ accepted' = accepted
        /\ \/ device' = [x \in DOMAIN device |-> IF x[2] \in dead THEN "absent" ELSE device[x]]
           \/ device' = device
        /\ DeliveryStep(c, "batch", Outcome(state, reached, n, d.sent, removed))
  BY DEF CloseBatch
<1> PICK to : to = Outcome(state, reached, n, d.sent, removed) OBVIOUS
<1>2. d \in Batches BY <1>1, StageOf DEF HonestInv
<1>3. BatchIsSound(c) BY DEF HonestInv, CampaignIsSound
<1>4. /\ IsFiniteSet(accepted[c]) /\ IsFiniteSet(d.gone) /\ IsFiniteSet(d.targets)
      /\ Cardinality(accepted[c]) \in Nat /\ Cardinality(d.gone) \in Nat /\ n \in Nat
      /\ accepted[c] \cup d.gone \subseteq d.targets /\ accepted[c] \cap d.gone = {}
  BY <1>1, <1>2, <1>3, TargetsAreFinite DEF HonestInv, CampaignTypes, Batches, BatchIsSound
<1>5. Cardinality(accepted[c]) + Cardinality(d.gone) <= n
  <2>1. Cardinality(accepted[c] \cup d.gone) = Cardinality(accepted[c]) + Cardinality(d.gone)
    <3>1. Cardinality(accepted[c] \cup d.gone) =
            Cardinality(accepted[c]) + Cardinality(d.gone) - Cardinality(accepted[c] \cap d.gone)
      BY <1>4, FS_Union
    <3>2. Cardinality(accepted[c] \cap d.gone) = 0 BY <1>4, FS_EmptySet
    <3> QED BY <1>4, <3>1, <3>2
  <2>2. Cardinality(accepted[c] \cup d.gone) <= n BY <1>4, FS_Subset
  <2> QED BY <2>1, <2>2
<1>6. d.sent \in Nat /\ d.sent <= Cardinality(accepted[c]) BY <1>1, <1>2, <1>3 DEF BatchIsSound, Batches
<1>7. reached \in Nat
  <2>1. {x[1] : x \in d.targets} \subseteq Users BY <1>2 DEF Batches, Targets
  <2> QED BY <2>1, TargetsAreFinite
<1>8. removed \in Nat /\ removed <= n - d.sent /\ n - d.sent \in Nat BY <1>4, <1>5, <1>6
<1>9. /\ to \in Finishing /\ to.pc = "finish" /\ to.sent = d.sent /\ to.devices = n /\ to.failed = n - d.sent
      /\ to.removed = removed
  BY <1>4, <1>6, <1>7, <1>8 DEF Outcome, Finishing
<1>10. delivery'[c] = to /\ alive' = alive BY <1>1 DEF DeliveryStep, HonestInv, CampaignTypes
<1>11. BatchIsSound(c)' BY <1>9, <1>10 DEF BatchIsSound
<1>12. FinishIsSound(c)' BY <1>1, <1>4, <1>6, <1>8, <1>9, <1>10 DEF FinishIsSound
<1>13. \A t \in dead : t \notin alive BY <1>1, <1>3 DEF BatchIsSound
<1>14. DOMAIN device' = Targets /\ DevicesAreKept'
  <2>1. DOMAIN device = Targets /\ kept \subseteq Targets /\ DevicesAreKept BY DEF HonestInv, CampaignTypes
  <2>2. CASE device' = device BY <1>1, <1>10, <2>1, <2>2 DEF DevicesAreKept
  <2>3. CASE device' = [x \in DOMAIN device |-> IF x[2] \in dead THEN "absent" ELSE device[x]]
    BY <1>1, <1>10, <1>13, <2>1, <2>3 DEF DevicesAreKept
  <2> QED BY <1>1, <2>2, <2>3
<1> QED BY <1>1, <1>9, <1>11, <1>12, <1>14, PushStepKeeps

\* FinishPush writes the row, or leaves it "sending" and is remembered for it.
LEMMA FinishPushKeeps == ASSUME HonestInv, NEW c \in Campaigns, FinishPush(c) PROVE HonestInv'
<1> PICK d : d = delivery[c] OBVIOUS
<1>1. d.pc = "finish" /\ delivery' = [delivery EXCEPT ![c] = Off]
      /\ UNCHANGED <<device, kept, banned, alive, inbox, accepted>>
  BY DEF FinishPush, players
<1>2. d \in Finishing BY <1>1, StageOf DEF HonestInv
<1>3. FinishIsSound(c) /\ CampaignIsSound(c) /\ campaign[c].status # "free"
  BY <1>1 DEF HonestInv, CampaignIsSound, StagesMatch
<1>4. delivery'[c] = Off /\ \A q \in Campaigns \ {c} : delivery'[q] = delivery[q]
  BY <1>1 DEF HonestInv, CampaignTypes
<1>5. BatchIsSound(c)' /\ FinishIsSound(c)' BY <1>4, OffIsIdle DEF BatchIsSound, FinishIsSound
<1>6. Received(c)' = Received(c) BY <1>1 DEF Received
<1>7. /\ campaign' \in [Campaigns -> Rows]
      /\ \A q \in Campaigns \ {c} : campaign'[q] = campaign[q] /\ (q \in unwritten => q \in unwritten')
      /\ StagesMatch(c)' /\ RowIsHonest(c)'
  <2>1. CASE UNCHANGED campaign /\ unwritten' = unwritten \cup {c}
    <3>1. StagesMatch(c)' BY <1>1, <1>3, <1>4, <2>1, OffIsIdle DEF StagesMatch
    <3>2. RowIsHonest(c)' BY <1>1, <1>3, <1>6, <2>1 DEF CampaignIsSound, RowIsHonest
    <3> QED BY <2>1, <3>1, <3>2 DEF HonestInv, CampaignTypes
  <2>2. CASE /\ campaign' = [campaign EXCEPT ![c].status = d.status, ![c].users = d.users, ![c].devices = d.devices,
                               ![c].sent = d.sent, ![c].failed = d.failed, ![c].removed = d.removed]
             /\ UNCHANGED unwritten
    <3> PICK row : row = campaign[c] OBVIOUS
    <3>1. row \in Rows BY DEF HonestInv, CampaignTypes
    <3>2. campaign'[c] = [row EXCEPT !.status = d.status, !.users = d.users, !.devices = d.devices,
                                     !.sent = d.sent, !.failed = d.failed, !.removed = d.removed]
      BY <2>2 DEF HonestInv, CampaignTypes
    <3>3. /\ campaign'[c] \in Rows /\ campaign'[c].status = d.status /\ campaign'[c].devices = d.devices
          /\ campaign'[c].sent = d.sent /\ campaign'[c].failed = d.failed /\ campaign'[c].removed = d.removed
          /\ campaign'[c].inapp = row.inapp /\ campaign'[c].recipients = row.recipients
      BY <1>2, <3>1, <3>2 DEF Rows, Finishing
    <3>4. \A q \in Campaigns \ {c} : campaign'[q] = campaign[q] BY <2>2 DEF HonestInv, CampaignTypes
    <3>5. campaign' \in [Campaigns -> Rows]
      <4>1. campaign' = [q \in Campaigns |-> campaign'[q]] BY <2>2 DEF HonestInv, CampaignTypes
      <4>2. \A q \in Campaigns : campaign'[q] \in Rows BY <3>3, <3>4 DEF HonestInv, CampaignTypes
      <4> QED BY <4>1, <4>2
    <3>6. d.status \in {"done", "failed"} BY <1>2 DEF Finishing
    <3>7. StagesMatch(c)' BY <1>4, <3>3, <3>6, OffIsIdle DEF StagesMatch
    <3>8. RowIsHonest(c)'
      <4>1. /\ d.sent + d.failed = d.devices /\ d.removed <= d.failed /\ d.sent <= Cardinality(accepted[c])
        BY <1>1, <1>3 DEF FinishIsSound
      <4>2. row.inapp => row.recipients = Cardinality(Received(c))
        BY <1>3 DEF CampaignIsSound, RowIsHonest
      <4> QED BY <1>1, <1>6, <3>3, <3>6, <4>1, <4>2 DEF RowIsHonest
    <3> QED BY <2>2, <3>4, <3>5, <3>7, <3>8
  <2> QED BY <2>1, <2>2 DEF FinishPush
<1>8. CampaignTypes'
  <2>1. delivery' \in [Campaigns -> {Off} \cup Sized \cup Resolving \cup Batches \cup Finishing]
    BY <1>1 DEF HonestInv, CampaignTypes
  <2> QED BY <1>1, <1>7, <2>1 DEF HonestInv, CampaignTypes
<1>9. CampaignIsSound(c)' BY <1>5, <1>7 DEF CampaignIsSound
<1>10. ASSUME NEW q \in Campaigns, q # c PROVE CampaignIsSound(q)'
  <2>1. CampaignIsSound(q) BY DEF HonestInv
  <2>2. accepted'[q] = accepted[q] /\ alive' \subseteq alive /\ \A u \in Users : inbox'[<<q, u>>] = inbox[<<q, u>>]
    BY <1>1
  <2>3. delivery'[q] = delivery[q] /\ campaign'[q] = campaign[q] /\ (q \in unwritten => q \in unwritten')
    BY <1>4, <1>7, <1>10
  <2> QED BY <2>1, <2>2, <2>3, OtherCampaignKeeps
<1>11. DevicesAreKept' BY <1>1 DEF HonestInv, DevicesAreKept
<1> QED BY <1>8, <1>9, <1>10, <1>11 DEF HonestInv

LEMMA MarkReadKeeps ==
  ASSUME HonestInv, NEW c \in Campaigns, NEW u \in Users, MarkRead(c, u) PROVE HonestInv'
<1>1. /\ inbox[<<c, u>>] = "unread" /\ inbox' = [inbox EXCEPT ![<<c, u>>] = "read"]
      /\ UNCHANGED <<device, kept, banned, alive, campaign, delivery, accepted, unwritten>>
  BY DEF MarkRead, players
<1>2. \A q \in Campaigns, v \in Users :
        inbox'[<<q, v>>] = IF q = c /\ v = u THEN "read" ELSE inbox[<<q, v>>]
  BY <1>1 DEF HonestInv, CampaignTypes
<1>3. CampaignTypes' /\ DevicesAreKept' BY <1>1 DEF HonestInv, CampaignTypes, DevicesAreKept
<1>4. ASSUME NEW q \in Campaigns PROVE CampaignIsSound(q)'
  <2>1. CampaignIsSound(q) BY DEF HonestInv
  <2>2. Received(q)' = Received(q) BY <1>1, <1>2 DEF Received
  <2>3. StagesMatch(q)' BY <1>1, <1>2, <2>1 DEF CampaignIsSound, StagesMatch
  <2>4. BatchIsSound(q)' /\ FinishIsSound(q)' BY <1>1, <2>1 DEF CampaignIsSound, BatchIsSound, FinishIsSound
  <2>5. RowIsHonest(q)' BY <1>1, <2>1, <2>2 DEF CampaignIsSound, RowIsHonest
  <2> QED BY <2>3, <2>4, <2>5 DEF CampaignIsSound
<1> QED BY <1>3, <1>4 DEF HonestInv

\* The next start closes what was "sending", or leaves it for the one after.
LEMMA RestartProcessKeeps == ASSUME HonestInv, RestartProcess PROVE HonestInv'
<1> PICK stale : stale = {c \in Campaigns : campaign[c].status = "sending"} OBVIOUS
<1>1. delivery' = [c \in Campaigns |-> Off] /\ UNCHANGED <<device, kept, banned, alive, inbox, accepted>>
  BY DEF RestartProcess, players
<1>2. campaign \in [Campaigns -> Rows] BY DEF HonestInv, CampaignTypes
<1>3. ASSUME NEW c \in Campaigns
      PROVE  /\ campaign'[c] = campaign[c] \/ campaign'[c] = [campaign[c] EXCEPT !.status = "interrupted"]
             /\ campaign'[c].status = "sending" => c \in unwritten'
             /\ campaign'[c].status = "free" <=> campaign[c].status = "free"
             /\ campaign'[c].status # campaign[c].status => campaign'[c].status = "interrupted"
             /\ campaign'[c].sent = campaign[c].sent /\ campaign'[c].failed = campaign[c].failed
             /\ campaign'[c].devices = campaign[c].devices /\ campaign'[c].removed = campaign[c].removed
             /\ campaign'[c].inapp = campaign[c].inapp /\ campaign'[c].recipients = campaign[c].recipients
             /\ campaign'[c] \in Rows
  <2> PICK row : row = campaign[c] OBVIOUS
  <2>0. row \in Rows BY <1>2
  <2>1. CASE UNCHANGED campaign /\ unwritten' = stale BY <2>0, <2>1
  <2>2. CASE campaign' = [q \in Campaigns |-> IF q \in stale THEN [campaign[q] EXCEPT !.status = "interrupted"]
                                              ELSE campaign[q]]
    <3>1. campaign'[c] = IF row.status = "sending" THEN [row EXCEPT !.status = "interrupted"] ELSE row
      BY <2>2
    <3> QED BY <2>0, <3>1 DEF Rows
  <2> QED BY <2>1, <2>2 DEF RestartProcess, FailStaleCampaigns
<1>4. CampaignTypes'
  <2>1. DOMAIN campaign' = Campaigns /\ campaign' = [c \in Campaigns |-> campaign'[c]]
    BY <1>2 DEF RestartProcess, FailStaleCampaigns
  <2>2. campaign' \in [Campaigns -> Rows]
    <3>1. \A c \in Campaigns : campaign'[c] \in Rows BY <1>3
    <3> QED BY <2>1, <3>1
  <2>3. delivery' \in [Campaigns -> {Off} \cup Sized \cup Resolving \cup Batches \cup Finishing] BY <1>1
  <2> QED BY <1>1, <2>2, <2>3 DEF HonestInv, CampaignTypes
<1>5. ASSUME NEW c \in Campaigns PROVE CampaignIsSound(c)'
  <2>1. CampaignIsSound(c) BY DEF HonestInv
  <2>2. delivery'[c] = Off BY <1>1
  <2>3. StagesMatch(c)' BY <1>1, <1>3, <2>1, <2>2, OffIsIdle DEF CampaignIsSound, StagesMatch
  <2>4. BatchIsSound(c)' /\ FinishIsSound(c)' BY <2>2, OffIsIdle DEF BatchIsSound, FinishIsSound
  <2>5. Received(c)' = Received(c) BY <1>1 DEF Received
  <2>6. RowIsHonest(c)' BY <1>1, <1>3, <2>1, <2>5 DEF CampaignIsSound, RowIsHonest
  <2> QED BY <2>3, <2>4, <2>6 DEF CampaignIsSound
<1>6. DevicesAreKept' BY <1>1 DEF HonestInv, DevicesAreKept
<1> QED BY <1>4, <1>5, <1>6 DEF HonestInv

LEMMA CampaignStep == HonestInv /\ [CampaignNext]_campaignVars => HonestInv'
<1> SUFFICES ASSUME HonestInv, [CampaignNext]_campaignVars PROVE HonestInv' OBVIOUS
<1>1. CASE UNCHANGED campaignVars BY <1>1, WindowEndsKeeps DEF campaignVars, players
<1>2. CASE PlayerStep BY <1>2, PlayerStepKeeps
<1>3. ASSUME NEW c \in Campaigns, NEW a \in Audiences, NEW push \in BOOLEAN, NEW inapp \in BOOLEAN,
             Send(c, a, push, inapp)
      PROVE  HonestInv'
  BY <1>3, SendKeeps
<1>4. ASSUME NEW c \in Campaigns, CheckDuplicate(c) \/ CreateCampaign(c) \/ CreateFails(c) PROVE HonestInv'
  BY <1>4, CheckDuplicateKeeps, CreateCampaignKeeps, CreateFailsKeeps
<1>5. ASSUME NEW c \in Campaigns, WindowEnds(c) PROVE HonestInv' BY <1>5, WindowEndsKeeps DEF WindowEnds
<1>6. ASSUME NEW c \in Campaigns,
             PushTargetsFails(c) \/ DeliverPush(c) \/ Expire(c) \/ CloseBatch(c) \/ FinishPush(c)
      PROVE  HonestInv'
  BY <1>6, PushTargetsFailsKeeps, DeliverPushKeeps, ExpireKeeps, CloseBatchKeeps, FinishPushKeeps
<1>7. ASSUME NEW c \in Campaigns, NEW x \in Targets, TakeJob(c, x) \/ SendMessage(c, x) PROVE HonestInv'
  BY <1>7, TakeJobKeeps, SendMessageKeeps
<1>8. ASSUME NEW c \in Campaigns, NEW u \in Users, MarkRead(c, u) PROVE HonestInv' BY <1>8, MarkReadKeeps
<1>9. CASE RestartProcess BY <1>9, RestartProcessKeeps
<1> QED BY <1>1, <1>2, <1>3, <1>4, <1>5, <1>6, <1>7, <1>8, <1>9 DEF CampaignNext, Targets

\* A campaign (service/admin_notifications.go deliverPush, notification.go SendBatch):
\* whatever expires, fails, crosses or restarts, its row leaves "sending" or its failed
\* write is known, its counts are what FCM took of what was asked, no living token that
\* nobody took back is deleted, and each recipient has one message, for any players,
\* tokens, workers and campaigns.
THEOREM CampaignsAlwaysHonest == CampaignSpec => []CampaignIsHonest
<1>1. CampaignInit => HonestInv
  <2> SUFFICES ASSUME CampaignInit PROVE HonestInv OBVIOUS
  <2>1. NoCampaign \in Rows /\ NoCampaign.status = "free" /\ NoCampaign.sent = 0 /\ NoCampaign.inapp = FALSE
    BY DEF NoCampaign, Rows
  <2>2. CampaignTypes BY <2>1 DEF CampaignInit, CampaignTypes, Targets
  <2>3. DevicesAreKept BY DEF CampaignInit, DevicesAreKept
  <2>4. ASSUME NEW c \in Campaigns PROVE CampaignIsSound(c)
    <3>1. campaign[c] = NoCampaign /\ delivery[c] = Off /\ accepted[c] = {} BY DEF CampaignInit
    <3>2. \A u \in Users : inbox[<<c, u>>] = "none" BY DEF CampaignInit
    <3>3. StagesMatch(c) BY <2>1, <3>1, <3>2, OffIsIdle DEF StagesMatch
    <3>4. BatchIsSound(c) /\ FinishIsSound(c) BY <3>1, OffIsIdle DEF BatchIsSound, FinishIsSound
    <3>5. RowIsHonest(c) BY <2>1, <3>1, FS_EmptySet DEF RowIsHonest
    <3> QED BY <3>3, <3>4, <3>5 DEF CampaignIsSound
  <2> QED BY <2>2, <2>3, <2>4 DEF HonestInv
<1>2. HonestInv => CampaignIsHonest
  BY DEF HonestInv, CampaignIsSound, RowIsHonest, DevicesAreKept, Received, CampaignIsHonest
<1> QED BY <1>1, <1>2, CampaignStep, PTL DEF CampaignSpec

-----------------------------------------------------------------------------
(* The reviews of reported words                                           *)

Working == {"drawn", "stored", "recorded", "folding"}
Reporters == Signed \cup Guests

ReviewTypes ==
  /\ DOMAIN status = Suggestions /\ DOMAIN reports = Suggestions /\ DOMAIN call = Operators
  /\ audit \in Seq({"approved", "rejected"} \X Suggestions)
  /\ \A s \in Suggestions : reports[s] \in Seq(Reporters) /\ IsInjective(reports[s])
  /\ \A o \in Operators : call[o].pc = "idle" \/ call[o].pc \in Working

\* What an operator's call about a suggestion may rely on: until it commits the row is
\* pending, after that approved and not yet on record.
CallIsFair(o) ==
  LET s == call[o].about IN
  call[o].pc \in Working /\ s # NoSuggestion =>
    /\ s \in Suggestions
    /\ IF call[o].pc = "drawn" THEN status[s] = "pending"
       ELSE status[s] = "approved" /\ \A i \in DOMAIN audit : audit[i][2] # s

OneCallEach ==
  \A o, p \in Operators :
    /\ call[o].pc \in Working /\ call[p].pc \in Working
    /\ call[o].about = call[p].about /\ call[o].about # NoSuggestion
    => o = p

RecordIsTrue ==
  /\ \A i, j \in DOMAIN audit : audit[i][2] = audit[j][2] => i = j
  /\ \A i \in DOMAIN audit : status[audit[i][2]] = audit[i][1]

RewardsAreDue ==
  \A x : x \in rewards <=> \E s \in Suggestions : status[s] = "approved" /\ x \in RewardsOf(s)

\* ReviewsAreFair speaks of what is recorded; two calls between their commits and their
\* records are why it is not inductive.
ReviewInv ==
  /\ ReviewTypes /\ (\A o \in Operators : CallIsFair(o)) /\ OneCallEach
  /\ RecordIsTrue /\ RewardsAreDue

-----------------------------------------------------------------------------
LEMMA IdleIsIdle == Idle.pc = "idle" /\ "idle" \notin Working
BY DEF Idle, Working

\* What an approval pays for is decided by the reports alone.
LEMMA RewardsOfReports ==
  ASSUME NEW s, reports'[s] = reports[s]
  PROVE  RewardsOf(s)' = RewardsOf(s)
BY DEF RewardsOf

\* At most one reward, of the suggestion's own word
LEMMA OneReward ==
  ASSUME NEW s
  PROVE  \E r : RewardsOf(s) \subseteq {<<r, s[1]>>} /\ (s[2] # "add" => RewardsOf(s) = {})
<1> PICK signed : signed = {i \in DOMAIN reports[s] : reports[s][i] \in Signed} OBVIOUS
<1> PICK r : r = reports[s][Min(signed)] OBVIOUS
<1>1. RewardsOf(s) = IF s[2] = "add" /\ signed # {} THEN {<<r, s[1]>>} ELSE {} BY DEF RewardsOf
<1> QED BY <1>1

\* A step of the calls that leaves the suggestions and the record alone
LEMMA CallsKeep ==
  ASSUME ReviewInv, NEW o \in Operators, NEW k, call' = [call EXCEPT ![o] = k],
         UNCHANGED reviewVars,
         \/ k.pc = "idle"
         \/ /\ k.pc \in Working /\ call[o].pc \in Working /\ k.about = call[o].about
            /\ k.about = NoSuggestion \/ (k.pc = "drawn" <=> call[o].pc = "drawn")
         \/ /\ k.pc = "drawn" /\ (k.about # NoSuggestion => /\ k.about \in Suggestions
                                                             /\ status[k.about] = "pending" /\ ~Locked(k.about))
  PROVE  ReviewInv'
<1>1. /\ \A p \in Operators : call'[p] = IF p = o THEN k ELSE call[p]
      /\ DOMAIN call' = Operators
  BY DEF ReviewInv, ReviewTypes
<1>2. UNCHANGED <<status, reports, reporting, rewards, audit>> BY DEF reviewVars
<1>3. ReviewTypes' BY <1>1, <1>2 DEF ReviewInv, ReviewTypes, Working
<1>4. ASSUME NEW p \in Operators PROVE CallIsFair(p)'
  <2>1. CallIsFair(p) /\ CallIsFair(o) BY DEF ReviewInv
  <2>2. CASE p # o BY <1>1, <1>2, <2>1, <2>2 DEF CallIsFair
  <2>3. CASE p = o
    <3>1. call'[p] = k BY <1>1, <2>3
    <3>2. CASE k.pc = "idle" BY <3>1, <3>2 DEF CallIsFair, Working
    <3>3. CASE k.pc \in Working /\ call[o].pc \in Working /\ k.about = call[o].about
                 /\ (k.about = NoSuggestion \/ (k.pc = "drawn" <=> call[o].pc = "drawn"))
      BY <1>2, <2>1, <3>1, <3>3 DEF CallIsFair
    <3>4. CASE k.pc = "drawn" /\ (k.about # NoSuggestion => /\ k.about \in Suggestions
                                                             /\ status[k.about] = "pending" /\ ~Locked(k.about))
      BY <1>2, <3>1, <3>4 DEF CallIsFair
    <3> QED BY <3>2, <3>3, <3>4
  <2> QED BY <2>2, <2>3
<1>5. OneCallEach'
  <2> SUFFICES ASSUME NEW p \in Operators, NEW q \in Operators,
                      call'[p].pc \in Working, call'[q].pc \in Working,
                      call'[p].about = call'[q].about, call'[p].about # NoSuggestion, p # q
               PROVE  FALSE
    BY DEF OneCallEach
  <2>1. OneCallEach BY DEF ReviewInv
  <2>2. CASE p # o /\ q # o BY <1>1, <2>1, <2>2 DEF OneCallEach
  <2>3. ASSUME NEW z \in Operators, z # o, call[z].pc \in Working, k.pc \in Working,
               call[z].about = k.about, k.about # NoSuggestion
        PROVE  FALSE
    <3>1. CASE k.pc \in Working /\ call[o].pc \in Working /\ k.about = call[o].about
      BY <2>1, <2>3, <3>1 DEF OneCallEach
    <3>2. CASE k.pc = "drawn" /\ k.about \in Suggestions /\ status[k.about] = "pending" /\ ~Locked(k.about)
      <4>1. CallIsFair(z) BY DEF ReviewInv
      <4>2. call[z].pc # "drawn" BY <2>3, <3>2 DEF Locked
      <4> QED BY <2>3, <3>2, <4>1, <4>2 DEF CallIsFair
    <3>3. k.pc # "idle" BY <2>3 DEF Working
    <3> QED BY <2>3, <3>1, <3>2, <3>3
  <2> QED BY <1>1, <2>2, <2>3
<1>6. RecordIsTrue' BY <1>2 DEF ReviewInv, RecordIsTrue
<1>7. RewardsAreDue' BY <1>2, RewardsOfReports DEF ReviewInv, RewardsAreDue
<1> QED BY <1>3, <1>4, <1>5, <1>6, <1>7 DEF ReviewInv

-----------------------------------------------------------------------------
LEMMA DrawKeeps ==
  ASSUME ReviewInv, NEW o \in Operators, NEW w, NEW action, NEW s, Draw(o, w, action, s),
         s # NoSuggestion => s \in Suggestions /\ status[s] = "pending" /\ ~Locked(s)
  PROVE  ReviewInv'
<1> PICK k : k = [pc |-> "drawn", word |-> w, action |-> action, about |-> s, row |-> [Unlisted(w) EXCEPT !.seq = nextval']]
  OBVIOUS
<1>1. k.pc = "drawn" /\ k.about = s OBVIOUS
<1>2. call' = [call EXCEPT ![o] = k] /\ UNCHANGED reviewVars BY DEF Draw
<1> QED BY <1>1, <1>2, CallsKeep

\* The stages of a call between its commit and its record
LEMMA StagesKeep ==
  ASSUME ReviewInv, NEW o \in Operators,
         Rollback(o) \/ RecordRow(o) \/ ReadOverlay(o)
  PROVE  ReviewInv'
<1> PICK d : d = call[o] OBVIOUS
<1>0. DOMAIN call = Operators BY DEF ReviewInv, ReviewTypes
<1>1. CASE Rollback(o) BY <1>1, CallsKeep, IdleIsIdle DEF Rollback
<1>2. CASE RecordRow(o)
  <2> PICK k : k = [d EXCEPT !.pc = "recorded"] OBVIOUS
  <2>1. d.pc = "stored" /\ call' = [call EXCEPT ![o] = k] /\ UNCHANGED reviewVars
    BY <1>0, <1>2 DEF RecordRow
  <2>2. k.about = d.about OBVIOUS
  <2>3. k.pc = "recorded" BY <1>0, <1>2, <2>1
  <2> QED BY <2>1, <2>2, <2>3, CallsKeep DEF Working
<1>3. CASE ReadOverlay(o)
  <2> PICK k : k = [pc |-> "folding", word |-> d.word, about |-> d.about, row |-> d.row, old |-> overlay]
    OBVIOUS
  <2>1. d.pc = "recorded" /\ call' = [call EXCEPT ![o] = k] /\ UNCHANGED reviewVars
    BY <1>0, <1>3 DEF ReadOverlay
  <2>2. k.about = d.about /\ k.pc = "folding" OBVIOUS
  <2> QED BY <2>1, <2>2, CallsKeep DEF Working
<1> QED BY <1>1, <1>2, <1>3

LEMMA CommitKeeps == ASSUME ReviewInv, NEW o \in Operators, Commit(o) PROVE ReviewInv'
<1> PICK d : d = call[o] OBVIOUS
<1> PICK s : s = d.about OBVIOUS
<1> PICK k : k = [d EXCEPT !.pc = "stored", !.row = UpsertOverride(d.word, d.action, d.row.seq)] OBVIOUS
<1>0. DOMAIN call = Operators /\ DOMAIN status = Suggestions /\ DOMAIN reports = Suggestions
  BY DEF ReviewInv, ReviewTypes
<1>1. d.pc = "drawn" /\ call' = [call EXCEPT ![o] = k] /\ UNCHANGED <<reports, reporting, audit>>
  BY <1>0 DEF Commit
<1>2. k.pc = "stored" /\ k.about = s BY <1>0, <1>1
<1>3. CASE s = NoSuggestion
  <2>1. UNCHANGED reviewVars BY <1>1, <1>3 DEF Commit, reviewVars
  <2> QED BY <1>1, <1>2, <1>3, <2>1, CallsKeep DEF Working
<1>4. CASE s # NoSuggestion
  <2>1. status' = [status EXCEPT ![s] = "approved"] /\ rewards' = rewards \cup RewardsOf(s)
    BY <1>4 DEF Commit
  <2>2. s \in Suggestions /\ status[s] = "pending" BY <1>1, <1>4 DEF ReviewInv, CallIsFair, Working
  <2>3. \A t \in Suggestions : status'[t] = IF t = s THEN "approved" ELSE status[t] BY <1>0, <2>1
  <2>4. \A p \in Operators : call'[p] = IF p = o THEN k ELSE call[p] BY <1>0, <1>1
  <2>5. \A i \in DOMAIN audit : audit[i] \in {"approved", "rejected"} \X Suggestions
    BY DEF ReviewInv, ReviewTypes
  <2>6. \A i \in DOMAIN audit : audit[i][2] # s
    BY <2>2, <2>5 DEF ReviewInv, RecordIsTrue
  <2>7. ReviewTypes' BY <1>0, <1>1, <1>2, <2>1, <2>4 DEF ReviewInv, ReviewTypes, Working
  <2>8. ASSUME NEW p \in Operators PROVE CallIsFair(p)'
    <3>1. CallIsFair(p) BY DEF ReviewInv
    <3>2. CASE p = o
      <4>1. call'[p].pc = "stored" /\ call'[p].about = s BY <1>2, <2>4, <3>2
      <4>2. status'[s] = "approved" /\ audit' = audit BY <1>1, <2>2, <2>3
      <4> QED BY <2>2, <2>6, <4>1, <4>2 DEF CallIsFair
    <3>3. CASE p # o
      <4>1. call'[p] = call[p] BY <2>4, <3>3
      <4>2. call[p].pc \in Working /\ call[p].about # NoSuggestion => call[p].about # s
        BY <1>1, <3>3 DEF ReviewInv, OneCallEach, Working
      <4> QED BY <1>1, <2>3, <3>1, <4>1, <4>2 DEF CallIsFair
    <3> QED BY <3>2, <3>3
  <2>9. OneCallEach'
    <3>1. \A p \in Operators : call'[p].about = call[p].about /\ (call'[p].pc \in Working => call[p].pc \in Working)
      BY <1>1, <1>2, <2>4 DEF Working
    <3> QED BY <3>1 DEF ReviewInv, OneCallEach
  <2>10. RecordIsTrue'
    <3>1. \A i \in DOMAIN audit : status'[audit[i][2]] = status[audit[i][2]] BY <2>3, <2>5, <2>6
    <3> QED BY <1>1, <3>1 DEF ReviewInv, RecordIsTrue
  <2>11. RewardsAreDue'
    <3>1. \A t \in Suggestions : RewardsOf(t)' = RewardsOf(t) BY <1>1, RewardsOfReports
    <3> QED BY <2>1, <2>2, <2>3, <3>1 DEF ReviewInv, RewardsAreDue
  <2> QED BY <2>7, <2>8, <2>9, <2>10, <2>11 DEF ReviewInv
<1> QED BY <1>3, <1>4

\* A decision that goes on record: its suggestion's row already says so, and it is the first.
LEMMA RecordGrows ==
  ASSUME RecordIsTrue, audit \in Seq({"approved", "rejected"} \X Suggestions),
         NEW s \in Suggestions, NEW word \in {"approved", "rejected"},
         audit' = Append(audit, <<word, s>>), status'[s] = word,
         \A i \in DOMAIN audit : audit[i][2] # s /\ status'[audit[i][2]] = status[audit[i][2]]
  PROVE  /\ RecordIsTrue' /\ audit' \in Seq({"approved", "rejected"} \X Suggestions)
         /\ \A i \in DOMAIN audit' : audit'[i][2] = s \/ \E j \in DOMAIN audit : audit'[i] = audit[j]
<1> PICK x : x = <<word, s>> OBVIOUS
<1>1. x \in {"approved", "rejected"} \X Suggestions /\ x[1] = word /\ x[2] = s OBVIOUS
<1> PICK n \in Nat : n = Len(audit) OBVIOUS
<1>2. /\ audit' = Append(audit, x) /\ DOMAIN audit = 1 .. n /\ DOMAIN audit' = 1 .. n + 1
      /\ audit'[n + 1] = x /\ \A i \in 1 .. n : audit'[i] = audit[i]
      /\ audit' \in Seq({"approved", "rejected"} \X Suggestions)
  BY <1>1
<1>3. \A i \in 1 .. n + 1 : i \in 1 .. n \/ i = n + 1 OBVIOUS
<1>4. \A i, j \in DOMAIN audit' : audit'[i][2] = audit'[j][2] => i = j
  BY <1>1, <1>2, <1>3 DEF RecordIsTrue
<1>5. \A i \in DOMAIN audit' : status'[audit'[i][2]] = audit'[i][1]
  BY <1>1, <1>2, <1>3 DEF RecordIsTrue
<1> QED BY <1>1, <1>2, <1>3, <1>4, <1>5 DEF RecordIsTrue

LEMMA StoreOverlayKeeps == ASSUME ReviewInv, NEW o \in Operators, StoreOverlay(o) PROVE ReviewInv'
<1> PICK s : s = call[o].about OBVIOUS
<1>0. DOMAIN call = Operators BY DEF ReviewInv, ReviewTypes
<1>1. call[o].pc = "folding" /\ call' = [call EXCEPT ![o] = Idle] /\ UNCHANGED <<status, reports, reporting, rewards>>
  BY DEF StoreOverlay
<1>2. CASE s = NoSuggestion
  <2>1. UNCHANGED reviewVars BY <1>1, <1>2 DEF StoreOverlay, reviewVars
  <2> QED BY <1>1, <2>1, CallsKeep, IdleIsIdle
<1>3. CASE s # NoSuggestion
  <2>1. audit' = Append(audit, <<"approved", s>>) BY <1>3 DEF StoreOverlay
  <2>2. s \in Suggestions /\ status[s] = "approved" /\ \A i \in DOMAIN audit : audit[i][2] # s
    BY <1>1, <1>3 DEF ReviewInv, CallIsFair, Working
  <2>3. /\ RecordIsTrue' /\ audit' \in Seq({"approved", "rejected"} \X Suggestions)
        /\ \A i \in DOMAIN audit' : audit'[i][2] = s \/ \E j \in DOMAIN audit : audit'[i] = audit[j]
    BY <1>1, <2>1, <2>2, RecordGrows DEF ReviewInv, ReviewTypes
  <2>4. \A p \in Operators : call'[p] = IF p = o THEN Idle ELSE call[p] BY <1>0, <1>1
  <2>5. ReviewTypes' BY <1>0, <1>1, <2>3, <2>4, IdleIsIdle DEF ReviewInv, ReviewTypes
  <2>6. ASSUME NEW p \in Operators PROVE CallIsFair(p)'
    <3>1. CASE p = o BY <2>4, <3>1, IdleIsIdle DEF CallIsFair
    <3>2. CASE p # o
      <4>1. call'[p] = call[p] /\ CallIsFair(p) BY <2>4, <3>2 DEF ReviewInv
      <4>2. call[p].pc \in Working /\ call[p].about # NoSuggestion => call[p].about # s
        BY <1>1, <3>2 DEF ReviewInv, OneCallEach, Working
      <4>3. ASSUME call[p].pc \in Working, call[p].about # NoSuggestion, call[p].pc # "drawn",
                   NEW i \in DOMAIN audit'
            PROVE  audit'[i][2] # call[p].about
        BY <2>3, <4>1, <4>2, <4>3 DEF CallIsFair
      <4> QED BY <1>1, <4>1, <4>3 DEF CallIsFair
    <3> QED BY <3>1, <3>2
  <2>7. OneCallEach' BY <2>4, IdleIsIdle DEF ReviewInv, OneCallEach
  <2>8. RewardsAreDue' BY <1>1, RewardsOfReports DEF ReviewInv, RewardsAreDue
  <2> QED BY <2>3, <2>5, <2>6, <2>7, <2>8 DEF ReviewInv
<1> QED BY <1>2, <1>3

\* The rejection finds the row pending, so nobody has approved it.
LEMMA RejectKeeps == ASSUME ReviewInv, NEW s \in Suggestions, Reject(s) PROVE ReviewInv'
<1>0. DOMAIN status = Suggestions BY DEF ReviewInv, ReviewTypes
<1>1. /\ status[s] = "pending" /\ ~Locked(s) /\ status' = [status EXCEPT ![s] = "rejected"]
      /\ audit' = Append(audit, <<"rejected", s>>)
      /\ UNCHANGED <<call, reports, reporting, rewards>>
  BY DEF Reject, RejectSuggestion
<1>2. \A t \in Suggestions : status'[t] = IF t = s THEN "rejected" ELSE status[t] BY <1>0, <1>1
<1>3. \A i \in DOMAIN audit : audit[i] \in {"approved", "rejected"} \X Suggestions
  BY DEF ReviewInv, ReviewTypes
<1>4. \A i \in DOMAIN audit : audit[i][2] # s /\ status'[audit[i][2]] = status[audit[i][2]]
  BY <1>1, <1>2, <1>3 DEF ReviewInv, RecordIsTrue
<1>5. /\ RecordIsTrue' /\ audit' \in Seq({"approved", "rejected"} \X Suggestions)
      /\ \A i \in DOMAIN audit' : audit'[i][2] = s \/ \E j \in DOMAIN audit : audit'[i] = audit[j]
  BY <1>1, <1>2, <1>4, RecordGrows DEF ReviewInv, ReviewTypes
<1>6. ReviewTypes' BY <1>0, <1>1, <1>5 DEF ReviewInv, ReviewTypes
<1>7. ASSUME NEW p \in Operators PROVE CallIsFair(p)'
  <2>1. CallIsFair(p) BY DEF ReviewInv
  <2>2. call[p].pc \in Working /\ call[p].about # NoSuggestion => call[p].about # s
    BY <1>1, <2>1 DEF CallIsFair, Locked
  <2>3. ASSUME call[p].pc \in Working, call[p].about # NoSuggestion, call[p].pc # "drawn",
               NEW i \in DOMAIN audit'
        PROVE  audit'[i][2] # call[p].about
    BY <1>5, <2>1, <2>2, <2>3 DEF CallIsFair
  <2> QED BY <1>1, <1>2, <2>1, <2>2, <2>3 DEF CallIsFair
<1>8. OneCallEach' BY <1>1 DEF ReviewInv, OneCallEach
<1>9. RewardsAreDue'
  <2>1. \A t \in Suggestions : RewardsOf(t)' = RewardsOf(t) BY <1>1, RewardsOfReports
  <2> QED BY <1>1, <1>2, <2>1 DEF ReviewInv, RewardsAreDue
<1> QED BY <1>5, <1>6, <1>7, <1>8, <1>9 DEF ReviewInv

\* A report is counted while nobody has decided, behind the lock of an approval.
LEMMA SubmitReportKeeps ==
  ASSUME ReviewInv, NEW r \in Reporters, NEW s \in Suggestions, SubmitReport(r, s)
  PROVE  ReviewInv'
<1>0. DOMAIN status = Suggestions /\ DOMAIN reports = Suggestions BY DEF ReviewInv, ReviewTypes
<1>1. ~Locked(s) /\ UNCHANGED <<call, rewards, audit>> BY DEF SubmitReport
<1> PICK old : old = reports[s] OBVIOUS
<1> PICK now : now = IF r \in ToSet(old) THEN old ELSE Append(old, r) OBVIOUS
<1>2. CASE status[s] \notin {"none", "pending"}
  <2>1. UNCHANGED <<status, reports>> BY <1>2 DEF SubmitReport
  <2>2. ReviewTypes' /\ OneCallEach' BY <1>1, <2>1 DEF ReviewInv, ReviewTypes, OneCallEach
  <2>3. \A p \in Operators : CallIsFair(p)' BY <1>1, <2>1 DEF ReviewInv, CallIsFair
  <2>4. RecordIsTrue' BY <1>1, <2>1 DEF ReviewInv, RecordIsTrue
  <2>5. RewardsAreDue' BY <1>1, <2>1, RewardsOfReports DEF ReviewInv, RewardsAreDue
  <2> QED BY <2>2, <2>3, <2>4, <2>5 DEF ReviewInv
<1>3. CASE status[s] \in {"none", "pending"}
  <2>1. status' = [status EXCEPT ![s] = "pending"] /\ reports' = [reports EXCEPT ![s] = now]
    BY <1>0, <1>3 DEF SubmitReport
  <2>2. \A t \in Suggestions : /\ status'[t] = IF t = s THEN "pending" ELSE status[t]
                               /\ reports'[t] = IF t = s THEN now ELSE reports[t]
    BY <1>0, <2>1
  <2>3. now \in Seq(Reporters) /\ IsInjective(now)
    <3>1. old \in Seq(Reporters) /\ IsInjective(old) BY DEF ReviewInv, ReviewTypes
    <3>2. CASE r \in ToSet(old) BY <3>1, <3>2
    <3>3. CASE r \notin ToSet(old)
      <4> PICK n \in Nat : n = Len(old) BY <3>1
      <4>1. /\ now \in Seq(Reporters) /\ DOMAIN old = 1 .. n /\ DOMAIN now = 1 .. n + 1
            /\ now[n + 1] = r /\ \A i \in 1 .. n : now[i] = old[i]
        BY <3>1, <3>3
      <4>2. \A i \in 1 .. n : old[i] # r BY <3>3, <4>1 DEF ToSet
      <4>3. \A i \in 1 .. n + 1 : i \in 1 .. n \/ i = n + 1 OBVIOUS
      <4>4. \A i, j \in DOMAIN now : now[i] = now[j] => i = j
        BY <3>1, <4>1, <4>2, <4>3 DEF IsInjective
      <4> QED BY <4>1, <4>4 DEF IsInjective
    <3> QED BY <3>2, <3>3
  <2>4. ReviewTypes' BY <1>0, <1>1, <2>1, <2>2, <2>3 DEF ReviewInv, ReviewTypes
  <2>5. ASSUME NEW p \in Operators PROVE CallIsFair(p)'
    <3>1. CallIsFair(p) BY DEF ReviewInv
    <3>2. call[p].pc \in Working /\ call[p].about # NoSuggestion => call[p].about # s
      BY <1>1, <1>3, <3>1 DEF CallIsFair, Locked
    <3> QED BY <1>1, <2>2, <3>1, <3>2 DEF CallIsFair
  <2>6. OneCallEach' BY <1>1 DEF ReviewInv, OneCallEach
  <2>7. RecordIsTrue'
    <3>1. \A i \in DOMAIN audit : audit[i] \in {"approved", "rejected"} \X Suggestions
      BY DEF ReviewInv, ReviewTypes
    <3>2. \A i \in DOMAIN audit : audit[i][2] # s BY <1>3, <3>1 DEF ReviewInv, RecordIsTrue
    <3> QED BY <1>1, <2>2, <3>1, <3>2 DEF ReviewInv, RecordIsTrue
  <2>8. RewardsAreDue'
    <3>1. \A t \in Suggestions \ {s} : RewardsOf(t)' = RewardsOf(t) BY <2>2, RewardsOfReports
    <3>2. status[s] # "approved" /\ status'[s] # "approved" BY <1>3, <2>2
    <3> QED BY <1>1, <2>2, <3>1, <3>2 DEF ReviewInv, RewardsAreDue
  <2> QED BY <2>4, <2>5, <2>6, <2>7, <2>8 DEF ReviewInv
<1> QED BY <1>2, <1>3

\* No call survives the process.
LEMMA LoadKeeps ==
  ASSUME call' = [o \in Operators |-> Idle],
         DOMAIN status' = Suggestions, DOMAIN reports' = Suggestions,
         audit' \in Seq({"approved", "rejected"} \X Suggestions),
         \A s \in Suggestions : reports'[s] \in Seq(Reporters) /\ IsInjective(reports'[s]),
         RecordIsTrue', RewardsAreDue'
  PROVE  ReviewInv'
<1>1. \A o \in Operators : call'[o].pc = "idle" /\ call'[o].pc \notin Working BY IdleIsIdle
<1>2. ReviewTypes' BY <1>1 DEF ReviewTypes
<1>3. \A o \in Operators : CallIsFair(o)' BY <1>1 DEF CallIsFair
<1>4. OneCallEach' BY <1>1 DEF OneCallEach
<1> QED BY <1>2, <1>3, <1>4 DEF ReviewInv

LEMMA EmptyReviews ==
  ASSUME status = [s \in Suggestions |-> "none"], reports = [s \in Suggestions |-> <<>>],
         rewards = {}, audit = <<>>
  PROVE  /\ DOMAIN status = Suggestions /\ DOMAIN reports = Suggestions
         /\ audit \in Seq({"approved", "rejected"} \X Suggestions)
         /\ \A s \in Suggestions : reports[s] \in Seq(Reporters) /\ IsInjective(reports[s])
         /\ RecordIsTrue /\ RewardsAreDue
<1>1. DOMAIN audit = {} OBVIOUS
<1>2. RecordIsTrue BY <1>1 DEF RecordIsTrue
<1>3. RewardsAreDue BY DEF RewardsAreDue
<1>4. \A s \in Suggestions : reports[s] \in Seq(Reporters) /\ IsInjective(reports[s]) BY DEF IsInjective
<1> QED BY <1>2, <1>3, <1>4

LEMMA RestartServerKeeps == ASSUME ReviewInv, RestartServer PROVE ReviewInv'
<1>1. call' = [o \in Operators |-> Idle] /\ UNCHANGED <<status, reports, rewards, audit>>
  BY DEF RestartServer, Load
<1>2. RecordIsTrue' BY <1>1 DEF ReviewInv, RecordIsTrue
<1>3. RewardsAreDue' BY <1>1, RewardsOfReports DEF ReviewInv, RewardsAreDue
<1> QED BY <1>1, <1>2, <1>3, LoadKeeps DEF ReviewInv, ReviewTypes

LEMMA RestoreDatabaseKeeps == ASSUME RestoreDatabase PROVE ReviewInv'
<1>1. /\ call' = [o \in Operators |-> Idle]
      /\ status' = [s \in Suggestions |-> "none"] /\ reports' = [s \in Suggestions |-> <<>>]
      /\ rewards' = {} /\ audit' = <<>>
  BY DEF RestoreDatabase, Load
<1>2. /\ DOMAIN status' = Suggestions /\ DOMAIN reports' = Suggestions
      /\ audit' \in Seq({"approved", "rejected"} \X Suggestions)
      /\ \A s \in Suggestions : reports'[s] \in Seq(Reporters) /\ IsInjective(reports'[s])
  BY <1>1 DEF IsInjective
<1>3. DOMAIN audit' = {} BY <1>1
<1>4. RecordIsTrue' BY <1>3 DEF RecordIsTrue
<1>5. RewardsAreDue' BY <1>1 DEF RewardsAreDue
<1> QED BY <1>1, <1>2, <1>4, <1>5, LoadKeeps

LEMMA ReviewStep == ReviewInv /\ [DictNext]_dictVars => ReviewInv'
<1> SUFFICES ASSUME ReviewInv, [DictNext]_dictVars PROVE ReviewInv' OBVIOUS
<1>1. ASSUME UNCHANGED <<call, status, reports, rewards, audit>> PROVE ReviewInv'
  <2>1. ReviewTypes' /\ OneCallEach' BY <1>1 DEF ReviewInv, ReviewTypes, OneCallEach
  <2>2. \A p \in Operators : CallIsFair(p)' BY <1>1 DEF ReviewInv, CallIsFair
  <2>3. RecordIsTrue' BY <1>1 DEF ReviewInv, RecordIsTrue
  <2>4. RewardsAreDue' BY <1>1, RewardsOfReports DEF ReviewInv, RewardsAreDue
  <2> QED BY <2>1, <2>2, <2>3, <2>4 DEF ReviewInv
<1>2. CASE UNCHANGED dictVars BY <1>1, <1>2 DEF dictVars, reviewVars
<1>3. ASSUME NEW o \in Operators,
             Commit(o) \/ Rollback(o) \/ RecordRow(o) \/ ReadOverlay(o) \/ StoreOverlay(o)
      PROVE  ReviewInv'
  BY <1>3, CommitKeeps, StagesKeep, StoreOverlayKeeps
<1>4. ASSUME NEW o \in Operators, NEW w \in Words, NEW action \in OverrideActions, SetWord(o, w, action)
      PROVE  ReviewInv'
  BY <1>4, DrawKeeps DEF SetWord
<1>5. ASSUME NEW o \in Operators, NEW s \in Suggestions, NEW action \in OverrideActions, Approve(o, s, action)
      PROVE  ReviewInv'
  BY <1>5, DrawKeeps DEF Approve
<1>6. ASSUME NEW s \in Suggestions, Reject(s) PROVE ReviewInv' BY <1>6, RejectKeeps
<1>7. ASSUME NEW r \in Reporters, NEW s \in Suggestions, Submit(r, s) \/ SubmitReport(r, s) PROVE ReviewInv'
  BY <1>1, <1>7, SubmitReportKeeps DEF Submit
<1>8. CASE RestartServer \/ RestoreDatabase BY <1>8, RestartServerKeeps, RestoreDatabaseKeeps
<1> QED BY <1>2, <1>3, <1>4, <1>5, <1>6, <1>7, <1>8 DEF DictNext, Reporters

LEMMA ReviewStart == DictInit => ReviewInv
<1> SUFFICES ASSUME DictInit PROVE ReviewInv OBVIOUS
<1>1. /\ call = [o \in Operators |-> Idle] /\ status = [s \in Suggestions |-> "none"]
      /\ reports = [s \in Suggestions |-> <<>>] /\ rewards = {} /\ audit = <<>>
  BY DEF DictInit
<1>2. \A o \in Operators : call[o].pc = "idle" /\ call[o].pc \notin Working BY <1>1, IdleIsIdle
<1>3. ReviewTypes BY <1>1, <1>2, EmptyReviews DEF ReviewTypes
<1>4. \A o \in Operators : CallIsFair(o) BY <1>2 DEF CallIsFair
<1>5. OneCallEach BY <1>2 DEF OneCallEach
<1> QED BY <1>1, <1>3, <1>4, <1>5, EmptyReviews DEF ReviewInv

LEMMA ReviewInvIsFair == ReviewInv => ReviewsAreFair
<1> SUFFICES ASSUME ReviewInv PROVE ReviewsAreFair OBVIOUS
<1> PICK approved : approved = {t \in Suggestions : status[t] = "approved"} OBVIOUS
<1>1. \A x : x \in rewards <=> \E s \in approved : x \in RewardsOf(s)
  BY DEF ReviewInv, RewardsAreDue
<1>2. rewards = UNION {RewardsOf(s) : s \in approved} BY <1>1
<1>3. ASSUME NEW w \in Words PROVE Cardinality({x \in rewards : x[2] = w}) <= 1
  <2> PICK paid : paid = {x \in rewards : x[2] = w} OBVIOUS
  <2> PICK r : RewardsOf(<<w, "add">>) \subseteq {<<r, w>>} BY OneReward
  <2>1. paid \subseteq {<<r, w>>}
    <3> SUFFICES ASSUME NEW x \in rewards, x[2] = w PROVE x = <<r, w>> OBVIOUS
    <3> PICK s \in Suggestions : x \in RewardsOf(s) BY DEF ReviewInv, RewardsAreDue
    <3> PICK q : RewardsOf(s) \subseteq {<<q, s[1]>>} /\ (s[2] # "add" => RewardsOf(s) = {}) BY OneReward
    <3>1. s[2] = "add" /\ s[1] = w OBVIOUS
    <3>2. s = <<w, "add">> BY <3>1 DEF Suggestions
    <3> QED BY <3>2
  <2>2. IsFiniteSet({<<r, w>>}) /\ Cardinality({<<r, w>>}) = 1 BY FS_Singleton
  <2>3. IsFiniteSet(paid) /\ Cardinality(paid) <= 1 BY <2>1, <2>2, FS_Subset
  <2> QED BY <2>3
<1> QED BY <1>2, <1>3 DEF ReviewInv, ReviewTypes, RecordIsTrue, ReviewsAreFair

\* The reviews (repository/words.go ApproveSuggestion over FOR UPDATE, RejectSuggestion's
\* WHERE status = 'pending'): for any operators, words and reporters, one decision is
\* recorded for a suggestion, the one its row has; a reporter counts once; and an approved
\* addition has paid its first signed-in reporter, and nobody else.
THEOREM ReviewsAlwaysFair == DictSpec => []ReviewsAreFair
BY ReviewStart, ReviewInvIsFair, ReviewStep, PTL DEF DictSpec

-----------------------------------------------------------------------------
(* The words, with one operator at a time                                  *)

WordRows == [present : BOOLEAN, blocked : BOOLEAN, seq : Nat]
Live(table) == [w \in Words |-> State(table[w])]
Tops(table, n) == (\A w \in Words : table[w].seq <= n) /\ \E w \in Words : table[w].seq = n

TableTypes ==
  /\ db \in [Words -> WordRows] /\ rows \in [Words -> WordRows]
  /\ nextval \in Nat /\ top \in Nat /\ DOMAIN call = Operators
  /\ \A w \in Words : rows[w].seq = 0 => rows[w] = Unlisted(w)
  /\ Tops(rows, top) /\ top <= nextval

\* How far the three copies are apart: by the row of the call under way, whose number is
\* above every other until the memory has it.
CopiesAre(c) ==
  \/ c = Idle /\ rows = db /\ overlay = Live(db)
  \/ /\ c.pc = "drawn" /\ rows = db /\ overlay = Live(db)
     /\ c.word \in Words /\ c.action \in OverrideActions /\ c.row.seq = nextval /\ top < nextval
  \/ /\ c.pc = "stored" /\ db = [rows EXCEPT ![c.word] = c.row] /\ overlay = Live(rows)
     /\ c.word \in Words /\ c.row.seq = nextval /\ top < nextval
  \/ c.pc = "recorded" /\ rows = db /\ Live(db) = [overlay EXCEPT ![c.word] = State(c.row)]
  \/ c.pc = "folding" /\ rows = db /\ Live(db) = [c.old EXCEPT ![c.word] = State(c.row)]

TablesInStep ==
  \/ (\A o \in Operators : call[o] = Idle) /\ CopiesAre(Idle)
  \/ \E o \in Operators : CopiesAre(call[o]) /\ \A p \in Operators \ {o} : call[p] = Idle

\* What f, a copy of everything up to number s, owes the memory.  A number above the
\* memory's highest is from before a restore, after which no number is drawn until the
\* app has been told.
KeptUp(s, f) ==
  /\ s \in Nat /\ f = [w \in Words |-> f[w]]
  /\ nextval > 0 => s <= top
  /\ s = 0 => f = Bundled
  /\ s <= top => \A w \in Words : rows[w].seq <= s => f[w] = State(rows[w])

After(d) == Patch(IF d.reset THEN Bundled ELSE changes, d.changes)

CopyInv ==
  /\ KeptUp(seq, changes) /\ saved = <<seq, changes>>
  /\ mixed \in BOOLEAN /\ (~mixed => list = changes)
  /\ delta = <<>> \/ (delta = <<delta[1]>> /\ KeptUp(delta[1].seq, After(delta[1])))

SerialInv == TableTypes /\ TablesInStep /\ CopyInv

\* What a step of the server does to the memory an app reads
TablesMove ==
  \/ UNCHANGED <<rows, top>> /\ nextval' >= nextval
  \/ /\ nextval' = nextval /\ nextval > 0 /\ top' >= top
     /\ \A w \in Words : rows'[w] = rows[w] \/ rows'[w].seq > top
  \/ nextval' = 0 /\ top' = 0 /\ \A w \in Words : rows'[w] = Unlisted(w)

-----------------------------------------------------------------------------
LEMMA UnlistedRow ==
  ASSUME NEW w
  PROVE  Unlisted(w) \in WordRows /\ Unlisted(w).seq = 0
BY DEF Unlisted, WordRows

LEMMA BundledWord ==
  ASSUME NEW w \in Words
  PROVE  Bundled[w] = State(Unlisted(w)) /\ Bundled = [v \in Words |-> Bundled[v]]
BY DEF Bundled

\* The highest number of a table
LEMMA TopOf ==
  ASSUME NEW table \in [Words -> WordRows], NEW n \in Nat, Tops(table, n)
  PROVE  Max({table[w].seq : w \in Words}) = n
<1> PICK S : S = {table[w].seq : w \in Words} OBVIOUS
<1>1. n \in S /\ \A y \in S : y \in Nat /\ y <= n BY DEF Tops, WordRows
<1>2. \A x \in S : (\A y \in S : x >= y) => x = n BY <1>1
<1>3. \A y \in S : n >= y BY <1>1
<1>4. Max(S) = CHOOSE x \in S : \A y \in S : x >= y BY DEF Max
<1>5. Max(S) \in S /\ \A y \in S : Max(S) >= y BY <1>1, <1>3, <1>4
<1> QED BY <1>2, <1>5

\* Numbers have a least: the strict order of their initial segments is well-founded.
LEMMA LeastNumber ==
  ASSUME NEW S \in SUBSET Nat, S # {}
  PROVE  \E m \in S : \A k \in S : m <= k
<1> PICK R : R = StrictSubsetOrdering(Nat) OBVIOUS
<1> PICK F : F = FiniteSubsetsOf(Nat) OBVIOUS
<1> PICK T : T = {0 .. x : x \in S} OBVIOUS
<1>1. IsWellFoundedOn(R, F) BY FS_StrictSubsetOrderingWellFounded
<1>2. T \subseteq F /\ T # {}
  <2>1. \A x \in S : x \in Int /\ 0 \in Int OBVIOUS
  <2>2. \A x \in S : IsFiniteSet(0 .. x) BY <2>1, FS_Interval
  <2>3. \A x \in S : 0 .. x \in SUBSET Nat OBVIOUS
  <2> QED BY <2>2, <2>3 DEF FiniteSubsetsOf
<1>3. PICK t \in T : \A y \in T : <<y, t>> \notin R BY <1>1, <1>2, WFMin
<1>4. PICK m \in S : t = 0 .. m BY <1>3
<1>5. ASSUME NEW k \in S, k < m PROVE FALSE
  <2>1. 0 .. k \in T /\ 0 .. k \in SUBSET Nat /\ 0 .. m \in SUBSET Nat OBVIOUS
  <2>2. 0 .. k \subseteq 0 .. m /\ m \in 0 .. m /\ m \notin 0 .. k BY <1>5
  <2>3. <<0 .. k, 0 .. m>> \in R BY <2>1, <2>2 DEF StrictSubsetOrdering
  <2> QED BY <1>3, <1>4, <2>1, <2>3
<1> QED BY <1>5

\* Numbers below a bound have a greatest.
LEMMA GreatestNumber ==
  ASSUME NEW S \in SUBSET Nat, S # {}, NEW n \in Nat, \A x \in S : x <= n
  PROVE  Max(S) \in S /\ \A y \in S : y <= Max(S)
<1> PICK T : T = {n - x : x \in S} OBVIOUS
<1>1. T \in SUBSET Nat /\ T # {}
  <2>1. \A x \in S : n - x \in Nat OBVIOUS
  <2> QED BY <2>1
<1>2. PICK m \in T : \A k \in T : m <= k BY <1>1, LeastNumber
<1>3. PICK x \in S : m = n - x BY <1>2
<1>4. \A y \in S : x >= y
  <2> SUFFICES ASSUME NEW y \in S PROVE x >= y OBVIOUS
  <2>1. n - y \in T OBVIOUS
  <2>2. m <= n - y BY <1>2, <2>1
  <2> QED BY <1>3, <2>2
<1>5. Max(S) = CHOOSE z \in S : \A y \in S : z >= y BY DEF Max
<1>6. Max(S) \in S /\ \A y \in S : Max(S) >= y BY <1>3, <1>4, <1>5
<1> QED BY <1>6

-----------------------------------------------------------------------------
(* The server's steps                                                      *)

\* A call's step while the others are idle
LEMMA OnlyCall ==
  ASSUME TablesInStep, NEW o \in Operators, call[o] # Idle
  PROVE  CopiesAre(call[o]) /\ \A p \in Operators \ {o} : call[p] = Idle
BY DEF TablesInStep

LEMMA CallMoves ==
  ASSUME DOMAIN call = Operators, NEW o \in Operators, NEW k, call' = [call EXCEPT ![o] = k],
         \A p \in Operators \ {o} : call[p] = Idle
  PROVE  DOMAIN call' = Operators /\ call'[o] = k /\ \A p \in Operators \ {o} : call'[p] = Idle
OBVIOUS

\* An operator's number, drawn while nobody else edits
LEMMA DrawInStep ==
  ASSUME TableTypes, TablesInStep, NEW o \in Operators, NEW w \in Words,
         NEW action \in OverrideActions, NEW s, Draw(o, w, action, s),
         \A p \in Operators : call[p] = Idle
  PROVE  TableTypes' /\ TablesInStep' /\ TablesMove
<1> PICK k : k = [pc |-> "drawn", word |-> w, action |-> action, about |-> s, row |-> [Unlisted(w) EXCEPT !.seq = nextval']]
  OBVIOUS
<1>1. /\ nextval' = nextval + 1 /\ call' = [call EXCEPT ![o] = k]
      /\ UNCHANGED <<db, rows, top, overlay>>
  BY DEF Draw
<1>2. k.pc = "drawn" /\ k.word = w /\ k.action = action /\ k.row.seq = nextval' BY DEF Unlisted
<1>3. nextval \in Nat /\ top \in Nat /\ top <= nextval /\ DOMAIN call = Operators BY DEF TableTypes
<1>4. DOMAIN call' = Operators /\ call'[o] = k /\ \A p \in Operators \ {o} : call'[p] = Idle
  BY <1>1, <1>3, CallMoves
<1>5. rows = db /\ overlay = Live(db) BY IdleIsIdle DEF TablesInStep, CopiesAre
<1>6. TableTypes' BY <1>1, <1>3, <1>4 DEF TableTypes, Tops
<1>7. CopiesAre(k)' BY <1>1, <1>2, <1>3, <1>5 DEF CopiesAre, Live
<1>8. TablesInStep' BY <1>4, <1>7 DEF TablesInStep
<1> QED BY <1>1, <1>3, <1>6, <1>8 DEF TablesMove

\* The row an action leaves carries the number it was given.
LEMMA UpsertRow ==
  ASSUME TableTypes, NEW w \in Words, NEW action \in OverrideActions, NEW n \in Nat
  PROVE  UpsertOverride(w, action, n) \in WordRows /\ UpsertOverride(w, action, n).seq = n
<1>1. db[w] \in WordRows BY DEF TableTypes
<1> QED BY <1>1 DEF UpsertOverride, WordRows, OverrideActions

LEMMA CommitInStep ==
  ASSUME TableTypes, TablesInStep, NEW o \in Operators, Commit(o)
  PROVE  TableTypes' /\ TablesInStep' /\ TablesMove
<1> PICK c : c = call[o] OBVIOUS
<1> PICK row : row = UpsertOverride(c.word, c.action, c.row.seq) OBVIOUS
<1> PICK k : k = [c EXCEPT !.pc = "stored", !.row = row] OBVIOUS
<1>0. DOMAIN call = Operators /\ nextval \in Nat /\ top \in Nat /\ top <= nextval BY DEF TableTypes
<1>1. /\ c.pc = "drawn" /\ db' = [db EXCEPT ![c.word] = row] /\ call' = [call EXCEPT ![o] = k]
      /\ UNCHANGED <<nextval, rows, top, overlay>>
  BY <1>0 DEF Commit
<1>2. c # Idle BY <1>1, IdleIsIdle
<1>3. CopiesAre(c) /\ \A p \in Operators \ {o} : call[p] = Idle BY <1>2, OnlyCall
<1>4. /\ rows = db /\ overlay = Live(db) /\ c.word \in Words /\ c.action \in OverrideActions
      /\ c.row.seq = nextval /\ top < nextval
  BY <1>1, <1>2, <1>3 DEF CopiesAre
<1>5. row \in WordRows /\ row.seq = nextval BY <1>0, <1>4, UpsertRow
<1>6. DOMAIN call' = Operators /\ call'[o] = k /\ \A p \in Operators \ {o} : call'[p] = Idle
  BY <1>0, <1>1, <1>3, CallMoves
<1>7. TableTypes' BY <1>0, <1>1, <1>4, <1>5, <1>6 DEF TableTypes, Tops
<1>8. CopiesAre(k)'
  <2>1. k.pc = "stored" BY <1>0, <1>1
  <2>2. k.row = row BY <1>0, <1>1
  <2>3. k.word = c.word BY <1>0, <1>1
  <2> QED BY <1>0, <1>1, <1>4, <1>5, <2>1, <2>2, <2>3 DEF CopiesAre, Live
<1>9. TablesInStep' BY <1>6, <1>8 DEF TablesInStep
<1> QED BY <1>0, <1>1, <1>7, <1>9 DEF TablesMove

LEMMA LaterInStep ==
  ASSUME TableTypes, TablesInStep, NEW o \in Operators,
         Rollback(o) \/ RecordRow(o) \/ ReadOverlay(o) \/ StoreOverlay(o)
  PROVE  TableTypes' /\ TablesInStep' /\ TablesMove
<1> PICK c : c = call[o] OBVIOUS
<1>0. DOMAIN call = Operators /\ nextval \in Nat /\ top \in Nat /\ top <= nextval BY DEF TableTypes
<1>1. c # Idle BY IdleIsIdle DEF Rollback, RecordRow, ReadOverlay, StoreOverlay
<1>2. CopiesAre(c) /\ \A p \in Operators \ {o} : call[p] = Idle BY <1>1, OnlyCall
<1>3. CASE Rollback(o)
  <2>1. c.pc = "drawn" /\ call' = [call EXCEPT ![o] = Idle] /\ UNCHANGED <<db, nextval, rows, top, overlay>>
    BY <1>3 DEF Rollback, wordVars
  <2>2. DOMAIN call' = Operators /\ \A p \in Operators : call'[p] = Idle BY <1>0, <1>2, <2>1
  <2>3. rows = db /\ overlay = Live(db) BY <1>1, <1>2, <2>1 DEF CopiesAre
  <2>4. TableTypes' BY <2>1, <2>2 DEF TableTypes, Tops
  <2>5. CopiesAre(Idle)' BY <2>1, <2>3 DEF CopiesAre, Live
  <2>6. TablesInStep' BY <2>2, <2>5 DEF TablesInStep
  <2> QED BY <1>0, <2>1, <2>4, <2>6 DEF TablesMove
<1>4. CASE RecordRow(o)
  <2> PICK k : k = [c EXCEPT !.pc = "recorded"] OBVIOUS
  <2> PICK w : w = c.word OBVIOUS
  <2> PICK row : row = c.row OBVIOUS
  <2>1. /\ c.pc = "stored" /\ rows' = [rows EXCEPT ![w] = row] /\ top' = Max({top, row.seq})
        /\ call' = [call EXCEPT ![o] = k] /\ UNCHANGED <<db, nextval, overlay>>
    BY <1>0, <1>4 DEF RecordRow
  <2>2. /\ db = [rows EXCEPT ![w] = row] /\ overlay = Live(rows)
        /\ w \in Words /\ row.seq = nextval /\ top < nextval
    BY <1>1, <1>2, <2>1 DEF CopiesAre
  <2>3. DOMAIN call' = Operators /\ call'[o] = k /\ \A p \in Operators \ {o} : call'[p] = Idle
    BY <1>0, <1>2, <2>1, CallMoves
  <2>4. top' = nextval
    <3> PICK S : S = {top, row.seq} OBVIOUS
    <3>1. S \in SUBSET Nat /\ S # {} /\ \A x \in S : x <= nextval BY <1>0, <2>2
    <3>2. Max(S) \in S /\ \A y \in S : y <= Max(S) BY <1>0, <3>1, GreatestNumber
    <3> QED BY <1>0, <2>1, <2>2, <3>2
  <2>5. /\ rows' = db' /\ rows' \in [Words -> WordRows] /\ db' \in [Words -> WordRows]
        /\ \A v \in Words : rows'[v] = IF v = w THEN row ELSE rows[v]
    BY <2>1, <2>2 DEF TableTypes
  <2>6. TableTypes'
    <3>1. \A v \in Words : rows[v].seq \in Nat /\ rows[v].seq <= top BY DEF TableTypes, Tops, WordRows
    <3>2. Tops(rows, top)' BY <1>0, <2>2, <2>4, <2>5, <3>1 DEF Tops
    <3>3. \A v \in Words : rows'[v].seq = 0 => rows'[v] = Unlisted(v)
      BY <1>0, <2>2, <2>5 DEF TableTypes
    <3> QED BY <1>0, <2>1, <2>3, <2>4, <2>5, <3>2, <3>3 DEF TableTypes
  <2>7. k.pc = "recorded" /\ k.word = w /\ k.row = row
    <3>1. k.pc = "recorded" BY <1>0, <2>1
    <3>2. k.word = w BY <1>0, <2>1
    <3>3. k.row = row BY <1>0, <2>1
    <3> QED BY <3>1, <3>2, <3>3
  <2>8. CopiesAre(k)'
    <3>1. Live(db)' = [overlay EXCEPT ![w] = State(row)]
      BY <2>1, <2>2 DEF Live, TableTypes
    <3> QED BY <2>1, <2>5, <2>7, <3>1 DEF CopiesAre
  <2>9. TablesInStep' BY <2>3, <2>8 DEF TablesInStep
  <2> QED BY <1>0, <2>1, <2>2, <2>4, <2>5, <2>6, <2>9 DEF TablesMove
<1>5. CASE ReadOverlay(o)
  <2> PICK k : k = [pc |-> "folding", word |-> c.word, about |-> c.about, row |-> c.row, old |-> overlay] OBVIOUS
  <2>1. /\ c.pc = "recorded" /\ call' = [call EXCEPT ![o] = k]
        /\ UNCHANGED <<db, nextval, rows, top, overlay>>
    BY <1>0, <1>5 DEF ReadOverlay, wordVars
  <2>2. rows = db /\ Live(db) = [overlay EXCEPT ![c.word] = State(c.row)]
    BY <1>1, <1>2, <2>1 DEF CopiesAre
  <2>3. DOMAIN call' = Operators /\ call'[o] = k /\ \A p \in Operators \ {o} : call'[p] = Idle
    BY <1>0, <1>2, <2>1, CallMoves
  <2>4. TableTypes' BY <2>1, <2>3 DEF TableTypes, Tops
  <2>5. k.pc = "folding" /\ k.word = c.word /\ k.row = c.row /\ k.old = overlay OBVIOUS
  <2>6. CopiesAre(k)' BY <2>1, <2>2, <2>5 DEF CopiesAre, Live
  <2>7. TablesInStep' BY <2>3, <2>6 DEF TablesInStep
  <2> QED BY <1>0, <2>1, <2>4, <2>7 DEF TablesMove
<1>6. CASE StoreOverlay(o)
  <2>1. /\ c.pc = "folding" /\ overlay' = [c.old EXCEPT ![c.word] = State(c.row)]
        /\ call' = [call EXCEPT ![o] = Idle] /\ UNCHANGED <<db, nextval, rows, top>>
    BY <1>6 DEF StoreOverlay
  <2>2. rows = db /\ Live(db) = [c.old EXCEPT ![c.word] = State(c.row)] BY <1>1, <1>2, <2>1 DEF CopiesAre
  <2>3. DOMAIN call' = Operators /\ \A p \in Operators : call'[p] = Idle BY <1>0, <1>2, <2>1
  <2>4. TableTypes' BY <2>1, <2>3 DEF TableTypes, Tops
  <2>5. CopiesAre(Idle)' BY <2>1, <2>2 DEF CopiesAre, Live
  <2>6. TablesInStep' BY <2>3, <2>5 DEF TablesInStep
  <2> QED BY <1>0, <2>1, <2>4, <2>6 DEF TablesMove
<1> QED BY <1>3, <1>4, <1>5, <1>6

\* A start reads what is stored: the row of a call that died with its process too.
LEMMA RestartInStep ==
  ASSUME TableTypes, TablesInStep, RestartServer
  PROVE  TableTypes' /\ TablesInStep' /\ TablesMove
<1>0. /\ DOMAIN call = Operators /\ nextval \in Nat /\ top \in Nat /\ top <= nextval
      /\ db \in [Words -> WordRows] /\ rows \in [Words -> WordRows] /\ Tops(rows, top)
      /\ \A w \in Words : rows[w].seq = 0 => rows[w] = Unlisted(w)
  BY DEF TableTypes
<1>1. /\ rows' = db /\ top' = Max({db[w].seq : w \in Words}) /\ overlay' = Live(db)
      /\ call' = [o \in Operators |-> Idle] /\ UNCHANGED <<db, nextval>>
  BY DEF RestartServer, Load, Live
<1>2. \A w \in Words : rows[w].seq \in Nat /\ rows[w].seq <= top BY <1>0 DEF Tops, WordRows
<1>3. PICK n \in Nat :
        /\ Tops(db, n) /\ n >= top /\ n <= nextval
        /\ \A w \in Words : db[w] = rows[w] \/ (db[w].seq > top /\ nextval > 0)
  <2>1. CASE rows = db BY <1>0, <2>1
  <2>2. CASE rows # db
    <3> PICK c : CopiesAre(c) /\ (c = Idle \/ \E o \in Operators : c = call[o]) BY DEF TablesInStep
    <3>1. /\ db = [rows EXCEPT ![c.word] = c.row] /\ c.word \in Words
          /\ c.row.seq = nextval /\ top < nextval
      BY <2>2 DEF CopiesAre
    <3>2. \A w \in Words : db[w] = IF w = c.word THEN c.row ELSE rows[w] BY <1>0, <3>1
    <3>3. Tops(db, nextval) BY <1>0, <1>2, <3>1, <3>2 DEF Tops
    <3> QED BY <1>0, <3>1, <3>2, <3>3
  <2> QED BY <2>1, <2>2
<1>4. top' = n BY <1>0, <1>1, <1>3, TopOf
<1>5. TableTypes'
  <2>1. \A w \in Words : db[w].seq = 0 => db[w] = Unlisted(w) BY <1>0, <1>3
  <2>2. Tops(rows, top)' BY <1>1, <1>3, <1>4 DEF Tops
  <2> QED BY <1>0, <1>1, <1>3, <1>4, <2>1, <2>2 DEF TableTypes
<1>6. CopiesAre(Idle)' BY <1>1 DEF CopiesAre, Live
<1>7. TablesInStep' BY <1>1, <1>6 DEF TablesInStep
<1>8. TablesMove
  <2>1. CASE nextval > 0 BY <1>0, <1>1, <1>3, <1>4, <2>1 DEF TablesMove
  <2>2. CASE nextval = 0
    <3>1. \A w \in Words : db[w] = rows[w] BY <1>0, <1>3, <2>2
    <3>2. n = 0 /\ top = 0
      <4>1. n <= nextval /\ n \in Nat BY <1>3
      <4> QED BY <1>0, <2>2, <4>1
    <3>3. rows' = rows BY <1>0, <1>1, <3>1
    <3> QED BY <1>0, <1>1, <1>4, <3>2, <3>3 DEF TablesMove
  <2> QED BY <1>0, <2>1, <2>2
<1> QED BY <1>5, <1>7, <1>8

LEMMA RestoreInStep ==
  ASSUME RestoreDatabase
  PROVE  TableTypes' /\ TablesInStep' /\ TablesMove
<1> PICK empty : empty = [w \in Words |-> Unlisted(w)] OBVIOUS
<1>1. /\ db' = empty /\ nextval' = 0 /\ rows' = empty /\ top' = Max({empty[w].seq : w \in Words})
      /\ overlay' = [w \in Words |-> State(empty[w])] /\ call' = [o \in Operators |-> Idle]
  BY DEF RestoreDatabase, Load
<1>2. /\ empty \in [Words -> WordRows] /\ \A w \in Words : empty[w] = Unlisted(w) /\ empty[w].seq = 0
  BY UnlistedRow
<1>3. Tops(empty, 0) BY <1>2, DeltaAssumption DEF Tops
<1>4. top' = 0 BY <1>1, <1>2, <1>3, TopOf
<1>5. TableTypes'
  <2>1. Tops(rows, top)' BY <1>1, <1>3, <1>4 DEF Tops
  <2>2. DOMAIN call' = Operators BY <1>1
  <2>3. \A w \in Words : rows'[w].seq = 0 => rows'[w] = Unlisted(w) BY <1>1, <1>2
  <2> QED BY <1>1, <1>2, <1>4, <2>1, <2>2, <2>3 DEF TableTypes
<1>6. CopiesAre(Idle)' BY <1>1 DEF CopiesAre, Live
<1>7. TablesInStep' BY <1>1, <1>6 DEF TablesInStep
<1> QED BY <1>1, <1>2, <1>4, <1>5, <1>7 DEF TablesMove

\* A step of the server in which a number is drawn only while nobody else edits
LEMMA ServerStep ==
  ASSUME TableTypes, TablesInStep, DictNext,
         nextval' > nextval => \A o \in Operators : call[o] = Idle
  PROVE  TableTypes' /\ TablesInStep' /\ TablesMove
<1>0. nextval \in Nat BY DEF TableTypes
<1>1. ASSUME UNCHANGED <<db, nextval, rows, top, overlay, call>>
      PROVE  TableTypes' /\ TablesInStep' /\ TablesMove
  <2>1. TableTypes' BY <1>1 DEF TableTypes, Tops
  <2>2. TablesInStep' BY <1>1 DEF TablesInStep, CopiesAre, Live
  <2> QED BY <1>0, <1>1, <2>1, <2>2 DEF TablesMove
<1>2. ASSUME NEW o \in Operators,
             Commit(o) \/ Rollback(o) \/ RecordRow(o) \/ ReadOverlay(o) \/ StoreOverlay(o)
      PROVE  TableTypes' /\ TablesInStep' /\ TablesMove
  BY <1>2, CommitInStep, LaterInStep
<1>3. ASSUME NEW o \in Operators, NEW w \in Words, NEW action \in OverrideActions, NEW s, Draw(o, w, action, s)
      PROVE  TableTypes' /\ TablesInStep' /\ TablesMove
  <2>1. nextval' > nextval BY <1>0, <1>3 DEF Draw
  <2> QED BY <1>3, <2>1, DrawInStep
<1>4. ASSUME NEW o \in Operators, NEW w \in Words, NEW action \in OverrideActions, SetWord(o, w, action)
      PROVE  TableTypes' /\ TablesInStep' /\ TablesMove
  BY <1>3, <1>4 DEF SetWord
<1>5. ASSUME NEW o \in Operators, NEW s \in Suggestions, NEW action \in OverrideActions, Approve(o, s, action)
      PROVE  TableTypes' /\ TablesInStep' /\ TablesMove
  <2>1. s[1] \in Words /\ Draw(o, s[1], action, s) BY <1>5 DEF Approve, Suggestions
  <2> QED BY <1>3, <2>1
<1>6. ASSUME NEW s \in Suggestions, Reject(s) PROVE TableTypes' /\ TablesInStep' /\ TablesMove
  BY <1>1, <1>6 DEF Reject, wordVars
<1>7. ASSUME NEW r, NEW s, Submit(r, s) \/ SubmitReport(r, s)
      PROVE  TableTypes' /\ TablesInStep' /\ TablesMove
  BY <1>1, <1>7 DEF Submit, SubmitReport, wordVars
<1> QED BY <1>2, <1>4, <1>5, <1>6, <1>7, RestartInStep, RestoreInStep DEF DictNext

-----------------------------------------------------------------------------
(* The app's steps                                                         *)

\* What the server does under a copy that is not ahead of it when a number is drawn
LEMMA CopyStaysKeptUp ==
  ASSUME TableTypes, TableTypes', TablesMove, NEW s, NEW f, KeptUp(s, f),
         nextval' > nextval => s <= nextval
  PROVE  KeptUp(s, f)'
<1>0. /\ nextval \in Nat /\ top \in Nat /\ nextval' \in Nat /\ top' \in Nat /\ top <= nextval
      /\ s \in Nat /\ f = [w \in Words |-> f[w]]
      /\ (nextval > 0 => s <= top) /\ (s = 0 => f = Bundled)
      /\ s <= top => \A w \in Words : rows[w].seq <= s => f[w] = State(rows[w])
  BY DEF TableTypes, KeptUp
<1>1. CASE UNCHANGED <<rows, top>> /\ nextval' >= nextval
  <2>1. nextval' > 0 => s <= top BY <1>0, <1>1
  <2> QED BY <1>0, <1>1, <2>1 DEF KeptUp
<1>2. CASE /\ nextval' = nextval /\ nextval > 0 /\ top' >= top
           /\ \A w \in Words : rows'[w] = rows[w] \/ rows'[w].seq > top
  <2>1. s <= top /\ s <= top' BY <1>0, <1>2
  <2>2. \A w \in Words : rows'[w].seq \in Nat BY DEF TableTypes, WordRows
  <2>3. ASSUME NEW w \in Words, rows'[w].seq <= s PROVE f[w] = State(rows'[w])
    <3>1. ~(rows'[w].seq > top) BY <1>0, <2>1, <2>2, <2>3
    <3> QED BY <1>0, <1>2, <2>1, <2>3, <3>1
  <2> QED BY <1>0, <1>2, <2>1, <2>3 DEF KeptUp
<1>3. CASE nextval' = 0 /\ top' = 0 /\ \A w \in Words : rows'[w] = Unlisted(w)
  <2>1. ASSUME s <= top', NEW w \in Words PROVE f[w] = State(rows'[w])
    BY <1>0, <1>3, <2>1, BundledWord
  <2> QED BY <1>0, <1>3, <2>1 DEF KeptUp
<1> QED BY <1>1, <1>2, <1>3 DEF TablesMove

LEMMA CopyUnderServer ==
  ASSUME SerialInv, TableTypes', TablesMove, UNCHANGED appVars, nextval' > nextval => ~Ahead
  PROVE  CopyInv'
<1>0. nextval \in Nat BY DEF SerialInv, TableTypes
<1>1. UNCHANGED <<seq, changes, list, saved, delta, mixed>> BY DEF appVars
<1> PICK s : s = seq OBVIOUS
<1> PICK f : f = changes OBVIOUS
<1>2. KeptUp(seq, changes) BY DEF SerialInv, CopyInv
<1>3. KeptUp(s, f) BY <1>2
<1>4. s \in Nat BY <1>3 DEF KeptUp
<1>5. KeptUp(s, f)' BY <1>0, <1>3, <1>4, CopyStaysKeptUp DEF SerialInv, Ahead
<1>6. KeptUp(seq, changes)' BY <1>1, <1>5
<1>7. ASSUME delta # <<>>
      PROVE  delta' = <<delta'[1]>> /\ KeptUp(delta[1].seq, After(delta[1]))'
  <2> PICK d : d = delta[1] OBVIOUS
  <2> PICK n : n = d.seq OBVIOUS
  <2> PICK g : g = After(d) OBVIOUS
  <2>1. KeptUp(n, g) /\ delta = <<d>> BY <1>7 DEF SerialInv, CopyInv
  <2>2. n \in Nat BY <2>1 DEF KeptUp
  <2>3. KeptUp(n, g)' BY <1>0, <1>7, <2>1, <2>2, CopyStaysKeptUp DEF SerialInv, Ahead
  <2>4. After(d)' = g BY <1>1 DEF After
  <2> QED BY <1>1, <2>1, <2>3, <2>4
<1> QED BY <1>1, <1>6, <1>7 DEF CopyInv, SerialInv

\* A page holds the oldest of what is pending: what is as old as one of its words is in it.
LEMMA PageIsOldest ==
  ASSUME TableTypes, NEW pending \in SUBSET Words, NEW p \in DeltaPage(pending),
         NEW w \in pending, rows[w].seq <= rows[p].seq
  PROVE  w \in DeltaPage(pending)
<1> PICK older : older = {v \in pending : rows[v].seq < rows[w].seq} OBVIOUS
<1> PICK before : before = {v \in pending : rows[v].seq < rows[p].seq} OBVIOUS
<1>1. p \in pending /\ Cardinality(before) < DictDeltaMaxRows BY DEF DeltaPage
<1>2. \A v \in Words : rows[v].seq \in Nat BY DEF TableTypes, WordRows
<1>3. older \subseteq before BY <1>1, <1>2
<1>4. IsFiniteSet(pending) BY DeltaAssumption, FS_Subset
<1>5. IsFiniteSet(before) BY <1>4, FS_Subset
<1>6. /\ Cardinality(older) <= Cardinality(before)
      /\ Cardinality(older) \in Nat /\ Cardinality(before) \in Nat
  BY <1>3, <1>5, FS_Subset, FS_CardinalityType
<1>7. Cardinality(older) < DictDeltaMaxRows BY <1>1, <1>6, DeltaAssumption
<1> QED BY <1>7 DEF DeltaPage

\* The answer to an app at number seq: everything up to the number it carries
LEMMA AnswerIsKeptUp ==
  ASSUME TableTypes, KeptUp(seq, changes)
  PROVE  KeptUp(Delta(seq).seq, After(Delta(seq)))
<1> PICK since : since = seq OBVIOUS
<1> PICK f : f = changes OBVIOUS
<1> PICK pending : pending = {w \in Words : rows[w].seq > IF since > top THEN 0 ELSE since} OBVIOUS
<1> PICK slice : slice = DeltaPage(pending) OBVIOUS
<1> PICK told : told = [w \in slice |-> State(rows[w])] OBVIOUS
<1> PICK n : n = IF slice # {} THEN Max({rows[w].seq : w \in slice}) ELSE IF since > top THEN top ELSE since OBVIOUS
<1> PICK g : g = Patch(IF since > top THEN Bundled ELSE f, told) OBVIOUS
<1>0. /\ nextval \in Nat /\ top \in Nat /\ top <= nextval
      /\ \A w \in Words : rows[w].seq \in Nat /\ rows[w].seq <= top
      /\ \A w \in Words : rows[w].seq = 0 => rows[w] = Unlisted(w)
  BY DEF TableTypes, Tops, WordRows
<1>1. /\ since \in Nat /\ f = [w \in Words |-> f[w]] /\ (nextval > 0 => since <= top)
      /\ (since = 0 => f = Bundled)
      /\ since <= top => \A w \in Words : rows[w].seq <= since => f[w] = State(rows[w])
  BY DEF KeptUp
<1>2. Delta(seq) = [seq |-> n, reset |-> (since > top), changes |-> told]
  BY DEF Delta
<1>3. Delta(seq).seq = n /\ After(Delta(seq)) = g
  <2> PICK d : d = Delta(seq) OBVIOUS
  <2>1. d.seq = n /\ d.reset = (since > top) /\ d.changes = told BY <1>2
  <2> QED BY <2>1 DEF After
<1>4. pending \in SUBSET Words /\ slice \in SUBSET Words BY DEF DeltaPage
<1>5. g = [w \in Words |-> g[w]]
      /\ \A w \in Words : g[w] = IF w \in slice THEN State(rows[w]) ELSE IF since > top THEN Bundled[w] ELSE f[w]
  BY <1>4 DEF Patch
<1>6. CASE slice = {}
  <2>1. CASE since > top
    <3>1. nextval = 0 /\ top = 0 BY <1>0, <1>1, <2>1
    <3>2. n = 0 BY <1>6, <2>1, <3>1
    <3>3. \A w \in Words : g[w] = Bundled[w] BY <1>5, <1>6, <2>1
    <3>4. g = Bundled BY <1>5, <3>3 DEF Bundled
    <3>5. \A w \in Words : g[w] = State(rows[w]) BY <1>0, <3>1, <3>3, BundledWord
    <3>6. n \in Nat /\ (nextval > 0 => n <= top) BY ONLY <3>1, <3>2
    <3>7. KeptUp(n, g) BY ONLY <1>5, <3>4, <3>5, <3>6 DEF KeptUp
    <3> QED BY <1>3, <3>7
  <2>2. CASE ~(since > top)
    <3>1. n = since /\ since <= top BY <1>0, <1>1, <1>6, <2>2
    <3>2. \A w \in Words : g[w] = f[w] BY <1>5, <1>6, <2>2
    <3>3. g = f BY <1>1, <1>5, <3>2
    <3>4. KeptUp(n, g) BY ONLY <1>1, <3>1, <3>3 DEF KeptUp
    <3> QED BY <1>3, <3>4
  <2> QED BY <2>1, <2>2
<1>7. CASE slice # {}
  <2> PICK S : S = {rows[w].seq : w \in slice} OBVIOUS
  <2>1. S \in SUBSET Nat /\ S # {} /\ \A x \in S : x <= top BY <1>0, <1>4, <1>7
  <2>2. Max(S) \in S /\ \A y \in S : y <= Max(S) BY <1>0, <2>1, GreatestNumber
  <2>3. n \in S /\ n \in Nat /\ n <= top BY <1>7, <2>1, <2>2
  <2>4. PICK p \in slice : rows[p].seq = n BY <2>3
  <2>5. n > 0
    <3>1. p \in Words /\ rows[p].seq > IF since > top THEN 0 ELSE since BY <2>4 DEF DeltaPage
    <3> QED BY ONLY <1>1, <2>3, <2>4, <3>1
  <2>6. ~(since > top)
    <3> SUFFICES ASSUME since > top PROVE FALSE OBVIOUS
    <3>1. nextval = 0 /\ top = 0 BY <1>0, <1>1
    <3> QED BY ONLY <2>3, <2>5, <3>1
  <2>7. ASSUME NEW w \in Words, rows[w].seq <= n PROVE g[w] = State(rows[w])
    <3>1. CASE w \in slice BY <1>5, <3>1
    <3>2. CASE w \notin slice
      <4>1. w \notin pending BY <2>4, <2>7, <3>2, PageIsOldest, <1>4
      <4>2. rows[w].seq <= since /\ since <= top BY <1>0, <1>1, <2>6, <4>1
      <4> QED BY <1>1, <1>5, <2>6, <3>2, <4>2
    <3> QED BY <3>1, <3>2
  <2>8. n # 0 BY ONLY <2>3, <2>5
  <2>9. KeptUp(n, g) BY ONLY <1>5, <2>3, <2>7, <2>8 DEF KeptUp
  <2> QED BY <1>3, <2>9
<1> QED BY <1>6, <1>7

LEMMA AppStep ==
  ASSUME SerialInv, AskDelta \/ TakeDelta \/ LoseDelta \/ StartApp, UNCHANGED dictVars
  PROVE  SerialInv'
<1>0. UNCHANGED <<db, nextval, rows, top, overlay, call>> BY DEF dictVars, wordVars
<1>1. TableTypes' /\ TablesInStep'
  <2>1. TableTypes' BY <1>0 DEF SerialInv, TableTypes, Tops
  <2>2. TablesInStep' BY <1>0 DEF SerialInv, TablesInStep, CopiesAre, Live
  <2> QED BY <2>1, <2>2
<1>2. ASSUME NEW s, NEW f, KeptUp(s, f) PROVE KeptUp(s, f)' BY <1>0, <1>2 DEF KeptUp
<1>3. CASE AskDelta
  <2>1. /\ delta = <<>> /\ delta' = <<Delta(seq)>> /\ UNCHANGED <<seq, changes, list, saved, mixed>>
    BY <1>3 DEF AskDelta
  <2> PICK d : d = Delta(seq) OBVIOUS
  <2> PICK n : n = d.seq OBVIOUS
  <2> PICK g : g = After(d) OBVIOUS
  <2>2. KeptUp(n, g) BY AnswerIsKeptUp DEF SerialInv, CopyInv
  <2>3. KeptUp(n, g)' BY <1>2, <2>2
  <2>4. After(d)' = g BY <2>1 DEF After
  <2>5. delta' = <<delta'[1]>> /\ KeptUp(delta[1].seq, After(delta[1]))' BY <2>1, <2>3, <2>4
  <2>6. KeptUp(seq, changes)' BY <1>0, <2>1 DEF SerialInv, CopyInv, KeptUp
  <2> QED BY <1>1, <2>1, <2>5, <2>6 DEF SerialInv, CopyInv
<1>4. CASE TakeDelta
  <2> PICK d : d = delta[1] OBVIOUS
  <2> PICK n : n = d.seq OBVIOUS
  <2> PICK g : g = After(d) OBVIOUS
  <2>1. /\ delta # <<>> /\ delta' = <<>> /\ seq' = n /\ changes' = g
        /\ list' = Patch(list, d.changes) /\ saved' = <<seq', changes'>> /\ mixed' = (mixed \/ d.reset)
    BY <1>4 DEF TakeDelta, After
  <2>2. KeptUp(n, g) BY <2>1 DEF SerialInv, CopyInv
  <2>3. KeptUp(n, g)' BY <1>2, <2>2
  <2>4. KeptUp(seq, changes)' BY <2>1, <2>3
  <2>5. ~mixed' => list' = changes'
    <3> SUFFICES ASSUME ~mixed, ~d.reset PROVE list' = changes' BY <2>1
    <3>1. list = changes BY DEF SerialInv, CopyInv
    <3> QED BY <2>1, <3>1 DEF After
  <2>6. mixed' \in BOOLEAN BY <2>1
  <2> QED BY <1>1, <2>1, <2>4, <2>5, <2>6 DEF SerialInv, CopyInv
<1>5. CASE LoseDelta
  <2>1. delta' = <<>> /\ UNCHANGED <<seq, changes, list, saved, mixed>> BY <1>5 DEF LoseDelta
  <2>2. KeptUp(seq, changes)' BY <1>0, <2>1 DEF SerialInv, CopyInv, KeptUp
  <2> QED BY <1>1, <2>1, <2>2 DEF SerialInv, CopyInv
<1>6. CASE StartApp
  <2>1. /\ saved' \in {saved, <<0, Bundled>>} /\ seq' = saved'[1] /\ changes' = saved'[2]
        /\ list' = changes' /\ delta' = <<>> /\ mixed' = FALSE
    BY <1>6 DEF StartApp
  <2>2. CASE saved' = saved
    <3>1. seq' = seq /\ changes' = changes /\ saved' = <<seq', changes'>>
      BY <2>1, <2>2 DEF SerialInv, CopyInv
    <3>2. KeptUp(seq, changes)' BY <1>0, <3>1 DEF SerialInv, CopyInv, KeptUp
    <3> QED BY <1>1, <2>1, <3>1, <3>2 DEF SerialInv, CopyInv
  <2>3. CASE saved' = <<0, Bundled>>
    <3>1. seq' = 0 /\ changes' = Bundled BY <2>1, <2>3
    <3>2. KeptUp(0, Bundled)
      <4>1. \A w \in Words : rows[w].seq \in Nat /\ (rows[w].seq = 0 => rows[w] = Unlisted(w)) /\ top \in Nat
        BY DEF SerialInv, TableTypes, WordRows
      <4>2. \A w \in Words : rows[w].seq <= 0 => Bundled[w] = State(rows[w]) BY <4>1, BundledWord
      <4>3. Bundled = [w \in Words |-> Bundled[w]] BY DEF Bundled
      <4>4. 0 <= top BY <4>1, DeltaAssumption
      <4> QED BY <4>2, <4>3, <4>4 DEF KeptUp
    <3>3. KeptUp(seq, changes)' BY <1>0, <3>1, <3>2 DEF KeptUp
    <3> QED BY <1>1, <2>1, <2>3, <3>1, <3>3 DEF SerialInv, CopyInv
  <2> QED BY <2>1, <2>2, <2>3
<1> QED BY <1>3, <1>4, <1>5, <1>6

LEMMA SerialStep == SerialInv /\ [WordsNext /\ OneEditAtATime]_<<dictVars, appVars>> => SerialInv'
<1> SUFFICES ASSUME SerialInv, [WordsNext /\ OneEditAtATime]_<<dictVars, appVars>> PROVE SerialInv' OBVIOUS
<1>1. CASE UNCHANGED <<dictVars, appVars>>
  <2>1. UNCHANGED <<db, nextval, rows, top, overlay, call, seq, changes, list, saved, delta, mixed>>
    BY <1>1 DEF dictVars, wordVars, appVars
  <2>2. TableTypes' BY <2>1 DEF SerialInv, TableTypes, Tops
  <2>3. TablesInStep' BY <2>1 DEF SerialInv, TablesInStep, CopiesAre, Live
  <2>4. CopyInv' BY <2>1 DEF SerialInv, CopyInv, KeptUp, After
  <2> QED BY <2>2, <2>3, <2>4 DEF SerialInv
<1>2. CASE AppNext BY <1>2, AppStep DEF AppNext
<1>3. CASE DictNext /\ UNCHANGED appVars /\ OneEditAtATime
  <2>1. TableTypes' /\ TablesInStep' /\ TablesMove BY <1>3, ServerStep DEF SerialInv, OneEditAtATime
  <2>2. CopyInv' BY <1>3, <2>1, CopyUnderServer DEF OneEditAtATime
  <2> QED BY <2>1, <2>2 DEF SerialInv
<1> QED BY <1>1, <1>2, <1>3 DEF WordsNext

LEMMA SerialStart == DictInit /\ AppInit => SerialInv
<1> SUFFICES ASSUME DictInit, AppInit PROVE SerialInv OBVIOUS
<1>1. /\ db = [w \in Words |-> Unlisted(w)] /\ nextval = 0 /\ rows = db /\ top = 0 /\ overlay = Live(db)
      /\ call = [o \in Operators |-> Idle]
  BY DEF DictInit, Live
<1>2. /\ seq = 0 /\ changes = Bundled /\ list = Bundled /\ saved = <<0, Bundled>> /\ delta = <<>> /\ mixed = FALSE
  BY DEF AppInit
<1>3. db \in [Words -> WordRows] /\ \A w \in Words : db[w] = Unlisted(w) /\ db[w].seq = 0 BY <1>1, UnlistedRow
<1>4. TableTypes
  <2>1. Tops(rows, top) BY <1>1, <1>3, DeltaAssumption DEF Tops
  <2> QED BY <1>1, <1>3, <2>1 DEF TableTypes
<1>5. CopiesAre(Idle) BY <1>1 DEF CopiesAre
<1>6. TablesInStep BY <1>1, <1>5 DEF TablesInStep
<1>7. KeptUp(seq, changes)
  <2>1. \A w \in Words : Bundled[w] = State(rows[w]) BY <1>1, <1>3, BundledWord
  <2>2. Bundled = [w \in Words |-> Bundled[w]] BY DEF Bundled
  <2> QED BY <1>1, <1>2, <2>1, <2>2 DEF KeptUp
<1>8. CopyInv BY <1>2, <1>7 DEF CopyInv
<1> QED BY <1>4, <1>6, <1>8 DEF SerialInv

LEMMA WordsAreInStep == SerialInv => EditsAreLive /\ AppKeepsUp
<1> SUFFICES ASSUME SerialInv PROVE EditsAreLive /\ AppKeepsUp OBVIOUS
<1>1. EditsAreLive
  <2> SUFFICES ASSUME \A o \in Operators : call[o] = Idle
               PROVE  \A w \in Words : rows[w] = db[w] /\ overlay[w] = State(db[w])
    BY DEF EditsAreLive
  <2>1. CopiesAre(Idle) BY DEF SerialInv, TablesInStep
  <2>2. rows = db /\ overlay = Live(db) BY <2>1, IdleIsIdle DEF CopiesAre
  <2> QED BY <2>2 DEF Live
<1>2. AppKeepsUp
  <2> SUFFICES ASSUME seq <= top
               PROVE  /\ \A w \in Words : rows[w].seq <= seq => changes[w] = State(rows[w])
                      /\ seq = top /\ ~mixed => \A w \in Words : list[w] = State(rows[w])
    BY DEF AppKeepsUp
  <2>1. \A w \in Words : rows[w].seq <= seq => changes[w] = State(rows[w])
    BY DEF SerialInv, CopyInv, KeptUp
  <2>2. ASSUME seq = top, ~mixed, NEW w \in Words PROVE list[w] = State(rows[w])
    <3>1. rows[w].seq <= seq BY <2>2 DEF SerialInv, TableTypes, Tops
    <3>2. list = changes BY <2>2 DEF SerialInv, CopyInv
    <3> QED BY <2>1, <3>1, <3>2
  <2> QED BY <2>1, <2>2
<1> QED BY <1>1, <1>2

\* The dictionary (service/dictionary.go Apply, Load and Delta; the app's
\* dictionary_delta_service.dart): for any words, page size and operators who edit one
\* after the other, whatever fails or restarts in between, the memory and the overlay
\* hold every stored row once no edit is under way; and whatever pages were cut, lost or
\* taken before the app was killed, the app has the latest state of every word up to its
\* number.
THEOREM EditsReachTheApp == SerialSpec => [](EditsAreLive /\ AppKeepsUp)
BY SerialStart, SerialStep, WordsAreInStep, PTL DEF SerialSpec

-----------------------------------------------------------------------------
(* What is published, part by part                                         *)

ContentInv ==
  /\ ReviewInv
  /\ part = "dictionary" => SerialInv /\ \A o \in Operators \ Editing : call[o] = Idle

\* One editor's number is drawn while nobody else edits.
LEMMA OneEditor ==
  ASSUME \A o, p \in Editing : o = p, ContentInv, part = "dictionary",
         DictNext, \A o \in Operators \ Editing : UNCHANGED call[o], nextval' > nextval
  PROVE  \A o \in Operators : call[o] = Idle
<1>0. nextval \in Nat /\ DOMAIN call = Operators BY DEF ContentInv, SerialInv, TableTypes
<1>1. PICK o \in Operators : call[o].pc = "idle" /\ call'[o].pc = "drawn"
  <2>1. ASSUME NEW o \in Operators, NEW w, NEW action, NEW s, Draw(o, w, action, s)
        PROVE  call[o].pc = "idle" /\ call'[o].pc = "drawn"
    BY <1>0, <2>1 DEF Draw
  <2>2. CASE \E o \in Operators, w \in Words, action \in OverrideActions : SetWord(o, w, action)
    BY <2>1, <2>2 DEF SetWord
  <2>3. CASE \E o \in Operators, s \in Suggestions, action \in OverrideActions : Approve(o, s, action)
    BY <2>1, <2>3 DEF Approve
  <2>4. CASE \E o \in Operators : Commit(o) \/ Rollback(o) \/ RecordRow(o) \/ ReadOverlay(o) \/ StoreOverlay(o)
    <3>1. nextval' = nextval BY <2>4 DEF Commit, Rollback, RecordRow, ReadOverlay, StoreOverlay, wordVars
    <3> QED BY <1>0, <3>1
  <2>5. CASE \/ \E s \in Suggestions : Reject(s)
             \/ \E r \in Reporters, s \in Suggestions : Submit(r, s) \/ SubmitReport(r, s)
    <3>1. nextval' = nextval BY <2>5 DEF Reject, Submit, SubmitReport, wordVars
    <3> QED BY <1>0, <3>1
  <2>6. CASE RestartServer \/ RestoreDatabase BY <1>0, <2>6 DEF RestartServer, RestoreDatabase
  <2> QED BY <2>2, <2>3, <2>4, <2>5, <2>6 DEF DictNext, Reporters
<1>2. o \in Editing BY <1>1
<1>3. SUFFICES ASSUME NEW p \in Operators, call[p] # Idle PROVE FALSE OBVIOUS
<1>4. p \in Editing BY <1>3 DEF ContentInv
<1>5. p = o BY <1>2, <1>4
<1>6. CopiesAre(call[p]) BY <1>3, OnlyCall DEF ContentInv, SerialInv
<1>7. call[p].pc # "idle" BY <1>3, <1>6 DEF CopiesAre
<1> QED BY <1>1, <1>5, <1>7

LEMMA ContentStep ==
  ASSUME \A o, p \in Editing : o = p, ContentInv, [ContentNext]_contentVars
  PROVE  ContentInv'
<1>1. ASSUME UNCHANGED <<dictVars, appVars>> PROVE ReviewInv' /\ (SerialInv => SerialInv') /\ UNCHANGED call
  BY <1>1, ReviewStep, SerialStep DEF ContentInv, dictVars
<1>2. CASE UNCHANGED contentVars BY <1>1, <1>2 DEF ContentInv, contentVars
<1>3. CASE part = "dictionary" /\ DictionaryPart /\ NotWords
  <2>1. part' = "dictionary" BY <1>3 DEF NotWords
  <2>2. WordsNext /\ (nextval' > nextval => ~Ahead) /\ \A o \in Operators \ Editing : UNCHANGED call[o]
    BY <1>3 DEF DictionaryPart
  <2>3. OneEditAtATime
    <3>1. ASSUME nextval' > nextval PROVE \A o \in Operators : call[o] = Idle
      <4>1. nextval \in Nat BY <1>3 DEF ContentInv, SerialInv, TableTypes
      <4>2. CASE AppNext
        <5>1. nextval' = nextval BY <4>2 DEF AppNext, dictVars, wordVars
        <5> QED BY <3>1, <4>1, <5>1
      <4>3. CASE DictNext BY <1>3, <2>2, <3>1, <4>3, OneEditor
      <4> QED BY <2>2, <4>2, <4>3 DEF WordsNext
    <3> QED BY <2>2, <3>1 DEF OneEditAtATime
  <2>4. SerialInv' BY <1>3, <2>2, <2>3, SerialStep DEF ContentInv
  <2>5. ReviewInv'
    <3>1. [DictNext]_dictVars BY <2>2 DEF WordsNext, AppNext
    <3> QED BY <3>1, ReviewStep DEF ContentInv
  <2>6. \A o \in Operators \ Editing : call'[o] = Idle BY <1>3, <2>2 DEF ContentInv
  <2> QED BY <2>4, <2>5, <2>6 DEF ContentInv
<1>4. CASE part = "review" /\ ReviewPart /\ NotWords
  <2>1. part' = "review" /\ DictNext BY <1>4 DEF NotWords, ReviewPart
  <2> QED BY <2>1, ReviewStep DEF ContentInv
<1>5. CASE \/ part \in {"catalogue", "wearers"} /\ NotCatalog
           \/ part \in {"delivery", "audience"} /\ NotCampaigns
  <2>1. UNCHANGED <<dictVars, appVars, part>> BY <1>5 DEF NotCatalog, NotCampaigns
  <2> QED BY <1>1, <2>1 DEF ContentInv
<1> QED BY <1>2, <1>3, <1>4, <1>5 DEF ContentNext

\* What operators publish is what they decided, in every part of the composition and for
\* any words, operators, reporters and page size: with one operator editing, the stored
\* rows, the memory, the overlay and the app's copy agree (EditsReachTheApp); with any
\* number of them, reviews are fair (ReviewsAlwaysFair).
THEOREM WordsAlwaysAgree ==
  ASSUME \A o, p \in Editing : o = p
  PROVE  ContentSpec => []WordsAgree
<1>1. ContentInit => ContentInv
  <2> SUFFICES ASSUME ContentInit PROVE ContentInv OBVIOUS
  <2>1. DictInit /\ AppInit BY DEF ContentInit
  <2>2. \A o \in Operators : call[o] = Idle BY <2>1 DEF DictInit
  <2> QED BY <2>1, <2>2, ReviewStart, SerialStart DEF ContentInv
<1>2. ContentInv /\ [ContentNext]_contentVars => ContentInv' BY ContentStep
<1>3. ContentInv => WordsAgree BY WordsAreInStep, ReviewInvIsFair DEF ContentInv, WordsAgree
<1> QED BY <1>1, <1>2, <1>3, PTL DEF ContentSpec
=============================================================================
