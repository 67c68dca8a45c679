----------------------------- MODULE PerksCatalog -----------------------------
(***************************************************************************)
(* The taunt and avatar catalogues                                         *)
(* (backend/internal/service/perks_catalog.go over                         *)
(* repository/perks_catalog.go, and the avatar a player picks from them,   *)
(* service/perks.go): two tables, read one after the other into a copy in  *)
(* memory that edits forget and that otherwise ends with its TTL.          *)
(***************************************************************************)
EXTENDS Naturals, Sequences, SequencesExt, FiniteSets

CONSTANTS
  TauntIds, AvatarIds, NoAvatar,
  Readers,          \* calls that need the catalogue
  CatalogEditors,   \* calls of the panel that edit it
  Wearers,          \* players
  CatalogTTL,       \* catalogCacheTTL, in ticks
  MaxTexts          \* texts a taunt is given, bounding the model

ASSUME CatalogAssumption == CatalogTTL \in Nat \ {0} /\ MaxTexts \in Nat \ {0} /\ NoAvatar \notin AvatarIds

VARIABLES
  taunts,     \* the taunts table in picker order: a sequence of <<id, text>>
  avatars,    \* ids in the avatars table
  copy,       \* [loaded, age, taunts, avatars]: the copy served; not loaded is a zero loadedAt
  load,       \* [Readers -> what its ensureLoaded has read]
  editing,    \* editors whose change is committed and who have not invalidated
  page,       \* the ids in the order the operator's page shows
  premium,    \* players whose premium runs
  picked,     \* [Wearers -> AvatarIds or none]: users.avatar_id
  picking,    \* <<player, avatar>> between SetAvatar's look in the catalogue and its UPDATE
  unchanged,  \* ticks since a table changed, up to the TTL (history)
  overtaken   \* a change the copy was not told of, or told of while it was being read (history)

catalogVars == <<taunts, avatars, copy, load, editing, page, premium, picked, picking, unchanged, overtaken>>
tables == <<taunts, avatars>>
people == <<premium, picked, picking>>
NotLoading == [pc |-> "idle"]
Ids(list) == [i \in DOMAIN list |-> list[i][1]]
Fresh == copy.loaded /\ copy.age < CatalogTTL

CatalogInit ==
  /\ taunts = <<>> /\ avatars = {} /\ page = <<>>
  /\ copy = [loaded |-> FALSE, age |-> CatalogTTL, taunts |-> <<>>, avatars |-> {}]
  /\ load = [r \in Readers |-> NotLoading] /\ editing = {}
  /\ premium = {} /\ picked = [u \in Wearers |-> NoAvatar] /\ picking = {}
  /\ unchanged = 0 /\ overtaken = FALSE

-----------------------------------------------------------------------------
\* ensureLoaded, when the copy is not fresh: one list, then the other, then the lock

ListTaunts(r) ==
  /\ load[r].pc = "idle" /\ ~Fresh
  /\ load' = [load EXCEPT ![r] = [pc |-> "avatars", taunts |-> taunts]]
  /\ UNCHANGED <<tables, copy, editing, page, people, unchanged, overtaken>>

ListAvatars(r) ==
  /\ load[r].pc = "avatars"
  /\ load' = [load EXCEPT ![r] = [pc |-> "store", taunts |-> @.taunts, avatars |-> avatars]]
  /\ UNCHANGED <<tables, copy, editing, page, people, unchanged, overtaken>>

StoreCopy(r) ==
  /\ load[r].pc = "store"
  /\ copy' = [loaded |-> TRUE, age |-> 0, taunts |-> load[r].taunts, avatars |-> load[r].avatars]
  /\ load' = [load EXCEPT ![r] = NotLoading]
  /\ overtaken' = (overtaken /\ (load' # [q \in Readers |-> NotLoading] \/ <<copy'.taunts, copy'.avatars>> # tables))
  /\ UNCHANGED <<tables, editing, page, people, unchanged>>

\* Mutant: a refresh that failed counts as one.
Mut_LoadFails(r) ==
  /\ load[r].pc = "avatars" /\ load' = [load EXCEPT ![r] = NotLoading]
  /\ copy' = [copy EXCEPT !.age = 0]
  /\ UNCHANGED <<tables, editing, page, people, unchanged, overtaken>>

\* A failed refresh goes on serving the copy it has, and asks again next time.
LoadFails(r) ==
  /\ load[r].pc = "avatars" /\ load' = [load EXCEPT ![r] = NotLoading]
  /\ UNCHANGED <<tables, copy, editing, page, people, unchanged, overtaken>>

-----------------------------------------------------------------------------
\* Edits: committed, then the copy is forgotten

\* UpsertTaunt without a sort_order: a new one at the end, an old one where it is
UpsertTaunt(t, text) ==
  taunts' = IF t \in ToSet(Ids(taunts))
            THEN [i \in DOMAIN taunts |-> IF taunts[i][1] = t THEN <<t, text>> ELSE taunts[i]]
            ELSE Append(taunts, <<t, text>>)

DropTaunt(t) ==
  t \in ToSet(Ids(taunts)) /\ taunts' = SelectSeq(taunts, LAMBDA x : x[1] # t)

\* ReorderTaunts, with the ids of the page in another order: every taunt once
ReorderTaunts ==
  /\ page # Ids(taunts) /\ ToSet(page) = ToSet(Ids(taunts)) /\ Len(page) = Len(taunts)
  /\ taunts' = [i \in DOMAIN page |-> SelectSeq(taunts, LAMBDA x : x[1] = page[i])[1]]

\* DeleteAvatar clears it from those who had picked it, in its transaction.
UpsertAvatar(a) == a \notin avatars /\ avatars' = avatars \cup {a} /\ UNCHANGED picked
DropAvatar(a) ==
  /\ a \in avatars /\ avatars' = avatars \ {a}
  /\ picked' = [u \in Wearers |-> IF picked[u] = a THEN NoAvatar ELSE picked[u]]

EditTables ==
  \/ /\ ReorderTaunts \/ \E t \in TauntIds : DropTaunt(t) \/ \E text \in 1..MaxTexts : UpsertTaunt(t, text)
     /\ taunts' # taunts /\ UNCHANGED <<avatars, picked>>
  \/ (\E a \in AvatarIds : UpsertAvatar(a) \/ DropAvatar(a)) /\ UNCHANGED taunts

Edit(e) ==
  /\ e \notin editing /\ EditTables /\ editing' = editing \cup {e}
  /\ unchanged' = 0 /\ overtaken' = (overtaken \/ \E r \in Readers : load[r] # NotLoading)
  /\ UNCHANGED <<copy, load, page, premium, picking>>

Invalidate(e) ==
  /\ e \in editing /\ editing' = editing \ {e} /\ copy' = [copy EXCEPT !.loaded = FALSE]
  /\ UNCHANGED <<tables, load, page, people, unchanged, overtaken>>

\* Another process, or SQL by hand
EditElsewhere ==
  /\ EditTables /\ unchanged' = 0 /\ overtaken' = TRUE
  /\ UNCHANGED <<copy, load, editing, page, premium, picking>>

\* The operator's page: the served list, moved about
OpenPage(order) ==
  /\ copy.loaded /\ page' = order /\ IsInjective(order) /\ ToSet(order) = ToSet(Ids(copy.taunts))
  /\ UNCHANGED <<tables, copy, load, editing, people, unchanged, overtaken>>

-----------------------------------------------------------------------------
\* Players

\* SetAvatar looks into the copy, which may be an old one ...
PickAvatar(u, a) ==
  /\ copy.loaded /\ a \in copy.avatars /\ picking' = picking \cup {<<u, a>>}
  /\ UNCHANGED <<tables, copy, load, editing, page, premium, picked, unchanged, overtaken>>

\* ... then UPDATE users ... WHERE premium_until > now()
SetAvatar(u, a) ==
  /\ <<u, a>> \in picking /\ picking' = picking \ {<<u, a>>}
  /\ picked' = IF u \in premium THEN [picked EXCEPT ![u] = a] ELSE picked
  /\ UNCHANGED <<tables, copy, load, editing, page, premium, unchanged, overtaken>>

PremiumTurns(u) ==
  /\ premium' = IF u \in premium THEN premium \ {u} ELSE premium \cup {u}
  /\ UNCHANGED <<tables, copy, load, editing, page, picked, picking, unchanged, overtaken>>

\* GetPerks: the join drops an avatar that was removed.
GetPerks(u) == IF u \in premium /\ picked[u] \in avatars THEN picked[u] ELSE NoAvatar

\* Half a minute is many reads long: no read is under way across a tick.
CatalogTick ==
  /\ \A r \in Readers : load[r] = NotLoading
  /\ copy.age < CatalogTTL \/ unchanged < CatalogTTL
  /\ copy' = [copy EXCEPT !.age = IF @ < CatalogTTL THEN @ + 1 ELSE @]
  /\ unchanged' = IF unchanged < CatalogTTL THEN unchanged + 1 ELSE unchanged
  /\ UNCHANGED <<tables, load, editing, page, people, overtaken>>

CatalogNext ==
  \/ \E r \in Readers : ListTaunts(r) \/ ListAvatars(r) \/ StoreCopy(r) \/ LoadFails(r)
  \/ \E e \in CatalogEditors : Edit(e) \/ Invalidate(e)
  \/ EditElsewhere
  \/ \E order \in SeqOf(TauntIds, Cardinality(TauntIds)) : OpenPage(order)
  \/ \E u \in Wearers, a \in AvatarIds : PickAvatar(u, a) \/ SetAvatar(u, a)
  \/ \E u \in Wearers : PremiumTurns(u)
  \/ CatalogTick

CatalogSpec == CatalogInit /\ [][CatalogNext]_catalogVars

-----------------------------------------------------------------------------
\* "catalogCacheTTL bounds how stale another process' (or a manual SQL) edit
\* can look; edits made through this service invalidate the cache immediately"
\* (service/perks_catalog.go:31-32): a copy served without a read is no older
\* than its TTL, whoever edited and whichever refreshes failed; it is exact
\* when every edit was this service's own and overtook no read; and an avatar
\* shown is one of the table, however the pick and its removal crossed.
CatalogIsFresh ==
  /\ Fresh /\ <<copy.taunts, copy.avatars>> # tables => unchanged <= copy.age
  /\ copy.loaded /\ editing = {} /\ ~overtaken => <<copy.taunts, copy.avatars>> = tables
  /\ \A u \in Wearers : GetPerks(u) \in avatars \cup {NoAvatar}
=============================================================================
