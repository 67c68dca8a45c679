------------------------------ MODULE MCContent ------------------------------
(***************************************************************************)
(* One run for what operators publish: the dictionary and the app's copy   *)
(* of it, the reviews of reports, the catalogues and the campaigns.  They  *)
(* share no variable, so each behaviour belongs to one of the parts that   *)
(* `part`, chosen at the start, names.                                     *)
(***************************************************************************)
EXTENDS AppDictionary, PerksCatalog, Campaign

CONSTANTS Parts, Editing, w1, u1, u2, d1, d2, c1, r2, e2
MCText == [c \in Campaigns |-> "hello"]
MCAudiences == {<<"all", {}>>, <<"enabled", {}>>, <<"disabled", {}>>, <<"users", {u1}>>}

VARIABLE part
contentVars == <<dictVars, appVars, catalogVars, campaignVars, part>>

ContentInit ==
  /\ DictInit /\ AppInit /\ CatalogInit /\ CampaignInit /\ part \in Parts

-----------------------------------------------------------------------------
\* One operator at a time (where Editing says so) and one app
DictionaryPart ==
  /\ WordsNext /\ (nextval' > nextval => ~Ahead)
  /\ \A o \in Operators \ Editing : UNCHANGED call[o]
  /\ UNCHANGED <<reports, reporting, rewards>> /\ \A s \in Suggestions : UNCHANGED status[s]
\* Two operators and the reports of one word
ReviewPart ==
  /\ DictNext /\ UNCHANGED appVars /\ nextval' \in {nextval, 1, 2}
  /\ \A w \in Words \ {w1} : db'[w] = db[w] /\ \A k \in {"add", "remove"} : <<w, k>> \notin {x[2] : x \in reporting'}
  /\ \A o \in Operators : call'[o].pc = "drawn" => call'[o].word = w1 /\ call'[o].about # NoSuggestion
\* The taunts, read by one call and edited by one; the avatars players pick,
\* read and edited by two
CataloguePart == CatalogNext /\ UNCHANGED <<people, avatars, load[r2]>> /\ e2 \notin editing'
WearersPart == CatalogNext /\ UNCHANGED <<taunts, page>>

\* One push delivered to devices on which notifications are allowed
DeliveryPart ==
  /\ CampaignNext /\ UNCHANGED <<banned, inbox>> /\ \A c \in Campaigns \ {c1} : UNCHANGED delivery[c]
  /\ recent \subseteq recent' /\ ~campaign'[c1].inapp
  /\ \A x \in DOMAIN device : device'[x] \in IF x = <<u2, d2>> THEN {"absent"} ELSE {"absent", "granted"}
\* Two campaigns, who they are for, and one device of u1, up to the delivery
AudiencePart ==
  /\ CampaignNext /\ UNCHANGED <<alive, accepted>> /\ u2 \notin banned'
  /\ \A x \in DOMAIN device : x # <<u1, d1>> => UNCHANGED device[x]
  /\ \A c \in Campaigns : delivery'[c].pc # "batch" /\ campaign'[c].status # "interrupted"
  /\ \A c \in Campaigns \ {c1} : delivery'[c].pc = "sized" => delivery'[c].audience[1] = "all" /\ ~delivery'[c].push

NotWords == UNCHANGED <<catalogVars, campaignVars, part>>
NotCatalog == UNCHANGED <<dictVars, appVars, campaignVars, part>>
NotCampaigns == UNCHANGED <<dictVars, appVars, catalogVars, part>>

ContentNext ==
  \/ part = "dictionary" /\ DictionaryPart /\ NotWords
  \/ part = "review" /\ ReviewPart /\ NotWords
  \/ part = "catalogue" /\ CataloguePart /\ NotCatalog
  \/ part = "wearers" /\ WearersPart /\ NotCatalog
  \/ part = "delivery" /\ DeliveryPart /\ NotCampaigns
  \/ part = "audience" /\ AudiencePart /\ NotCampaigns

ContentSpec == ContentInit /\ [][ContentNext]_contentVars

-----------------------------------------------------------------------------
\* What is published is what was decided: with one operator at a time, who edits a
\* restored database once the app ahead of it has been told (OneEditAtATime), the
\* stored rows, the memory, the overlay and the app's copy agree; with two, a
\* suggestion is decided once and pays its first signed-in reporter once.
WordsAgree ==
  /\ part = "dictionary" => EditsAreLive /\ AppKeepsUp
  /\ ReviewsAreFair
=============================================================================
