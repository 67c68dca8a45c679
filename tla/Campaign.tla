------------------------------- MODULE Campaign -------------------------------
(***************************************************************************)
(* Messages operators send to players                                      *)
(* (backend/internal/service/admin_notifications.go and notification.go    *)
(* over repository/admin_notifications.go, notification.go and inbox.go).  *)
(* A campaign is stored with its inbox rows in one transaction; its push   *)
(* is delivered behind the request, to the devices of that later moment,   *)
(* by workers whose answers decide the counts and which tokens go.         *)
(***************************************************************************)
EXTENDS Naturals, FiniteSets

CONSTANTS
  Users, Tokens,     \* players; device tokens, which two players may have registered
  Campaigns,         \* calls of Send, and the campaigns they store
  NotifPushWorkers,
  Audiences,         \* audiences sent to: <<kind, users>>, the users of the kind "users" alone
  Text               \* [Campaigns -> title and body]

ASSUME CampaignAssumption ==
  NotifPushWorkers \in Nat \ {0} /\ IsFiniteSet(Users) /\ IsFiniteSet(Tokens)

VARIABLES
  device,    \* [Users \X Tokens -> "absent" or the permission]: device_tokens
  kept,      \* registrations no player took back (history)
  banned,    \* players under a ban
  alive,     \* tokens FCM knows
  campaign,  \* [Campaigns -> row]: notification_campaigns
  inbox,     \* [Campaigns \X Users -> "none", "unread", "read"]: inbox_messages
  recent,    \* campaigns inside NotifDuplicateWindow
  delivery,  \* [Campaigns -> what its Send and then its deliverPush have reached]
  accepted,  \* [Campaigns -> targets FCM took] (history)
  unwritten  \* campaigns whose FinishPush, or closing at a start, failed (history)

campaignVars == <<device, kept, banned, alive, campaign, inbox, recent, delivery, accepted, unwritten>>
players == <<device, kept, banned, alive>>
Off == [pc |-> "off"]
NoCampaign == [status |-> "free", recipients |-> 0, inapp |-> FALSE,
               users |-> 0, devices |-> 0, sent |-> 0, failed |-> 0, removed |-> 0]
Permissions == {"granted", "denied", "not_determined"}

CampaignInit ==
  /\ device = [x \in Users \X Tokens |-> "absent"] /\ kept = {} /\ banned = {} /\ alive = Tokens
  /\ campaign = [c \in Campaigns |-> NoCampaign] /\ inbox = [x \in Campaigns \X Users |-> "none"]
  /\ recent = {} /\ delivery = [c \in Campaigns |-> Off]
  /\ accepted = [c \in Campaigns |-> {}] /\ unwritten = {}

-----------------------------------------------------------------------------
\* Queries

\* The best permission among a player's devices
PushStateOf(u) ==
  LET has == {device[<<u, t>>] : t \in Tokens} IN
  CASE "granted" \in has -> "granted" [] "unknown" \in has -> "unknown"
    [] "denied" \in has -> "denied" [] "not_determined" \in has -> "not_determined" [] OTHER -> "none"

\* Banned accounts are never recipients, whatever the audience.
AudienceWhere(a) ==
  {u \in Users \ banned : CASE a[1] = "all" -> TRUE
                            [] a[1] = "enabled" -> PushStateOf(u) = "granted"
                            [] a[1] = "disabled" -> PushStateOf(u) # "granted"
                            [] a[1] = "users" -> u \in a[2]}

PushTargets(a) == {x \in AudienceWhere(a) \X Tokens : device[x] \in {"granted", "unknown"}}

\* A send to named users names accounts that exist and are not banned.
NormalizeAudience(a) == a[2] \cap banned = {}

\* CountAudience: how many, and how many of them a push can reach
CountAudience(a) == Cardinality(AudienceWhere(a))
Deliverable(a) == Cardinality({u \in AudienceWhere(a) : PushStateOf(u) \in {"granted", "unknown"}})

-----------------------------------------------------------------------------
\* Devices

\* A report of "unknown", of an old client, never overwrites a known value.
RegisterToken(u, t, permission) ==
  /\ t \in alive
  /\ device' = [device EXCEPT ![<<u, t>>] = IF permission = "unknown" /\ @ # "absent" THEN @ ELSE permission]
  /\ kept' = kept \cup {<<u, t>>} /\ UNCHANGED <<banned, alive>>

DeregisterToken(u, t) ==
  /\ device[<<u, t>>] # "absent" /\ device' = [device EXCEPT ![<<u, t>>] = "absent"]
  /\ kept' = kept \ {<<u, t>>} /\ UNCHANGED <<banned, alive>>

\* The app is uninstalled, the token rotated: FCM forgets it for good.
Uninstall(t) == t \in alive /\ alive' = alive \ {t} /\ UNCHANGED <<device, kept, banned>>
BanTurns(u) ==
  /\ banned' = IF u \in banned THEN banned \ {u} ELSE banned \cup {u}
  /\ UNCHANGED <<device, kept, alive>>

PlayerStep ==
  /\ \/ \E u \in Users, t \in Tokens :
          DeregisterToken(u, t) \/ \E p \in Permissions \cup {"unknown"} : RegisterToken(u, t, p)
     \/ \E t \in Tokens : Uninstall(t)
     \/ \E u \in Users : BanTurns(u)
  /\ UNCHANGED <<campaign, inbox, recent, delivery, accepted, unwritten>>

-----------------------------------------------------------------------------
\* Send

\* The audience is sized first: somebody, and somebody a push-only send can reach.
Send(c, a, push, inapp) ==
  /\ campaign[c].status = "free" /\ delivery[c] = Off /\ (push \/ inapp)
  /\ NormalizeAudience(a) /\ CountAudience(a) > 0 /\ (inapp \/ Deliverable(a) > 0)
  /\ delivery' = [delivery EXCEPT ![c] = [pc |-> "sized", audience |-> a, push |-> push, inapp |-> inapp]]
  /\ UNCHANGED <<players, campaign, inbox, recent, accepted, unwritten>>

\* CreateCampaign: the look for the same text, under nobody's lock ...
CheckDuplicate(c) ==
  /\ delivery[c].pc = "sized"
  /\ delivery' = [delivery EXCEPT ![c] =
       IF \E d \in recent : Text[d] = Text[c] THEN Off ELSE [@ EXCEPT !.pc = "checked"]]
  /\ UNCHANGED <<players, campaign, inbox, recent, accepted, unwritten>>

\* ... then the row, its inbox rows and its counts, of the audience as it is now.
CreateCampaign(c) ==
  LET d == delivery[c]
      to == AudienceWhere(d.audience)
  IN /\ d.pc = "checked"
     /\ campaign' = [campaign EXCEPT ![c].status = IF d.push THEN "sending" ELSE "none",
                                     ![c].inapp = d.inapp, ![c].recipients = Cardinality(to)]
     /\ inbox' = [x \in DOMAIN inbox |-> IF x[1] = c /\ d.inapp /\ x[2] \in to THEN "unread" ELSE inbox[x]]
     /\ recent' = recent \cup {c}
     /\ delivery' = [delivery EXCEPT ![c] = IF d.push THEN [pc |-> "resolve", audience |-> d.audience] ELSE Off]
     /\ UNCHANGED <<players, accepted, unwritten>>

CreateFails(c) ==
  /\ delivery[c].pc = "checked" /\ delivery' = [delivery EXCEPT ![c] = Off]
  /\ UNCHANGED <<players, campaign, inbox, recent, accepted, unwritten>>

WindowEnds(c) ==
  /\ c \in recent /\ recent' = recent \ {c}
  /\ UNCHANGED <<players, campaign, inbox, delivery, accepted, unwritten>>

-----------------------------------------------------------------------------
\* deliverPush and SendBatch

DeliveryStep(c, from, to) ==
  /\ delivery[c].pc = from /\ delivery' = [delivery EXCEPT ![c] = to]
  /\ UNCHANGED <<banned, alive, campaign, inbox, recent, unwritten>>

Outcome(status, n, devices, sent, removed) ==
  [pc |-> "finish", status |-> status, users |-> n, devices |-> devices, sent |-> sent,
   failed |-> devices - sent, removed |-> removed]

PushTargetsFails(c) ==
  DeliveryStep(c, "resolve", Outcome("failed", 0, 0, 0, 0)) /\ UNCHANGED <<device, kept, accepted>>

DeliverPush(c) ==
  LET to == PushTargets(delivery[c].audience) IN
  /\ DeliveryStep(c, "resolve", [pc |-> "batch", targets |-> to, queue |-> to, busy |-> {}, sent |-> 0,
                                 gone |-> {}, expired |-> FALSE])
  /\ UNCHANGED <<device, kept, accepted>>

\* A worker takes the next target, while the context runs.
TakeJob(c, x) ==
  LET d == delivery[c] IN
  /\ d.pc = "batch" /\ x \in d.queue /\ Cardinality(d.busy) < NotifPushWorkers /\ ~d.expired
  /\ DeliveryStep(c, "batch", [d EXCEPT !.queue = @ \ {x}, !.busy = @ \cup {x}])
  /\ UNCHANGED <<device, kept, accepted>>

\* Mutant: a bare 404 counts as a dead token.
Mut_TokenGone(answer) == answer \in {"unregistered", "not found"}

\* Only FCM's UNREGISTERED means the token is dead: a bare 404 may be a wrong project.
TokenGone(answer) == answer = "unregistered"

\* What FCM does with a message, and what the worker hears: an answer can be lost.
FcmAnswers(x) ==
  IF x[2] \in alive THEN {<<TRUE, "ok">>, <<TRUE, "lost">>, <<FALSE, "error">>, <<FALSE, "not found">>}
  ELSE {<<FALSE, "unregistered">>, <<FALSE, "error">>}

SendMessage(c, x) ==
  LET d == delivery[c] IN
  /\ d.pc = "batch" /\ x \in d.busy
  /\ \E r \in FcmAnswers(x) :
       /\ DeliveryStep(c, "batch", [d EXCEPT !.busy = @ \ {x}, !.sent = IF r[2] = "ok" THEN @ + 1 ELSE @,
                                             !.gone = IF TokenGone(r[2]) THEN @ \cup {x} ELSE @])
       /\ accepted' = IF r[1] THEN [accepted EXCEPT ![c] = @ \cup {x}] ELSE accepted
  /\ UNCHANGED <<device, kept>>

\* NotifPushTimeout: what is queued is not attempted.
Expire(c) ==
  /\ delivery[c].pc = "batch" /\ ~delivery[c].expired
  /\ DeliveryStep(c, "batch", [delivery[c] EXCEPT !.expired = TRUE]) /\ UNCHANGED <<device, kept, accepted>>

\* The workers are done: the dead tokens are deleted for every user that held
\* them, unless the cleanup fails, and what was not attempted counts as failed.
CloseBatch(c) ==
  LET d == delivery[c]
      n == Cardinality(d.targets)
      status == IF n > 0 /\ d.sent = 0 THEN "failed" ELSE "done"
      people == Cardinality({x[1] : x \in d.targets})
      dead == {x[2] : x \in d.gone}
  IN /\ d.pc = "batch" /\ d.busy = {} /\ (d.queue = {} \/ d.expired)
     /\ \/ /\ device' = [x \in DOMAIN device |-> IF x[2] \in dead THEN "absent" ELSE device[x]]
           /\ DeliveryStep(c, "batch", Outcome(status, people, n, d.sent, Cardinality(d.gone)))
        \/ /\ dead # {} /\ UNCHANGED device
           /\ DeliveryStep(c, "batch", Outcome(status, people, n, d.sent, 0))
     /\ UNCHANGED <<kept, accepted>>

\* The deferred write, on a context of its own; it may fail.
FinishPush(c) ==
  LET d == delivery[c] IN
  /\ d.pc = "finish" /\ delivery' = [delivery EXCEPT ![c] = Off]
  /\ \/ /\ campaign' = [campaign EXCEPT ![c].status = d.status, ![c].users = d.users, ![c].devices = d.devices,
                          ![c].sent = d.sent, ![c].failed = d.failed, ![c].removed = d.removed]
        /\ UNCHANGED unwritten
     \/ UNCHANGED campaign /\ unwritten' = unwritten \cup {c}
  /\ UNCHANGED <<players, inbox, recent, accepted>>

-----------------------------------------------------------------------------
\* The player's inbox; other players' messages and read ones are a silent no-op.
MarkRead(c, u) ==
  /\ inbox[<<c, u>>] = "unread" /\ inbox' = [inbox EXCEPT ![<<c, u>>] = "read"]
  /\ UNCHANGED <<players, campaign, recent, delivery, accepted, unwritten>>

\* What a process that stopped was still sending, at the next start; it may fail.
FailStaleCampaigns ==
  LET stale == {c \in Campaigns : campaign[c].status = "sending"} IN
  \/ /\ campaign' = [c \in Campaigns |-> IF c \in stale THEN [campaign[c] EXCEPT !.status = "interrupted"]
                                         ELSE campaign[c]]
     /\ unwritten' = {}
  \/ UNCHANGED campaign /\ unwritten' = stale

RestartProcess ==
  /\ delivery' = [c \in Campaigns |-> Off] /\ FailStaleCampaigns
  /\ UNCHANGED <<players, inbox, recent, accepted>>

CampaignNext ==
  \/ PlayerStep
  \/ \E c \in Campaigns :
       \/ \E a \in Audiences, push, inapp \in BOOLEAN : Send(c, a, push, inapp)
       \/ CheckDuplicate(c) \/ CreateCampaign(c) \/ CreateFails(c) \/ WindowEnds(c)
       \/ PushTargetsFails(c) \/ DeliverPush(c) \/ Expire(c) \/ CloseBatch(c) \/ FinishPush(c)
       \/ \E x \in Users \X Tokens : TakeJob(c, x) \/ SendMessage(c, x)
       \/ \E u \in Users : MarkRead(c, u)
  \/ RestartProcess

CampaignSpec == CampaignInit /\ [][CampaignNext]_campaignVars

-----------------------------------------------------------------------------
\* "The campaign must leave 'sending'" and "the device list stays honest"
\* (service/admin_notifications.go:283, notification.go:196-197), whatever
\* expired, failed or restarted under the delivery: a campaign is "sending"
\* only under a delivery or after a write that failed; its counts are what FCM
\* took, the rest of its devices having failed; a live token that nobody took
\* back stays; and an in-app campaign has one message for each recipient.
CampaignIsHonest ==
  \A c \in Campaigns :
    LET r == campaign[c] IN
    /\ r.status = "sending" => delivery[c] # Off \/ c \in unwritten
    /\ r.status \in {"done", "failed"} => r.sent + r.failed = r.devices /\ r.removed <= r.failed
    /\ r.sent <= Cardinality(accepted[c])
    /\ \A x \in kept : x[2] \in alive => device[x] # "absent"
    /\ r.inapp => r.recipients = Cardinality({u \in Users : inbox[<<c, u>>] # "none"})
=============================================================================
