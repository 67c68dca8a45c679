------------------------------ MODULE AdminAuth ------------------------------
(***************************************************************************)
(* Sign-in to the operators' panel (backend/internal/service/admin_auth.go *)
(* over repository/admin.go, middleware/admin.go, handler/admin_auth.go    *)
(* and cmd/adminctl).  A session is a Redis key with a time to live that   *)
(* each request slides, never past the absolute cap; a set per admin, with *)
(* a life of its own, lists its sessions so that adminctl can end them.    *)
(* Each Redis command is a step; a tick of the clock is hours, a request   *)
(* is over within one.                                                     *)
(***************************************************************************)
EXTENDS Integers, FiniteSets

CONSTANTS
  Admins,       \* usernames
  Owner,        \* the one that exists from the start
  Tokens,       \* session tokens, each drawn once
  NoToken,
  Logins,       \* calls of Login that may overlap
  Requests,     \* authenticated requests that may overlap
  IdleTTL, AbsTTL, LoginWindow,        \* config, in ticks
  MaxFails,     \* config: failed logins of a username (and, here, of the address)
  MaxPasswords  \* bound: passwords set

ASSUME AdminAuthAssumption ==
  /\ Owner \in Admins /\ NoToken \notin Tokens
  /\ IdleTTL \in Nat \ {0} /\ AbsTTL \in Nat /\ IdleTTL <= AbsTTL
  /\ LoginWindow \in Nat \ {0} /\ MaxFails \in Nat \ {0} /\ MaxPasswords \in Nat

VARIABLES
  admin,    \* [Admins -> [exists, disabled, password]]; a password is its version
  stored,   \* admin:sess: [Tokens -> [admin, age, ttl]], or Expired
  index,    \* admin:sessions: [Admins -> [tokens, ttl]]
  drawn,    \* tokens drawn so far
  fails,    \* admin:login: [username or "ip" -> [n, ttl]], ttl -1 for none
  panel,    \* the cached answer of Enabled: [known, value]
  login, request, ctl,  \* calls in flight
  stray     \* sessions opened while a RevokeAll was under way (history)

adminVars == <<admin, stored, index, drawn, fails, panel, login, request, ctl, stray>>

Expired  == [admin |-> Owner, age |-> 0, ttl |-> 0]
NoIndex  == [tokens |-> {}, ttl |-> 0]
NoFails  == [n |-> 0, ttl |-> -1]
FailKeys == Admins \cup {"ip"}
Waiting  == [pc |-> "idle"]
Live(t)  == stored[t].ttl > 0

AdminAuthInit ==
  /\ admin = [a \in Admins |-> [exists |-> a = Owner, disabled |-> FALSE, password |-> 1]]
  /\ stored = [t \in Tokens |-> Expired] /\ index = [a \in Admins |-> NoIndex]
  /\ drawn = {} /\ fails = [k \in FailKeys |-> NoFails]
  /\ panel = [known |-> FALSE, value |-> FALSE]
  /\ login = [l \in Logins |-> Waiting] /\ request = [q \in Requests |-> Waiting]
  /\ ctl = Waiting /\ stray = {}

-----------------------------------------------------------------------------
CountActive == Cardinality({a \in Admins : admin[a].exists /\ ~admin[a].disabled})

\* Enabled: cached for seconds; when the count fails, the last known answer.
Enabled ==
  \/ panel.known /\ panel.value /\ UNCHANGED panel
  \/ ~panel.known /\ CountActive > 0 /\ panel' = [known |-> TRUE, value |-> TRUE]
  \/ ~panel.known /\ panel.value /\ UNCHANGED panel
NotEnabled == ~panel.known /\ CountActive = 0 /\ panel' = [known |-> TRUE, value |-> FALSE]

LoginThrottled(a) == fails["ip"].n >= MaxFails \/ fails[a].n >= MaxFails
SetLogin(l, call) == login' = [login EXCEPT ![l] = call]

\* Login: the counters are read ...
Login(l, a, typed) ==
  /\ login[l].pc = "idle" /\ Enabled /\ ~LoginThrottled(a)
  /\ SetLogin(l, [pc |-> "lookup", admin |-> a, typed |-> typed])
  /\ UNCHANGED <<admin, stored, index, drawn, fails, request, ctl, stray>>

\* ... the row is read and compared ...
CompareHash(l) ==
  LET row == admin[login[l].admin]
  IN  /\ login[l].pc = "lookup"
      /\ SetLogin(l, [login[l] EXCEPT !.pc =
           IF row.exists /\ row.password = login[l].typed /\ ~row.disabled THEN "open" ELSE "count"])
      /\ UNCHANGED <<admin, stored, index, drawn, fails, panel, request, ctl, stray>>

\* ... a failure is counted under both keys; the first Incr of a window also sets
\* its end, in a command of its own that may fail ...
Incr(k) == IF fails[k].n < MaxFails THEN fails[k].n + 1 ELSE MaxFails  \* counted on, to no effect
RecordLoginFailure(l) ==
  LET keys == {"ip", login[l].admin}
  IN  /\ login[l].pc = "count" /\ SetLogin(l, Waiting)
      /\ \E counted \in SUBSET keys, ended \in SUBSET keys :
           fails' = [k \in FailKeys |->
             IF k \notin counted THEN fails[k]
             ELSE [n |-> Incr(k), ttl |-> IF fails[k].n = 0 /\ k \in ended THEN LoginWindow ELSE fails[k].ttl]]
      /\ UNCHANGED <<admin, stored, index, drawn, panel, request, ctl, stray>>

\* Mutant: the index lives as long as the session just opened.
Mut_SetIndex(a, t) == index' = [index EXCEPT ![a] = [tokens |-> @.tokens \cup {t}, ttl |-> IdleTTL]]

SetIndex(a, t) == index' = [index EXCEPT ![a] = [tokens |-> @.tokens \cup {t}, ttl |-> AbsTTL]]

\* ... or a session is opened, in one transaction of Redis, and the username's
\* failures are forgotten.
CreateSession(l, t) ==
  LET a == login[l].admin
  IN  /\ login[l].pc = "open" /\ t \notin drawn /\ drawn' = drawn \cup {t}
      /\ stored' = [stored EXCEPT ![t] = [admin |-> a, age |-> 0, ttl |-> IdleTTL]]
      /\ SetIndex(a, t)
      /\ stray' = IF ctl.pc = "del" /\ ctl.admin = a THEN stray \cup {t} ELSE stray
      /\ SetLogin(l, [login[l] EXCEPT !.pc = "forget"])
      /\ UNCHANGED <<admin, fails, panel, request, ctl>>
ForgetFailures(l) ==
  /\ login[l].pc = "forget" /\ SetLogin(l, Waiting)
  /\ fails' = [fails EXCEPT ![login[l].admin] = NoFails] \/ UNCHANGED fails
  /\ UNCHANGED <<admin, stored, index, drawn, panel, request, ctl, stray>>
LoginFails(l) ==
  /\ login[l].pc \in {"lookup", "open"} /\ SetLogin(l, Waiting)
  /\ UNCHANGED <<admin, stored, index, drawn, fails, panel, request, ctl, stray>>

-----------------------------------------------------------------------------
SetRequest(q, call) == request' = [request EXCEPT ![q] = call]

\* RequireAdmin, Authenticate: the key is read; past the cap it is revoked ...
Authenticate(q, t) ==
  LET remaining == AbsTTL - stored[t].age
  IN  /\ request[q].pc = "idle" /\ Enabled /\ Live(t)
      /\ SetRequest(q, [pc |-> IF remaining <= 0 THEN "revoke" ELSE "row", token |-> t,
                        admin |-> stored[t].admin, remaining |-> remaining])
      /\ UNCHANGED <<admin, stored, index, drawn, fails, login, ctl, stray>>

\* ... the admin is read again, whatever the session says ...
GetByID(q) ==
  LET row == admin[request[q].admin]
  IN  /\ request[q].pc = "row"
      /\ SetRequest(q, [request[q] EXCEPT !.pc = IF row.exists /\ ~row.disabled THEN "slide" ELSE "revoke"])
      /\ UNCHANGED <<admin, stored, index, drawn, fails, panel, login, ctl, stray>>

SlideTTL(remaining) == IF remaining < IdleTTL THEN remaining ELSE IdleTTL

\* ... and Expire slides the window of a key that is still there, before the handler
\* runs: that of Logout revokes.
Slide(q) ==
  LET t == request[q].token
  IN  /\ request[q].pc = "slide"
      /\ SetRequest(q, Waiting) \/ SetRequest(q, [request[q] EXCEPT !.pc = "revoke"])
      /\ stored' = IF Live(t) THEN [stored EXCEPT ![t].ttl = SlideTTL(request[q].remaining)] ELSE stored
      /\ UNCHANGED <<admin, index, drawn, fails, panel, login, ctl, stray>>

\* revoke: one transaction; when it fails, that is logged.
Revoke(q) ==
  LET t == request[q].token  a == request[q].admin
  IN  /\ request[q].pc = "revoke" /\ SetRequest(q, Waiting)
      /\ \/ stored' = [stored EXCEPT ![t] = Expired] /\ index' = [index EXCEPT ![a].tokens = @ \ {t}]
         \/ UNCHANGED <<stored, index>>
      /\ UNCHANGED <<admin, drawn, fails, panel, login, ctl, stray>>
RequestFails(q) ==
  /\ request[q].pc \in {"row", "slide"} /\ SetRequest(q, Waiting)
  /\ UNCHANGED <<admin, stored, index, drawn, fails, panel, login, ctl, stray>>

-----------------------------------------------------------------------------
\* adminctl: one command at a time, its row first ...
CreateAdmin(a) ==
  /\ ctl.pc = "idle" /\ ~admin[a].exists /\ admin' = [admin EXCEPT ![a].exists = TRUE]
  /\ UNCHANGED <<stored, index, drawn, fails, panel, login, request, ctl, stray>>
SetPassword(a) ==
  /\ ctl.pc = "idle" /\ admin[a].exists /\ admin[a].password < MaxPasswords
  /\ admin' = [admin EXCEPT ![a].password = @ + 1] /\ ctl' = [pc |-> "list", admin |-> a]
  /\ UNCHANGED <<stored, index, drawn, fails, panel, login, request, stray>>
SetDisabled(a, disabled) ==
  /\ ctl.pc = "idle" /\ admin[a].exists /\ admin' = [admin EXCEPT ![a].disabled = disabled]
  /\ ctl' = IF disabled THEN [pc |-> "list", admin |-> a] ELSE ctl
  /\ UNCHANGED <<stored, index, drawn, fails, panel, login, request, stray>>

\* ... then RevokeAll: SMembers, and one Del of the keys and of the index.
ListSessions ==
  /\ ctl.pc = "list" /\ ctl' = [pc |-> "del", admin |-> ctl.admin, tokens |-> index[ctl.admin].tokens]
  /\ UNCHANGED <<admin, stored, index, drawn, fails, panel, login, request, stray>>
DelSessions ==
  /\ ctl.pc = "del" /\ ctl' = Waiting
  /\ stored' = [t \in Tokens |-> IF t \in ctl.tokens THEN Expired ELSE stored[t]]
  /\ index' = [index EXCEPT ![ctl.admin] = NoIndex]
  /\ UNCHANGED <<admin, drawn, fails, panel, login, request, stray>>
CtlFails ==
  /\ ctl.pc # "idle" /\ ctl' = Waiting
  /\ UNCHANGED <<admin, stored, index, drawn, fails, panel, login, request, stray>>

-----------------------------------------------------------------------------
\* The panel is asked for while it does not exist.
AskPanel ==
  /\ NotEnabled
  /\ UNCHANGED <<admin, stored, index, drawn, fails, login, request, ctl, stray>>
PanelCacheEnds ==
  /\ panel.known /\ panel' = [panel EXCEPT !.known = FALSE]
  /\ UNCHANGED <<admin, stored, index, drawn, fails, login, request, ctl, stray>>

\* A tick: Redis drops the keys whose time is over.
Older(s) == IF s.ttl <= 1 THEN Expired ELSE [s EXCEPT !.age = @ + 1, !.ttl = @ - 1]
Tick ==
  /\ \A q \in Requests : request[q].pc = "idle"
  /\ stored' = [t \in Tokens |-> Older(stored[t])]
  /\ index' = [a \in Admins |-> IF index[a].ttl <= 1 THEN NoIndex ELSE [index[a] EXCEPT !.ttl = @ - 1]]
  /\ fails' = [k \in FailKeys |-> IF fails[k].ttl = 1 THEN NoFails
                                  ELSE IF fails[k].ttl = -1 THEN fails[k] ELSE [fails[k] EXCEPT !.ttl = @ - 1]]
  /\ UNCHANGED <<admin, drawn, panel, login, request, ctl, stray>>

AdminAuthNext ==
  \/ \E l \in Logins :
       \/ \E a \in Admins : \E typed \in {0, admin[a].password} : Login(l, a, typed)
       \/ CompareHash(l) \/ RecordLoginFailure(l) \/ ForgetFailures(l) \/ LoginFails(l)
       \/ \E t \in Tokens : CreateSession(l, t)
  \/ \E q \in Requests :
       \/ \E t \in Tokens : Authenticate(q, t)
       \/ GetByID(q) \/ Slide(q) \/ Revoke(q) \/ RequestFails(q)
  \/ \E a \in Admins : CreateAdmin(a) \/ SetPassword(a) \/ \E d \in BOOLEAN : SetDisabled(a, d)
  \/ ListSessions \/ DelSessions \/ CtlFails \/ AskPanel \/ PanelCacheEnds \/ Tick

AdminAuthSpec == AdminAuthInit /\ [][AdminAuthNext]_adminVars

-----------------------------------------------------------------------------
\* Type invariant.
AdminAuthTypeOK ==
  /\ admin \in [Admins -> [exists : BOOLEAN, disabled : BOOLEAN, password : 1 .. MaxPasswords]]
  /\ stored \in [Tokens -> [admin : Admins, age : 0 .. AbsTTL, ttl : 0 .. IdleTTL]]
  /\ index \in [Admins -> [tokens : SUBSET Tokens, ttl : 0 .. AbsTTL]]
  /\ drawn \subseteq Tokens /\ stray \subseteq drawn
  /\ fails \in [FailKeys -> [n : 0 .. MaxFails, ttl : -1 .. LoginWindow]]
  /\ panel \in [known : BOOLEAN, value : BOOLEAN]

\* "Each successful call slides the idle window, never past the absolute cap": a
\* session that is used all the time is gone at the cap.
CapIsKept == \A t \in Tokens : Live(t) => stored[t].age < AbsTTL

\* "RevokeAll ends every session of one admin": the set it works from lists every
\* live session, also those kept alive by requests and those opened long after the
\* set was made.  Only a session opened between the two commands of a RevokeAll is
\* missing.
SessionsAreListed ==
  \A t \in Tokens : Live(t) => t \in index[stored[t].admin].tokens \cup stray

\* Sessions can end, by time and by adminctl.
PanelSessionsEnd == CapIsKept /\ SessionsAreListed
=============================================================================
