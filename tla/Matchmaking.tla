----------------------------- MODULE Matchmaking -----------------------------
(***************************************************************************)
(* The matchmaking queue: backend/internal/service/matchmaking.go, called  *)
(* by handler/match.go.                                                    *)
(*                                                                         *)
(* Every POST /match/queue is one call of Join, a goroutine that registers *)
(* a waiter, pushes an entry on a Redis list and blocks in a select.       *)
(* DELETE /match/queue is Cancel, in a goroutine of its own.  One          *)
(* background goroutine wakes up every 500 ms, reads the list once and     *)
(* works through that copy.  They share s.waiters under s.mu and the list  *)
(* through single Redis commands, and interleave everywhere else.          *)
(*                                                                         *)
(* Time is counted in passes of the background goroutine: a Tick happens   *)
(* after its pass, so the service is assumed to keep up with its ticker.   *)
(* A Redis entry is named by the Join that pushed it (its EnqueuedAt makes *)
(* the JSON unique).  The coin check before the queue is left out: a       *)
(* refused Join changes nothing.                                           *)
(***************************************************************************)
EXTENDS Integers, Sequences, FiniteSets

CONSTANTS
  Users,         \* user ids
  Calls,         \* calls of Join that will be made
  Caller,        \* the user who makes each call
  NoCall,        \* no waiter in the map
  FallbackTicks, \* AIFallbackWaitSec, in ticks
  SlackTicks,    \* the 5 s Join waits longer than that, in ticks
  HangUps,       \* TRUE: a client may close its request at any time
  MaxCancels,    \* bound: calls of Cancel
  MaxRestarts    \* bound: restarts of the server (the Redis list survives)

ASSUME CallAssumption == Caller \in [Calls -> Users] /\ Calls \cap {NoCall, "no", "locked"} = {}
ASSUME TickAssumption == FallbackTicks \in Nat \ {0} /\ SlackTicks \in Nat \ {0}
ASSUME EnvAssumption  == HangUps \in BOOLEAN /\ {MaxCancels, MaxRestarts} \subseteq Nat

VARIABLES
  pc,         \* [Calls -> where that Join is]
  outcome,    \* [Calls -> what it returned]
  age,        \* [Calls -> ticks since its entry was pushed]
  waiters,    \* s.waiters
  box,        \* [Calls -> content of w.ch: a room, or 0]
  done,       \* the calls whose w.done is closed
  queue,      \* the Redis list
  cancelling, \* [Users -> progress of a Cancel: "no", "locked", or its entry]
  bg,         \* background goroutine: "idle" or "passing"
  passed,     \* it has made its pass for this tick
  fresh, stale, \* its copy of the queue
  told,       \* calls of notify it still has to make, <<entry, room>>
  rooms,      \* rooms created so far: the entries of each, one for an AI room
  cancels, restarts \* how many there have been

callVars == <<pc, outcome, age, box, done>>
bgVars   == <<bg, passed, fresh, stale, told, rooms>>
envVars  == <<cancels, restarts>>
vars == <<callVars, waiters, queue, cancelling, bgVars, envVars>>

Deadline == FallbackTicks + SlackTicks
Entries(q) == {q[i] : i \in 1 .. Len(q)}

\* LREM: the list q without entry e
LRem(q, e) ==
  IF e \notin Entries(q) THEN q
  ELSE LET n == CHOOSE n \in 1 .. Len(q) : q[n] = e
       IN  [i \in 1 .. Len(q) - 1 |-> q[IF i < n THEN i ELSE i + 1]]

Init ==
  /\ pc = [j \in Calls |-> "idle"]
  /\ outcome = [j \in Calls |-> "none"]
  /\ age = [j \in Calls |-> 0]
  /\ waiters = [u \in Users |-> NoCall]
  /\ box = [j \in Calls |-> 0]
  /\ done = {}
  /\ queue = <<>>
  /\ cancelling = [u \in Users |-> "no"]
  /\ bg = "idle" /\ passed = FALSE
  /\ fresh = <<>> /\ stale = <<>> /\ told = <<>>
  /\ rooms = <<>>
  /\ cancels = 0 /\ restarts = 0

-----------------------------------------------------------------------------
(* Join.                                                                   *)

\* The waiter is registered,
Register(j) ==
  /\ pc[j] = "idle" /\ waiters[Caller[j]] = NoCall
  /\ waiters' = [waiters EXCEPT ![Caller[j]] = j]
  /\ pc' = [pc EXCEPT ![j] = "registered"]
  /\ UNCHANGED <<outcome, age, box, done, queue, cancelling, bgVars, envVars>>

\* or the user is "already_in_queue".
AlreadyInQueue(j) ==
  /\ pc[j] = "idle" /\ waiters[Caller[j]] # NoCall
  /\ pc' = [pc EXCEPT ![j] = "ended"]
  /\ outcome' = [outcome EXCEPT ![j] = "already_in_queue"]
  /\ UNCHANGED <<age, box, done, waiters, queue, cancelling, bgVars, envVars>>

\* RPUSH of the entry; then the select blocks
Push(j) ==
  /\ pc[j] = "registered"
  /\ queue' = Append(queue, j)
  /\ pc' = [pc EXCEPT ![j] = "waiting"]
  /\ UNCHANGED <<outcome, age, box, done, waiters, cancelling, bgVars, envVars>>

\* The client has hung up: the request context fails the RPUSH.
PushFails(j) ==
  /\ HangUps /\ pc[j] = "registered"
  /\ pc' = [pc EXCEPT ![j] = "returning"]
  /\ outcome' = [outcome EXCEPT ![j] = "hung_up"]
  /\ UNCHANGED <<age, box, done, waiters, queue, cancelling, bgVars, envVars>>

\* The select: any of its ready cases
Select(j) ==
  /\ pc[j] = "waiting"
  /\ pc' = [pc EXCEPT ![j] = "returning"]
  /\ \/ box[j] # 0 /\ outcome' = [outcome EXCEPT ![j] = "room"]
     \/ j \in done /\ outcome' = [outcome EXCEPT ![j] = "cancelled"]
     \/ HangUps /\ outcome' = [outcome EXCEPT ![j] = "hung_up"]
     \/ age[j] >= Deadline /\ outcome' = [outcome EXCEPT ![j] = "timeout"]
  /\ UNCHANGED <<age, box, done, waiters, queue, cancelling, bgVars, envVars>>

\* The deferred delete: whatever waiter the user has now
Unregister(j) ==
  /\ pc[j] = "returning"
  /\ waiters' = [waiters EXCEPT ![Caller[j]] = NoCall]
  /\ pc' = [pc EXCEPT ![j] = "ended"]
  /\ UNCHANGED <<outcome, age, box, done, queue, cancelling, bgVars, envVars>>

-----------------------------------------------------------------------------
(* Cancel.                                                                 *)

\* With s.mu held: the waiter's done channel is closed and the waiter deleted
CancelWaiter(u) ==
  /\ cancels < MaxCancels /\ cancelling[u] = "no"
  /\ done' = IF waiters[u] = NoCall THEN done ELSE done \cup {waiters[u]}
  /\ waiters' = [waiters EXCEPT ![u] = NoCall]
  /\ cancelling' = [cancelling EXCEPT ![u] = "locked"]
  /\ cancels' = cancels + 1
  /\ UNCHANGED <<pc, outcome, age, box, queue, bgVars, restarts>>

\* LRANGE: the first entry of the user, if there is one
CancelFind(u) ==
  /\ cancelling[u] = "locked"
  /\ \/ /\ \A e \in Entries(queue) : Caller[e] # u
        /\ cancelling' = [cancelling EXCEPT ![u] = "no"]
     \/ \E i \in 1 .. Len(queue) :
          /\ Caller[queue[i]] = u /\ \A k \in 1 .. i - 1 : Caller[queue[k]] # u
          /\ cancelling' = [cancelling EXCEPT ![u] = queue[i]]
  /\ UNCHANGED <<callVars, waiters, queue, bgVars, envVars>>

\* LREM of that entry
CancelRemove(u) ==
  /\ cancelling[u] \in Calls
  /\ queue' = LRem(queue, cancelling[u])
  /\ cancelling' = [cancelling EXCEPT ![u] = "no"]
  /\ UNCHANGED <<callVars, waiters, bgVars, envVars>>

-----------------------------------------------------------------------------
(* The background goroutine: runBackground, processQueue, notify.          *)

\* 500 ms pass.  A call with an answer has returned by then.
Tick ==
  /\ bg = "idle" /\ passed
  /\ \A j \in Calls : pc[j] = "waiting" => box[j] = 0 /\ j \notin done
  /\ passed' = FALSE
  /\ age' = [j \in Calls |->
       IF (pc[j] = "waiting" \/ j \in Entries(queue)) /\ age[j] < Deadline
       THEN age[j] + 1 ELSE age[j]]
  /\ UNCHANGED <<pc, outcome, box, done, waiters, queue, cancelling, bg, fresh,
                 stale, told, rooms, envVars>>

\* The split of the list by age.  Entries are pushed at its end, so the old ones are
\* the first n (MatchProofs, ListIsByAge).
Oldest(n, limit) ==
  n \in 0 .. Len(queue) /\ \A i \in 1 .. Len(queue) : age[queue[i]] >= limit <=> i <= n

\* Mutants: entries beyond the fallback window are dropped by the pass; the
\* fallback comes as late as Join waits.
Mut_ReadQueue ==
  /\ bg = "idle" /\ ~passed
  /\ bg' = "passing"
  /\ \E n \in 0 .. Len(queue) : Oldest(n, FallbackTicks) /\ fresh' = SubSeq(queue, n + 1, Len(queue))
  /\ stale' = <<>>
  /\ UNCHANGED <<callVars, waiters, queue, cancelling, passed, told, rooms, envVars>>
Mut_ReadQueueLate ==
  /\ bg = "idle" /\ ~passed
  /\ bg' = "passing"
  /\ \E n \in 0 .. Len(queue) :
       /\ Oldest(n, Deadline)
       /\ stale' = SubSeq(queue, 1, n) /\ fresh' = SubSeq(queue, n + 1, Len(queue))
  /\ UNCHANGED <<callVars, waiters, queue, cancelling, passed, told, rooms, envVars>>

\* processQueue reads the whole list and splits it by age.
ReadQueue ==
  /\ bg = "idle" /\ ~passed
  /\ bg' = "passing"
  /\ \E n \in 0 .. Len(queue) :
       /\ Oldest(n, FallbackTicks)
       /\ stale' = SubSeq(queue, 1, n) /\ fresh' = SubSeq(queue, n + 1, Len(queue))
  /\ UNCHANGED <<callVars, waiters, queue, cancelling, passed, told, rooms, envVars>>

\* Two fresh entries leave the queue and get a room.
Pair ==
  /\ bg = "passing" /\ told = <<>> /\ Len(fresh) >= 2
  /\ fresh' = SubSeq(fresh, 3, Len(fresh))
  /\ queue' = LRem(LRem(queue, fresh[1]), fresh[2])
  /\ rooms' = Append(rooms, {fresh[1], fresh[2]})
  /\ told' = <<<<fresh[1], Len(rooms) + 1>>, <<fresh[2], Len(rooms) + 1>>>>
  /\ UNCHANGED <<callVars, waiters, cancelling, bg, passed, stale, envVars>>

\* A stale entry leaves the queue and gets a room in which the AI is seated.
Fallback ==
  /\ bg = "passing" /\ told = <<>> /\ Len(fresh) < 2 /\ stale # <<>>
  /\ stale' = Tail(stale)
  /\ queue' = LRem(queue, Head(stale))
  /\ rooms' = Append(rooms, {Head(stale)})
  /\ told' = <<<<Head(stale), Len(rooms) + 1>>>>
  /\ UNCHANGED <<callVars, waiters, cancelling, bg, passed, fresh, envVars>>

\* notify: the current waiter of the entry's user, if its buffer is free
Notify ==
  /\ told # <<>>
  /\ told' = Tail(told)
  /\ LET w == waiters[Caller[Head(told)[1]]]
     IN  box' = [j \in Calls |->
           IF j = w /\ box[j] = 0 THEN Head(told)[2] ELSE box[j]]
  /\ UNCHANGED <<pc, outcome, age, done, waiters, queue, cancelling, bg, passed,
                 fresh, stale, rooms, envVars>>

EndPass ==
  /\ bg = "passing" /\ told = <<>> /\ Len(fresh) < 2 /\ stale = <<>>
  /\ bg' = "idle" /\ passed' = TRUE /\ fresh' = <<>>
  /\ UNCHANGED <<callVars, waiters, queue, cancelling, stale, told, rooms, envVars>>

\* The process dies and is started again: goroutines and the map are gone,
\* the Redis list is not.
Restart ==
  /\ restarts < MaxRestarts
  /\ restarts' = restarts + 1
  /\ LET cut == {j \in Calls : pc[j] \in {"registered", "waiting", "returning"}}
     IN  /\ pc' = [j \in Calls |-> IF j \in cut THEN "ended" ELSE pc[j]]
         /\ outcome' = [j \in Calls |-> IF j \in cut THEN "cut" ELSE outcome[j]]
  /\ waiters' = [u \in Users |-> NoCall]
  /\ cancelling' = [u \in Users |-> "no"]
  /\ bg' = "idle" /\ passed' = FALSE
  /\ fresh' = <<>> /\ stale' = <<>> /\ told' = <<>>
  /\ UNCHANGED <<age, box, done, queue, rooms, cancels>>

Background == Tick \/ ReadQueue \/ Pair \/ Fallback \/ Notify \/ EndPass

Next ==
  \/ \E j \in Calls :
       \/ Register(j) \/ AlreadyInQueue(j) \/ Push(j) \/ PushFails(j)
       \/ Select(j) \/ Unregister(j)
  \/ \E u \in Users : CancelWaiter(u) \/ CancelFind(u) \/ CancelRemove(u)
  \/ Background
  \/ Restart

Spec == Init /\ [][Next]_vars

\* The background goroutine and the goroutines of accepted calls run.
FairSpec ==
  /\ Spec
  /\ WF_vars(Background)
  /\ \A j \in Calls : WF_vars(Push(j) \/ Select(j) \/ Unregister(j))

-----------------------------------------------------------------------------
\* Type invariant.
TypeOK ==
  /\ pc \in [Calls -> {"idle", "registered", "waiting", "returning", "ended"}]
  /\ outcome \in [Calls -> {"none", "room", "cancelled", "hung_up", "timeout",
                            "already_in_queue", "cut"}]
  /\ age \in [Calls -> 0 .. Deadline]
  /\ waiters \in [Users -> Calls \cup {NoCall}]
  /\ box \in [Calls -> 0 .. Len(rooms)]
  /\ done \subseteq Calls
  /\ queue \in Seq(Calls) /\ fresh \in Seq(Calls) /\ stale \in Seq(Calls)
  /\ cancelling \in [Users -> {"no", "locked"} \cup Calls]
  /\ bg \in {"idle", "passing"} /\ passed \in BOOLEAN
  /\ told \in Seq(Calls \X (1 .. Len(rooms)))
  /\ rooms \in Seq(SUBSET Calls)
  /\ cancels \in 0 .. MaxCancels /\ restarts \in 0 .. MaxRestarts

\* Every entry is served at most once, whatever its caller, a Cancel or a
\* restart do meanwhile: no entry appears in two rooms, and none that has a room
\* is still in the queue (processQueue removes it first).
OneRoomPerEntry ==
  /\ \A r, s \in 1 .. Len(rooms) : r # s => rooms[r] \cap rooms[s] = {}
  /\ \A r \in 1 .. Len(rooms) : rooms[r] \cap Entries(queue) = {}

\* A Join only ever returns a room that was made for its caller: a result meant
\* for somebody else never reaches it, though notify looks waiters up by user
\* and not by call.
RoomIsMine ==
  \A j \in Calls : box[j] # 0 => Caller[j] \in {Caller[e] : e \in rooms[box[j]]}

\* Patient callers are always answered: "Wait slightly longer than the AI
\* fallback window so the background goroutine has time to create the AI room
\* and notify us."
AnsweredInTime == \A j \in Calls : outcome[j] # "timeout"

\* A room for two is for two people ("Pair fresh players two at a time").
TwoPeople ==
  \A r \in 1 .. Len(rooms) : \A e, f \in rooms[r] : e # f => Caller[e] # Caller[f]

\* Nobody is sent to a room nobody else is told about: after the pass that made
\* a room, all of its callers have it.
AllAreTold ==
  bg = "idle" => \A r \in 1 .. Len(rooms) : \A e \in rooms[r] : box[e] = r

\* Whoever hangs up, cancels or restarts, an entry gets one room at most and a call
\* only ever returns a room of its own; and while nobody does, callers meet: a room
\* is for different people, all of them are told, and none waits in vain.
Patient == cancels = 0 /\ restarts = 0 /\ \A j \in Calls : outcome[j] # "hung_up"
CallersMeet ==
  OneRoomPerEntry /\ RoomIsMine /\ (Patient => TwoPeople /\ AllAreTold /\ AnsweredInTime)

\* Every Join returns, and every entry leaves the queue, also those whose caller
\* hung up or died with the server: once the calls are made, the service comes
\* to rest with nobody waiting and nothing queued.
EverythingEnds ==
  <>[](queue = <<>> /\ \A j \in Calls : pc[j] \in {"idle", "ended"})

=============================================================================
