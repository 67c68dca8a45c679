------------------------------- MODULE Scheduler -------------------------------
(***************************************************************************)
(* The minute ticker (backend/internal/scheduler/scheduler.go) with two of *)
(* its jobs: it provides the Daily Challenge rows and starts the analytics *)
(* maintenance in a goroutine (service/analytics.go), while events come in *)
(* from devices that were offline, repeat themselves and have wrong        *)
(* clocks.  Time is cut into slots, SlotsPerDay of them a day, with many   *)
(* 5-minute marks in each.  The other jobs are in WeeklyBoard, DailyBoard  *)
(* and Challenge.                                                          *)
(***************************************************************************)
EXTENDS Integers, Sequences, FiniteSets

CONSTANTS
  Events,      \* events, named by their client_event_id
  SlotsPerDay, \* slots of a day
  Horizon,     \* bound: slots 0 .. Horizon
  PastSkew,    \* config.AnalyticsMaxPastSkew, in slots
  FutureSkew,  \* config.AnalyticsMaxFutureSkew, in slots
  Lookback,    \* config.AnalyticsRollupLookbackDays
  MaxSends     \* bound: batches sent

\* The daily pass looks one day further back than an event may be late.
ASSUME SkewAssumption ==
  /\ SlotsPerDay \in Nat \ {0} /\ Horizon \in Nat
  /\ PastSkew \in Nat /\ FutureSkew \in Nat
  /\ PastSkew % SlotsPerDay = 0 /\ Lookback = PastSkew \div SlotsPerDay + 1

VARIABLES
  clock,    \* the slot of the server's clock
  up,       \* the server process runs
  tickAt,   \* the tick in the ticker's channel (one at most), -1 for none
  job,      \* the tick being worked off: its slot and the jobs left
  provisioned, \* days with a daily_challenges row
  sends,    \* batches so far
  batches,  \* batches in flight: the event, the time it is given, the slot it was checked in
  raw,      \* analytics_events: <<event, ts>>
  install,  \* analytics_installs of the device: first and last day, -1 before the first
  passes,   \* maintenance goroutines: sets of [day, todo]
  passFlags,\* days whose daily pass is done (Redis)
  rolled,   \* [day -> rollup of the day: rows counted], any one of its tables
  overtaken \* history: rows stored too late, the midnight between check and INSERT

ingestVars == <<sends, batches, raw, install, overtaken>>
schedVars  == <<clock, up, tickAt, job, provisioned, ingestVars, passes, passFlags, rolled>>

Slots    == 0 .. Horizon
DayOf(t) == t \div SlotsPerDay
AllDays  == 0 .. DayOf(Horizon)
NoJob    == [slot |-> -1, todo |-> <<>>]

SchedInit ==
  /\ clock = 0 /\ up \in BOOLEAN /\ tickAt = -1 /\ job = NoJob
  /\ provisioned = {} /\ sends = 0 /\ batches = {} /\ raw = {} /\ install = [first |-> -1, last |-> -1]
  /\ passes = {} /\ passFlags = {} /\ rolled = [d \in AllDays |-> {}] /\ overtaken = {}

-----------------------------------------------------------------------------
ClockTicks ==
  /\ clock < Horizon /\ clock' = clock + 1
  /\ UNCHANGED <<up, tickAt, job, provisioned, ingestVars, passes, passFlags, rolled>>

\* time.Ticker at a 5-minute mark: the tick waits in the channel, or is dropped
\* while another waits there.
TickerFires ==
  /\ up /\ tickAt = -1 /\ tickAt' = clock
  /\ UNCHANGED <<clock, up, job, provisioned, ingestVars, passes, passFlags, rolled>>

\* The process ends, with everything it had under way, or starts (which makes
\* sure of the analytics partitions and creates the ticker).
StopOrStart ==
  /\ up' = ~up /\ tickAt' = -1 /\ job' = NoJob /\ passes' = {} /\ batches' = {}
  /\ UNCHANGED <<clock, provisioned, sends, raw, install, passFlags, rolled, overtaken>>

\* The jobs due at a 5-minute mark
JobsDue == <<"ensure", "analytics">>

\* tick
Tick ==
  /\ up /\ job = NoJob /\ tickAt # -1
  /\ job' = [slot |-> tickAt, todo |-> JobsDue] /\ tickAt' = -1
  /\ UNCHANGED <<clock, up, provisioned, ingestVars, passes, passFlags, rolled>>

Doing(name) == up /\ job.todo # <<>> /\ Head(job.todo) = name
JobDone     == job' = IF Len(job.todo) = 1 THEN NoJob ELSE [job EXCEPT !.todo = Tail(@)]

\* Mutant: only tomorrow's row is looked after.
Mut_EnsureDaily(done) ==
  /\ Doing("ensure") /\ JobDone
  /\ done \subseteq {DayOf(job.slot), DayOf(job.slot) + 1}
  /\ provisioned' = provisioned \cup ((done \ {DayOf(job.slot)}) \cap AllDays)
  /\ UNCHANGED <<clock, up, tickAt, ingestVars, passes, passFlags, rolled>>

\* ensureDailyChallenges: today and tomorrow, each may fail.
EnsureDaily(done) ==
  /\ Doing("ensure") /\ JobDone
  /\ done \subseteq {DayOf(job.slot), DayOf(job.slot) + 1}
  /\ provisioned' = provisioned \cup (done \cap AllDays)
  /\ UNCHANGED <<clock, up, tickAt, ingestVars, passes, passFlags, rolled>>

EnsureBoth == \E d \in AllDays : EnsureDaily({d, d + 1}) /\ d = DayOf(job.slot)

\* runAnalytics: CompareAndSwap on the busy flag, which the goroutine resets when
\* it ends, however it ends.  At a 15-minute mark a rollup is asked for.
RunAnalytics(rollup) ==
  /\ Doing("analytics") /\ JobDone
  /\ passes' = IF passes # {} THEN passes
               ELSE {[day |-> DayOf(job.slot),
                      todo |-> IF rollup THEN <<"recent", "lookback", "flag">> ELSE <<"end">>]}
  /\ UNCHANGED <<clock, up, tickAt, provisioned, ingestVars, passFlags, rolled>>

-----------------------------------------------------------------------------
Stored(d) == {r \in raw : DayOf(r[2]) = d}

\* RollupAnalyticsDay: the day's rollup is rebuilt from the raw events, in one
\* transaction.
RollupDays(ds) == rolled' = [d \in AllDays |-> IF d \in ds THEN Stored(d) ELSE rolled[d]]

PassStep(p, rest) ==
  passes' = (passes \ {p}) \cup IF rest = <<>> THEN {} ELSE {[p EXCEPT !.todo = rest]}

\* RefreshRecent: yesterday and today
RefreshRecent(p) ==
  /\ Head(p.todo) = "recent" /\ PassStep(p, Tail(p.todo))
  /\ RollupDays({p.day - 1, p.day})
  /\ UNCHANGED <<clock, up, tickAt, job, provisioned, ingestVars, passFlags>>

\* Mutant: the pass looks back as far as an event may be late.
Mut_RunDailyPass(p) ==
  /\ Head(p.todo) = "lookback" /\ p.day \notin passFlags /\ PassStep(p, Tail(p.todo))
  /\ RollupDays(p.day - Lookback + 1 .. p.day - 1)
  /\ UNCHANGED <<clock, up, tickAt, job, provisioned, ingestVars, passFlags>>

\* RunDailyPass, unless the day's flag is set: the Lookback days before today ...
RunDailyPass(p) ==
  /\ Head(p.todo) = "lookback"
  /\ IF p.day \in passFlags THEN PassStep(p, <<>>) /\ UNCHANGED rolled
     ELSE PassStep(p, Tail(p.todo)) /\ RollupDays(p.day - Lookback .. p.day - 1)
  /\ UNCHANGED <<clock, up, tickAt, job, provisioned, ingestVars, passFlags>>

\* ... and then the flag, which may fail to be set.
FlagPass(p) ==
  /\ Head(p.todo) = "flag" /\ PassStep(p, <<>>)
  /\ passFlags' = passFlags \cup {p.day} \/ UNCHANGED passFlags
  /\ UNCHANGED <<clock, up, tickAt, job, provisioned, ingestVars, rolled>>

\* A statement fails, or nothing but the partitions was asked for: the goroutine ends.
EndPass(p) ==
  /\ PassStep(p, <<>>)
  /\ UNCHANGED <<clock, up, tickAt, job, provisioned, ingestVars, passFlags, rolled>>

-----------------------------------------------------------------------------
\* validateEvent: a time too far in the future or in the past becomes now.
ClampTime(ts) == IF ts > clock + FutureSkew \/ ts < clock - PastSkew THEN clock ELSE ts

\* Ingest: a batch of one event that the device dates at ts is checked against the time
\* it is ...
Ingest(e, ts) ==
  /\ up /\ sends < MaxSends /\ sends' = sends + 1
  /\ batches' = batches \cup {[event |-> e, ts |-> ClampTime(ts), checked |-> clock]}
  /\ UNCHANGED <<clock, up, tickAt, job, provisioned, raw, install, overtaken, passes, passFlags, rolled>>

\* The install row: first_seen only moves back, last_seen only forward.
SeenOn(d) ==
  IF install.first = -1 THEN [first |-> d, last |-> d]
  ELSE [first |-> IF d < install.first THEN d ELSE install.first,
        last  |-> IF d > install.last THEN d ELSE install.last]

\* The first day whose daily pass no longer looks at the day of slot t
ClosedOn(t) == DayOf(t) + Lookback

\* A row is stored on a day that is done with its day, but its batch was checked before.
Overtaken(b) ==
  {row \in {<<b.event, b.ts>>} \ raw : DayOf(b.checked) < ClosedOn(b.ts) /\ ClosedOn(b.ts) <= DayOf(clock)}

\* ... and stored when its transaction commits: the event, ON CONFLICT
\* (client_event_id, ts) DO NOTHING, and its install.  The device repeats a batch whose
\* answer it did not get.
InsertAnalyticsEvents(b) ==
  /\ batches' = batches \ {b}
  /\ raw' = raw \cup {<<b.event, b.ts>>} /\ install' = SeenOn(DayOf(b.ts))
  /\ overtaken' = overtaken \cup Overtaken(b)
  /\ UNCHANGED <<clock, up, tickAt, job, provisioned, sends, passes, passFlags, rolled>>

\* A statement fails and the transaction is rolled back.
InsertFails(b) ==
  /\ batches' = batches \ {b}
  /\ UNCHANGED <<clock, up, tickAt, job, provisioned, sends, raw, install, overtaken, passes, passFlags, rolled>>

SchedNext ==
  \/ ClockTicks \/ StopOrStart \/ TickerFires \/ Tick
  \/ \E rollup \in BOOLEAN : RunAnalytics(rollup)
  \/ \E done \in SUBSET AllDays : EnsureDaily(done)
  \/ \E p \in passes : RefreshRecent(p) \/ RunDailyPass(p) \/ FlagPass(p) \/ EndPass(p)
  \/ \E e \in Events : \E ts \in Slots : Ingest(e, ts)
  \/ \E b \in batches : InsertAnalyticsEvents(b) \/ InsertFails(b)

\* A running server gets its ticks and works them off, and the two upserts succeed
\* some time.
SchedFairness ==
  /\ WF_schedVars(TickerFires) /\ WF_schedVars(Tick) /\ WF_schedVars(RunAnalytics(TRUE))
  /\ SF_schedVars(EnsureBoth)
SchedSpec == SchedInit /\ [][SchedNext]_schedVars /\ SchedFairness

-----------------------------------------------------------------------------
\* Type invariant.
SchedTypeOK ==
  /\ clock \in Slots /\ up \in BOOLEAN /\ tickAt \in -1 .. Horizon
  /\ job.slot \in -1 .. Horizon /\ provisioned \subseteq AllDays
  /\ sends \in 0 .. MaxSends /\ raw \subseteq Events \X Slots /\ overtaken \subseteq raw
  /\ batches \subseteq [event : Events, ts : Slots, checked : Slots]
  /\ install.first \in {-1} \cup AllDays /\ install.last \in {-1} \cup AllDays
  /\ passFlags \subseteq AllDays
  /\ \A d \in AllDays : rolled[d] \subseteq raw

\* One maintenance pass at a time, although a pass may outlast many ticks.
OnePass == Cardinality(passes) <= 1

\* The rollups the panel reads are complete once the last daily pass over a day is
\* done: however long its device was offline, an event is in the rollup of its day,
\* unless that very midnight fell between the check of its batch and its INSERT.
RollupsAreComplete ==
  \A d \in passFlags : d >= Lookback => Stored(d - Lookback) \ overtaken \subseteq rolled[d - Lookback]

\* "The daily pass rebuilds this many past days (late offline uploads)" (config.go): with
\* no exception.  It does not hold: an upload checked before midnight and committed
\* after the new day's pass is in no rollup.
LateUploadsCount ==
  \A d \in passFlags : d >= Lookback => Stored(d - Lookback) \subseteq rolled[d - Lookback]

\* The install row covers every event of the device, in whatever order the batches
\* of an offline device arrive.
InstallSpansEvents ==
  \A r \in raw : install.first <= DayOf(r[2]) /\ DayOf(r[2]) <= install.last

\* What the panel reads is whole: passes do not overlap and miss no late event but one
\* that midnight overtook on its way in, and the install rows span what was stored.
AnalyticsAreWhole == OnePass /\ RollupsAreComplete /\ InstallSpansEvents

\* "Self-healing if the scheduler was down when a day rolled over": a server that
\* stays up gives the day it is in its challenge.
DayIsProvisioned == <>[]up => <>[](DayOf(clock) \in provisioned)

\* "A client retry after a lost response is harmless": an event is stored once.
\* (Doc; it does not hold: a clamped time differs from one try to the next.)
RetryIsHarmless == \A r, s \in raw : r[1] = s[1] => r = s
=============================================================================
