---------------------------- MODULE AppDictionary ----------------------------
(***************************************************************************)
(* The app's copy of the dictionary                                        *)
(* (client/lib/core/services/dictionary_delta_service.dart, against        *)
(* DictionaryService.Delta): pages of what changed after a number, applied *)
(* over the bundled list and kept across starts.                           *)
(***************************************************************************)
EXTENDS Dictionary

CONSTANT DictDeltaMaxRows  \* changes in one page

ASSUME DeltaAssumption == Words # {} /\ IsFiniteSet(Words) /\ DictDeltaMaxRows \in Nat \ {0}

VARIABLES
  seq, changes,  \* _seq and _changes ([Words -> state]; a word with no change is as in fa.txt)
  list,          \* [Words -> state]: what DictionaryService of the app answers
  saved,         \* <<seq, changes>>: the copy in SharedPreferences
  delta,         \* the page under way to the app: <<>> or <<page>>
  mixed          \* a reset has been taken since the app started (history)

appVars == <<seq, changes, list, saved, delta, mixed>>
Bundled == [w \in Words |-> State(Unlisted(w))]

AppInit ==
  /\ seq = 0 /\ changes = Bundled /\ list = Bundled /\ saved = <<0, Bundled>>
  /\ delta = <<>> /\ mixed = FALSE

\* The oldest rows of those pending
DeltaPage(pending) == {w \in pending : Cardinality({v \in pending : rows[v].seq < rows[w].seq}) < DictDeltaMaxRows}

\* Delta: an app ahead of the server (a database restored) starts again.
Delta(since) ==
  LET reset == since > top
      pending == {w \in Words : rows[w].seq > IF reset THEN 0 ELSE since}
      page == DeltaPage(pending)
  IN [seq |-> IF page # {} THEN Max({rows[w].seq : w \in page}) ELSE IF reset THEN top ELSE since,
      reset |-> reset, changes |-> [w \in page |-> State(rows[w])]]

Patch(f, page) == [w \in Words |-> IF w \in DOMAIN page THEN page[w] ELSE f[w]]

\* refresh: one at a time; `more` asks again at once, a start or a resume later
AskDelta ==
  /\ delta = <<>> /\ delta' = <<Delta(seq)>>
  /\ UNCHANGED <<seq, changes, list, saved, mixed>>

\* A reset drops what was cached; what was applied stays until the next start.
TakeDelta ==
  LET d == delta[1] IN
  /\ delta # <<>> /\ delta' = <<>>
  /\ seq' = d.seq /\ changes' = Patch(IF d.reset THEN Bundled ELSE changes, d.changes)
  /\ list' = Patch(list, d.changes) /\ saved' = <<seq', changes'>> /\ mixed' = (mixed \/ d.reset)

LoseDelta == delta # <<>> /\ delta' = <<>> /\ UNCHANGED <<seq, changes, list, saved, mixed>>

\* The app starts again: applyCached over the bundled list; a corrupt copy is none.
StartApp ==
  /\ saved' \in {saved, <<0, Bundled>>}
  /\ seq' = saved'[1] /\ changes' = saved'[2] /\ list' = changes'
  /\ delta' = <<>> /\ mixed' = FALSE

AppNext == (AskDelta \/ TakeDelta \/ LoseDelta \/ StartApp) /\ UNCHANGED dictVars
WordsNext == AppNext \/ (DictNext /\ UNCHANGED appVars)

\* One operator at a time.  A restored database gets its next edit once the app that
\* was ahead of it has been told.
Ahead == nextval < seq \/ (delta # <<>> /\ nextval < delta[1].seq)
OneEditAtATime == nextval' > nextval => ~Ahead /\ \A o \in Operators : call[o] = Idle
SerialSpec == DictInit /\ AppInit /\ [][WordsNext /\ OneEditAtATime]_<<dictVars, appVars>>

-----------------------------------------------------------------------------
\* The delta "lets the app's bundled word list catch up without a release"
\* (service/dictionary.go:36-38): whatever pages were cut, lost or taken before
\* the app was killed, it has the latest state of every word up to its number,
\* and once at the server's number it answers as the server does.
AppKeepsUp ==
  seq <= top =>
    /\ \A w \in Words : rows[w].seq <= seq => changes[w] = State(rows[w])
    /\ seq = top /\ ~mixed => \A w \in Words : list[w] = State(rows[w])
=============================================================================
