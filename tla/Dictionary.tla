------------------------------ MODULE Dictionary ------------------------------
(***************************************************************************)
(* The dictionary over fa.txt and the reports that change it               *)
(* (backend/internal/service/dictionary.go, engine/dictionary.go,          *)
(* service/admin_words.go and word_suggestions.go over                     *)
(* repository/words.go).  An edit is stored under a number drawn before    *)
(* its row is, then recorded in memory, then folded into the overlay the   *)
(* games read: three copies, written one after the other by every call.    *)
(***************************************************************************)
EXTENDS Naturals, FiniteSets, Sequences, SequencesExt, FiniteSetsExt

CONSTANTS
  Words, Base,        \* the words anyone mentions; those of them in fa.txt
  Operators,          \* calls of the panel that edit words
  Signed, Guests,     \* reporters with an account, and without
  MaxSeq              \* numbers the sequence gives, bounding the model

ASSUME DictionaryAssumption == Base \subseteq Words /\ Signed \cap Guests = {} /\ MaxSeq \in Nat

VARIABLES
  db,         \* [Words -> row]: dictionary_overrides; an absent row has seq 0 and says what fa.txt says
  nextval,    \* the last number drawn from dictionary_overrides_seq
  rows, top,  \* DictionaryService.rows and .max
  overlay,    \* [Words -> state]: fa.txt under the overlay the engine reads
  call,       \* [Operators -> call]: what each operator's call has reached
  status,     \* [Suggestions -> "none", "pending", "approved", "rejected"]
  reports,    \* [Suggestions -> Seq(reporters)], oldest first
  reporting,  \* reports between Submit's checks and SubmitReport's transaction
  rewards,    \* inbox_rewards of kind word_suggestion: <<user, word>>
  audit       \* the word.approve and word.reject records, in order

wordVars == <<db, nextval, rows, top, overlay>>
reviewVars == <<status, reports, reporting, rewards, audit>>
dictVars == <<wordVars, call, reviewVars>>

Suggestions == Words \X {"add", "remove"}
OverrideActions == {"add", "remove", "ai_block", "ai_unblock"}
Unlisted(w) == [present |-> w \in Base, blocked |-> FALSE, seq |-> 0]
State(row) == <<row.present, row.blocked>>
Idle == [pc |-> "idle"]
NoSuggestion == <<>>

DictInit ==
  /\ db = [w \in Words |-> Unlisted(w)] /\ nextval = 0
  /\ rows = db /\ top = 0 /\ overlay = [w \in Words |-> State(db[w])]
  /\ call = [o \in Operators |-> Idle]
  /\ status = [s \in Suggestions |-> "none"] /\ reports = [s \in Suggestions |-> <<>>]
  /\ reporting = {} /\ rewards = {} /\ audit = <<>>

-----------------------------------------------------------------------------
\* The engine

IsValid(w) == overlay[w][1]
IsAIBlocked(w) == overlay[w][2]

\* The row an action leaves, under the number drawn for it: what the action
\* does not touch keeps its value, and a new row starts present, unblocked.
UpsertOverride(w, action, seq) ==
  LET old == IF db[w].seq = 0 THEN [present |-> TRUE, blocked |-> FALSE] ELSE db[w]
  IN [present |-> CASE action = "add" -> TRUE [] action = "remove" -> FALSE [] OTHER -> old.present,
      blocked |-> CASE action = "ai_block" -> TRUE [] action = "add" -> old.blocked [] OTHER -> FALSE,
      seq |-> seq]

-----------------------------------------------------------------------------
\* SetWord and Approve

\* The suggestion rows an approval holds FOR UPDATE until it commits
Locked(s) == \E o \in Operators : call[o].pc = "drawn" /\ call[o].about = s

Draw(o, w, action, s) ==
  /\ call[o].pc = "idle" /\ nextval < MaxSeq
  /\ nextval' = nextval + 1
  /\ call' = [call EXCEPT ![o] =
       [pc |-> "drawn", word |-> w, action |-> action, about |-> s, row |-> [Unlisted(w) EXCEPT !.seq = nextval']]]
  /\ UNCHANGED <<db, rows, top, overlay, reviewVars>>

SetWord(o, w, action) == Draw(o, w, action, NoSuggestion)

\* SELECT ... FOR UPDATE: a removal needs an outcome.
Approve(o, s, action) ==
  /\ status[s] = "pending" /\ ~Locked(s)
  /\ action \in IF s[2] = "add" THEN {"add"} ELSE {"remove", "ai_block"}
  /\ Draw(o, s[1], action, s)

\* The first signed-in reporter of an addition
RewardsOf(s) ==
  LET signed == {i \in DOMAIN reports[s] : reports[s][i] \in Signed}
  IN IF s[2] = "add" /\ signed # {} THEN {<<reports[s][Min(signed)], s[1]>>} ELSE {}

\* The row, and an approval's status and reward with it, in one transaction
Commit(o) ==
  LET c == call[o]
      row == UpsertOverride(c.word, c.action, c.row.seq)
  IN /\ c.pc = "drawn"
     /\ db' = [db EXCEPT ![c.word] = row]
     /\ call' = [call EXCEPT ![o].pc = "stored", ![o].row = row]
     /\ IF c.about = NoSuggestion THEN UNCHANGED <<status, rewards>>
        ELSE status' = [status EXCEPT ![c.about] = "approved"] /\ rewards' = rewards \cup RewardsOf(c.about)
     /\ UNCHANGED <<nextval, rows, top, overlay, reports, reporting, audit>>

\* A transaction that fails leaves nothing but the number it drew.
Rollback(o) ==
  /\ call[o].pc = "drawn" /\ call' = [call EXCEPT ![o] = Idle]
  /\ UNCHANGED <<wordVars, reviewVars>>

\* Mutant: the highest number served is not moved up.
Mut_RecordRow(o) ==
  /\ call[o].pc = "stored"
  /\ rows' = [rows EXCEPT ![call[o].word] = call[o].row] /\ UNCHANGED top
  /\ call' = [call EXCEPT ![o].pc = "recorded"] /\ UNCHANGED <<db, nextval, overlay, reviewVars>>

\* Apply, under mu
RecordRow(o) ==
  /\ call[o].pc = "stored"
  /\ rows' = [rows EXCEPT ![call[o].word] = call[o].row] /\ top' = Max({top, call[o].row.seq})
  /\ call' = [call EXCEPT ![o].pc = "recorded"] /\ UNCHANGED <<db, nextval, overlay, reviewVars>>

\* ApplyOverrides reads the snapshot ...
ReadOverlay(o) ==
  /\ call[o].pc = "recorded"
  /\ call' = [call EXCEPT ![o] = [pc |-> "folding", word |-> @.word, about |-> @.about, row |-> @.row, old |-> overlay]]
  /\ UNCHANGED <<wordVars, reviewVars>>

\* ... and stores another; the call audits and answers.
StoreOverlay(o) ==
  LET c == call[o] IN
  /\ c.pc = "folding" /\ overlay' = [c.old EXCEPT ![c.word] = State(c.row)]
  /\ call' = [call EXCEPT ![o] = Idle]
  /\ audit' = IF c.about = NoSuggestion THEN audit ELSE Append(audit, <<"approved", c.about>>)
  /\ UNCHANGED <<db, nextval, rows, top, status, reports, reporting, rewards>>

\* UPDATE ... WHERE status = 'pending', behind the lock of an approval
RejectSuggestion(s) ==
  /\ status[s] = "pending" /\ ~Locked(s) /\ status' = [status EXCEPT ![s] = "rejected"]
Reject(s) ==
  /\ RejectSuggestion(s) /\ audit' = Append(audit, <<"rejected", s>>)
  /\ UNCHANGED <<wordVars, call, reports, reporting, rewards>>

-----------------------------------------------------------------------------
\* Reports

\* Submit: an addition is of a word the game refuses, a removal of one it takes
\* and the AI may still play ...
Submit(r, s) ==
  /\ <<r, s>> \notin reporting
  /\ IF s[2] = "add" THEN ~IsValid(s[1]) ELSE IsValid(s[1]) /\ ~IsAIBlocked(s[1])
  /\ reporting' = reporting \cup {<<r, s>>}
  /\ UNCHANGED <<wordVars, call, status, reports, rewards, audit>>

\* ... and the transaction, which a reviewed suggestion refuses and a reporter's
\* second report does not count in; it may fail.
SubmitReport(r, s) ==
  /\ <<r, s>> \in reporting /\ ~Locked(s) /\ reporting' = reporting \ {<<r, s>>}
  /\ IF status[s] \in {"none", "pending"}
     THEN /\ status' = [status EXCEPT ![s] = "pending"]
          /\ reports' = [reports EXCEPT ![s] = IF r \in ToSet(@) THEN @ ELSE Append(@, r)]
     ELSE UNCHANGED <<status, reports>>
  /\ UNCHANGED <<wordVars, call, rewards, audit>>

-----------------------------------------------------------------------------
\* The process ends, transactions with it; the next one starts with Load.
Load(table) ==
  /\ rows' = table /\ top' = Max({table[w].seq : w \in Words}) /\ overlay' = [w \in Words |-> State(table[w])]
  /\ call' = [o \in Operators |-> Idle] /\ reporting' = {}

RestartServer == Load(db) /\ UNCHANGED <<db, nextval, status, reports, rewards, audit>>

\* The database of before any edit is restored: its sequence starts again.
RestoreDatabase ==
  LET empty == [w \in Words |-> Unlisted(w)] IN
  /\ nextval > 0 /\ db' = empty /\ nextval' = 0 /\ Load(empty)
  /\ status' = [s \in Suggestions |-> "none"] /\ reports' = [s \in Suggestions |-> <<>>]
  /\ rewards' = {} /\ audit' = <<>>

DictNext ==
  \/ \E o \in Operators : Commit(o) \/ Rollback(o) \/ RecordRow(o) \/ ReadOverlay(o) \/ StoreOverlay(o)
  \/ \E o \in Operators, w \in Words, action \in OverrideActions : SetWord(o, w, action)
  \/ \E o \in Operators, s \in Suggestions, action \in OverrideActions : Approve(o, s, action)
  \/ \E s \in Suggestions : Reject(s)
  \/ \E r \in Signed \cup Guests, s \in Suggestions : Submit(r, s) \/ SubmitReport(r, s)
  \/ RestartServer \/ RestoreDatabase

DictSpec == DictInit /\ [][DictNext]_dictVars

-----------------------------------------------------------------------------
\* Apply "records overrides that are already stored and makes them live"
\* (service/dictionary.go:63): when no edit is under way, the memory and the
\* overlay hold every stored row, whatever restarted in between.
EditsAreLive ==
  (\A o \in Operators : call[o] = Idle) =>
    \A w \in Words : rows[w] = db[w] /\ overlay[w] = State(db[w])

\* Two operators on one suggestion, and reports that arrive meanwhile: one
\* decision is recorded, the one its row has; a reporter counts once; and an
\* approved addition leaves a reward for its first signed-in reporter, and for
\* nobody else (ApproveSuggestion over FOR UPDATE, RejectSuggestion's WHERE).
ReviewsAreFair ==
  /\ \A i, j \in DOMAIN audit : audit[i][2] = audit[j][2] => i = j
  /\ \A i \in DOMAIN audit : status[audit[i][2]] = audit[i][1]
  /\ \A s \in Suggestions : IsInjective(reports[s])
  /\ rewards = UNION {RewardsOf(s) : s \in {t \in Suggestions : status[t] = "approved"}}
  /\ \A w \in Words : Cardinality({x \in rewards : x[2] = w}) <= 1
=============================================================================
