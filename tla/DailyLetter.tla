------------------------------ MODULE DailyLetter ------------------------------
(***************************************************************************)
(* The start letter of the Daily Challenge: the scheduler makes the rows   *)
(* of today and tomorrow with the letter their date generates, operators   *)
(* choose another letter for a day to come                                 *)
(* (backend/internal/service/admin_content.go).                            *)
(***************************************************************************)
EXTENDS Integers

CONSTANTS
  Letters,      \* eligible start letters (IsDailyStartLetter)
  NoLetter,
  Generated,    \* PickDailyStartLetter: [day -> the letter its date generates]
  LetterDays,   \* bound: days 1 .. LetterDays
  FutureDays,   \* AdminDailyMaxFutureDays
  Schedulers    \* operators who may edit at the same time

ASSUME LetterAssumption ==
  /\ LetterDays \in Nat /\ FutureDays \in Nat /\ NoLetter \notin Letters
  /\ Generated \in [1 .. LetterDays -> Letters]

VARIABLES
  date,     \* the Iran calendar day
  letter,   \* daily_challenges: [day -> start letter, NoLetter without a row]
  told,     \* [day -> the letter the panel last showed or set for it] (history)
  edit      \* [Schedulers -> the SetStartLetter call under way]

letterVars == <<date, letter, told, edit>>
AllDates  == 1 .. LetterDays
NoEdit    == [pc |-> "idle"]

LetterInit ==
  /\ date = 1 /\ letter = [d \in AllDates |-> NoLetter] /\ told = letter
  /\ edit = [o \in Schedulers |-> NoEdit]

-----------------------------------------------------------------------------
\* Mutant: an upsert.
Mut_EnsureChallenge(d) ==
  /\ d \in {date, date + 1}
  /\ letter' = [letter EXCEPT ![d] = Generated[d]]
  /\ UNCHANGED <<date, told, edit>>

\* EnsureChallenge for today and tomorrow: ON CONFLICT DO NOTHING
EnsureChallenge(d) ==
  /\ d \in {date, date + 1} /\ letter[d] = NoLetter
  /\ letter' = [letter EXCEPT ![d] = Generated[d]]
  /\ UNCHANGED <<date, told, edit>>

\* DailyCalendar shows the rows, and for a day to come without one the letter it
\* will generate.
DailyDay(d) == IF letter[d] # NoLetter THEN letter[d] ELSE Generated[d]
DailyCalendar ==
  /\ told' = [d \in AllDates |->
                IF letter[d] # NoLetter \/ d \in date + 1 .. date + FutureDays THEN DailyDay(d) ELSE told[d]]
  /\ UNCHANGED <<date, letter, edit>>

\* SetStartLetter checks that the day is still to come ...
SetStartLetter(o, d, l) ==
  /\ edit[o] = NoEdit /\ date < d /\ d <= date + FutureDays
  /\ edit' = [edit EXCEPT ![o] = [pc |-> "write", day |-> d, letter |-> l, today |-> date]]
  /\ UNCHANGED <<date, letter, told>>

\* ... and SetDailyStartLetter writes, under the condition that the day is after
\* the `today` of that check.
SetDailyStartLetter(o) ==
  /\ edit[o].pc = "write" /\ edit[o].day > edit[o].today
  /\ letter' = [letter EXCEPT ![edit[o].day] = edit[o].letter]
  /\ told' = [told EXCEPT ![edit[o].day] = edit[o].letter]
  /\ edit' = [edit EXCEPT ![o] = NoEdit]
  /\ UNCHANGED date

EditFails(o) ==
  /\ edit[o].pc = "write" /\ edit' = [edit EXCEPT ![o] = NoEdit]
  /\ UNCHANGED <<date, letter, told>>

NewDay ==
  /\ date < LetterDays /\ date' = date + 1
  /\ UNCHANGED <<letter, told, edit>>

LetterNext ==
  \/ \E d \in AllDates : EnsureChallenge(d)
  \/ DailyCalendar \/ NewDay
  \/ \E o \in Schedulers : \/ \E d \in AllDates : \E l \in Letters : SetStartLetter(o, d, l)
                           \/ SetDailyStartLetter(o) \/ EditFails(o)
LetterSpec == LetterInit /\ [][LetterNext]_letterVars

-----------------------------------------------------------------------------
\* What the panel shows or sets for a day is what the day gets, whoever makes its
\* row and in whatever order: the scheduler does not undo an operator, and a day
\* without a row comes out with the letter the calendar promised.
PanelIsObeyed ==
  \A d \in AllDates : letter[d] # NoLetter /\ told[d] # NoLetter => letter[d] = told[d]

\* "a midnight rollover between the service check and the write cannot slip a
\* change into a live day".  (Comment; it does not hold: the write compares with
\* the day of the check.)
LetterIsLocked ==
  [][\A d \in AllDates : letter[d] # NoLetter /\ d <= date => letter'[d] = letter[d]]_letterVars
=============================================================================
