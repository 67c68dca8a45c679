------------------------------ MODULE WordChain ------------------------------
(***************************************************************************)
(* The words of a game: what engine.ValidateMove takes, what it suggests,  *)
(* and what the AI plays (backend/internal/engine, ws/ai_client.go), in    *)
(* a match against the AI (ws/room.go), whose messages reach the AI's own  *)
(* copy of the chain later; and the Daily Challenge the app plays alone    *)
(* and the server checks when it is uploaded (service/daily_chain.go).     *)
(*                                                                         *)
(* A word is a sequence of characters.  What else may happen to a match is *)
(* Room; here it may end at any moment.                                    *)
(***************************************************************************)
EXTENDS Integers, Sequences, FiniteSets

CONSTANTS
  Persian, Zwnj,          \* the letters; the zero-width non-joiner
  Foreign,                \* any other character
  NoLetter,               \* the zero rune
  Fa, Vocabulary,         \* the words of fa.txt; with those operators may add
  Typed,                  \* what players type, trimmed
  aiInvalidWord,          \* "guaranteed absent from fa.txt"
  MinWordLength, SuggestPreferredLen, LongWordBonusMinLen, LongWordBonusMult,
  AIMinLength,            \* AIDifficulty.MinWordLength
  TurnTimerClassicSec,
  DailyChainSafetyCap,
  dailyLetterMinWordLen, minWordsForDaily,
  Alef,                   \* the start letter when no letter qualifies
  MaxOverrides            \* bound: edits of operators during the games

\* The rules

isPersianLetter(c) == c \in Persian
firstLetter(w) == IF w = <<>> THEN NoLetter ELSE w[1]

\* The last character that is no ZWNJ
EndsAt(w, i) == w[i] # Zwnj /\ \A j \in i + 1 .. Len(w) : w[j] = Zwnj
LastLetter(w) ==
  IF \E i \in 1 .. Len(w) : EndsAt(w, i) THEN w[CHOOSE i \in 1 .. Len(w) : EndsAt(w, i)] ELSE NoLetter

\* SetWord lets operators add words of legal characters only; one of nothing but
\* ZWNJs, which the rules would let through, is none.
ASSUME CharsAssumption ==
  /\ Zwnj \notin Persian /\ NoLetter \notin Persian \cup {Zwnj}
  /\ Foreign \cap (Persian \cup {Zwnj, NoLetter}) = {}
ASSUME WordsAssumption ==
  /\ Fa \subseteq Vocabulary /\ Vocabulary \subseteq Seq(Persian \cup {Zwnj})
  /\ \A w \in Vocabulary : LastLetter(w) \in Persian
  /\ Typed \subseteq Seq(Persian \cup {Zwnj} \cup Foreign)
  /\ aiInvalidWord \in Seq(Persian) \ Vocabulary
ASSUME LengthsAssumption ==
  /\ MinWordLength \in Nat /\ AIMinLength \in Nat /\ MinWordLength <= AIMinLength
  /\ SuggestPreferredLen \in Nat /\ MinWordLength <= SuggestPreferredLen
  /\ DailyChainSafetyCap \in Nat /\ MaxOverrides \in Nat

\* No word of fa.txt ends with a ZWNJ, so its last character is its last letter.
ASSUME DailyAssumption ==
  /\ \A w \in Fa : w[Len(w)] \in Persian
  /\ TurnTimerClassicSec \in Nat /\ LongWordBonusMinLen \in Nat /\ LongWordBonusMult \in Nat

VARIABLES
  overlay,                \* [added, removed, aiBlocked] over fa.txt
  edits,                  \* edits so far
  state, turn, chain, usedWords, shield, continueUsed,   \* of the room; the last two of the human
  hint,                   \* the last hint sent, with the length of the chain
  mail,                   \* c.send of the AI: messages runAI has not read
  aiUsed, aiLetter,       \* runAI's usedWords and requiredLetter
  thinking,               \* aiSubmit goroutines asleep: [letter, used]
  run,                    \* the app's daily game: [letter, chain, score, streak]
  verdict                 \* of its upload

lexiconVars == <<overlay, edits>>
matchVars == <<state, turn, chain, usedWords, shield, continueUsed, hint>>
aiVars == <<mail, aiUsed, aiLetter, thinking>>
dailyVars == <<run, verdict>>
wordChainVars == <<lexiconVars, matchVars, aiVars, dailyVars>>

-----------------------------------------------------------------------------
IsValid(w) == w \notin overlay.removed /\ (w \in overlay.added \/ w \in Fa)
EachWord == (Fa \ overlay.removed) \cup overlay.added

\* The reason a move is refused for, or "ok".  prev is <<>> for the first move.
ValidateMove(prev, w, used) ==
  IF \E i \in 1 .. Len(w) : ~isPersianLetter(w[i]) /\ w[i] # Zwnj THEN "invalid_characters"
  ELSE IF Len(w) < MinWordLength THEN "too_short"
  ELSE IF prev # <<>> /\ firstLetter(w) # LastLetter(prev) THEN "wrong_letter"
  ELSE IF w \in used THEN "already_used"
  ELSE IF ~IsValid(w) THEN "not_in_dictionary"
  ELSE "ok"

\* The words SuggestWord may return (maps are walked in any order); none: ""
SuggestWord(letter, used) ==
  LET fit(n) == {w \in EachWord : firstLetter(w) = letter /\ w \notin used /\ Len(w) >= n}
  IN  IF fit(SuggestPreferredLen) # {} THEN fit(SuggestPreferredLen) ELSE fit(MinWordLength)

\* The words SelectAIWord may return: trap words are preferred with a probability
\* below one, so every candidate may be drawn.  None: "".
SelectAIWord(letter, used) ==
  {w \in EachWord : /\ Len(w) >= AIMinLength
                    /\ letter # NoLetter => firstLetter(w) = letter
                    /\ w \notin used /\ w \notin overlay.aiBlocked}

\* Scores, in points; speed is the bonus for the time left.
CalculateScore(w, speed, streak) ==
  LET base == Len(w) * 10 IN base + speed + (IF streak >= 3 THEN base \div 2 ELSE 0)
\* Mutant: the streak bonus is left out of the bound.
Mut_maxTurnScore(w) ==
  (Len(w) * 10 + TurnTimerClassicSec * 2) * (IF Len(w) >= LongWordBonusMinLen THEN LongWordBonusMult ELSE 1)

maxTurnScore(w) ==
  (Len(w) * 10 + TurnTimerClassicSec * 2 + Len(w) * 5)
    * (IF Len(w) >= LongWordBonusMinLen THEN LongWordBonusMult ELSE 1)

\* The letters with enough words of fa.txt, and those a day may be given
dailyStartLetters ==
  {l \in Persian : Cardinality({w \in Fa : Len(w) >= dailyLetterMinWordLen /\ firstLetter(w) = l}) >= minWordsForDaily}
PickDailyStartLetter == IF dailyStartLetters = {} THEN {Alef} ELSE dailyStartLetters

ValidateDailyChain(letter, words, score) ==
  LET prev(i) == IF i = 1 THEN <<>> ELSE words[i - 1]
      bound[i \in 0 .. Len(words)] == IF i = 0 THEN 0 ELSE bound[i - 1] + maxTurnScore(words[i])
  IN  /\ score >= 0 /\ Len(words) <= DailyChainSafetyCap
      /\ words = <<>> \/ firstLetter(words[1]) = letter
      /\ \A i \in DOMAIN words :
           ValidateMove(prev(i), words[i], {words[j] : j \in 1 .. i - 1}) = "ok"
      /\ score <= bound[Len(words)]

-----------------------------------------------------------------------------
NoHint == [word |-> <<>>, at |-> 0]
PlayerIDs == {"human", "ai"}
Other(p) == IF p = "ai" THEN "human" ELSE "ai"
Prev == IF chain = <<>> THEN <<>> ELSE chain[Len(chain)]
Accepted(w) == [type |-> "word_accepted", word |-> w]
TurnChange  == [type |-> "turn_change"]

\* Matchmaking seats the AI first; game_start brings it an empty chain.
WordChainInit ==
  /\ overlay = [added |-> {}, removed |-> {}, aiBlocked |-> {}] /\ edits = 0
  /\ state = "active" /\ turn = "ai" /\ chain = <<>> /\ usedWords = {}
  /\ shield = "none" /\ continueUsed = FALSE /\ hint = NoHint
  /\ mail = <<TurnChange>> /\ aiUsed = {} /\ aiLetter = NoLetter /\ thinking = {}
  /\ \E l \in PickDailyStartLetter : run = [letter |-> l, chain |-> <<>>, score |-> 0, streak |-> 0]
  /\ verdict = "playing"

\* ApplyOverrides of one edit
ApplyOverrides(w, present, blocked) ==
  /\ edits < MaxOverrides /\ edits' = edits + 1
  /\ overlay' = [added |-> IF present THEN overlay.added \cup {w} ELSE overlay.added \ {w},
                 removed |-> IF present THEN overlay.removed \ {w} ELSE overlay.removed \cup {w},
                 aiBlocked |-> IF blocked THEN overlay.aiBlocked \cup {w} ELSE overlay.aiBlocked \ {w}]
  /\ UNCHANGED <<matchVars, aiVars, dailyVars>>

-----------------------------------------------------------------------------
\* The room.  runAI skips what is not for the AI, so that is not put in `mail`.

startTurn(p, news) ==
  /\ turn' = p
  /\ mail' = mail \o news \o (IF p = "ai" THEN <<TurnChange>> ELSE <<>>)

\* The AI has neither shields nor continues.
handleLoss(p) ==
  \/ /\ p = "human" /\ shield = "on" /\ shield' = "burnt"
     /\ startTurn(Other(p), <<>>) /\ UNCHANGED <<state, chain, usedWords, continueUsed, hint>>
  \/ /\ ~(p = "human" /\ shield = "on")
     /\ state' = IF p = "human" /\ continueUsed THEN "finished" ELSE "continue_window"
     /\ UNCHANGED <<turn, chain, usedWords, shield, continueUsed, hint, mail>>

processSubmitWord(p, w) ==
  /\ state = "active" /\ turn = p
  /\ \/ /\ ValidateMove(Prev, w, usedWords) = "ok"
        /\ chain' = Append(chain, w) /\ usedWords' = usedWords \cup {w}
        /\ startTurn(Other(p), <<Accepted(w)>>)
        /\ UNCHANGED <<state, shield, continueUsed, hint>>
     \/ ValidateMove(Prev, w, usedWords) # "ok" /\ handleLoss(p)

HumanSubmits(w) ==
  processSubmitWord("human", w) /\ UNCHANGED <<lexiconVars, aiUsed, aiLetter, thinking, dailyVars>>

TurnTimeout ==
  state = "active" /\ handleLoss(turn) /\ UNCHANGED <<lexiconVars, aiUsed, aiLetter, thinking, dailyVars>>

\* Only the human's window can be used.
Continue ==
  /\ state = "continue_window" /\ turn = "human" /\ state' = "active" /\ continueUsed' = TRUE
  /\ startTurn("human", <<>>)
  /\ UNCHANGED <<chain, usedWords, shield, hint, lexiconVars, aiUsed, aiLetter, thinking, dailyVars>>

\* A window that runs out, a forfeit, an absence
MatchEnds ==
  /\ state # "finished" /\ state' = "finished"
  /\ UNCHANGED <<turn, chain, usedWords, shield, continueUsed, hint, lexiconVars, aiVars, dailyVars>>

UseShield ==
  /\ state = "active" /\ shield = "none" /\ shield' = "on"
  /\ UNCHANGED <<state, turn, chain, usedWords, continueUsed, hint, lexiconVars, aiVars, dailyVars>>

\* No hint for the first word; one hint a match
UseHint ==
  /\ state = "active" /\ hint = NoHint /\ chain # <<>>
  /\ \E w \in SuggestWord(LastLetter(Prev), usedWords) : hint' = [word |-> w, at |-> Len(chain)]
  /\ UNCHANGED <<state, turn, chain, usedWords, shield, continueUsed, lexiconVars, aiVars, dailyVars>>

-----------------------------------------------------------------------------
\* The AI

\* Mutant: only the words of the human are noted.
Mut_runAI ==
  /\ mail # <<>> /\ mail' = Tail(mail)
  /\ \/ /\ Head(mail).type = "word_accepted"
        /\ aiUsed' = (IF turn = "ai" THEN aiUsed \cup {Head(mail).word} ELSE aiUsed)
        /\ aiLetter' = LastLetter(Head(mail).word) /\ UNCHANGED thinking
     \/ /\ Head(mail).type = "turn_change"
        /\ thinking' = thinking \cup {[letter |-> aiLetter, used |-> aiUsed]}
        /\ UNCHANGED <<aiUsed, aiLetter>>
  /\ UNCHANGED <<matchVars, lexiconVars, dailyVars>>

\* runAI reads the next message; its turn starts an aiSubmit with a copy.
runAI ==
  /\ mail # <<>> /\ mail' = Tail(mail)
  /\ \/ /\ Head(mail).type = "word_accepted"
        /\ aiUsed' = aiUsed \cup {Head(mail).word} /\ aiLetter' = LastLetter(Head(mail).word)
        /\ UNCHANGED thinking
     \/ /\ Head(mail).type = "turn_change"
        /\ thinking' = thinking \cup {[letter |-> aiLetter, used |-> aiUsed]}
        /\ UNCHANGED <<aiUsed, aiLetter>>
  /\ UNCHANGED <<matchVars, lexiconVars, dailyVars>>

\* What aiSubmit may send: a word of SelectAIWord, or a mistake, or that there is none
AIChoices(t) == SelectAIWord(t.letter, t.used) \cup {aiInvalidWord}

\* After its delay aiSubmit sends it; a message the room does not expect is ignored.
aiSubmit(t) ==
  /\ thinking' = thinking \ {t}
  /\ \/ \E w \in AIChoices(t) : processSubmitWord("ai", w)
     \/ ~(state = "active" /\ turn = "ai") /\ UNCHANGED <<matchVars, mail>>
  /\ UNCHANGED <<lexiconVars, aiUsed, aiLetter, dailyVars>>

-----------------------------------------------------------------------------
\* The Daily Challenge, on the app: its list is fa.txt until it fetches the edits, and
\* the next word starts with the last character.  A mistake costs a life and leaves
\* the chain, the score and the streak.
NextStartLetter == IF run.chain = <<>> THEN run.letter ELSE LET w == run.chain[Len(run.chain)] IN w[Len(w)]
PlayDaily(w, speed) ==
  /\ verdict = "playing" /\ Len(w) >= MinWordLength /\ w \in Fa
  /\ firstLetter(w) = NextStartLetter /\ \A i \in 1 .. Len(run.chain) : run.chain[i] # w
  /\ run' = [run EXCEPT !.chain = Append(@, w), !.streak = @ + 1,
             !.score = @ + CalculateScore(w, speed, run.streak)
                         * (IF Len(w) >= LongWordBonusMinLen THEN LongWordBonusMult ELSE 1)]
  /\ UNCHANGED <<lexiconVars, matchVars, aiVars, verdict>>

\* CreateSoloGame checks what is uploaded.
UploadDaily ==
  /\ verdict = "playing"
  /\ verdict' = IF ValidateDailyChain(run.letter, run.chain, run.score) THEN "kept" ELSE "refused"
  /\ UNCHANGED <<lexiconVars, matchVars, aiVars, run>>

WordChainNext ==
  \/ \E w \in Vocabulary, present, blocked \in BOOLEAN : ApplyOverrides(w, present, blocked)
  \/ \E w \in Typed : HumanSubmits(w)
  \/ TurnTimeout \/ Continue \/ MatchEnds \/ UseShield \/ UseHint
  \/ runAI \/ \E t \in thinking : aiSubmit(t)
  \/ \E w \in Fa, speed \in {0, 2 * TurnTimerClassicSec} : PlayDaily(w, speed)
  \/ UploadDaily

WordChainSpec == WordChainInit /\ [][WordChainNext]_wordChainVars

-----------------------------------------------------------------------------
\* Every word of a match links to the one before, and none is played twice: the set
\* the rules ask is the set of the words of the chain (processSubmitWord).
ChainIsLinked ==
  /\ usedWords = {chain[i] : i \in 1 .. Len(chain)}
  /\ \A i, j \in 1 .. Len(chain) : i # j => chain[i] # chain[j]
  /\ \A i \in 1 .. Len(chain) - 1 : firstLetter(chain[i + 1]) = LastLetter(chain[i])

\* The AI's copy of the chain is complete when it counts: whatever it picks for the
\* turn it was told of is a legal move when it arrives, however its messages, its
\* delay, shields, continues and edits of the dictionary fall (runAI, aiSubmit).
AIPlaysByTheRules ==
  state = "active" => \A t \in thinking :
    /\ turn = "ai"
    /\ \A w \in SelectAIWord(t.letter, t.used) : ValidateMove(Prev, w, usedWords) = "ok"

\* A hint can be played until the chain or the dictionary moves on (SuggestWord).
HintIsPlayable ==
  hint # NoHint /\ hint.at = Len(chain) => ValidateMove(Prev, hint.word, usedWords) \in {"ok", "not_in_dictionary"}

WordsFollowRules == ChainIsLinked /\ AIPlaysByTheRules /\ HintIsPlayable

\* An honest Daily run counts: what the app lets through and scores is what the
\* server accepts, unless an operator has removed one of its words meanwhile or it
\* is longer than the cap (ValidateDailyChain "the way the client played it").
HonestRunsCount ==
  [][verdict # "refused" /\ verdict' = "refused" =>
       \/ Len(run.chain) > DailyChainSafetyCap
       \/ \E i \in 1 .. Len(run.chain) : ~IsValid(run.chain[i])]_wordChainVars
=============================================================================
