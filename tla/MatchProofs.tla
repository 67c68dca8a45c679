---------------------------- MODULE MatchProofs ----------------------------
(***************************************************************************)
(* Proofs about how a match comes about and is played.                     *)
(*                                                                         *)
(* WordChain: the words of a match follow the rules, and the AI, whose     *)
(* copy of the chain is always some messages behind, has caught up by the  *)
(* time it picks a word; and an honest Daily run is accepted.              *)
(*                                                                         *)
(* Matchmaking: an entry gets one room at most, a call returns a room of   *)
(* its own, and patient callers meet, are told and never wait in vain.     *)
(***************************************************************************)
EXTENDS Matchmaking, WordChain, SequenceTheorems, TLAPS

-----------------------------------------------------------------------------
(* WordChain                                                               *)


Messages == [type : {"word_accepted"}, word : Vocabulary] \cup {TurnChange}
WordAt(i) == mail[i].type = "word_accepted"

\* The letter the next word starts with
NextLetter == IF chain = <<>> THEN NoLetter ELSE LastLetter(Prev)

WordTypes ==
  /\ overlay.added \subseteq Vocabulary /\ overlay.added \cap overlay.removed = {}
  /\ state \in {"active", "continue_window", "finished"} /\ turn \in PlayerIDs
  /\ chain \in Seq(Vocabulary) /\ mail \in Seq(Messages)

\* The AI is told of its turn after all the words played before it, and thinks
\* only with nothing left to read; the turn stays its own until it has answered.
TurnIsToldLast ==
  /\ \A i \in 1 .. Len(mail) : mail[i].type = "turn_change" =>
       i = Len(mail) /\ turn = "ai" /\ thinking = {}
  /\ thinking # {} => mail = <<>> /\ turn = "ai"
  /\ \A t \in thinking : t = [letter |-> aiLetter, used |-> aiUsed]

\* What the AI knows and what it is about to read are the words of the room, and
\* the last of them is the one to link to.
CopyCatchesUp ==
  /\ usedWords = aiUsed \cup {mail[i].word : i \in {j \in 1 .. Len(mail) : WordAt(j)}}
  /\ (\A i \in 1 .. Len(mail) : ~WordAt(i)) => aiLetter = NextLetter
  /\ \A i \in 1 .. Len(mail) : WordAt(i) /\ (\A j \in i + 1 .. Len(mail) : ~WordAt(j)) =>
       LastLetter(mail[i].word) = NextLetter

\* A hint fits the chain it was given for.
HintFits ==
  hint # NoHint => /\ hint.at \in 0 .. Len(chain)
                   /\ hint.at = Len(chain) =>
                        /\ hint.word \in Vocabulary /\ Len(hint.word) >= MinWordLength
                        /\ firstLetter(hint.word) = LastLetter(Prev)
                        /\ hint.word \notin usedWords

WordInv == WordTypes /\ ChainIsLinked /\ TurnIsToldLast /\ CopyCatchesUp /\ HintFits

-----------------------------------------------------------------------------
(* The rules.                                                              *)

\* A word of the vocabulary is refused for its length, its letter, a repetition
\* or because it was removed, in this order.
LEMMA MovesOfVocabulary ==
  ASSUME NEW prev, NEW used, NEW w \in Vocabulary, Len(w) >= MinWordLength, w \notin used,
         prev # <<>> => firstLetter(w) = LastLetter(prev)
  PROVE  ValidateMove(prev, w, used) = IF IsValid(w) THEN "ok" ELSE "not_in_dictionary"
  <1>1. \A i \in 1 .. Len(w) : isPersianLetter(w[i]) \/ w[i] = Zwnj
    <2>1. w \in Seq(Persian \cup {Zwnj})
      BY WordsAssumption
    <2> QED BY <2>1, ElementOfSeq DEF isPersianLetter
  <1>2. Len(w) \in Nat /\ MinWordLength \in Nat
    BY WordsAssumption, LengthsAssumption
  <1> QED BY <1>1, <1>2 DEF ValidateMove

LEMMA AcceptedMoves ==
  ASSUME WordTypes, NEW w, NEW used, ValidateMove(Prev, w, used) = "ok"
  PROVE  /\ w \in Vocabulary /\ w \notin used
         /\ Prev # <<>> => firstLetter(w) = LastLetter(Prev)
  <1>1. IsValid(w) /\ w \notin used /\ (Prev # <<>> => firstLetter(w) = LastLetter(Prev))
    BY DEF ValidateMove
  <1> QED BY <1>1, WordsAssumption DEF IsValid, WordTypes

\* A word has a last letter, which is not the one nobody asks for.
LEMMA WordsEnd ==
  ASSUME NEW w \in Vocabulary PROVE LastLetter(w) # NoLetter /\ w # <<>>
  <1>1. LastLetter(w) \in Persian
    BY WordsAssumption
  <1>2. LastLetter(<<>>) = NoLetter
    BY DEF LastLetter
  <1> QED BY <1>1, <1>2, CharsAssumption

LEMMA PrevIsAWord ==
  ASSUME WordTypes, chain # <<>>
  PROVE  Prev = chain[Len(chain)] /\ Prev \in Vocabulary /\ Prev # <<>> /\ Len(chain) \in Nat \ {0}
  <1>1. Prev = chain[Len(chain)] /\ Prev \in Vocabulary /\ Len(chain) \in Nat \ {0}
    BY DEF Prev, WordTypes
  <1> QED BY <1>1, WordsEnd

-----------------------------------------------------------------------------
(* The chain grows by a word.                                              *)

LEMMA LinkedWord ==
  ASSUME WordTypes, ChainIsLinked, NEW w, ValidateMove(Prev, w, usedWords) = "ok",
         chain' = Append(chain, w), usedWords' = usedWords \cup {w}
  PROVE  ChainIsLinked' /\ chain' \in Seq(Vocabulary) /\ w \in Vocabulary
         /\ NextLetter' = LastLetter(w) /\ Len(chain') = Len(chain) + 1
  <1> DEFINE n == Len(chain)
  <1>0. /\ w \in Vocabulary /\ w \notin usedWords
        /\ Prev # <<>> => firstLetter(w) = LastLetter(Prev)
    BY AcceptedMoves
  <1>1. /\ n \in Nat /\ Len(chain') = n + 1 /\ chain'[n + 1] = w
        /\ \A i \in 1 .. n : chain'[i] = chain[i]
        /\ chain' \in Seq(Vocabulary) /\ chain' # <<>>
    BY <1>0 DEF WordTypes
  <1>2. n > 0 => firstLetter(w) = LastLetter(chain[n])
    BY <1>0, <1>1, PrevIsAWord
  <1>3. usedWords' = {chain'[i] : i \in 1 .. n + 1}
    BY <1>1 DEF ChainIsLinked
  <1>4. \A i \in 1 .. n : chain'[i] # w
    BY <1>0, <1>1 DEF ChainIsLinked
  <1>5. \A i, j \in 1 .. n + 1 : i # j => chain'[i] # chain'[j]
    BY <1>1, <1>4 DEF ChainIsLinked
  <1>6. \A i \in 1 .. n : firstLetter(chain'[i + 1]) = LastLetter(chain'[i])
    <2>1. \A i \in 1 .. n - 1 : firstLetter(chain'[i + 1]) = LastLetter(chain'[i])
      BY <1>1 DEF ChainIsLinked
    <2> QED BY <1>1, <1>2, <2>1
  <1>7. ChainIsLinked'
    <2> HIDE DEF n
    <2>1. Len(chain') - 1 = n
      BY <1>1
    <2> QED BY <1>1, <1>3, <1>5, <1>6, <2>1 DEF ChainIsLinked
  <1>8. NextLetter' = LastLetter(w)
    BY <1>1 DEF NextLetter, Prev
  <1> QED BY <1>0, <1>1, <1>7, <1>8

\* Another word makes the hint old.
LEMMA HintGrowsOld ==
  ASSUME WordTypes, HintFits, Len(chain') = Len(chain) + 1, hint' = hint
  PROVE  HintFits'
  BY DEF HintFits, WordTypes
-----------------------------------------------------------------------------
(* What the AI hears.                                                      *)

LEMMA AppendOne ==
  ASSUME NEW S, NEW s \in Seq(S), NEW x \in S
  PROVE  /\ Append(s, x) \in Seq(S) /\ Len(Append(s, x)) = Len(s) + 1
         /\ Append(s, x)[Len(s) + 1] = x
         /\ \A i \in 1 .. Len(s) : Append(s, x)[i] = s[i]
  OBVIOUS

LEMMA AppendTwo ==
  ASSUME NEW S, NEW s \in Seq(S), NEW x \in S, NEW y \in S
  PROVE  LET both == Append(Append(s, x), y)
         IN  /\ both \in Seq(S) /\ Len(both) = Len(s) + 2
             /\ both[Len(s) + 1] = x /\ both[Len(s) + 2] = y
             /\ \A i \in 1 .. Len(s) : both[i] = s[i]
  <1> DEFINE one == Append(s, x)
  <1>1. /\ one \in Seq(S) /\ Len(one) = Len(s) + 1 /\ one[Len(s) + 1] = x
        /\ \A i \in 1 .. Len(s) : one[i] = s[i]
    BY AppendOne
  <1> HIDE DEF one
  <1>2. /\ Append(one, y) \in Seq(S) /\ Len(Append(one, y)) = Len(one) + 1
        /\ Append(one, y)[Len(one) + 1] = y
        /\ \A i \in 1 .. Len(one) : Append(one, y)[i] = one[i]
    BY <1>1, AppendOne
  <1>3. Len(s) \in Nat /\ (Len(s) + 1) + 1 = Len(s) + 2
    OBVIOUS
  <1>4. Len(s) + 1 \in 1 .. Len(one) /\ \A i \in 1 .. Len(s) : i \in 1 .. Len(one)
    BY <1>1, <1>3
  <1> QED BY <1>1, <1>2, <1>3, <1>4 DEF one

\* A word of the chain sent to the AI, after which it may be told of its turn.
LEMMA HearsWord ==
  ASSUME WordTypes, TurnIsToldLast, CopyCatchesUp, turn = "human" \/ mail = <<>>,
         NEW w \in Vocabulary, usedWords' = usedWords \cup {w}, NextLetter' = LastLetter(w),
         UNCHANGED <<aiUsed, aiLetter>>,
         \/ mail' = Append(mail, Accepted(w)) /\ turn' = "human" /\ thinking' = {}
         \/ mail' = Append(Append(mail, Accepted(w)), TurnChange) /\ turn' = "ai" /\ thinking' = {}
  PROVE  TurnIsToldLast' /\ CopyCatchesUp' /\ mail' \in Seq(Messages)
  <1> DEFINE n == Len(mail)
  <1>0. n \in Nat /\ mail \in Seq(Messages)
    BY DEF WordTypes
  <1>1. /\ Accepted(w) \in Messages /\ Accepted(w).type = "word_accepted" /\ Accepted(w).word = w
        /\ TurnChange \in Messages /\ TurnChange.type = "turn_change"
    BY DEF Messages, Accepted, TurnChange
  <1>2. /\ mail' \in Seq(Messages) /\ Len(mail') \in {n + 1, n + 2}
        /\ \A i \in 1 .. n : mail'[i] = mail[i]
        /\ mail'[n + 1] = Accepted(w)
        /\ Len(mail') = n + 1 => turn' = "human"
        /\ Len(mail') = n + 2 => mail'[n + 2] = TurnChange /\ turn' = "ai"
    <2>1. CASE mail' = Append(mail, Accepted(w)) /\ turn' = "human"
      BY <1>0, <1>1, <2>1, AppendOne
    <2>2. CASE mail' = Append(Append(mail, Accepted(w)), TurnChange) /\ turn' = "ai"
      BY <1>0, <1>1, <2>2, AppendTwo
    <2> QED BY <2>1, <2>2
  <1>3. \A i \in 1 .. n : mail[i].type # "turn_change"
    BY DEF TurnIsToldLast
  <1>4. TurnIsToldLast'
    <2>1. ASSUME NEW i \in 1 .. Len(mail'), mail'[i].type = "turn_change"
          PROVE  i = n + 2 /\ Len(mail') = n + 2
      <3>1. i \in 1 .. n \/ i = n + 1 \/ (i = n + 2 /\ Len(mail') = n + 2)
        BY <1>0, <1>2
      <3> QED BY <1>1, <1>2, <1>3, <2>1, <3>1
    <2> HIDE DEF n
    <2> QED BY <1>2, <2>1 DEF TurnIsToldLast
  <1>5. \A i \in 1 .. Len(mail') : WordAt(i)' <=> (i = n + 1 \/ (i \in 1 .. n /\ WordAt(i)))
    BY <1>0, <1>1, <1>2 DEF WordAt
  <1>6. n + 1 \in 1 .. Len(mail') /\ \A i \in 1 .. n : i \in 1 .. Len(mail')
    BY <1>0, <1>2
  <1>7. usedWords' = aiUsed' \cup {mail'[i].word : i \in {j \in 1 .. Len(mail') : WordAt(j)'}}
    <2>1. {mail'[i].word : i \in {j \in 1 .. Len(mail') : WordAt(j)'}}
            = {mail[i].word : i \in {j \in 1 .. n : WordAt(j)}} \cup {w}
      <3> HIDE DEF n
      <3>1. {mail'[i].word : i \in {j \in 1 .. Len(mail') : WordAt(j)'}}
              \subseteq {mail[i].word : i \in {j \in 1 .. n : WordAt(j)}} \cup {w}
        BY <1>1, <1>2, <1>5
      <3>2. {mail[i].word : i \in {j \in 1 .. n : WordAt(j)}}
              \subseteq {mail'[i].word : i \in {j \in 1 .. Len(mail') : WordAt(j)'}}
        BY <1>2, <1>5, <1>6
      <3>3. w \in {mail'[i].word : i \in {j \in 1 .. Len(mail') : WordAt(j)'}}
        BY <1>1, <1>2, <1>5, <1>6
      <3> QED BY <3>1, <3>2, <3>3
    <2> QED BY <2>1 DEF CopyCatchesUp
  <1>8. ~(\A i \in 1 .. Len(mail') : ~WordAt(i)')
    BY <1>5, <1>6
  <1>9. ASSUME NEW i \in 1 .. Len(mail'), WordAt(i)', \A j \in i + 1 .. Len(mail') : ~WordAt(j)'
        PROVE  LastLetter(mail'[i].word) = NextLetter'
    <2>1. i = n + 1
      BY <1>0, <1>2, <1>5, <1>6, <1>9
    <2> QED BY <1>1, <1>2, <2>1
  <1>10. CopyCatchesUp'
    BY <1>7, <1>8, <1>9 DEF CopyCatchesUp
  <1> QED BY <1>2, <1>4, <1>10

\* The turn comes back to the AI without a word: the human's shield.
LEMMA HearsTurn ==
  ASSUME WordTypes, TurnIsToldLast, CopyCatchesUp, turn = "human",
         mail' = Append(mail, TurnChange), turn' = "ai",
         UNCHANGED <<aiUsed, aiLetter, thinking, usedWords, chain>>
  PROVE  TurnIsToldLast' /\ CopyCatchesUp' /\ mail' \in Seq(Messages)
  <1> DEFINE n == Len(mail)
  <1>0. n \in Nat /\ mail \in Seq(Messages)
    BY DEF WordTypes
  <1>1. TurnChange \in Messages /\ TurnChange.type = "turn_change"
    BY DEF Messages, TurnChange
  <1>2. /\ mail' \in Seq(Messages) /\ Len(mail') = n + 1 /\ mail'[n + 1] = TurnChange
        /\ \A i \in 1 .. n : mail'[i] = mail[i]
    <2> HIDE DEF Messages
    <2> QED BY <1>0, <1>1
  <1>3. (\A i \in 1 .. n : mail[i].type # "turn_change") /\ thinking = {}
    BY DEF TurnIsToldLast
  <1>4. TurnIsToldLast'
    BY <1>0, <1>1, <1>2, <1>3 DEF TurnIsToldLast
  <1>5. \A i \in 1 .. n + 1 : WordAt(i)' <=> (i \in 1 .. n /\ WordAt(i))
    BY <1>0, <1>1, <1>2 DEF WordAt
  <1>6. {mail'[i].word : i \in {j \in 1 .. n + 1 : WordAt(j)'}}
          = {mail[i].word : i \in {j \in 1 .. n : WordAt(j)}}
    BY <1>2, <1>5
  <1>7. NextLetter' = NextLetter
    BY DEF NextLetter, Prev
  <1>8. CopyCatchesUp'
    <2> HIDE DEF n
    <2>1. (\A i \in 1 .. n + 1 : ~WordAt(i)') => aiLetter = NextLetter
      <3>1. \A i \in 1 .. n : i \in 1 .. n + 1
        BY <1>0
      <3> QED BY <1>5, <3>1 DEF CopyCatchesUp, n
    <2>2. ASSUME NEW i \in 1 .. n + 1, WordAt(i)', \A j \in i + 1 .. n + 1 : ~WordAt(j)'
          PROVE  LastLetter(mail'[i].word) = NextLetter
      <3>1. i \in 1 .. n /\ WordAt(i)
        BY <1>5, <2>2
      <3>2. \A j \in i + 1 .. n : ~WordAt(j)
        BY <1>0, <1>5, <2>2
      <3> QED BY <1>2, <3>1, <3>2 DEF CopyCatchesUp, n
    <2> QED BY <1>2, <1>6, <1>7, <2>1, <2>2 DEF CopyCatchesUp, n
  <1> QED BY <1>2, <1>4, <1>8

\* runAI notes a word,
LEMMA ReadsWord ==
  ASSUME WordTypes, TurnIsToldLast, CopyCatchesUp, mail # <<>>, mail' = Tail(mail),
         WordAt(1), aiUsed' = aiUsed \cup {mail[1].word}, aiLetter' = LastLetter(mail[1].word),
         UNCHANGED <<thinking, turn, usedWords, chain>>
  PROVE  TurnIsToldLast' /\ CopyCatchesUp' /\ mail' \in Seq(Messages)
  <1> DEFINE n == Len(mail)
  <1>0. n \in Nat /\ n > 0 /\ mail \in Seq(Messages) /\ thinking = {}
    BY DEF WordTypes, TurnIsToldLast
  <1>1. /\ mail' \in Seq(Messages) /\ Len(mail') = n - 1
        /\ \A i \in 1 .. n - 1 : mail'[i] = mail[i + 1]
    <2> HIDE DEF Messages
    <2> QED BY <1>0
  <1>2. TurnIsToldLast'
    <2>1. ASSUME NEW i \in 1 .. n - 1, mail'[i].type = "turn_change"
          PROVE  i = n - 1 /\ turn = "ai"
      <3>1. i + 1 \in 1 .. n /\ mail[i + 1].type = "turn_change"
        BY <1>0, <1>1, <2>1
      <3>2. i + 1 = n /\ turn = "ai"
        BY <3>1 DEF TurnIsToldLast
      <3> QED BY <1>0, <3>2
    <2> HIDE DEF n
    <2> QED BY <1>0, <1>1, <2>1 DEF TurnIsToldLast
  <1>3. \A i \in 1 .. n - 1 : WordAt(i)' <=> WordAt(i + 1)
    BY <1>1 DEF WordAt
  <1>4. NextLetter' = NextLetter
    BY DEF NextLetter, Prev
  <1>5. {mail[i].word : i \in {j \in 1 .. n : WordAt(j)}}
          = {mail[1].word} \cup {mail'[i].word : i \in {j \in 1 .. n - 1 : WordAt(j)'}}
    <2>1. \A i \in 1 .. n : i = 1 \/ (i - 1 \in 1 .. n - 1 /\ i = (i - 1) + 1)
      BY <1>0
    <2>2. \A i \in 1 .. n - 1 : i + 1 \in 1 .. n
      BY <1>0
    <2>3. 1 \in 1 .. n
      BY <1>0
    <2> HIDE DEF n
    <2>4. ASSUME NEW x \in {mail[i].word : i \in {j \in 1 .. n : WordAt(j)}}
          PROVE  x \in {mail[1].word} \cup {mail'[i].word : i \in {j \in 1 .. n - 1 : WordAt(j)'}}
      <3>1. PICK i \in 1 .. n : WordAt(i) /\ x = mail[i].word
        OBVIOUS
      <3>2. CASE i = 1
        BY <3>1, <3>2
      <3>3. CASE i - 1 \in 1 .. n - 1 /\ i = (i - 1) + 1
        <4>1. WordAt(i - 1)' /\ mail'[i - 1] = mail[i]
          BY <1>1, <1>3, <3>1, <3>3
        <4> QED BY <3>1, <3>3, <4>1
      <3> QED BY <2>1, <3>2, <3>3
    <2>5. {mail'[i].word : i \in {j \in 1 .. n - 1 : WordAt(j)'}}
            \subseteq {mail[i].word : i \in {j \in 1 .. n : WordAt(j)}}
      BY <1>1, <1>3, <2>2
    <2> QED BY <2>3, <2>4, <2>5
  <1>6. usedWords = (aiUsed \cup {mail[1].word}) \cup {mail'[i].word : i \in {j \in 1 .. n - 1 : WordAt(j)'}}
    BY <1>5 DEF CopyCatchesUp
  <1>7. (\A i \in 1 .. n - 1 : ~WordAt(i)') => LastLetter(mail[1].word) = NextLetter
    <2>1. \A j \in 2 .. n : j - 1 \in 1 .. n - 1 /\ j = (j - 1) + 1
      BY <1>0
    <2>2. (\A i \in 1 .. n - 1 : ~WordAt(i)') => \A j \in 2 .. n : ~WordAt(j)
      BY <1>3, <2>1
    <2> QED BY <1>0, <2>2 DEF CopyCatchesUp
  <1>8. ASSUME NEW i \in 1 .. n - 1, WordAt(i)', \A j \in i + 1 .. n - 1 : ~WordAt(j)'
        PROVE  LastLetter(mail'[i].word) = NextLetter
    <2>1. i + 1 \in 1 .. n /\ WordAt(i + 1) /\ mail'[i] = mail[i + 1]
      BY <1>0, <1>1, <1>3, <1>8
    <2>2. \A j \in (i + 1) + 1 .. n : j - 1 \in i + 1 .. n - 1 /\ j - 1 \in 1 .. n - 1 /\ j = (j - 1) + 1
      BY <1>0
    <2>3. \A j \in (i + 1) + 1 .. n : ~WordAt(j)
      BY <1>3, <1>8, <2>2
    <2> QED BY <2>1, <2>3 DEF CopyCatchesUp
  <1>9. CopyCatchesUp'
    <2> HIDE DEF n
    <2> QED BY <1>1, <1>4, <1>6, <1>7, <1>8 DEF CopyCatchesUp
  <1> QED BY <1>1, <1>2, <1>9

\* and starts to think when it has read everything.
LEMMA ReadsTurn ==
  ASSUME WordTypes, TurnIsToldLast, CopyCatchesUp, mail # <<>>, mail' = Tail(mail),
         mail[1].type = "turn_change",
         thinking' = thinking \cup {[letter |-> aiLetter, used |-> aiUsed]},
         UNCHANGED <<aiUsed, aiLetter, turn, usedWords, chain>>
  PROVE  TurnIsToldLast' /\ CopyCatchesUp' /\ mail' \in Seq(Messages)
  <1>n. mail \in Seq(Messages) /\ 1 \in 1 .. Len(mail)
    BY DEF WordTypes
  <1>0. mail \in Seq(Messages) /\ Len(mail) = 1 /\ turn = "ai" /\ thinking = {}
    BY <1>n DEF TurnIsToldLast
  <1>1. mail' = <<>> /\ Len(mail') = 0
    <2> HIDE DEF Messages
    <2> QED BY <1>0
  <1>2. \A i \in 1 .. 1 : ~WordAt(i)
    BY DEF WordAt
  <1>3. usedWords = aiUsed /\ aiLetter = NextLetter
    BY <1>0, <1>2 DEF CopyCatchesUp
  <1>4. NextLetter' = NextLetter
    BY DEF NextLetter, Prev
  <1>5. TurnIsToldLast'
    <2>1. \A i \in 1 .. Len(mail') : mail'[i].type = "turn_change" =>
            i = Len(mail') /\ turn' = "ai" /\ thinking' = {}
      <3> HIDE DEF Messages
      <3>1. \A i \in 1 .. Len(mail') : FALSE BY ONLY <1>1
      <3> QED BY ONLY <3>1
    <2>2. thinking' # {} => mail' = <<>> /\ turn' = "ai"
      <3> HIDE DEF Messages
      <3> QED BY <1>0, <1>1
    <2>3. \A t \in thinking' : t = [letter |-> aiLetter', used |-> aiUsed']
      BY <1>0
    <2> QED BY ONLY <2>1, <2>2, <2>3 DEF TurnIsToldLast
  <1>6. CopyCatchesUp'
    <2>1. 1 .. Len(mail') = {}
      BY <1>1
    <2>2. {mail'[i].word : i \in {j \in 1 .. Len(mail') : WordAt(j)'}} = {}
      BY <2>1
    <2> QED BY <1>3, <1>4, <2>1, <2>2 DEF CopyCatchesUp
  <1>7. mail' \in Seq(Messages)
    BY <1>1, EmptySeq
  <1> QED BY <1>5, <1>6, <1>7

\* Nothing is said.
LEMMA HearsNothing ==
  ASSUME TurnIsToldLast, CopyCatchesUp,
         UNCHANGED <<mail, turn, usedWords, chain, aiUsed, aiLetter>>, thinking' \subseteq thinking
  PROVE  TurnIsToldLast' /\ CopyCatchesUp'
  <1>1. NextLetter' = NextLetter
    BY DEF NextLetter, Prev
  <1>2. TurnIsToldLast'
    BY DEF TurnIsToldLast
  <1>3. CopyCatchesUp'
    BY <1>1 DEF CopyCatchesUp, WordAt
  <1> QED BY <1>2, <1>3
-----------------------------------------------------------------------------
(* Every step.                                                             *)

LEMMA WordInitInv == WordChainInit => WordInv
  <1> SUFFICES ASSUME WordChainInit PROVE WordInv
    OBVIOUS
  <1>1. /\ mail = <<TurnChange>> /\ TurnChange \in Messages /\ TurnChange.type = "turn_change"
        /\ Len(mail) = 1 /\ mail[1] = TurnChange
    BY DEF WordChainInit, Messages, TurnChange
  <1>2. mail \in Seq(Messages)
    BY <1>1
  <1>3. WordTypes
    BY <1>2 DEF WordTypes, WordChainInit, PlayerIDs
  <1>4. ChainIsLinked
    BY DEF ChainIsLinked, WordChainInit
  <1>5. TurnIsToldLast
    BY <1>1 DEF TurnIsToldLast, WordChainInit
  <1>6. CopyCatchesUp
    BY <1>1 DEF CopyCatchesUp, WordAt, NextLetter, WordChainInit
  <1> QED BY <1>3, <1>4, <1>5, <1>6 DEF WordInv, HintFits, WordChainInit

\* A step in which no word is played, no hint given and nothing said.
LEMMA NothingSaid ==
  ASSUME WordInv, UNCHANGED <<chain, usedWords, hint, mail, turn, aiUsed, aiLetter>>,
         overlay'.added \subseteq Vocabulary, overlay'.added \cap overlay'.removed = {},
         state' \in {"active", "continue_window", "finished"}, thinking' \subseteq thinking
  PROVE  WordInv'
  <1>1. TurnIsToldLast' /\ CopyCatchesUp'
    BY HearsNothing DEF WordInv
  <1>2. WordTypes' /\ ChainIsLinked'
    BY DEF WordInv, WordTypes, ChainIsLinked
  <1>3. HintFits'
    BY DEF WordInv, HintFits, Prev
  <1> QED BY <1>1, <1>2, <1>3 DEF WordInv

LEMMA OverridesKeepTheRules ==
  ASSUME WordInv, NEW w \in Vocabulary, NEW present, NEW blocked, ApplyOverrides(w, present, blocked)
  PROVE  WordInv'
  <1>1. /\ overlay'.added = IF present THEN overlay.added \cup {w} ELSE overlay.added \ {w}
        /\ overlay'.removed = IF present THEN overlay.removed \ {w} ELSE overlay.removed \cup {w}
    BY DEF ApplyOverrides
  <1>2. overlay.added \subseteq Vocabulary /\ overlay.added \cap overlay.removed = {}
    BY DEF WordInv, WordTypes
  <1>3. overlay'.added \subseteq Vocabulary /\ overlay'.added \cap overlay'.removed = {}
    BY <1>1, <1>2
  <1> QED BY <1>3, NothingSaid DEF ApplyOverrides, matchVars, aiVars, WordInv, WordTypes

\* A legal word of whoever is on turn
LEMMA WordPlayed ==
  ASSUME WordInv, NEW w, ValidateMove(Prev, w, usedWords) = "ok", state = "active",
         chain' = Append(chain, w), usedWords' = usedWords \cup {w},
         \/ turn = "human" /\ startTurn("ai", <<Accepted(w)>>) /\ thinking' = thinking
         \/ turn = "ai" /\ thinking # {} /\ startTurn("human", <<Accepted(w)>>) /\ thinking' = {},
         UNCHANGED <<state, hint, overlay, aiUsed, aiLetter>>
  PROVE  WordInv'
  <1>0. WordTypes /\ ChainIsLinked /\ TurnIsToldLast /\ CopyCatchesUp /\ HintFits
    BY DEF WordInv
  <1>1. /\ ChainIsLinked' /\ chain' \in Seq(Vocabulary) /\ w \in Vocabulary
        /\ NextLetter' = LastLetter(w) /\ Len(chain') = Len(chain) + 1
    BY <1>0, LinkedWord
  <1>2. /\ mail \in Seq(Messages)
        /\ turn = "human" => thinking = {}
        /\ thinking # {} => mail = <<>>
    BY <1>0 DEF WordTypes, TurnIsToldLast
  <1>3. \/ mail' = Append(mail, Accepted(w)) /\ turn' = "human" /\ thinking' = {}
        \/ mail' = Append(Append(mail, Accepted(w)), TurnChange) /\ turn' = "ai" /\ thinking' = {}
    <2>1. ASSUME NEW s \in Seq(Messages), NEW x, NEW y
          PROVE  (s \o <<x>>) \o <<>> = Append(s, x) /\ (s \o <<x>>) \o <<y>> = Append(Append(s, x), y)
      OBVIOUS
    <2> QED BY <1>2, <2>1 DEF startTurn
  <1>4. TurnIsToldLast' /\ CopyCatchesUp' /\ mail' \in Seq(Messages)
    BY <1>0, <1>1, <1>2, <1>3, HearsWord
  <1>5. HintFits'
    BY <1>0, <1>1, HintGrowsOld
  <1>6. WordTypes'
    BY <1>0, <1>1, <1>3, <1>4 DEF WordTypes, PlayerIDs
  <1> QED BY <1>1, <1>4, <1>5, <1>6 DEF WordInv

\* A loss of whoever is on turn
LEMMA TurnLost ==
  ASSUME WordInv, state = "active", handleLoss(turn), thinking' \subseteq thinking,
         UNCHANGED <<overlay, aiUsed, aiLetter>>
  PROVE  WordInv'
  <1>0. WordTypes /\ ChainIsLinked /\ TurnIsToldLast /\ CopyCatchesUp /\ HintFits
    BY DEF WordInv
  <1>1. CASE turn = "human" /\ shield = "on"
    <2>1. /\ turn' = "ai" /\ mail' = (mail \o <<>>) \o <<TurnChange>>
          /\ UNCHANGED <<state, chain, usedWords, hint>>
      BY <1>1 DEF handleLoss, startTurn, Other
    <2>2. mail' = Append(mail, TurnChange)
      BY <1>0, <2>1 DEF WordTypes
    <2>3. thinking' = thinking
      BY <1>0, <1>1 DEF TurnIsToldLast
    <2>4. TurnIsToldLast' /\ CopyCatchesUp' /\ mail' \in Seq(Messages)
      BY <1>0, <1>1, <2>1, <2>2, <2>3, HearsTurn
    <2>5. WordTypes' /\ ChainIsLinked' /\ HintFits'
      BY <1>0, <2>1, <2>4 DEF WordTypes, ChainIsLinked, HintFits, Prev, PlayerIDs
    <2> QED BY <2>4, <2>5 DEF WordInv
  <1>2. CASE ~(turn = "human" /\ shield = "on")
    <2>1. /\ state' \in {"continue_window", "finished"}
          /\ UNCHANGED <<turn, chain, usedWords, hint, mail>>
      BY <1>2 DEF handleLoss
    <2> QED BY <1>0, <2>1, NothingSaid DEF WordTypes
  <1> QED BY <1>1, <1>2

LEMMA WordStep ==
  ASSUME WordInv, [WordChainNext]_wordChainVars
  PROVE  WordInv'
  <1>0. WordTypes /\ TurnIsToldLast
    BY DEF WordInv
  <1>1. ASSUME NEW w \in Vocabulary, NEW present, NEW blocked, ApplyOverrides(w, present, blocked)
        PROVE  WordInv'
    BY <1>1, OverridesKeepTheRules
  <1>2. ASSUME NEW w, HumanSubmits(w) PROVE WordInv'
    <2>1. /\ state = "active" /\ turn = "human"
          /\ UNCHANGED <<overlay, aiUsed, aiLetter, thinking>>
      BY <1>2 DEF HumanSubmits, processSubmitWord, lexiconVars
    <2>2. CASE ValidateMove(Prev, w, usedWords) = "ok"
      BY <1>2, <2>1, <2>2, WordPlayed DEF HumanSubmits, processSubmitWord, Other
    <2>3. CASE ValidateMove(Prev, w, usedWords) # "ok"
      BY <1>2, <2>1, <2>3, TurnLost DEF HumanSubmits, processSubmitWord
    <2> QED BY <2>2, <2>3
  <1>3. ASSUME TurnTimeout PROVE WordInv'
    BY <1>3, TurnLost DEF TurnTimeout, lexiconVars
  <1>4. ASSUME Continue PROVE WordInv'
    <2>1. mail' = (mail \o <<>>) \o <<>> /\ turn = "human" /\ turn' = "human" /\ state' = "active"
      BY <1>4 DEF Continue, startTurn
    <2>2. mail' = mail
      BY <1>0, <2>1 DEF WordTypes
    <2> QED BY <1>0, <1>4, <2>1, <2>2, NothingSaid DEF Continue, lexiconVars, WordTypes
  <1>5. ASSUME MatchEnds \/ UseShield PROVE WordInv'
    BY <1>0, <1>5, NothingSaid DEF MatchEnds, UseShield, lexiconVars, aiVars, WordTypes
  <1>6. ASSUME UseHint PROVE WordInv'
    <2>1. PICK w \in SuggestWord(LastLetter(Prev), usedWords) :
            hint' = [word |-> w, at |-> Len(chain)]
      BY <1>6 DEF UseHint
    <2>2. /\ w \in EachWord /\ firstLetter(w) = LastLetter(Prev) /\ w \notin usedWords
          /\ Len(w) >= SuggestPreferredLen \/ Len(w) >= MinWordLength
      BY <2>1 DEF SuggestWord
    <2>3. w \in Vocabulary
      BY WordsAssumption, <1>0, <2>2 DEF EachWord, WordTypes
    <2>4. Len(w) >= MinWordLength
      <3>1. w \in Seq(Persian \cup {Zwnj})
        BY <2>3, WordsAssumption
      <3>2. Len(w) \in Nat
        BY <3>1
      <3> QED BY <2>2, <3>2, LengthsAssumption
    <2>5. UNCHANGED <<overlay, state, chain, usedWords, mail, turn, aiUsed, aiLetter, thinking>>
      BY <1>6 DEF UseHint, lexiconVars, aiVars
    <2>6. HintFits'
      BY <1>0, <2>1, <2>2, <2>3, <2>4, <2>5 DEF HintFits, Prev, WordTypes
    <2>7. TurnIsToldLast' /\ CopyCatchesUp'
      BY <2>5, HearsNothing DEF WordInv
    <2> QED BY <2>5, <2>6, <2>7 DEF WordInv, WordTypes, ChainIsLinked
  <1>7. ASSUME runAI PROVE WordInv'
    <2>1. /\ mail # <<>> /\ mail' = Tail(mail) /\ Head(mail) = mail[1]
          /\ UNCHANGED <<overlay, state, turn, chain, usedWords, hint>>
      BY <1>0, <1>7 DEF runAI, matchVars, lexiconVars, WordTypes
    <2>2. TurnIsToldLast' /\ CopyCatchesUp' /\ mail' \in Seq(Messages)
      <3>1. CASE mail[1].type = "word_accepted"
        BY <1>0, <1>7, <2>1, <3>1, ReadsWord DEF runAI, WordInv, WordAt
      <3>2. CASE mail[1].type = "turn_change"
        BY <1>0, <1>7, <2>1, <3>2, ReadsTurn DEF runAI, WordInv
      <3> QED BY <1>7, <2>1, <3>1, <3>2 DEF runAI
    <2> QED BY <2>1, <2>2 DEF WordInv, WordTypes, ChainIsLinked, HintFits, Prev
  <1>8. ASSUME NEW t \in thinking, aiSubmit(t) PROVE WordInv'
    <2>1. thinking' = {} /\ turn = "ai" /\ thinking # {}
      BY <1>0, <1>8 DEF aiSubmit, TurnIsToldLast
    <2>2. UNCHANGED <<overlay, aiUsed, aiLetter>>
      BY <1>8 DEF aiSubmit, lexiconVars
    <2>3. CASE UNCHANGED <<matchVars, mail>>
      BY <1>0, <2>1, <2>2, <2>3, NothingSaid DEF matchVars, WordTypes
    <2>4. ASSUME NEW w, processSubmitWord("ai", w) PROVE WordInv'
      <3>1. state = "active"
        BY <2>4 DEF processSubmitWord
      <3>2. CASE ValidateMove(Prev, w, usedWords) = "ok"
        BY <2>1, <2>2, <2>4, <3>1, <3>2, WordPlayed DEF processSubmitWord, Other
      <3>3. CASE ValidateMove(Prev, w, usedWords) # "ok"
        BY <2>1, <2>2, <2>4, <3>1, <3>3, TurnLost DEF processSubmitWord
      <3> QED BY <3>2, <3>3
    <2> QED BY <1>8, <2>3, <2>4 DEF aiSubmit
  <1>9. ASSUME (\E w, speed : PlayDaily(w, speed)) \/ UploadDaily PROVE WordInv'
    BY <1>0, <1>9, NothingSaid DEF PlayDaily, UploadDaily, lexiconVars, matchVars, aiVars, WordTypes
  <1>10. ASSUME UNCHANGED wordChainVars PROVE WordInv'
    BY <1>0, <1>10, NothingSaid DEF wordChainVars, lexiconVars, matchVars, aiVars, WordTypes
  <1> QED BY <1>1, <1>2, <1>3, <1>4, <1>5, <1>6, <1>7, <1>8, <1>9, <1>10 DEF WordChainNext

-----------------------------------------------------------------------------
\* The invariant is enough: the AI's pick and the hint are legal moves.
LEMMA AIPickIsLegal ==
  ASSUME WordInv, NEW t \in thinking, NEW w \in SelectAIWord(t.letter, t.used)
  PROVE  ValidateMove(Prev, w, usedWords) = "ok"
  <1>1. /\ mail = <<>> /\ t.letter = aiLetter /\ t.used = aiUsed
    BY DEF WordInv, TurnIsToldLast
  <1>2. Len(mail) = 0
    BY <1>1
  <1>3. usedWords = t.used /\ t.letter = NextLetter
    BY <1>1, <1>2 DEF WordInv, CopyCatchesUp
  <1>4. /\ w \in EachWord /\ Len(w) >= AIMinLength /\ w \notin usedWords
        /\ NextLetter # NoLetter => firstLetter(w) = NextLetter
    BY <1>3 DEF SelectAIWord
  <1>5. w \in Vocabulary /\ IsValid(w)
    BY WordsAssumption, <1>4 DEF EachWord, IsValid, WordInv, WordTypes
  <1>6. Len(w) >= MinWordLength
    <2>1. w \in Seq(Persian \cup {Zwnj})
      BY <1>5, WordsAssumption
    <2>2. Len(w) \in Nat
      BY <2>1
    <2> QED BY <1>4, <2>2, LengthsAssumption
  <1>7. Prev # <<>> => firstLetter(w) = LastLetter(Prev)
    <2>1. CASE chain = <<>>
      BY <2>1 DEF Prev
    <2>2. CASE chain # <<>>
      <3>1. Prev \in Vocabulary /\ NextLetter = LastLetter(Prev)
        BY <2>2, PrevIsAWord DEF NextLetter, WordInv
      <3> QED BY <1>4, <3>1, WordsEnd
    <2> QED BY <2>1, <2>2
  <1> QED BY <1>1, <1>4, <1>5, <1>6, <1>7, MovesOfVocabulary

LEMMA WordInvIsEnough == WordInv => WordsFollowRules
  <1> SUFFICES ASSUME WordInv PROVE WordsFollowRules
    OBVIOUS
  <1>1. AIPlaysByTheRules
    <2>1. \A t \in thinking : turn = "ai"
      BY DEF WordInv, TurnIsToldLast
    <2>2. \A t \in thinking : \A w \in SelectAIWord(t.letter, t.used) :
            ValidateMove(Prev, w, usedWords) = "ok"
      BY AIPickIsLegal
    <2> QED BY <2>1, <2>2 DEF AIPlaysByTheRules
  <1>2. HintIsPlayable
    <2> SUFFICES ASSUME hint # NoHint, hint.at = Len(chain)
                 PROVE  ValidateMove(Prev, hint.word, usedWords) \in {"ok", "not_in_dictionary"}
      BY DEF HintIsPlayable
    <2>1. /\ hint.word \in Vocabulary /\ Len(hint.word) >= MinWordLength
          /\ firstLetter(hint.word) = LastLetter(Prev) /\ hint.word \notin usedWords
      BY DEF WordInv, HintFits
    <2>2. ValidateMove(Prev, hint.word, usedWords) = IF IsValid(hint.word) THEN "ok" ELSE "not_in_dictionary"
      BY <2>1, MovesOfVocabulary
    <2> QED BY <2>2
  <1> QED BY <1>1, <1>2 DEF WordsFollowRules, WordInv

\* Whatever the players, the dictionary and the AI's delays do, the words of a match
\* link and never repeat, the AI picks a legal word, and a hint can be played.
THEOREM WordsAlwaysFollowRules == WordChainSpec => []WordsFollowRules
  <1>1. WordInv /\ [WordChainNext]_wordChainVars => WordInv'
    BY WordStep
  <1> QED BY <1>1, WordInitInv, WordInvIsEnough, PTL DEF WordChainSpec

-----------------------------------------------------------------------------
(* The Daily Challenge                                                     *)

\* What ValidateDailyChain adds up, word by word, as its recursion defines it
AddsUp(sum, words) ==
  sum = [i \in 0 .. Len(words) |-> IF i = 0 THEN 0 ELSE sum[i - 1] + maxTurnScore(words[i])]

RunTypes ==
  /\ run = [letter |-> run.letter, chain |-> run.chain, score |-> run.score, streak |-> run.streak]
  /\ run.chain \in Seq(Fa) /\ run.score \in Nat /\ run.streak \in Nat

RunIsLinked ==
  /\ \A i \in 1 .. Len(run.chain) : Len(run.chain[i]) >= MinWordLength
  /\ \A i, j \in 1 .. Len(run.chain) : i # j => run.chain[i] # run.chain[j]
  /\ run.chain # <<>> => firstLetter(run.chain[1]) = run.letter
  /\ \A i \in 1 .. Len(run.chain) - 1 : firstLetter(run.chain[i + 1]) = LastLetter(run.chain[i])

\* The score is within every sum the recursion may stand for, and there is one: both
\* survive a word more, so that no induction over the chain is needed.
ScoreIsBounded ==
  /\ \E sum : AddsUp(sum, run.chain)
  /\ \A sum : AddsUp(sum, run.chain) => sum[Len(run.chain)] \in Nat /\ run.score <= sum[Len(run.chain)]

RunInv == RunTypes /\ RunIsLinked /\ ScoreIsBounded

\* A word of fa.txt ends with the letter the rules ask for next.
LEMMA FaWords ==
  ASSUME NEW w \in Fa
  PROVE  w \in Seq(Persian \cup {Zwnj}) /\ Len(w) \in Nat \ {0} /\ LastLetter(w) = w[Len(w)]
  <1>1. w \in Vocabulary /\ w \in Seq(Persian \cup {Zwnj}) /\ LastLetter(w) \in Persian
    BY WordsAssumption
  <1>2. w[Len(w)] # Zwnj
    BY DailyAssumption, CharsAssumption
  <1>3. PICK last \in 1 .. Len(w) : EndsAt(w, last)
    BY <1>1, CharsAssumption DEF LastLetter
  <1>4. Len(w) \in Nat \ {0}
    BY <1>1, <1>3
  <1>5. EndsAt(w, Len(w))
    BY <1>2, <1>4 DEF EndsAt
  <1>6. \A i \in 1 .. Len(w) : EndsAt(w, i) => i = Len(w)
    BY <1>2, <1>4 DEF EndsAt
  <1>7. (CHOOSE i \in 1 .. Len(w) : EndsAt(w, i)) = Len(w)
    BY <1>3, <1>6
  <1> QED BY <1>1, <1>3, <1>4, <1>7 DEF LastLetter

LEMMA LargerTimes ==
  ASSUME NEW a \in Nat, NEW b \in Nat, NEW k \in Nat, a <= b
  PROVE  a * k \in Nat /\ b * k \in Nat /\ a * k <= b * k
  <1>1. b - a \in Nat /\ b = a + (b - a)
    OBVIOUS
  <1>2. PICK d \in Nat : d = b - a
    BY <1>1
  <1>3. a * k \in Nat /\ d * k \in Nat
    OBVIOUS
  <1>4. b * k = a * k + d * k
    BY <1>2, <1>1
  <1> QED BY <1>3, <1>4

\* What a word scores is within what the server allows for it.
LEMMA TurnsAreBounded ==
  ASSUME NEW w \in Fa, NEW speed \in {0, 2 * TurnTimerClassicSec}, NEW streak \in Nat
  PROVE  LET turnScore == CalculateScore(w, speed, streak)
                            * (IF Len(w) >= LongWordBonusMinLen THEN LongWordBonusMult ELSE 1)
         IN  maxTurnScore(w) \in Nat /\ turnScore \in Nat /\ turnScore <= maxTurnScore(w)
  <1>1. PICK n \in Nat : n = Len(w)
    BY FaWords
  <1>2. PICK timer \in Nat : timer = TurnTimerClassicSec
    BY DailyAssumption
  <1>3. PICK k \in Nat : k = IF n >= LongWordBonusMinLen THEN LongWordBonusMult ELSE 1
    BY DailyAssumption
  <1>4. PICK most \in Nat : most = n * 10 + timer * 2 + n * 5
    BY <1>1, <1>2
  <1>5. PICK s : s = CalculateScore(w, speed, streak)
    OBVIOUS
  <1>6. s = n * 10 + speed + (IF streak >= 3 THEN (n * 10) \div 2 ELSE 0)
    BY <1>1, <1>5 DEF CalculateScore
  <1>7. s \in Nat /\ s <= most
    <2>1. (n * 10) \div 2 = n * 5
      OBVIOUS
    <2>2. speed \in Nat /\ speed <= timer * 2
      BY <1>2
    <2> QED BY <1>4, <1>6, <2>1, <2>2
  <1>8. maxTurnScore(w) = most * k
    BY <1>1, <1>2, <1>3, <1>4 DEF maxTurnScore
  <1>9. s * k \in Nat /\ most * k \in Nat /\ s * k <= most * k
    BY ONLY <1>7, LargerTimes, most \in Nat, k \in Nat
  <1> QED BY <1>1, <1>3, <1>5, <1>8, <1>9

\* One word more adds its own bound to the sum.
SumsExtend(words, w, more, n) ==
  /\ Len(more) = n + 1
  /\ \A sum : AddsUp(sum, more) =>
       /\ sum[n + 1] = sum[n] + maxTurnScore(w)
       /\ \E before : AddsUp(before, words) /\ before[n] = sum[n]
  /\ (\E sum : AddsUp(sum, words)) => \E sum : AddsUp(sum, more)

LEMMA SumsOfMore ==
  ASSUME NEW words, words \in Seq(Fa), NEW w \in Fa, NEW more, more = Append(words, w),
         NEW n \in Nat, n = Len(words)
  PROVE  SumsExtend(words, w, more, n)
  <1>1. Len(more) = n + 1 /\ more[n + 1] = w /\ \A i \in 1 .. n : more[i] = words[i]
    BY AppendProperties
  <1>2. ASSUME NEW sum, AddsUp(sum, more)
        PROVE  /\ sum[n + 1] = sum[n] + maxTurnScore(w)
               /\ \E before : AddsUp(before, words) /\ before[n] = sum[n]
    <2>1. sum = [i \in 0 .. n + 1 |-> IF i = 0 THEN 0 ELSE sum[i - 1] + maxTurnScore(more[i])]
      BY <1>1, <1>2 DEF AddsUp
    <2>2. \A i \in 0 .. n + 1 : sum[i] = IF i = 0 THEN 0 ELSE sum[i - 1] + maxTurnScore(more[i])
      BY <2>1
    <2>3. sum[n + 1] = sum[n] + maxTurnScore(w)
      <3>1. n + 1 \in 0 .. n + 1 /\ n + 1 # 0 /\ (n + 1) - 1 = n
        OBVIOUS
      <3> QED BY <1>1, <2>2, <3>1
    <2>4. PICK before : before = [i \in 0 .. n |-> sum[i]]
      OBVIOUS
    <2>5. AddsUp(before, words)
      <3>1. ASSUME NEW i \in 0 .. n
            PROVE  before[i] = IF i = 0 THEN 0 ELSE before[i - 1] + maxTurnScore(words[i])
        <4>1. before[i] = sum[i] /\ i \in 0 .. n + 1
          BY <2>4
        <4>2. CASE i = 0
          BY <2>2, <4>1, <4>2
        <4>3. CASE i # 0
          <5>1. i \in 1 .. n /\ i - 1 \in 0 .. n
            BY <4>3
          <5>2. before[i - 1] = sum[i - 1] /\ more[i] = words[i]
            BY <1>1, <2>4, <5>1
          <5> QED BY <2>2, <4>1, <4>3, <5>2
        <4> QED BY <4>2, <4>3
      <3>2. before = [i \in 0 .. n |-> IF i = 0 THEN 0 ELSE before[i - 1] + maxTurnScore(words[i])]
        BY <2>4, <3>1
      <3> QED BY <3>2 DEF AddsUp
    <2>6. before[n] = sum[n]
      BY <2>4
    <2> QED BY <2>3, <2>5, <2>6
  <1>3. ASSUME NEW sum, AddsUp(sum, words)
        PROVE  \E longer : AddsUp(longer, more)
    <2>1. \A i \in 0 .. n : sum[i] = IF i = 0 THEN 0 ELSE sum[i - 1] + maxTurnScore(words[i])
      <3>1. sum = [i \in 0 .. n |-> IF i = 0 THEN 0 ELSE sum[i - 1] + maxTurnScore(words[i])]
        BY <1>3 DEF AddsUp
      <3> QED BY <3>1
    <2>2. PICK longer : longer = [i \in 0 .. n + 1 |-> IF i <= n THEN sum[i] ELSE sum[n] + maxTurnScore(w)]
      OBVIOUS
    <2>3. ASSUME NEW i \in 0 .. n + 1
          PROVE  longer[i] = IF i = 0 THEN 0 ELSE longer[i - 1] + maxTurnScore(more[i])
      <3>1. CASE i = n + 1
        <4>1. longer[i] = sum[n] + maxTurnScore(w) /\ longer[n] = sum[n] /\ i - 1 = n /\ i # 0
          BY <2>2, <3>1
        <4> QED BY <1>1, <3>1, <4>1
      <3>2. CASE i = 0
        <4>1. longer[i] = sum[i]
          BY <2>2, <3>2
        <4> QED BY <2>1, <3>2, <4>1
      <3>3. CASE i # n + 1 /\ i # 0
        <4>1. i \in 1 .. n /\ i \in 0 .. n /\ i - 1 \in 0 .. n
          BY <3>3
        <4>2. longer[i] = sum[i] /\ longer[i - 1] = sum[i - 1] /\ more[i] = words[i]
          BY <1>1, <2>2, <4>1
        <4> QED BY <2>1, <3>3, <4>1, <4>2
      <3> QED BY <3>1, <3>2, <3>3
    <2>4. longer = [i \in 0 .. n + 1 |-> IF i = 0 THEN 0 ELSE longer[i - 1] + maxTurnScore(more[i])]
      BY <2>2, <2>3
    <2> QED BY <1>1, <2>4 DEF AddsUp
  <1> QED BY <1>1, <1>2, <1>3 DEF SumsExtend

LEMMA RunStart == WordChainInit => RunInv
  <1> SUFFICES ASSUME WordChainInit PROVE RunInv
    OBVIOUS
  <1>1. PICK l : run = [letter |-> l, chain |-> <<>>, score |-> 0, streak |-> 0]
    BY DEF WordChainInit
  <1>2. run.chain = <<>> /\ run.score = 0 /\ run.streak = 0 /\ run.letter = l
    BY <1>1
  <1>3. RunTypes
    BY <1>1, <1>2 DEF RunTypes
  <1>4. RunIsLinked
    BY <1>2 DEF RunIsLinked
  <1>5. Len(run.chain) = 0
    BY <1>2
  <1>6. \A sum : AddsUp(sum, run.chain) => sum[0] = 0
    BY <1>5 DEF AddsUp
  <1>7. \E sum : AddsUp(sum, run.chain)
    <2>1. PICK sum : sum = [i \in {0} |-> 0]
      OBVIOUS
    <2>2. 0 .. 0 = {0}
      OBVIOUS
    <2>3. sum = [i \in 0 .. 0 |-> IF i = 0 THEN 0 ELSE sum[i - 1] + maxTurnScore(run.chain[i])]
      BY <2>1, <2>2
    <2> QED BY <1>5, <2>3 DEF AddsUp
  <1>8. ScoreIsBounded
    BY <1>2, <1>5, <1>6, <1>7 DEF ScoreIsBounded
  <1> QED BY <1>3, <1>4, <1>8 DEF RunInv

LEMMA RunGoesOn ==
  ASSUME RunInv, NEW w \in Fa, NEW speed \in {0, 2 * TurnTimerClassicSec}, PlayDaily(w, speed)
  PROVE  RunInv'
  <1>1. PICK n \in Nat : n = Len(run.chain)
    BY DEF RunInv, RunTypes
  <1>2. PICK points : points = CalculateScore(w, speed, run.streak)
                        * (IF Len(w) >= LongWordBonusMinLen THEN LongWordBonusMult ELSE 1)
    OBVIOUS
  <1>3. /\ run.chain \in Seq(Fa) /\ run.score \in Nat /\ run.streak \in Nat
        /\ run = [letter |-> run.letter, chain |-> run.chain, score |-> run.score, streak |-> run.streak]
    BY DEF RunInv, RunTypes
  <1>4. run' = [letter |-> run.letter, chain |-> Append(run.chain, w), score |-> run.score + points,
                streak |-> run.streak + 1]
    BY <1>2, <1>3 DEF PlayDaily
  <1>5. /\ run'.letter = run.letter /\ run'.chain = Append(run.chain, w)
        /\ run'.score = run.score + points /\ run'.streak = run.streak + 1
    BY <1>4
  <1>6. maxTurnScore(w) \in Nat /\ points \in Nat /\ points <= maxTurnScore(w)
    BY <1>2, <1>3, TurnsAreBounded
  <1>7. run'.chain \in Seq(Fa) /\ run'.score \in Nat /\ run'.streak \in Nat
    BY <1>3, <1>5, <1>6, AppendProperties
  <1>8. RunTypes'
    <2>1. run' = [letter |-> run'.letter, chain |-> run'.chain, score |-> run'.score, streak |-> run'.streak]
      BY <1>4, <1>5
    <2> QED BY <1>7, <2>1 DEF RunTypes
  <1>9. /\ Len(run'.chain) = n + 1 /\ run'.chain[n + 1] = w
        /\ \A i \in 1 .. n : run'.chain[i] = run.chain[i]
    BY <1>1, <1>3, <1>5, AppendProperties
  <1>10. RunIsLinked'
    <2>1. RunIsLinked /\ Len(w) >= MinWordLength /\ firstLetter(w) = NextStartLetter
          /\ \A i \in 1 .. n : run.chain[i] # w
      BY <1>1 DEF RunInv, PlayDaily
    <2>2. ASSUME NEW i \in 1 .. n + 1 PROVE i \in 1 .. n \/ i = n + 1
      OBVIOUS
    <2>3. \A i \in 1 .. n + 1 : Len(run'.chain[i]) >= MinWordLength
      BY <1>1, <1>9, <2>1, <2>2 DEF RunIsLinked
    <2>4. ASSUME NEW i \in 1 .. n + 1, NEW j \in 1 .. n + 1, i # j PROVE run'.chain[i] # run'.chain[j]
      <3>1. i \in 1 .. n /\ j \in 1 .. n => run.chain[i] # run.chain[j]
        BY <1>1, <2>1, <2>4 DEF RunIsLinked
      <3>2. CASE i \in 1 .. n /\ j \in 1 .. n
        BY <1>9, <3>1, <3>2
      <3>3. CASE i = n + 1 /\ j \in 1 .. n
        BY <1>9, <2>1, <3>3
      <3>4. CASE i \in 1 .. n /\ j = n + 1
        BY <1>9, <2>1, <3>4
      <3> QED BY <2>2, <2>4, <3>2, <3>3, <3>4
    <2>5. firstLetter(run'.chain[1]) = run'.letter
      <3>1. CASE n = 0
        <4>1. run.chain = <<>>
          BY <1>1, <1>3, <3>1, EmptySeq
        <4> QED BY <1>5, <1>9, <2>1, <3>1, <4>1 DEF NextStartLetter
      <3>2. CASE n # 0
        <4>1. 1 \in 1 .. n /\ run.chain # <<>>
          BY <1>1, <3>2
        <4> QED BY <1>5, <1>9, <2>1, <4>1 DEF RunIsLinked
      <3> QED BY <3>1, <3>2
    <2>6. ASSUME NEW i \in 1 .. n
          PROVE  firstLetter(run'.chain[i + 1]) = LastLetter(run'.chain[i])
      <3>1. CASE i # n
        <4>1. i + 1 \in 1 .. n /\ i \in 1 .. n - 1
          BY <3>1
        <4> QED BY <1>1, <1>9, <2>1, <4>1 DEF RunIsLinked
      <3>2. CASE i = n
        <4>1. run.chain # <<>> /\ run.chain[n] \in Fa
          BY <1>1, <1>3, <3>2, ElementOfSeq
        <4>2. LastLetter(run.chain[n]) = run.chain[n][Len(run.chain[n])]
          BY <4>1, FaWords
        <4>3. NextStartLetter = run.chain[n][Len(run.chain[n])]
          BY <1>1, <4>1 DEF NextStartLetter
        <4> QED BY <1>9, <2>1, <3>2, <4>2, <4>3
      <3> QED BY <3>1, <3>2
    <2>7. (n + 1) - 1 = n
      OBVIOUS
    <2> QED BY <1>9, <2>3, <2>4, <2>5, <2>6, <2>7 DEF RunIsLinked
  <1>11. ScoreIsBounded'
    <2>1. PICK more : more = run'.chain
      OBVIOUS
    <2>2. PICK words : words = run.chain
      OBVIOUS
    <2>3. more = Append(words, w) /\ words \in Seq(Fa) /\ n = Len(words)
      BY <1>1, <1>3, <1>5, <2>1, <2>2
    <2>4. SumsExtend(words, w, more, n)
      BY ONLY <2>3, SumsOfMore, w \in Fa, n \in Nat
    <2>5. /\ \E sum : AddsUp(sum, words)
          /\ \A sum : AddsUp(sum, words) => sum[n] \in Nat /\ run.score <= sum[n]
      BY <1>1, <2>2 DEF RunInv, ScoreIsBounded
    <2>6. ASSUME NEW sum, AddsUp(sum, more)
          PROVE  sum[n + 1] \in Nat /\ run.score + points <= sum[n + 1]
      <3>1. sum[n] \in Nat /\ run.score <= sum[n] /\ sum[n + 1] = sum[n] + maxTurnScore(w)
        BY <2>4, <2>5, <2>6 DEF SumsExtend
      <3> QED BY <1>3, <1>6, <3>1
    <2>7. /\ \E sum : AddsUp(sum, more)
          /\ \A sum : AddsUp(sum, more) => sum[Len(more)] \in Nat /\ run'.score <= sum[Len(more)]
      BY <1>5, <2>4, <2>5, <2>6 DEF SumsExtend
    <2> QED BY <2>1, <2>7 DEF ScoreIsBounded, AddsUp, maxTurnScore
  <1> QED BY <1>8, <1>10, <1>11 DEF RunInv

LEMMA RunStays == ASSUME RunInv, run' = run PROVE RunInv'
  <1>1. RunTypes'
    BY DEF RunInv, RunTypes
  <1>2. RunIsLinked'
    BY DEF RunInv, RunIsLinked
  <1>3. ScoreIsBounded'
    BY DEF RunInv, ScoreIsBounded, AddsUp, maxTurnScore
  <1> QED BY <1>1, <1>2, <1>3 DEF RunInv

\* What the app has let through is refused for a word that was removed or a length.
LEMMA HonestRuns ==
  ASSUME RunInv, Len(run.chain) <= DailyChainSafetyCap,
         \A i \in 1 .. Len(run.chain) : IsValid(run.chain[i])
  PROVE  ValidateDailyChain(run.letter, run.chain, run.score)
  <1>1. PICK n \in Nat : n = Len(run.chain)
    BY DEF RunInv, RunTypes
  <1>2. run.chain \in Seq(Fa) /\ run.score \in Nat
    BY DEF RunInv, RunTypes
  <1>3. ASSUME NEW i \in 1 .. n, NEW prev, prev = IF i = 1 THEN <<>> ELSE run.chain[i - 1]
        PROVE  ValidateMove(prev, run.chain[i], {run.chain[j] : j \in 1 .. i - 1}) = "ok"
    <2>1. run.chain[i] \in Fa /\ run.chain[i] \in Vocabulary /\ IsValid(run.chain[i])
      BY <1>1, <1>2, ElementOfSeq, WordsAssumption
    <2>2. run.chain[i] \notin {run.chain[j] : j \in 1 .. i - 1} /\ Len(run.chain[i]) >= MinWordLength
      <3>1. \A j \in 1 .. i - 1 : j \in 1 .. n /\ j # i
        OBVIOUS
      <3> QED BY <1>1, <3>1 DEF RunInv, RunIsLinked
    <2>3. prev # <<>> => firstLetter(run.chain[i]) = LastLetter(prev)
      <3>1. CASE i = 1
        BY <1>3, <3>1
      <3>2. CASE i # 1
        <4>1. i - 1 \in 1 .. n - 1 /\ (i - 1) + 1 = i
          BY <3>2
        <4> QED BY <1>1, <1>3, <3>2, <4>1 DEF RunInv, RunIsLinked
      <3> QED BY <3>1, <3>2
    <2> QED BY <2>1, <2>2, <2>3, MovesOfVocabulary
  <1>4. PICK sum : sum = CHOOSE s : AddsUp(s, run.chain)
    OBVIOUS
  <1>5. AddsUp(sum, run.chain) /\ run.score <= sum[n]
    BY <1>1, <1>4 DEF RunInv, ScoreIsBounded
  <1>6. run.chain = <<>> \/ firstLetter(run.chain[1]) = run.letter
    BY DEF RunInv, RunIsLinked
  <1>7. DOMAIN run.chain = 1 .. n
    BY <1>1, <1>2
  <1>8. run.score >= 0
    BY <1>2
  <1>9. run.score <= (CHOOSE s : s = [i \in 0 .. Len(run.chain) |->
                        IF i = 0 THEN 0 ELSE s[i - 1] + maxTurnScore(run.chain[i])])[Len(run.chain)]
    BY <1>1, <1>4, <1>5 DEF AddsUp
  <1> QED BY <1>1, <1>3, <1>6, <1>7, <1>8, <1>9 DEF ValidateDailyChain

LEMMA RunStep == RunInv /\ [WordChainNext]_wordChainVars => RunInv'
  <1> SUFFICES ASSUME RunInv, [WordChainNext]_wordChainVars PROVE RunInv'
    OBVIOUS
  <1>1. ASSUME NEW w \in Fa, NEW speed \in {0, 2 * TurnTimerClassicSec}, PlayDaily(w, speed)
        PROVE  RunInv'
    BY <1>1, RunGoesOn
  <1>2. CASE run' = run
    BY <1>2, RunStays
  <1>3. ASSUME NEW w, NEW present, NEW blocked, ApplyOverrides(w, present, blocked) PROVE run' = run
    BY <1>3 DEF ApplyOverrides, dailyVars
  <1>4. ASSUME NEW w, HumanSubmits(w) PROVE run' = run
    BY <1>4 DEF HumanSubmits, dailyVars
  <1>5. ASSUME TurnTimeout \/ Continue \/ MatchEnds \/ UseShield \/ UseHint PROVE run' = run
    BY <1>5 DEF TurnTimeout, Continue, MatchEnds, UseShield, UseHint, dailyVars
  <1>6. ASSUME NEW t, runAI \/ aiSubmit(t) \/ UploadDaily PROVE run' = run
    BY <1>6 DEF runAI, aiSubmit, UploadDaily, dailyVars
  <1>7. CASE UNCHANGED wordChainVars
    BY <1>7, <1>2 DEF wordChainVars, dailyVars
  <1> QED BY <1>1, <1>2, <1>3, <1>4, <1>5, <1>6, <1>7 DEF WordChainNext
\* What a step may refuse
LEMMA RefusedRuns ==
  ASSUME RunInv, [WordChainNext]_wordChainVars, verdict # "refused", verdict' = "refused"
  PROVE  ~ValidateDailyChain(run.letter, run.chain, run.score)
  <1>1. ASSUME NEW w, NEW present, NEW blocked, ApplyOverrides(w, present, blocked) PROVE FALSE
    BY <1>1 DEF ApplyOverrides, dailyVars
  <1>2. ASSUME NEW w, HumanSubmits(w) PROVE FALSE
    BY <1>2 DEF HumanSubmits, dailyVars
  <1>3. ASSUME TurnTimeout \/ Continue \/ MatchEnds \/ UseShield \/ UseHint \/ runAI PROVE FALSE
    BY <1>3 DEF TurnTimeout, Continue, MatchEnds, UseShield, UseHint, runAI, dailyVars
  <1>4. ASSUME NEW t, aiSubmit(t) PROVE FALSE
    BY <1>4 DEF aiSubmit, dailyVars
  <1>5. ASSUME NEW w, NEW speed, PlayDaily(w, speed) PROVE FALSE
    BY <1>5 DEF PlayDaily
  <1>6. ASSUME UNCHANGED wordChainVars PROVE FALSE
    BY <1>6 DEF wordChainVars, dailyVars
  <1>7. UploadDaily
    BY <1>1, <1>2, <1>3, <1>4, <1>5, <1>6 DEF WordChainNext
  <1> QED BY <1>7 DEF UploadDaily

\* An honest Daily run counts, whatever its words: the app lets through and scores
\* only what ValidateDailyChain accepts.
THEOREM HonestRunsAlwaysCount == WordChainSpec => HonestRunsCount
  <1>1. WordChainInit => RunInv
    BY RunStart
  <1>2. RunInv /\ [WordChainNext]_wordChainVars => RunInv'
    BY RunStep
  <1>3. RunInv /\ [WordChainNext]_wordChainVars =>
          [verdict # "refused" /\ verdict' = "refused" =>
             \/ Len(run.chain) > DailyChainSafetyCap
             \/ \E i \in 1 .. Len(run.chain) : ~IsValid(run.chain[i])]_wordChainVars
    <2> SUFFICES ASSUME RunInv, [WordChainNext]_wordChainVars, verdict # "refused", verdict' = "refused",
                        ~(Len(run.chain) > DailyChainSafetyCap),
                        \A i \in 1 .. Len(run.chain) : IsValid(run.chain[i])
                 PROVE  FALSE
      OBVIOUS
    <2>1. Len(run.chain) <= DailyChainSafetyCap
      BY LengthsAssumption DEF RunInv, RunTypes
    <2> QED BY <2>1, HonestRuns, RefusedRuns
  <1> QED BY <1>1, <1>2, <1>3, PTL DEF WordChainSpec, HonestRunsCount

-----------------------------------------------------------------------------
(* Matchmaking                                                             *)

USE CallAssumption, TickAssumption, EnvAssumption

InRoom(e)   == \E r \in 1 .. Len(rooms) : e \in rooms[r]
AllDiffer(q) == \A i, k \in 1 .. Len(q) : q[i] = q[k] => i = k

\* Entries of the list and of the copy have no room yet.  An entry is pushed once, by a
\* call that waits from then on.
EntriesFit ==
  /\ AllDiffer(queue) /\ AllDiffer(fresh) /\ AllDiffer(stale)
  /\ Entries(fresh) \cap Entries(stale) = {}
  /\ \A e \in Entries(queue) \cup Entries(fresh) \cup Entries(stale) : ~InRoom(e)
  /\ \A e \in Calls : pc[e] \in {"idle", "registered"} =>
       e \notin Entries(queue) \cup Entries(fresh) \cup Entries(stale) /\ ~InRoom(e)

\* Whom a user's waiter belongs to, and which room is still to be told to whom.
AnswersFit ==
  /\ \A u \in Users : waiters[u] # NoCall => Caller[waiters[u]] = u
  /\ \A i \in 1 .. Len(told) : told[i][1] \in rooms[told[i][2]]
  /\ bg = "idle" => told = <<>>

\* Only a call that returns has an outcome.
OutcomesFit == \A j \in Calls : pc[j] \in {"idle", "registered", "waiting"} => outcome[j] = "none"

\* The list is in the order of age.
ListIsByAge ==
  /\ \A j \in Calls : pc[j] \in {"idle", "registered"} => age[j] = 0
  /\ \A limit \in 1 .. Deadline : \E n \in 0 .. Len(queue) : Oldest(n, limit)

\* While nobody hangs up, cancels or restarts: a user has one call at a time, and it is
\* the user's waiter; nobody gets older than the fallback, because the pass takes the old
\* entries; and a call that waits has its room, is about to be told of it, or is listed.
Active(j) == pc[j] \in {"registered", "waiting", "returning"}
CallersFit ==
  /\ done = {} /\ \A u \in Users : cancelling[u] = "no"
  /\ \A j \in Calls : Active(j) => waiters[Caller[j]] = j
  /\ \A e \in Entries(queue) : pc[e] = "waiting"
  /\ Entries(fresh) \cup Entries(stale) \subseteq Entries(queue)
TimesFit ==
  /\ \A j \in Calls : pc[j] = "waiting" => age[j] <= FallbackTicks
  /\ passed => \A e \in Entries(queue) : age[e] < FallbackTicks
  /\ bg = "passing" => \A e \in Entries(queue) : age[e] >= FallbackTicks => e \in Entries(stale)
NewsFit ==
  /\ \A i \in 1 .. Len(told) : pc[told[i][1]] = "waiting" /\ box[told[i][1]] = 0
  /\ \A i, k \in 1 .. Len(told) : told[i][1] = told[k][1] => i = k
  /\ \A j \in Calls : pc[j] = "waiting" /\ box[j] = 0 =>
       j \in Entries(queue) \/ \E i \in 1 .. Len(told) : told[i][1] = j
  /\ \A j \in Calls : box[j] # 0 => j \in rooms[box[j]]
  /\ \A r \in 1 .. Len(rooms) : \A e \in rooms[r] :
       box[e] = r \/ \E i \in 1 .. Len(told) : told[i] = <<e, r>>
PatientInv == CallersFit /\ TimesFit /\ NewsFit /\ TwoPeople /\ AnsweredInTime

QueueInv == /\ TypeOK /\ EntriesFit /\ AnswersFit /\ OutcomesFit /\ ListIsByAge
            /\ OneRoomPerEntry /\ RoomIsMine
            /\ Patient => PatientInv

-----------------------------------------------------------------------------
(* Lists of entries.                                                       *)

LEMMA LRemIndex ==
  ASSUME NEW q \in Seq(Calls), NEW e \in Entries(q)
  PROVE  \E n \in 1 .. Len(q) : q[n] = e /\ LRem(q, e) = [i \in 1 .. Len(q) - 1 |-> q[IF i < n THEN i ELSE i + 1]]
<1> DEFINE n == CHOOSE n \in 1 .. Len(q) : q[n] = e
<1>1. n \in 1 .. Len(q) /\ q[n] = e BY DEF Entries
<1>2. LRem(q, e) = [i \in 1 .. Len(q) - 1 |-> q[IF i < n THEN i ELSE i + 1]] BY DEF LRem
<1> QED BY <1>1, <1>2

LEMMA LRemList ==
  ASSUME NEW q \in Seq(Calls), AllDiffer(q), NEW e
  PROVE  /\ LRem(q, e) \in Seq(Calls) /\ AllDiffer(LRem(q, e))
         /\ Entries(LRem(q, e)) = Entries(q) \ {e}
<1>1. CASE e \notin Entries(q)
  <2>1. LRem(q, e) = q BY <1>1 DEF LRem
  <2> QED BY <1>1, <2>1
<1>2. CASE e \in Entries(q)
  <2>0. Len(q) \in Nat /\ Len(q) >= 1 BY <1>2 DEF Entries
  <2>1. PICK n \in 1 .. Len(q) :
          q[n] = e /\ LRem(q, e) = [i \in 1 .. Len(q) - 1 |-> q[IF i < n THEN i ELSE i + 1]]
    BY <1>2, LRemIndex
  <2> PICK p : p = LRem(q, e) OBVIOUS
  <2>2. p = [i \in 1 .. Len(q) - 1 |-> q[IF i < n THEN i ELSE i + 1]] BY <2>1
  <2>3. \A i \in 1 .. Len(q) : q[i] \in Calls BY ElementOfSeq
  <2>4. p \in Seq(Calls) /\ Len(p) = Len(q) - 1
    <3>1. \A i \in 1 .. Len(q) - 1 : q[IF i < n THEN i ELSE i + 1] \in Calls BY <2>0, <2>3
    <3> QED BY <2>0, <2>2, <3>1, IsASeq
  <2>5. \A i \in 1 .. Len(p) : /\ i < n => p[i] = q[i] /\ i \in 1 .. Len(q)
                               /\ ~(i < n) => p[i] = q[i + 1] /\ i + 1 \in 1 .. Len(q)
    BY <2>0, <2>2, <2>4
  <2>6. AllDiffer(p)
    <3> SUFFICES ASSUME NEW i \in 1 .. Len(p), NEW k \in 1 .. Len(p), p[i] = p[k] PROVE i = k
      BY DEF AllDiffer
    <3>1. \A a, b \in 1 .. Len(q) : q[a] = q[b] => a = b BY DEF AllDiffer
    <3>2. i \in Nat /\ k \in Nat BY <2>0, <2>4
    <3>3. (IF i < n THEN i ELSE i + 1) = (IF k < n THEN k ELSE k + 1) BY <2>5, <3>1
    <3> QED BY <3>2, <3>3
  <2>7. Entries(p) = Entries(q) \ {e}
    <3>1. ASSUME NEW i \in 1 .. Len(p) PROVE p[i] \in Entries(q) \ {e}
      BY <2>0, <2>1, <2>4, <2>5 DEF Entries, AllDiffer
    <3>2. ASSUME NEW i \in 1 .. Len(q), q[i] # e PROVE q[i] \in Entries(p)
      <4>1. CASE i < n
        <5>1. i \in 1 .. Len(p) /\ p[i] = q[i] BY <2>0, <2>4, <2>5, <4>1
        <5> QED BY <5>1 DEF Entries
      <4>2. CASE ~(i < n)
        <5>1. i # n BY <2>1, <3>2
        <5>2. i - 1 \in 1 .. Len(p) /\ p[i - 1] = q[i] BY <2>0, <2>4, <2>5, <4>2, <5>1
        <5> QED BY <5>2 DEF Entries
      <4> QED BY <4>1, <4>2
    <3>3. Entries(p) \subseteq Entries(q) \ {e} BY ONLY <3>1 DEF Entries
    <3>4. Entries(q) \ {e} \subseteq Entries(p) BY ONLY <3>2 DEF Entries
    <3> QED BY ONLY <3>3, <3>4
  <2> QED BY <2>4, <2>6, <2>7
<1> QED BY <1>1, <1>2

\* What is left of a list whose first n entries are the old ones begins with the old ones.
FirstAre(q, S, n) == n \in 0 .. Len(q) /\ \A i \in 1 .. Len(q) : q[i] \in S <=> i <= n
LEMMA LRemSplits ==
  ASSUME NEW q \in Seq(Calls), NEW e, NEW S, NEW m \in 0 .. Len(q), FirstAre(q, S, m)
  PROVE  \E n \in 0 .. Len(LRem(q, e)) : FirstAre(LRem(q, e), S, n)
<1>1. CASE e \notin Entries(q)
  <2>1. LRem(q, e) = q BY <1>1 DEF LRem
  <2> QED BY <1>1, <2>1
<1>2. CASE e \in Entries(q)
  <2>0. Len(q) \in Nat /\ Len(q) >= 1 BY <1>2 DEF Entries
  <2>1. PICK k \in 1 .. Len(q) :
          q[k] = e /\ LRem(q, e) = [i \in 1 .. Len(q) - 1 |-> q[IF i < k THEN i ELSE i + 1]]
    BY <1>2, LRemIndex
  <2> PICK p : p = LRem(q, e) OBVIOUS
  <2>2. p = [i \in 1 .. Len(q) - 1 |-> q[IF i < k THEN i ELSE i + 1]] BY <2>1
  <2>4. Len(p) = Len(q) - 1
    BY <2>0, <2>2
  <2>5. \A i \in 1 .. Len(p) : p[i] = q[IF i < k THEN i ELSE i + 1]
    BY <2>2, <2>4
  <2>6. CASE k <= m
    <3>1. FirstAre(p, S, m - 1) BY <2>0, <2>4, <2>5, <2>6 DEF FirstAre
    <3> QED BY <3>1 DEF FirstAre
  <2>7. CASE m < k
    <3>1. FirstAre(p, S, m) BY <2>0, <2>4, <2>5, <2>7 DEF FirstAre
    <3> QED BY <3>1 DEF FirstAre
  <2> QED BY <2>6, <2>7
<1> QED BY <1>1, <1>2

\* The copies of a pass are parts of the list.
LEMMA PartOfList ==
  ASSUME NEW q \in Seq(Calls), AllDiffer(q), NEW n \in 0 .. Len(q)
  PROVE  LET old == SubSeq(q, 1, n)  new == SubSeq(q, n + 1, Len(q)) IN
         /\ old \in Seq(Calls) /\ new \in Seq(Calls) /\ AllDiffer(old) /\ AllDiffer(new)
         /\ Entries(old) = {q[i] : i \in 1 .. n}
         /\ Entries(old) \cap Entries(new) = {} /\ Entries(old) \cup Entries(new) = Entries(q)
<1> PICK old : old = SubSeq(q, 1, n) OBVIOUS
<1> PICK new : new = SubSeq(q, n + 1, Len(q)) OBVIOUS
<1>0. Len(q) \in Nat OBVIOUS
<1>1. old \in Seq(Calls) /\ Len(old) = n /\ \A i \in 1 .. n : old[i] = q[i]
  BY <1>0, SubSeqProperties
<1>2. new \in Seq(Calls) /\ Len(new) = Len(q) - n /\ \A i \in 1 .. Len(q) - n : new[i] = q[n + i]
  BY <1>0, SubSeqProperties
<1>d. \A a, b \in 1 .. Len(q) : q[a] = q[b] => a = b BY DEF AllDiffer
<1>3. AllDiffer(old) /\ AllDiffer(new)
  <2>1. ASSUME NEW i \in 1 .. Len(old), NEW k \in 1 .. Len(old), old[i] = old[k] PROVE i = k
    <3>1. i \in 1 .. n /\ k \in 1 .. n /\ i \in 1 .. Len(q) /\ k \in 1 .. Len(q) BY <1>0, <1>1
    <3>2. old[i] = q[i] /\ old[k] = q[k] BY <1>1, <3>1
    <3> QED BY <1>d, <2>1, <3>1, <3>2
  <2>2. ASSUME NEW i \in 1 .. Len(new), NEW k \in 1 .. Len(new), new[i] = new[k] PROVE i = k
    <3>1. n + i \in 1 .. Len(q) /\ n + k \in 1 .. Len(q) /\ i \in Nat /\ k \in Nat BY <1>0, <1>2
    <3>2. new[i] = q[n + i] /\ new[k] = q[n + k] BY <1>2
    <3>3. n + i = n + k BY <1>d, <2>2, <3>1, <3>2
    <3> QED BY <3>1, <3>3
  <2> QED BY <2>1, <2>2 DEF AllDiffer
<1>4. Entries(old) = {q[i] : i \in 1 .. n} BY <1>1 DEF Entries
<1>5. Entries(new) = {q[i] : i \in n + 1 .. Len(q)}
  <2>1. ASSUME NEW i \in 1 .. Len(new) PROVE new[i] \in {q[k] : k \in n + 1 .. Len(q)}
    <3>1. n + i \in n + 1 .. Len(q) BY <1>0, <1>2
    <3>2. new[i] = q[n + i] BY <1>2
    <3> QED BY <3>1, <3>2
  <2>2. ASSUME NEW k \in n + 1 .. Len(q) PROVE q[k] \in Entries(new)
    <3>0. k \in Nat /\ k > n /\ k <= Len(q) BY <1>0
    <3>1. k - n \in 1 .. Len(new) /\ new[k - n] = q[k] BY <1>0, <1>2
    <3> QED BY <3>1 DEF Entries
  <2> QED BY <2>1, <2>2 DEF Entries
<1>6. Entries(old) \cap Entries(new) = {}
  <2>1. \A i \in 1 .. n, k \in n + 1 .. Len(q) : q[i] # q[k] BY <1>0, <1>d
  <2> QED BY <1>4, <1>5, <2>1
<1>7. Entries(old) \cup Entries(new) = Entries(q)
  <2>1. 1 .. Len(q) = (1 .. n) \cup (n + 1 .. Len(q)) BY <1>0
  <2>2. Entries(q) = {q[i] : i \in (1 .. n) \cup (n + 1 .. Len(q))} BY <2>1 DEF Entries
  <2> QED BY ONLY <1>4, <1>5, <2>2
<1> QED BY <1>1, <1>2, <1>3, <1>4, <1>6, <1>7

LEMMA TailOfList ==
  ASSUME NEW q \in Seq(Calls), AllDiffer(q), q # <<>>
  PROVE  /\ Tail(q) \in Seq(Calls) /\ AllDiffer(Tail(q)) /\ q[1] \in Calls
         /\ Entries(q) = {q[1]} \cup Entries(Tail(q)) /\ q[1] \notin Entries(Tail(q))
<1>0. Len(q) \in Nat /\ Len(q) >= 1 OBVIOUS
<1> PICK t : t = Tail(q) OBVIOUS
<1>1. t \in Seq(Calls) /\ Len(t) = Len(q) - 1 /\ \A i \in 1 .. Len(t) : t[i] = q[i + 1]
  BY <1>0, HeadTailProperties
<1>2. AllDiffer(t) BY <1>0, <1>1 DEF AllDiffer
<1>3. q[1] \in Calls BY <1>0, ElementOfSeq
<1>4. \A i \in 1 .. Len(t) : t[i] \in Entries(q) /\ t[i] # q[1] BY <1>0, <1>1 DEF Entries, AllDiffer
<1>5. ASSUME NEW i \in 1 .. Len(q), i # 1 PROVE q[i] \in Entries(t)
  <2>1. i - 1 \in 1 .. Len(t) /\ t[i - 1] = q[i] BY <1>0, <1>1, <1>5
  <2> QED BY <2>1 DEF Entries
<1>6. q[1] \in Entries(q) BY <1>0 DEF Entries
<1>7. Entries(t) \subseteq Entries(q) /\ q[1] \notin Entries(t) BY ONLY <1>4 DEF Entries
<1>8. Entries(q) \subseteq {q[1]} \cup Entries(t) BY ONLY <1>5 DEF Entries
<1> QED BY <1>1, <1>2, <1>3, <1>6, <1>7, <1>8

LEMMA AppendToList ==
  ASSUME NEW q \in Seq(Calls), NEW e \in Calls
  PROVE  /\ Append(q, e) \in Seq(Calls) /\ Entries(Append(q, e)) = Entries(q) \cup {e}
         /\ AllDiffer(q) /\ e \notin Entries(q) => AllDiffer(Append(q, e))
<1> PICK p : p = Append(q, e) OBVIOUS
<1>0. Len(q) \in Nat OBVIOUS
<1>1. p \in Seq(Calls) /\ Len(p) = Len(q) + 1 /\ p[Len(q) + 1] = e /\ \A i \in 1 .. Len(q) : p[i] = q[i]
  BY AppendProperties
<1>2. Entries(p) = Entries(q) \cup {e} BY <1>0, <1>1 DEF Entries
<1>3. AllDiffer(q) /\ e \notin Entries(q) => AllDiffer(p) BY <1>0, <1>1 DEF Entries, AllDiffer
<1> QED BY <1>1, <1>2, <1>3

-----------------------------------------------------------------------------
(* Types                                                                   *)

CallTypes ==
  /\ pc \in [Calls -> {"idle", "registered", "waiting", "returning", "ended"}]
  /\ outcome \in [Calls -> {"none", "room", "cancelled", "hung_up", "timeout",
                            "already_in_queue", "cut"}]
  /\ age \in [Calls -> 0 .. Deadline] /\ done \subseteq Calls
ListTypes ==
  /\ waiters \in [Users -> Calls \cup {NoCall}]
  /\ queue \in Seq(Calls) /\ fresh \in Seq(Calls) /\ stale \in Seq(Calls)
  /\ cancelling \in [Users -> {"no", "locked"} \cup Calls]
  /\ bg \in {"idle", "passing"} /\ passed \in BOOLEAN
  /\ cancels \in 0 .. MaxCancels /\ restarts \in 0 .. MaxRestarts
RoomTypes ==
  /\ rooms \in Seq(SUBSET Calls) /\ box \in [Calls -> 0 .. Len(rooms)]
  /\ told \in Seq(Calls \X (1 .. Len(rooms)))

LEMMA TypesAreThese == TypeOK <=> CallTypes /\ ListTypes /\ RoomTypes
BY DEF TypeOK, CallTypes, ListTypes, RoomTypes

\* A room is made and its callers are about to be told.
LEMMA RoomMade ==
  ASSUME RoomTypes, NEW S \in SUBSET Calls, rooms' = Append(rooms, S), box' = box,
         NEW e \in S, NEW f \in S,
         \/ told' = <<<<e, Len(rooms) + 1>>>>
         \/ told' = <<<<e, Len(rooms) + 1>>, <<f, Len(rooms) + 1>>>>
  PROVE  RoomTypes' /\ Len(rooms') = Len(rooms) + 1 /\ rooms'[Len(rooms) + 1] = S
         /\ \A r \in 1 .. Len(rooms) : rooms'[r] = rooms[r]
<1> PICK n : n = Len(rooms) OBVIOUS
<1> PICK more : more = Append(rooms, S) OBVIOUS
<1>0. n \in Nat /\ rooms \in Seq(SUBSET Calls) BY DEF RoomTypes
<1>1. /\ more \in Seq(SUBSET Calls) /\ Len(more) = n + 1 /\ more[n + 1] = S
      /\ \A r \in 1 .. n : more[r] = rooms[r]
  BY <1>0, AppendProperties
<1>2. box \in [Calls -> 0 .. n + 1] BY <1>0 DEF RoomTypes
<1>3. <<e, n + 1>> \in Calls \X (1 .. n + 1) /\ <<f, n + 1>> \in Calls \X (1 .. n + 1) BY <1>0
<1>4. told' \in Seq(Calls \X (1 .. n + 1))
  <2>1. CASE told' = <<<<e, n + 1>>>> BY <1>3, <2>1
  <2>2. CASE told' = <<<<e, n + 1>>, <<f, n + 1>>>> BY <1>3, <2>2
  <2> QED BY <2>1, <2>2
<1> QED BY <1>1, <1>2, <1>4 DEF RoomTypes

LEMMA NotifyTypes == ASSUME RoomTypes, Notify PROVE RoomTypes'
<1>1. told # <<>> /\ told' = Tail(told) /\ rooms' = rooms BY DEF Notify
<1>h. Head(told) = told[1] BY <1>1 DEF RoomTypes
<1>2. told[1] \in Calls \X (1 .. Len(rooms)) BY <1>1, ElementOfSeq DEF RoomTypes
<1>3. Len(rooms) \in Nat BY DEF RoomTypes
<1>4. told[1][2] \in 0 .. Len(rooms) BY <1>2, <1>3
<1> PICK room : room = told[1][2] OBVIOUS
<1>5. \E w : box' = [j \in Calls |-> IF j = w /\ box[j] = 0 THEN room ELSE box[j]] BY <1>h DEF Notify
<1>6. box' \in [Calls -> 0 .. Len(rooms)] BY <1>4, <1>5 DEF RoomTypes
<1>7. told' \in Seq(Calls \X (1 .. Len(rooms))) BY <1>1, HeadTailProperties DEF RoomTypes
<1> QED BY <1>1, <1>6, <1>7 DEF RoomTypes

LEMMA CallTypesStep == ASSUME CallTypes, ListTypes, [Next]_vars PROVE CallTypes'
<1> USE DEF CallTypes
<1>1. CASE UNCHANGED callVars BY <1>1 DEF callVars
<1>2. ASSUME NEW j \in Calls, Register(j) \/ AlreadyInQueue(j) \/ Push(j) \/ PushFails(j) \/ Unregister(j) PROVE CallTypes'
  BY <1>2 DEF Register, AlreadyInQueue, Push, PushFails, Unregister
<1>3. ASSUME NEW j \in Calls, Select(j) PROVE CallTypes'
  BY <1>3 DEF Select
<1>4. ASSUME NEW u \in Users, CancelWaiter(u) PROVE CallTypes'
  BY <1>4 DEF CancelWaiter, ListTypes
<1>5. CASE Tick
  <2>1. \A j \in Calls : age[j] < Deadline => age[j] + 1 \in 0 .. Deadline BY DEF Deadline
  <2> QED BY <1>5, <2>1 DEF Tick
<1>6. CASE Notify BY <1>6 DEF Notify
<1>7. CASE Restart BY <1>7 DEF Restart
<1> QED
  BY <1>1, <1>2, <1>3, <1>4, <1>5, <1>6, <1>7
     DEF Next, Background, vars, CancelFind, CancelRemove, ReadQueue, Pair, Fallback, EndPass

LEMMA ListTypesStep == ASSUME CallTypes, ListTypes, AllDiffer(queue), [Next]_vars PROVE ListTypes'
<1> USE DEF ListTypes
<1>1. ASSUME NEW j \in Calls, Register(j) \/ AlreadyInQueue(j) \/ PushFails(j) \/ Select(j) \/ Unregister(j)
      PROVE ListTypes'
  BY <1>1 DEF Register, AlreadyInQueue, PushFails, Select, Unregister, bgVars, envVars
<1>2. ASSUME NEW j \in Calls, Push(j) PROVE ListTypes'
  BY <1>2, AppendToList DEF Push, bgVars, envVars
<1>3. ASSUME NEW u \in Users, CancelWaiter(u) PROVE ListTypes'
  BY <1>3 DEF CancelWaiter, bgVars
<1>4. ASSUME NEW u \in Users, CancelFind(u) PROVE ListTypes'
  <2>1. \A i \in 1 .. Len(queue) : queue[i] \in Calls BY ElementOfSeq
  <2> QED BY <1>4, <2>1 DEF CancelFind, bgVars, envVars
<1>5. ASSUME NEW u \in Users, CancelRemove(u) PROVE ListTypes'
  BY <1>5, LRemList DEF CancelRemove, bgVars, envVars
<1>6. CASE Tick \/ Notify \/ EndPass BY <1>6 DEF Tick, Notify, EndPass, envVars
<1>7. CASE ReadQueue
  <2>1. \A n \in 0 .. Len(queue) : SubSeq(queue, 1, n) \in Seq(Calls) /\ SubSeq(queue, n + 1, Len(queue)) \in Seq(Calls)
    BY PartOfList
  <2> QED BY <1>7, <2>1 DEF ReadQueue, envVars
<1>8. CASE Pair
  <2>1. LRem(queue, fresh[1]) \in Seq(Calls) /\ AllDiffer(LRem(queue, fresh[1])) BY LRemList
  <2>2. LRem(LRem(queue, fresh[1]), fresh[2]) \in Seq(Calls) BY <2>1, LRemList
  <2>3. SubSeq(fresh, 3, Len(fresh)) \in Seq(Calls) BY <1>8, SubSeqProperties DEF Pair
  <2> QED BY <1>8, <2>2, <2>3 DEF Pair, envVars
<1>9. CASE Fallback
  <2>1. LRem(queue, Head(stale)) \in Seq(Calls) BY LRemList
  <2>2. Tail(stale) \in Seq(Calls) BY ONLY <1>9, HeadTailProperties, stale \in Seq(Calls) DEF Fallback
  <2> QED BY <1>9, <2>1, <2>2 DEF Fallback, envVars
<1>10. CASE Restart
  <2>1. MaxCancels \in Nat /\ MaxRestarts \in Nat BY EnvAssumption
  <2>2. restarts' \in 0 .. MaxRestarts /\ cancels' \in 0 .. MaxCancels BY <1>10, <2>1 DEF Restart
  <2>3. <<>> \in Seq(Calls) BY EmptySeq
  <2> QED BY <1>10, <2>2, <2>3 DEF Restart
<1>11. CASE UNCHANGED vars BY <1>11 DEF vars, bgVars, envVars
<1> QED
  BY <1>1, <1>2, <1>3, <1>4, <1>5, <1>6, <1>7, <1>8, <1>9, <1>10, <1>11 DEF Next, Background

LEMMA RoomTypesStep == ASSUME ListTypes, RoomTypes, [Next]_vars PROVE RoomTypes'
<1>1. CASE UNCHANGED <<rooms, box, told>> BY <1>1 DEF RoomTypes
<1>2. CASE Pair
  <2>1. fresh[1] \in Calls /\ fresh[2] \in Calls BY <1>2, ElementOfSeq DEF Pair, ListTypes
  <2>2. /\ rooms' = Append(rooms, {fresh[1], fresh[2]}) /\ box' = box
        /\ told' = <<<<fresh[1], Len(rooms) + 1>>, <<fresh[2], Len(rooms) + 1>>>>
    BY <1>2 DEF Pair, callVars
  <2>3. /\ {fresh[1], fresh[2]} \in SUBSET Calls
        /\ fresh[1] \in {fresh[1], fresh[2]} /\ fresh[2] \in {fresh[1], fresh[2]}
    BY <2>1
  <2> QED BY ONLY RoomTypes, <2>2, <2>3, RoomMade
<1>3. CASE Fallback
  <2>1. stale[1] \in Calls /\ Head(stale) = stale[1] BY <1>3, ElementOfSeq DEF Fallback, ListTypes
  <2>2. /\ rooms' = Append(rooms, {stale[1]}) /\ box' = box
        /\ told' = <<<<stale[1], Len(rooms) + 1>>>>
    BY <1>3, <2>1 DEF Fallback, callVars
  <2>3. {stale[1]} \in SUBSET Calls /\ stale[1] \in {stale[1]} BY <2>1
  <2> QED BY ONLY RoomTypes, <2>2, <2>3, RoomMade
<1>4. CASE Notify BY <1>4, NotifyTypes
<1>5. CASE Restart
  <2>1. UNCHANGED <<rooms, box>> /\ told' = <<>> BY <1>5 DEF Restart
  <2> QED BY <2>1, EmptySeq DEF RoomTypes
<1>6. Next => Pair \/ Fallback \/ Notify \/ Restart \/ UNCHANGED <<rooms, box, told>>
  BY DEF Next, Background, Register, AlreadyInQueue, Push, PushFails, Select, Unregister, CancelWaiter,
         CancelFind, CancelRemove, Tick, ReadQueue, EndPass, callVars, bgVars
<1> QED BY <1>1, <1>2, <1>3, <1>4, <1>5, <1>6 DEF vars, callVars, bgVars

-----------------------------------------------------------------------------
(* Who is listed and who has a room                                        *)

Held == Entries(queue) \cup Entries(fresh) \cup Entries(stale)
EntriesInv == EntriesFit /\ OneRoomPerEntry

\* A step that makes no room and lists nobody.
LEMMA NobodyIsServed ==
  ASSUME EntriesInv, rooms' = rooms, AllDiffer(queue'), AllDiffer(fresh'), AllDiffer(stale'),
         Entries(fresh') \cap Entries(stale') = {}, Held' \subseteq Held,
         \A e \in Calls : pc'[e] \in {"idle", "registered"} => pc[e] \in {"idle", "registered"}
  PROVE  EntriesInv'
<1>1. \A e : InRoom(e)' <=> InRoom(e) BY DEF InRoom
<1>2. EntriesFit' BY <1>1 DEF EntriesInv, EntriesFit, Held
<1>3. OneRoomPerEntry'
  BY <1>2 DEF EntriesInv, EntriesFit, OneRoomPerEntry, InRoom
<1> QED BY <1>2, <1>3 DEF EntriesInv

\* Entries of the copy get a room.
LEMMA SomeAreServed ==
  ASSUME EntriesInv, RoomTypes, NEW S, S \subseteq Entries(fresh) \cup Entries(stale), pc' = pc,
         Len(rooms') = Len(rooms) + 1, rooms'[Len(rooms) + 1] = S,
         \A r \in 1 .. Len(rooms) : rooms'[r] = rooms[r],
         AllDiffer(queue'), AllDiffer(fresh'), AllDiffer(stale'),
         Entries(fresh') \cap Entries(stale') = {}, Held' \subseteq Held \ S
  PROVE  EntriesInv'
<1>0. Len(rooms) \in Nat BY DEF RoomTypes
<1>1. \A e : InRoom(e)' <=> InRoom(e) \/ e \in S BY <1>0 DEF InRoom
<1>2. \A e \in S : ~InRoom(e) /\ e \in Held BY DEF EntriesInv, EntriesFit, Held
<1>3. \A e \in Held' : ~InRoom(e)' BY <1>1 DEF EntriesInv, EntriesFit, Held
<1>4. \A e \in Calls : pc'[e] \in {"idle", "registered"} => e \notin Held' /\ ~InRoom(e)'
  BY <1>1, <1>2 DEF EntriesInv, EntriesFit, Held
<1>5. EntriesFit' BY <1>3, <1>4 DEF EntriesFit, Held
<1>6. OneRoomPerEntry'
  <2>1. ASSUME NEW r \in 1 .. Len(rooms'), NEW s \in 1 .. Len(rooms'), r # s
        PROVE  rooms'[r] \cap rooms'[s] = {}
    <3>1. CASE r \in 1 .. Len(rooms) /\ s \in 1 .. Len(rooms)
      BY <2>1, <3>1 DEF EntriesInv, OneRoomPerEntry
    <3>2. CASE r \in 1 .. Len(rooms) /\ s = Len(rooms) + 1 BY <1>2, <3>2 DEF InRoom
    <3>3. CASE s \in 1 .. Len(rooms) /\ r = Len(rooms) + 1 BY <1>2, <3>3 DEF InRoom
    <3> QED BY <1>0, <2>1, <3>1, <3>2, <3>3
  <2>2. \A r \in 1 .. Len(rooms') : rooms'[r] \cap Entries(queue') = {} BY <1>3 DEF InRoom, Held
  <2> QED BY <2>1, <2>2 DEF OneRoomPerEntry
<1> QED BY <1>5, <1>6 DEF EntriesInv

\* What Pair and Fallback do
LEMMA PairServes ==
  ASSUME ListTypes, RoomTypes, EntriesInv, Pair
  PROVE  /\ fresh[1] \in Calls /\ fresh[2] \in Calls /\ fresh[1] # fresh[2]
         /\ {fresh[1], fresh[2]} \subseteq Entries(fresh)
         /\ Len(rooms') = Len(rooms) + 1 /\ rooms'[Len(rooms) + 1] = {fresh[1], fresh[2]}
         /\ \A r \in 1 .. Len(rooms) : rooms'[r] = rooms[r]
         /\ AllDiffer(queue') /\ Entries(queue') = Entries(queue) \ {fresh[1], fresh[2]}
         /\ AllDiffer(fresh') /\ Entries(fresh') = Entries(fresh) \ {fresh[1], fresh[2]}
         /\ told' = <<<<fresh[1], Len(rooms) + 1>>, <<fresh[2], Len(rooms) + 1>>>>
         /\ UNCHANGED <<callVars, waiters, cancelling, bg, passed, stale, envVars>> /\ told = <<>>
<1> PICK e : e = fresh[1] OBVIOUS
<1> PICK f : f = fresh[2] OBVIOUS
<1>0. /\ fresh \in Seq(Calls) /\ queue \in Seq(Calls) /\ AllDiffer(queue) /\ AllDiffer(fresh)
      /\ Len(fresh) \in Nat /\ Len(fresh) >= 2
  BY DEF ListTypes, EntriesInv, EntriesFit, Pair
<1>1. e \in Calls /\ f \in Calls /\ e # f /\ {e, f} \subseteq Entries(fresh)
  <2>1. e \in Calls /\ f \in Calls BY <1>0, ElementOfSeq
  <2>2. 1 \in 1 .. Len(fresh) /\ 2 \in 1 .. Len(fresh) BY <1>0
  <2>3. e # f BY <1>0, <2>2 DEF AllDiffer
  <2>4. e \in Entries(fresh) /\ f \in Entries(fresh) BY <2>2 DEF Entries
  <2> QED BY <2>1, <2>3, <2>4
<1>2. /\ rooms' = Append(rooms, {e, f}) /\ queue' = LRem(LRem(queue, e), f)
      /\ fresh' = SubSeq(fresh, 3, Len(fresh)) /\ told = <<>>
      /\ UNCHANGED <<callVars, waiters, cancelling, bg, passed, stale, envVars>>
      /\ told' = <<<<e, Len(rooms) + 1>>, <<f, Len(rooms) + 1>>>>
  BY DEF Pair
<1>3. /\ Len(rooms') = Len(rooms) + 1 /\ rooms'[Len(rooms) + 1] = {e, f}
      /\ \A r \in 1 .. Len(rooms) : rooms'[r] = rooms[r]
  <2>1. {e, f} \in SUBSET Calls /\ rooms \in Seq(SUBSET Calls) BY <1>1 DEF RoomTypes
  <2> QED BY <1>2, <2>1, AppendProperties
<1>4. AllDiffer(queue') /\ Entries(queue') = Entries(queue) \ {e, f}
  <2>1. LRem(queue, e) \in Seq(Calls) /\ AllDiffer(LRem(queue, e)) /\ Entries(LRem(queue, e)) = Entries(queue) \ {e}
    BY <1>0, LRemList
  <2>2. AllDiffer(queue') /\ Entries(queue') = Entries(LRem(queue, e)) \ {f}
    BY <1>2, <2>1, LRemList
  <2> QED BY <2>1, <2>2
<1>5. AllDiffer(fresh') /\ Entries(fresh') = Entries(fresh) \ {e, f}
  <2> PICK new : new = SubSeq(fresh, 2 + 1, Len(fresh)) OBVIOUS
  <2> PICK old : old = SubSeq(fresh, 1, 2) OBVIOUS
  <2>1. 2 \in 0 .. Len(fresh) BY <1>0
  <2>2. /\ AllDiffer(new) /\ Entries(old) = {fresh[i] : i \in 1 .. 2}
        /\ Entries(old) \cap Entries(new) = {} /\ Entries(old) \cup Entries(new) = Entries(fresh)
    BY <1>0, <2>1, PartOfList
  <2>3. 1 .. 2 = {1, 2} /\ 2 + 1 = 3 OBVIOUS
  <2>4. {fresh[i] : i \in 1 .. 2} = {e, f} BY <2>3
  <2>5. fresh' = new BY <1>2, <2>3
  <2> QED BY <2>2, <2>4, <2>5
<1> QED BY <1>1, <1>2, <1>3, <1>4, <1>5

LEMMA FallbackServes ==
  ASSUME ListTypes, RoomTypes, EntriesInv, Fallback
  PROVE  /\ stale[1] \in Entries(stale) /\ stale[1] \in Calls
         /\ Len(rooms') = Len(rooms) + 1 /\ rooms'[Len(rooms) + 1] = {stale[1]}
         /\ \A r \in 1 .. Len(rooms) : rooms'[r] = rooms[r]
         /\ AllDiffer(queue') /\ Entries(queue') = Entries(queue) \ {stale[1]}
         /\ AllDiffer(stale') /\ Entries(stale') = Entries(stale) \ {stale[1]}
         /\ told' = <<<<stale[1], Len(rooms) + 1>>>>
         /\ UNCHANGED <<callVars, waiters, cancelling, bg, passed, fresh, envVars>> /\ told = <<>>
<1> PICK e : e = stale[1] OBVIOUS
<1>0. /\ stale \in Seq(Calls) /\ queue \in Seq(Calls) /\ AllDiffer(queue) /\ AllDiffer(stale) /\ stale # <<>>
      /\ Head(stale) = e
  BY DEF ListTypes, EntriesInv, EntriesFit, Fallback
<1>1. /\ Tail(stale) \in Seq(Calls) /\ AllDiffer(Tail(stale)) /\ e \in Calls
      /\ Entries(stale) = {e} \cup Entries(Tail(stale)) /\ e \notin Entries(Tail(stale))
  BY <1>0, TailOfList
<1>2. /\ rooms' = Append(rooms, {e}) /\ queue' = LRem(queue, e) /\ stale' = Tail(stale) /\ told = <<>>
      /\ UNCHANGED <<callVars, waiters, cancelling, bg, passed, fresh, envVars>>
      /\ told' = <<<<e, Len(rooms) + 1>>>>
  BY <1>0 DEF Fallback
<1>3. /\ Len(rooms') = Len(rooms) + 1 /\ rooms'[Len(rooms) + 1] = {e}
      /\ \A r \in 1 .. Len(rooms) : rooms'[r] = rooms[r]
  <2>1. {e} \in SUBSET Calls /\ rooms \in Seq(SUBSET Calls) BY <1>1 DEF RoomTypes
  <2> QED BY <1>2, <2>1, AppendProperties
<1>4. AllDiffer(queue') /\ Entries(queue') = Entries(queue) \ {e} BY <1>0, <1>2, LRemList
<1>5. AllDiffer(stale') /\ Entries(stale') = Entries(stale) \ {e} BY <1>1, <1>2
<1> QED BY <1>1, <1>2, <1>3, <1>4, <1>5

\* The split of the list
LEMMA ReadSplits ==
  ASSUME ListTypes, EntriesInv, ReadQueue
  PROVE  /\ AllDiffer(fresh') /\ AllDiffer(stale') /\ Entries(fresh') \cap Entries(stale') = {}
         /\ Entries(fresh') \cup Entries(stale') = Entries(queue)
         /\ \A e \in Entries(queue) : age[e] >= FallbackTicks => e \in Entries(stale')
         /\ UNCHANGED <<callVars, waiters, queue, cancelling, passed, told, rooms, envVars>>
<1>0. queue \in Seq(Calls) /\ AllDiffer(queue) BY DEF ListTypes, EntriesInv, EntriesFit
<1>1. PICK n \in 0 .. Len(queue) :
        /\ Oldest(n, FallbackTicks)
        /\ stale' = SubSeq(queue, 1, n) /\ fresh' = SubSeq(queue, n + 1, Len(queue))
  BY DEF ReadQueue
<1>2. /\ AllDiffer(stale') /\ AllDiffer(fresh') /\ Entries(stale') = {queue[i] : i \in 1 .. n}
      /\ Entries(stale') \cap Entries(fresh') = {} /\ Entries(stale') \cup Entries(fresh') = Entries(queue)
  BY <1>0, <1>1, PartOfList
<1>3. ASSUME NEW i \in 1 .. Len(queue), age[queue[i]] >= FallbackTicks PROVE queue[i] \in Entries(stale')
  <2>1. i <= n BY <1>1, <1>3 DEF Oldest
  <2>2. i \in 1 .. n BY <2>1, <1>1
  <2> QED BY <1>2, <2>2
<1>4. \A e \in Entries(queue) : age[e] >= FallbackTicks => e \in Entries(stale') BY ONLY <1>3 DEF Entries
<1> QED BY <1>2, <1>4 DEF ReadQueue

LEMMA EntriesStep == ASSUME CallTypes, ListTypes, RoomTypes, EntriesInv, [Next]_vars PROVE EntriesInv'
<1>0. /\ queue \in Seq(Calls) /\ fresh \in Seq(Calls) /\ stale \in Seq(Calls)
      /\ AllDiffer(queue) /\ AllDiffer(fresh) /\ AllDiffer(stale) /\ Entries(fresh) \cap Entries(stale) = {}
  BY DEF ListTypes, EntriesInv, EntriesFit
<1>1. ASSUME NEW j \in Calls, Register(j) \/ AlreadyInQueue(j) \/ PushFails(j) \/ Select(j) \/ Unregister(j)
      PROVE EntriesInv'
  <2>1. UNCHANGED <<queue, fresh, stale, rooms>>
    BY <1>1 DEF Register, AlreadyInQueue, PushFails, Select, Unregister, bgVars
  <2>2. \A e \in Calls : pc'[e] \in {"idle", "registered"} => pc[e] \in {"idle", "registered"}
    BY <1>1 DEF Register, AlreadyInQueue, PushFails, Select, Unregister, CallTypes
  <2>3. Held' \subseteq Held BY <2>1 DEF Held
  <2> QED BY <1>0, <2>1, <2>2, <2>3, NobodyIsServed
<1>2. ASSUME NEW j \in Calls, Push(j) PROVE EntriesInv'
  <2>1. /\ pc[j] = "registered" /\ queue' = Append(queue, j) /\ pc' = [pc EXCEPT ![j] = "waiting"]
        /\ UNCHANGED <<fresh, stale, rooms>>
    BY <1>2 DEF Push, bgVars
  <2>2. j \notin Held /\ ~InRoom(j) BY <2>1 DEF EntriesInv, EntriesFit, Held
  <2>3. Entries(queue') = Entries(queue) \cup {j} /\ AllDiffer(queue')
    BY <1>0, <2>1, <2>2, AppendToList DEF Held
  <2>4. \A e : InRoom(e)' <=> InRoom(e) BY <2>1 DEF InRoom
  <2>5. \A e \in Calls : pc'[e] \in {"idle", "registered"} => e # j /\ pc[e] \in {"idle", "registered"}
    BY <2>1 DEF CallTypes
  <2>6. EntriesFit' BY <1>0, <2>1, <2>2, <2>3, <2>4, <2>5 DEF EntriesInv, EntriesFit
  <2>7. OneRoomPerEntry' BY <2>1, <2>6 DEF EntriesInv, EntriesFit, OneRoomPerEntry, InRoom
  <2> QED BY <2>6, <2>7 DEF EntriesInv
<1>3. ASSUME NEW u \in Users, CancelWaiter(u) \/ CancelFind(u) PROVE EntriesInv'
  <2>1. UNCHANGED <<queue, fresh, stale, rooms, pc>>
    BY <1>3 DEF CancelWaiter, CancelFind, bgVars, callVars
  <2>2. Held' \subseteq Held BY <2>1 DEF Held
  <2> QED BY <1>0, <2>1, <2>2, NobodyIsServed
<1>4. ASSUME NEW u \in Users, CancelRemove(u) PROVE EntriesInv'
  <2>1. UNCHANGED <<fresh, stale, rooms, pc>> /\ queue' = LRem(queue, cancelling[u])
    BY <1>4 DEF CancelRemove, bgVars, callVars
  <2>2. AllDiffer(queue') /\ Entries(queue') \subseteq Entries(queue) BY <1>0, <2>1, LRemList
  <2>3. Held' \subseteq Held BY <2>1, <2>2 DEF Held
  <2> QED BY <1>0, <2>1, <2>2, <2>3, NobodyIsServed
<1>5. CASE Tick \/ Notify
  <2>1. UNCHANGED <<queue, fresh, stale, rooms, pc>> BY <1>5 DEF Tick, Notify
  <2>2. Held' \subseteq Held BY <2>1 DEF Held
  <2> QED BY <1>0, <2>1, <2>2, NobodyIsServed
<1>6. CASE ReadQueue
  <2>1. UNCHANGED <<queue, rooms, pc>> BY <1>6 DEF ReadQueue, callVars
  <2>2. Held' \subseteq Held BY <1>6, <2>1, ReadSplits DEF Held
  <2> QED BY <1>0, <1>6, <2>1, <2>2, ReadSplits, NobodyIsServed
<1>7. CASE Pair
  <2> PICK S : S = {fresh[1], fresh[2]} OBVIOUS
  <2>1. /\ S \subseteq Entries(fresh) /\ Len(rooms') = Len(rooms) + 1 /\ rooms'[Len(rooms) + 1] = S
        /\ \A r \in 1 .. Len(rooms) : rooms'[r] = rooms[r]
        /\ AllDiffer(queue') /\ Entries(queue') = Entries(queue) \ S
        /\ AllDiffer(fresh') /\ Entries(fresh') = Entries(fresh) \ S
    BY <1>7, PairServes
  <2>2. pc' = pc /\ stale' = stale BY <1>7 DEF Pair, callVars
  <2>3. Held' \subseteq Held \ S BY <1>0, <2>1, <2>2 DEF Held
  <2>4. Entries(fresh') \cap Entries(stale') = {} BY <1>0, <2>1, <2>2
  <2> QED BY <1>0, <2>1, <2>2, <2>3, <2>4, SomeAreServed
<1>8. CASE Fallback
  <2> PICK S : S = {stale[1]} OBVIOUS
  <2>1. /\ S \subseteq Entries(stale) /\ Len(rooms') = Len(rooms) + 1 /\ rooms'[Len(rooms) + 1] = S
        /\ \A r \in 1 .. Len(rooms) : rooms'[r] = rooms[r]
        /\ AllDiffer(queue') /\ Entries(queue') = Entries(queue) \ S
        /\ AllDiffer(stale') /\ Entries(stale') = Entries(stale) \ S
    BY <1>8, FallbackServes
  <2>2. pc' = pc /\ fresh' = fresh BY <1>8 DEF Fallback, callVars
  <2>3. Held' \subseteq Held \ S BY <1>0, <2>1, <2>2 DEF Held
  <2>4. Entries(fresh') \cap Entries(stale') = {} BY <1>0, <2>1, <2>2
  <2> QED BY <1>0, <2>1, <2>2, <2>3, <2>4, SomeAreServed
<1>9. CASE EndPass \/ Restart
  <2>1. /\ UNCHANGED <<queue, rooms>> /\ fresh' = <<>> /\ stale' \in {<<>>, stale}
    BY <1>9 DEF EndPass, Restart
  <2>2. \A e \in Calls : pc'[e] \in {"idle", "registered"} => pc[e] \in {"idle", "registered"}
    BY <1>9 DEF EndPass, Restart, callVars, CallTypes
  <2>3. Entries(<<>>) = {} /\ AllDiffer(<<>>) BY DEF Entries, AllDiffer
  <2>4. Held' \subseteq Held BY <2>1, <2>3 DEF Held
  <2> QED BY <1>0, <2>1, <2>2, <2>3, <2>4, NobodyIsServed
<1>10. CASE UNCHANGED vars
  <2>1. UNCHANGED <<queue, fresh, stale, rooms, pc>> BY <1>10 DEF vars, bgVars, callVars
  <2>2. Held' \subseteq Held BY <2>1 DEF Held
  <2> QED BY <1>0, <2>1, <2>2, NobodyIsServed
<1> QED
  BY <1>1, <1>2, <1>3, <1>4, <1>5, <1>6, <1>7, <1>8, <1>9, <1>10 DEF Next, Background

-----------------------------------------------------------------------------
(* Who is told of which room                                               *)

AnswersInv == AnswersFit /\ RoomIsMine

LEMMA NotifyTells ==
  ASSUME ListTypes, RoomTypes, Notify
  PROVE  \E w, e, r :
    /\ told[1] = <<e, r>> /\ e \in Calls /\ r \in 1 .. Len(rooms) /\ w = waiters[Caller[e]]
    /\ w \in Calls \cup {NoCall} /\ Caller[e] \in Users
    /\ \A j \in Calls : box'[j] = IF j = w /\ box[j] = 0 THEN r ELSE box[j]
    /\ told # <<>> /\ Len(told) \in Nat /\ Len(told) >= 1 /\ Len(told') = Len(told) - 1
    /\ \A i \in 1 .. Len(told') : told'[i] = told[i + 1]
    /\ UNCHANGED <<pc, outcome, age, done, waiters, queue, cancelling, bg, passed, fresh, stale, rooms, envVars>>
<1>0. told # <<>> /\ told \in Seq(Calls \X (1 .. Len(rooms))) BY DEF Notify, RoomTypes
<1>1. told[1] \in Calls \X (1 .. Len(rooms)) /\ Head(told) = told[1] /\ Len(told) \in Nat /\ Len(told) >= 1
  BY <1>0, ElementOfSeq
<1> PICK e : e = told[1][1] OBVIOUS
<1> PICK r : r = told[1][2] OBVIOUS
<1> PICK w : w = waiters[Caller[e]] OBVIOUS
<1>2. told[1] = <<e, r>> /\ e \in Calls /\ r \in 1 .. Len(rooms) BY <1>1
<1>3. Caller[e] \in Users /\ w \in Calls \cup {NoCall} BY <1>2 DEF ListTypes
<1>4. Len(told') = Len(told) - 1 /\ \A i \in 1 .. Len(told') : told'[i] = told[i + 1]
  <2>1. told' = Tail(told) BY DEF Notify
  <2> QED BY <1>0, <2>1, HeadTailProperties
<1>5. \A j \in Calls : box'[j] = IF j = w /\ box[j] = 0 THEN r ELSE box[j] BY <1>1 DEF Notify
<1>6. UNCHANGED <<pc, outcome, age, done, waiters, queue, cancelling, bg, passed, fresh, stale, rooms, envVars>>
  BY DEF Notify
<1> QED BY <1>0, <1>1, <1>2, <1>3, <1>4, <1>5, <1>6

\* A step that tells nobody: rooms are only added, a waiter is its user's, and who is to
\* be told of a room is in it.
KeepsWaiters ==
  \A u \in Users : \/ waiters'[u] = waiters[u] \/ waiters'[u] = NoCall
                   \/ Caller[waiters'[u]] = u
AddsRooms ==
  Len(rooms') \in Nat /\ Len(rooms') >= Len(rooms) /\ \A r \in 1 .. Len(rooms) : rooms'[r] = rooms[r]
ToldAreInside == \A i \in 1 .. Len(told) : told[i][1] \in rooms[told[i][2]]

LEMMA NobodyIsTold ==
  ASSUME ListTypes, RoomTypes, AnswersInv, box' = box, KeepsWaiters, AddsRooms,
         told' = told \/ ToldAreInside', bg' = "idle" => told' = <<>>
  PROVE  AnswersInv'
<1>0. Len(rooms) \in Nat BY DEF RoomTypes
<1>1. \A u \in Users : waiters'[u] # NoCall => Caller[waiters'[u]] = u
  BY DEF AnswersInv, AnswersFit, KeepsWaiters
<1>2. ToldAreInside'
  <2>1. CASE told' = told
    <3>1. \A i \in 1 .. Len(told) : told[i] \in Calls \X (1 .. Len(rooms)) BY ElementOfSeq DEF RoomTypes
    <3> QED BY <2>1, <3>1 DEF AnswersInv, AnswersFit, AddsRooms, ToldAreInside
  <2> QED BY <2>1
<1>3. RoomIsMine'
  <2> SUFFICES ASSUME NEW j \in Calls, box[j] # 0 PROVE Caller[j] \in {Caller[e] : e \in rooms'[box[j]]}
    BY DEF RoomIsMine
  <2>1. box[j] \in 1 .. Len(rooms) BY <1>0 DEF RoomTypes
  <2> QED BY <2>1 DEF AnswersInv, RoomIsMine, AddsRooms
<1> QED BY <1>1, <1>2, <1>3 DEF AnswersInv, AnswersFit, ToldAreInside

LEMMA AnswersStep ==
  ASSUME CallTypes, ListTypes, RoomTypes, EntriesInv, AnswersInv, [Next]_vars PROVE AnswersInv'
<1>b. bg = "idle" => told = <<>> BY DEF AnswersInv, AnswersFit
<1>r. rooms' = rooms => AddsRooms BY DEF RoomTypes, AddsRooms
<1>w. waiters' = waiters => KeepsWaiters BY DEF KeepsWaiters
<1>1. ASSUME NEW j \in Calls, Register(j) \/ Unregister(j) PROVE AnswersInv'
  <2>1. UNCHANGED <<box, rooms, told, bg>> BY <1>1 DEF Register, Unregister, bgVars
  <2>2. KeepsWaiters BY <1>1 DEF Register, Unregister, ListTypes, KeepsWaiters
  <2> QED BY <1>b, <1>r, <2>1, <2>2, NobodyIsTold
<1>2. CASE UNCHANGED <<box, rooms, told, bg, waiters>>
  BY <1>b, <1>r, <1>w, <1>2, NobodyIsTold
<1>3. ASSUME NEW u \in Users, CancelWaiter(u) PROVE AnswersInv'
  <2>1. UNCHANGED <<box, rooms, told, bg>> BY <1>3 DEF CancelWaiter, bgVars
  <2>2. KeepsWaiters BY <1>3 DEF CancelWaiter, ListTypes, KeepsWaiters
  <2> QED BY <1>b, <1>r, <2>1, <2>2, NobodyIsTold
<1>4. CASE ReadQueue \/ EndPass
  <2>1. UNCHANGED <<box, rooms, told, waiters>> /\ told = <<>>
    BY <1>4, <1>b DEF ReadQueue, EndPass, callVars
  <2> QED BY <1>r, <1>w, <2>1, NobodyIsTold
<1>5. CASE Restart
  <2>1. UNCHANGED <<box, rooms>> /\ told' = <<>> /\ waiters' = [u \in Users |-> NoCall] BY <1>5 DEF Restart
  <2>2. KeepsWaiters BY <2>1 DEF KeepsWaiters
  <2>3. ToldAreInside' BY <2>1 DEF ToldAreInside
  <2> QED BY <1>r, <2>1, <2>2, <2>3, NobodyIsTold
<1>6. CASE Pair
  <2> PICK n : n = Len(rooms) OBVIOUS
  <2> PICK e : e = fresh[1] OBVIOUS
  <2> PICK f : f = fresh[2] OBVIOUS
  <2>1. /\ Len(rooms') = n + 1 /\ rooms'[n + 1] = {e, f} /\ \A r \in 1 .. n : rooms'[r] = rooms[r]
        /\ told' = <<<<e, n + 1>>, <<f, n + 1>>>> /\ UNCHANGED <<callVars, waiters, bg>> /\ bg = "passing"
    BY <1>6, PairServes DEF Pair
  <2>2. ToldAreInside' BY <2>1 DEF ToldAreInside
  <2>3. box' = box /\ AddsRooms BY <2>1 DEF callVars, AddsRooms, RoomTypes
  <2> QED BY <1>w, <2>1, <2>2, <2>3, NobodyIsTold
<1>7. CASE Fallback
  <2> PICK n : n = Len(rooms) OBVIOUS
  <2> PICK e : e = stale[1] OBVIOUS
  <2>1. /\ Len(rooms') = n + 1 /\ rooms'[n + 1] = {e} /\ \A r \in 1 .. n : rooms'[r] = rooms[r]
        /\ told' = <<<<e, n + 1>>>> /\ UNCHANGED <<callVars, waiters, bg>> /\ bg = "passing"
    BY <1>7, FallbackServes DEF Fallback
  <2>2. ToldAreInside' BY <2>1 DEF ToldAreInside
  <2>3. box' = box /\ AddsRooms BY <2>1 DEF callVars, AddsRooms, RoomTypes
  <2> QED BY <1>w, <2>1, <2>2, <2>3, NobodyIsTold
<1>8. CASE Notify
  <2>1. PICK w, e, r :
          /\ told[1] = <<e, r>> /\ e \in Calls /\ r \in 1 .. Len(rooms) /\ w = waiters[Caller[e]]
          /\ w \in Calls \cup {NoCall} /\ Caller[e] \in Users
          /\ \A j \in Calls : box'[j] = IF j = w /\ box[j] = 0 THEN r ELSE box[j]
          /\ told # <<>> /\ Len(told) \in Nat /\ Len(told) >= 1 /\ Len(told') = Len(told) - 1
          /\ \A i \in 1 .. Len(told') : told'[i] = told[i + 1]
          /\ UNCHANGED <<waiters, bg, rooms>>
    BY <1>8, NotifyTells
  <2>2. e \in rooms[r] /\ \A i \in 1 .. Len(told) : told[i][1] \in rooms[told[i][2]]
    BY <2>1 DEF AnswersInv, AnswersFit
  <2>3. AnswersFit'
    <3>1. \A u \in Users : waiters'[u] # NoCall => Caller[waiters'[u]] = u
      BY <2>1 DEF AnswersInv, AnswersFit
    <3>2. \A i \in 1 .. Len(told') : told'[i] = told[i + 1] /\ i + 1 \in 1 .. Len(told) BY <2>1
    <3>3. \A i \in 1 .. Len(told') : told'[i][1] \in rooms'[told'[i][2]] BY <2>1, <2>2, <3>2
    <3>4. bg' # "idle" BY <1>b, <2>1
    <3> QED BY ONLY <3>1, <3>3, <3>4 DEF AnswersFit
  <2>4. RoomIsMine'
    <3>1. ASSUME NEW j \in Calls, box'[j] # 0 PROVE Caller[j] \in {Caller[f] : f \in rooms[box'[j]]}
      <4>1. CASE j = w /\ box[j] = 0
        <5>1. Caller[j] = Caller[e] BY <2>1, <4>1 DEF AnswersInv, AnswersFit
        <5> QED BY <2>1, <2>2, <4>1, <5>1
      <4>2. CASE ~(j = w /\ box[j] = 0)
        <5>1. box'[j] = box[j] BY <2>1, <4>2
        <5> QED BY <3>1, <5>1 DEF AnswersInv, RoomIsMine
      <4> QED BY <4>1, <4>2
    <3> QED BY <2>1, <3>1 DEF RoomIsMine
  <2> QED BY <2>3, <2>4 DEF AnswersInv
<1>9. Next => \/ \E j \in Calls : Register(j) \/ Unregister(j)
              \/ \E u \in Users : CancelWaiter(u)
              \/ ReadQueue \/ EndPass \/ Restart \/ Pair \/ Fallback \/ Notify
              \/ UNCHANGED <<box, rooms, told, bg, waiters>>
  BY DEF Next, Background, AlreadyInQueue, Push, PushFails, Select, CancelFind, CancelRemove, Tick, callVars, bgVars
<1> QED BY <1>1, <1>2, <1>3, <1>4, <1>5, <1>6, <1>7, <1>8, <1>9 DEF vars, callVars, bgVars

-----------------------------------------------------------------------------
(* The list is in the order of age                                         *)

InOrder(q, a) ==
  \A limit \in 1 .. Deadline : \E n \in 0 .. Len(q) : FirstAre(q, {j \in Calls : a[j] >= limit}, n)
OldOnesFirst == \A limit \in 1 .. Deadline : \E n \in 0 .. Len(queue) : Oldest(n, limit)
NewAreYoung == \A j \in Calls : pc[j] \in {"idle", "registered"} => age[j] = 0

LEMMA OrderIs ==
  ASSUME NEW q \in Seq(Calls), NEW a
  PROVE  InOrder(q, a) <=>
           \A limit \in 1 .. Deadline : \E n \in 0 .. Len(q) :
             n \in 0 .. Len(q) /\ \A i \in 1 .. Len(q) : a[q[i]] >= limit <=> i <= n
<1>1. \A i \in 1 .. Len(q) : q[i] \in Calls BY ElementOfSeq
<1>2. ASSUME NEW limit \in 1 .. Deadline, NEW n \in 0 .. Len(q)
      PROVE  FirstAre(q, {j \in Calls : a[j] >= limit}, n) <=>
             n \in 0 .. Len(q) /\ \A i \in 1 .. Len(q) : a[q[i]] >= limit <=> i <= n
  BY <1>1 DEF FirstAre
<1> QED BY <1>2 DEF InOrder

LEMMA OrderIsNow == ASSUME queue \in Seq(Calls) PROVE OldOnesFirst <=> InOrder(queue, age)
BY OrderIs DEF OldOnesFirst, Oldest
LEMMA OrderIsNext == ASSUME queue' \in Seq(Calls) PROVE OldOnesFirst' <=> InOrder(queue', age')
BY OrderIs DEF OldOnesFirst, Oldest

LEMMA OrderWithout ==
  ASSUME NEW q \in Seq(Calls), NEW a, NEW e, InOrder(q, a) PROVE InOrder(LRem(q, e), a)
<1> SUFFICES ASSUME NEW limit \in 1 .. Deadline
             PROVE  \E n \in 0 .. Len(LRem(q, e)) : FirstAre(LRem(q, e), {j \in Calls : a[j] >= limit}, n)
  BY DEF InOrder
<1> PICK S : S = {j \in Calls : a[j] >= limit} OBVIOUS
<1>1. PICK n \in 0 .. Len(q) : FirstAre(q, S, n) BY DEF InOrder
<1> QED BY <1>1, LRemSplits

LEMMA OrderWith ==
  ASSUME NEW q \in Seq(Calls), NEW a, NEW e \in Calls, a[e] = 0, InOrder(q, a) PROVE InOrder(Append(q, e), a)
<1> PICK p : p = Append(q, e) OBVIOUS
<1>0. Len(q) \in Nat OBVIOUS
<1>1. Len(p) = Len(q) + 1 /\ p[Len(q) + 1] = e /\ \A i \in 1 .. Len(q) : p[i] = q[i]
  BY AppendProperties
<1> SUFFICES ASSUME NEW limit \in 1 .. Deadline
             PROVE  \E n \in 0 .. Len(p) : FirstAre(p, {j \in Calls : a[j] >= limit}, n)
  BY DEF InOrder
<1> PICK S : S = {j \in Calls : a[j] >= limit} OBVIOUS
<1>2. PICK n \in 0 .. Len(q) : FirstAre(q, S, n) BY DEF InOrder
<1>3. limit >= 1 BY DEF Deadline
<1>4. e \notin S BY <1>3
<1>5. FirstAre(p, S, n) BY <1>0, <1>1, <1>2, <1>4 DEF FirstAre
<1> QED BY <1>0, <1>1, <1>5 DEF FirstAre

LEMMA OrderAfterTick ==
  ASSUME NEW q \in Seq(Calls), NEW a, NEW b, InOrder(q, a),
         \A i \in 1 .. Len(q) : /\ a[q[i]] \in 0 .. Deadline
                                /\ b[q[i]] = IF a[q[i]] < Deadline THEN a[q[i]] + 1 ELSE a[q[i]]
  PROVE  InOrder(q, b)
<1>0. Len(q) \in Nat /\ Deadline \in Nat BY DEF Deadline
<1>1. \A i \in 1 .. Len(q) : q[i] \in Calls BY ElementOfSeq
<1> SUFFICES ASSUME NEW limit \in 1 .. Deadline
             PROVE  \E n \in 0 .. Len(q) : FirstAre(q, {j \in Calls : b[j] >= limit}, n)
  BY DEF InOrder
<1> PICK S : S = {j \in Calls : b[j] >= limit} OBVIOUS
<1>2. CASE limit = 1
  <2>1. ASSUME NEW i \in 1 .. Len(q) PROVE q[i] \in S
    <3> PICK x : x = a[q[i]] OBVIOUS
    <3> PICK y : y = b[q[i]] OBVIOUS
    <3>1. x \in 0 .. Deadline /\ y = IF x < Deadline THEN x + 1 ELSE x OBVIOUS
    <3>2. y >= 1 BY <1>0, <3>1
    <3> QED BY <1>1, <1>2, <3>2
  <2>2. FirstAre(q, S, Len(q)) BY <1>0, <2>1 DEF FirstAre
  <2>3. Len(q) \in 0 .. Len(q) BY <1>0
  <2>4. \E n \in 0 .. Len(q) : FirstAre(q, S, n) BY ONLY <2>2, <2>3
  <2> QED BY ONLY <2>4, S = {j \in Calls : b[j] >= limit}
<1>3. CASE limit # 1
  <2>1. limit - 1 \in 1 .. Deadline BY <1>0, <1>3
  <2>2. PICK n \in 0 .. Len(q) : FirstAre(q, {j \in Calls : a[j] >= limit - 1}, n) BY <2>1 DEF InOrder
  <2>3. ASSUME NEW i \in 1 .. Len(q) PROVE q[i] \in S <=> q[i] \in {j \in Calls : a[j] >= limit - 1}
    <3> PICK x : x = a[q[i]] OBVIOUS
    <3> PICK y : y = b[q[i]] OBVIOUS
    <3>1. x \in 0 .. Deadline /\ y = IF x < Deadline THEN x + 1 ELSE x OBVIOUS
    <3>2. y >= limit <=> x >= limit - 1
      BY ONLY <1>0, <3>1, limit \in 1 .. Deadline
    <3>3. q[i] \in S <=> y >= limit BY <1>1
    <3>4. q[i] \in {j \in Calls : a[j] >= limit - 1} <=> x >= limit - 1 BY <1>1
    <3> QED BY ONLY <3>2, <3>3, <3>4
  <2>4. FirstAre(q, S, n) BY <2>2, <2>3 DEF FirstAre
  <2>5. \E k \in 0 .. Len(q) : FirstAre(q, S, k) BY ONLY <2>4, n \in 0 .. Len(q)
  <2> QED BY ONLY <2>5, S = {j \in Calls : b[j] >= limit}
<1> QED BY <1>2, <1>3

LEMMA ByAgeStep ==
  ASSUME CallTypes, ListTypes, ListTypes', RoomTypes, EntriesInv, ListIsByAge, [Next]_vars PROVE ListIsByAge'
<1>0. queue \in Seq(Calls) /\ queue' \in Seq(Calls) BY DEF ListTypes
<1>1. NewAreYoung /\ InOrder(queue, age) BY <1>0, OrderIsNow DEF ListIsByAge, NewAreYoung, OldOnesFirst
<1> SUFFICES NewAreYoung' /\ InOrder(queue', age')
  BY <1>0, OrderIsNext DEF ListIsByAge, NewAreYoung, OldOnesFirst
<1>2. ASSUME NEW j \in Calls, Register(j) \/ AlreadyInQueue(j) \/ PushFails(j) \/ Select(j) \/ Unregister(j)
      PROVE  NewAreYoung' /\ InOrder(queue', age')
  <2>1. UNCHANGED <<queue, age>>
    BY <1>2 DEF Register, AlreadyInQueue, PushFails, Select, Unregister
  <2>2. \A e \in Calls : pc'[e] \in {"idle", "registered"} => pc[e] \in {"idle", "registered"}
    BY <1>2 DEF Register, AlreadyInQueue, PushFails, Select, Unregister, CallTypes
  <2> QED BY <1>1, <2>1, <2>2 DEF NewAreYoung
<1>3. ASSUME NEW j \in Calls, Push(j) PROVE NewAreYoung' /\ InOrder(queue', age')
  <2>1. /\ pc[j] = "registered" /\ queue' = Append(queue, j) /\ pc' = [pc EXCEPT ![j] = "waiting"] /\ age' = age
    BY <1>3 DEF Push
  <2>2. age[j] = 0 BY <1>1, <2>1 DEF NewAreYoung
  <2>3. NewAreYoung' BY <1>1, <2>1 DEF NewAreYoung, CallTypes
  <2> QED BY <1>0, <1>1, <2>1, <2>2, <2>3, OrderWith
<1>4. ASSUME NEW u \in Users, CancelRemove(u) PROVE NewAreYoung' /\ InOrder(queue', age')
  <2>1. UNCHANGED <<pc, age>> /\ queue' = LRem(queue, cancelling[u]) BY <1>4 DEF CancelRemove, callVars
  <2> QED BY <1>0, <1>1, <2>1, OrderWithout DEF NewAreYoung
<1>5. CASE Pair
  <2>1. UNCHANGED <<pc, age>> /\ queue' = LRem(LRem(queue, fresh[1]), fresh[2]) BY <1>5 DEF Pair, callVars
  <2>2. LRem(queue, fresh[1]) \in Seq(Calls) BY <1>0, LRemList DEF EntriesInv, EntriesFit
  <2>3. InOrder(LRem(queue, fresh[1]), age) BY <1>0, <1>1, OrderWithout
  <2>4. InOrder(queue', age') BY <2>1, <2>2, <2>3, OrderWithout
  <2> QED BY <1>1, <2>1, <2>4 DEF NewAreYoung
<1>6. CASE Fallback
  <2>1. UNCHANGED <<pc, age>> /\ queue' = LRem(queue, Head(stale)) BY <1>6 DEF Fallback, callVars
  <2> QED BY <1>0, <1>1, <2>1, OrderWithout DEF NewAreYoung
<1>7. CASE Tick
  <2>1. pc' = pc /\ queue' = queue BY <1>7 DEF Tick
  <2>2. age' = [j \in Calls |-> IF (pc[j] = "waiting" \/ j \in Entries(queue)) /\ age[j] < Deadline
                                THEN age[j] + 1 ELSE age[j]]
    BY <1>7 DEF Tick
  <2>3. NewAreYoung'
    <3>1. \A j \in Calls : pc[j] \in {"idle", "registered"} => j \notin Entries(queue)
      BY DEF EntriesInv, EntriesFit
    <3>2. \A j \in Calls : pc[j] \in {"idle", "registered"} => age'[j] = age[j] BY <2>2, <3>1
    <3> QED BY <1>1, <2>1, <3>2 DEF NewAreYoung
  <2>4. ASSUME NEW i \in 1 .. Len(queue)
        PROVE  /\ age[queue[i]] \in 0 .. Deadline
               /\ age'[queue[i]] = IF age[queue[i]] < Deadline THEN age[queue[i]] + 1 ELSE age[queue[i]]
    <3>1. queue[i] \in Calls BY <1>0, ElementOfSeq
    <3>2. queue[i] \in Entries(queue) BY DEF Entries
    <3> QED BY <2>2, <3>1, <3>2 DEF CallTypes
  <2>5. InOrder(queue, age') BY <1>0, <1>1, <2>4, OrderAfterTick
  <2> QED BY <2>1, <2>3, <2>5
<1>8. CASE Restart
  <2>1. UNCHANGED <<queue, age>> /\ \A e \in Calls : pc'[e] \in {"idle", "registered"} => pc[e] \in {"idle", "registered"}
    BY <1>8 DEF Restart
  <2> QED BY <1>1, <2>1 DEF NewAreYoung
<1>9. CASE UNCHANGED <<pc, age, queue>> BY <1>1, <1>9 DEF NewAreYoung
<1>10. Next => \/ \E j \in Calls : \/ Register(j) \/ AlreadyInQueue(j) \/ PushFails(j) \/ Select(j) \/ Unregister(j)
                                   \/ Push(j)
               \/ \E u \in Users : CancelRemove(u)
               \/ Pair \/ Fallback \/ Tick \/ Restart \/ UNCHANGED <<pc, age, queue>>
  BY DEF Next, Background, CancelWaiter, CancelFind, ReadQueue, Notify, EndPass, callVars
<1> QED BY <1>2, <1>3, <1>4, <1>5, <1>6, <1>7, <1>8, <1>9, <1>10 DEF vars, callVars

-----------------------------------------------------------------------------
(* Patient callers                                                         *)

Before == /\ CallTypes /\ ListTypes /\ RoomTypes /\ EntriesInv /\ AnswersInv /\ OutcomesFit
          /\ ListIsByAge

\* A call that waits is younger than the deadline, and one that has a room is not listed.
LEMMA NobodyIsLate == ASSUME Before, PatientInv, NEW j \in Calls, pc[j] = "waiting" PROVE ~(age[j] >= Deadline)
<1> PICK a : a = age[j] OBVIOUS
<1>1. a <= FallbackTicks /\ a \in 0 .. Deadline BY DEF PatientInv, TimesFit, Before, CallTypes
<1>2. Deadline > FallbackTicks /\ Deadline \in Nat BY DEF Deadline
<1> QED BY <1>1, <1>2

LEMMA RoomHoldersAreServed == ASSUME Before, PatientInv, NEW j \in Calls, box[j] # 0 PROVE InRoom(j) /\ j \notin Held
<1>1. j \in rooms[box[j]] BY DEF PatientInv, NewsFit
<1>2. box[j] \in 1 .. Len(rooms) BY DEF Before, RoomTypes
<1>3. InRoom(j) BY <1>1, <1>2 DEF InRoom
<1> QED BY <1>3 DEF Before, EntriesInv, EntriesFit, Held

\* The steps of patient callers: none hangs up, cancels or times out.
Answered(j) == Select(j) /\ box[j] # 0 /\ outcome' = [outcome EXCEPT ![j] = "room"]
PatientNext ==
  \/ \E j \in Calls : Register(j) \/ AlreadyInQueue(j) \/ Push(j) \/ Answered(j) \/ Unregister(j)
  \/ Background

LEMMA PatientBefore == ASSUME Before, [Next]_vars, Patient' PROVE Patient
<1>1. cancels \in Nat /\ restarts \in Nat BY DEF Before, ListTypes
<1>2. cancels' \in {cancels, cancels + 1} /\ restarts' \in {restarts, restarts + 1}
  BY DEF Next, vars, envVars, Background, Register, AlreadyInQueue, Push, PushFails, Select, Unregister, CancelWaiter,
         CancelFind, CancelRemove, Tick, ReadQueue, Pair, Fallback, Notify, EndPass, Restart
<1>3. cancels = 0 /\ restarts = 0 /\ restarts' = 0 BY <1>1, <1>2 DEF Patient
<1>4. ASSUME NEW k \in Calls, outcome[k] = "hung_up" PROVE FALSE
  <2>0. pc[k] \in {"returning", "ended"} BY <1>4 DEF Before, OutcomesFit, CallTypes
  <2>1. ~Restart BY <1>1, <1>3 DEF Restart
  <2>2. outcome'[k] = outcome[k]
    BY <2>0, <2>1 DEF Next, vars, callVars, Background, Register, AlreadyInQueue, Push, PushFails, Select, Unregister, CancelWaiter,
         CancelFind, CancelRemove, Tick, ReadQueue, Pair, Fallback, Notify, EndPass, Before, CallTypes
  <2> QED BY <1>4, <2>2 DEF Patient
<1> QED BY <1>3, <1>4 DEF Patient

LEMMA PatientSteps == ASSUME Before, PatientInv, Next, Patient' PROVE PatientNext
<1>0. Patient BY PatientBefore
<1>1. ASSUME NEW j \in Calls, PushFails(j) PROVE FALSE
  <2>1. outcome'[j] = "hung_up" BY <1>1 DEF PushFails, Before, CallTypes
  <2> QED BY <2>1 DEF Patient
<1>2. ASSUME NEW j \in Calls, Select(j) PROVE Answered(j)
  <2>1. pc[j] = "waiting" /\ j \notin done BY <1>2 DEF Select, PatientInv, CallersFit
  <2>2. ~(age[j] >= Deadline) BY <2>1, NobodyIsLate
  <2>3. outcome'[j] # "hung_up" BY DEF Patient
  <2> QED BY <1>2, <2>1, <2>2, <2>3 DEF Select, Answered, Before, CallTypes
<1>3. ASSUME NEW u \in Users, CancelWaiter(u) \/ CancelFind(u) \/ CancelRemove(u) PROVE FALSE
  <2>1. cancelling[u] = "no" BY DEF PatientInv, CallersFit
  <2>2. CASE CancelWaiter(u)
    <3>1. cancels = 0 /\ cancels' = cancels + 1 BY <1>0, <2>2 DEF Patient, CancelWaiter
    <3> QED BY <3>1 DEF Patient
  <2>3. CASE CancelFind(u) BY <2>1, <2>3 DEF CancelFind
  <2>4. CASE CancelRemove(u) BY <2>1, <2>4 DEF CancelRemove
  <2> QED BY <1>3, <2>2, <2>3, <2>4
<1>4. ~Restart
  <2>1. restarts = 0 /\ restarts' = 0 BY <1>0 DEF Patient
  <2> QED BY <2>1 DEF Restart
<1> QED BY <1>1, <1>2, <1>3, <1>4 DEF Next, PatientNext

LEMMA OutcomesStep == ASSUME CallTypes, OutcomesFit, [Next]_vars PROVE OutcomesFit'
<1>1. CASE UNCHANGED <<pc, outcome>> BY <1>1 DEF OutcomesFit
<1>2. ASSUME NEW j \in Calls, Register(j) \/ AlreadyInQueue(j) \/ Push(j) \/ PushFails(j) \/ Unregister(j) PROVE OutcomesFit'
  BY <1>2 DEF Register, AlreadyInQueue, Push, PushFails, Unregister, OutcomesFit, CallTypes
<1>3. ASSUME NEW j \in Calls, Select(j) PROVE OutcomesFit'
  <2>1. pc' = [pc EXCEPT ![j] = "returning"] /\ \E o : outcome' = [outcome EXCEPT ![j] = o] BY <1>3 DEF Select
  <2> QED BY <2>1 DEF OutcomesFit, CallTypes
<1>4. CASE Restart
  <2>1. \A j \in Calls : pc'[j] \in {"idle", "registered", "waiting"} => pc'[j] = pc[j] /\ outcome'[j] = outcome[j]
    BY <1>4 DEF Restart
  <2> QED BY <2>1 DEF OutcomesFit
<1> QED
  BY <1>1, <1>2, <1>3, <1>4
     DEF Next, Background, vars, callVars, CancelWaiter, CancelFind, CancelRemove, Tick, ReadQueue, Pair,
         Fallback, Notify, EndPass

\* What the background goroutine does to the list and its copies
LEMMA BackgroundLists ==
  ASSUME Before, PatientInv, Background
  PROVE  /\ UNCHANGED <<pc, outcome, done, waiters, cancelling>>
         /\ Entries(queue') \subseteq Entries(queue)
         /\ Entries(fresh') \cup Entries(stale') \subseteq Entries(queue')
<1>0. /\ Entries(fresh) \cup Entries(stale) \subseteq Entries(queue) /\ Entries(fresh) \cap Entries(stale) = {}
      /\ ListTypes /\ RoomTypes /\ EntriesInv
  BY DEF PatientInv, CallersFit, Before, EntriesInv, EntriesFit
<1>1. CASE Tick \/ Notify BY <1>0, <1>1 DEF Tick, Notify
<1>2. CASE ReadQueue BY <1>0, <1>2, ReadSplits DEF callVars
<1>3. CASE Pair
  <2> PICK S : S = {fresh[1], fresh[2]} OBVIOUS
  <2>1. /\ S \subseteq Entries(fresh) /\ Entries(queue') = Entries(queue) \ S /\ Entries(fresh') = Entries(fresh) \ S
        /\ UNCHANGED <<pc, outcome, done, waiters, cancelling, stale>>
    BY <1>0, <1>3, PairServes DEF callVars
  <2>2. UNCHANGED <<pc, outcome, done, waiters, cancelling>> BY <2>1
  <2>3. Entries(stale') = Entries(stale) BY <2>1
  <2> QED BY <1>0, <2>1, <2>2, <2>3
<1>4. CASE Fallback
  <2> PICK S : S = {stale[1]} OBVIOUS
  <2>1. /\ S \subseteq Entries(stale) /\ Entries(queue') = Entries(queue) \ S /\ Entries(stale') = Entries(stale) \ S
        /\ UNCHANGED <<pc, outcome, done, waiters, cancelling, fresh>>
    BY <1>0, <1>4, FallbackServes DEF callVars
  <2>2. UNCHANGED <<pc, outcome, done, waiters, cancelling>> BY <2>1
  <2>3. Entries(fresh') = Entries(fresh) BY <2>1
  <2> QED BY <1>0, <2>1, <2>2, <2>3
<1>5. CASE EndPass
  <2>1. UNCHANGED <<pc, outcome, done, waiters, cancelling, queue, stale>> /\ fresh' = <<>>
    BY <1>5 DEF EndPass, callVars
  <2>2. Entries(<<>>) = {} BY DEF Entries
  <2> QED BY <1>0, <2>1, <2>2
<1> QED BY <1>1, <1>2, <1>3, <1>4, <1>5 DEF Background

LEMMA CallersStep == ASSUME Before, PatientInv, PatientNext PROVE CallersFit'
<1>0. /\ done = {} /\ \A u \in Users : cancelling[u] = "no"
      /\ \A k \in Calls : Active(k) => waiters[Caller[k]] = k
      /\ \A e \in Entries(queue) : pc[e] = "waiting"
      /\ Entries(fresh) \cup Entries(stale) \subseteq Entries(queue)
  BY DEF PatientInv, CallersFit
<1>t. /\ pc \in [Calls -> {"idle", "registered", "waiting", "returning", "ended"}]
      /\ waiters \in [Users -> Calls \cup {NoCall}]
      /\ queue \in Seq(Calls)
      /\ \A e \in Entries(queue) : e \in Calls
  <2>1. CallTypes /\ ListTypes BY DEF Before
  <2>2. \A i \in 1 .. Len(queue) : queue[i] \in Calls BY <2>1, ElementOfSeq DEF ListTypes
  <2> QED BY <2>1, <2>2 DEF CallTypes, ListTypes, Entries
<1>1. ASSUME NEW j \in Calls, Register(j) PROVE CallersFit'
  <2>1. /\ pc[j] = "idle" /\ waiters[Caller[j]] = NoCall /\ waiters' = [waiters EXCEPT ![Caller[j]] = j]
        /\ pc' = [pc EXCEPT ![j] = "registered"] /\ UNCHANGED <<done, cancelling, queue, fresh, stale>>
    BY <1>1 DEF Register, bgVars
  <2>2. ASSUME NEW k \in Calls, Active(k)' PROVE waiters'[Caller[k]] = k
    <3>1. CASE k = j BY <1>t, <2>1, <3>1
    <3>2. CASE k # j
      <4>1. waiters[Caller[k]] = k BY <1>0, <1>t, <2>1, <2>2, <3>2 DEF Active
      <4>2. Caller[k] # Caller[j] BY <2>1, <4>1
      <4> QED BY <1>t, <2>1, <4>1, <4>2
    <3> QED BY <3>1, <3>2
  <2> QED BY <1>0, <1>t, <2>1, <2>2 DEF CallersFit
<1>2. ASSUME NEW j \in Calls, AlreadyInQueue(j) \/ Push(j) PROVE CallersFit'
  <2>1. /\ pc[j] \in {"idle", "registered"}
        /\ \/ pc' = [pc EXCEPT ![j] = "ended"] /\ queue' = queue
           \/ pc[j] = "registered" /\ pc' = [pc EXCEPT ![j] = "waiting"] /\ queue' = Append(queue, j)
        /\ UNCHANGED <<done, cancelling, waiters, fresh, stale>>
    BY <1>2 DEF AlreadyInQueue, Push, bgVars
  <2>2. \A k \in Calls : Active(k)' => Active(k) BY <1>t, <2>1 DEF Active
  <2>3. Entries(Append(queue, j)) = Entries(queue) \cup {j} BY <1>t, AppendToList
  <2>4. Entries(queue) \subseteq Entries(queue') BY <2>1, <2>3
  <2>5. \A e \in Entries(queue') : pc'[e] = "waiting"
    <3>1. j \notin Entries(queue) BY <1>0, <2>1
    <3>2. \A e \in Entries(queue) : pc'[e] = "waiting" BY <1>0, <1>t, <2>1, <3>1
    <3>3. CASE queue' = queue BY <3>2, <3>3
    <3>4. CASE queue' = Append(queue, j) /\ pc' = [pc EXCEPT ![j] = "waiting"]
      <4>1. pc'[j] = "waiting" BY <1>t, <3>4
      <4>2. Entries(queue') = Entries(queue) \cup {j} BY <2>3, <3>4
      <4> QED BY <3>2, <4>1, <4>2
    <3> QED BY <2>1, <3>3, <3>4
  <2> QED BY <1>0, <2>1, <2>2, <2>4, <2>5 DEF CallersFit
<1>3. ASSUME NEW j \in Calls, Answered(j) PROVE CallersFit'
  <2>1. /\ pc[j] = "waiting" /\ pc' = [pc EXCEPT ![j] = "returning"] /\ box[j] # 0
        /\ UNCHANGED <<done, cancelling, waiters, queue, fresh, stale>>
    BY <1>3 DEF Answered, Select, bgVars
  <2>2. \A k \in Calls : Active(k)' => Active(k) BY <1>t, <2>1 DEF Active
  <2>3. j \notin Entries(queue) BY <2>1, RoomHoldersAreServed DEF Held
  <2> QED BY <1>0, <1>t, <2>1, <2>2, <2>3 DEF CallersFit
<1>4. ASSUME NEW j \in Calls, Unregister(j) PROVE CallersFit'
  <2>1. /\ pc[j] = "returning" /\ pc' = [pc EXCEPT ![j] = "ended"] /\ waiters' = [waiters EXCEPT ![Caller[j]] = NoCall]
        /\ UNCHANGED <<done, cancelling, queue, fresh, stale>>
    BY <1>4 DEF Unregister, bgVars
  <2>2. waiters[Caller[j]] = j BY <1>0, <2>1 DEF Active
  <2>3. ASSUME NEW k \in Calls, Active(k)' PROVE waiters'[Caller[k]] = k
    <3>1. k # j /\ waiters[Caller[k]] = k BY <1>0, <1>t, <2>1, <2>3 DEF Active
    <3>2. Caller[k] # Caller[j] BY <2>2, <3>1
    <3> QED BY <1>t, <2>1, <3>1, <3>2
  <2>4. j \notin Entries(queue) BY <1>0, <2>1
  <2> QED BY <1>0, <1>t, <2>1, <2>3, <2>4 DEF CallersFit
<1>5. CASE Background
  <2>1. /\ UNCHANGED <<pc, done, waiters, cancelling>> /\ Entries(queue') \subseteq Entries(queue)
        /\ Entries(fresh') \cup Entries(stale') \subseteq Entries(queue')
    BY <1>5, BackgroundLists
  <2> QED BY <1>0, <2>1 DEF CallersFit, Active
<1> QED BY <1>1, <1>2, <1>3, <1>4, <1>5 DEF PatientNext

LEMMA TimesStep == ASSUME Before, PatientInv, PatientNext PROVE TimesFit'
<1>0. /\ \A j \in Calls : pc[j] = "waiting" => age[j] <= FallbackTicks
      /\ passed => \A e \in Entries(queue) : age[e] < FallbackTicks
      /\ bg = "passing" => \A e \in Entries(queue) : age[e] >= FallbackTicks => e \in Entries(stale)
  BY DEF PatientInv, TimesFit
<1>t. /\ pc \in [Calls -> {"idle", "registered", "waiting", "returning", "ended"}] /\ age \in [Calls -> 0 .. Deadline]
      /\ queue \in Seq(Calls) /\ ListTypes /\ RoomTypes /\ EntriesInv
  BY DEF Before, CallTypes, ListTypes
<1>d. FallbackTicks \in Nat /\ FallbackTicks >= 1 /\ Deadline \in Nat /\ FallbackTicks < Deadline BY DEF Deadline
<1>1. ASSUME NEW j \in Calls, Register(j) \/ AlreadyInQueue(j) \/ Answered(j) \/ Unregister(j) PROVE TimesFit'
  <2>1. /\ UNCHANGED <<age, passed, queue, bg, stale>>
        /\ \A k \in Calls : pc'[k] = "waiting" => pc[k] = "waiting"
    BY <1>1, <1>t DEF Register, AlreadyInQueue, Answered, Select, Unregister, bgVars
  <2> QED BY <1>0, <2>1 DEF TimesFit
<1>2. ASSUME NEW j \in Calls, Push(j) PROVE TimesFit'
  <2>1. /\ UNCHANGED <<age, passed, bg, stale>> /\ queue' = Append(queue, j) /\ pc[j] = "registered"
        /\ pc' = [pc EXCEPT ![j] = "waiting"]
    BY <1>2 DEF Push, bgVars
  <2>2. age[j] = 0 BY <2>1 DEF Before, ListIsByAge
  <2>3. Entries(queue') = Entries(queue) \cup {j} BY <1>t, <2>1, AppendToList
  <2>4. \A k \in Calls : pc'[k] = "waiting" => k = j \/ pc[k] = "waiting" BY <1>t, <2>1
  <2> QED BY <1>0, <1>d, <2>1, <2>2, <2>3, <2>4 DEF TimesFit
<1>3. CASE Tick
  <2>1. /\ passed /\ passed' = FALSE /\ bg = "idle" /\ UNCHANGED <<pc, queue, bg, stale>>
        /\ \A j \in Calls : pc[j] = "waiting" => box[j] = 0
        /\ age' = [j \in Calls |-> IF (pc[j] = "waiting" \/ j \in Entries(queue)) /\ age[j] < Deadline
                                   THEN age[j] + 1 ELSE age[j]]
    BY <1>3 DEF Tick
  <2>2. ASSUME NEW j \in Calls, pc[j] = "waiting" PROVE age'[j] <= FallbackTicks
    <3>1. told = <<>> BY <2>1 DEF Before, AnswersInv, AnswersFit
    <3>2. j \in Entries(queue) BY <2>1, <2>2, <3>1 DEF PatientInv, NewsFit
    <3>3. age[j] < FallbackTicks /\ age[j] \in 0 .. Deadline BY <1>0, <1>t, <2>1, <3>2
    <3>4. age'[j] = IF age[j] < Deadline THEN age[j] + 1 ELSE age[j] BY <2>1, <2>2
    <3> PICK a : a = age[j] OBVIOUS
    <3> PICK b : b = age'[j] OBVIOUS
    <3>5. a < FallbackTicks /\ a \in 0 .. Deadline /\ b = IF a < Deadline THEN a + 1 ELSE a BY <3>3, <3>4
    <3>6. b <= FallbackTicks BY ONLY <1>d, <3>5
    <3> QED BY <3>6
  <2> QED BY <2>1, <2>2 DEF TimesFit
<1>4. CASE ReadQueue
  <2>1. UNCHANGED <<pc, age, queue, passed>> /\ ~passed BY <1>4 DEF ReadQueue, callVars
  <2>2. \A e \in Entries(queue) : age[e] >= FallbackTicks => e \in Entries(stale') BY <1>4, <1>t, ReadSplits
  <2> QED BY <1>0, <2>1, <2>2 DEF TimesFit
<1>5. CASE Pair
  <2>1. UNCHANGED <<pc, age, passed, stale, bg>> BY <1>5 DEF Pair, callVars
  <2>2. Entries(queue') \subseteq Entries(queue) BY <1>5, <1>t, PairServes
  <2> QED BY <1>0, <2>1, <2>2 DEF TimesFit
<1>6. CASE Fallback
  <2> PICK S : S = {stale[1]} OBVIOUS
  <2>1. UNCHANGED <<pc, age, passed, bg>> BY <1>6 DEF Fallback, callVars
  <2>2. Entries(queue') = Entries(queue) \ S /\ Entries(stale') = Entries(stale) \ S BY <1>6, <1>t, FallbackServes
  <2> QED BY <1>0, <2>1, <2>2 DEF TimesFit
<1>7. CASE Notify
  <2>1. UNCHANGED <<pc, age, passed, stale, bg, queue>> BY <1>7 DEF Notify
  <2> QED BY <1>0, <2>1 DEF TimesFit
<1>8. CASE EndPass
  <2>1. bg = "passing" /\ bg' = "idle" /\ stale = <<>> /\ UNCHANGED <<pc, age, stale, queue>>
    BY <1>8 DEF EndPass, callVars
  <2>2. Entries(<<>>) = {} BY DEF Entries
  <2>3. \A e \in Entries(queue) : e \in Calls
    <3>1. \A i \in 1 .. Len(queue) : queue[i] \in Calls BY <1>t, ElementOfSeq
    <3> QED BY <3>1 DEF Entries
  <2>4. ASSUME NEW e \in Entries(queue) PROVE age[e] < FallbackTicks
    <3>1. ~(age[e] >= FallbackTicks) BY <1>0, <2>1, <2>2
    <3>2. age[e] \in 0 .. Deadline BY <1>t, <2>3
    <3> PICK a : a = age[e] OBVIOUS
    <3>3. ~(a >= FallbackTicks) /\ a \in 0 .. Deadline BY <3>1, <3>2
    <3>4. a < FallbackTicks BY ONLY <1>d, <3>3
    <3> QED BY <3>4
  <2> QED BY <1>0, <2>1, <2>4 DEF TimesFit
<1> QED BY <1>1, <1>2, <1>3, <1>4, <1>5, <1>6, <1>7, <1>8 DEF PatientNext, Background

\* A step that makes no room and tells nobody
LEMMA NewsSame ==
  ASSUME NewsFit, UNCHANGED <<rooms, box, told>>, RoomTypes,
         \A e \in Entries(queue) : e \in Entries(queue') \/ pc'[e] # "waiting",
         \A j \in Calls : pc[j] = "waiting" /\ box[j] = 0 => pc'[j] = "waiting",
         \A j \in Calls : pc'[j] = "waiting" => pc[j] = "waiting" \/ j \in Entries(queue')
  PROVE  NewsFit'
<1>1. \A i \in 1 .. Len(told) : told[i][1] \in Calls
  <2>1. \A i \in 1 .. Len(told) : told[i] \in Calls \X (1 .. Len(rooms)) BY ElementOfSeq DEF RoomTypes
  <2> QED BY <2>1
<1>2. told' = told /\ box' = box /\ rooms' = rooms OBVIOUS
<1>3. \A i \in 1 .. Len(told) : pc'[told[i][1]] = "waiting" /\ box[told[i][1]] = 0 BY <1>1 DEF NewsFit
<1>4. \A j \in Calls : pc'[j] = "waiting" /\ box[j] = 0 =>
        j \in Entries(queue') \/ \E i \in 1 .. Len(told) : told[i][1] = j
  BY DEF NewsFit
<1>5. /\ \A i, k \in 1 .. Len(told) : told[i][1] = told[k][1] => i = k
      /\ \A j \in Calls : box[j] # 0 => j \in rooms[box[j]]
      /\ \A r \in 1 .. Len(rooms) : \A e \in rooms[r] :
           box[e] = r \/ \E i \in 1 .. Len(told) : told[i] = <<e, r>>
  BY DEF NewsFit
<1> QED BY ONLY <1>2, <1>3, <1>4, <1>5 DEF NewsFit

\* A room is made for entries of the list.
AllWait(S) == \A e \in S : pc[e] = "waiting" /\ box[e] = 0
ToldTo(S, r) ==
  /\ \A i \in 1 .. Len(told) : told[i][1] \in S
  /\ \A e \in S : \E i \in 1 .. Len(told) : told[i] = <<e, r>>
  /\ \A i, k \in 1 .. Len(told) : told[i][1] = told[k][1] => i = k

LEMMA NewsOfRoom ==
  ASSUME NewsFit, RoomTypes, pc' = pc, box' = box, told = <<>>, NEW S, NEW n, n = Len(rooms),
         Entries(queue') = Entries(queue) \ S, AllWait(S), ToldTo(S, n + 1)',
         Len(rooms') = n + 1, rooms'[n + 1] = S, \A r \in 1 .. n : rooms'[r] = rooms[r]
  PROVE  NewsFit'
<1>0. n \in Nat /\ Len(told) = 0 BY DEF RoomTypes
<1>t. /\ \A i \in 1 .. Len(told') : told'[i][1] \in S
      /\ \A e \in S : \E i \in 1 .. Len(told') : told'[i] = <<e, n + 1>>
      /\ \A i, k \in 1 .. Len(told') : told'[i][1] = told'[k][1] => i = k
  BY DEF ToldTo
<1>1. \A i \in 1 .. Len(told') : pc'[told'[i][1]] = "waiting" /\ box'[told'[i][1]] = 0
  BY <1>t DEF AllWait
<1>2. ASSUME NEW j \in Calls, pc'[j] = "waiting", box'[j] = 0
      PROVE  j \in Entries(queue') \/ \E i \in 1 .. Len(told') : told'[i][1] = j
  <2>1. j \in Entries(queue) BY <1>0, <1>2 DEF NewsFit
  <2>2. CASE j \in S
    <3>1. PICK i \in 1 .. Len(told') : told'[i] = <<j, n + 1>> BY <1>t, <2>2
    <3> QED BY <3>1
  <2> QED BY <2>1, <2>2
<1>3. ASSUME NEW j \in Calls, box'[j] # 0 PROVE j \in rooms'[box'[j]]
  <2>1. box[j] \in 0 .. n /\ box'[j] = box[j] BY DEF RoomTypes
  <2>2. box[j] \in 1 .. n BY <1>0, <1>3, <2>1
  <2>3. j \in rooms[box[j]] BY <1>3, <2>1 DEF NewsFit
  <2> QED BY <2>1, <2>2, <2>3
<1>4. ASSUME NEW r \in 1 .. Len(rooms'), NEW e \in rooms'[r]
      PROVE  box'[e] = r \/ \E i \in 1 .. Len(told') : told'[i] = <<e, r>>
  <2>1. CASE r = n + 1 BY <1>t, <1>4, <2>1
  <2>2. CASE r \in 1 .. n
    <3>1. e \in rooms[r] BY <1>4, <2>2
    <3>2. box[e] = r BY <1>0, <2>2, <3>1 DEF NewsFit
    <3> QED BY <3>2
  <2>3. r = n + 1 \/ r \in 1 .. n BY <1>0
  <2> QED BY <2>1, <2>2, <2>3
<1> QED BY ONLY <1>t, <1>1, <1>2, <1>3, <1>4 DEF NewsFit

LEMMA NewsStep == ASSUME Before, PatientInv, PatientNext PROVE NewsFit'
<1>0. NewsFit /\ ListTypes /\ RoomTypes /\ CallTypes /\ EntriesInv BY DEF PatientInv, Before
<1>t. /\ pc \in [Calls -> {"idle", "registered", "waiting", "returning", "ended"}] /\ queue \in Seq(Calls)
      /\ \A e \in Entries(queue) : e \in Calls /\ pc[e] = "waiting"
  <2>0. queue \in Seq(Calls) BY <1>0 DEF ListTypes
  <2>1. \A i \in 1 .. Len(queue) : queue[i] \in Calls BY <2>0, ElementOfSeq
  <2>2. \A e \in Entries(queue) : e \in Calls BY ONLY <2>1 DEF Entries
  <2>3. \A e \in Entries(queue) : pc[e] = "waiting" BY DEF PatientInv, CallersFit
  <2>4. pc \in [Calls -> {"idle", "registered", "waiting", "returning", "ended"}] BY <1>0 DEF CallTypes
  <2> QED BY ONLY <2>0, <2>2, <2>3, <2>4
<1>l. \A e \in Entries(queue) : box[e] = 0
  BY <1>t, RoomHoldersAreServed DEF Held
<1>1. ASSUME NEW j \in Calls, Register(j) \/ AlreadyInQueue(j) \/ Answered(j) \/ Unregister(j) PROVE NewsFit'
  <2>1. UNCHANGED <<rooms, box, told, queue>>
    BY <1>1 DEF Register, AlreadyInQueue, Answered, Select, Unregister, bgVars
  <2>2. \A k \in Calls : pc[k] = "waiting" /\ box[k] = 0 => pc'[k] = "waiting"
    BY <1>1, <1>t DEF Register, AlreadyInQueue, Answered, Select, Unregister
  <2>3. \A k \in Calls : pc'[k] = "waiting" => pc[k] = "waiting"
    BY <1>1, <1>t DEF Register, AlreadyInQueue, Answered, Select, Unregister
  <2>4. Entries(queue') = Entries(queue) BY <2>1
  <2> QED BY <1>0, <2>1, <2>2, <2>3, <2>4, NewsSame
<1>2. ASSUME NEW j \in Calls, Push(j) PROVE NewsFit'
  <2>1. /\ UNCHANGED <<rooms, box, told>> /\ queue' = Append(queue, j) /\ pc[j] = "registered"
        /\ pc' = [pc EXCEPT ![j] = "waiting"]
    BY <1>2 DEF Push, bgVars
  <2>2. Entries(queue') = Entries(queue) \cup {j} BY <1>t, <2>1, AppendToList
  <2>3. \A k \in Calls : pc'[k] = "waiting" => k = j \/ pc[k] = "waiting" BY <1>t, <2>1
  <2>4. \A k \in Calls : pc[k] = "waiting" /\ box[k] = 0 => pc'[k] = "waiting" BY <1>t, <2>1
  <2> QED BY <1>0, <2>1, <2>2, <2>3, <2>4, NewsSame
<1>3. CASE Tick \/ ReadQueue \/ EndPass
  <2>1. UNCHANGED <<rooms, box, told, queue, pc>> BY <1>3 DEF Tick, ReadQueue, EndPass, callVars
  <2>4. Entries(queue') = Entries(queue) BY <2>1
  <2> QED BY <1>0, <2>1, <2>4, NewsSame
<1>4. CASE Pair
  <2> PICK n : n = Len(rooms) OBVIOUS
  <2> PICK e : e = fresh[1] OBVIOUS
  <2> PICK f : f = fresh[2] OBVIOUS
  <2>1. /\ e # f /\ {e, f} \subseteq Entries(fresh) /\ Entries(queue') = Entries(queue) \ {e, f}
        /\ Len(rooms') = n + 1 /\ rooms'[n + 1] = {e, f} /\ \A r \in 1 .. n : rooms'[r] = rooms[r]
        /\ told' = <<<<e, n + 1>>, <<f, n + 1>>>> /\ told = <<>> /\ UNCHANGED <<pc, box>>
    BY <1>0, <1>4, PairServes DEF callVars
  <2>2. Entries(fresh) \subseteq Entries(queue) BY DEF PatientInv, CallersFit
  <2>3. AllWait({e, f}) BY <1>t, <1>l, <2>1, <2>2 DEF AllWait
  <2>4. ToldTo({e, f}, n + 1)'
    <3>1. Len(told') = 2 /\ told'[1] = <<e, n + 1>> /\ told'[2] = <<f, n + 1>> BY <2>1
    <3>2. \A i \in 1 .. Len(told') : told'[i][1] \in {e, f} BY <3>1
    <3>3. \A x \in {e, f} : \E i \in 1 .. Len(told') : told'[i] = <<x, n + 1>> BY <3>1
    <3>4. \A i, k \in 1 .. Len(told') : told'[i][1] = told'[k][1] => i = k BY <2>1, <3>1
    <3> QED BY ONLY <3>2, <3>3, <3>4 DEF ToldTo
  <2> QED BY ONLY <1>0, <2>1, <2>3, <2>4, NewsOfRoom, n = Len(rooms)
<1>5. CASE Fallback
  <2> PICK n : n = Len(rooms) OBVIOUS
  <2> PICK e : e = stale[1] OBVIOUS
  <2>1. /\ e \in Entries(stale) /\ Entries(queue') = Entries(queue) \ {e}
        /\ Len(rooms') = n + 1 /\ rooms'[n + 1] = {e} /\ \A r \in 1 .. n : rooms'[r] = rooms[r]
        /\ told' = <<<<e, n + 1>>>> /\ told = <<>> /\ UNCHANGED <<pc, box>>
    BY <1>0, <1>5, FallbackServes DEF callVars
  <2>2. Entries(stale) \subseteq Entries(queue) BY DEF PatientInv, CallersFit
  <2>3. AllWait({e}) BY <1>t, <1>l, <2>1, <2>2 DEF AllWait
  <2>4. ToldTo({e}, n + 1)'
    <3>1. Len(told') = 1 /\ told'[1] = <<e, n + 1>> BY <2>1
    <3> QED BY <3>1 DEF ToldTo
  <2> QED BY ONLY <1>0, <2>1, <2>3, <2>4, NewsOfRoom, n = Len(rooms)
<1>6. CASE Notify
  <2>1. PICK w, e, r :
          /\ told[1] = <<e, r>> /\ e \in Calls /\ r \in 1 .. Len(rooms) /\ w = waiters[Caller[e]]
          /\ \A j \in Calls : box'[j] = IF j = w /\ box[j] = 0 THEN r ELSE box[j]
          /\ Len(told) \in Nat /\ Len(told) >= 1 /\ Len(told') = Len(told) - 1
          /\ \A i \in 1 .. Len(told') : told'[i] = told[i + 1]
          /\ UNCHANGED <<pc, queue, rooms>>
    BY <1>0, <1>6, NotifyTells
  <2>t. Len(rooms) \in Nat /\ \A i \in 1 .. Len(told) : told[i][1] \in Calls
    <3>1. \A i \in 1 .. Len(told) : told[i] \in Calls \X (1 .. Len(rooms)) BY <1>0, ElementOfSeq DEF RoomTypes
    <3> QED BY <1>0, <3>1 DEF RoomTypes
  <2>2. 1 \in 1 .. Len(told) /\ told[1][1] = e /\ told[1][2] = r BY <2>1
  <2>3. pc[e] = "waiting" /\ box[e] = 0 /\ e \in rooms[r]
    BY <1>0, <2>2 DEF NewsFit, Before, AnswersInv, AnswersFit
  <2>4. w = e BY <2>1, <2>3 DEF PatientInv, CallersFit, Active
  <2>5. r # 0 /\ box'[e] = r /\ \A j \in Calls : j # e => box'[j] = box[j] BY <2>1, <2>3, <2>4, <2>t
  <2>6. \A i \in 1 .. Len(told') : i + 1 \in 1 .. Len(told) /\ told[i + 1][1] # e
    BY <1>0, <2>1, <2>2 DEF NewsFit
  <2>7. ASSUME NEW i \in 1 .. Len(told') PROVE pc'[told'[i][1]] = "waiting" /\ box'[told'[i][1]] = 0
    <3>1. told'[i] = told[i + 1] /\ i + 1 \in 1 .. Len(told) /\ told[i + 1][1] # e BY <2>1, <2>6
    <3>2. pc[told[i + 1][1]] = "waiting" /\ box[told[i + 1][1]] = 0 BY <1>0, <3>1 DEF NewsFit
    <3>3. box'[told[i + 1][1]] = box[told[i + 1][1]] BY <2>5, <2>t, <3>1
    <3> QED BY <2>1, <3>1, <3>2, <3>3
  <2>8. ASSUME NEW i \in 1 .. Len(told'), NEW k \in 1 .. Len(told'), told'[i][1] = told'[k][1] PROVE i = k
    <3>1. told[i + 1][1] = told[k + 1][1] /\ i + 1 \in 1 .. Len(told) /\ k + 1 \in 1 .. Len(told)
      BY <2>1, <2>6, <2>8
    <3>2. i + 1 = k + 1 BY <1>0, <3>1 DEF NewsFit
    <3>3. i \in Nat /\ k \in Nat BY <2>1
    <3> QED BY <3>2, <3>3
  <2>9. ASSUME NEW x, NEW i \in 1 .. Len(told), told[i] = x, x[1] # e PROVE \E k \in 1 .. Len(told') : told'[k] = x
    <3>1. i # 1 BY <2>2, <2>9
    <3>2. i - 1 \in 1 .. Len(told') /\ told'[i - 1] = told[(i - 1) + 1] /\ (i - 1) + 1 = i BY <2>1, <3>1
    <3>3. told'[i - 1] = x BY <2>9, <3>2
    <3> QED BY <3>2, <3>3
  <2>10. ASSUME NEW j \in Calls, pc'[j] = "waiting", box'[j] = 0
         PROVE  j \in Entries(queue') \/ \E k \in 1 .. Len(told') : told'[k][1] = j
    <3>1. j # e /\ box[j] = 0 /\ pc[j] = "waiting" BY <2>1, <2>5, <2>10
    <3>2. CASE j \in Entries(queue) BY <2>1, <3>2
    <3>3. CASE \E i \in 1 .. Len(told) : told[i][1] = j
      <4>1. PICK i \in 1 .. Len(told) : told[i][1] = j BY <3>3
      <4>2. \E k \in 1 .. Len(told') : told'[k] = told[i] BY <2>9, <3>1, <4>1
      <4> QED BY <4>1, <4>2
    <3> QED BY <1>0, <3>1, <3>2, <3>3 DEF NewsFit
  <2>11. ASSUME NEW j \in Calls, box'[j] # 0 PROVE j \in rooms'[box'[j]]
    <3>1. CASE j = e BY <2>1, <2>3, <2>5, <3>1
    <3>2. CASE j # e BY <1>0, <2>1, <2>5, <2>11, <3>2 DEF NewsFit
    <3> QED BY <3>1, <3>2
  <2>12. ASSUME NEW s \in 1 .. Len(rooms'), NEW x \in rooms'[s]
         PROVE  box'[x] = s \/ \E k \in 1 .. Len(told') : told'[k] = <<x, s>>
    <3>0. s \in 1 .. Len(rooms) /\ x \in rooms[s] BY <2>1
    <3>1. CASE x = e
      <4>1. s = r BY <1>0, <2>1, <2>3, <3>0, <3>1 DEF EntriesInv, OneRoomPerEntry
      <4> QED BY <2>5, <3>1, <4>1
    <3>2. CASE x # e
      <4>0. x \in Calls
        <5>1. rooms[s] \in SUBSET Calls BY <1>0, <3>0, ElementOfSeq DEF RoomTypes
        <5> QED BY <3>0, <5>1
      <4>1. box[x] = s \/ \E i \in 1 .. Len(told) : told[i] = <<x, s>> BY <1>0, <3>0 DEF NewsFit
      <4>2. CASE box[x] = s BY <2>5, <3>2, <4>0, <4>2
      <4>3. CASE \E i \in 1 .. Len(told) : told[i] = <<x, s>>
        <5>1. PICK i \in 1 .. Len(told) : told[i] = <<x, s>> BY <4>3
        <5>2. <<x, s>>[1] # e BY <3>2
        <5> QED BY <2>9, <5>1, <5>2
      <4> QED BY <4>1, <4>2, <4>3
    <3> QED BY <3>1, <3>2
  <2> QED BY <2>7, <2>8, <2>10, <2>11, <2>12 DEF NewsFit
<1> QED BY <1>1, <1>2, <1>3, <1>4, <1>5, <1>6 DEF PatientNext, Background

LEMMA TwoPeopleStep == ASSUME Before, PatientInv, PatientNext PROVE TwoPeople'
<1>0. TwoPeople /\ ListTypes /\ RoomTypes /\ EntriesInv BY DEF PatientInv, Before
<1>n. Len(rooms) \in Nat BY <1>0 DEF RoomTypes
<1>1. CASE rooms' = rooms BY <1>0, <1>1 DEF TwoPeople
<1>2. CASE Pair
  <2> PICK n : n = Len(rooms) OBVIOUS
  <2> PICK e : e = fresh[1] OBVIOUS
  <2> PICK f : f = fresh[2] OBVIOUS
  <2>1. /\ e \in Calls /\ f \in Calls /\ e # f /\ {e, f} \subseteq Entries(fresh)
        /\ Len(rooms') = n + 1 /\ rooms'[n + 1] = {e, f} /\ \A r \in 1 .. n : rooms'[r] = rooms[r]
    BY <1>0, <1>2, PairServes
  <2>2. Active(e) /\ Active(f) BY <2>1 DEF PatientInv, CallersFit, Active
  <2>3. waiters[Caller[e]] = e /\ waiters[Caller[f]] = f BY <2>1, <2>2 DEF PatientInv, CallersFit
  <2>4. Caller[e] # Caller[f] BY <2>1, <2>3
  <2>5. \A r \in 1 .. n + 1 : r = n + 1 \/ r \in 1 .. n BY <1>n
  <2>6. ASSUME NEW r \in 1 .. Len(rooms'), NEW x \in rooms'[r], NEW y \in rooms'[r], x # y PROVE Caller[x] # Caller[y]
    <3>1. CASE r = n + 1
      <4>1. x \in {e, f} /\ y \in {e, f} BY <2>1, <2>6, <3>1
      <4> QED BY <2>4, <2>6, <4>1
    <3>2. CASE r \in 1 .. n
      <4>1. x \in rooms[r] /\ y \in rooms[r] BY <2>1, <2>6, <3>2
      <4> QED BY <1>0, <2>6, <3>2, <4>1 DEF TwoPeople
    <3> QED BY <2>1, <2>5, <3>1, <3>2
  <2> QED BY ONLY <2>6 DEF TwoPeople
<1>3. CASE Fallback
  <2> PICK n : n = Len(rooms) OBVIOUS
  <2>1. Len(rooms') = n + 1 /\ rooms'[n + 1] = {stale[1]} /\ \A r \in 1 .. n : rooms'[r] = rooms[r]
    BY <1>0, <1>3, FallbackServes
  <2>5. \A r \in 1 .. n + 1 : r = n + 1 \/ r \in 1 .. n BY <1>n
  <2> QED BY <1>0, <2>1, <2>5 DEF TwoPeople
<1>4. PatientNext => Pair \/ Fallback \/ rooms' = rooms
  BY DEF PatientNext, Background, Register, AlreadyInQueue, Push, Answered, Select, Unregister, Tick, ReadQueue,
         Notify, EndPass, bgVars
<1> QED BY <1>1, <1>2, <1>3, <1>4

LEMMA InTimeStep == ASSUME Before, PatientInv, PatientNext PROVE AnsweredInTime'
<1>0. AnsweredInTime /\ outcome \in [Calls -> {"none", "room", "cancelled", "hung_up", "timeout", "already_in_queue", "cut"}]
  BY DEF PatientInv, Before, CallTypes
<1>1. \/ outcome' = outcome
      \/ \E j \in Calls : outcome' = [outcome EXCEPT ![j] = "room"] \/ outcome' = [outcome EXCEPT ![j] = "already_in_queue"]
  <2>1. Background => outcome' = outcome
    BY DEF Background, Tick, ReadQueue, Pair, Fallback, Notify, EndPass, callVars
  <2>2. ASSUME NEW j \in Calls, Register(j) \/ Push(j) \/ Unregister(j) PROVE outcome' = outcome
    BY <2>2 DEF Register, Push, Unregister
  <2>3. ASSUME NEW j \in Calls, Answered(j) PROVE outcome' = [outcome EXCEPT ![j] = "room"]
    BY <2>3 DEF Answered
  <2>4. ASSUME NEW j \in Calls, AlreadyInQueue(j) PROVE outcome' = [outcome EXCEPT ![j] = "already_in_queue"]
    BY <2>4 DEF AlreadyInQueue
  <2> QED BY <2>1, <2>2, <2>3, <2>4 DEF PatientNext
<1> QED BY <1>0, <1>1 DEF AnsweredInTime

-----------------------------------------------------------------------------
(* All together                                                            *)

LEMMA QueueInvIs ==
  QueueInv <=> /\ CallTypes /\ ListTypes /\ RoomTypes /\ EntriesInv /\ AnswersInv /\ OutcomesFit /\ ListIsByAge
               /\ Patient => PatientInv
BY TypesAreThese DEF QueueInv, EntriesInv, AnswersInv

LEMMA PatientInvStep == ASSUME Before, Patient => PatientInv, [Next]_vars, Patient' PROVE PatientInv'
<1>0. PatientInv BY PatientBefore
<1>1. CASE UNCHANGED vars
  <2>1. UNCHANGED <<pc, outcome, age, waiters, box, done, queue, cancelling, bg, passed, fresh, stale, told, rooms>>
    BY <1>1 DEF vars, callVars, bgVars
  <2>2. CallersFit' BY <1>0, <2>1 DEF PatientInv, CallersFit, Active
  <2>3. TimesFit' BY <1>0, <2>1 DEF PatientInv, TimesFit
  <2>4. NewsFit' BY <1>0, <2>1 DEF PatientInv, NewsFit
  <2>5. TwoPeople' /\ AnsweredInTime' BY <1>0, <2>1 DEF PatientInv, TwoPeople, AnsweredInTime
  <2> QED BY <2>2, <2>3, <2>4, <2>5 DEF PatientInv
<1>2. CASE Next
  <2>1. PatientNext BY <1>0, <1>2, PatientSteps
  <2> QED BY <1>0, <2>1, CallersStep, TimesStep, NewsStep, TwoPeopleStep, InTimeStep DEF PatientInv
<1> QED BY <1>1, <1>2

LEMMA QueueInvInit == ASSUME Init PROVE QueueInv
<1>1. Deadline \in Nat BY DEF Deadline
<1>2. /\ pc = [j \in Calls |-> "idle"] /\ outcome = [j \in Calls |-> "none"] /\ age = [j \in Calls |-> 0]
      /\ waiters = [u \in Users |-> NoCall] /\ box = [j \in Calls |-> 0] /\ done = {}
      /\ queue = <<>> /\ fresh = <<>> /\ stale = <<>> /\ told = <<>> /\ rooms = <<>>
      /\ cancelling = [u \in Users |-> "no"] /\ bg = "idle" /\ passed = FALSE /\ cancels = 0 /\ restarts = 0
  BY DEF Init
<1>3. Entries(<<>>) = {} /\ AllDiffer(<<>>) BY DEF Entries, AllDiffer
<1>4. TypeOK
  <2>1. MaxCancels \in Nat /\ MaxRestarts \in Nat OBVIOUS
  <2>2. queue \in Seq(Calls) /\ fresh \in Seq(Calls) /\ stale \in Seq(Calls) /\ rooms \in Seq(SUBSET Calls)
    BY <1>2
  <2>3. told \in Seq(Calls \X (1 .. Len(rooms))) BY <1>2
  <2>4. box \in [Calls -> 0 .. Len(rooms)] BY <1>2
  <2>5. CallTypes BY <1>1, <1>2 DEF CallTypes
  <2>6. cancels \in 0 .. MaxCancels /\ restarts \in 0 .. MaxRestarts BY <1>2, <2>1
  <2>7. waiters \in [Users -> Calls \cup {NoCall}] /\ cancelling \in [Users -> {"no", "locked"} \cup Calls] BY <1>2
  <2> QED BY <1>2, <2>2, <2>3, <2>4, <2>5, <2>6, <2>7 DEF TypeOK, CallTypes
<1>5. EntriesFit BY <1>2, <1>3 DEF EntriesFit, InRoom
<1>6. AnswersFit BY <1>2 DEF AnswersFit
<1>7. OutcomesFit BY <1>2 DEF OutcomesFit
<1>8. ListIsByAge
  <2>1. \A limit \in 1 .. Deadline : Oldest(0, limit) BY <1>2 DEF Oldest
  <2> QED BY <1>2, <2>1 DEF ListIsByAge
<1>9. OneRoomPerEntry /\ RoomIsMine BY <1>2 DEF OneRoomPerEntry, RoomIsMine
<1>10. PatientInv
  <2>1. CallersFit BY <1>2, <1>3 DEF CallersFit, Active
  <2>2. TimesFit BY <1>2, <1>3 DEF TimesFit
  <2>3. NewsFit BY <1>2 DEF NewsFit
  <2>4. TwoPeople /\ AnsweredInTime BY <1>2 DEF TwoPeople, AnsweredInTime
  <2> QED BY <2>1, <2>2, <2>3, <2>4 DEF PatientInv
<1> QED BY <1>4, <1>5, <1>6, <1>7, <1>8, <1>9, <1>10 DEF QueueInv

LEMMA QueueInvStep == ASSUME QueueInv, [Next]_vars PROVE QueueInv'
<1>1. Before /\ (Patient => PatientInv) BY QueueInvIs DEF Before
<1>2. CallTypes /\ ListTypes /\ RoomTypes /\ EntriesInv /\ AnswersInv /\ OutcomesFit /\ ListIsByAge
  BY <1>1 DEF Before
<1>3. CallTypes' BY <1>2, CallTypesStep
<1>4. ListTypes' BY <1>2, ListTypesStep DEF EntriesInv, EntriesFit
<1>5. RoomTypes' BY <1>2, RoomTypesStep
<1>6. EntriesInv' BY <1>2, EntriesStep
<1>7. AnswersInv' BY <1>2, AnswersStep
<1>8. OutcomesFit' BY <1>2, OutcomesStep
<1>9. ListIsByAge' BY <1>2, <1>4, ByAgeStep
<1>10. Patient' => PatientInv' BY <1>1, PatientInvStep
<1>11. TypeOK' BY <1>3, <1>4, <1>5 DEF TypeOK, CallTypes, ListTypes, RoomTypes
<1> QED BY <1>6, <1>7, <1>8, <1>9, <1>10, <1>11 DEF QueueInv, EntriesInv, AnswersInv

LEMMA QueueInvHolds == Spec => []QueueInv
<1>1. Init => QueueInv BY QueueInvInit
<1>2. QueueInv /\ [Next]_vars => QueueInv' BY QueueInvStep
<1> QED BY <1>1, <1>2, PTL DEF Spec

\* The pass always finds a place where to split the list: old entries come before young
\* ones, whatever was pushed, cancelled, served or left over by a restart (processQueue).
THEOREM ListSplitsByAge == Spec => [](\E n \in 0 .. Len(queue) : Oldest(n, FallbackTicks))
<1>1. QueueInv => \E n \in 0 .. Len(queue) : Oldest(n, FallbackTicks)
  <2>1. FallbackTicks \in 1 .. Deadline BY DEF Deadline
  <2> QED BY <2>1 DEF QueueInv, ListIsByAge
<1> QED BY <1>1, QueueInvHolds, PTL

\* Whoever hangs up, cancels or restarts, an entry gets one room at most and a call only
\* ever returns a room of its own; and while nobody does, a room is for different people,
\* all of them are told, and none waits in vain (Join, Cancel, processQueue, notify).
THEOREM CallersAlwaysMeet == Spec => []CallersMeet
<1>1. QueueInv => CallersMeet
  <2> SUFFICES ASSUME QueueInv PROVE CallersMeet OBVIOUS
  <2>1. OneRoomPerEntry /\ RoomIsMine BY DEF QueueInv
  <2>2. ASSUME Patient PROVE TwoPeople /\ AllAreTold /\ AnsweredInTime
    <3>1. PatientInv /\ AnswersFit BY <2>2 DEF QueueInv
    <3>2. AllAreTold
      <4> SUFFICES ASSUME bg = "idle", NEW r \in 1 .. Len(rooms), NEW e \in rooms[r] PROVE box[e] = r
        BY DEF AllAreTold
      <4>1. told = <<>> BY <3>1 DEF AnswersFit
      <4> QED BY <3>1, <4>1 DEF PatientInv, NewsFit
    <3> QED BY <3>1, <3>2 DEF PatientInv
  <2> QED BY <2>1, <2>2 DEF CallersMeet
<1> QED BY <1>1, QueueInvHolds, PTL
=============================================================================
