---------------------------- MODULE SkillProofs ----------------------------
(***************************************************************************)
(* Proofs about Titles and Skill: for titles of any length, what is left   *)
(* of a title when it is normalised is what it says, and nothing else; and *)
(* for any titles, any order of requests, answers, restarts and movements  *)
(* of the player, the skill starts what was named and keeps the place.     *)
(*                                                                         *)
(* Titles are of any length, so their loop needs induction.  It is stated  *)
(* about sets of numbers, which rests on the well-foundedness of <.        *)
(***************************************************************************)
EXTENDS Skill, FiniteSetTheorems, SequenceTheorems, WellFoundedInduction, TLAPS

-----------------------------------------------------------------------------
(* Induction over natural numbers                                          *)

Less == {p \in Nat \X Nat : p[1] < p[2]}

\* A set of numbers that is not empty has a least element.
LEMMA LeastNumber ==
  ASSUME NEW S, S \subseteq Nat, S # {}
  PROVE  \E n \in S : \A m \in S : ~(m < n)
<1>1. OpToRel(<, Nat) = Less
  BY Zenon DEF OpToRel, Less
<1>2. IsWellFoundedOn(Less, Nat)
  BY <1>1, NatLessThanWellFounded, Zenon
<1>3. PICK n \in S : \A m \in S : ~(<<m, n>> \in Less)
  BY <1>2, IsWellFoundedOnSubset, WFMin
<1>4. ASSUME NEW m \in S, m < n PROVE FALSE
  <2>1. <<m, n>> \in Less
    BY <1>4 DEF Less
  <2>2. QED
    BY <1>3, <2>1
<1>5. QED
  BY <1>4

\* A set that contains 0 and with each number the next contains them all.
LEMMA NumberInduction ==
  ASSUME NEW S, 0 \in S, \A n \in Nat : n \in S => n + 1 \in S
  PROVE  Nat \subseteq S
<1> SUFFICES ASSUME Nat \ S # {} PROVE FALSE
  OBVIOUS
<1>1. PICK n \in Nat \ S : \A m \in Nat \ S : ~(m < n)
  BY LeastNumber
<1>2. n # 0 /\ n - 1 \in Nat /\ n - 1 < n /\ (n - 1) + 1 = n
  BY <1>1
<1>3. n - 1 \in S
  BY <1>1, <1>2
<1>4. QED
  BY <1>1, <1>2, <1>3

-----------------------------------------------------------------------------
(* The loop of normalizeTitle                                              *)

\* One round: the character at i, after what earlier rounds have written.
Written(title, i, text) ==
  IF IsLetter(title[i]) THEN Append(text, ToLower(title[i])) ELSE text

\* The first n rounds.
IsLoop(title, n, f) ==
  /\ f = [i \in 0..n |-> f[i]]
  /\ f[0] = <<>>
  /\ \A i \in 1..n : f[i] = Written(title, i, f[i - 1])

\* The loop can be run to any length.
LEMMA LoopExists ==
  ASSUME NEW title PROVE \A n \in Nat : \E f : IsLoop(title, n, f)
<1> DEFINE S == {n \in Nat : \E f : IsLoop(title, n, f)}
<1>1. 0 \in S
  <2> DEFINE f == [i \in 0..0 |-> <<>>]
  <2>1. IsLoop(title, 0, f)
    BY DEF IsLoop
  <2>2. QED
    BY <2>1
<1>2. ASSUME NEW n \in Nat, n \in S PROVE n + 1 \in S
  <2>1. PICK f : IsLoop(title, n, f)
    BY <1>2
  <2> DEFINE g == [i \in 0..(n + 1) |-> IF i <= n THEN f[i] ELSE Written(title, n + 1, f[n])]
  <2>2. \A i \in 0..n : g[i] = f[i]
    OBVIOUS
  <2>3. g[n + 1] = Written(title, n + 1, f[n])
    OBVIOUS
  <2>4. g = [i \in 0..(n + 1) |-> g[i]]
    OBVIOUS
  <2> HIDE DEF g
  <2>5. g[0] = <<>>
    BY <2>1, <2>2 DEF IsLoop
  <2>6. ASSUME NEW i \in 1..(n + 1) PROVE g[i] = Written(title, i, g[i - 1])
    <3>1. CASE i = n + 1
      BY <2>2, <2>3, <3>1
    <3>2. CASE i # n + 1
      <4>1. i \in 1..n /\ i - 1 \in 0..n /\ i \in 0..n
        BY <3>2
      <4>2. QED
        BY <2>1, <2>2, <4>1 DEF IsLoop
    <3>3. QED
      BY <3>1, <3>2
  <2>7. IsLoop(title, n + 1, g)
    BY <2>4, <2>5, <2>6 DEF IsLoop
  <2>8. QED
    BY <2>7
<1> HIDE DEF S
<1>3. Nat \subseteq S
  BY <1>1, <1>2, NumberInduction
<1>4. QED
  BY <1>3 DEF S

\* What Normalized computes is the loop.
LEMMA NormalizedIsLoop ==
  ASSUME NEW title, Len(title) \in Nat
  PROVE  IsLoop(title, Len(title), Normalized(title))
<1> DEFINE n == Len(title)
           Round(f, i) == CASE i = 0 -> <<>>
                            [] i > 0 /\ IsLetter(title[i]) -> Append(f[i - 1], ToLower(title[i]))
                            [] OTHER -> f[i - 1]
<1>1. Normalized(title) = CHOOSE f : f = [i \in 0..n |-> Round(f, i)]
  BY DEF Normalized
<1>2. PICK g : IsLoop(title, n, g)
  BY LoopExists
<1>3. \A f, i : i \in 1..n => Round(f, i) = Written(title, i, f[i - 1])
  BY DEF Written
<1>4. \A f : Round(f, 0) = <<>>
  OBVIOUS
<1> HIDE DEF Round
<1>5. g = [i \in 0..n |-> Round(g, i)]
  <2>1. \A i \in 0..n : g[i] = Round(g, i)
    <3>1. \A i \in 0..n : i = 0 \/ i \in 1..n
      OBVIOUS
    <3>2. QED
      BY <1>2, <1>3, <1>4, <3>1 DEF IsLoop
  <2>2. QED
    BY <1>2, <2>1 DEF IsLoop
<1>6. PICK f : f = Normalized(title) /\ f = [i \in 0..n |-> Round(f, i)]
  BY <1>1, <1>5
<1>7. \A i \in 0..n : f[i] = Round(f, i)
  BY <1>6
<1>8. f = [i \in 0..n |-> f[i]]
  BY <1>6
<1>9. f[0] = <<>> /\ \A i \in 1..n : f[i] = Written(title, i, f[i - 1])
  BY <1>3, <1>4, <1>7
<1>10. QED
  BY <1>6, <1>8, <1>9 DEF IsLoop

-----------------------------------------------------------------------------
(* What is left of a title is what it says                                 *)

Lower == STRING \X {"lower"}

\* A text by position, as Said gives a title's.
Placed(text) == {<<k, text[k][1]>> : k \in 1..Len(text)}

\* The letters of a title up to a place, and how many they are.
Below(title, i) == {j \in LettersIn(title) : j <= i}
Rank(title, i) == Cardinality(Below(title, i))

\* What the title says up to a place.
SaidUpTo(title, n) == {<<Rank(title, i), title[i][1]>> : i \in Below(title, n)}

\* The letters up to a place are those up to the place before and the character
\* at the place, if it is a letter.
LEMMA BelowStep ==
  ASSUME NEW title \in Seq(Character)
  PROVE  /\ Below(title, 0) = {} /\ Rank(title, 0) = 0
         /\ \A n \in 1..Len(title) :
              /\ IsLetter(title[n]) => /\ Below(title, n) = Below(title, n - 1) \cup {n}
                                      /\ Rank(title, n) = Rank(title, n - 1) + 1
              /\ ~IsLetter(title[n]) => Below(title, n) = Below(title, n - 1)
         /\ Below(title, Len(title)) = LettersIn(title)
<1>1. Len(title) \in Nat /\ DOMAIN title = 1..Len(title)
  BY LenProperties
<1>2. \A i : Below(title, i) \subseteq 1..Len(title)
  BY <1>1 DEF Below, LettersIn
<1>3. \A i : IsFiniteSet(Below(title, i))
  <2>1. IsFiniteSet(1..Len(title))
    BY <1>1, FS_Interval
  <2>2. QED
    BY <1>2, <2>1, FS_Subset
<1>4. Below(title, 0) = {}
  BY <1>1 DEF Below, LettersIn
<1>5. Rank(title, 0) = 0
  BY <1>4, FS_EmptySet DEF Rank
<1>6. ASSUME NEW n \in 1..Len(title), IsLetter(title[n])
      PROVE  /\ Below(title, n) = Below(title, n - 1) \cup {n}
             /\ Rank(title, n) = Rank(title, n - 1) + 1
  <2>1. Below(title, n) = Below(title, n - 1) \cup {n} /\ n \notin Below(title, n - 1)
    BY <1>1, <1>6 DEF Below, LettersIn
  <2>2. QED
    BY <1>3, <2>1, FS_AddElement DEF Rank
<1>7. ASSUME NEW n \in 1..Len(title), ~IsLetter(title[n])
      PROVE  Below(title, n) = Below(title, n - 1)
  BY <1>1, <1>7 DEF Below, LettersIn
<1>8. Below(title, Len(title)) = LettersIn(title)
  BY <1>1 DEF Below, LettersIn
<1>9. QED
  BY <1>4, <1>5, <1>6, <1>7, <1>8

\* One more letter of a text takes the next place.
LEMMA PlacedMore ==
  ASSUME NEW text \in Seq(Lower), NEW c \in Lower
  PROVE  Placed(Append(text, c)) = Placed(text) \cup {<<Len(text) + 1, c[1]>>}
<1> DEFINE u == Append(text, c)
<1>1. Len(text) \in Nat
  BY LenProperties
<1>2. /\ Len(u) = Len(text) + 1 /\ u[Len(text) + 1] = c
      /\ \A k \in 1..Len(text) : u[k] = text[k]
  BY AppendProperties
<1> HIDE DEF u
<1>3. 1..Len(u) = (1..Len(text)) \cup {Len(text) + 1}
  BY <1>1, <1>2
<1>4. Placed(u) = {<<k, u[k][1]>> : k \in 1..Len(text)} \cup {<<Len(text) + 1, u[Len(text) + 1][1]>>}
  BY <1>3 DEF Placed
<1>5. {<<k, u[k][1]>> : k \in 1..Len(text)} = Placed(text)
  BY <1>2 DEF Placed
<1>6. QED
  BY <1>2, <1>4, <1>5 DEF u

\* After every round the text is what the title says so far, in lower case.
Faithful(title, n) ==
  LET text == Normalized(title)[n] IN
  /\ text \in Seq(Lower)
  /\ Len(text) = Rank(title, n)
  /\ Placed(text) = SaidUpTo(title, n)

\* By induction over the rounds.
LEMMA LoopIsFaithful ==
  ASSUME NEW title \in Seq(Character)
  PROVE  \A n \in 0..Len(title) : Faithful(title, n)
<1> DEFINE S == {n \in Nat : n <= Len(title) => Faithful(title, n)}
<1>1. Len(title) \in Nat /\ DOMAIN title = 1..Len(title)
  BY LenProperties
<1>2. IsLoop(title, Len(title), Normalized(title))
  BY <1>1, NormalizedIsLoop
<1>3. 0 \in S
  <2>1. Normalized(title)[0] = <<>>
    BY <1>2 DEF IsLoop
  <2>2. <<>> \in Seq(Lower) /\ Len(<<>>) = 0
    BY EmptySeq
  <2>3. Placed(<<>>) = {}
    BY <2>2 DEF Placed
  <2>4. SaidUpTo(title, 0) = {} /\ Rank(title, 0) = 0
    BY BelowStep DEF SaidUpTo
  <2>5. QED
    BY <2>1, <2>2, <2>3, <2>4 DEF Faithful
<1>4. ASSUME NEW m \in Nat, m \in S PROVE m + 1 \in S
  <2> SUFFICES ASSUME m + 1 <= Len(title) PROVE Faithful(title, m + 1)
    OBVIOUS
  <2> DEFINE n == m + 1
             before == Normalized(title)[m]
             after == Normalized(title)[n]
  <2>1. n \in 1..Len(title) /\ n - 1 = m
    BY <1>1
  <2>2. Faithful(title, m)
    BY <1>1, <1>4
  <2>3. after = Written(title, n, before)
    BY <1>2, <2>1 DEF IsLoop
  <2>4. before \in Seq(Lower) /\ Len(before) = Rank(title, m) /\ Placed(before) = SaidUpTo(title, m)
    BY <2>2 DEF Faithful
  <2>5. title[n] \in Character
    BY <2>1, ElementOfSeq
  <2> HIDE DEF n, before, after
  <2>6. CASE IsLetter(title[n])
    <3> DEFINE c == ToLower(title[n])
    <3>1. c \in Lower /\ c[1] = title[n][1]
      BY <2>5 DEF Character, ToLower, Lower
    <3> HIDE DEF c
    <3>2. after = Append(before, c)
      BY <2>3, <2>6 DEF Written, c
    <3>3. after \in Seq(Lower) /\ Len(after) = Len(before) + 1
      BY <2>4, <3>1, <3>2, AppendProperties
    <3>4. Below(title, n) = Below(title, m) \cup {n} /\ Rank(title, n) = Rank(title, m) + 1
      BY <2>1, <2>6, BelowStep
    <3>5. Placed(after) = Placed(before) \cup {<<Rank(title, n), title[n][1]>>}
      <4>1. Placed(Append(before, c)) = Placed(before) \cup {<<Len(before) + 1, c[1]>>}
        BY <2>4, <3>1, PlacedMore
      <4>2. Len(before) + 1 = Rank(title, n)
        BY <2>4, <3>4
      <4>3. QED
        BY <3>1, <3>2, <4>1, <4>2
    <3>6. SaidUpTo(title, n) = SaidUpTo(title, m) \cup {<<Rank(title, n), title[n][1]>>}
      BY <3>4 DEF SaidUpTo
    <3>7. QED
      BY <2>4, <3>3, <3>4, <3>5, <3>6 DEF Faithful, after, n
  <2>7. CASE ~IsLetter(title[n])
    <3>1. after = before
      BY <2>3, <2>7 DEF Written
    <3>2. Below(title, n) = Below(title, m)
      BY <2>1, <2>7, BelowStep
    <3>3. Rank(title, n) = Rank(title, m) /\ SaidUpTo(title, n) = SaidUpTo(title, m)
      BY <3>2 DEF Rank, SaidUpTo
    <3>4. QED
      BY <2>4, <3>1, <3>3 DEF Faithful, after, n
  <2>8. QED
    BY <2>6, <2>7 DEF n
<1> HIDE DEF S
<1>5. Nat \subseteq S
  BY <1>3, <1>4, NumberInduction
<1>6. QED
  BY <1>1, <1>5 DEF S

\* What is left of a title is in lower case and is what the title says.
LEMMA NormalizedSaysTheSame ==
  ASSUME NEW title \in Seq(Character)
  PROVE  NormalizeTitle(title) \in Seq(Lower) /\ Placed(NormalizeTitle(title)) = Said(title)
<1>1. Faithful(title, Len(title))
  BY LoopIsFaithful, LenProperties
<1>2. SaidUpTo(title, Len(title)) = Said(title)
  BY BelowStep DEF SaidUpTo, Said, Rank, Below
<1>3. QED
  BY <1>1, <1>2 DEF Faithful, NormalizeTitle

\* Texts in lower case with the same places are the same.
LEMMA PlacedDetermines ==
  ASSUME NEW s \in Seq(Lower), NEW t \in Seq(Lower), Placed(s) = Placed(t)
  PROVE  s = t
<1>1. Len(s) \in Nat /\ Len(t) \in Nat
  BY LenProperties
<1>2. \A k \in 1..Len(s) : <<k, s[k][1]>> \in Placed(t)
  BY DEF Placed
<1>3. \A k \in 1..Len(t) : <<k, t[k][1]>> \in Placed(s)
  BY DEF Placed
<1>4. \A k \in 1..Len(s) : k \in 1..Len(t) /\ s[k][1] = t[k][1]
  BY <1>2 DEF Placed
<1>5. \A k \in 1..Len(t) : k \in 1..Len(s)
  BY <1>3 DEF Placed
<1>6. Len(s) = Len(t)
  BY <1>1, <1>4, <1>5
<1>7. \A k \in 1..Len(s) : s[k] = t[k]
  <2> SUFFICES ASSUME NEW k \in 1..Len(s) PROVE s[k] = t[k]
    OBVIOUS
  <2>1. s[k] \in Lower /\ t[k] \in Lower
    BY <1>4, ElementOfSeq
  <2>2. \A x, y \in Lower : x[1] = y[1] => x = y
    <3> SUFFICES ASSUME NEW x \in Lower, NEW y \in Lower, x[1] = y[1] PROVE x = y
      OBVIOUS
    <3>1. x = <<x[1], "lower">> /\ y = <<y[1], "lower">>
      BY DEF Lower
    <3>2. QED
      BY <3>1
  <2>3. QED
    BY <1>4, <2>1, <2>2
<1>8. QED
  BY <1>6, <1>7, SeqEqual

-----------------------------------------------------------------------------
(* Theorems about titles                                                   *)

\* Two titles are equal to the skill exactly when they say the same letters in
\* the same order, whatever their case and whatever stands between.
THEOREM EqualWhenSaidTheSame ==
  ASSUME NEW a \in Seq(Character), NEW b \in Seq(Character)
  PROVE  NormalizeTitle(a) = NormalizeTitle(b) <=> Said(a) = Said(b)
BY NormalizedSaysTheSame, PlacedDetermines

\* A title that is usable says something.
LEMMA UsableSaysSomething ==
  ASSUME NEW title \in Seq(Character), TitleUsable(title)
  PROVE  Said(title) # {}
<1>1. <<>> \in Seq(Lower) /\ Len(<<>>) = 0
  BY EmptySeq
<1>2. Placed(<<>>) = {}
  BY <1>1 DEF Placed
<1>3. NormalizeTitle(title) # <<>>
  BY DEF TitleUsable
<1>4. QED
  BY <1>1, <1>2, <1>3, NormalizedSaysTheSame, PlacedDetermines

-----------------------------------------------------------------------------
(* The invariant of the skill                                              *)

Support == {"absent", "null", "object"}
Attributes == {"absent", "awaiting"}

Directives == [type : {"none", "Stop", "Play"}, offset : 0..MaxOffset]

Sayings == {"nothing", "prompt", "only know", "unsupported", "playing", "ask me", "not understood"}

Answers == [says : Sayings, directive : Directives, ends : {"yes", "no", "unset"}, attributes : Attributes]

Voices == [pc : {"asked", "answered"}, kind : Kinds, title : Heard, supports : Support,
           player : Players, attributes : Attributes, prompted : BOOLEAN, answer : Answers]

\* The device: it has our stream only if it can play it, and its session waits for
\* a title exactly when the skill has just asked for one.
DeviceInv ==
  /\ book \in Configured /\ TitleUsable(book)
  /\ supports \in Support
  /\ session \in {"closed"} \cup Attributes
  /\ prompted \in BOOLEAN
  /\ session = "awaiting" <=> prompted
  /\ player \in Players
  /\ player.token = "ours" => supports = "object"

\* A request carries what the device was when it was asked, and its answer is the
\* one that the skill, with the book it has, gives to it.
VoiceInv ==
  /\ voice \in {None} \cup Voices
  /\ voice # None => /\ voice.supports = supports
                     /\ voice.player.token = "ours" => supports = "object"
                     /\ voice.attributes = "awaiting" <=> voice.prompted
                     /\ voice.pc = "answered" => voice.answer = Dispatch(voice)

SkillInv == DeviceInv /\ VoiceInv

-----------------------------------------------------------------------------
(* Answers                                                                 *)

\* An answer says what becomes of the session in one of three ways, and asks for a
\* title in one of them only.
Coherent(answer) ==
  /\ answer \in Answers
  /\ answer.says = "prompt" <=> answer.ends = "no"
  /\ answer.attributes = "awaiting" <=> answer.ends = "no"

\* Speech, the prompt, silence and directives are such answers.
LEMMA AnswersCohere ==
  /\ \A text \in Sayings : text # "prompt" =>
       Coherent(Speech(text)) /\ Speech(text).directive = NoDirective
  /\ Coherent(Empty) /\ Empty.directive = NoDirective
  /\ Coherent(TitlePrompt) /\ TitlePrompt.directive = NoDirective
  /\ \A d \in Directives : LET a == [Empty EXCEPT !.directive = d]
                           IN  Coherent(a) /\ a.directive = d
  /\ \A d \in Directives : LET a == [Speech("playing") EXCEPT !.directive = d]
                           IN  Coherent(a) /\ a.directive = d
<1>1. NoDirective \in Directives
  BY SkillAssumption DEF NoDirective, Directives
<1>2. \A text \in Sayings : text # "prompt" =>
        Coherent(Speech(text)) /\ Speech(text).directive = NoDirective
  <2> SUFFICES ASSUME NEW text \in Sayings, text # "prompt"
               PROVE  Coherent(Speech(text)) /\ Speech(text).directive = NoDirective
    OBVIOUS
  <2>1. Speech(text) \in Answers
    BY <1>1 DEF Answers, Attributes, Speech
  <2>2. /\ Speech(text).says = text /\ Speech(text).ends = "yes"
        /\ Speech(text).attributes = "absent" /\ Speech(text).directive = NoDirective
    BY DEF Speech
  <2>3. QED
    BY <2>1, <2>2 DEF Coherent
<1>3. Coherent(Empty) /\ Empty.directive = NoDirective
  <2>1. Empty \in Answers
    BY <1>1 DEF Answers, Attributes, Sayings, Empty
  <2>2. /\ Empty.says = "nothing" /\ Empty.ends = "unset"
        /\ Empty.attributes = "absent" /\ Empty.directive = NoDirective
    BY DEF Empty
  <2>3. QED
    BY <2>1, <2>2 DEF Coherent
<1>4. Coherent(TitlePrompt) /\ TitlePrompt.directive = NoDirective
  BY <1>1 DEF Coherent, Answers, Attributes, Sayings, TitlePrompt
<1>5. ASSUME NEW answer, Coherent(answer), NEW d \in Directives
      PROVE  LET a == [answer EXCEPT !.directive = d] IN Coherent(a) /\ a.directive = d
  <2> DEFINE a == [answer EXCEPT !.directive = d]
  <2>1. answer \in Answers
    BY <1>5 DEF Coherent
  <2>2. /\ a \in Answers /\ a.directive = d /\ a.says = answer.says
        /\ a.ends = answer.ends /\ a.attributes = answer.attributes
    BY <2>1 DEF Answers
  <2> HIDE DEF a
  <2>3. Coherent(a)
    BY <1>5, <2>2 DEF Coherent
  <2>4. QED
    BY <2>2, <2>3 DEF a
<1>6. Coherent(Speech("playing"))
  BY <1>2 DEF Sayings
<1>7. QED
  BY <1>2, <1>3, <1>4, <1>5, <1>6

\* The directives are of their type.
LEMMA DirectivesTyped ==
  /\ NoDirective \in Directives /\ NoDirective.type = "none"
  /\ StopDirective \in Directives /\ StopDirective.type = "Stop"
  /\ \A n \in 0..MaxOffset : /\ PlayDirective(n) \in Directives
                             /\ PlayDirective(n).type = "Play" /\ PlayDirective(n).offset = n
BY SkillAssumption DEF NoDirective, StopDirective, PlayDirective, Directives

\* Pause and stop: silence, with a stop for our stream.
LEMMA StopFacts ==
  ASSUME NEW v \in Voices
  PROVE  /\ Coherent(StopConfigured(v))
         /\ v.player.token = "ours" => StopConfigured(v).directive = StopDirective
         /\ v.player.token # "ours" => StopConfigured(v).directive = NoDirective
BY AnswersCohere, DirectivesTyped DEF StopConfigured

\* Resume: silence, and our stream goes on where it was paused.
LEMMA ResumeFacts ==
  ASSUME NEW v \in Voices
  PROVE  /\ Coherent(ResumeConfigured(v))
         /\ v.player.token = "ours" /\ v.player.activity = "PAUSED"
              => ResumeConfigured(v).directive = PlayDirective(v.player.offset)
         /\ ~(v.player.token = "ours" /\ v.player.activity = "PAUSED")
              => ResumeConfigured(v).directive = NoDirective
<1>1. v.player.offset \in 0..MaxOffset
  BY DEF Voices, Players
<1>2. QED
  BY <1>1, AnswersCohere, DirectivesTyped DEF ResumeConfigured

\* A request to play starts the book from its beginning if the title is the
\* configured one and the device can play; else something is said.
LEMMA PlayBookFacts ==
  ASSUME NEW v \in Voices
  PROVE  /\ Coherent(PlayBook(v))
         /\ NormalizeTitle(v.title) = NormalizeTitle(book) /\ AudioSupported(v)
              => PlayBook(v).directive = PlayDirective(0)
         /\ ~(NormalizeTitle(v.title) = NormalizeTitle(book) /\ AudioSupported(v))
              => PlayBook(v).directive = NoDirective
<1>1. CASE NormalizeTitle(v.title) # NormalizeTitle(book)
  <2>1. PlayBook(v) = Speech("only know") /\ "only know" \in Sayings
    BY <1>1 DEF PlayBook, Sayings
  <2>2. QED
    BY <1>1, <2>1, AnswersCohere
<1>2. CASE NormalizeTitle(v.title) = NormalizeTitle(book) /\ ~AudioSupported(v)
  <2>1. PlayBook(v) = Speech("unsupported") /\ "unsupported" \in Sayings
    BY <1>2 DEF PlayBook, Sayings
  <2>2. QED
    BY <1>2, <2>1, AnswersCohere
<1>3. CASE NormalizeTitle(v.title) = NormalizeTitle(book) /\ AudioSupported(v)
  <2>1. PlayBook(v) = [Speech("playing") EXCEPT !.directive = PlayDirective(0)]
    BY <1>3 DEF PlayBook
  <2>2. PlayDirective(0) \in Directives
    BY SkillAssumption, DirectivesTyped
  <2>3. QED
    BY <1>3, <2>1, <2>2, AnswersCohere
<1>4. QED
  BY <1>1, <1>2, <1>3

Starts(v) == v.kind = "Play" \/ (v.kind = "Select" /\ v.attributes = "awaiting")

\* Which function answers which request.
LEMMA DispatchFacts ==
  ASSUME NEW v \in Voices
  PROVE  /\ Coherent(Dispatch(v))
         /\ v.kind \in {"Pause", "Stop"} => Dispatch(v) = StopConfigured(v)
         /\ v.kind = "Resume" => Dispatch(v) = ResumeConfigured(v)
         /\ Starts(v) => Dispatch(v) = PlayBook(v)
         /\ ~Starts(v) /\ v.kind \notin {"Pause", "Stop", "Resume"}
              => Dispatch(v).directive = NoDirective
<1>1. v.kind \in Kinds
  BY DEF Voices
<1>2. CASE v.kind \in {"Pause", "Stop"}
  BY <1>2, StopFacts DEF Dispatch, Intent, Intents, Starts
<1>3. CASE v.kind = "Resume"
  BY <1>3, ResumeFacts DEF Dispatch, Intent, Intents, Starts
<1>4. CASE Starts(v)
  BY <1>4, PlayBookFacts DEF Dispatch, Intent, Intents, Starts
<1>5. CASE ~Starts(v) /\ v.kind \notin {"Pause", "Stop", "Resume"}
  <2>1. Dispatch(v) \in {Speech("not understood"), TitlePrompt, Speech("ask me")}
    <3>1. CASE v.kind = "Undecodable"
      BY <3>1 DEF Dispatch, Intents
    <3>2. CASE v.kind = "Launch"
      BY <3>2 DEF Dispatch, Intents
    <3>3. CASE v.kind = "SessionEnded"
      BY <3>3 DEF Dispatch, Intents
    <3>4. CASE v.kind \in {"Other", "Select"}
      <4>1. Intent(v) = Speech("ask me")
        BY <1>5, <3>4 DEF Intent, Starts
      <4>2. QED
        BY <3>4, <4>1 DEF Dispatch, Intents
    <3>5. v.kind \in {"Undecodable", "Launch", "SessionEnded", "Other", "Select"}
      BY <1>1, <1>5 DEF Kinds, Intents, Starts
    <3>6. QED
      BY <3>1, <3>2, <3>3, <3>4, <3>5
  <2>2. "not understood" \in Sayings /\ "ask me" \in Sayings
    BY DEF Sayings
  <2>3. QED
    BY <1>5, <2>1, <2>2, AnswersCohere
<1>6. QED
  BY <1>2, <1>3, <1>4, <1>5

\* No answer plays on a device that cannot.
LEMMA PlaysWhereSupported ==
  ASSUME NEW v \in Voices, v.player.token = "ours" => v.supports = "object",
         Dispatch(v).directive.type = "Play"
  PROVE  v.supports = "object"
<1>1. v.supports \in Support
  BY DEF Voices
<1>2. NoDirective.type # "Play" /\ StopDirective.type # "Play"
  BY DirectivesTyped
<1>3. CASE v.kind \in {"Pause", "Stop"}
  BY <1>2, <1>3, StopFacts, DispatchFacts
<1>4. CASE v.kind = "Resume"
  BY <1>2, <1>4, ResumeFacts, DispatchFacts
<1>5. CASE Starts(v)
  BY <1>1, <1>2, <1>5, PlayBookFacts, DispatchFacts DEF AudioSupported, Support
<1>6. CASE ~Starts(v) /\ v.kind \notin {"Pause", "Stop", "Resume"}
  BY <1>2, <1>6, DispatchFacts
<1>7. QED
  BY <1>3, <1>4, <1>5, <1>6

-----------------------------------------------------------------------------
(* Steps                                                                   *)

\* A fresh device.
LEMMA SkillInitInv == Init => SkillInv
<1> SUFFICES ASSUME Init PROVE SkillInv
  OBVIOUS
<1>1. player.token = "ours" => supports = "object"
  BY DEF Init
<1>2. QED
  BY <1>1 DEF Init, SkillInv, DeviceInv, VoiceInv, Support, Attributes

\* What there is while a request is being answered.
LEMMA VoiceFacts ==
  ASSUME SkillInv, voice.pc \in {"asked", "answered"}
  PROVE  /\ voice \in Voices /\ voice # None
         /\ voice.supports = supports
         /\ voice.player.token = "ours" => supports = "object"
         /\ voice.attributes = "awaiting" <=> voice.prompted
         /\ voice.pc = "answered" => voice.answer = Dispatch(voice)
<1>1. None.pc = "none"
  BY DEF None
<1>2. voice # None
  BY <1>1
<1>3. QED
  BY <1>2 DEF SkillInv, VoiceInv

\* The user asks.
LEMMA AskInv ==
  ASSUME SkillInv, NEW kind \in Kinds, NEW title \in Heard, NEW fresh \in BOOLEAN, Ask(kind, title, fresh)
  PROVE  SkillInv'
<1> DEFINE v == Request(kind, title, fresh)
<1>1. voice' = v /\ UNCHANGED <<book, supports, session, player, prompted>>
  BY DEF Ask
<1>2. DeviceInv'
  BY <1>1 DEF SkillInv, DeviceInv
<1>3. /\ v.pc = "asked" /\ v.supports = supports /\ v.player = player
      /\ v.attributes = "awaiting" <=> v.prompted
      /\ v \in Voices
  <2>1. Empty \in Answers
    BY AnswersCohere DEF Coherent
  <2>2. (prompted /\ ~fresh) \in BOOLEAN
    OBVIOUS
  <2>3. QED
    BY <2>1, <2>2 DEF Request, Voices, SkillInv, DeviceInv, Attributes
<1> HIDE DEF v
<1>4. VoiceInv'
  BY <1>1, <1>3 DEF VoiceInv, SkillInv, DeviceInv
<1>5. QED
  BY <1>2, <1>4 DEF SkillInv

\* Dispatch looks at what the request carries, and not at whether it is answered.
LEMMA DispatchIsStable ==
  ASSUME NEW v \in Voices, NEW a \in Answers
  PROVE  LET w == [v EXCEPT !.pc = "answered", !.answer = a]
         IN  w \in Voices /\ Dispatch(w) = Dispatch(v)
<1> DEFINE w == [v EXCEPT !.pc = "answered", !.answer = a]
<1>1. /\ w \in Voices
      /\ w.kind = v.kind /\ w.title = v.title /\ w.supports = v.supports
      /\ w.player = v.player /\ w.attributes = v.attributes
  BY DEF Voices
<1> HIDE DEF w
<1>2. /\ StopConfigured(w) = StopConfigured(v) /\ ResumeConfigured(w) = ResumeConfigured(v)
      /\ AudioSupported(w) = AudioSupported(v)
  BY <1>1 DEF StopConfigured, ResumeConfigured, AudioSupported
<1>3. PlayBook(w) = PlayBook(v)
  BY <1>1, <1>2 DEF PlayBook
<1>4. Intent(w) = Intent(v)
  BY <1>1, <1>2, <1>3 DEF Intent
<1>5. Dispatch(w) = Dispatch(v)
  BY <1>1, <1>4 DEF Dispatch
<1>6. QED
  BY <1>1, <1>5 DEF w

\* The skill answers.
LEMMA AnswerInv == ASSUME SkillInv, Answer PROVE SkillInv'
<1> DEFINE w == [voice EXCEPT !.pc = "answered", !.answer = Dispatch(voice)]
<1>1. /\ voice.pc = "asked" /\ voice' = w
      /\ UNCHANGED <<book, supports, session, player, prompted>>
  BY DEF Answer
<1>2. DeviceInv'
  BY <1>1 DEF SkillInv, DeviceInv
<1>3. /\ voice \in Voices /\ voice.supports = supports
      /\ voice.player.token = "ours" => supports = "object"
      /\ voice.attributes = "awaiting" <=> voice.prompted
  BY <1>1, VoiceFacts
<1>4. Dispatch(voice) \in Answers
  BY <1>3, DispatchFacts DEF Coherent
<1>5. w \in Voices /\ Dispatch(w) = Dispatch(voice)
  BY <1>3, <1>4, DispatchIsStable
<1>6. /\ w.answer = Dispatch(voice) /\ w.supports = voice.supports /\ w.player = voice.player
      /\ w.attributes = voice.attributes /\ w.prompted = voice.prompted
  BY <1>3 DEF Voices
<1> HIDE DEF w
<1>7. Dispatch(voice)' = Dispatch(w)
  BY <1>1 DEF Dispatch, Intent, PlayBook, StopConfigured, ResumeConfigured, AudioSupported
<1>8. VoiceInv'
  BY <1>1, <1>3, <1>5, <1>6, <1>7 DEF VoiceInv
<1>9. QED
  BY <1>2, <1>8 DEF SkillInv

\* What each directive makes of a player.
LEMMA CarriedFacts ==
  ASSUME NEW p \in Players
  PROVE  /\ Carried(NoDirective, p) = {p}
         /\ \A q \in Carried(StopDirective, p) :
              /\ q \in Players /\ q.token = p.token /\ q.offset = p.offset /\ q.activity # "PLAYING"
         /\ \A n \in 0..MaxOffset : \A q \in Carried(PlayDirective(n), p) :
              /\ q \in Players /\ q.token = "ours" /\ q.offset = n /\ q.activity = "PLAYING"
<1>1. NoDirective.type = "none" /\ StopDirective.type = "Stop"
  BY DirectivesTyped
<1>2. Carried(NoDirective, p) = {p}
  BY <1>1 DEF Carried
<1>3. ASSUME NEW q \in Carried(StopDirective, p)
      PROVE  q \in Players /\ q.token = p.token /\ q.offset = p.offset /\ q.activity # "PLAYING"
  <2>1. CASE p.activity = "PLAYING"
    <3>1. PICK a \in {"PAUSED", "STOPPED"} : q = [p EXCEPT !.activity = a]
      BY <1>1, <1>3, <2>1 DEF Carried
    <3>2. QED
      BY <3>1 DEF Players
  <2>2. CASE p.activity # "PLAYING"
    <3>1. q = p
      BY <1>1, <1>3, <2>2 DEF Carried
    <3>2. QED
      BY <2>2, <3>1
  <2>3. QED
    BY <2>1, <2>2
<1>4. ASSUME NEW n \in 0..MaxOffset, NEW q \in Carried(PlayDirective(n), p)
      PROVE  q \in Players /\ q.token = "ours" /\ q.offset = n /\ q.activity = "PLAYING"
  <2>1. q = [token |-> "ours", activity |-> "PLAYING", offset |-> n]
    BY <1>4, DirectivesTyped DEF Carried
  <2>2. QED
    BY <2>1 DEF Players
<1>5. QED
  BY <1>2, <1>3, <1>4

\* The directive of an answer is one of three; a play starts within the audio.
LEMMA DispatchDirective ==
  ASSUME NEW v \in Voices
  PROVE  \/ Dispatch(v).directive \in {NoDirective, StopDirective}
         \/ \E n \in 0..MaxOffset : Dispatch(v).directive = PlayDirective(n)
<1>1. v.player.offset \in 0..MaxOffset /\ 0 \in 0..MaxOffset
  BY SkillAssumption DEF Voices, Players
<1>2. CASE v.kind \in {"Pause", "Stop"}
  BY <1>2, StopFacts, DispatchFacts
<1>3. CASE v.kind = "Resume"
  BY <1>1, <1>3, ResumeFacts, DispatchFacts
<1>4. CASE Starts(v)
  BY <1>1, <1>4, PlayBookFacts, DispatchFacts
<1>5. CASE ~Starts(v) /\ v.kind \notin {"Pause", "Stop", "Resume"}
  BY <1>5, DispatchFacts
<1>6. QED
  BY <1>2, <1>3, <1>4, <1>5

\* The answer arrives.
LEMMA CarryOutInv == ASSUME SkillInv, CarryOut PROVE SkillInv'
<1> DEFINE answer == voice.answer
<1>1. voice.pc = "answered" /\ voice' = None /\ UNCHANGED <<book, supports>>
  BY DEF CarryOut
<1>2. /\ voice \in Voices /\ voice.supports = supports
      /\ voice.player.token = "ours" => supports = "object"
      /\ answer = Dispatch(voice)
  BY <1>1, VoiceFacts
<1>3. Coherent(answer) /\ (answer.directive.type = "Play" => supports = "object")
  BY <1>2, DispatchFacts, PlaysWhereSupported
<1>4. VoiceInv'
  BY <1>1 DEF VoiceInv
<1>5. player \in Players /\ (player.token = "ours" => supports = "object")
  BY DEF SkillInv, DeviceInv
<1>6. CASE voice.kind = "SessionEnded"
  <2>1. session' = "closed" /\ prompted' = FALSE /\ player' = player
    BY <1>6 DEF CarryOut
  <2>2. DeviceInv'
    BY <1>1, <2>1 DEF SkillInv, DeviceInv
  <2>3. QED
    BY <1>4, <2>2 DEF SkillInv
<1>7. CASE voice.kind # "SessionEnded"
  <2>1. /\ session' \in CASE answer.ends = "yes" -> {"closed"}
                          [] answer.ends = "no" -> {answer.attributes}
                          [] OTHER -> {"closed", answer.attributes}
        /\ prompted' = (answer.says = "prompt")
        /\ player' \in Carried(answer.directive, player)
    BY <1>7 DEF CarryOut
  <2>2. /\ answer.ends \in {"yes", "no", "unset"} /\ answer.attributes \in Attributes
        /\ (answer.says = "prompt") <=> (answer.ends = "no")
        /\ (answer.attributes = "awaiting") <=> (answer.ends = "no")
    BY <1>3 DEF Coherent, Answers
  <2> DEFINE d == answer.directive
  <2>3. player' \in Players /\ (player'.token = "ours" => supports = "object")
    <3>1. d \in {NoDirective, StopDirective} \/ \E n \in 0..MaxOffset : d = PlayDirective(n)
      BY <1>2, DispatchDirective
    <3>2. player' \in Carried(d, player) /\ (d.type = "Play" => supports = "object")
      BY <1>3, <2>1
    <3> HIDE DEF d
    <3>3. CASE d = NoDirective
      BY <1>5, <3>2, <3>3, CarriedFacts
    <3>4. CASE d = StopDirective
      BY <1>5, <3>2, <3>4, CarriedFacts
    <3>5. ASSUME NEW n \in 0..MaxOffset, d = PlayDirective(n)
          PROVE  player' \in Players /\ supports = "object"
      BY <1>5, <3>2, <3>5, CarriedFacts, DirectivesTyped
    <3>6. QED
      BY <3>1, <3>3, <3>4, <3>5
  <2> HIDE DEF answer
  <2>4. session' \in {"closed"} \cup Attributes /\ ((session' = "awaiting") <=> (answer.ends = "no"))
    <3>1. CASE answer.ends = "yes"
      BY <2>1, <3>1 DEF Attributes
    <3>2. CASE answer.ends = "no"
      BY <2>1, <2>2, <3>2 DEF Attributes
    <3>3. CASE answer.ends = "unset"
      BY <2>1, <2>2, <3>3 DEF Attributes
    <3>4. QED
      BY <2>2, <3>1, <3>2, <3>3
  <2>5. prompted' \in BOOLEAN /\ (prompted' <=> (answer.ends = "no"))
    BY <2>1, <2>2
  <2>6. DeviceInv'
    BY <1>1, <2>3, <2>4, <2>5 DEF SkillInv, DeviceInv
  <2>7. QED
    BY <1>4, <2>6 DEF SkillInv
<1>8. QED
  BY <1>6, <1>7

\* The answer is lost.
LEMMA LoseInv == ASSUME SkillInv, Lose PROVE SkillInv'
<1>1. DeviceInv'
  BY DEF Lose, SkillInv, DeviceInv
<1>2. VoiceInv'
  BY DEF Lose, VoiceInv
<1>3. QED
  BY <1>1, <1>2 DEF SkillInv

\* What the player does by itself, and the skill's silence about it: the stream
\* remains, and never goes back.
LEMMA PlayFacts ==
  ASSUME SkillInv, NEW event \in Events, Play(event)
  PROVE  /\ player.token = "ours" /\ player' \in Players
         /\ player'.token = "ours" /\ player'.offset >= player.offset
         /\ UNCHANGED <<book, supports, session, voice, prompted>>
<1>1. /\ player.token = "ours" /\ Moved(event) \in Players
      /\ player' \in Carried(NoDirective, Moved(event))
      /\ UNCHANGED <<book, supports, session, voice, prompted>>
  <2>1. Lifecycle(event).directive = NoDirective
    BY AnswersCohere DEF Lifecycle
  <2>2. QED
    BY <2>1 DEF Play
<1>2. player' = Moved(event)
  BY <1>1, CarriedFacts
<1>3. player \in Players /\ player.offset \in Nat
  BY SkillAssumption DEF SkillInv, DeviceInv, Players
<1>4. Moved(event).token = player.token /\ Moved(event).offset >= player.offset
  <2>1. CASE event = "PlaybackNearlyFinished"
    <3>1. Moved(event) = [player EXCEPT !.offset = player.offset + 1]
      BY <2>1 DEF Moved
    <3>2. QED
      BY <1>3, <3>1 DEF Players
  <2>2. CASE event # "PlaybackNearlyFinished"
    <3>1. \E a \in {"PLAYING", "PAUSED", "FINISHED", "STOPPED"} : Moved(event) = [player EXCEPT !.activity = a]
      BY <2>2 DEF Moved, Events
    <3>2. QED
      BY <1>3, <3>1 DEF Players
  <2>3. QED
    BY <2>1, <2>2
<1>5. QED
  BY <1>1, <1>2, <1>4

\* Movements of the player leave the request that is being answered alone.
LEMMA PlayInv == ASSUME SkillInv, NEW event \in Events, Play(event) PROVE SkillInv'
<1>1. /\ player.token = "ours" /\ player' \in Players
      /\ UNCHANGED <<book, supports, session, voice, prompted>>
  BY PlayFacts
<1>2. DeviceInv'
  BY <1>1 DEF SkillInv, DeviceInv
<1>3. VoiceInv'
  BY <1>1 DEF SkillInv, VoiceInv, Dispatch, Intent, PlayBook, StopConfigured, ResumeConfigured, AudioSupported
<1>4. QED
  BY <1>2, <1>3 DEF SkillInv

\* Another skill plays.
LEMMA InterludeInv == ASSUME SkillInv, Interlude PROVE SkillInv'
<1>1. /\ player' = [token |-> "other", activity |-> "PLAYING", offset |-> 0]
      /\ UNCHANGED <<book, supports, session, voice, prompted>>
  BY DEF Interlude
<1>2. player' \in Players /\ player'.token # "ours"
  BY <1>1, SkillAssumption DEF Players
<1>3. DeviceInv'
  BY <1>1, <1>2 DEF SkillInv, DeviceInv
<1>4. VoiceInv'
  BY <1>1 DEF SkillInv, VoiceInv, Dispatch, Intent, PlayBook, StopConfigured, ResumeConfigured, AudioSupported
<1>5. QED
  BY <1>3, <1>4 DEF SkillInv

\* The service is restarted: nothing that is answered already changes.
LEMMA RestartInv == ASSUME SkillInv, NEW title \in Configured, Restart(title) PROVE SkillInv'
<1>1. /\ voice.pc # "answered" /\ TitleUsable(title) /\ book' = title
      /\ UNCHANGED <<supports, session, player, voice, prompted>>
  BY DEF Restart
<1>2. DeviceInv'
  BY <1>1 DEF SkillInv, DeviceInv
<1>3. VoiceInv'
  BY <1>1 DEF SkillInv, VoiceInv
<1>4. QED
  BY <1>2, <1>3 DEF SkillInv

\* Every step preserves the invariant.
LEMMA SkillNextInv == SkillInv /\ [Next]_vars => SkillInv'
<1> SUFFICES ASSUME SkillInv, [Next]_vars PROVE SkillInv'
  OBVIOUS
<1>1. CASE UNCHANGED vars
  BY <1>1 DEF vars, SkillInv, DeviceInv, VoiceInv, Dispatch, Intent, PlayBook, StopConfigured, ResumeConfigured, AudioSupported
<1>2. QED
  BY <1>1, AskInv, AnswerInv, CarryOutInv, LoseInv, PlayInv, InterludeInv, RestartInv DEF Next

-----------------------------------------------------------------------------
(* Theorems                                                                *)

\* The invariant the properties rest on: what is answered is what the skill, with
\* the book it has, says to what the device was when it asked.
THEOREM SkillInvariant == Spec => []SkillInv
<1>1. QED
  BY SkillInitInv, SkillNextInv, PTL DEF Spec

\* Devices keep their types, and one without an AudioPlayer never gets our stream.
THEOREM SkillTyped == Spec => []SkillTypeOK
<1>1. SkillInv => SkillTypeOK
  <2> SUFFICES ASSUME SkillInv PROVE SkillTypeOK
    OBVIOUS
  <2>1. voice.pc \in {"none", "asked", "answered"}
    BY DEF SkillInv, VoiceInv, Voices, None
  <2>2. QED
    BY <2>1 DEF SkillInv, DeviceInv, SkillTypeOK, Support, Attributes
<1>2. QED
  BY <1>1, SkillInvariant, PTL

\* The book starts exactly when the user named it, on a device that can play it,
\* in a play request or as the answer to the prompt.
THEOREM StartsWhenNamed == Spec => []StartsExactlyWhenNamed
<1>1. SkillInv => StartsExactlyWhenNamed
  <2> SUFFICES ASSUME SkillInv, voice.pc = "answered", voice.kind # "Resume"
               PROVE  voice.answer.directive.type = "Play" <=>
                        /\ Said(voice.title) # {} /\ Said(voice.title) = Said(book)
                        /\ voice.kind = "Play" \/ (voice.kind = "Select" /\ voice.prompted)
                        /\ voice.supports = "object"
    BY DEF StartsExactlyWhenNamed
  <2>1. /\ voice \in Voices /\ voice.answer = Dispatch(voice)
        /\ (voice.attributes = "awaiting") <=> voice.prompted
    BY VoiceFacts
  <2>2. (voice.kind = "Play" \/ (voice.kind = "Select" /\ voice.prompted)) <=> Starts(voice)
    BY <2>1 DEF Starts
  <2>3. (NormalizeTitle(voice.title) = NormalizeTitle(book)) <=>
          (Said(voice.title) # {} /\ Said(voice.title) = Said(book))
    <3>1. voice.title \in Seq(Character) /\ book \in Seq(Character) /\ TitleUsable(book)
      BY <2>1, SkillAssumption DEF Voices, SkillInv, DeviceInv
    <3>2. QED
      BY <3>1, EqualWhenSaidTheSame, UsableSaysSomething
  <2>4. AudioSupported(voice) <=> voice.supports = "object"
    BY <2>1 DEF AudioSupported, Voices, Support
  <2>5. /\ NoDirective.type # "Play" /\ StopDirective.type # "Play"
        /\ PlayDirective(0).type = "Play"
    BY SkillAssumption, DirectivesTyped
  <2>6. CASE voice.kind \in {"Pause", "Stop"}
    <3>1. voice.answer.directive \in {NoDirective, StopDirective} /\ ~Starts(voice)
      BY <2>1, <2>6, StopFacts, DispatchFacts DEF Starts
    <3>2. QED
      BY <2>2, <2>5, <3>1
  <2>7. CASE Starts(voice)
    <3>1. voice.answer = PlayBook(voice)
      BY <2>1, <2>7, DispatchFacts
    <3>2. QED
      BY <2>1, <2>2, <2>3, <2>4, <2>5, <2>7, <3>1, PlayBookFacts
  <2>8. CASE ~Starts(voice) /\ voice.kind \notin {"Pause", "Stop", "Resume"}
    BY <2>1, <2>2, <2>5, <2>8, DispatchFacts
  <2>9. QED
    BY <2>6, <2>7, <2>8
<1>2. QED
  BY <1>1, SkillInvariant, PTL

\* Pause, stop and resume leave other streams alone and keep the place in ours.
THEOREM PlaceIsKept == Spec => TransportKeepsPlace
<1> DEFINE Kept == /\ player'.token = player.token /\ player'.offset = player.offset
                   /\ player.token # "ours" => player' = player
                   /\ player.token = "ours" =>
                        /\ voice.kind = "Resume" /\ player.activity = "PAUSED" => player'.activity = "PLAYING"
                        /\ voice.kind # "Resume" => player'.activity # "PLAYING"
           Transported == /\ voice.pc = "answered" /\ voice' = None
                          /\ voice.kind \in {"Pause", "Stop", "Resume"} /\ player = voice.player
<1>1. ASSUME SkillInv, Next, Transported PROVE Kept
  <2>1. voice \in Voices /\ voice # None /\ voice.answer = Dispatch(voice) /\ player \in Players
    BY <1>1, VoiceFacts DEF SkillInv, DeviceInv
  <2>2. CarryOut
    BY <1>1, <2>1, PlayFacts DEF Next, Ask, Answer, Lose, Interlude, Restart
  <2>3. player' \in Carried(Dispatch(voice).directive, player)
    BY <1>1, <2>1, <2>2 DEF CarryOut
  <2>4. player.offset \in 0..MaxOffset
    BY <2>1 DEF Players
  <2>5. CASE voice.kind \in {"Pause", "Stop"}
    BY <1>1, <2>1, <2>3, <2>5, StopFacts, DispatchFacts, CarriedFacts
  <2>6. CASE voice.kind = "Resume"
    BY <1>1, <2>1, <2>3, <2>4, <2>6, ResumeFacts, DispatchFacts, CarriedFacts
  <2>7. QED
    BY <1>1, <2>5, <2>6
<1>2. SkillInv /\ [Next]_vars => [Transported => Kept]_vars
  BY <1>1
<1>3. QED
  BY SkillInvariant, <1>2, PTL DEF Spec, TransportKeepsPlace

\* Unless the user asked for something, our stream neither starts nor goes back.
THEOREM NothingStartsUnasked == Spec => NeverStartsUnasked
<1> DEFINE Unasked == voice' = voice /\ player'.token = "ours"
           Continues == player.token = "ours" /\ player'.offset >= player.offset
<1>1. ASSUME SkillInv, Next, Unasked PROVE Continues
  <2>1. player \in Players /\ player.offset \in Nat
    BY <1>1, SkillAssumption DEF SkillInv, DeviceInv, Players
  <2>2. CASE player' = player
    BY <1>1, <2>1, <2>2
  <2>3. ASSUME CarryOut PROVE FALSE
    <3>1. voice.pc = "answered" /\ voice' = None
      BY <2>3 DEF CarryOut
    <3>2. QED
      BY <1>1, <3>1, VoiceFacts
  <2>4. ASSUME NEW event \in Events, Play(event) PROVE Continues
    BY <1>1, <2>4, PlayFacts
  <2>5. ASSUME Interlude PROVE FALSE
    BY <1>1, <2>5 DEF Interlude
  <2>6. QED
    BY <1>1, <2>2, <2>3, <2>4, <2>5 DEF Next, Ask, Answer, Lose, Restart
<1>2. SkillInv /\ [Next]_vars => [Unasked => Continues]_vars
  BY <1>1
<1>3. QED
  BY SkillInvariant, <1>2, PTL DEF Spec, NeverStartsUnasked

=============================================================================
