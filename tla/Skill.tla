------------------------------- MODULE Skill -------------------------------
(***************************************************************************)
(* What the skill answers (the dispatch functions of alexa.go), and the    *)
(* device that asks.  The skill keeps no state: the device sends the       *)
(* attributes of its session and a snapshot of its player along with each  *)
(* request, and carries the answer out later, when its player may have     *)
(* moved on.  Playback events are sent and answered at any time, and the   *)
(* service may be restarted with another book.                             *)
(***************************************************************************)
EXTENDS Titles

CONSTANTS
  Configured,   \* titles a descriptor may have
  Heard,        \* values of the title slot; the empty title is a slot not filled
  MaxOffset     \* the length of the audio

ASSUME SkillAssumption ==
  Configured \cup Heard \subseteq Seq(Character) /\ <<>> \in Heard /\ MaxOffset \in Nat

VARIABLES
  book,       \* the configured title
  supports,   \* supportedInterfaces.AudioPlayer of the device
  session,    \* the attributes Alexa keeps for the open session, or "closed"
  player,     \* context.AudioPlayer of the device
  voice,      \* the request of the user that is being answered
  prompted    \* the last answer of this session was the prompt (for the properties)

vars == <<book, supports, session, player, voice, prompted>>

Events == {"PlaybackStarted", "PlaybackStopped", "PlaybackFinished",
           "PlaybackNearlyFinished", "PlaybackFailed"}
Intents == {"Play", "Select", "Pause", "Stop", "Resume", "Other"}
Kinds == Intents \cup {"Launch", "SessionEnded", "Undecodable"}

Players == [token : {"none", "ours", "other"}, offset : 0..MaxOffset,
            activity : {"IDLE", "PLAYING", "PAUSED", "STOPPED", "FINISHED"}]

None == [pc |-> "none"]

-----------------------------------------------------------------------------
(* Answers                                                                 *)

NoDirective == [type |-> "none", offset |-> 0]
StopDirective == [type |-> "Stop", offset |-> 0]
PlayDirective(offset) == [type |-> "Play", offset |-> offset]

\* newAlexaEnvelope: speech that ends the session.
Speech(text) == [says |-> text, directive |-> NoDirective, ends |-> "yes", attributes |-> "absent"]

\* emptyAlexaEnvelope
Empty == [says |-> "nothing", directive |-> NoDirective, ends |-> "unset", attributes |-> "absent"]

\* newTitlePromptEnvelope
TitlePrompt == [says |-> "prompt", directive |-> NoDirective, ends |-> "no", attributes |-> "awaiting"]

\* Deliberate mistake: whatever plays is stopped.
StopAnything(r) == [Empty EXCEPT !.directive = StopDirective]

StopConfigured(r) ==
  IF r.player.token = "ours" THEN [Empty EXCEPT !.directive = StopDirective] ELSE Empty

\* Deliberate mistake: the offset is rounded up.
ResumeAhead(r) ==
  IF r.player.token = "ours" /\ r.player.activity = "PAUSED"
  THEN [Empty EXCEPT !.directive = PlayDirective(r.player.offset + 1)] ELSE Empty

ResumeConfigured(r) ==
  IF r.player.token = "ours" /\ r.player.activity = "PAUSED"
  THEN [Empty EXCEPT !.directive = PlayDirective(r.player.offset)] ELSE Empty

\* Deliberate mistake: a null member counts as support.
MemberPresent(r) == r.supports # "absent"

AudioSupported(r) == r.supports \notin {"absent", "null"}

\* The common end of PlayBookIntent and of an awaited SelectBookIntent.
PlayBook(r) ==
  CASE NormalizeTitle(r.title) # NormalizeTitle(book) -> Speech("only know")
    [] NormalizeTitle(r.title) = NormalizeTitle(book) /\ ~AudioSupported(r) -> Speech("unsupported")
    [] OTHER -> [Speech("playing") EXCEPT !.directive = PlayDirective(0)]

\* Deliberate mistake: a bare title is taken whether or not it was asked for.
IntentUnprompted(r) ==
  CASE r.kind \in {"Pause", "Stop"} -> StopConfigured(r)
    [] r.kind = "Resume" -> ResumeConfigured(r)
    [] r.kind \in {"Play", "Select"} -> PlayBook(r)
    [] OTHER -> Speech("ask me")

\* dispatchIntent
Intent(r) ==
  CASE r.kind \in {"Pause", "Stop"} -> StopConfigured(r)
    [] r.kind = "Resume" -> ResumeConfigured(r)
    [] r.kind = "Play" \/ (r.kind = "Select" /\ r.attributes = "awaiting") -> PlayBook(r)
    [] OTHER -> Speech("ask me")

\* dispatchAlexaRequest, for what is not a playback event
Dispatch(r) ==
  CASE r.kind = "Undecodable" -> Speech("not understood")
    [] r.kind = "Launch" -> TitlePrompt
    [] r.kind \in Intents -> Intent(r)
    [] OTHER -> Speech("ask me")

\* Deliberate mistake: a finished book is offered again.
LifecycleRepeats(event) ==
  IF event = "PlaybackFinished" THEN [Empty EXCEPT !.directive = PlayDirective(0)] ELSE Empty

\* dispatchLifecycle
Lifecycle(event) == Empty

-----------------------------------------------------------------------------
(* The device                                                              *)

\* The title is one that loadBook accepts; a device without an AudioPlayer has
\* nothing of ours to report.
Init ==
  /\ book \in {t \in Configured : TitleUsable(t)}
  /\ supports \in {"absent", "null", "object"}
  /\ session = "closed"
  /\ player \in {p \in Players : /\ (p.activity = "IDLE") <=> (p.token = "none")
                                 /\ p.activity = "IDLE" => p.offset = 0
                                 /\ p.token = "ours" => supports = "object"}
  /\ voice = None
  /\ prompted = FALSE

Request(kind, title, fresh) ==
  [pc |-> "asked", kind |-> kind, title |-> title, supports |-> supports, player |-> player,
   attributes |-> IF fresh \/ session = "closed" THEN "absent" ELSE session,
   prompted |-> prompted /\ ~fresh, answer |-> Empty]

\* The user says something, in the open session or at the start of one.
Ask(kind, title, fresh) ==
  /\ voice = None
  /\ kind = "SessionEnded" => session # "closed"
  /\ title # <<>> => kind \in {"Play", "Select"}
  /\ voice' = Request(kind, title, fresh)
  /\ UNCHANGED <<book, supports, session, player, prompted>>

\* The skill answers.
Answer ==
  /\ voice.pc = "asked"
  /\ voice' = [voice EXCEPT !.pc = "answered", !.answer = Dispatch(voice)]
  /\ UNCHANGED <<book, supports, session, player, prompted>>

\* What a directive makes of the player: Play replaces whatever it has.
Carried(directive, p) ==
  CASE directive.type = "Play" ->
         {[token |-> "ours", activity |-> "PLAYING", offset |-> directive.offset]}
    [] directive.type = "Stop" /\ p.activity = "PLAYING" ->
         {[p EXCEPT !.activity = a] : a \in {"PAUSED", "STOPPED"}}
    [] OTHER -> {p}

\* The answer arrives.  Without a word on the session, Alexa may close it or
\* leave it open, without attributes; an ended session takes no answer.
CarryOut ==
  LET answer == voice.answer IN
  /\ voice.pc = "answered"
  /\ voice' = None
  /\ IF voice.kind = "SessionEnded"
     THEN session' = "closed" /\ prompted' = FALSE /\ UNCHANGED player
     ELSE /\ session' \in CASE answer.ends = "yes" -> {"closed"}
                             [] answer.ends = "no" -> {answer.attributes}
                             [] OTHER -> {"closed", answer.attributes}
          /\ prompted' = (answer.says = "prompt")
          /\ player' \in Carried(answer.directive, player)
  /\ UNCHANGED <<book, supports>>

\* The answer is lost, or comes too late, and Alexa gives the session up.
Lose ==
  /\ voice.pc = "asked"
  /\ voice' = None
  /\ session' = "closed" /\ prompted' = FALSE
  /\ UNCHANGED <<book, supports, player>>

\* How the player comes to send an event about our stream: by itself, or at the
\* touch of a button.
Moved(event) ==
  CASE event = "PlaybackStarted" -> [player EXCEPT !.activity = "PLAYING"]
    [] event = "PlaybackStopped" -> [player EXCEPT !.activity = "PAUSED"]
    [] event = "PlaybackNearlyFinished" -> [player EXCEPT !.offset = player.offset + 1]
    [] event = "PlaybackFinished" -> [player EXCEPT !.activity = "FINISHED"]
    [] event = "PlaybackFailed" -> [player EXCEPT !.activity = "STOPPED"]

\* The player moves and reports it, and carries out the skill's answer.
Play(event) ==
  /\ player.token = "ours"
  /\ player.activity = IF event = "PlaybackStarted" THEN "PAUSED" ELSE "PLAYING"
  /\ Moved(event) \in Players
  /\ player' \in Carried(Lifecycle(event).directive, Moved(event))
  /\ UNCHANGED <<book, supports, session, voice, prompted>>

\* Another skill plays on the device.
Interlude ==
  /\ player.token # "other"
  /\ player' = [token |-> "other", activity |-> "PLAYING", offset |-> 0]
  /\ UNCHANGED <<book, supports, session, voice, prompted>>

\* The service is started anew, perhaps with another book: the device keeps its
\* session and its player, and knows the new stream by the token of the old.
Restart(title) ==
  /\ voice.pc # "answered"
  /\ TitleUsable(title)
  /\ book' = title
  /\ UNCHANGED <<supports, session, player, voice, prompted>>

Next ==
  \/ \E kind \in Kinds, title \in Heard, fresh \in BOOLEAN : Ask(kind, title, fresh)
  \/ Answer \/ CarryOut \/ Lose \/ Interlude
  \/ \E event \in Events : Play(event)
  \/ \E title \in Configured : Restart(title)

Spec == Init /\ [][Next]_vars

-----------------------------------------------------------------------------
(* Properties                                                              *)

\* The types; what the player is told is within the audio, and a device without
\* an AudioPlayer is never made to play ours, by a resume either.
SkillTypeOK ==
  /\ supports # "object" => player.token # "ours"
  /\ supports \in {"absent", "null", "object"}
  /\ session \in {"closed", "absent", "awaiting"}
  /\ player \in Players
  /\ voice.pc \in {"none", "asked", "answered"}
  /\ prompted \in BOOLEAN

\* The book starts exactly when the user named it - its letters, however
\* written - on a device that can play it, in a play request or as the answer to
\* the prompt: not for a slot left empty, whatever title is configured, not for
\* a bare title in another session, and not at a second attempt.
StartsExactlyWhenNamed ==
  voice.pc = "answered" /\ voice.kind # "Resume" =>
    (voice.answer.directive.type = "Play" <=>
       /\ Said(voice.title) # {} /\ Said(voice.title) = Said(book)
       /\ voice.kind = "Play" \/ (voice.kind = "Select" /\ voice.prompted)
       /\ voice.supports = "object")

\* Pause, stop and resume leave other skills' streams alone and keep the place in
\* ours, across restarts of the service as well, unless the player moved between
\* the request and its answer.
TransportKeepsPlace ==
  [][voice.pc = "answered" /\ voice' = None /\ voice.kind \in {"Pause", "Stop", "Resume"}
       /\ player = voice.player =>
     /\ player'.token = player.token /\ player'.offset = player.offset
     /\ player.token # "ours" => player' = player
     /\ player.token = "ours" =>
          /\ voice.kind = "Resume" /\ player.activity = "PAUSED" => player'.activity = "PLAYING"
          /\ voice.kind # "Resume" => player'.activity # "PLAYING"]_vars

\* Unless the user asked for something, our stream neither starts nor goes back.
NeverStartsUnasked ==
  [][voice' = voice /\ player'.token = "ours" =>
       player.token = "ours" /\ player'.offset >= player.offset]_vars

=============================================================================
