-------------------------- MODULE FreshnessWindow --------------------------
(***************************************************************************)
(* A Verifier's tolerance from construction to verdict: New applies its    *)
(* options in order, then validates; a Verifier literal skips New; and     *)
(* verifyTimestamp judges requests against a wall clock that mostly        *)
(* advances and may be set back.                                           *)
(***************************************************************************)
EXTENDS Freshness

CONSTANTS
  Instants,      \* what the clock and timestamps range over
  Tolerances,    \* what a caller configures
  NoTimestamp    \* an envelope whose timestamp is missing or does not parse

ASSUME InstantsAssumption == Instants \subseteq Int /\ NoTimestamp \notin Int
ASSUME TolerancesAssumption == Tolerances \subseteq Int

VARIABLES
  verifier,      \* "absent", built by "New" or as a "literal", or "refused"
  configured,    \* Verifier.Tolerance
  clock,         \* the wall clock
  verdict        \* the last request judged, when, and what was said of it

windowVars == <<verifier, configured, clock, verdict>>

Requests == [ts : Instants \cup {NoTimestamp}, skillEvent : BOOLEAN]

NoVerdict == [judged |-> FALSE]

Built == verifier \in {"New", "literal"}

-----------------------------------------------------------------------------
(* Construction                                                            *)

\* What the options leave in the field: the last WithTolerance wins.
AfterOptions(opts) == IF opts = <<>> THEN DefaultTolerance ELSE opts[Len(opts)]

WindowInit ==
  /\ verifier = "absent"
  /\ configured = 0
  /\ clock \in Instants
  /\ verdict = NoVerdict

\* Deliberate mistake: New does not clamp.
NewUnclamped(opts) ==
  LET asked == AfterOptions(opts) IN
  /\ verifier = "absent"
  /\ verifier' = IF asked < 0 THEN "refused" ELSE "New"
  /\ configured' = IF asked < 0 THEN configured ELSE asked
  /\ UNCHANGED <<clock, verdict>>

\* New(WithTolerance(opts[1]), ...): a negative tolerance is an error, one
\* above the ceiling is clamped.
New(opts) ==
  LET asked == AfterOptions(opts) IN
  /\ verifier = "absent"
  /\ verifier' = IF asked < 0 THEN "refused" ELSE "New"
  /\ configured' = CASE asked < 0 -> configured
                     [] asked > MaxTolerance -> MaxTolerance
                     [] OTHER -> asked
  /\ UNCHANGED <<clock, verdict>>

\* &Verifier{Tolerance: d}
Literal(d) ==
  /\ verifier = "absent"
  /\ verifier' = "literal"
  /\ configured' = d
  /\ UNCHANGED <<clock, verdict>>

-----------------------------------------------------------------------------
(* Verdicts                                                                *)

\* verifyTimestamp(body, now, tolerance) as a predicate.
Accepts(req, now) ==
  /\ req.ts # NoTimestamp
  /\ Fresh(now, req.ts, Allowed(configured, req.skillEvent))

Judge(req) ==
  /\ Built
  /\ verdict' = [judged |-> TRUE, req |-> req, at |-> clock, ok |-> Accepts(req, clock)]
  /\ UNCHANGED <<verifier, configured, clock>>

\* The clock is external: it advances, or an operator or NTP sets it.
SetClock(t) ==
  /\ clock' = t
  /\ UNCHANGED <<verifier, configured, verdict>>

WindowNext ==
  \/ \E first \in Tolerances : New(<<first>>) \/ Literal(first)
  \/ \E first, second \in Tolerances : New(<<first, second>>)
  \/ New(<<>>)
  \/ \E req \in Requests : Judge(req)
  \/ \E t \in Instants : SetClock(t)

WindowSpec == WindowInit /\ [][WindowNext]_windowVars

-----------------------------------------------------------------------------
(* Properties                                                              *)

\* The types, and what New guarantees of a Verifier it returned.
WindowTypeOK ==
  /\ verifier \in {"absent", "New", "literal", "refused"}
  /\ configured \in Int
  /\ verifier = "New" => configured \in 0..MaxTolerance
  /\ clock \in Instants
  /\ \/ verdict = NoVerdict
     \/ verdict \in [judged : {TRUE}, req : Requests, at : Instants, ok : BOOLEAN]

\* The window that a request of its type is promised, for any configuration:
\* an hour for skill events, at most the ceiling for everything else.
Promised(skillEvent) ==
  IF skillEvent THEN SkillEventTolerance
  ELSE CASE configured \in 1..MaxTolerance -> configured
         [] configured > MaxTolerance -> MaxTolerance
         [] OTHER -> DefaultTolerance

\* A verdict is exact, in both directions and at the boundary, whenever the
\* distance between timestamp and clock is a representable duration; and a
\* request without a usable timestamp is never fresh.
VerdictExact ==
  verdict.judged =>
    /\ verdict.ok => verdict.req.ts # NoTimestamp
    /\ verdict.req.ts # NoTimestamp /\ Distance(verdict.at, verdict.req.ts) <= MaxDuration =>
         (verdict.ok <=> Distance(verdict.at, verdict.req.ts) <= Promised(verdict.req.skillEvent))

\* A request that has grown stale does not become fresh again while the clock
\* advances, however far: this is what makes a recorded request worthless.
PastStaysStale ==
  [][\A req \in Requests :
       /\ Built /\ clock' >= clock
       /\ req.ts # NoTimestamp /\ req.ts <= clock
       /\ ~Accepts(req, clock)
       => ~Accepts(req, clock')]_windowVars

\* What errors.go says of ErrStaleTimestamp: a timestamp that differs from now
\* by more than the tolerance, in either direction, is refused.
AcceptedOnlyInWindow ==
  verdict.judged /\ verdict.ok =>
    Distance(verdict.at, verdict.req.ts) <= Promised(verdict.req.skillEvent)

=============================================================================
