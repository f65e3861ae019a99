-------------------------- MODULE FreshnessProofs --------------------------
(***************************************************************************)
(* Proofs about the freshness window for every width of a duration, every  *)
(* set of tolerances and every history of the clock.                       *)
(***************************************************************************)
EXTENDS FreshnessWindow, TLAPS

-----------------------------------------------------------------------------
(* Lemmas about durations                                                  *)

\* Between instants a duration apart, Delta is the distance.
LEMMA DeltaIsDistance ==
  ASSUME NEW now \in Int, NEW ts \in Int, Distance(now, ts) <= MaxDuration
  PROVE  Delta(now, ts) = Distance(now, ts)
BY ToleranceAssumption DEF Delta, Distance, Sub, Negated, MinDuration

\* In the past direction saturation only shortens a distance that is already
\* too long, so the comparison with a tolerance is exact at any distance.
LEMMA PastDelta ==
  ASSUME NEW now \in Int, NEW ts \in Int, ts <= now,
         NEW allowed \in Int, allowed < MaxDuration
  PROVE  Fresh(now, ts, allowed) <=> now - ts <= allowed
BY ToleranceAssumption DEF Fresh, Delta, Sub, Negated, MinDuration

\* The tolerance of a Verifier, however it was built, is positive and at most
\* the ceiling.
LEMMA ToleranceRange ==
  ASSUME NEW d \in Int
  PROVE  Tolerance(d) \in 1..MaxTolerance
BY ToleranceAssumption DEF Tolerance

\* Allowed is the window the request's type is promised.
LEMMA AllowedIsPromised ==
  ASSUME configured \in Int, NEW skillEvent \in BOOLEAN
  PROVE  /\ Allowed(configured, skillEvent) = Promised(skillEvent)
         /\ Allowed(configured, skillEvent) \in Int
         /\ Allowed(configured, skillEvent) < MaxDuration
BY ToleranceAssumption DEF Allowed, Promised, Tolerance

\* One verdict is exact.
LEMMA AcceptsExact ==
  ASSUME configured \in Int, NEW req \in Requests, NEW now \in Instants,
         req.ts # NoTimestamp, Distance(now, req.ts) <= MaxDuration
  PROVE  Accepts(req, now) <=> Distance(now, req.ts) <= Promised(req.skillEvent)
<1>1. req.ts \in Int /\ now \in Int /\ req.skillEvent \in BOOLEAN
  BY InstantsAssumption DEF Requests
<1>2. Accepts(req, now) <=> ~(Delta(now, req.ts) > Allowed(configured, req.skillEvent))
  BY DEF Accepts, Fresh
<1>3. Delta(now, req.ts) = Distance(now, req.ts)
  BY <1>1, DeltaIsDistance
<1>4. Allowed(configured, req.skillEvent) = Promised(req.skillEvent)
      /\ Allowed(configured, req.skillEvent) \in Int
  BY <1>1, AllowedIsPromised
<1>5. Distance(now, req.ts) \in Int
  BY <1>1 DEF Distance
<1>6. QED
  BY <1>2, <1>3, <1>4, <1>5

-----------------------------------------------------------------------------
(* The invariant                                                           *)

\* Construction fixes the configuration before the first verdict, so that the
\* window a verdict was given under is still the configured one.
WindowInv ==
  /\ WindowTypeOK
  /\ VerdictExact
  /\ verdict.judged => Built

\* The inductive step, one action at a time.
LEMMA WindowStep == WindowInv /\ [WindowNext]_windowVars => WindowInv'
<1> SUFFICES ASSUME WindowInv, [WindowNext]_windowVars PROVE WindowInv'
  OBVIOUS
<1> USE DEF WindowInv
<1>1. ASSUME verifier = "absent", UNCHANGED <<clock, verdict>>, configured' \in Int,
             verifier' \in {"New", "literal", "refused"},
             verifier' = "New" => configured' \in 0..MaxTolerance
      PROVE  WindowInv'
  <2>1. verdict = NoVerdict
    BY <1>1 DEF WindowTypeOK, Built
  <2>2. WindowTypeOK'
    BY <1>1, <2>1 DEF WindowTypeOK
  <2>3. ~verdict'.judged
    BY <1>1, <2>1 DEF NoVerdict
  <2>4. QED
    BY <2>2, <2>3 DEF VerdictExact
<1>2. ASSUME NEW opts \in Seq(Tolerances), New(opts) PROVE WindowInv'
  <2>1. AfterOptions(opts) \in Int
    <3>1. CASE opts = <<>>
      BY <3>1, ToleranceAssumption DEF AfterOptions
    <3>2. CASE opts # <<>>
      <4>1. Len(opts) \in Nat \ {0} /\ Len(opts) \in 1..Len(opts)
        BY <1>2, <3>2
      <4>2. opts[Len(opts)] \in Tolerances
        BY <1>2, <4>1
      <4>3. QED
        BY <3>2, <4>2, TolerancesAssumption DEF AfterOptions
    <3>3. QED
      BY <3>1, <3>2
  <2>2. configured \in Int
    BY DEF WindowTypeOK
  <2>3. QED
    BY <1>1, <1>2, <2>1, <2>2, ToleranceAssumption DEF New
<1>3. ASSUME NEW d \in Tolerances, Literal(d) PROVE WindowInv'
  BY <1>1, <1>3, TolerancesAssumption DEF Literal
<1>4. ASSUME NEW req \in Requests, Judge(req) PROVE WindowInv'
  <2>1. /\ Built
        /\ verdict' = [judged |-> TRUE, req |-> req, at |-> clock, ok |-> Accepts(req, clock)]
        /\ UNCHANGED <<verifier, configured, clock>>
    BY <1>4 DEF Judge
  <2>2. clock \in Instants /\ configured \in Int
    BY DEF WindowTypeOK
  <2>3. Accepts(req, clock) \in BOOLEAN
    BY DEF Accepts, Fresh
  <2>4. WindowTypeOK'
    BY <2>1, <2>2, <2>3 DEF WindowTypeOK
  <2>5. Promised(req.skillEvent)' = Promised(req.skillEvent)
    BY <2>1 DEF Promised
  <2>6. VerdictExact'
    BY <2>1, <2>2, <2>5, AcceptsExact DEF VerdictExact, Promised, Accepts
  <2>7. Built'
    BY <2>1 DEF Built
  <2>8. QED
    BY <2>4, <2>6, <2>7
<1>5. ASSUME NEW t \in Instants, SetClock(t) PROVE WindowInv'
  BY <1>5 DEF SetClock, WindowTypeOK, VerdictExact, Promised, Built
<1>6. CASE UNCHANGED windowVars
  BY <1>6 DEF windowVars, WindowTypeOK, VerdictExact, Promised, Built
<1>7. CASE WindowNext
  <2>1. \A a, b \in Tolerances : <<>> \in Seq(Tolerances) /\ <<a>> \in Seq(Tolerances)
                                  /\ <<a, b>> \in Seq(Tolerances)
    OBVIOUS
  <2>2. <<>> \in Seq(Tolerances)
    OBVIOUS
  <2>3. QED
    BY <1>2, <1>3, <1>4, <1>5, <1>7, <2>1, <2>2 DEF WindowNext
<1>8. QED
  BY <1>6, <1>7

-----------------------------------------------------------------------------
(* Theorems                                                                *)

\* The invariant holds however a Verifier is built and the clock is set.
LEMMA WindowInvHolds == WindowSpec => []WindowInv
<1>1. WindowInit => WindowInv
  BY DEF WindowInit, WindowInv, WindowTypeOK, VerdictExact, NoVerdict
<1>2. QED
  BY <1>1, WindowStep, PTL DEF WindowSpec

\* New never returns a Verifier whose tolerance is negative or exceeds the
\* ceiling.
THEOREM WindowTyped == WindowSpec => []WindowTypeOK
<1>1. WindowInv => WindowTypeOK
  BY DEF WindowInv
<1>2. QED
  BY <1>1, WindowInvHolds, PTL

\* Every verdict on a timestamp within the range of a duration is exact.
THEOREM VerdictsExact == WindowSpec => []VerdictExact
<1>1. WindowInv => VerdictExact
  BY DEF WindowInv
<1>2. QED
  BY <1>1, WindowInvHolds, PTL

\* A stale request stays stale however far the clock advances: saturation cannot
\* bring it back.
THEOREM StaleForGood == WindowSpec => PastStaysStale
<1> DEFINE StaysStale(req) ==
      /\ Built /\ clock' >= clock
      /\ req.ts # NoTimestamp /\ req.ts <= clock
      /\ ~Accepts(req, clock)
      => ~Accepts(req, clock')
<1>1. ASSUME WindowTypeOK, WindowTypeOK', [WindowNext]_windowVars, NEW req \in Requests
      PROVE  StaysStale(req)
  <2> SUFFICES ASSUME clock' >= clock, req.ts # NoTimestamp, req.ts <= clock,
                      ~Accepts(req, clock)
               PROVE  ~Accepts(req, clock')
    OBVIOUS
  <2>1. req.ts \in Int /\ clock \in Int /\ clock' \in Int
        /\ req.skillEvent \in BOOLEAN /\ configured \in Int
    BY <1>1, InstantsAssumption DEF Requests, WindowTypeOK
  <2> DEFINE a == Allowed(configured, req.skillEvent)
  <2>2. a \in Int /\ a < MaxDuration
    BY <2>1, AllowedIsPromised
  <2>3. ~(clock - req.ts <= a)
    BY <2>1, <2>2, PastDelta DEF Accepts
  <2>4. ~(clock' - req.ts <= a)
    BY <2>1, <2>2, <2>3
  <2>5. req.ts <= clock'
    BY <2>1
  <2> HIDE DEF a
  <2>6. ~Fresh(clock', req.ts, a)
    BY <2>1, <2>2, <2>4, <2>5, PastDelta
  <2>7. QED
    BY <2>6 DEF Accepts, a
<1>2. WindowTypeOK /\ WindowTypeOK' /\ [WindowNext]_windowVars =>
        [\A req \in Requests : StaysStale(req)]_windowVars
  BY <1>1
<1>3. QED
  BY <1>2, WindowTyped, PTL DEF WindowSpec, PastStaysStale

=============================================================================
