----------------------------- MODULE Freshness -----------------------------
(***************************************************************************)
(* The freshness check of pkg/alexaverify/timestamp.go and the tolerance   *)
(* that pkg/alexaverify/verify.go resolves for it.                         *)
(*                                                                         *)
(* Instants are integers.  A duration is a signed machine word, here of    *)
(* any width: MaxDuration is the greatest and -MaxDuration - 1 the least.  *)
(* The arithmetic of package time is external: Sub saturates at the ends   *)
(* of the word, and the negation of the least duration is itself.          *)
(***************************************************************************)
EXTENDS Integers, Sequences

CONSTANTS
  MaxDuration,          \* the greatest time.Duration
  DefaultTolerance,     \* defaultTolerance
  MaxTolerance,         \* maxTolerance
  SkillEventTolerance   \* skillEventTolerance

ASSUME ToleranceAssumption ==
  /\ MaxDuration \in Nat
  /\ DefaultTolerance \in 1..MaxTolerance
  /\ MaxTolerance \in 1..(MaxDuration - 1)
  /\ SkillEventTolerance \in 1..(MaxDuration - 1)

MinDuration == -MaxDuration - 1
Durations == MinDuration..MaxDuration

-----------------------------------------------------------------------------
(* Durations                                                               *)

\* Deliberate mistake: a difference that wraps, as plain int64 arithmetic does.
WrappingSub(t, u) ==
  ((t - u + MaxDuration + 1) % (2 * (MaxDuration + 1))) - MaxDuration - 1

\* t.Sub(u)
Sub(t, u) ==
  CASE t - u > MaxDuration -> MaxDuration
    [] t - u < MinDuration -> MinDuration
    [] OTHER -> t - u

\* -d
Negated(d) == IF d = MinDuration THEN MinDuration ELSE -d

\* now.Sub(ts), negated when negative.
Delta(now, ts) ==
  LET delta == Sub(now, ts)
  IN  IF delta < 0 THEN Negated(delta) ELSE delta

-----------------------------------------------------------------------------
(* The tolerance                                                           *)

\* Deliberate mistake: a directly built Verifier's tolerance is taken as it is.
UncheckedTolerance(configured) == configured

\* Verifier.tolerance: what the field of a Verifier, however built, stands for.
Tolerance(configured) ==
  CASE configured <= 0 -> DefaultTolerance
    [] configured > MaxTolerance -> MaxTolerance
    [] OTHER -> configured

\* The window of one request.
Allowed(configured, skillEvent) ==
  IF skillEvent THEN SkillEventTolerance ELSE Tolerance(configured)

\* The comparison at the end of verifyTimestamp, for a timestamp that parsed.
Fresh(now, ts, allowed) == ~(Delta(now, ts) > allowed)

\* The distance the window is meant to bound.
Distance(now, ts) == IF now >= ts THEN now - ts ELSE ts - now

=============================================================================
