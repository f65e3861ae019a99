------------------------- MODULE MCFreshnessWindow -------------------------
(***************************************************************************)
(* FreshnessWindow with a four-bit duration and instants further apart     *)
(* than it can hold, as years 0000 to 9999 are for the 292 years of a      *)
(* time.Duration.  Timestamps of every kind meet a clock on either side.   *)
(***************************************************************************)
EXTENDS FreshnessWindow

MCInstants == 0..10
MCTolerances == {-1, 0, 1, 4}

=============================================================================
