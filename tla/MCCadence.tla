----------------------------- MODULE MCCadence -----------------------------
(***************************************************************************)
(* Cadence with two tiers instead of three: the backoff is 1, 2 or 4.      *)
(***************************************************************************)
EXTENDS Cadence

TestTiers == <<1, 3>>
TestMultipliers == <<1, 2, 4>>

=============================================================================
