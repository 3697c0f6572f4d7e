---------------------------- MODULE MCProbeCall ----------------------------
(***************************************************************************)
(* ProbeCall with a terminator whose beginning repeats.                    *)
(***************************************************************************)
EXTENDS ProbeCall

TestTerminator == <<"a", "a", "b">>

=============================================================================
