---------------------------- MODULE MCICPChecks ----------------------------
(* Small instances of ICPChecks for TLC. *)
EXTENDS ICPChecks

CONSTANTS c1, c2, c3, bad

ThreeChecks == {c1, c2, c3}
ChecksAndBad == {c1, c2, bad}
OnlyBad == {bad}
NoneBad == {}
OnlyC1 == {c1}
OnlyC2 == {c2}
=============================================================================
