---------------------------- MODULE MCICPPortal ----------------------------
(* A small instance of ICPPortal for TLC. *)
EXTENDS ICPPortal

CONSTANTS c1, bad1, bad2

MCChecks == {c1, bad1, bad2}
MCMalformed == {bad1, bad2}
MCNoRecord == {c1}
MCUnreadable == {}
=============================================================================
