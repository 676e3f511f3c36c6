--------------------------- MODULE MCBorderEvents ---------------------------
(* Small instances of BorderEvents for TLC. *)
EXTENDS BorderEvents

CONSTANTS h1, h2, a1, k1
=============================================================================
