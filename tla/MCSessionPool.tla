--------------------------- MODULE MCSessionPool ---------------------------
(* A small instance of SessionPool for TLC. *)
EXTENDS SessionPool, TLC

CONSTANTS w1, w2, w3, p1, p2, a1

\* Two workers side by side in a process, one in another.
MCHome == (w1 :> p1) @@ (w2 :> p1) @@ (w3 :> p2)
OneAccount == <<a1>>
=============================================================================
