--------------------------- MODULE MCOperatorAccess ---------------------------
(* A small instance of OperatorAccess for TLC. *)
EXTENDS OperatorAccess, TLC

CONSTANTS r1, r2, t1, t2

\* Two tabs: one stays on the dashboard, one visits the other pages; those of the
\* applications and the settings are like the dashboard and the passengers.
MCHome == (t1 :> DOMAIN Pages \ {"dashboard", "applications", "settings"})
          @@ (t2 :> {"dashboard"})
=============================================================================
