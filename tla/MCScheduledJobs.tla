--------------------------- MODULE MCScheduledJobs ---------------------------
(* A small instance of ScheduledJobs for TLC. *)
EXTENDS ScheduledJobs, TLC

CONSTANTS a1, a2

MCRisk == (a1 :> "CRITICAL") @@ (a2 :> "HIGH")
MCChannels == <<"CONSOLE", "WEBHOOK">>
=============================================================================
