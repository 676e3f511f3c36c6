-------------------------- MODULE MCReconciliation --------------------------
(* Small instances of Reconciliation for TLC. *)
EXTENDS Reconciliation, TLC

CONSTANTS j1, j2, a1, a2

App(s, p, e, exit, sync, x) ==
    [status |-> s, portal |-> p, lastEvent |-> e, sinceExit |-> exit,
     sinceSync |-> sync, expired |-> x]

\* Left days ago and the portal knows; left days ago and the portal does not;
\* differs only in name; expired but in use; nothing wrong; out of scope.
Gone == App("IN_COUNTRY", Unset, "EXIT", 80, Never, FALSE)
StaleRecord == App("IN_COUNTRY", "IN_COUNTRY", "EXIT", 30, 2, FALSE)
Drifted == App("ACTIVE", "EXPIRED", "NONE", Never, 2, FALSE)
LapsedVisa == App("ACTIVE", "ACTIVE", "NONE", Never, 2, TRUE)
Closed == App("CANCELLED", Unset, "NONE", Never, Never, FALSE)

PairFacts == {Gone, Closed}
AllGone == {[a \in Apps |-> Gone]}
PairStarts == (j1 :> {"SCHEDULED", "TARGETED"}) @@ (j2 :> {"TRIGGERED"})

SoloFacts == {Gone, StaleRecord, Drifted, LapsedVisa, Closed}
AnySoloFacts == [Apps -> SoloFacts]
SoloStarts == j1 :> Kinds
=============================================================================
