---------------------------- MODULE GhostScore ----------------------------
(***************************************************************************)
(* What one reconciliation check decides about an application, as a        *)
(* function of the facts it was read with: calculateGhostScore, and the    *)
(* four checks of reconcileApplication.  Times are ages in whole hours.    *)
(***************************************************************************)
EXTENDS Integers

CONSTANTS
    GhostThresholdHours,   \* DEFAULT_CONFIG.ghostThresholdHours
    AutoResolveThreshold   \* DEFAULT_CONFIG.autoResolveThreshold

ASSUME ConfigAssumption ==
    GhostThresholdHours \in Nat /\ AutoResolveThreshold \in 0 .. 25

Never == -1       \* no exit scanned, no sync done
Unset == "UNSET"  \* neither portalStatus nor icpStatus is stored

StatusNames == {"PENDING", "APPROVED", "REJECTED", "ACTIVE", "EXPIRED",
                "CANCELLED", "IN_COUNTRY", "EXITED"}

\* An application as the engine's findMany returns it: its status, what is
\* stored of the portal's, its latest border event, the age of its latest
\* exit and of its last sync, and whether its expiry date has passed.
Fact == [status: StatusNames, portal: StatusNames \cup {Unset},
         lastEvent: {"NONE", "ENTRY", "EXIT"},
         sinceExit: Nat \cup {Never}, sinceSync: Nat \cup {Never},
         expired: BOOLEAN]

Reconciled(f) == f.status \in {"ACTIVE", "IN_COUNTRY", "EXITED"}
ExpiredInUse(f) == f.expired /\ f.status \in {"ACTIVE", "IN_COUNTRY"}

SimulatePortalStatus(f) ==
    CASE f.lastEvent = "EXIT" -> "EXITED"
      [] f.lastEvent = "ENTRY" -> "IN_COUNTRY"
      [] f.lastEvent = "NONE" /\ f.expired -> "EXPIRED"
      [] OTHER -> f.status

PortalStatus(f) == IF f.portal = Unset THEN SimulatePortalStatus(f) ELSE f.portal

Points(condition, points) == IF condition THEN points ELSE 0
Capped(n) == IF n > 100 THEN 100 ELSE n

CalculateGhostScore(f) ==
    Capped(Points(f.status = "IN_COUNTRY" /\ f.sinceExit > 24, 40)
           + Points(f.status = "IN_COUNTRY" /\ f.sinceExit > 72, 30)
           + Points(f.status # PortalStatus(f), 25)
           + Points(f.sinceSync > 12, 20)
           + Points(f.sinceSync = Never, 15)
           + Points(ExpiredInUse(f), 30))

RiskLevel(score) ==
    CASE score >= 80 -> "CRITICAL"
      [] score < 80 /\ score >= 60 -> "HIGH"
      [] score < 60 /\ score >= 40 -> "MEDIUM"
      [] OTHER -> "LOW"

\* The checks, in the order of the code: each excludes the ones after it.
Differs(f) == f.status # PortalStatus(f)
Stale(f) ==
    /\ ~Differs(f)
    /\ f.status = "IN_COUNTRY" /\ f.lastEvent = "EXIT"
    /\ f.sinceExit > GhostThresholdHours
Lapsed(f) == ~Differs(f) /\ ~Stale(f) /\ ExpiredInUse(f)

IsMismatch(f) == Differs(f) \/ Stale(f) \/ Lapsed(f)
IsGhost(f) == Stale(f) \/ (Differs(f) /\ CalculateGhostScore(f) >= 40)
AutoResolves(f) == Differs(f) /\ CalculateGhostScore(f) < AutoResolveThreshold

\* The score written in the mismatch row.
RowScore(f) ==
    CASE Differs(f) -> CalculateGhostScore(f)
      [] Stale(f) -> 65 + Points(f.sinceExit > 72, 30)
      [] OTHER -> 30
RowRisk(f) == IF Lapsed(f) THEN "HIGH" ELSE RiskLevel(RowScore(f))
=============================================================================
