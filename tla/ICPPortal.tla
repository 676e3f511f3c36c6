----------------------------- MODULE ICPPortal -----------------------------
(***************************************************************************)
(* Everything that goes through the singleton icpCircuitBreaker: passport  *)
(* checks (ICPChecks, whose variables these are) and operators' spot       *)
(* checks (SpotChecks), in one process and on one clock.                   *)
(***************************************************************************)
EXTENDS ICPChecks

CONSTANTS MinInterval, MaxSpots,
          MaxSpotChecks     \* bound on the spot checks of a behaviour

ASSUME PortalAssumption ==
    /\ IsFiniteSet(Checks)
    /\ MinInterval \in Nat
    /\ MaxSpots \in Nat \ {0}
    /\ MaxSpotChecks \in Nat

VARIABLES stamps,
          spots         \* history: spot checks let through

Spot == INSTANCE SpotChecks

portalVars == <<breaker, checkVars, stamps, spots>>

PortalInit == Init /\ Spot!SpotInit /\ spots = 0

\* A request to /icp/check, /icp/check-batch, /icp/shutdown or /icp/reset.
FetchStep ==
    /\ \/ \E c \in Checks : Refuse(c) \/ Start(c) \/ Progress(c)
       \/ OperatorSearches \/ Shutdown \/ AdminReset \/ PortalToggles
    /\ UNCHANGED <<stamps, spots>>

\* POST /ghosts/:id/spot-check.
SpotStep ==
    /\ spots < MaxSpotChecks
    /\ Spot!SpotCheck
    /\ spots' = spots + 1
    /\ UNCHANGED checkVars

PortalTick == Tick /\ Spot!SpotElapse /\ UNCHANGED spots

PortalNext == FetchStep \/ SpotStep \/ PortalTick

PortalSpec == PortalInit /\ [][PortalNext]_portalVars
-----------------------------------------------------------------------------
Started == {c \in Checks : pc[c] # "idle"}

Gate == INSTANCE PortalGate
          WITH silence <- Silence, admitted <- Cardinality(Started) + spots

\* Checks and spot checks share one gate: once the circuit has opened neither
\* gets through for a cooldown, short of an administrator's reset.
ImplementsGate == Gate!GateSpec
=============================================================================
