----------------------------- MODULE PortalGate -----------------------------
(***************************************************************************)
(* What the circuit breaker promises to the ICP portal, whatever its       *)
(* callers do: the gate is shut from time to time, nobody passes a shut    *)
(* gate, and it stays shut for a whole cooldown after it was last shut     *)
(* unless an administrator overrides it.  CircuitBreaker and ICPPortal are *)
(* shown to implement it.                                                  *)
(***************************************************************************)
EXTENDS Integers

CONSTANT Cooldown

VARIABLES
    silence,    \* time since the gate was last shut, up to Cooldown, or
                \* -1 while an override leaves no failure on record
    admitted    \* calls let through so far

gateVars == <<silence, admitted>>

GateInit == silence = -1 /\ admitted = 0

Pass == silence \in {-1, Cooldown} /\ admitted' = admitted + 1 /\ UNCHANGED silence

Shut == silence' = 0 /\ UNCHANGED admitted

Override == silence' = -1 /\ UNCHANGED admitted

\* A failure too few to shut the gate ends the effect of an override.
Forget == silence = -1 /\ silence' = Cooldown /\ UNCHANGED admitted

Wait == silence \in 0 .. Cooldown - 1 /\ silence' = silence + 1 /\ UNCHANGED admitted

GateNext == Pass \/ Shut \/ Override \/ Forget \/ Wait

GateSpec == GateInit /\ [][GateNext]_gateVars
=============================================================================
