---------------------------- MODULE BreakerCore ----------------------------
(***************************************************************************)
(* The circuit breaker of src/automation/CircuitBreaker.ts as operators on *)
(* a record: one operator per method, so that every module that shares the *)
(* singleton icpCircuitBreaker applies the same transitions.               *)
(*                                                                         *)
(* Time is kept as ages: failureAge is the time since lastFailureTime,     *)
(* counted up to Cooldown, beyond which no test of the code can tell ages  *)
(* apart.  Never stands for lastFailureTime = null.  successCount is       *)
(* written and never read, so it is left out; lastStateChange is only      *)
(* displayed.                                                              *)
(***************************************************************************)
EXTENDS Integers

CONSTANTS
    MaxFailures,          \* options.maxFailures
    Cooldown,             \* options.cooldownMs, in clock units
    HalfOpenMaxAttempts   \* options.halfOpenMaxAttempts

ASSUME BreakerAssumption ==
    /\ MaxFailures \in Nat \ {0}
    /\ Cooldown \in Nat \ {0}
    /\ HalfOpenMaxAttempts \in Nat \ {0}

VARIABLE breaker   \* the fields of the object

Never == -1
Age == {Never} \cup (0 .. Cooldown)

\* One unit of time passes for an age.
Older(age) == IF age \in {Never, Cooldown} THEN age ELSE age + 1

Breaker == [state: {"CLOSED", "OPEN", "HALF_OPEN"},
            failureCount: Nat,
            failureAge: Age,
            halfOpenAttempts: Nat]

NewBreaker == [state |-> "CLOSED", failureCount |-> 0,
               failureAge |-> Never, halfOpenAttempts |-> 0]

TransitionTo(b, newState) ==
    [b EXCEPT !.state = newState,
              !.failureCount = IF newState = "CLOSED" THEN 0 ELSE @,
              !.halfOpenAttempts = IF newState = "OPEN" THEN @ ELSE 0]

CooldownElapsed(b) == b.failureAge = Cooldown

\* What canProceed() answers ...
CanProceed(b) ==
    \/ b.state = "CLOSED"
    \/ b.state = "OPEN" /\ CooldownElapsed(b)
    \/ b.state = "HALF_OPEN" /\ b.halfOpenAttempts < HalfOpenMaxAttempts

\* ... and what it leaves behind: the query itself half-opens the circuit.
AfterCanProceed(b) ==
    IF b.state = "OPEN" /\ CooldownElapsed(b)
    THEN TransitionTo(b, "HALF_OPEN")
    ELSE b

\* Mutant: a success closes the circuit from any state.
RecordSuccessAlwaysCloses(b) == TransitionTo(b, "CLOSED")

RecordSuccess(b) ==
    LET cleared == [b EXCEPT !.failureCount = 0]
    IN  IF b.state = "HALF_OPEN" THEN TransitionTo(cleared, "CLOSED") ELSE cleared

\* The failure being recorded moves the circuit (again) to OPEN.
Trips(b) == b.state = "HALF_OPEN" \/ b.failureCount + 1 >= MaxFailures

RecordFailure(b) ==
    LET counted == [b EXCEPT !.failureCount = @ + 1, !.failureAge = 0]
    IN  IF Trips(b) THEN TransitionTo(counted, "OPEN") ELSE counted

\* Mutant: the reset forgets to close the circuit.
ResetCountersOnly(b) == [b EXCEPT !.failureCount = 0, !.failureAge = Never]

Reset(b) == [TransitionTo(b, "CLOSED") EXCEPT !.failureAge = Never]

Elapse(b) == [b EXCEPT !.failureAge = Older(@)]
-----------------------------------------------------------------------------
\* How long the breaker has kept everybody out: it does while the circuit is
\* open.
Silence == IF breaker.state = "OPEN" \/ breaker.failureAge = Never
           THEN breaker.failureAge
           ELSE Cooldown
=============================================================================
