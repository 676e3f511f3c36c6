--------------------------- MODULE CircuitBreaker ---------------------------
(***************************************************************************)
(* Concurrent callers of CircuitBreaker.execute.  A call is admitted or    *)
(* rejected in one synchronous run up to `await fn()`; its outcome is      *)
(* recorded when the promise settles, in any order with respect to the     *)
(* other calls, the clock and the administrator's reset.                   *)
(***************************************************************************)
EXTENDS BreakerCore, FiniteSets

CONSTANTS
    Callers,       \* concurrent requests that share the breaker
    MaxRequests    \* bound on stats.totalRequests

ASSUME CallerAssumption == IsFiniteSet(Callers) /\ MaxRequests \in Nat

VARIABLES
    running,   \* callers suspended at `await fn()`
    stats,     \* the lifetime counters
    quiet,     \* history: age of the latest trip not cancelled by a reset
    streak     \* history: failures since the last success or reset

callVars == <<breaker, running, stats, quiet, streak>>

Stats == [requests: Nat, successes: Nat, failures: Nat,
          rejected: Nat, opens: Nat]

CallsTypeOK ==
    /\ breaker \in Breaker
    /\ running \subseteq Callers
    /\ stats \in Stats
    /\ quiet \in Age
    /\ streak \in Nat

CallsInit ==
    /\ breaker = NewBreaker
    /\ running = {}
    /\ stats = [requests |-> 0, successes |-> 0, failures |-> 0,
                rejected |-> 0, opens |-> 0]
    /\ quiet = Never
    /\ streak = 0

-----------------------------------------------------------------------------
\* execute(), from the call to `await fn()`: the request is counted and let in.
Admit(c) ==
    /\ c \notin running
    /\ stats.requests < MaxRequests
    /\ CanProceed(breaker)
    /\ breaker' = AfterCanProceed(breaker)
    /\ running' = running \cup {c}
    /\ stats' = [stats EXCEPT !.requests = @ + 1]
    /\ UNCHANGED <<quiet, streak>>

\* execute(), counted and turned away with a CircuitBreakerError.
Reject(c) ==
    /\ c \notin running
    /\ stats.requests < MaxRequests
    /\ ~CanProceed(breaker)
    /\ stats' = [stats EXCEPT !.requests = @ + 1, !.rejected = @ + 1]
    /\ UNCHANGED <<breaker, running, quiet, streak>>

\* The promise of an admitted call resolves.
Succeed(c) ==
    /\ c \in running
    /\ running' = running \ {c}
    /\ breaker' = RecordSuccess(breaker)
    /\ stats' = [stats EXCEPT !.successes = @ + 1]
    /\ streak' = 0
    /\ UNCHANGED quiet

\* The promise of an admitted call is rejected.
Fail(c) ==
    /\ c \in running
    /\ running' = running \ {c}
    /\ breaker' = RecordFailure(breaker)
    /\ stats' = [stats EXCEPT !.failures = @ + 1,
                              !.opens = IF Trips(breaker) THEN @ + 1 ELSE @]
    /\ quiet' = IF Trips(breaker) THEN 0 ELSE quiet
    /\ streak' = streak + 1

\* canProceed() asked on its own, as performSpotCheck does before execute().
Query ==
    /\ breaker' = AfterCanProceed(breaker)
    /\ UNCHANGED <<running, stats, quiet, streak>>

\* POST /icp/reset: calls in flight keep running.
CallsReset ==
    /\ breaker' = Reset(breaker)
    /\ quiet' = Never
    /\ streak' = 0
    /\ UNCHANGED <<running, stats>>

CallsTick ==
    /\ breaker' = Elapse(breaker)
    /\ quiet' = Older(quiet)
    /\ UNCHANGED <<running, stats, streak>>

CallsNext ==
    \/ \E c \in Callers : Admit(c) \/ Reject(c) \/ Succeed(c) \/ Fail(c)
    \/ Query
    \/ CallsReset
    \/ CallsTick

CallsSpec == CallsInit /\ [][CallsNext]_callVars

\* Real time passes; nothing obliges a caller to call or the portal to answer.
FairCallsSpec == CallsSpec /\ WF_callVars(CallsTick)
-----------------------------------------------------------------------------
\* Every request is accounted for exactly once, however the outcomes of
\* concurrent calls, resets and rejections interleave (the numbers shown by
\* GET /icp/status).
StatsConserved ==
    stats.requests = stats.successes + stats.failures + stats.rejected
                        + Cardinality(running)

\* The circuit never stays closed once maxFailures calls in a row, in the
\* order their promises settled, have failed.
ClosedMeansHealthy == breaker.state = "CLOSED" => streak < MaxFailures

\* A closed circuit opens only on maxFailures failures in a row: a success
\* or a reset between them, of whichever caller, starts the count again.
OpensOnlyOnStreak ==
    [][(breaker.state = "CLOSED" /\ breaker'.state = "OPEN")
          => streak' >= MaxFailures]_callVars

\* For a whole cooldown after the circuit trips nobody gets through, unless an
\* administrator resets it: late answers of older calls may lengthen the
\* silence and can never cut it short.
QuietAfterTrip ==
    [][(running' \ running # {}) => quiet \in {Never, Cooldown}]_callVars

\* What ties the object to the history of its callers: the counter is the
\* streak, an open circuit has a failure to date it from, and as long as the
\* silence lasts the circuit is open and its last failure no older than the
\* trip.  This is the strengthening the proofs go through.
BreakerConsistent ==
    /\ breaker.failureCount = streak
    /\ breaker.state = "OPEN" => breaker.failureAge # Never
    /\ quiet \notin {Never, Cooldown} =>
           /\ breaker.state = "OPEN"
           /\ breaker.failureAge <= quiet

CallsGate == INSTANCE PortalGate
          WITH silence <- Silence, admitted <- stats.requests - stats.rejected

\* Callers, late answers, resets and the clock, in whatever order they come,
\* see a gate that once shut stays shut for a cooldown or until a reset.
CallsMeetGate == CallsGate!GateSpec

\* An open circuit always comes to admit a call again: whatever fails late,
\* whenever the reset comes, it cannot be left open for ever.
Recovers == (breaker.state = "OPEN") ~> CanProceed(breaker)
=============================================================================
