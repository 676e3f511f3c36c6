----------------------------- MODULE SpotChecks -----------------------------
(***************************************************************************)
(* ICPSpotCheckService.performSpotCheck and its sliding-window limiter.    *)
(* executeSpotCheck never waits for anything, so a spot check runs from    *)
(* the limiter's test to rateLimiter.record() before any other request is  *)
(* served: it is one step.  It always answers CAPTCHA_REQUIRED, which the  *)
(* breaker takes for a success, and updateApplicationStatus is not reached.*)
(***************************************************************************)
EXTENDS BreakerCore, Sequences

CONSTANTS
    Hour,           \* 3600000 ms
    MinInterval,    \* minIntervalMs
    MaxSpots        \* maxPerHour

VARIABLE
    stamps      \* ages of rateLimiter.timestamps, oldest first

SpotInit == stamps = <<>>

LimiterAllows ==
    /\ Len(stamps) < MaxSpots
    /\ stamps # <<>> => stamps[Len(stamps)] >= MinInterval

\* Mutant: the breaker is not asked.
SpotCheckUnguarded ==
    /\ LimiterAllows
    /\ breaker' = RecordSuccess(AfterCanProceed(breaker))
    /\ stamps' = Append(stamps, 0)

\* Admitted by the limiter, canProceed and execute; answered; recorded.
SpotCheck ==
    /\ LimiterAllows
    /\ CanProceed(breaker)
    /\ breaker' = RecordSuccess(AfterCanProceed(breaker))
    /\ stamps' = Append(stamps, 0)

\* Entries an hour old are filtered out before they can be counted.
SpotElapse ==
    LET kept == SelectSeq(stamps, LAMBDA a : a + 1 < Hour)
    IN  stamps' = [i \in 1 .. Len(kept) |-> kept[i] + 1]
=============================================================================
