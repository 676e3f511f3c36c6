------------------------ MODULE CircuitBreakerProofs ------------------------
(***************************************************************************)
(* The circuit breaker and everybody who goes through it, for any number   *)
(* of callers, threshold, cooldown and bound: the calls of execute, the    *)
(* checks and spot checks of the portal, what the breaker promises the     *)
(* portal, and what the limiter and the page of the checks promise.        *)
(***************************************************************************)
EXTENDS CircuitBreaker, ICPPortal, FiniteSetTheorems, SequenceTheorems, TLAPS

(* The methods of the object.                                               *)

LEMMA TransitionTyped ==
    ASSUME NEW b \in Breaker, NEW s \in {"CLOSED", "OPEN", "HALF_OPEN"}
    PROVE  TransitionTo(b, s) \in Breaker
BY DEF TransitionTo, Breaker

\* Every method of the object returns a well-formed object.
LEMMA MethodsTyped ==
    ASSUME NEW b \in Breaker
    PROVE  /\ AfterCanProceed(b) \in Breaker
           /\ RecordSuccess(b) \in Breaker
           /\ RecordFailure(b) \in Breaker
           /\ Reset(b) \in Breaker
           /\ Elapse(b) \in Breaker
<1> USE BreakerAssumption
<1>2. AfterCanProceed(b) \in Breaker
  BY TransitionTyped DEF AfterCanProceed
<1>3. RecordSuccess(b) \in Breaker
  BY DEF RecordSuccess, TransitionTo, Breaker
<1>4. RecordFailure(b) \in Breaker
  <2> DEFINE counted == [b EXCEPT !.failureCount = @ + 1, !.failureAge = 0]
  <2>1. b.failureCount + 1 \in Nat /\ 0 \in Age
    BY DEF Breaker, Age
  <2>2. counted \in Breaker
    BY <2>1 DEF Breaker
  <2>3. TransitionTo(counted, "OPEN") \in Breaker
    BY <2>2, TransitionTyped
  <2>4. RecordFailure(b) = IF Trips(b) THEN TransitionTo(counted, "OPEN") ELSE counted
    BY DEF RecordFailure
  <2>5. QED
    BY <2>2, <2>3, <2>4
<1>5. Reset(b) \in Breaker
  BY DEF Reset, TransitionTo, Breaker, Age, Never
<1>6. Elapse(b) \in Breaker
  BY DEF Elapse, Older, Breaker, Age, Never
<1>7. QED
  BY <1>2, <1>3, <1>4, <1>5, <1>6

\* An age never moves past the cooldown nor back.
LEMMA OlderTyped ==
    ASSUME NEW a \in Age
    PROVE  /\ Older(a) \in Age
           /\ Older(a) = Never <=> a = Never
           /\ a # Never => a <= Older(a)
BY BreakerAssumption DEF Older, Age, Never

\* The silence that a breaker keeps.
SilenceOf(b) == IF b.state = "OPEN" \/ b.failureAge = Never THEN b.failureAge ELSE Cooldown

\* An open circuit has a failure to date it from.
Sound(b) == b \in Breaker /\ (b.state = "OPEN" => b.failureAge # Never)

\* Whoever canProceed lets through finds the gate open and leaves it open.
LEMMA AdmittedPasses ==
    ASSUME NEW b, Sound(b), CanProceed(b)
    PROVE  /\ SilenceOf(b) \in {Never, Cooldown}
           /\ Sound(AfterCanProceed(b))
           /\ SilenceOf(AfterCanProceed(b)) = SilenceOf(b)
           /\ AfterCanProceed(b).state # "OPEN"
BY BreakerAssumption
   DEF Sound, SilenceOf, CanProceed, CooldownElapsed, AfterCanProceed, TransitionTo,
       Breaker, Age, Never

\* A success that comes late does not open the gate.
LEMMA SuccessKeepsSilence ==
    ASSUME NEW b, Sound(b)
    PROVE  Sound(RecordSuccess(b)) /\ SilenceOf(RecordSuccess(b)) = SilenceOf(b)
BY BreakerAssumption DEF Sound, SilenceOf, RecordSuccess, TransitionTo, Breaker, Age, Never

\* A failure shuts the gate, or the gate was open and stays so.
LEMMA FailureShuts ==
    ASSUME NEW b, Sound(b)
    PROVE  /\ Sound(RecordFailure(b))
           /\ \/ SilenceOf(RecordFailure(b)) = 0
              \/ SilenceOf(RecordFailure(b)) = Cooldown /\ SilenceOf(b) \in {Never, Cooldown}
<1> DEFINE counted == [b EXCEPT !.failureCount = @ + 1, !.failureAge = 0]
<1>1. /\ counted \in Breaker
      /\ counted.failureAge = 0 /\ counted.state = b.state
  <2>1. b.failureCount + 1 \in Nat /\ 0 \in Age
    BY BreakerAssumption DEF Sound, Breaker, Age
  <2>2. QED
    BY <2>1 DEF Sound, Breaker
<1>2. RecordFailure(b) = IF Trips(b) THEN TransitionTo(counted, "OPEN") ELSE counted
  BY DEF RecordFailure
<1> HIDE DEF counted
<1>3. CASE Trips(b)
  <2>1. TransitionTo(counted, "OPEN") \in Breaker
    BY <1>1 DEF TransitionTo, Breaker
  <2>2. /\ TransitionTo(counted, "OPEN").state = "OPEN"
        /\ TransitionTo(counted, "OPEN").failureAge = 0
    BY <1>1 DEF TransitionTo, Breaker
  <2>3. QED
    BY <1>2, <1>3, <2>1, <2>2 DEF Sound, SilenceOf, Never
<1>4. CASE ~Trips(b)
  BY <1>1, <1>2, <1>4 DEF Sound, SilenceOf, Never
<1>5. QED
  BY <1>3, <1>4

LEMMA ResetOverrides ==
    ASSUME NEW b, Sound(b)
    PROVE  Sound(Reset(b)) /\ SilenceOf(Reset(b)) = Never
BY DEF Sound, SilenceOf, Reset, TransitionTo, Breaker, Age, Never

\* The clock lengthens a silence by one or leaves the gate as it is.
LEMMA ElapseWaits ==
    ASSUME NEW b, Sound(b)
    PROVE  /\ Sound(Elapse(b))
           /\ \/ SilenceOf(Elapse(b)) = SilenceOf(b)
              \/ SilenceOf(b) \in 0 .. Cooldown - 1 /\ SilenceOf(Elapse(b)) = SilenceOf(b) + 1
<1>1. b.failureAge \in Age
  BY DEF Sound, Breaker
<1>2. /\ Older(b.failureAge) \in Age
      /\ Older(b.failureAge) = Never <=> b.failureAge = Never
      /\ b.failureAge = Cooldown => Older(b.failureAge) = Cooldown
  BY <1>1, BreakerAssumption DEF Older, Age, Never
<1>3. /\ Elapse(b) \in Breaker
      /\ Elapse(b).state = b.state /\ Elapse(b).failureAge = Older(b.failureAge)
  BY <1>2 DEF Sound, Elapse, Breaker
<1>4. Sound(Elapse(b))
  BY <1>2, <1>3 DEF Sound
<1>5. CASE b.state = "OPEN" /\ b.failureAge # Cooldown
  <2>1. SilenceOf(b) = b.failureAge /\ SilenceOf(Elapse(b)) = b.failureAge + 1
    BY <1>1, <1>3, <1>5 DEF Sound, SilenceOf, Older
  <2>2. b.failureAge \in 0 .. Cooldown - 1
    BY <1>1, <1>5, BreakerAssumption DEF Sound, Age
  <2>3. QED
    BY <1>4, <2>1, <2>2
<1>6. CASE ~(b.state = "OPEN" /\ b.failureAge # Cooldown)
  BY <1>2, <1>3, <1>4, <1>6 DEF SilenceOf
<1>7. QED
  BY <1>5, <1>6
-----------------------------------------------------------------------------
(* Concurrent calls of execute.                                             *)

CallsInv ==
    /\ CallsTypeOK
    /\ StatsConserved
    /\ ClosedMeansHealthy
    /\ BreakerConsistent

\* The lifetime counters stay natural numbers when one of them is counted up.
LEMMA StatsTyped ==
    ASSUME NEW s \in Stats
    PROVE  /\ [s EXCEPT !.requests = @ + 1] \in Stats
           /\ [s EXCEPT !.requests = @ + 1, !.rejected = @ + 1] \in Stats
           /\ [s EXCEPT !.successes = @ + 1] \in Stats
           /\ \A t \in BOOLEAN :
                 [s EXCEPT !.failures = @ + 1,
                           !.opens = IF t THEN @ + 1 ELSE @] \in Stats
<1>1. /\ s.requests + 1 \in Nat
      /\ s.rejected + 1 \in Nat
      /\ s.successes + 1 \in Nat
      /\ s.failures + 1 \in Nat
      /\ s.opens + 1 \in Nat
  BY DEF Stats
<1>2. QED
  BY <1>1 DEF Stats

\* The set of suspended calls is finite and loses or gains one call at a time.
LEMMA RunningCounted ==
    ASSUME NEW S, S \subseteq Callers, NEW c \in Callers
    PROVE  /\ Cardinality(S) \in Nat
           /\ c \notin S => Cardinality(S \cup {c}) = Cardinality(S) + 1
           /\ c \in S => Cardinality(S \ {c}) = Cardinality(S) - 1
<1>1. IsFiniteSet(S)
  BY CallerAssumption, FS_Subset
<1>2. QED
  BY <1>1, FS_CardinalityType, FS_AddElement, FS_RemoveElement
-----------------------------------------------------------------------------
LEMMA CallsInitInv == CallsInit => CallsInv
BY BreakerAssumption, FS_EmptySet
   DEF CallsInit, CallsInv, CallsTypeOK, StatsConserved, ClosedMeansHealthy,
       BreakerConsistent, NewBreaker, Breaker, Stats, Age, Never

LEMMA AdmitInv == ASSUME CallsInv, NEW c \in Callers, Admit(c) PROVE CallsInv'
<1> USE DEF CallsInv
<1>1. CallsTypeOK'
  <2>1. breaker' \in Breaker
    BY MethodsTyped DEF CallsTypeOK, Admit
  <2>2. QED
    BY <2>1, StatsTyped DEF CallsTypeOK, Admit
<1>2. StatsConserved'
  BY RunningCounted DEF StatsConserved, Admit, CallsTypeOK, Stats
<1>3. ClosedMeansHealthy' /\ BreakerConsistent'
  <2>1. CASE breaker.state = "OPEN" /\ CooldownElapsed(breaker)
    <3>1. breaker' = [breaker EXCEPT !.state = "HALF_OPEN", !.halfOpenAttempts = 0]
      BY <2>1 DEF Admit, AfterCanProceed, TransitionTo, CallsTypeOK, Breaker
    <3>2. quiet \in {Never, Cooldown}
      BY <2>1, BreakerAssumption
         DEF BreakerConsistent, CooldownElapsed, CallsTypeOK, Age, Never
    <3>3. QED
      BY <3>1, <3>2 DEF Admit, ClosedMeansHealthy, BreakerConsistent, CallsTypeOK, Breaker
  <2>2. CASE ~(breaker.state = "OPEN" /\ CooldownElapsed(breaker))
    BY <2>2 DEF Admit, AfterCanProceed, ClosedMeansHealthy, BreakerConsistent
  <2>3. QED
    BY <2>1, <2>2
<1>4. QED
  BY <1>1, <1>2, <1>3

LEMMA RejectInv == ASSUME CallsInv, NEW c \in Callers, Reject(c) PROVE CallsInv'
<1> USE DEF CallsInv
<1>1. StatsConserved'
  <2>1. /\ stats'.requests = stats.requests + 1
        /\ stats'.rejected = stats.rejected + 1
        /\ stats'.successes = stats.successes
        /\ stats'.failures = stats.failures
    BY DEF Reject, CallsTypeOK, Stats
  <2>2. Cardinality(running) \in Nat
    BY RunningCounted DEF CallsTypeOK
  <2>3. QED
    BY <2>1, <2>2 DEF StatsConserved, Reject, CallsTypeOK, Stats
<1>2. CallsTypeOK' /\ ClosedMeansHealthy' /\ BreakerConsistent'
  BY StatsTyped DEF CallsTypeOK, Reject, ClosedMeansHealthy, BreakerConsistent
<1>3. QED
  BY <1>1, <1>2

LEMMA SucceedInv == ASSUME CallsInv, NEW c \in Callers, Succeed(c) PROVE CallsInv'
<1> USE DEF CallsInv
<1>1. CallsTypeOK'
  BY MethodsTyped, StatsTyped DEF CallsTypeOK, Succeed
<1>2. StatsConserved'
  BY RunningCounted DEF StatsConserved, Succeed, CallsTypeOK, Stats
<1>3. ClosedMeansHealthy' /\ BreakerConsistent'
  BY BreakerAssumption
     DEF Succeed, RecordSuccess, TransitionTo, ClosedMeansHealthy,
         BreakerConsistent, CallsTypeOK, Breaker
<1>4. QED
  BY <1>1, <1>2, <1>3

LEMMA FailInv == ASSUME CallsInv, NEW c \in Callers, Fail(c) PROVE CallsInv'
<1> USE DEF CallsInv
<1>1. CallsTypeOK'
  <2>1. Trips(breaker) \in BOOLEAN
    BY DEF Trips
  <2>2. stats' \in Stats
    BY <2>1, StatsTyped DEF CallsTypeOK, Fail
  <2>3. quiet' \in Age
    BY BreakerAssumption DEF CallsTypeOK, Fail, Age
  <2>4. breaker' \in Breaker /\ running' \subseteq Callers
    BY MethodsTyped DEF CallsTypeOK, Fail
  <2>5. QED
    BY <2>2, <2>3, <2>4 DEF CallsTypeOK, Fail
<1>2. StatsConserved'
  BY RunningCounted DEF StatsConserved, Fail, CallsTypeOK, Stats
<1>3. /\ breaker'.failureCount = breaker.failureCount + 1
      /\ breaker'.failureAge = 0
      /\ breaker'.state = IF Trips(breaker) THEN "OPEN" ELSE breaker.state
  BY DEF Fail, RecordFailure, TransitionTo, CallsTypeOK, Breaker
<1>4. ClosedMeansHealthy' /\ BreakerConsistent'
  BY <1>1, <1>3, BreakerAssumption
     DEF Fail, Trips, ClosedMeansHealthy, BreakerConsistent, CallsTypeOK, Breaker,
         Age, Never
<1>5. QED
  BY <1>1, <1>2, <1>4

LEMMA QueryInv == ASSUME CallsInv, Query PROVE CallsInv'
<1> USE DEF CallsInv
<1>1. CallsTypeOK'
  BY MethodsTyped DEF CallsTypeOK, Query
<1>2. CASE breaker.state = "OPEN" /\ CooldownElapsed(breaker)
  <2>1. breaker' = [breaker EXCEPT !.state = "HALF_OPEN", !.halfOpenAttempts = 0]
    BY <1>2 DEF Query, AfterCanProceed, TransitionTo, CallsTypeOK, Breaker
  <2>2. quiet \in {Never, Cooldown}
    BY <1>2, BreakerAssumption
       DEF BreakerConsistent, CooldownElapsed, CallsTypeOK, Age, Never
  <2>3. QED
    BY <1>1, <2>1, <2>2
       DEF Query, StatsConserved, ClosedMeansHealthy, BreakerConsistent,
           CallsTypeOK, Breaker
<1>3. CASE ~(breaker.state = "OPEN" /\ CooldownElapsed(breaker))
  BY <1>1, <1>3
     DEF Query, AfterCanProceed, StatsConserved, ClosedMeansHealthy,
         BreakerConsistent
<1>4. QED
  BY <1>2, <1>3

LEMMA AdminResetInv == ASSUME CallsInv, CallsReset PROVE CallsInv'
<1> USE DEF CallsInv
<1>1. CallsTypeOK'
  BY MethodsTyped DEF CallsTypeOK, CallsReset, Age
<1>2. QED
  BY <1>1, BreakerAssumption
     DEF CallsReset, Reset, TransitionTo, StatsConserved, ClosedMeansHealthy,
         BreakerConsistent, CallsTypeOK, Breaker

LEMMA TickInv == ASSUME CallsInv, CallsTick PROVE CallsInv'
<1> USE DEF CallsInv
<1>1. CallsTypeOK'
  BY MethodsTyped, OlderTyped DEF CallsTypeOK, CallsTick
<1>2. StatsConserved' /\ ClosedMeansHealthy'
  BY DEF CallsTick, Elapse, StatsConserved, ClosedMeansHealthy, BreakerConsistent,
         CallsTypeOK, Breaker
<1>3. BreakerConsistent'
  BY BreakerAssumption
     DEF CallsTick, Elapse, Older, BreakerConsistent, CallsTypeOK, Breaker, Age, Never
<1>4. QED
  BY <1>1, <1>2, <1>3

LEMMA CallsNextInv == CallsInv /\ [CallsNext]_callVars => CallsInv'
<1> SUFFICES ASSUME CallsInv, [CallsNext]_callVars PROVE CallsInv'
  OBVIOUS
<1>1. ASSUME NEW c \in Callers, Admit(c) \/ Reject(c) \/ Succeed(c) \/ Fail(c)
      PROVE  CallsInv'
  BY <1>1, AdmitInv, RejectInv, SucceedInv, FailInv
<1>2. CASE Query
  BY <1>2, QueryInv
<1>3. CASE CallsReset
  BY <1>3, AdminResetInv
<1>4. CASE CallsTick
  BY <1>4, TickInv
<1>5. CASE UNCHANGED callVars
  BY <1>5 DEF callVars, CallsInv, CallsTypeOK, StatsConserved, ClosedMeansHealthy,
              BreakerConsistent
<1>6. QED
  BY <1>1, <1>2, <1>3, <1>4, <1>5 DEF CallsNext

LEMMA CallsSpecInv == CallsSpec => []CallsInv
<1>1. QED
  BY CallsInitInv, CallsNextInv, PTL DEF CallsSpec
-----------------------------------------------------------------------------
\* The variables keep their types.
THEOREM CallsTypeCorrect == CallsSpec => []CallsTypeOK
<1>1. CallsInv => CallsTypeOK
  BY DEF CallsInv
<1>2. QED
  BY <1>1, CallsSpecInv, PTL

\* Every request is counted once in exactly one outcome or is still running.
THEOREM StatsTheorem == CallsSpec => []StatsConserved
<1>1. CallsInv => StatsConserved
  BY DEF CallsInv
<1>2. QED
  BY <1>1, CallsSpecInv, PTL

\* A closed circuit has seen fewer than maxFailures failures in a row.
THEOREM ClosedTheorem == CallsSpec => []ClosedMeansHealthy
<1>1. CallsInv => ClosedMeansHealthy
  BY DEF CallsInv
<1>2. QED
  BY <1>1, CallsSpecInv, PTL

\* A closed circuit opens only after maxFailures failures in a row.
THEOREM StreakTheorem == CallsSpec => OpensOnlyOnStreak
<1> DEFINE A == (breaker.state = "CLOSED" /\ breaker'.state = "OPEN")
                    => streak' >= MaxFailures
<1>1. CallsInv /\ [CallsNext]_callVars => [A]_callVars
  <2> SUFFICES ASSUME CallsInv, CallsNext, breaker.state = "CLOSED", breaker'.state = "OPEN"
               PROVE  streak' >= MaxFailures
    OBVIOUS
  <2> USE DEF CallsInv, CallsTypeOK, Breaker
  <2>1. ASSUME NEW c \in Callers, Fail(c) PROVE streak' >= MaxFailures
    BY <2>1 DEF Fail, RecordFailure, Trips, BreakerConsistent
  <2>2. ASSUME NEW c \in Callers, Admit(c) \/ Reject(c) \/ Succeed(c) PROVE FALSE
    BY <2>2 DEF Admit, Reject, Succeed, AfterCanProceed, RecordSuccess
  <2>3. CASE Query \/ CallsReset \/ CallsTick
    BY <2>3 DEF Query, CallsReset, CallsTick, AfterCanProceed, Reset, TransitionTo, Elapse
  <2>4. QED
    BY <2>1, <2>2, <2>3 DEF CallsNext
<1>2. QED
  BY <1>1, CallsSpecInv, PTL DEF CallsSpec, OpensOnlyOnStreak

\* After a trip nobody gets through for a whole cooldown, short of a reset.
THEOREM QuietTheorem == CallsSpec => QuietAfterTrip
<1> DEFINE A == (running' \ running # {}) => quiet \in {Never, Cooldown}
<1>1. CallsInv /\ [CallsNext]_callVars => [A]_callVars
  <2> SUFFICES ASSUME CallsInv, CallsNext, running' \ running # {}
               PROVE  quiet \in {Never, Cooldown}
    OBVIOUS
  <2>1. ASSUME NEW c \in Callers, Admit(c) PROVE quiet \in {Never, Cooldown}
    BY <2>1, BreakerAssumption
       DEF CallsInv, CallsTypeOK, Breaker, Age, Never, Admit, CanProceed,
           CooldownElapsed, BreakerConsistent
  <2>2. ASSUME NEW c \in Callers, Reject(c) \/ Succeed(c) \/ Fail(c) PROVE FALSE
    BY <2>2 DEF Reject, Succeed, Fail
  <2>3. CASE Query \/ CallsReset \/ CallsTick
    BY <2>3 DEF Query, CallsReset, CallsTick
  <2>4. QED
    BY <2>1, <2>2, <2>3 DEF CallsNext
<1>2. QED
  BY <1>1, CallsSpecInv, PTL DEF CallsSpec, QuietAfterTrip
-----------------------------------------------------------------------------
\* The breaker implements the gate: every step of a caller, the administrator
\* or the clock passes, shuts, opens, ages or leaves alone the gate.
THEOREM CallsGateTheorem == CallsSpec => CallsMeetGate
<1> USE DEF CallsGate!gateVars
<1>1. CallsInit => CallsGate!GateInit
  BY DEF CallsInit, CallsGate!GateInit, NewBreaker, Silence, Never
<1>2. CallsInv /\ [CallsNext]_callVars => [CallsGate!GateNext]_(CallsGate!gateVars)
  <2> SUFFICES ASSUME CallsInv, [CallsNext]_callVars
               PROVE  CallsGate!GateNext \/ UNCHANGED CallsGate!gateVars
    OBVIOUS
  <2> DEFINE admitted == stats.requests - stats.rejected
  <2>1. Silence = SilenceOf(breaker) /\ Silence' = SilenceOf(breaker')
    BY DEF Silence, SilenceOf
  <2>2. Sound(breaker) /\ stats \in Stats
    BY DEF CallsInv, CallsTypeOK, BreakerConsistent, Sound
  <2>3. ASSUME NEW c \in Callers, Admit(c) PROVE CallsGate!Pass
    <3>1. admitted' = admitted + 1
      BY <2>2, <2>3 DEF Admit, Stats
    <3>2. Silence \in {-1, Cooldown} /\ Silence' = Silence
      BY <2>1, <2>2, <2>3, AdmittedPasses DEF Admit, Never
    <3>3. QED
      BY <3>1, <3>2 DEF CallsGate!Pass
  <2>4. ASSUME NEW c \in Callers, Reject(c) PROVE UNCHANGED CallsGate!gateVars
    <3>1. admitted' = admitted
      BY <2>2, <2>4 DEF Reject, Stats
    <3>2. QED
      BY <2>1, <2>4, <3>1 DEF Reject
  <2>5. ASSUME NEW c \in Callers, Succeed(c) PROVE UNCHANGED CallsGate!gateVars
    <3>1. admitted' = admitted
      BY <2>2, <2>5 DEF Succeed, Stats
    <3>2. QED
      BY <2>1, <2>2, <2>5, <3>1, SuccessKeepsSilence DEF Succeed
  <2>6. ASSUME NEW c \in Callers, Fail(c)
        PROVE  CallsGate!Shut \/ CallsGate!Forget \/ UNCHANGED CallsGate!gateVars
    <3>1. admitted' = admitted
      BY <2>2, <2>6 DEF Fail, Stats
    <3>2. Silence' = 0 \/ (Silence' = Cooldown /\ Silence \in {-1, Cooldown})
      BY <2>1, <2>2, <2>6, FailureShuts DEF Fail, Never
    <3>3. QED
      BY <3>1, <3>2 DEF CallsGate!Shut, CallsGate!Forget
  <2>7. CASE Query
    <3>1. AfterCanProceed(breaker) # breaker => CanProceed(breaker)
      BY DEF AfterCanProceed, CanProceed
    <3>2. Silence' = Silence
      BY <2>1, <2>2, <2>7, <3>1, AdmittedPasses DEF Query
    <3>3. QED
      BY <2>7, <3>2 DEF Query
  <2>8. CASE CallsReset
    BY <2>1, <2>2, <2>8, ResetOverrides
       DEF CallsReset, CallsGate!Override, CallsGate!GateNext, Never
  <2>9. CASE CallsTick
    <3>1. Silence' = Silence \/ (Silence \in 0 .. Cooldown - 1 /\ Silence' = Silence + 1)
      BY <2>1, <2>2, <2>9, ElapseWaits DEF CallsTick
    <3>2. QED
      BY <2>9, <3>1 DEF CallsTick, CallsGate!Wait, CallsGate!GateNext
  <2>10. CASE UNCHANGED callVars
    BY <2>10 DEF callVars, Silence
  <2>11. QED
    BY <2>3, <2>4, <2>5, <2>6, <2>7, <2>8, <2>9, <2>10 DEF CallsNext, CallsGate!GateNext
<1>3. QED
  BY <1>1, <1>2, CallsSpecInv, PTL DEF CallsSpec, CallsMeetGate, CallsGate!GateSpec
-----------------------------------------------------------------------------
(* Checks and spot checks of the portal.                                    *)

Stages == {"idle", "launching", "loaded", "waiting", "reading",
           "extracting", "saving", "done"}

GateInv == Sound(breaker) /\ pc \in [Checks -> Stages] /\ spots \in Nat
\* The spot checks ask and tell the same object.
LEMMA SameMethods ==
    ASSUME NEW b
    PROVE  /\ Spot!CanProceed(b) <=> CanProceed(b)
           /\ Spot!AfterCanProceed(b) = AfterCanProceed(b)
           /\ Spot!RecordSuccess(b) = RecordSuccess(b)
<1>1. Spot!CanProceed(b) <=> CanProceed(b)
  BY DEF Spot!CanProceed, CanProceed, Spot!CooldownElapsed, CooldownElapsed
<1>2. \A s : Spot!TransitionTo(b, s) = TransitionTo(b, s)
  BY DEF Spot!TransitionTo, TransitionTo
<1>3. Spot!AfterCanProceed(b) = AfterCanProceed(b)
  BY <1>2 DEF Spot!AfterCanProceed, AfterCanProceed, Spot!CooldownElapsed, CooldownElapsed
<1>4. Spot!RecordSuccess(b) = RecordSuccess(b)
  BY DEF Spot!RecordSuccess, RecordSuccess, Spot!TransitionTo, TransitionTo
<1>5. QED
  BY <1>1, <1>3, <1>4
-----------------------------------------------------------------------------
\* A check moves to a stage that is not idle: the started ones gain it at most.
LEMMA StartedCounted ==
    ASSUME pc \in [Checks -> Stages], NEW c \in Checks, NEW stage \in Stages \ {"idle"},
           pc' = [pc EXCEPT ![c] = stage]
    PROVE  /\ pc' \in [Checks -> Stages]
           /\ pc[c] # "idle" => Cardinality(Started') = Cardinality(Started)
           /\ pc[c] = "idle" => Cardinality(Started') = Cardinality(Started) + 1
           /\ Cardinality(Started) \in Nat
<1>1. Started' = Started \cup {c}
  BY DEF Started
<1>2. IsFiniteSet(Started)
  BY PortalAssumption, ChecksAssumption, FS_Subset DEF Started
<1>3. pc[c] # "idle" <=> c \in Started
  BY DEF Started
<1>4. c \notin Started => Cardinality(Started \cup {c}) = Cardinality(Started) + 1
  BY <1>2, FS_AddElement
<1>5. c \in Started => Started \cup {c} = Started
  OBVIOUS
<1>6. Cardinality(Started) \in Nat
  BY <1>2, FS_CardinalityType
<1>7. pc' \in [Checks -> Stages]
  OBVIOUS
<1>8. QED
  BY <1>1, <1>3, <1>4, <1>5, <1>6, <1>7

\* What a step does to the breaker and to the number of those let through.
Passes == /\ CanProceed(breaker)
          /\ \/ breaker' = AfterCanProceed(breaker)
             \/ breaker' = RecordSuccess(AfterCanProceed(breaker))
          /\ Cardinality(Started') + spots' = Cardinality(Started) + spots + 1
Records == /\ breaker' \in {breaker, RecordSuccess(breaker), RecordFailure(breaker),
                            Reset(breaker), Elapse(breaker)}
           /\ Cardinality(Started') + spots' = Cardinality(Started) + spots
Typed == pc' \in [Checks -> Stages] /\ spots' \in Nat

LEMMA CheckEffect ==
    ASSUME GateInv, NEW c \in Checks, UNCHANGED spots,
           Refuse(c) \/ Start(c) \/ Progress(c)
    PROVE  Typed /\ (Passes \/ Records)
<1> USE SameMethods DEF GateInv
<1>1. CASE Refuse(c)
  BY <1>1 DEF Refuse, Records, Typed, Started
<1>2. CASE Start(c)
  <2>1. /\ pc[c] = "idle" /\ CanProceed(breaker) /\ breaker' = AfterCanProceed(breaker)
        /\ pc' = [pc EXCEPT ![c] = "launching"]
    BY <1>2 DEF Start, Goto
  <2>2. /\ Cardinality(Started') = Cardinality(Started) + 1
        /\ pc' \in [Checks -> Stages] /\ Cardinality(Started) \in Nat
    BY <2>1, StartedCounted DEF Stages
  <2>3. Cardinality(Started') + spots' = Cardinality(Started) + spots + 1
    BY <2>2
  <2>4. QED
    BY <2>1, <2>2, <2>3 DEF Passes, Typed
<1>3. CASE Progress(c)
  <2>1. \E stage \in Stages \ {"idle"} : pc[c] # "idle" /\ pc' = [pc EXCEPT ![c] = stage]
    BY <1>3
       DEF Progress, Navigate, FillForm, SeeResult, CheckNoRecord,
           ExtractResults, Finish, CaptchaTimeout, CheckFails, Throw, Goto, Stages
  <2>2. breaker' \in {breaker, RecordSuccess(breaker), RecordFailure(breaker)}
    BY <1>3
       DEF Progress, Navigate, FillForm, SeeResult, CheckNoRecord,
           ExtractResults, Finish, CaptchaTimeout, CheckFails, Throw
  <2>3. Cardinality(Started') = Cardinality(Started) /\ pc' \in [Checks -> Stages]
    BY <2>1, StartedCounted
  <2>4. QED
    BY <2>2, <2>3 DEF Records, Typed
<1>4. QED
  BY <1>1, <1>2, <1>3

LEMMA StepEffect ==
    ASSUME GateInv, [PortalNext]_portalVars
    PROVE  Typed /\ (Passes \/ Records)
<1> USE SameMethods DEF GateInv
<1>1. ASSUME NEW c \in Checks, Refuse(c) \/ Start(c) \/ Progress(c),
             UNCHANGED spots
      PROVE  Typed /\ (Passes \/ Records)
  BY <1>1, CheckEffect
<1>2. CASE OperatorSearches /\ UNCHANGED spots
  BY <1>2 DEF OperatorSearches, Records, Typed, Started
<1>3. CASE Shutdown /\ UNCHANGED spots
  BY <1>3 DEF Shutdown, Records, Typed, Started
<1>4. CASE AdminReset /\ UNCHANGED spots
  BY <1>4 DEF AdminReset, Records, Typed, Started
<1>5. CASE PortalToggles /\ UNCHANGED spots
  BY <1>5 DEF PortalToggles, Records, Typed, Started
<1>6. CASE SpotStep
  <2>1. CanProceed(breaker) /\ breaker' = RecordSuccess(AfterCanProceed(breaker))
    BY <1>6 DEF SpotStep, Spot!SpotCheck
  <2>2. spots' = spots + 1 /\ pc' = pc
    BY <1>6 DEF SpotStep, checkVars
  <2>3. Cardinality(Started) \in Nat
    BY PortalAssumption, ChecksAssumption, FS_Subset, FS_CardinalityType DEF Started
  <2>4. Cardinality(Started') = Cardinality(Started)
    BY <2>2 DEF Started
  <2>5. Cardinality(Started') + spots' = Cardinality(Started) + spots + 1
    BY <2>2, <2>3, <2>4
  <2>6. QED
    BY <2>1, <2>2, <2>5 DEF Passes, Typed
<1>7. CASE PortalTick
  BY <1>7 DEF PortalTick, Tick, Records, Typed, Started
<1>8. CASE UNCHANGED portalVars
  BY <1>8 DEF portalVars, checkVars, Records, Typed, Started
<1>9. QED
  BY <1>1, <1>2, <1>3, <1>4, <1>5, <1>6, <1>7, <1>8 DEF PortalNext, FetchStep

LEMMA NextInv == GateInv /\ [PortalNext]_portalVars => GateInv'
<1> SUFFICES ASSUME GateInv, [PortalNext]_portalVars PROVE GateInv'
  OBVIOUS
<1>1. Typed /\ (Passes \/ Records)
  BY StepEffect
<1>2. ASSUME Passes PROVE Sound(breaker')
  BY <1>2, AdmittedPasses, SuccessKeepsSilence DEF GateInv, Passes
<1>3. ASSUME Records PROVE Sound(breaker')
  BY <1>3, SuccessKeepsSilence, FailureShuts, ResetOverrides, ElapseWaits
     DEF GateInv, Records
<1>4. QED
  BY <1>1, <1>2, <1>3 DEF GateInv, Typed

LEMMA InitInv == PortalInit => GateInv /\ Cardinality(Started) + spots = 0
<1> SUFFICES ASSUME PortalInit PROVE GateInv /\ Cardinality(Started) + spots = 0
  OBVIOUS
<1>1. breaker = NewBreaker /\ pc = [c \in Checks |-> "idle"] /\ spots = 0
  BY DEF PortalInit, Init, NewBreaker, Never
<1>2. Started = {} /\ Cardinality({}) = 0
  BY <1>1, FS_EmptySet DEF Started
<1>3. Sound(breaker)
  BY <1>1 DEF Sound, NewBreaker, Breaker, Age, Never
<1>4. QED
  BY <1>1, <1>2, <1>3 DEF GateInv, Stages

\* However many checks and spot checks there are, however they interleave,
\* fail, succeed late and are reset, nobody passes the gate while it is shut,
\* and it stays shut for a whole cooldown.
THEOREM GateTheorem == PortalSpec => ImplementsGate
<1>1. PortalInit => Gate!GateInit
  BY InitInv DEF PortalInit, Init, NewBreaker, Never, Silence, Gate!GateInit
<1>2. GateInv /\ [PortalNext]_portalVars => [Gate!GateNext]_(Gate!gateVars)
  <2> SUFFICES ASSUME GateInv, [PortalNext]_portalVars
               PROVE  Gate!GateNext \/ UNCHANGED Gate!gateVars
    OBVIOUS
  <2> DEFINE admitted == Cardinality(Started) + spots
  <2>1. Silence = SilenceOf(breaker) /\ Silence' = SilenceOf(breaker')
    BY DEF Silence, SilenceOf
  <2>2. Sound(breaker)
    BY DEF GateInv
  <2>3. CASE Passes
    <3>1. Silence \in {-1, Cooldown} /\ Silence' = Silence
      BY <2>1, <2>2, <2>3, AdmittedPasses, SuccessKeepsSilence DEF Passes, Never
    <3>2. QED
      BY <2>3, <3>1 DEF Passes, Gate!Pass, Gate!GateNext
  <2>4. CASE Records
    <3>1. admitted' = admitted
      BY <2>4 DEF Records
    <3>2. CASE breaker' \in {breaker, RecordSuccess(breaker)}
      BY <2>1, <2>2, <3>1, <3>2, SuccessKeepsSilence DEF Gate!gateVars
    <3>3. CASE breaker' = RecordFailure(breaker)
      <4>1. Silence' = 0 \/ (Silence' = Cooldown /\ Silence \in {-1, Cooldown})
        BY <2>1, <2>2, <3>3, FailureShuts DEF Never
      <4>2. QED
        BY <3>1, <4>1 DEF Gate!Shut, Gate!Forget, Gate!GateNext, Gate!gateVars
    <3>4. CASE breaker' = Reset(breaker)
      BY <2>1, <2>2, <3>1, <3>4, ResetOverrides DEF Gate!Override, Gate!GateNext, Never
    <3>5. CASE breaker' = Elapse(breaker)
      <4>1. \/ Silence' = Silence
            \/ Silence \in 0 .. Cooldown - 1 /\ Silence' = Silence + 1
        BY <2>1, <2>2, <3>5, ElapseWaits
      <4>2. QED
        BY <3>1, <4>1 DEF Gate!Wait, Gate!GateNext, Gate!gateVars
    <3>6. QED
      BY <2>4, <3>2, <3>3, <3>4, <3>5 DEF Records
  <2>5. QED
    BY <2>3, <2>4, StepEffect
<1>3. QED
  BY <1>1, <1>2, InitInv, NextInv, PTL DEF PortalSpec, ImplementsGate, Gate!GateSpec
-----------------------------------------------------------------------------
(* The checks themselves, alone and beside the spot checks.  Of the limiter *)
(* the checks begun before its window are at least as old as that, and all  *)
(* but MaxPerHour of them older than an hour.                               *)
Earlier == Len(starts) - limiter.thisHour

LimiterInv ==
    /\ Paced
    /\ \A i \in DOMAIN starts :
          /\ starts[i] >= limiter.sinceCheck
          /\ i <= Earlier => starts[i] >= limiter.sinceHour
          /\ i <= Earlier - MaxPerHour => starts[i] > Hour

\* What an undisturbed check may have read: its own answer, or nothing where
\* there was nothing to find.
Told(c, answer) == answer = c \/ (answer = NoOne /\ c \in Unreadable \cup shut)

\* Where an undisturbed check stands, the page is as that check left it.
AtPage(c) ==
    /\ pc[c] = "loaded" => page = Blank
    /\ pc[c] = "waiting" => page.form \in {NoOne, c} /\ page.shown \in {NoOne, c}
    /\ pc[c] \in {"reading", "extracting"} /\ c \in live => page.shown = c
    /\ pc[c] \in {"loaded", "waiting", "reading", "extracting"} => c \in live \cup shut
    /\ pc[c] = "saving" => Told(c, got[c])

\* Of two checks under way both are disturbed; what an undisturbed one finds
\* on the page it has put there itself.
PageInv ==
    /\ \A c, d \in Running : c # d => c \in disturbed
    /\ \A c \in Checks \ disturbed : AtPage(c)
    /\ LoneCheckSavesOwn

ChecksInv == TypeOK /\ LimiterInv /\ PageInv

\* What the checks do, or what somebody else does to the breaker.
ChecksStep == Next \/ (UNCHANGED checkVars /\ breaker' \in Breaker)
-----------------------------------------------------------------------------
Limiter == [sinceCheck: 0 .. Delay, thisHour: 0 .. MaxPerHour, sinceHour: 0 .. Hour + 1]

LEMMA LimiterTyped ==
    ASSUME TypeOK
    PROVE  /\ limiter \in Limiter
           /\ limiter.sinceCheck \in 0 .. Delay /\ limiter.thisHour \in 0 .. MaxPerHour
           /\ limiter.sinceHour \in 0 .. Hour + 1
           /\ starts \in Seq(0 .. Hour + 1) /\ Len(starts) \in Nat
           /\ DOMAIN starts = 1 .. Len(starts)
           /\ \A i \in DOMAIN starts : starts[i] \in 0 .. Hour + 1
<1>1. limiter \in Limiter /\ starts \in Seq(0 .. Hour + 1)
  BY DEF TypeOK, Limiter
<1>2. /\ limiter.sinceCheck \in 0 .. Delay /\ limiter.thisHour \in 0 .. MaxPerHour
      /\ limiter.sinceHour \in 0 .. Hour + 1
  BY <1>1 DEF Limiter
<1>3. /\ Len(starts) \in Nat /\ DOMAIN starts = 1 .. Len(starts)
      /\ \A i \in DOMAIN starts : starts[i] \in 0 .. Hour + 1
  BY <1>1, LenProperties, ElementOfSeq
<1>4. QED
  BY <1>1, <1>2, <1>3

\* Asking the limiter opens a window or leaves the one that is open.
LEMMA WindowTyped ==
    ASSUME TypeOK
    PROVE  /\ Window \in Limiter
           /\ Window.sinceCheck = limiter.sinceCheck
           /\ Window.thisHour \in 0 .. MaxPerHour
           /\ Window.sinceHour \in 0 .. Hour + 1
           /\ \/ Window = limiter
              \/ limiter.sinceHour > Hour /\ Window.thisHour = 0 /\ Window.sinceHour = 0
<1>1. limiter \in Limiter
  BY LimiterTyped
<1>2. [limiter EXCEPT !.thisHour = 0, !.sinceHour = 0] \in Limiter
  <2>1. 0 \in 0 .. MaxPerHour /\ 0 \in 0 .. Hour + 1
    BY PortalAssumption, ChecksAssumption
  <2>2. QED
    BY <1>1, <2>1 DEF Limiter
<1>3. Window \in Limiter
  BY <1>1, <1>2 DEF Window
<1>4. QED
  BY <1>1, <1>3 DEF Window, Limiter

LEMMA ChecksInit == Init => ChecksInv
<1> SUFFICES ASSUME Init PROVE ChecksInv
  OBVIOUS
<1>1. TypeOK
  BY PortalAssumption, ChecksAssumption, BreakerAssumption
     DEF Init, TypeOK, Blank, NewBreaker, Breaker, Age,
         Never
<1>2. LimiterInv
  BY DEF Init, LimiterInv, Paced
<1>3. PageInv
  BY DEF Init, PageInv, Running, LoneCheckSavesOwn, AtPage
<1>4. QED
  BY <1>1, <1>2, <1>3 DEF ChecksInv

\* The page, what the checks make of it, and where they stand.
PageTypes ==
    /\ page \in [form: Checks \cup {NoOne}, shown: Checks \cup {NoOne}]
    /\ live \subseteq Checks
    /\ pc \in [Checks -> Stages]
    /\ got \in [Checks -> Checks \cup {NoOne}]
    /\ saved \subseteq Checks \X (Checks \cup {NoOne})
    /\ shut \subseteq Checks

LimiterTypes == limiter \in Limiter /\ starts \in Seq(0 .. Hour + 1)

LEMMA TypesAre ==
    TypeOK <=> /\ breaker \in Breaker /\ LimiterTypes /\ PageTypes
                     /\ portalUp \in BOOLEAN /\ outage \in Nat /\ disturbed \subseteq Checks
BY DEF TypeOK, LimiterTypes, PageTypes, Limiter, Stages

LEMMA PageTyped ==
    ASSUME PageTypes, NEW c \in Checks, Progress(c)
    PROVE  PageTypes' /\ Blank \in [form: Checks \cup {NoOne}, shown: Checks \cup {NoOne}]
<1> USE DEF PageTypes, Goto, Stages
<1>1. Blank \in [form: Checks \cup {NoOne}, shown: Checks \cup {NoOne}]
  BY DEF Blank
<1>2. CASE Navigate(c)
  BY <1>1, <1>2 DEF Navigate
<1>3. CASE FillForm(c)
  BY <1>1, <1>3 DEF FillForm
<1>4. CASE SeeResult(c)
  BY <1>1, <1>4 DEF SeeResult
<1>5. CASE CheckNoRecord(c) \/ ExtractResults(c)
  <2>1. page.shown \in Checks \cup {NoOne}
    OBVIOUS
  <2>2. QED
    BY <1>1, <1>5, <2>1 DEF CheckNoRecord, ExtractResults
<1>6. CASE Finish(c)
  BY <1>1, <1>6 DEF Finish
<1>7. CASE CaptchaTimeout(c) \/ CheckFails(c) \/ Throw(c)
  BY <1>1, <1>7 DEF CaptchaTimeout, CheckFails, Throw
<1>8. QED
  BY <1>2, <1>3, <1>4, <1>5, <1>6, <1>7 DEF Progress

LEMMA ElapseTyped ==
    ASSUME LimiterTypes, Tick
    PROVE  LimiterTypes'
<1> USE PortalAssumption, ChecksAssumption DEF LimiterTypes
<1> DEFINE check == IF limiter.sinceCheck < Delay THEN limiter.sinceCheck + 1 ELSE limiter.sinceCheck
           hour == IF limiter.sinceHour <= Hour THEN limiter.sinceHour + 1 ELSE limiter.sinceHour
<1>1. limiter.sinceCheck \in 0 .. Delay /\ limiter.sinceHour \in 0 .. Hour + 1
  BY DEF Limiter
<1>2. check \in 0 .. Delay /\ hour \in 0 .. Hour + 1
  BY <1>1
<1>3. limiter' = [limiter EXCEPT !.sinceCheck = check, !.sinceHour = hour]
  BY DEF Tick, LimiterElapse
<1> HIDE DEF check, hour
<1>4. limiter' \in Limiter
  BY <1>2, <1>3 DEF Limiter
<1>5. /\ Len(starts) \in Nat /\ DOMAIN starts = 1 .. Len(starts)
      /\ \A i \in 1 .. Len(starts) : starts[i] \in 0 .. Hour + 1
  BY LenProperties, ElementOfSeq
<1>6. starts' \in [1 .. Len(starts) -> 0 .. Hour + 1]
  BY <1>5 DEF Tick
<1>7. starts' \in Seq(0 .. Hour + 1)
  <2> DEFINE ages == 0 .. Hour + 1
             n == Len(starts)
  <2>1. n \in Nat /\ starts' \in [1 .. n -> ages]
    BY <1>5, <1>6
  <2> HIDE DEF ages, n
  <2>2. starts' \in Seq(ages)
    BY <2>1
  <2>3. QED
    BY <2>2 DEF ages
<1>8. QED
  BY <1>4, <1>7

LEMMA ChecksTyped ==
    ASSUME TypeOK, ChecksStep
    PROVE  TypeOK'
<1> DEFINE Others == /\ breaker \in Breaker /\ portalUp \in BOOLEAN /\ outage \in Nat
                     /\ disturbed \subseteq Checks
<1>1. TypeOK <=> Others /\ LimiterTypes /\ PageTypes
  BY TypesAre
<1>2. TypeOK' <=> Others' /\ LimiterTypes' /\ PageTypes'
  BY TypesAre DEF TypeOK, LimiterTypes, PageTypes, Limiter, Stages
<1>3. ASSUME NEW c \in Checks, Refuse(c) PROVE TypeOK'
  <2>1. LimiterTypes'
    BY <1>1, <1>3, WindowTyped DEF Refuse, LimiterTypes
  <2>2. Others' /\ PageTypes'
    BY <1>1, <1>3 DEF Refuse, PageTypes
  <2>3. QED
    BY <1>2, <2>1, <2>2
<1>4. ASSUME NEW c \in Checks, Start(c) PROVE TypeOK'
  <2>1. LimiterTypes'
    <3>1. /\ Window \in Limiter /\ Window.thisHour + 1 \in 0 .. MaxPerHour
          /\ 0 \in 0 .. Delay /\ 0 \in 0 .. Hour + 1
      BY <1>4, WindowTyped, PortalAssumption, ChecksAssumption, SMTT(30) DEF Start, Allowed
    <3>2. limiter' \in Limiter
      BY <1>4, <3>1 DEF Start, Limiter
    <3>3. starts' \in Seq(0 .. Hour + 1)
      BY <1>1, <1>4, <3>1, AppendProperties DEF Start, LimiterTypes
    <3>4. QED
      BY <3>2, <3>3 DEF LimiterTypes
  <2>2. Others'
    BY <1>1, <1>4, MethodsTyped DEF Start, Running
  <2>3. PageTypes'
    BY <1>1, <1>4 DEF Start, PageTypes, Goto, Stages
  <2>4. QED
    BY <1>2, <2>1, <2>2, <2>3
<1>5. ASSUME NEW c \in Checks, Progress(c) PROVE TypeOK'
  <2>1. PageTypes'
    BY <1>1, <1>5, PageTyped
  <2>2. LimiterTypes' /\ UNCHANGED <<portalUp, disturbed>>
    BY <1>1, <1>5
       DEF Progress, Navigate, FillForm, SeeResult, CheckNoRecord,
           ExtractResults, Finish, CaptchaTimeout, CheckFails, Throw, LimiterTypes
  <2>3. breaker' \in Breaker /\ outage' \in Nat
    BY <1>1, <1>5, MethodsTyped
       DEF Progress, Navigate, FillForm, SeeResult, CheckNoRecord,
           ExtractResults, Finish, CaptchaTimeout, CheckFails, Throw
  <2>4. QED
    BY <1>1, <1>2, <2>1, <2>2, <2>3, Zenon
<1>6. CASE OperatorSearches
  <2>1. PageTypes'
    BY <1>1, <1>6 DEF OperatorSearches, PageTypes
  <2>2. Others' /\ LimiterTypes'
    BY <1>1, <1>6 DEF OperatorSearches, LimiterTypes
  <2>3. QED
    BY <1>2, <2>1, <2>2
<1>7. CASE Shutdown
  <2>1. PageTypes'
    BY <1>1, <1>7 DEF Shutdown, PageTypes, Blank
  <2>2. Others' /\ LimiterTypes'
    BY <1>1, <1>7 DEF Shutdown, LimiterTypes
  <2>3. QED
    BY <1>2, <2>1, <2>2
<1>8. CASE AdminReset
  BY <1>1, <1>2, <1>8, MethodsTyped DEF AdminReset, PageTypes, LimiterTypes
<1>9. CASE PortalToggles
  <2>1. LimiterTypes' /\ PageTypes'
    BY <1>1, <1>9 DEF PortalToggles, PageTypes, LimiterTypes
  <2>2. Others'
    BY <1>1, <1>9, Zenon DEF PortalToggles
  <2>3. QED
    BY <1>2, <2>1, <2>2
<1>10. CASE Tick
  <2>1. Others' /\ PageTypes'
    BY <1>1, <1>10, MethodsTyped DEF Tick, PageTypes
  <2>2. QED
    BY <1>1, <1>2, <1>10, <2>1, ElapseTyped
<1>11. CASE UNCHANGED checkVars /\ breaker' \in Breaker
  BY <1>1, <1>2, <1>11 DEF checkVars, PageTypes, LimiterTypes
<1>12. QED
  BY <1>3, <1>4, <1>5, <1>6, <1>7, <1>8, <1>9, <1>10, <1>11 DEF ChecksStep, Next
-----------------------------------------------------------------------------
LEMMA LimiterStep ==
    ASSUME TypeOK, LimiterInv, ChecksStep
    PROVE  LimiterInv'
<1> USE PortalAssumption, ChecksAssumption
<1> DEFINE W == Window
<1>a. /\ limiter.sinceCheck \in 0 .. Delay /\ limiter.thisHour \in 0 .. MaxPerHour
      /\ limiter.sinceHour \in 0 .. Hour + 1
      /\ starts \in Seq(0 .. Hour + 1) /\ Len(starts) \in Nat
      /\ DOMAIN starts = 1 .. Len(starts)
      /\ \A i \in 1 .. Len(starts) : starts[i] \in 0 .. Hour + 1
  BY LimiterTyped
<1>b. /\ W.sinceCheck = limiter.sinceCheck
      /\ W.thisHour \in 0 .. MaxPerHour /\ W.sinceHour \in 0 .. Hour + 1
      /\ \/ W = limiter
         \/ limiter.sinceHour > Hour /\ W.thisHour = 0 /\ W.sinceHour = 0
  BY WindowTyped
<1>c. /\ Paced
      /\ \A i \in 1 .. Len(starts) :
            /\ starts[i] >= limiter.sinceCheck
            /\ i <= Len(starts) - limiter.thisHour => starts[i] >= limiter.sinceHour
            /\ i <= Len(starts) - limiter.thisHour - MaxPerHour => starts[i] > Hour
  BY <1>a DEF LimiterInv, Earlier
\* The window that is asked: what was counted in the old one is an hour old.
<1>d. \A i \in 1 .. Len(starts) :
          /\ i <= Len(starts) - W.thisHour => starts[i] >= W.sinceHour
          /\ i <= Len(starts) - W.thisHour - MaxPerHour => starts[i] > Hour
  <2>1. CASE W = limiter
    BY <1>c, <2>1
  <2>2. CASE limiter.sinceHour > Hour /\ W.thisHour = 0 /\ W.sinceHour = 0
    <3> SUFFICES ASSUME NEW i \in 1 .. Len(starts)
                 PROVE  starts[i] >= 0 /\ (i <= Len(starts) - MaxPerHour => starts[i] > Hour)
      BY <1>a, <2>2
    <3>1. starts[i] \in 0 .. Hour + 1
      BY <1>a
    <3>2. i <= Len(starts) - MaxPerHour => starts[i] >= limiter.sinceHour
      BY <1>a, <1>c
    <3>3. QED
      BY <1>a, <2>2, <3>1, <3>2
  <2>3. QED
    BY <1>b, <2>1, <2>2
<1> HIDE DEF W
<1>1. ASSUME NEW c \in Checks, Refuse(c) PROVE LimiterInv'
  <2>1. limiter' = W /\ starts' = starts
    BY <1>1 DEF Refuse, W
  <2>2. QED
    BY <1>a, <1>b, <1>c, <1>d, <2>1 DEF LimiterInv, Earlier, Paced
<1>2. ASSUME NEW c \in Checks, Start(c) PROVE LimiterInv'
  <2>1. /\ starts' = Append(starts, 0) /\ DOMAIN starts = 1 .. Len(starts)
        /\ Len(starts') = Len(starts) + 1 /\ DOMAIN starts' = 1 .. Len(starts) + 1
        /\ \A i \in 1 .. Len(starts) : starts'[i] = starts[i]
        /\ starts'[Len(starts) + 1] = 0
    <3>1. starts' = Append(starts, 0) /\ 0 \in 0 .. Hour + 1
      BY <1>2 DEF Start
    <3>2. QED
      BY <1>a, <3>1, AppendProperties, LenProperties
  <2>2. /\ limiter'.sinceCheck = 0 /\ limiter'.thisHour = W.thisHour + 1
        /\ limiter'.sinceHour = W.sinceHour
        /\ W.thisHour < MaxPerHour /\ limiter.sinceCheck >= Delay
    BY <1>2, WindowTyped DEF Start, Allowed, Limiter, W
  <2>3. Earlier' = Len(starts) - W.thisHour
    <3>1. Earlier' = Len(starts') - limiter'.thisHour
      BY DEF Earlier
    <3>2. Len(starts') = Len(starts) + 1 /\ limiter'.thisHour = W.thisHour + 1
      BY <2>1, <2>2
    <3>3. W.thisHour \in Int /\ Len(starts) \in Int
      BY <1>a, <1>b
    <3>4. \A m, n \in Int : (m + 1) - (n + 1) = m - n
      OBVIOUS
    <3>5. QED
      BY <3>1, <3>2, <3>3, <3>4, Zenon
  <2>4. Paced'
    BY <1>a, <1>c, <2>1, <2>2, SMTT(30) DEF Paced
  <2>5. \A i \in 1 .. Len(starts) + 1 :
             /\ starts'[i] >= limiter'.sinceCheck
             /\ i <= Earlier' => starts'[i] >= limiter'.sinceHour
             /\ i <= Earlier' - MaxPerHour => starts'[i] > Hour
    <3> SUFFICES ASSUME NEW i \in 1 .. Len(starts) + 1
                 PROVE  /\ starts'[i] >= 0
                        /\ i <= Len(starts) - W.thisHour => starts'[i] >= W.sinceHour
                        /\ i <= Len(starts) - W.thisHour - MaxPerHour => starts'[i] > Hour
      BY <2>2, <2>3
    <3>1. W.thisHour \in Nat /\ W.thisHour + MaxPerHour \in Nat
      BY <1>b
    <3>2. CASE i \in 1 .. Len(starts)
      BY <1>a, <1>d, <2>1, <3>2
    <3>3. CASE i = Len(starts) + 1
      BY <1>a, <2>1, <3>1, <3>3
    <3>4. Len(starts) \in Nat
      BY <1>a
    <3>5. i \in 1 .. Len(starts) \/ i = Len(starts) + 1
      BY <3>4
    <3>6. QED
      BY <3>2, <3>3, <3>5, Zenon
  <2>6. QED
    BY <2>1, <2>4, <2>5 DEF LimiterInv
<1>3. CASE Tick
  <2>1. /\ DOMAIN starts' = DOMAIN starts /\ Len(starts') = Len(starts)
        /\ \A i \in 1 .. Len(starts) : starts'[i] = IF starts[i] <= Hour THEN starts[i] + 1 ELSE starts[i]
    <3>1. starts' = [i \in 1 .. Len(starts) |-> IF starts[i] <= Hour THEN starts[i] + 1 ELSE starts[i]]
      BY <1>a, <1>3 DEF Tick
    <3>2. \A i \in 1 .. Len(starts) : starts'[i] \in 0 .. Hour + 1
      BY <1>a, <3>1
    <3>3. starts' \in Seq(0 .. Hour + 1)
      BY <1>a, <3>1, <3>2
    <3>4. QED
      BY <1>a, <3>1, <3>3, LenProperties
  <2>2. /\ limiter'.thisHour = limiter.thisHour
        /\ limiter'.sinceCheck = IF limiter.sinceCheck < Delay THEN limiter.sinceCheck + 1
                                                               ELSE limiter.sinceCheck
        /\ limiter'.sinceHour = IF limiter.sinceHour <= Hour THEN limiter.sinceHour + 1
                                                             ELSE limiter.sinceHour
    BY <1>3, LimiterTyped DEF Tick, LimiterElapse, Limiter
  <2>3. \A i \in 1 .. Len(starts) : starts[i] \in 0 .. Hour + 1
    BY <1>a
  <2>4. Earlier' = Earlier
    BY <2>1, <2>2 DEF Earlier
  <2>5. Paced'
    BY <1>a, <1>c, <2>1, <2>3, SMTT(30) DEF Paced
  <2>6. Earlier \in Int
    BY <1>a DEF Earlier
  <2>7. ASSUME NEW i \in 1 .. Len(starts)
        PROVE  /\ starts'[i] >= limiter'.sinceCheck
               /\ i <= Earlier => starts'[i] >= limiter'.sinceHour
               /\ i <= Earlier - MaxPerHour => starts'[i] > Hour
    <3>1. /\ starts[i] \in 0 .. Hour + 1 /\ starts[i] >= limiter.sinceCheck
          /\ i <= Earlier => starts[i] >= limiter.sinceHour
          /\ i <= Earlier - MaxPerHour => starts[i] > Hour
      BY <1>a, <2>3 DEF LimiterInv
    <3>2. starts'[i] = IF starts[i] <= Hour THEN starts[i] + 1 ELSE starts[i]
      BY <2>1
    <3>3. starts'[i] >= limiter'.sinceCheck
      BY <1>a, <2>2, <3>1, <3>2, SMTT(30)
    <3>4. i <= Earlier => starts'[i] >= limiter'.sinceHour
      BY <1>a, <2>2, <2>6, <3>1, <3>2
    <3>5. i <= Earlier - MaxPerHour => starts'[i] > Hour
      BY <2>6, <3>1, <3>2
    <3>6. QED
      BY <3>3, <3>4, <3>5
  <2>8. QED
    BY <1>a, <2>1, <2>4, <2>5, <2>7 DEF LimiterInv
<1>4. CASE UNCHANGED <<limiter, starts>>
  BY <1>4 DEF LimiterInv, Earlier, Paced
<1>5. QED
  BY <1>1, <1>2, <1>3, <1>4
     DEF ChecksStep, Next, checkVars, Progress, Navigate, FillForm,
         SeeResult, CheckNoRecord, ExtractResults, Finish, CaptchaTimeout, CheckFails,
         Throw, OperatorSearches, Shutdown, AdminReset, PortalToggles

\* All checks of the last hour are among the last of two windows.
LEMMA LimiterKeeps ==
    ASSUME TypeOK, LimiterInv
    PROVE  LimiterKept
<1>1. limiter.thisHour \in 0 .. MaxPerHour /\ Len(starts) \in Nat /\ DOMAIN starts = 1 .. Len(starts)
  BY LimiterTyped
<1>2. \A i \in 1 .. Len(starts) - 2 * MaxPerHour : starts[i] > Hour
  BY <1>1, PortalAssumption, ChecksAssumption DEF LimiterInv, Earlier
<1>3. QED
  BY <1>2 DEF LimiterKept, HourlyBound, LimiterInv
-----------------------------------------------------------------------------
LEMMA PageStep ==
    ASSUME TypeOK, PageInv, ChecksStep
    PROVE  PageInv'
<1> USE PortalAssumption, ChecksAssumption DEF TypeOK, Limiter
<1>1. ASSUME NEW c \in Checks, Start(c) PROVE PageInv'
  <2>1. /\ disturbed \subseteq disturbed'
        /\ Running # {} => Running \cup {c} \subseteq disturbed'
        /\ Running' = Running \cup {c}
    BY <1>1 DEF Start, Goto, Running
  <2>2. /\ UNCHANGED <<page, live, got, saved, shut>> /\ pc' = [pc EXCEPT ![c] = "launching"]
    BY <1>1 DEF Start, Goto
  <2>3. \A d \in Checks \ disturbed' : AtPage(d)'
    BY <2>1, <2>2 DEF PageInv, AtPage, Told, Blank
  <2>4. QED
    BY <2>1, <2>2, <2>3 DEF PageInv, LoneCheckSavesOwn
<1>2. ASSUME NEW c \in Checks, Progress(c) PROVE PageInv'
  <2>1. UNCHANGED disturbed /\ Running' \subseteq Running /\ c \in Running
    BY <1>2
       DEF Progress, Navigate, FillForm, SeeResult, CheckNoRecord,
           ExtractResults, Finish, CaptchaTimeout, CheckFails, Throw, Goto,
           Running
  <2>2. \A d \in Checks \ disturbed : d # c => d \notin Running
    BY <2>1 DEF PageInv, Running
  <2>3. \A d \in Checks \ disturbed' : d # c => pc'[d] \in {"idle", "done"}
    BY <2>1, <2>2, <1>2
       DEF Progress, Navigate, FillForm, SeeResult, CheckNoRecord,
           ExtractResults, Finish, CaptchaTimeout, CheckFails, Throw, Goto,
           Running
  <2>4. UNCHANGED shut /\ LoneCheckSavesOwn'
    BY <1>2, <2>1
       DEF PageInv, AtPage, Told, LoneCheckSavesOwn, Progress, Navigate,
           FillForm, SeeResult, CheckNoRecord, ExtractResults, Finish,
           CaptchaTimeout, CheckFails, Throw
  <2>5. c \notin disturbed => AtPage(c)'
    <3> SUFFICES ASSUME c \notin disturbed PROVE AtPage(c)'
      OBVIOUS
    <3>1. AtPage(c)
      BY DEF PageInv
    <3>2. CASE Navigate(c) \/ FillForm(c) \/ SeeResult(c)
      BY <3>1, <3>2 DEF AtPage, Navigate, FillForm, SeeResult, Goto, Blank
    <3>3. CASE CheckNoRecord(c)
      BY <3>1, <3>3 DEF AtPage, Told, CheckNoRecord, Goto
    <3>4. CASE ExtractResults(c)
      BY <3>1, <3>4 DEF AtPage, Told, ExtractResults, Goto
    <3>5. CASE Finish(c) \/ CaptchaTimeout(c) \/ CheckFails(c) \/ Throw(c)
      BY <3>5 DEF AtPage, Finish, CaptchaTimeout, CheckFails, Throw, Goto
    <3>6. QED
      BY <1>2, <3>2, <3>3, <3>4, <3>5 DEF Progress
  <2>6. \A d, e \in Running' : d # e => d \in disturbed'
    BY <2>1 DEF PageInv
  <2>7. \A d \in Checks \ disturbed' : AtPage(d)'
    BY <2>1, <2>3, <2>5 DEF AtPage
  <2>8. QED
    BY <2>4, <2>6, <2>7 DEF PageInv
<1>3. CASE OperatorSearches
  <2>1. \A c \in Checks \ disturbed : AtPage(c)'
    BY <1>3 DEF OperatorSearches, PageInv, AtPage, Told, Blank
  <2>2. QED
    BY <1>3, <2>1 DEF OperatorSearches, PageInv, Running, LoneCheckSavesOwn
<1>4. CASE Shutdown
  <2>1. \A c \in Checks \ disturbed : AtPage(c)'
    BY <1>4 DEF Shutdown, PageInv, AtPage, Told, Blank
  <2>2. QED
    BY <1>4, <2>1 DEF Shutdown, PageInv, Running, LoneCheckSavesOwn
<1>5. CASE UNCHANGED <<page, live, pc, got, saved, disturbed, shut>>
  BY <1>5 DEF PageInv, AtPage, Told, Running, Blank, LoneCheckSavesOwn
<1>6. QED
  BY <1>1, <1>2, <1>3, <1>4, <1>5
     DEF ChecksStep, Next, checkVars, Refuse, AdminReset, PortalToggles,
         Tick
-----------------------------------------------------------------------------
LEMMA ChecksNext == ChecksInv /\ ChecksStep => ChecksInv'
BY ChecksTyped, LimiterStep, PageStep DEF ChecksInv

LEMMA ChecksImplies ==
    ChecksInv => TypeOK /\ LimiterKept /\ LoneCheckSavesOwn
BY LimiterKeeps DEF ChecksInv, PageInv

LEMMA ChecksAlone == Spec => []ChecksInv
<1>1. ChecksInv /\ [Next]_(vars) => ChecksInv'
  <2> SUFFICES ASSUME ChecksInv, Next \/ UNCHANGED vars PROVE ChecksInv'
    OBVIOUS
  <2>1. UNCHANGED vars => ChecksStep
    BY DEF vars, checkVars, ChecksStep, ChecksInv, TypeOK
  <2>2. QED
    BY <2>1, ChecksNext DEF ChecksStep
<1>2. QED
  BY <1>1, ChecksInit, PTL DEF Spec

\* The variables of the checks keep their types.
THEOREM ChecksTypeCorrect == Spec => []TypeOK
BY ChecksAlone, ChecksImplies, PTL

\* The module-level limiter keeps its promises, asked and counted around any
\* number of other requests: checks begin a delay apart, and no hour sees more
\* than twice the limit of its fixed windows.
THEOREM LimiterTheorem == Spec => []LimiterKept
BY ChecksAlone, ChecksImplies, PTL

\* A check that no other one ran beside saves what the portal told of its own
\* passport, whatever is searched, closed and left on the shared page; it saves
\* an empty status only if a shutdown closed its page or the portal's answer
\* has no status the selectors find.
THEOREM LoneCheckTheorem == Spec => []LoneCheckSavesOwn
BY ChecksAlone, ChecksImplies, PTL

\* The same holds beside the spot checks, which touch the breaker only.
THEOREM BesideSpotChecks ==
    PortalSpec => [](TypeOK /\ LimiterKept /\ LoneCheckSavesOwn)
<1>1. PortalInit => ChecksInv
  BY ChecksInit DEF PortalInit
<1>2. ChecksInv /\ [PortalNext]_portalVars => ChecksInv'
  <2> SUFFICES ASSUME ChecksInv, [PortalNext]_portalVars PROVE ChecksInv'
    OBVIOUS
  <2>1. FetchStep \/ PortalTick => ChecksStep
    BY DEF FetchStep, PortalTick, ChecksStep, Next
  <2>2. SpotStep => ChecksStep
    <3>2. SpotStep => UNCHANGED checkVars /\ breaker' = RecordSuccess(AfterCanProceed(breaker))
      BY SameMethods DEF SpotStep, Spot!SpotCheck
    <3>3. QED
      BY <3>2, MethodsTyped DEF ChecksStep, ChecksInv, TypeOK
  <2>3. UNCHANGED portalVars => ChecksStep
    BY DEF portalVars, ChecksStep, ChecksInv, TypeOK
  <2>4. QED
    BY <2>1, <2>2, <2>3, ChecksNext DEF PortalNext
<1>3. QED
  BY <1>1, <1>2, ChecksImplies, PTL DEF PortalSpec
=============================================================================
