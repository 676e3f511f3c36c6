---------------------------- MODULE ScheduledJobs ----------------------------
(***************************************************************************)
(* JobScheduler and AlertService: the interval of each job, the manual     *)
(* trigger, and the handlers that send alerts or write to the log.  A run  *)
(* is a call of a handler; between two of its awaits anything may happen:  *)
(* operators settle alerts, other runs raise them, the scheduler is stopped*)
(* and started, the process is lost.                                       *)
(*                                                                         *)
(* What the other two jobs do is elsewhere: session_cleanup in SessionPool,*)
(* expired_visa_check in BorderEvents; the engine is Reconciliation.  The  *)
(* intervals are not measured: a timer that is armed may fire.  What only  *)
(* reports read (runCount, lastRun, the log rows) is left out.             *)
(***************************************************************************)
EXTENDS Integers, Sequences, FiniteSets

CONSTANTS
    Alerts,     \* alerts that may ever be raised
    NoAlert,
    Risk,       \* by alert: riskLevel
    Channels,   \* alertConfig.channels, a sequence
    Settlements,\* statuses operators give an alert
    Step,       \* minutes between two values of the clock
    MaxClock,   \* bound
    MaxStarts,  \* bound: starts of the scheduler
    MaxRuns,    \* bound: triggers, and runs of the other jobs than the escalation
    MaxMoves    \* bound: alerts raised or settled by others, failed queries, failed
                \* channels and crashes, together

Names == {"full_reconciliation", "alert_escalation", "daily_digest", "stale_data_check"}

ASSUME SchedulerAssumption ==
    /\ IsFiniteSet(Alerts) /\ NoAlert \notin Alerts
    /\ Risk \in [Alerts -> {"CRITICAL", "HIGH", "MEDIUM", "LOW"}]
    /\ Channels \in Seq({"CONSOLE", "WEBHOOK", "SLACK", "EMAIL"})
    /\ Settlements \subseteq {"ACKNOWLEDGED", "RESOLVED", "FALSE_POSITIVE"}
    /\ Step \in Nat \ {0, 1} /\ MaxClock \in Nat /\ MaxStarts \in Nat
    /\ MaxRuns \in Nat /\ MaxMoves \in Nat

VARIABLES
    scheduler, \* the start whose jobs are in the map, 0 after stop
    starts,
    busy,      \* isRunning of the job objects: name and start
    run,       \* the runs under way, by name; a new one takes the first free slot
    alerts,    \* ghost_alerts
    clock,
    runs, moves,
    owed       \* history: alerts and channels they should be sent to again

vars == <<scheduler, starts, busy, run, alerts, clock, runs, moves, owed>>

Slots == 1 .. MaxStarts + 1
Stages == {"none", "list", "engine", "fresh", "send", "channel", "digest", "stale", "log"}
NoRun == [pc |-> "none", of |-> 0, now |-> 0, todo |-> {}, alert |-> NoAlert, channel |-> 0]

TypeOK ==
    /\ starts \in 0 .. MaxStarts /\ scheduler \in 0 .. starts
    /\ busy \subseteq Names \X (1 .. starts)
    /\ run \in [Names -> [Slots -> [pc: Stages, of: 0 .. MaxStarts, now: 0 .. MaxClock,
                                    todo: SUBSET Alerts, alert: Alerts \cup {NoAlert},
                                    channel: 0 .. Len(Channels)]]]
    /\ alerts \in [Alerts -> [status: {"NONE", "OPEN", "ACKNOWLEDGED", "RESOLVED",
                                       "FALSE_POSITIVE"}, born: 0 .. MaxClock]]
    /\ clock \in 0 .. MaxClock
    /\ runs \in 0 .. MaxRuns /\ moves \in 0 .. MaxMoves
    /\ owed \subseteq Alerts \X DOMAIN Channels

Init ==
    /\ scheduler = 0 /\ starts = 0 /\ busy = {}
    /\ run = [n \in Names |-> [s \in Slots |-> NoRun]]
    /\ alerts = [a \in Alerts |-> [status |-> "NONE", born |-> 0]]
    /\ clock = 0
    /\ runs = 0 /\ moves = 0
    /\ owed = {}

\* escalationThresholds, in minutes; no other level is in the table.
Threshold(risk) ==
    CASE risk = "CRITICAL" -> 15 [] risk = "HIGH" -> 60 [] OTHER -> 240

Age(a, now) == (now - alerts[a].born) * Step
Overdue(a, now) == Age(a, now) > Threshold(Risk[a])

\* Mutant: the query of the overdue alerts takes the acknowledged ones too.
UnresolvedAlerts == {a \in Alerts : alerts[a].status \in {"OPEN", "ACKNOWLEDGED"}}
OpenAlerts == {a \in Alerts : alerts[a].status = "OPEN"}

Move == moves < MaxMoves /\ moves' = moves + 1
Runs(n, s, pc) == run[n][s].pc = pc
RunBecomes(n, s, r) == run' = [run EXCEPT ![n] = [@ EXCEPT ![s] = r]]

\* The finally block of both callers of a handler.
Ends(n, s) == RunBecomes(n, s, NoRun) /\ busy' = busy \ {<<n, run[n][s].of>>}

\* The loops of the handlers end when there is nothing left to send.
Sends(n, s, todo) ==
    IF todo = {} THEN Ends(n, s)
    ELSE /\ RunBecomes(n, s, [NoRun EXCEPT !.pc = "send", !.of = run[n][s].of, !.todo = todo])
         /\ UNCHANGED busy

\* Mutant: the loop takes one channel too many.
NextChannelLate(n, s) ==
    LET r == run[n][s]
    IN  IF r.channel <= Len(Channels)
        THEN RunBecomes(n, s, [r EXCEPT !.channel = @ + 1]) /\ UNCHANGED busy
        ELSE Sends(n, s, r.todo)

NextChannel(n, s) ==
    LET r == run[n][s]
    IN  IF r.channel < Len(Channels)
        THEN RunBecomes(n, s, [r EXCEPT !.channel = @ + 1]) /\ UNCHANGED busy
        ELSE Sends(n, s, r.todo)
-----------------------------------------------------------------------------
\* start does nothing if it has been called; every job is registered anew.
Start ==
    /\ scheduler = 0 /\ starts < MaxStarts
    /\ starts' = starts + 1
    /\ scheduler' = starts + 1
    /\ UNCHANGED <<busy, run, alerts, clock, runs, moves, owed>>

\* stop clears the timers and the map; a handler under way goes on.
Stop ==
    /\ scheduler # 0
    /\ scheduler' = 0
    /\ UNCHANGED <<starts, busy, run, alerts, clock, runs, moves, owed>>

FirstStage(n) ==
    CASE n = "full_reconciliation" -> "engine" [] n = "alert_escalation" -> "list"
      [] n = "daily_digest" -> "digest" [] n = "stale_data_check" -> "stale"

Free(n) == {s \in Slots : Runs(n, s, "none")}

\* The handler is called; checkEscalations reads the clock before its query.
Begin(n) ==
    /\ Free(n) # {}
    /\ LET s == CHOOSE s \in Free(n) : \A k \in Free(n) : s <= k
       IN  RunBecomes(n, s, [NoRun EXCEPT !.pc = FirstStage(n), !.of = scheduler,
                               !.now = IF n = "alert_escalation" THEN clock ELSE 0])
    /\ busy' = busy \cup {<<n, scheduler>>}
    /\ UNCHANGED <<scheduler, starts, alerts, clock, moves, owed>>

\* Mutant: triggerJob does not ask whether the job is running.
TriggerAnyway(n) ==
    /\ scheduler # 0
    /\ runs < MaxRuns /\ runs' = runs + 1
    /\ Begin(n)

\* triggerJob, and the callback of the interval, which skips a job that runs.
Trigger(n) ==
    /\ scheduler # 0 /\ <<n, scheduler>> \notin busy
    /\ runs < MaxRuns /\ runs' = runs + 1
    /\ Begin(n)

Fire(n) ==
    /\ scheduler # 0 /\ <<n, scheduler>> \notin busy
    /\ IF n = "alert_escalation" THEN UNCHANGED runs
                                 ELSE runs < MaxRuns /\ runs' = runs + 1
    /\ Begin(n)
-----------------------------------------------------------------------------
\* runReconciliation: runFull, which opens alerts; what it returns counts the
\* ghosts whose alert was there before too.
Engine(n, s) ==
    /\ Runs(n, s, "engine")
    /\ \E raised \in SUBSET {a \in Alerts : alerts[a].status = "NONE"}, ghosts \in BOOLEAN :
          /\ raised # {} => ghosts
          /\ alerts' = [a \in Alerts |->
                IF a \in raised THEN [status |-> "OPEN", born |-> clock] ELSE alerts[a]]
          /\ IF ghosts THEN RunBecomes(n, s, [run[n][s] EXCEPT !.pc = "fresh"]) /\ UNCHANGED busy
                       ELSE Ends(n, s)
    /\ UNCHANGED <<scheduler, starts, clock, runs, moves, owed>>

\* Its query: the alerts of the last minute, whoever opened them.
Fresh(n, s) ==
    /\ Runs(n, s, "fresh")
    /\ Sends(n, s, {a \in OpenAlerts : alerts[a].born = clock})
    /\ UNCHANGED <<scheduler, starts, alerts, clock, runs, moves, owed>>

\* The query of checkEscalations.
List(n, s) ==
    /\ Runs(n, s, "list")
    /\ Sends(n, s, {a \in OpenAlerts : Overdue(a, run[n][s].now)})
    /\ UNCHANGED <<scheduler, starts, alerts, clock, runs, moves, owed>>

\* sendGhostAlert: the alert is read again, its status goes into the message only.
Load(n, s) ==
    /\ Runs(n, s, "send")
    /\ \E a \in run[n][s].todo :
          IF Channels = <<>> THEN Sends(n, s, run[n][s].todo \ {a})
          ELSE /\ RunBecomes(n, s, [run[n][s] EXCEPT !.pc = "channel", !.todo = @ \ {a},
                                                     !.alert = a, !.channel = 1])
               /\ UNCHANGED busy
    /\ UNCHANGED <<scheduler, starts, alerts, clock, runs, moves, owed>>

\* One channel after the other; an error of one is caught and logged, so that
\* nothing here depends on whether it got through.
Channel(n, s) ==
    /\ Runs(n, s, "channel")
    /\ LET r == run[n][s] IN owed' = owed \ {<<r.alert, r.channel>>}
    /\ NextChannel(n, s)
    /\ UNCHANGED <<scheduler, starts, alerts, clock, runs, moves>>

\* The queries of the digest and of the stale records; without stale records
\* nothing is logged.
Count(n, s) ==
    /\ \/ Runs(n, s, "digest") /\ RunBecomes(n, s, [run[n][s] EXCEPT !.pc = "log"])
                               /\ UNCHANGED busy
       \/ Runs(n, s, "stale") /\ RunBecomes(n, s, [run[n][s] EXCEPT !.pc = "log"])
                              /\ UNCHANGED busy
       \/ Runs(n, s, "stale") /\ Ends(n, s)
    /\ UNCHANGED <<scheduler, starts, alerts, clock, runs, moves, owed>>

\* Their row in automation_logs, which nothing reads.
Log(n, s) ==
    /\ Runs(n, s, "log")
    /\ Ends(n, s)
    /\ UNCHANGED <<scheduler, starts, alerts, clock, runs, moves, owed>>

\* Mutant: the flag is reset after the handler, not in a finally block.
QueryFailsBusy(n, s) ==
    /\ run[n][s].pc \notin {"none", "channel"}
    /\ Move
    /\ RunBecomes(n, s, NoRun)
    /\ UNCHANGED <<busy, scheduler, starts, alerts, clock, runs, owed>>

\* An error of a query ends the handler, whatever is left of its loop.
QueryFails(n, s) ==
    /\ run[n][s].pc \notin {"none", "channel"}
    /\ Move
    /\ Ends(n, s)
    /\ UNCHANGED <<scheduler, starts, alerts, clock, runs, owed>>
-----------------------------------------------------------------------------
\* What falls due is owed to every channel.
Tick ==
    /\ clock < MaxClock
    /\ clock' = clock + 1
    /\ owed' = owed \cup {a \in OpenAlerts : Overdue(a, clock + 1)} \X DOMAIN Channels
    /\ UNCHANGED <<scheduler, starts, busy, run, alerts, runs, moves>>

\* Other runs of the engine open alerts; the routes settle them, whatever their
\* status is.
Raise(a) ==
    /\ alerts[a].status = "NONE"
    /\ Move
    /\ alerts' = [alerts EXCEPT ![a] = [status |-> "OPEN", born |-> clock]]
    /\ UNCHANGED <<scheduler, starts, busy, run, clock, runs, owed>>

Settle(a, status) ==
    /\ alerts[a].status \notin {"NONE", status}
    /\ Move
    /\ alerts' = [alerts EXCEPT ![a].status = status]
    /\ UNCHANGED <<scheduler, starts, busy, run, clock, runs, owed>>

\* The process is lost with its timers and runs.
Crash ==
    /\ scheduler # 0 /\ Move
    /\ scheduler' = 0
    /\ run' = [n \in Names |-> [s \in Slots |-> NoRun]]
    /\ busy' = {}
    /\ UNCHANGED <<starts, alerts, clock, runs, owed>>

Advance(n, s) ==
    \/ Engine(n, s) \/ Fresh(n, s) \/ List(n, s) \/ Load(n, s) \/ Channel(n, s)
    \/ Count(n, s) \/ Log(n, s)

Next ==
    \/ Start \/ Stop \/ Crash \/ Tick
    \/ \E n \in Names : Trigger(n) \/ Fire(n)
    \/ \E n \in Names, s \in Slots : Advance(n, s) \/ QueryFails(n, s)
    \/ \E a \in Alerts : Raise(a)
    \/ \E a \in Alerts, status \in Settlements : Settle(a, status)

\* setInterval calls its callback again and again, and what a handler awaits is
\* settled: queries and fetches time out.  Nothing depends on the other jobs.
Spec ==
    /\ Init /\ [][Next]_vars
    /\ WF_vars(Fire("alert_escalation"))
    /\ \A s \in Slots : WF_vars(Advance("alert_escalation", s))
-----------------------------------------------------------------------------
(***************************************************************************)
(* A timer and a manual trigger never run a job twice at a time: of two    *)
(* runs of a job, one was left over when the scheduler was stopped.        *)
(***************************************************************************)
OneRunPerJob ==
    \A n \in Names : \A s, t \in Slots :
        s # t /\ ~Runs(n, s, "none") /\ ~Runs(n, t, "none") => run[n][s].of # run[n][t].of

OnList(a) == \E n \in Names, s \in Slots :
                a \in run[n][s].todo \/ (a = run[n][s].alert /\ Runs(n, s, "channel"))

(***************************************************************************)
(* An alert that was settled while no run had it on its list is not sent:  *)
(* only the runs that listed it before may still do so.                    *)
(***************************************************************************)
SettledStaysQuiet ==
    [][\A a \in Alerts : alerts[a].status # "OPEN" /\ ~OnList(a) => ~OnList(a)']_vars

Owed(a) == \E c \in DOMAIN Channels : <<a, c>> \in owed

(***************************************************************************)
(* An open alert that falls due is sent to every channel again, whatever   *)
(* becomes of the other channels, of the other jobs and of earlier runs    *)
(* that failed, unless it is settled or the scheduler is not running.      *)
(***************************************************************************)
OverdueEscalated ==
    \A a \in Alerts :
        Owed(a) /\ scheduler # 0 ~> ~Owed(a) \/ alerts[a].status # "OPEN" \/ scheduler = 0
=============================================================================
