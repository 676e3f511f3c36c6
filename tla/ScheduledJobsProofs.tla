------------------------- MODULE ScheduledJobsProofs -------------------------
(***************************************************************************)
(* The overlap guard and the lists of the scheduler's handlers, for any    *)
(* alerts, channels, starts and bounds.                                    *)
(***************************************************************************)
EXTENDS ScheduledJobs, TLAPS

RunType == [pc: Stages, of: 0 .. MaxStarts, now: 0 .. MaxClock, todo: SUBSET Alerts,
            alert: Alerts \cup {NoAlert}, channel: 0 .. Len(Channels)]

\* A run under way is marked in the job object it was started from.
Marked == \A n \in Names, s \in Slots : ~Runs(n, s, "none") => <<n, run[n][s].of>> \in busy

IInv == TypeOK /\ Marked /\ OneRunPerJob
-----------------------------------------------------------------------------
LEMMA NoRunTyped == NoRun \in RunType
BY SchedulerAssumption DEF NoRun, RunType, Stages

\* One slot of one job is written and all others keep their run.
LEMMA BecomesEffect ==
    ASSUME run \in [Names -> [Slots -> RunType]], NEW n \in Names, NEW s, NEW r,
           RunBecomes(n, s, r)
    PROVE  /\ \A m \in Names, t \in Slots :
                 run'[m][t] = IF m = n /\ t = s THEN r ELSE run[m][t]
           /\ r \in RunType => run' \in [Names -> [Slots -> RunType]]
BY DEF RunBecomes

\* The reads of a run written field by field.
LEMMA FieldsOf ==
    ASSUME NEW r \in RunType, NEW pc \in Stages, NEW todo \in SUBSET Alerts,
           NEW of \in 0 .. MaxStarts, NEW now \in 0 .. MaxClock,
           NEW a \in Alerts, NEW c \in 0 .. Len(Channels)
    PROVE  /\ [r EXCEPT !.pc = pc] \in RunType
           /\ [r EXCEPT !.pc = pc].todo = r.todo
           /\ [r EXCEPT !.pc = pc].of = r.of
           /\ [r EXCEPT !.pc = pc].alert = r.alert
           /\ [r EXCEPT !.pc = pc].pc = pc
           /\ [r EXCEPT !.channel = c] \in RunType
           /\ [r EXCEPT !.channel = c].todo = r.todo
           /\ [r EXCEPT !.channel = c].of = r.of
           /\ [r EXCEPT !.channel = c].alert = r.alert
           /\ [r EXCEPT !.channel = c].pc = r.pc
           /\ LET x == [r EXCEPT !.pc = pc, !.of = of, !.todo = todo]
              IN  x \in RunType /\ x.pc = pc /\ x.of = of /\ x.todo = todo
           /\ LET x == [r EXCEPT !.pc = pc, !.of = of, !.now = now]
              IN  x \in RunType /\ x.pc = pc /\ x.of = of /\ x.todo = r.todo
           /\ LET x == [r EXCEPT !.pc = pc, !.todo = @ \ {a}, !.alert = a, !.channel = c]
              IN  x \in RunType /\ x.pc = pc /\ x.of = r.of /\ x.todo = r.todo \ {a}
                  /\ x.alert = a
BY DEF RunType

Listed(r, a) == a \in r.todo \/ (a = r.alert /\ r.pc = "channel")

\* A run goes on: what it lists was on its list, or is open now.
Continues(n, s) ==
    \E r \in RunType :
        /\ RunBecomes(n, s, r)
        /\ r.of = run[n][s].of
        /\ r.pc # "none"
        /\ \A a \in Alerts : Listed(r, a) => Listed(run[n][s], a) \/ alerts[a].status = "OPEN"
        /\ UNCHANGED busy

\* Every alert of a list is on the list of its run.
LEMMA SendsEffect ==
    ASSUME TypeOK, NEW n \in Names, NEW s \in Slots, NEW todo \in SUBSET Alerts,
           \A a \in todo : a \in run[n][s].todo \/ alerts[a].status = "OPEN",
           Sends(n, s, todo)
    PROVE  Continues(n, s) \/ Ends(n, s)
<1>1. CASE todo = {}
  BY <1>1 DEF Sends
<1>2. CASE todo # {}
  <2> DEFINE r == [NoRun EXCEPT !.pc = "send", !.of = run[n][s].of, !.todo = todo]
  <2>1. RunBecomes(n, s, r) /\ UNCHANGED busy
    BY <1>2 DEF Sends
  <2>2. run[n][s].of \in 0 .. MaxStarts
    BY DEF TypeOK
  <2>3. "send" \in Stages
    BY DEF Stages
  <2>4. r \in RunType /\ r.pc = "send" /\ r.of = run[n][s].of /\ r.todo = todo
    BY <2>2, <2>3, NoRunTyped DEF RunType
  <2> HIDE DEF r
  <2>5. \A a \in Alerts : Listed(r, a) => Listed(run[n][s], a) \/ alerts[a].status = "OPEN"
    BY <2>4 DEF Listed
  <2>6. QED
    BY <2>1, <2>4, <2>5 DEF Continues
<1>3. QED
  BY <1>1, <1>2

LEMMA StageEffect ==
    ASSUME TypeOK, NEW n \in Names, NEW s \in Slots,
           NEW pc \in Stages \ {"none", "channel"},
           RunBecomes(n, s, [run[n][s] EXCEPT !.pc = pc]), UNCHANGED busy
    PROVE  Continues(n, s)
<1>1. run[n][s] \in RunType
  BY DEF TypeOK, RunType
<1> DEFINE r == [run[n][s] EXCEPT !.pc = pc]
<1>2. /\ r \in RunType /\ r.todo = run[n][s].todo /\ r.of = run[n][s].of /\ r.pc = pc
  BY <1>1 DEF RunType
<1> HIDE DEF r
<1>3. \A a \in Alerts : Listed(r, a) => Listed(run[n][s], a)
  BY <1>2 DEF Listed
<1>4. QED
  BY <1>2, <1>3 DEF Continues, r

LEMMA ChannelEffect ==
    ASSUME TypeOK, NEW n \in Names, NEW s \in Slots, Channel(n, s)
    PROVE  Continues(n, s) \/ Ends(n, s)
<1>1. run[n][s] \in RunType /\ run[n][s].pc = "channel"
  BY DEF TypeOK, RunType, Channel, Runs
<1> DEFINE c == run[n][s].channel + 1
           r == [run[n][s] EXCEPT !.channel = c]
<1>2. CASE run[n][s].channel < Len(Channels)
  <2>1. RunBecomes(n, s, r) /\ UNCHANGED busy
    BY <1>2 DEF Channel, NextChannel
  <2>2. run[n][s].channel \in 0 .. Len(Channels) /\ Len(Channels) \in Nat
    BY <1>1, SchedulerAssumption DEF RunType
  <2>3. c \in 0 .. Len(Channels)
    BY <1>2, <2>2
  <2> HIDE DEF c
  <2>4. /\ r \in RunType /\ r.todo = run[n][s].todo /\ r.of = run[n][s].of
        /\ r.pc = run[n][s].pc /\ r.alert = run[n][s].alert
    BY <1>1, <2>3 DEF RunType
  <2> HIDE DEF r
  <2>5. \A a \in Alerts : Listed(r, a) => Listed(run[n][s], a)
    BY <2>4 DEF Listed
  <2>6. QED
    BY <1>1, <2>1, <2>4, <2>5 DEF Continues
<1>3. CASE ~(run[n][s].channel < Len(Channels))
  <2>1. Sends(n, s, run[n][s].todo)
    BY <1>3 DEF Channel, NextChannel
  <2>2. run[n][s].todo \in SUBSET Alerts
    BY <1>1 DEF RunType
  <2>3. QED
    BY <2>1, <2>2, SendsEffect
<1>4. QED
  BY <1>2, <1>3

LEMMA LoadEffect ==
    ASSUME TypeOK, NEW n \in Names, NEW s \in Slots, Load(n, s)
    PROVE  Continues(n, s) \/ Ends(n, s)
<1>1. run[n][s] \in RunType
  BY DEF TypeOK, RunType
<1>2. PICK a \in run[n][s].todo :
          IF Channels = <<>> THEN Sends(n, s, run[n][s].todo \ {a})
          ELSE /\ RunBecomes(n, s, [run[n][s] EXCEPT !.pc = "channel", !.todo = @ \ {a},
                                                     !.alert = a, !.channel = 1])
               /\ UNCHANGED busy
  BY DEF Load
<1>3. a \in Alerts /\ run[n][s].todo \in SUBSET Alerts
  BY <1>1 DEF RunType
<1>4. CASE Channels = <<>>
  BY <1>2, <1>3, <1>4, SendsEffect
<1>5. CASE Channels # <<>>
  <2> DEFINE r == [run[n][s] EXCEPT !.pc = "channel", !.todo = @ \ {a}, !.alert = a,
                                    !.channel = 1]
  <2>1. 1 \in 0 .. Len(Channels)
    BY <1>5, SchedulerAssumption
  <2>2. "channel" \in Stages
    BY DEF Stages
  <2>3. /\ r \in RunType /\ r.todo = run[n][s].todo \ {a} /\ r.of = run[n][s].of
        /\ r.pc = "channel" /\ r.alert = a
    BY <1>1, <1>3, <2>1, <2>2 DEF RunType
  <2>4. RunBecomes(n, s, r) /\ UNCHANGED busy
    BY <1>2, <1>5
  <2> HIDE DEF r
  <2>5. \A b \in Alerts : Listed(r, b) => Listed(run[n][s], b)
    BY <1>2, <2>3 DEF Listed
  <2>6. QED
    BY <2>3, <2>4, <2>5 DEF Continues
<1>6. QED
  BY <1>4, <1>5

\* What one await of a handler can do to its run.
LEMMA HandlerEffect ==
    ASSUME TypeOK, NEW n \in Names, NEW s \in Slots, Advance(n, s) \/ QueryFails(n, s)
    PROVE  ~Runs(n, s, "none") /\ (Continues(n, s) \/ Ends(n, s))
<1>1. ~Runs(n, s, "none")
  BY DEF Advance, QueryFails, Runs, Engine, Fresh, List, Load, Channel, Count, Log
<1>2. CASE Engine(n, s)
  <2>1. \/ RunBecomes(n, s, [run[n][s] EXCEPT !.pc = "fresh"]) /\ UNCHANGED busy
        \/ Ends(n, s)
    BY <1>2 DEF Engine
  <2>2. QED
    BY <2>1, <1>1, StageEffect DEF Stages
<1>3. CASE Fresh(n, s)
  BY <1>1, <1>3, SendsEffect DEF Fresh, OpenAlerts
<1>4. CASE List(n, s)
  BY <1>1, <1>4, SendsEffect DEF List, OpenAlerts
<1>5. CASE Load(n, s)
  BY <1>1, <1>5, LoadEffect
<1>6. CASE Channel(n, s)
  BY <1>1, <1>6, ChannelEffect
<1>7. CASE Count(n, s)
  <2>1. \/ RunBecomes(n, s, [run[n][s] EXCEPT !.pc = "log"]) /\ UNCHANGED busy
        \/ Ends(n, s)
    BY <1>7 DEF Count
  <2>2. QED
    BY <2>1, <1>1, StageEffect DEF Stages
<1>8. CASE Log(n, s) \/ QueryFails(n, s)
  BY <1>1, <1>8 DEF Log, QueryFails
<1>9. QED
  BY <1>2, <1>3, <1>4, <1>5, <1>6, <1>7, <1>8 DEF Advance
-----------------------------------------------------------------------------
\* A call of a handler, by the timer or by hand.
LEMMA CallEffect ==
    ASSUME TypeOK, NEW n \in Names, Trigger(n) \/ Fire(n)
    PROVE  /\ scheduler \in 1 .. starts
           /\ <<n, scheduler>> \notin busy
           /\ busy' = busy \cup {<<n, scheduler>>}
           /\ UNCHANGED <<scheduler, starts, alerts, clock, moves>>
           /\ runs' \in 0 .. MaxRuns
           /\ \E s, r : /\ RunBecomes(n, s, r)
                        /\ r \in RunType /\ r.of = scheduler /\ r.pc # "none"
                        /\ \A a : ~Listed(r, a)
<1>1. Begin(n) /\ scheduler # 0 /\ <<n, scheduler>> \notin busy
  BY DEF Trigger, Fire
<1>2. scheduler \in 1 .. starts
  BY <1>1 DEF TypeOK
<1>3. PICK s : RunBecomes(n, s, [NoRun EXCEPT !.pc = FirstStage(n), !.of = scheduler,
                                   !.now = IF n = "alert_escalation" THEN clock ELSE 0])
  BY <1>1 DEF Begin
<1> DEFINE pc == FirstStage(n)
           now == IF n = "alert_escalation" THEN clock ELSE 0
           r == [NoRun EXCEPT !.pc = pc, !.of = scheduler, !.now = now]
<1>4. pc \in Stages \ {"none", "channel"}
  BY DEF FirstStage, Names, Stages
<1>5. now \in 0 .. MaxClock /\ scheduler \in 0 .. MaxStarts
  BY <1>2, SchedulerAssumption DEF TypeOK
<1> HIDE DEF pc, now
<1>6. r \in RunType /\ r.of = scheduler /\ r.pc = pc /\ r.todo = {}
  BY <1>4, <1>5, NoRunTyped DEF RunType, NoRun
<1>7. RunBecomes(n, s, r)
  BY <1>3 DEF pc, now
<1> HIDE DEF r
<1>8. \A a : ~Listed(r, a)
  BY <1>4, <1>6 DEF Listed
<1>9. runs' \in 0 .. MaxRuns
  BY SchedulerAssumption DEF Trigger, Fire, TypeOK
<1>10. UNCHANGED <<scheduler, starts, alerts, clock, moves>> /\ busy' = busy \cup {<<n, scheduler>>}
  BY <1>1 DEF Begin
<1>11. r.pc # "none"
  BY <1>4, <1>6
<1>12. \E t, q : /\ RunBecomes(n, t, q)
                 /\ q \in RunType /\ q.of = scheduler /\ q.pc # "none"
                 /\ \A a : ~Listed(q, a)
  BY <1>6, <1>7, <1>8, <1>11
<1>13. QED
  BY <1>1, <1>2, <1>9, <1>10, <1>12

\* The guard of both callers and the finally block keep the marks in step with
\* the runs.
LEMMA CallGuards ==
    ASSUME IInv, NEW n \in Names, Trigger(n) \/ Fire(n)
    PROVE  Marked' /\ OneRunPerJob'
<1>1. PICK s, r : RunBecomes(n, s, r) /\ r.of = scheduler
  BY CallEffect DEF IInv
<1>2. \A m \in Names, t \in Slots : run'[m][t] = IF m = n /\ t = s THEN r ELSE run[m][t]
  BY <1>1, BecomesEffect, SMTT(30) DEF IInv, TypeOK, RunType
<1>3. busy' = busy \cup {<<n, scheduler>>} /\ <<n, scheduler>> \notin busy
  BY CallEffect DEF IInv
<1>4. Marked'
  BY <1>1, <1>2, <1>3 DEF IInv, Marked, Runs
<1>5. \A t \in Slots : ~Runs(n, t, "none") => run[n][t].of # scheduler
  BY <1>3 DEF IInv, Marked
<1>6. OneRunPerJob'
  BY <1>1, <1>2, <1>5 DEF IInv, OneRunPerJob, Runs
<1>7. QED
  BY <1>4, <1>6

LEMMA HandlerGuards ==
    ASSUME IInv, NEW n \in Names, NEW s \in Slots, Advance(n, s) \/ QueryFails(n, s)
    PROVE  Marked' /\ OneRunPerJob'
<1>1. ~Runs(n, s, "none") /\ (Continues(n, s) \/ Ends(n, s))
  BY HandlerEffect DEF IInv
<1>2. run \in [Names -> [Slots -> RunType]]
  BY DEF IInv, TypeOK, RunType
<1>3. CASE Continues(n, s)
  <2>1. PICK r : RunBecomes(n, s, r) /\ r.of = run[n][s].of /\ r.pc # "none" /\ busy' = busy
    BY <1>3 DEF Continues
  <2>2. \A m \in Names, t \in Slots : run'[m][t] = IF m = n /\ t = s THEN r ELSE run[m][t]
    BY <1>2, <2>1, BecomesEffect
  <2>3. \A m \in Names, t \in Slots : /\ run'[m][t].of = run[m][t].of
                                      /\ Runs(m, t, "none")' <=> Runs(m, t, "none")
    BY <1>1, <2>1, <2>2 DEF Runs
  <2>4. QED
    BY <2>1, <2>3 DEF IInv, Marked, OneRunPerJob
<1>4. CASE Ends(n, s)
  <2>1. RunBecomes(n, s, NoRun) /\ busy' = busy \ {<<n, run[n][s].of>>}
    BY <1>4 DEF Ends
  <2>2. \A m \in Names, t \in Slots : run'[m][t] = IF m = n /\ t = s THEN NoRun ELSE run[m][t]
    BY <1>2, <2>1, BecomesEffect
  <2>3. Runs(n, s, "none")'
    BY <2>2 DEF Runs, NoRun
  <2>4. \A m \in Names, t \in Slots : ~(m = n /\ t = s) =>
            /\ run'[m][t].of = run[m][t].of
            /\ Runs(m, t, "none")' <=> Runs(m, t, "none")
    BY <2>2 DEF Runs
  <2>5. \A t \in Slots : t # s /\ ~Runs(n, t, "none") => run[n][t].of # run[n][s].of
    BY <1>1 DEF IInv, OneRunPerJob
  <2>6. Marked'
    BY <2>1, <2>3, <2>4, <2>5 DEF IInv, Marked
  <2>7. OneRunPerJob'
    BY <2>3, <2>4 DEF IInv, OneRunPerJob
  <2>8. QED
    BY <2>6, <2>7
<1>5. QED
  BY <1>1, <1>3, <1>4
-----------------------------------------------------------------------------
LEMMA InitInv == Init => IInv
<1> SUFFICES ASSUME Init PROVE IInv
  OBVIOUS
<1>1. run \in [Names -> [Slots -> RunType]]
  BY NoRunTyped DEF Init
<1>2. TypeOK
  BY <1>1, SchedulerAssumption DEF Init, TypeOK, RunType
<1>3. \A n \in Names, s \in Slots : Runs(n, s, "none")
  BY DEF Init, Runs, NoRun
<1>4. QED
  BY <1>2, <1>3 DEF IInv, Marked, OneRunPerJob

LEMMA CallTyped ==
    ASSUME TypeOK, NEW n \in Names, Trigger(n) \/ Fire(n)
    PROVE  TypeOK'
<1>1. PICK s, r : RunBecomes(n, s, r) /\ r \in RunType
  BY CallEffect
<1>2. run' \in [Names -> [Slots -> RunType]]
  BY <1>1, BecomesEffect DEF TypeOK, RunType
<1>3. busy' \subseteq Names \X (1 .. starts)
  <2>1. busy' = busy \cup {<<n, scheduler>>} /\ scheduler \in 1 .. starts
    BY CallEffect
  <2>2. QED
    BY <2>1 DEF TypeOK
<1>4. owed' = owed
  BY DEF Trigger, Fire, Begin
<1>5. QED
  BY <1>2, <1>3, <1>4, CallEffect DEF TypeOK, RunType

LEMMA HandlerTyped ==
    ASSUME TypeOK, NEW n \in Names, NEW s \in Slots, Advance(n, s) \/ QueryFails(n, s)
    PROVE  TypeOK'
<1>1. /\ run' \in [Names -> [Slots -> RunType]]
      /\ busy' \subseteq Names \X (1 .. starts)
  <2>1. run \in [Names -> [Slots -> RunType]]
    BY DEF TypeOK, RunType
  <2>2. Continues(n, s) => run' \in [Names -> [Slots -> RunType]] /\ busy' = busy
    BY <2>1, BecomesEffect DEF Continues
  <2>3. Ends(n, s) => run' \in [Names -> [Slots -> RunType]] /\ busy' \subseteq busy
    BY <2>1, BecomesEffect, NoRunTyped DEF Ends
  <2>4. QED
    BY <2>2, <2>3, HandlerEffect DEF TypeOK
<1>2. alerts' \in [Alerts -> [status: {"NONE", "OPEN", "ACKNOWLEDGED", "RESOLVED",
                                       "FALSE_POSITIVE"}, born: 0 .. MaxClock]]
  <2>1. CASE Engine(n, s)
    <3>1. PICK raised : alerts' = [a \in Alerts |->
              IF a \in raised THEN [status |-> "OPEN", born |-> clock] ELSE alerts[a]]
      BY <2>1 DEF Engine
    <3>2. QED
      BY <3>1 DEF TypeOK
  <2>2. CASE ~Engine(n, s)
    BY <2>2 DEF TypeOK, Advance, QueryFails, Fresh, List, Load, Channel, Count, Log
  <2>3. QED
    BY <2>1, <2>2
<1>3. /\ UNCHANGED <<scheduler, starts, clock, runs>>
      /\ owed' \subseteq owed
      /\ moves' \in 0 .. MaxMoves
  <2>1. CASE Advance(n, s)
    BY <2>1 DEF TypeOK, Advance, Engine, Fresh, List, Load, Channel, Count, Log
  <2>2. CASE QueryFails(n, s)
    BY <2>2, SchedulerAssumption DEF TypeOK, QueryFails, Move
  <2>3. QED
    BY <2>1, <2>2
<1>4. QED
  BY <1>1, <1>2, <1>3 DEF TypeOK, RunType

\* The steps of the operators, the clock and the process.
Outside ==
    \/ Start \/ Stop \/ Crash \/ Tick
    \/ \E a \in Alerts : Raise(a)
    \/ \E a \in Alerts, status \in Settlements : Settle(a, status)

LEMMA OutsideEffect ==
    ASSUME Outside \/ UNCHANGED vars
    PROVE  \/ run' = run /\ busy' = busy
           \/ run' = [n \in Names |-> [s \in Slots |-> NoRun]] /\ busy' = {}
BY DEF Outside, Start, Stop, Crash, Tick, Raise, Settle, vars

LEMMA OutsideTyped == ASSUME TypeOK, Outside \/ UNCHANGED vars PROVE TypeOK'
<1> USE SchedulerAssumption
<1>1. CASE Start
  <2>1. starts' \in 0 .. MaxStarts /\ scheduler' \in 0 .. starts'
    BY <1>1 DEF TypeOK, Start
  <2>2. 1 .. starts \subseteq 1 .. starts'
    BY <1>1 DEF TypeOK, Start
  <2>3. busy' \subseteq Names \X (1 .. starts')
    BY <1>1, <2>2 DEF TypeOK, Start
  <2>4. QED
    BY <1>1, <2>1, <2>3 DEF TypeOK, Start
<1>2. CASE Stop
  BY <1>2 DEF TypeOK, Stop
<1>3. CASE Crash
  <2>1. run' \in [Names -> [Slots -> RunType]]
    BY <1>3, NoRunTyped DEF Crash
  <2>2. QED
    BY <1>3, <2>1 DEF TypeOK, RunType, Crash, Move
<1>4. CASE Tick
  <2>1. clock' \in 0 .. MaxClock
    BY <1>4 DEF TypeOK, Tick
  <2>2. owed' \subseteq Alerts \X DOMAIN Channels
    BY <1>4 DEF TypeOK, Tick, OpenAlerts
  <2>3. QED
    BY <1>4, <2>1, <2>2 DEF TypeOK, Tick
<1>5. ASSUME NEW a \in Alerts, Raise(a) PROVE TypeOK'
  BY <1>5 DEF TypeOK, Raise, Move
<1>6. ASSUME NEW a \in Alerts, NEW status \in Settlements, Settle(a, status) PROVE TypeOK'
  <2>1. [alerts[a] EXCEPT !.status = status] \in
            [status: {"NONE", "OPEN", "ACKNOWLEDGED", "RESOLVED", "FALSE_POSITIVE"},
             born: 0 .. MaxClock]
    BY DEF TypeOK
  <2>2. alerts' = [alerts EXCEPT ![a] = [alerts[a] EXCEPT !.status = status]]
    BY <1>6 DEF Settle
  <2>3. alerts' \in [Alerts -> [status: {"NONE", "OPEN", "ACKNOWLEDGED", "RESOLVED",
                                         "FALSE_POSITIVE"}, born: 0 .. MaxClock]]
    BY <2>1, <2>2 DEF TypeOK
  <2>4. QED
    BY <1>6, <2>3, SMTT(30) DEF TypeOK, Settle, Move
<1>7. CASE UNCHANGED vars
  BY <1>7 DEF TypeOK, vars
<1>8. QED
  BY <1>1, <1>2, <1>3, <1>4, <1>5, <1>6, <1>7 DEF Outside

LEMMA OutsideGuards == ASSUME IInv, Outside \/ UNCHANGED vars PROVE Marked' /\ OneRunPerJob'
<1>1. CASE run' = run /\ busy' = busy
  BY <1>1 DEF IInv, Marked, OneRunPerJob, Runs
<1>2. CASE run' = [n \in Names |-> [s \in Slots |-> NoRun]]
  BY <1>2 DEF Marked, OneRunPerJob, Runs, NoRun
<1>3. QED
  BY <1>1, <1>2, OutsideEffect

LEMMA NextSplits ==
    ASSUME [Next]_vars
    PROVE  \/ \E n \in Names : Trigger(n) \/ Fire(n)
           \/ \E n \in Names, s \in Slots : Advance(n, s) \/ QueryFails(n, s)
           \/ Outside \/ UNCHANGED vars
BY DEF Next, Outside

LEMMA NextInv == IInv /\ [Next]_vars => IInv'
<1> SUFFICES ASSUME IInv, [Next]_vars PROVE IInv'
  OBVIOUS
<1>1. ASSUME NEW n \in Names, Trigger(n) \/ Fire(n) PROVE IInv'
  BY <1>1, CallTyped, CallGuards DEF IInv
<1>2. ASSUME NEW n \in Names, NEW s \in Slots, Advance(n, s) \/ QueryFails(n, s) PROVE IInv'
  BY <1>2, HandlerTyped, HandlerGuards DEF IInv
<1>3. CASE Outside \/ UNCHANGED vars
  BY <1>3, OutsideTyped, OutsideGuards DEF IInv
<1>4. QED
  BY <1>1, <1>2, <1>3, NextSplits

LEMMA SpecInv == Spec => []IInv
BY InitInv, NextInv, PTL DEF Spec
-----------------------------------------------------------------------------
\* Every reachable state of the scheduler, the runs and the alerts has its type.
THEOREM TypeCorrect == Spec => []TypeOK
<1>1. IInv => TypeOK
  BY DEF IInv
<1>2. QED
  BY <1>1, SpecInv, PTL

\* However timers, triggers, stops, starts, errors and crashes come, two runs
\* of a job under way were called from different starts of the scheduler.
THEOREM OneRunTheorem == Spec => []OneRunPerJob
<1>1. IInv => OneRunPerJob
  BY DEF IInv
<1>2. QED
  BY <1>1, SpecInv, PTL

\* No run puts an alert on its list that is settled and on no list yet.
THEOREM QuietTheorem == Spec => SettledStaysQuiet
<1>1. ASSUME IInv, Next, NEW a \in Alerts, alerts[a].status # "OPEN", ~OnList(a)
      PROVE  ~OnList(a)'
  <2>1. \A n \in Names, s \in Slots : ~Listed(run[n][s], a)
    BY <1>1 DEF OnList, Listed, Runs
  <2>2. run \in [Names -> [Slots -> RunType]]
    BY <1>1 DEF IInv, TypeOK, RunType
  <2>3. ~Listed(NoRun, a)
    BY DEF Listed, NoRun
  <2>4. SUFFICES \A n \in Names, s \in Slots : ~Listed(run'[n][s], a)
    BY DEF OnList, Listed, Runs
  <2>5. ASSUME NEW n \in Names, Trigger(n) \/ Fire(n)
        PROVE  \A m \in Names, t \in Slots : ~Listed(run'[m][t], a)
    <3>1. PICK s, r : RunBecomes(n, s, r) /\ ~Listed(r, a)
      BY <1>1, <2>5, CallEffect DEF IInv
    <3>2. QED
      BY <2>1, <2>2, <3>1, BecomesEffect
  <2>6. ASSUME NEW n \in Names, NEW s \in Slots, Advance(n, s) \/ QueryFails(n, s)
        PROVE  \A m \in Names, t \in Slots : ~Listed(run'[m][t], a)
    <3>1. \E r : RunBecomes(n, s, r) /\ ~Listed(r, a)
      <4>1. Continues(n, s) \/ Ends(n, s)
        BY <1>1, <2>6, HandlerEffect DEF IInv
      <4>2. CASE Continues(n, s)
        BY <1>1, <2>1, <4>2 DEF Continues
      <4>3. CASE Ends(n, s)
        BY <2>3, <4>3 DEF Ends
      <4>4. QED
        BY <4>1, <4>2, <4>3
    <3>2. QED
      BY <2>1, <2>2, <3>1, BecomesEffect
  <2>7. CASE Outside \/ UNCHANGED vars
    BY <2>1, <2>3, <2>7, OutsideEffect
  <2>8. QED
    BY <1>1, <2>5, <2>6, <2>7, NextSplits
<1>2. IInv /\ [Next]_vars =>
         [\A a \in Alerts : alerts[a].status # "OPEN" /\ ~OnList(a) => ~OnList(a)']_vars
  BY <1>1
<1>3. QED
  BY <1>2, SpecInv, PTL DEF Spec, SettledStaysQuiet
=============================================================================
