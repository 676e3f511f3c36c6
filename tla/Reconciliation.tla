-------------------------- MODULE Reconciliation --------------------------
(***************************************************************************)
(* Reconciliation runs: the scheduler's, those POST                        *)
(* /reconciliation/trigger starts in the background, and the targeted run  *)
(* of a manual status entry, with the alerts they open, the dispatch after *)
(* a full run and the routes that settle an alert.  Nothing keeps two runs *)
(* apart: every query is a step, runs interleave, a query may fail and the *)
(* server may stop.                                                        *)
(*                                                                         *)
(* A job row belongs to one run, so both carry the job's name.  What an    *)
(* application looks like is a fact of GhostScore; what a check makes of   *)
(* it is decided there.  The auto-resolution update (never taken, theorem  *)
(* NeverAutoResolved) and the operator's notes on a mismatch row, which    *)
(* nothing reads, are left out.                                            *)
(***************************************************************************)
EXTENDS GhostScore, Sequences, FiniteSets

CONSTANTS
    Jobs,         \* jobs that will ever be created
    Apps,
    Facts,        \* what an application may look like
    InitialFacts, \* what they look like at first
    Starts,       \* bound: the kinds of run a job may be created for
    BatchSize,    \* DEFAULT_CONFIG.batchSize
    Settlements,  \* statuses operators give an alert
    MaxMoves,     \* bound: applications updated behind the runs' back, alerts
                  \* settled and times that time passes, together
    MaxFaults     \* bound: failed queries and server stops

Kinds == {"SCHEDULED", "TRIGGERED", "TARGETED"}

ASSUME ReconciliationAssumption ==
    /\ Facts \subseteq Fact
    /\ InitialFacts \subseteq [Apps -> Facts]
    /\ Starts \in [Jobs -> SUBSET Kinds]
    /\ IsFiniteSet(Apps)
    /\ Settlements \subseteq {"ACKNOWLEDGED", "RESOLVED", "FALSE_POSITIVE"}
    /\ BatchSize \in Nat \ {0}
    /\ MaxMoves \in Nat /\ MaxFaults \in Nat

VARIABLES
    facts,       \* the applications
    job,         \* reconciliation_jobs
    run,         \* the run of each job
    rows,        \* reconciliation_mismatches, by job
    alerts,      \* ghost_alerts
    moves, faults,
    stopped,     \* history: the server has stopped
    overlapped   \* history: applications two runs held a copy of at a time

vars == <<facts, job, run, rows, alerts, moves, faults, stopped,
          overlapped>>

JobStates == {"NONE", "PENDING", "RUNNING", "COMPLETED", "FAILED"}
Stages == {"none", "begin", "count", "page", "check", "complete", "failing",
           "dispatch", "send", "over"}

\* A copy of an application in a page; written: its row is in, its alert not.
Copy == [app: Apps, fact: Facts, open: BOOLEAN, written: BOOLEAN]
Job == [status: JobStates, kind: Kinds, checked: Nat, mismatches: Nat,
        ghosts: Nat, errors: Nat]
Run == [pc: Stages, total: Nat, offset: Nat, page: SUBSET Copy,
        target: SUBSET Apps, checked: Nat, mismatches: Nat, ghosts: Nat,
        errors: Nat, toSend: SUBSET Nat]
Alert == [app: Apps, by: Jobs, age: 0 .. 2, sent: BOOLEAN,
          status: {"OPEN", "ACKNOWLEDGED", "RESOLVED", "FALSE_POSITIVE"}]

NoRun == [pc |-> "none", total |-> 0, offset |-> 0, page |-> {}, target |-> {},
          checked |-> 0, mismatches |-> 0, ghosts |-> 0, errors |-> 0,
          toSend |-> {}]
NoJob == [status |-> "NONE", kind |-> "SCHEDULED", checked |-> 0,
          mismatches |-> 0, ghosts |-> 0, errors |-> 0]

TypeOK ==
    /\ facts \in [Apps -> Facts]
    /\ job \in [Jobs -> Job]
    /\ run \in [Jobs -> Run]
    /\ rows \in [Jobs -> Seq([app: Apps, score: 0 .. 100, ghost: BOOLEAN])]
    /\ alerts \in Seq(Alert)
    /\ moves \in 0 .. MaxMoves
    /\ faults \in 0 .. MaxFaults
    /\ stopped \in BOOLEAN
    /\ overlapped \subseteq Apps

Init ==
    /\ facts \in InitialFacts
    /\ job = [j \in Jobs |-> NoJob]
    /\ run = [j \in Jobs |-> NoRun]
    /\ rows = [j \in Jobs |-> <<>>]
    /\ alerts = <<>>
    /\ moves = 0
    /\ faults = 0
    /\ stopped = FALSE
    /\ overlapped = {}

Full(j) == job[j].kind # "TARGETED"
Alive(j) == run[j].pc \notin {"none", "over"}
InScope == {a \in Apps : Reconciled(facts[a])}

\* Mutant: the include of the alerts is not limited to the application.
HasOpenAnywhere(a) == \E i \in DOMAIN alerts : alerts[i].status = "OPEN"
\* Mutant: it looks for alerts somebody has taken up.
HasOpenTaken(a) == \E i \in DOMAIN alerts : /\ alerts[i].app = a
                                             /\ alerts[i].status = "ACKNOWLEDGED"

HasOpen(a) == \E i \in DOMAIN alerts : alerts[i].app = a /\ alerts[i].status = "OPEN"
CopyOf(a) == [app |-> a, fact |-> facts[a], open |-> HasOpen(a), written |-> FALSE]
Held(j) == {c.app : c \in run[j].page}
-----------------------------------------------------------------------------
RunBecomes(j, r) == run' = [run EXCEPT ![j] = r]
JobBecomes(j, r) == job' = [job EXCEPT ![j] = r]
AlertBecomes(i, r) == alerts' = [alerts EXCEPT ![i] = r]

\* The job row is created; the run goes on from there.
Create(j, kind, target) ==
    /\ job[j].status = "NONE" /\ kind \in Starts[j]
    /\ JobBecomes(j, [NoJob EXCEPT !.status = "PENDING", !.kind = kind])
    /\ RunBecomes(j, [NoRun EXCEPT !.pc = "begin", !.target = target])
    /\ UNCHANGED <<facts, rows, alerts, moves, faults, stopped, overlapped>>

\* The scheduler skips a job that is still running, its dispatch included.
Schedule(j) ==
    /\ \A k \in Jobs : job[k].kind = "SCHEDULED" => ~Alive(k)
    /\ Create(j, "SCHEDULED", {})

Trigger(j) == Create(j, "TRIGGERED", {})

\* The last step of a manual entry that stored a differing portal status.
EnterManually(j, a) ==
    /\ facts[a].portal # Unset /\ Differs(facts[a])
    /\ Create(j, "TARGETED", {a})

Begin(j) ==
    /\ run[j].pc = "begin"
    /\ JobBecomes(j, [job[j] EXCEPT !.status = "RUNNING"])
    /\ RunBecomes(j, [run[j] EXCEPT !.pc = IF Full(j) THEN "count" ELSE "page"])
    /\ UNCHANGED <<facts, rows, alerts, moves, faults, stopped, overlapped>>

Count(j) ==
    /\ run[j].pc = "count"
    /\ RunBecomes(j, [run[j] EXCEPT
                        !.total = Cardinality(InScope),
                        !.pc = IF InScope = {} THEN "complete" ELSE "page"])
    /\ UNCHANGED <<facts, job, rows, alerts, moves, faults, stopped, overlapped>>

\* What findMany may return: skip and take without an orderBy leave it to the
\* database which applications make up the page.
PageAt(offset) ==
    LET left == Cardinality(InScope) - offset
        size == IF left < BatchSize THEN left ELSE BatchSize
    IN  {S \in SUBSET InScope : Cardinality(S) = IF size > 0 THEN size ELSE 0}

Fetch(j, S) ==
    /\ RunBecomes(j, [run[j] EXCEPT !.pc = "check", !.page = {CopyOf(a) : a \in S}])
    /\ overlapped' = overlapped \cup
                     {a \in S : \E k \in Jobs \ {j} : a \in Held(k)}
    /\ UNCHANGED <<facts, job, rows, alerts, moves, faults, stopped>>

ReadPage(j) ==
    /\ run[j].pc = "page"
    /\ IF Full(j) THEN \E S \in PageAt(run[j].offset) : Fetch(j, S)
                  ELSE Fetch(j, run[j].target)
-----------------------------------------------------------------------------
\* The run after the check of c has returned its verdict.
Checked(r, c) ==
    [r EXCEPT !.page = @ \ {c}, !.checked = @ + 1,
              !.mismatches = @ + Points(IsMismatch(c.fact), 1),
              !.ghosts = @ + Points(IsGhost(c.fact), 1)]

\* No mismatch: the check ends without a query.
CheckClean(j, c) ==
    /\ ~IsMismatch(c.fact)
    /\ RunBecomes(j, Checked(run[j], c))
    /\ UNCHANGED <<facts, job, rows, alerts, moves, faults, stopped, overlapped>>

\* The row of a mismatch; a ghost without an OPEN alert gets one next.
WriteRow(j, c) ==
    /\ IsMismatch(c.fact) /\ ~c.written
    /\ rows' = [rows EXCEPT ![j] = Append(rows[j],
                    [app |-> c.app, score |-> RowScore(c.fact),
                     ghost |-> IsGhost(c.fact)])]
    /\ RunBecomes(j, IF IsGhost(c.fact) /\ ~c.open
                     THEN [run[j] EXCEPT !.page = (run[j].page \ {c}) \cup
                                                  {[c EXCEPT !.written = TRUE]}]
                     ELSE Checked(run[j], c))
    /\ UNCHANGED <<facts, job, alerts, moves, faults, stopped, overlapped>>

OpenAlert(j, c) ==
    /\ c.written
    /\ alerts' = Append(alerts, [app |-> c.app, by |-> j, age |-> 0,
                                 sent |-> FALSE, status |-> "OPEN"])
    /\ RunBecomes(j, Checked(run[j], c))
    /\ UNCHANGED <<facts, job, rows, moves, faults, stopped, overlapped>>

\* One application at a time: the one whose alert is due comes first.
Current(j) ==
    IF \E c \in run[j].page : c.written THEN {c \in run[j].page : c.written}
                                        ELSE run[j].page
Check(j) ==
    /\ run[j].pc = "check"
    /\ \E c \in Current(j) : CheckClean(j, c) \/ WriteRow(j, c) \/ OpenAlert(j, c)

\* Mutant: the verdict is counted before the query that fails.
CheckFailsCounted(j) ==
    /\ run[j].pc = "check" /\ faults < MaxFaults
    /\ \E c \in Current(j) :
          /\ IsMismatch(c.fact)
          /\ RunBecomes(j, [run[j] EXCEPT !.page = @ \ {c}, !.errors = @ + 1,
                                        !.mismatches = @ + 1])
    /\ faults' = faults + 1
    /\ UNCHANGED <<facts, job, rows, alerts, moves, stopped, overlapped>>

\* The row or the alert cannot be written: the run notes it and goes on.
CheckFails(j) ==
    /\ run[j].pc = "check" /\ faults < MaxFaults
    /\ \E c \in Current(j) :
          /\ IsMismatch(c.fact)
          /\ RunBecomes(j, [run[j] EXCEPT !.page = @ \ {c}, !.errors = @ + 1])
    /\ faults' = faults + 1
    /\ UNCHANGED <<facts, job, rows, alerts, moves, stopped, overlapped>>
-----------------------------------------------------------------------------
Recorded(j) == [job[j] EXCEPT !.checked = run[j].checked,
                              !.mismatches = run[j].mismatches,
                              !.ghosts = run[j].ghosts]

\* Mutant: the next page starts after the applications checked so far.
PageDoneByCount(j) ==
    /\ Full(j) /\ run[j].pc = "check" /\ run[j].page = {}
    /\ JobBecomes(j, Recorded(j))
    /\ LET next == run[j].checked
       IN  RunBecomes(j, [run[j] EXCEPT !.offset = next,
                        !.pc = IF next < run[j].total THEN "page" ELSE "complete"])
    /\ UNCHANGED <<facts, rows, alerts, moves, faults, stopped, overlapped>>

\* The end of a page of a full run: the progress update.
PageDone(j) ==
    /\ Full(j) /\ run[j].pc = "check" /\ run[j].page = {}
    /\ JobBecomes(j, Recorded(j))
    /\ LET next == run[j].offset + BatchSize
       IN  RunBecomes(j, [run[j] EXCEPT !.offset = next,
                        !.pc = IF next < run[j].total THEN "page" ELSE "complete"])
    /\ UNCHANGED <<facts, rows, alerts, moves, faults, stopped, overlapped>>

Finished(j) ==
    \/ run[j].pc = "complete"
    \/ ~Full(j) /\ run[j].pc = "check" /\ run[j].page = {}

\* The job row is closed; only a full run keeps its errors, and only a full
\* run that met ghosts goes on to dispatch.
Complete(j) ==
    /\ Finished(j)
    /\ JobBecomes(j, [Recorded(j) EXCEPT
                        !.status = "COMPLETED",
                        !.errors = IF Full(j) THEN run[j].errors ELSE 0])
    /\ RunBecomes(j, [NoRun EXCEPT !.pc =
                        IF Full(j) /\ run[j].ghosts > 0 THEN "dispatch" ELSE "over"])
    /\ UNCHANGED <<facts, rows, alerts, moves, faults, stopped, overlapped>>

\* The catch of a full run.
Failing(j) ==
    /\ run[j].pc = "failing"
    /\ JobBecomes(j, [job[j] EXCEPT !.status = "FAILED"])
    /\ RunBecomes(j, [NoRun EXCEPT !.pc = "over"])
    /\ UNCHANGED <<facts, rows, alerts, moves, faults, stopped, overlapped>>

\* Alerts young enough for a dispatch: a minute, five for a triggered run.
Window(j) == IF job[j].kind = "SCHEDULED" THEN 0 ELSE 1

Dispatch(j) ==
    /\ run[j].pc = "dispatch"
    /\ RunBecomes(j, [run[j] EXCEPT !.pc = "send", !.toSend =
                        {i \in DOMAIN alerts : /\ alerts[i].status = "OPEN"
                                               /\ alerts[i].age <= Window(j)}])
    /\ UNCHANGED <<facts, job, rows, alerts, moves, faults, stopped, overlapped>>

\* Mutant: the loop ends after its first alert.
SendFirst(j) ==
    /\ run[j].pc = "send"
    /\ IF run[j].toSend = {} THEN UNCHANGED alerts
       ELSE \E i \in run[j].toSend : AlertBecomes(i, [alerts[i] EXCEPT !.sent = TRUE])
    /\ RunBecomes(j, [NoRun EXCEPT !.pc = "over"])
    /\ UNCHANGED <<facts, job, rows, moves, faults, stopped, overlapped>>

Send(j) ==
    /\ run[j].pc = "send"
    /\ \/ /\ run[j].toSend = {}
          /\ RunBecomes(j, [NoRun EXCEPT !.pc = "over"])
          /\ UNCHANGED alerts
       \/ \E i \in run[j].toSend :
             /\ \A k \in run[j].toSend : i <= k
             /\ AlertBecomes(i, [alerts[i] EXCEPT !.sent = TRUE])
             /\ RunBecomes(j, [run[j] EXCEPT !.toSend = @ \ {i}])
    /\ UNCHANGED <<facts, job, rows, moves, faults, stopped, overlapped>>
-----------------------------------------------------------------------------
\* A failed query outside a check.  Only a full run between its first and its
\* last update is inside the try block.
Caught(j) ==
    /\ Full(j)
    /\ \/ run[j].pc \in {"count", "page", "complete"}
       \/ run[j].pc = "check" /\ run[j].page = {}

\* Mutant: no query of a run is inside a try block (as in runTargeted).
QueryFailsUncaught(j) ==
    /\ Alive(j) /\ faults < MaxFaults
    /\ run[j].pc = "check" => run[j].page = {}
    /\ run[j].pc = "send" => run[j].toSend # {}
    /\ faults' = faults + 1
    /\ RunBecomes(j, [NoRun EXCEPT !.pc = "over"])
    /\ UNCHANGED <<facts, job, rows, alerts, moves, stopped, overlapped>>

QueryFails(j) ==
    /\ Alive(j) /\ faults < MaxFaults
    /\ run[j].pc = "check" => run[j].page = {}
    /\ run[j].pc = "send" => run[j].toSend # {}
    /\ faults' = faults + 1
    /\ RunBecomes(j, [NoRun EXCEPT !.pc = IF Caught(j) THEN "failing" ELSE "over"])
    /\ UNCHANGED <<facts, job, rows, alerts, moves, stopped, overlapped>>

\* The server stops: its runs are gone, and nothing resumes them.
ServerStops ==
    /\ faults < MaxFaults
    /\ \E j \in Jobs : Alive(j)
    /\ faults' = faults + 1
    /\ stopped' = TRUE
    /\ run' = [j \in Jobs |-> IF Alive(j) THEN [NoRun EXCEPT !.pc = "over"]
                                          ELSE run[j]]
    /\ UNCHANGED <<facts, job, rows, alerts, moves, overlapped>>

Move == moves < MaxMoves /\ moves' = moves + 1

\* Other writers update an application: an import, an event, a status change.
ChangeFact(a, f) ==
    /\ Move
    /\ facts' = [facts EXCEPT ![a] = f]
    /\ UNCHANGED <<job, run, rows, alerts, faults, stopped, overlapped>>

\* acknowledge, resolve and false-positive: none looks at the alert's status.
Settle(i, s) ==
    /\ Move
    /\ AlertBecomes(i, [alerts[i] EXCEPT !.status = s])
    /\ UNCHANGED <<facts, job, run, rows, faults, stopped, overlapped>>

Older(alert) == [alert EXCEPT !.age = IF @ < 2 THEN @ + 1 ELSE 2]

\* A minute, then four more pass for the alerts that are there.
TimePasses ==
    /\ Move
    /\ alerts' = [i \in DOMAIN alerts |-> Older(alerts[i])]
    /\ UNCHANGED <<facts, job, run, rows, faults, stopped, overlapped>>

Advance(j) ==
    \/ Begin(j) \/ Count(j) \/ ReadPage(j) \/ Check(j) \/ PageDone(j)
    \/ Complete(j) \/ Failing(j) \/ Dispatch(j) \/ Send(j)

Next ==
    \/ \E j \in Jobs : Schedule(j) \/ Trigger(j) \/ \E a \in Apps : EnterManually(j, a)
    \/ \E j \in Jobs : Advance(j) \/ CheckFails(j) \/ QueryFails(j)
    \/ ServerStops
    \/ \E a \in Apps, f \in Facts : ChangeFact(a, f)
    \/ \E i \in DOMAIN alerts, s \in Settlements : Settle(i, s)
    \/ TimePasses

Spec == Init /\ [][Next]_vars

\* The event loop returns to every run whose query has been answered.
FairSpec == Spec /\ \A j \in Jobs : WF_vars(Advance(j))
-----------------------------------------------------------------------------
(***************************************************************************)
(* What a completed job reports is in the database: it has a row for every *)
(* mismatch it counted, and no other row unless it reports an error (the   *)
(* run of a manual entry keeps none, whatever failed in it).               *)
(***************************************************************************)
CountsMatchRows ==
    \A j \in Jobs : job[j].status = "COMPLETED" =>
        /\ job[j].ghosts <= job[j].mismatches
        /\ job[j].mismatches <= Len(rows[j])
        /\ Full(j) => Len(rows[j]) <= job[j].mismatches + job[j].errors

(***************************************************************************)
(* No ghost goes unseen: when a full run completes without an error, every *)
(* passenger it recorded as a ghost has an alert, by this run or another.  *)
(***************************************************************************)
GhostsAlerted ==
    \A j \in Jobs : /\ job[j].status = "COMPLETED" /\ Full(j)
                    /\ job[j].errors = 0
        => \A n \in DOMAIN rows[j] : rows[j][n].ghost =>
              \E i \in DOMAIN alerts : alerts[i].app = rows[j][n].app

SameOpenAlert(i, k) ==
    /\ alerts[i].app = alerts[k].app
    /\ alerts[i].status = "OPEN" /\ alerts[k].status = "OPEN"

(***************************************************************************)
(* The check for an OPEN alert is made on the copy a run read with its     *)
(* page.  That is enough as long as no other run held a copy of the same   *)
(* application at the time: such an application never has two OPEN alerts, *)
(* however often it is checked, settled and found again.                   *)
(***************************************************************************)
OneOpenUnlessOverlap ==
    \A i, k \in DOMAIN alerts :
        SameOpenAlert(i, k) /\ alerts[i].app \notin overlapped => i = k

(***************************************************************************)
(* The catch of a full run closes its job: a job left RUNNING without a    *)
(* run takes a stop of the server or two failed queries, the second one in *)
(* the catch itself.                                                       *)
(***************************************************************************)
FullJobSettles ==
    \A j \in Jobs : job[j].status = "RUNNING" /\ Full(j) /\ ~Alive(j)
        => stopped \/ faults >= 2

(***************************************************************************)
(* The dispatch after a run reaches every alert the run opened, even one   *)
(* opened on its first page, if it is less than a minute old and nobody    *)
(* has settled it.                                                         *)
(***************************************************************************)
FreshAlertsSent ==
    \A i \in DOMAIN alerts :
        LET j == alerts[i].by
        IN  /\ job[j].status = "COMPLETED" /\ Full(j) /\ ~Alive(j)
            /\ alerts[i].status = "OPEN" /\ alerts[i].age = 0
            => alerts[i].sent \/ faults > 0

(***************************************************************************)
(* Every run ends, also when applications leave the scope under it and its *)
(* later pages come back empty.                                            *)
(***************************************************************************)
RunsEnd == \A j \in Jobs : Alive(j) ~> ~Alive(j)
=============================================================================
