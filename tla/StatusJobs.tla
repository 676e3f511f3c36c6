----------------------------- MODULE StatusJobs -----------------------------
(***************************************************************************)
(* The worker of the visa_status_check queue.  A job fetches the status of *)
(* one passport from the portal, in the session of the worker's account,   *)
(* logs the attempt, stores the status with the application and queues a   *)
(* ghost detection when the two statuses differ.  BullMQ hands out one job *)
(* at a time, again if it failed or if the process was lost under it.      *)
(***************************************************************************)
EXTENDS BrowserSessions

CONSTANTS
    Passports,   \* one application and one job each
    NoOne,
    Text,        \* by passport: the status as the portal words it
    Statuses,    \* statuses other code gives an application
    Retries,     \* attempts of one fetch
    MaxAttempts, \* external: how often BullMQ hands out a job that fails
    MaxMoves     \* bound: changes of a status by other code

InCountryWords == {"IN COUNTRY", "IN_COUNTRY", "INSIDE", "PRESENT"}

\* statusMap, in capitals; other texts stay as they are.
NormalizeStatus(text) ==
    CASE text \in {"ACTIVE", "VALID"} -> "ACTIVE"
      [] text \in InCountryWords -> "IN_COUNTRY"
      [] text \in {"EXITED", "EXIT", "DEPARTED", "LEFT", "OUTSIDE"} -> "EXITED"
      [] text = "EXPIRED" -> "EXPIRED"
      [] text \in {"CANCELLED", "CANCELED", "REVOKED"} -> "CANCELLED"
      [] text \in {"PENDING", "PROCESSING"} -> "PENDING"
      [] text = "APPROVED" -> "APPROVED"
      [] text \in {"REJECTED", "DENIED"} -> "REJECTED"
      [] OTHER -> text

\* What the portal says of p, in the words of the database.
Told(p) == NormalizeStatus(Text[p])

ASSUME JobsAssumption ==
    /\ NoOne \notin Passports
    /\ Text \in [Passports -> STRING]
    /\ Statuses \subseteq STRING
    /\ Retries \in Nat \ {0} /\ MaxAttempts \in Nat \ {0} /\ MaxMoves \in Nat

Unset == "-"

VARIABLES
    apps,      \* visa_applications: the status and the portal status
    logs,      \* automation_logs of each job
    job,       \* the queue visa_status_check, as BullMQ keeps it
    ghosts,    \* the queue ghost_detection: applications
    worker,    \* the job under way
    late,      \* the search of the session's page that is not answered yet
    up,        \* the process runs
    moves,
    slow,      \* history: passports whose answer came after its search
    changed,   \* history: applications that other code changed
    lost       \* history: log rows that lost their process or an update

vars == <<sessionVars, apps, logs, job, ghosts, worker, late, up, moves, slow,
          changed, lost>>

JobStates == {"waiting", "active", "completed", "failed"}
LogRow == [status: {"RUNNING", "SUCCESS", "FAILED"}, attempts: Nat]
Stages == {"idle", "log", "fetch", "goto", "search", "read", "success", "app",
           "compare", "queue", "failing"}
NoWorker == [pc |-> "idle", job |-> NoOne, attempt |-> 0, heard |-> NoOne,
             result |-> Unset]

\* A portal status: none yet, or what the portal says of a passport.
Tellings == {Unset} \cup {Told(p) : p \in Passports}

TypeOK ==
    /\ SessionTypeOK
    /\ apps \in [Passports -> [status: Statuses \cup {"PENDING"}, portal: Tellings]]
    /\ logs \in [Passports -> Seq(LogRow)]
    /\ job \in [Passports -> [state: JobStates, attempts: 0 .. MaxAttempts]]
    /\ ghosts \subseteq Passports /\ slow \subseteq Passports /\ changed \subseteq Passports
    /\ worker \in [pc: Stages, job: Passports \cup {NoOne}, attempt: 0 .. Retries,
                   heard: Passports \cup {NoOne}, result: Tellings \cup {Text[p] : p \in Passports}]
    /\ late \in Passports \cup {NoOne}
    /\ up \in {"running", "stopping", "down"}
    /\ moves \in 0 .. MaxMoves
    /\ lost \subseteq Passports \X Nat

Init ==
    /\ SessionInit
    /\ apps = [p \in Passports |-> [status |-> "PENDING", portal |-> Unset]]
    /\ logs = [p \in Passports |-> <<>>]
    /\ job = [p \in Passports |-> [state |-> "waiting", attempts |-> 0]]
    /\ ghosts = {}
    /\ worker = NoWorker
    /\ late = NoOne
    /\ up = "running"
    /\ moves = 0
    /\ slow = {} /\ changed = {} /\ lost = {}

At(pc) == worker.pc = pc
Goes(pc) == worker' = [worker EXCEPT !.pc = pc]
Now == worker.job
LogBecomes(row) == logs' = [logs EXCEPT ![Now] = [@ EXCEPT ![Len(@)] = row]]
LastLog(p) == <<p, Len(logs[p])>>
jobVars == <<apps, logs, job, ghosts, up, moves, slow, changed, lost>>
-----------------------------------------------------------------------------
\* External: BullMQ, concurrency 1.  The limiter only delays.
TakeJob(p) ==
    /\ up = "running" /\ At("idle") /\ job[p].state = "waiting"
    /\ job' = [job EXCEPT ![p].state = "active"]
    /\ worker' = [NoWorker EXCEPT !.pc = "log", !.job = p]
    /\ UNCHANGED <<sessionVars, apps, logs, ghosts, late, up, moves, slow, changed, lost>>

\* External: a handler that returns completes its job, one that throws fails it
\* or has it handed out again.
Over(p) == /\ worker' = NoWorker
           /\ job' = [job EXCEPT ![p].state = "completed"]
Thrown(p) == LET n == job[p].attempts + 1
             IN  /\ worker' = NoWorker
                 /\ job' = [job EXCEPT ![p] = [attempts |-> n,
                              state |-> IF n < MaxAttempts THEN "waiting" ELSE "failed"]]

\* The first write of processStatusCheck, outside its try block.
CreateLog ==
    /\ At("log")
    /\ \/ /\ logs' = [logs EXCEPT ![Now] = Append(@, [status |-> "RUNNING", attempts |-> 1])]
          /\ worker' = [worker EXCEPT !.pc = "fetch", !.attempt = 1]
          /\ UNCHANGED <<sessionVars, job>>
       \/ Fault /\ Thrown(Now) /\ UNCHANGED <<contexts, current, keeper, keepers, cookies,
                                    valid, logins, tick, getter, ticks, lapses, logs>>
    /\ UNCHANGED <<apps, ghosts, late, up, moves, slow, changed, lost>>
-----------------------------------------------------------------------------
\* fetchStatus: the session first, by getSession ...
AskSession ==
    /\ At("fetch") /\ Getting("idle")
    /\ GetGoes("get", 0)
    /\ UNCHANGED <<contexts, current, keeper, keepers, cookies, valid, logins, tick,
                   ticks, lapses, faults, worker, late, jobVars>>

\* ... the next attempt, or the end of the fetch ...
AttemptFailed ==
    worker' = IF worker.attempt < Retries
              THEN [worker EXCEPT !.pc = "fetch", !.attempt = @ + 1, !.heard = NoOne]
              ELSE [worker EXCEPT !.pc = "failing"]

\* ... which waits with the page of the session until doFetch is through with it.
HaveSession ==
    /\ At("fetch") /\ getter.pc \in {"got", "failed"}
    /\ IF Getting("got") THEN Goes("goto") /\ UNCHANGED getter
                         ELSE AttemptFailed /\ GetGoes("idle", 0)
    /\ UNCHANGED <<contexts, current, keeper, keepers, cookies, valid, logins, tick,
                   ticks, lapses, faults, late, jobVars>>

\* The response handler is there before goto: the answer to a search that the
\* page made earlier may still come.  A portal that does not know the login
\* shows no search form.
Navigate ==
    /\ At("goto")
    /\ \/ /\ Answers(getter.session)
          /\ \E heard \in {late, NoOne} : worker' = [worker EXCEPT !.pc = "search", !.heard = heard]
          /\ UNCHANGED sessionVars
       \/ /\ ~Answers(getter.session)
          /\ AttemptFailed
          /\ GetGoes("idle", 0)
          /\ UNCHANGED <<contexts, current, keeper, keepers, cookies, valid, logins, tick,
                         ticks, lapses, faults>>
       \/ /\ Fault
          /\ AttemptFailed
          /\ GetGoes("idle", 0)
          /\ UNCHANGED <<contexts, current, keeper, keepers, cookies, valid, logins, tick,
                         ticks, lapses>>
    /\ late' = NoOne
    /\ UNCHANGED jobVars

\* The search and the wait for it: the portal answers in JSON, only in the page,
\* or too late for this search.
Search ==
    /\ At("search")
    /\ \/ /\ worker' = [worker EXCEPT !.pc = "read", !.heard = Now]
          /\ UNCHANGED <<late, slow>>
       \/ /\ worker' = [worker EXCEPT !.pc = "read", !.result = Text[Now]]
          /\ UNCHANGED <<late, slow>>
       \/ /\ Goes("read")
          /\ late' = Now
          /\ slow' = slow \cup {Now}
    /\ UNCHANGED <<sessionVars, apps, logs, job, ghosts, up, moves, changed, lost>>

\* Mutant: interceptedData is a field, which the next search finds as it was.
ReadKeepsHeard ==
    /\ At("read")
    /\ LET text == IF worker.heard # NoOne THEN Text[worker.heard] ELSE worker.result
       IN  IF text = Unset THEN AttemptFailed
           ELSE worker' = [worker EXCEPT !.pc = "success", !.result = NormalizeStatus(text)]
    /\ late' = IF worker.heard # NoOne THEN worker.heard ELSE late
    /\ GetGoes("idle", 0)
    /\ UNCHANGED <<contexts, current, keeper, keepers, cookies, valid, logins, tick,
                   ticks, lapses, faults, jobVars>>

\* What was intercepted is preferred, else the page is read; neither is an error.
\* The handler is removed in any case.
Read ==
    /\ At("read")
    /\ LET text == IF worker.heard # NoOne THEN Text[worker.heard] ELSE worker.result
       IN  IF text = Unset THEN AttemptFailed
           ELSE worker' = [worker EXCEPT !.pc = "success", !.result = NormalizeStatus(text)]
    /\ GetGoes("idle", 0)
    /\ UNCHANGED <<contexts, current, keeper, keepers, cookies, valid, logins, tick,
                   ticks, lapses, faults, late, jobVars>>
-----------------------------------------------------------------------------
\* Mutant: the row gets the name BullMQ has for it.
LogCompleted ==
    /\ At("success")
    /\ LogBecomes([status |-> "COMPLETED", attempts |-> 1])
    /\ Goes("app")
    /\ UNCHANGED <<sessionVars, apps, job, ghosts, late, up, moves, slow, changed, lost>>

\* The rest of processStatusCheck: the log says SUCCESS ...
LogSuccess ==
    /\ At("success")
    /\ LogBecomes([status |-> "SUCCESS", attempts |-> 1])
    /\ Goes("app")
    /\ UNCHANGED <<sessionVars, apps, job, ghosts, late, up, moves, slow, changed, lost>>

\* ... the application is updated ...
StoreStatus ==
    /\ At("app")
    /\ apps' = [apps EXCEPT ![Now].portal = worker.result]
    /\ Goes("compare")
    /\ UNCHANGED <<sessionVars, logs, job, ghosts, late, up, moves, slow, changed, lost>>

\* ... and read again; a status that differs from the result calls for a ghost
\* detection ...
Compare ==
    /\ At("compare")
    /\ IF apps[Now].status = worker.result THEN Over(Now)
                                           ELSE Goes("queue") /\ UNCHANGED job
    /\ UNCHANGED <<sessionVars, apps, logs, ghosts, late, up, moves, slow, changed, lost>>

\* ... which is queued before the job is complete.
Enqueue ==
    /\ At("queue")
    /\ ghosts' = ghosts \cup {Now}
    /\ Over(Now)
    /\ UNCHANGED <<sessionVars, apps, logs, late, up, moves, slow, changed, lost>>

\* Mutant: the catch block does not throw the error on.
CatchSwallows ==
    /\ At("failing")
    /\ LogBecomes([status |-> "FAILED", attempts |-> job[Now].attempts + 1])
    /\ Over(Now)
    /\ UNCHANGED <<sessionVars, apps, ghosts, late, up, moves, slow, changed, lost>>

\* The catch block: the row of the attempt, then the error to BullMQ.
Catch ==
    /\ At("failing")
    /\ LogBecomes([status |-> "FAILED", attempts |-> job[Now].attempts + 1])
    /\ Thrown(Now)
    /\ UNCHANGED <<sessionVars, apps, ghosts, late, up, moves, slow, changed, lost>>

\* A query or the queue fails: in the try block the catch follows, in the catch
\* block the row stays as it is.
CallFails ==
    /\ worker.pc \in {"success", "app", "compare", "queue", "failing"}
    /\ Fault
    /\ IF At("failing") THEN Thrown(Now) /\ lost' = lost \cup {LastLog(Now)}
                        ELSE Goes("failing") /\ UNCHANGED <<job, lost>>
    /\ UNCHANGED <<contexts, current, keeper, keepers, cookies, valid, logins, tick,
                   getter, ticks, lapses, apps, logs, ghosts, late, up, moves, slow, changed>>
-----------------------------------------------------------------------------
\* stop, at any time: the worker is closed once its job has ended, whatever is
\* waiting then, and the sessions after it.
Stop ==
    /\ up = "running" /\ At("idle")
    /\ up' = "stopping"
    /\ GetGoes("close", 0)
    /\ UNCHANGED <<contexts, current, keeper, keepers, cookies, valid, logins, tick, ticks,
                   lapses, faults, apps, logs, job, ghosts, worker, late, moves, slow,
                   changed, lost>>

Stopped ==
    /\ up = "stopping" /\ CloseBrowser
    /\ up' = "down" /\ late' = NoOne
    /\ UNCHANGED <<apps, logs, job, ghosts, worker, moves, slow, changed, lost>>

\* The process is lost; BullMQ finds its job stalled and hands it out again.
Crash ==
    /\ up = "running" /\ ProcessLost
    /\ up' = "down" /\ late' = NoOne
    /\ worker' = NoWorker
    /\ job' = [p \in Passports |-> IF p = Now THEN [job[p] EXCEPT !.state = "waiting"]
                                              ELSE job[p]]
    /\ lost' = IF Now = NoOne \/ At("log") THEN lost ELSE lost \cup {LastLog(Now)}
    /\ UNCHANGED <<apps, logs, ghosts, moves, slow, changed>>

Start ==
    /\ up = "down" /\ tick.pc = "idle"
    /\ \E p \in Passports : job[p].state = "waiting"
    /\ up' = "running"
    /\ UNCHANGED <<sessionVars, apps, logs, job, ghosts, worker, late, moves, slow,
                   changed, lost>>

\* Events and PATCH /applications/:id/status.
ChangeStatus(p, status) ==
    /\ moves < MaxMoves
    /\ moves' = moves + 1
    /\ apps' = [apps EXCEPT ![p].status = status]
    /\ changed' = changed \cup {p}
    /\ UNCHANGED <<sessionVars, logs, job, ghosts, worker, late, up, slow, lost>>

SessionStep ==
    /\ GetSession \/ Close \/ ForgetSession \/ Forget \/ Tick \/ TickPing(At("goto")) \/ TickEnds
       \/ Lapse
    /\ UNCHANGED <<worker, late, jobVars>>

Process ==
    \/ CreateLog \/ AskSession \/ HaveSession \/ Navigate \/ Search \/ Read
    \/ LogSuccess \/ StoreStatus \/ Compare \/ Enqueue \/ Catch

Next ==
    \/ \E p \in Passports : TakeJob(p)
    \/ Process \/ CallFails \/ SessionStep
    \/ Stop \/ Stopped \/ Crash \/ Start
    \/ \E p \in Passports, status \in Statuses : ChangeStatus(p, status)

Spec == Init /\ [][Next]_vars
-----------------------------------------------------------------------------
(***************************************************************************)
(* The page is shared by the searches of a worker, one after the other.  A *)
(* portal status is what the portal said of that passport, or of one whose *)
(* own search had ended before its answer came; if every answer comes in   *)
(* time, no status is stored with the wrong application.                   *)
(***************************************************************************)
OwnStatusUnlessLate ==
    \A p \in Passports :
        apps[p].portal \in {Unset, Told(p)} \cup {Told(q) : q \in slow}

LastRow(p) == logs[p][Len(logs[p])]

(***************************************************************************)
(* The log tells what became of a job, through failing queries, retries    *)
(* and crashes.  The last row of a completed job is a SUCCESS, its          *)
(* application has a portal status and a ghost detection if the two differ.*)
(* Every other row of a job that is not under way is FAILED, the last row  *)
(* of a job that failed for good among them, except a row that lost its    *)
(* process or the update of the catch block: that one may be left RUNNING, *)
(* or SUCCESS if what failed came after it.                                *)
(***************************************************************************)
LogTellsOutcome ==
    \A p \in Passports :
        /\ job[p].state = "completed" =>
              /\ LastRow(p).status = "SUCCESS"
              /\ apps[p].portal # Unset
              /\ apps[p].status = apps[p].portal \/ p \in ghosts \cup changed
        /\ \A n \in DOMAIN logs[p] :
              \/ logs[p][n].status = "FAILED"
              \/ p = Now \/ <<p, n>> \in lost
              \/ job[p].state = "completed" /\ n = Len(logs[p])
=============================================================================
