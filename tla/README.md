# Visa monitor: specifications and proofs

This directory specifies the visa workflow system (`src/`) in TLA+: its server and
the frontend over it.  TLC checks the specifications on small instances; TLAPS
proves the theorems listed below for every value of the constants.  `PROJECT.json`
maps every definition to the lines it models and lists the components, the runs, the
hazards and the theorems.

To check a run: `tlc -config <run>.cfg <module>.tla`.  To check the proofs:
`tlapm <Module>Proofs.tla`.

## 1. The system

One Node process (Express, Prisma, a database, Redis or a memory store in its
place) serves operators and tracks what two immigration portals say about visas.
Nothing holds locks and nothing uses a database transaction: every `await` is a
point where another request, a background run or a timer continues.

| Component | State | Operations | Works with |
|---|---|---|---|
| Circuit breaker (`automation/CircuitBreaker.ts`) | one object in memory: state, counters, last failure | `execute`, `canProceed`, `reset` | shared by checks and spot checks; reset by administrators |
| ICP portal checks (`ICPStatusFetcher`, `ICPSessionManager`, `routes/icp.ts`) | a rate limiter, one browser page | `checkStatus`, batch, `shutdown`, `reset` | breaker, portal, an operator who solves the CAPTCHA, `visa_applications` |
| ICP spot checks (`ICPSpotCheckService`, `routes/ghosts.ts`) | a sliding-window limiter | `performSpotCheck` | breaker |
| Border events and status history (`routes/events.ts`, `routes/applications.ts`, `Scheduler.runExpiredVisaCheck`, the history rows of `ImportService`) | `border_events` (unique idempotency key), `visa_applications.status`, `status_history` | entry, exit, create, PATCH status, expiry sweep, portal status of an import or entry | clients that repeat requests |
| Ghost scoring (`AutomationWorker.calculateGhostScore`, `ReconciliationEngine.reconcileApplication`) | none | score, risk, verdict | reconciliation |
| Reconciliation and ghost alerts (`ReconciliationEngine`, `routes/reconciliation.ts`, `routes/ghosts.ts`) | job, mismatch and alert rows; the page a run holds in memory | full run, targeted run, acknowledge, resolve, false positive | applications that change meanwhile |
| Scheduler (`Scheduler.ts`) | timers, one `isRunning` per job object | start, stop, interval, trigger | every background job |
| Alert delivery (`AlertService.ts`) | channels | dispatch, escalation, digest | alerts, the scheduler's handlers |
| Portal status import (`ImportService`, `routes/import.ts`) | `data_imports`, passengers, applications, history | import of a file, manual entry | starts a targeted run; races with the routes and the checks |
| Accounts (`routes/auth.ts`, `lib/redis.ts`) | codes and refresh tokens in the cache | login, send, verify, refresh, logout | Redis that comes and goes, a map in memory |
| Frontend (`frontend/src`) | the token in localStorage; the list a page shows | login, logout, interceptors, loads, choices and handlers of every page | the routes; other tabs |
| Session pool (`SessionPool`) | accounts, locks in the cache | acquire, release, reset | other processes |
| Browser sessions (`BrowserSessionManager`) | sessions in a map, cookies in the cache, an interval | get, keep alive, close, shut down | the portal, which forgets logins |
| Status jobs (`AutomationWorker`, `StatusFetcher`) | a BullMQ queue, log rows, the session's page | job handler, retry loop, response handler | browser sessions, `visa_applications` |
| GDRFA inquiry (`GDRFAStatusFetcher`) | one browser and its context | fetch by number, batch, close | the public portal |

Parts that nothing in the repository starts are modelled by what they would do:
`scheduler.start` and `triggerJob` are called nowhere, neither is the start of the
worker, and of the session pool only `resetCounters` is used, by a job of that scheduler.

What is hard in each of them, at its line, is the list of hazards in
`PROJECT.json`.  In short:

* **interleaving**: promises settle in any order (breaker); one browser page is
  driven by two checks; two runs reconcile the same application; two files bring
  the same passport; two copies of a request are in flight; a refresh meets a logout;
  a timer meets a trigger;
* **ordering**: the answer to an earlier search, or the reply to an earlier choice of
  a page, comes after a later one was asked for;
* **partial failure**: event, status and history are three writes; a mismatch row
  and its alert are two; passenger and application are two; a log says SUCCESS before
  the application is written;
* **stale state**: a status is read two awaits before it is logged, a page of
  applications before it is checked, a portal status before it is written back; a
  key deleted in Redis is still in the map;
* **crash**: a job RUNNING or an import PROCESSING whose handler is gone;
* **retry**: a client, the queue or a fetcher repeats what failed half way;
* **boundaries**: the hourly windows, offset paging over a set that shrinks, the
  thresholds of the score, the lifetimes of codes.

What makes each component correct is the list of properties in section 3.

## 2. The modules

| Module | Models | State ↔ code |
|---|---|---|
| `BreakerCore` | the breaker and its methods, as operators on a record | `breaker`: the fields of the object; dates are ages capped at the cooldown; `successCount` and `lastStateChange`, which no code reads back, are left out |
| `CircuitBreaker` | concurrent callers of the breaker | `running` are the calls suspended at `await fn()`; `quiet`, `streak` are history |
| `PortalGate` | what the breaker promises the portal (abstract) | `silence`: how long the gate has been shut |
| `ICPChecks` | `checkStatus`/`doCheck`, the limiter, the shared page, the operator, the portal | `pc[c]` is the await a check is suspended at, `page` the form and result on the page, `live` the checks that hold a handle to it, `got` what a check has read off it; `shut` is history |
| `SpotChecks` | `performSpotCheck` and its limiter | `stamps` are `rateLimiter.timestamps` as ages; one step, because nothing in it waits |
| `ICPPortal` | `ICPChecks` with the spot checks beside it, over one breaker and one clock | — |
| `EventRegister` | what an idempotency key promises (abstract) | `recorded`, `answered` |
| `BorderEvents` | the writers of an application's status and of its history | `handler[h]` is a request, or an imported row or manual entry, between two queries; `events`, `history`, `status` are the tables; `sweep` is the page of the expiry job |
| `GhostScore` | score, risk level and verdict as functions | a `Fact` is what the engine reads of an application |
| `Reconciliation` | full and targeted runs, dispatch, settlement | `run[j]` is what a run holds in memory (`page`: the copies it read), `job`, `rows`, `alerts` the tables |
| `ScheduledJobs` | the intervals with their overlap guard, the trigger, and the handlers that send alerts or write to the log | `run[n][s]` is a call of handler `n` between two awaits, `of` the start of the scheduler it was called from; `busy` the `isRunning` of the job objects, one for each start |
| `Imports` | the columns and lines of a file, its rows one by one, manual entries | `sheet[f]` is the first sheet of the upload, `Parse` the rows that `parseFile` makes of it; `task[t]` is a handler between two queries, with the latest application as it read it; `imports`, `apps`, `history` the tables |
| `SessionPool` | the accounts of several processes and the lock between them, access by access to the cache | `pool`, `turn`: the fields of the accounts and their order by `lastUsed`; `lock` the keys in the cache; `worker[w]` is an `acquireSession` or `releaseSession` between two awaits; `disturbed` is history |
| `BrowserSessions` | one logged-in session with its keep-alive | `contexts` are the sessions ever opened, `current` the one in the map, `keeper` the interval that is armed, `tick` a callback under way, which may belong to an earlier interval |
| `StatusJobs` | the handler of `visa_status_check` with its retries, over `BrowserSessions` | `worker` is the job under way, `late` a search whose answer has not come; `logs`, `apps` the tables; BullMQ is external: it hands a job out again when it failed or stalled |
| `GDRFAFetcher` | calls that share one browser, and the parser | `call[c]` is a call between two awaits; a page is its labels and values, of which the parser sees whether a label speaks of a status and which keywords a text contains |
| `PortalFetchers` | `StatusJobs` or `GDRFAFetcher`: they share no state, so a behaviour is one of either | `side` |
| `Accounts` | the routes under `/auth` that keep state, call by call of the cache | `store` is the entry of each key in Redis and in the map, `redis` is `redisAvailable`, `req` the requests |
| `Console` | browser tabs with the login page and every page of the dashboard | `token` is localStorage, `tab[t]` what a tab shows, `requests` all requests in the order they were sent, `runs` the reconciliations at work in the background; `Pages` says for each page what is loaded, chosen and done there |
| `OperatorAccess` | `Accounts` or `Console`, like `PortalFetchers` | `side` |
| `*Proofs` | theorems of `CircuitBreaker` (with the checks of the ICP portal and their composition), `BorderEvents`, `Reconciliation` (with the score), `ScheduledJobs`, `Imports`, `SessionPool`, `PortalFetchers`, `OperatorAccess` | — |
| `MC*` | small instances | — |

An action is one synchronous run of the code: from an `await` to the next.  A
query is one action; `QueryFails` is its rejection, with what the surrounding
`try` blocks do then; `ServerStops` and `Crash` drop every handler and keep the tables.
Definitions named after another one with a suffix and marked "Mutant" state a
plausible mistake in the definition that follows them; no action uses them.  A
property is kept only if one of these mistakes violates it.

Where modules meet: a manual entry of `Imports` stops at `StartCheck`, where the targeted
run begins, and `Reconciliation.EnterManually` begins there.  `ScheduledJobs` contains the
handlers of four jobs; the engine that one of them calls is `Reconciliation`, the expiry sweep
is in `BorderEvents`, the reset of the counters in `SessionPool`.

## 3. The runs

### Circuit breaker

**CircuitBreaker_safety**: three callers, `MaxFailures = 2`, `Cooldown = 2`, six
requests, resets and the clock at any moment.  Three callers allow two late answers
around a trip; six requests allow two trips and a probe.  Ages saturate at the cooldown,
so the clock needs no bound.

* `CallsMeetGate`: refinement of `PortalGate`: after a trip nobody gets through for a
  cooldown, and a late answer can only prolong it.
* `Recovers` (liveness, `WF(Tick)`: time passes, nothing else is assumed): an open circuit comes to admit a call.

`CanProceed` compares `halfOpenAttempts` with its limit as the code does; since nothing
counts it up, every call is admitted while the circuit is half open.  The model keeps
this, and no property relies on the limit.

### ICP portal

**ICPChecks_safety**: two checks and a malformed one (`check-batch` forwards a
row without passport; `checkStatus` throws on it), delay 1, hour 3, one check per hour:
the smallest limits at which the hour, the delay and the long wait overlap.  The page of one of the two has no status that
the selectors find; `ICPPortal_gate` has a check of which the portal has no record.  A check reads the page twice, in `checkNoRecord` and in
`extractResults`, and a shutdown may come before, between and after.  The first fails on a closed page, since its last query is not
guarded; the second tries selector after selector and swallows their errors.  Within each the selectors are read in one step: a shutdown
in the middle gives what one at its start or its end gives.  Of the fields that `extractResults` reads only the status is
modelled; the file number, the other one that is stored, is read off the same page and kept only if it is not empty.

* `LimiterKept`: starts are a delay apart; the fixed window lets at most twice the limit into any hour (`starts` holds the age of
  every check begun, saturating one past the hour, so of the checks within an hour none is forgotten).
* `LoneCheckSavesOwn`: a check that ran alone saves the answer to its own passport, or none, or, as a success, the empty
  status: that only if a shutdown closed its page or the selectors find no status in the answer.  The exceptions are real: an open page
  that is closed after `checkNoRecord` overwrites the portal status with an empty text, and of two checks in flight, which share a page, one may save the
  other's answer.
* `StartedEnds` (liveness, `WF(Progress(c))`: every wait in `doCheck` carries a timeout, so each check can always go
  on by itself): a started check ends, although the operator need never come.

**ICPPortal_gate**: checks and spot checks share the breaker; together they
implement `PortalGate` (`ImplementsGate`).  Two malformed checks are there because
only a throw counts as a failure: one to trip the circuit and one to trip it again.

**ICPChecks_outage** (violated `OutageOpensCircuit`), the finding: `doCheck` turns errors into results before
the breaker sees them, so no outage opens the circuit that is there to prevent cascading failures.

### Border events

**BorderEvents_safety**: two handlers, one application, one key used by an entry
and by an exit, a PATCH, a creation, an import or entry of a portal status, an expired visa, two rows of a history before
the writers other than events stop, one failed query or stop.  Two handlers are enough for every race of two copies of a request;
one key is enough since keys are independent.

* `UndisturbedChain`: in the history of an application the rows of the routes, which change its status, tell it step by step, the last
  being the status it has, as long as no two of these updates overlapped and none was cut short.  The rows of the sweep, of imports and of manual
  entries may lie anywhere between them: they disturb nothing, and they are no steps of the status.  An import
  or entry logs the old and the new *portal* status and leaves the status alone (`ImportService.ts:442` and `515`), so the
  history read as a whole is not a chain.  One exception is worth knowing: an event whose status update failed is answered as already
  recorded when the request is repeated, and the status never changes.
* `RegistersEvents`: refinement of `EventRegister`: one event per key, whatever is repeated or raced.
* `RetriedIsAnswered` (liveness): a client that repeats a request is answered with
  success in the end.  Fairness: `WF(Advance(h))`, a handler whose query is answered goes on; `SF(Submit(r))`,
  the persistent client; the bound on failures ends the trouble.

The expiry sweep writes history rows that say EXPIRED and leaves the status alone; the model does the same.  A passenger that an import
creates gets an application with a status and no history row.  `StartPortal` and `LogPortal` are the history side of an import or
entry, whose writes to the passenger and the portal status are in `Imports`; the old value they quote is that column, here the one value
`Stored`.  Which visas have expired is fixed in this module, while an import may write another expiry date.

### Reconciliation

**Reconciliation_solo**: one run of any kind (scheduled, triggered, targeted) over two applications of five kinds
each (left long ago and the portal does not know; the portal does; differing names; an
expired visa; out of scope), page size 1, one step of other code, two failures or stops.
Two applications and a page of one give every paging case: a page that goes stale, one
that comes back empty, a last page.

* `CountsMatchRows`: a completed job has a row for every mismatch it counted and, unless it reports an error, no other.
* `FullJobSettles`: a full job left RUNNING takes a stop or two failures, one of them in the `catch`.
* `RunsEnd` (liveness, `WF(Advance(j))`: the event loop returns to a run whose query has been answered): every run ends,
  also when its scope shrinks.

**Reconciliation_pair**: a scheduled or targeted run beside a triggered one, one change or settlement, one failure.

* `GhostsAlerted`: a full run that completes without an error leaves an alert for every ghost it recorded.
* `OneOpenUnlessOverlap`: only an application of which two runs held a copy at a time can have two OPEN alerts (and
  then it can).
* `FreshAlertsSent`: a dispatch reaches every alert of its run that is under a minute old and not settled.

Both set `CHECK_DEADLOCK FALSE` since every job starts at most once and the moves are bounded.

### Scheduler and alerts

**ScheduledJobs_safety**: a CRITICAL and a HIGH alert, two channels of which one may fail, two starts of the scheduler, a
clock of two steps of 35 minutes (so that the CRITICAL alert is overdue after one and the HIGH one after two), one run of each
of the other jobs, one failure, crash, alert or settlement.  Two starts are what it takes for a handler to outlive `stop` and meet a
second one.

* `OneRunPerJob`: of two runs of a job under way, one was left over when the scheduler was stopped.
* `SettledStaysQuiet`: an alert that was settled while no run had it on its list is not sent.
* `OverdueEscalated` (liveness): an open alert that falls due is sent to every channel again, whatever fails in earlier
  passes, unless it is settled or the scheduler is not running.  Fairness: `WF(Fire("alert_escalation"))`, `setInterval` goes on
  calling; `WF(Advance("alert_escalation", s))`, queries settle and so do the requests of the channels.  Nothing is assumed of the other jobs.
* `TypeOK`.

The webhook is sent without a timeout of its own, so the last assumption rests on the one of `fetch`.
`CHECK_DEADLOCK FALSE`: the scheduler may be stopped.

### Imports

**Imports_safety**: two files, each with one of three sheets (no line below the header; two passports, a line that says nothing of its status
and a line without a passport; one passport in two spellings, with a second column called after passports and a status outside
the map), a manual entry, one step of other code (passenger, application, status, portal result), one failure or stop; the two files
are symmetric.  One failure is enough for a row left half done and for the `catch`; the second failure, which leaves an import PROCESSING
without a stop, is within the bound only for a file without rows.

* `CountsMatchDatabase`: the counts of a completed import add up and are what it left in the database.
* `CompletedCovers`: an import without an error leaves an application for every passport in the lines of its sheet, whatever an earlier one left undone.
* `LoneTaskKeepsPassport`: two imports create two applications for a passport, and a row without a status loses a portal status that
  somebody reported, only if two tasks worked on that passport at a time.
* `ImportSettles`: an import left PROCESSING takes a stop or a failure in the `catch`.
* `TypeOK`.

`CHECK_DEADLOCK FALSE`: every file and entry is handled once and the rest is bounded.

### Session pool

**SessionPool_safety**: three workers in two processes (two share a process) at one account, a
lock, a cooldown and an hourly limit of one, two failures before the cooldown; any access to the cache may fail, a
session may not open, a lock may run out under its owner, a process may start again, at any moment.  Two processes and
two workers in one are enough for every race over one lock; accounts have nothing in common but the order
in which they are tried, which no property speaks of.  The memory fallback of the cache is left
out here: processes do not share it.

* `ExclusiveUnlessDisturbed`: two workers use an account at a time only if its lock was overwritten in the gap between the read and the write that take it, or ran out.
* `MarkedUnlessDisturbed`: under the same condition `inUse` is the truth in each process.
* `HourlyBound`: the limit is compared before three awaits and counted after them; the other workers of the process may each pass it by one.
* `AccountsReturn` (liveness): an account always becomes available again within its limit.  Fairness: `WF(Tick)`, time passes;
  `WF(Progress(w))`, an access to the cache and the opening of a session end one way or the other, and whoever has a session releases it.

### Portal fetchers

**PortalFetchers_safety**: on one side two status jobs with different answers in one session, two attempts of a fetch, one delivery of a
job by the queue, a stop at any time, one change of a status, and any two of these (`MaxMishaps`): a ping, a forgotten login, failed calls, crashes; on the other two calls of the inquiry (a
passport number; a batch of two) with two attempts and one failing step (`MaxBreaks`), over three portal pages, and all pages of up to three labels for the
parser.  Two jobs are what a late answer needs, two calls what a launch race needs; two failures are what it takes to fail the
store of a status and then the update in the `catch`, a ping and a failure what a late callback needs.

* `OwnStatusUnlessLate`: if every answer comes while its own search waits, no status is stored with the wrong application.
* `LogTellsOutcome`: the last log row of a completed job is a SUCCESS, with a portal status and, if that differs, a ghost detection; every
  other row of a job that is not under way is FAILED.  The exceptions are told row by row (`lost`): the row whose process was lost, and the row whose update in the
  `catch` failed.  Such a row stays RUNNING, or SUCCESS if the failure came after `AutomationWorker.ts:132`, even on a job that has failed for good;
  the rows beside it are still bound.
* `LiveSessionKept`: a session that would be handed out is being kept alive, whatever the late callback of an earlier interval does.
* `FetcherTidy`: no page is left open after an attempt, and at most one browser, unless two calls launched one each.
* `ResultsAreTold`: the parser, checked against what a page says (defined without its loops) for all 314 pages; and a result is
  what a page of its own number says, unless that number was read before its answer came or asked for in the wrong form.
* `FetchersTypeOK`.

`CHECK_DEADLOCK FALSE`: the jobs and calls are used up.

### Accounts and frontend

**OperatorAccess_safety**: on one side two requests at a time out of four, one wrong guess allowed, a code that lives one tick, a refresh token
and an entry of the map two, Redis going and coming back; on the other two tabs, one on the dashboard page and one on any other, three requests, two visits,
two access tokens, one failure.  The pages of the applications and of the settings, which are like those of the dashboard and of the passengers,
are left to the proof.  A tick of the clock is a second or more, and a token is the second it was made in: two of one tick are the same text.  Two overlapping requests, one switch there and one back, and two tokens are what the exceptions of
the properties need.

* `CodeIsLimited`: a code is good for one verification, for the allowed wrong guesses and for its life, unless two requests for it overlapped,
  time passed under one, the store was switched, or a wrong guess was written to the map.
* `TokenIsRotated`: a refresh token that was rotated, replaced or logged out is not accepted again, unless requests with the token overlapped, the store
  was switched, or its text was made anew: `generateRefreshToken` signs a fixed payload with the time in seconds and no `jti`, so a refresh in the second of the login stores
  the token it was sent, and the rotation rotates nothing.
* `IdlePageIsCurrent`: when nothing of a page is under way, its list is that of the current choice and shows what the page
  itself changed, unless replies were reordered, a handler outlived the choice it was rendered with, a load failed, the page does not load
  again (the history of imports after an upload, the ghosts after a spot check), or a reconciliation that the page triggered ended
  when the page was not going to load any more: the route answers 202 and works on, and the page loads once, two seconds later.
* `ValidTokenKept`: a valid token is given up only by a logout or for a 401 that was not about it.
* `AccessTypeOK`.

The frontend calls neither `/auth/logout` nor `/auth/refresh`; a refused password meets the same interceptor as an expired token.
`CHECK_DEADLOCK FALSE`: the requests are used up.

## 4. What is proved

All from the named `ASSUME`s of the modules (types of the constants, positive limits)
and the definitions; no theorem bounds a set or a number.

**`CircuitBreakerProofs`**: type correctness; `StatsConserved`, `ClosedMeansHealthy`,
`OpensOnlyOnStreak`, `QuietAfterTrip`, which no run repeats; and the step refinement of `PortalGate`.  The
inductive invariant is the conjunction of `TypeOK`, `StatsConserved`, `ClosedMeansHealthy` and `BreakerConsistent`:
`ClosedMeansHealthy` speaks of the streak and the code of `failureCount`, and only
`BreakerConsistent` ties them together; its second half says that until the cooldown after a trip has passed
the circuit is open with a failure at least as recent as the trip, which is why a late answer can only prolong the silence.

The composition of checks and spot checks implements `PortalGate`.  The invariant is only that the breaker
is sound (typed, and open only with a failure on record); the argument is in two lemmas, that whoever is let through leaves the gate
open and that a recorded outcome shuts it or leaves it as it was, and each action of the checks is shown to do one of these to the breaker or nothing.
Of the checks themselves: type correctness, `LimiterKept`, `LoneCheckSavesOwn`.  The limiter's two fields are tied to the history of starts
(`LimiterInv`): every start is at least as old as `sinceCheck`, those before the current window at least as old as the window, and those
before the window before that more than an hour.  `PageInv` says of each check that ran alone what it may find on the page at
its stage, and that a check whose handle is closed is in `shut`; of two checks under way both are disturbed.  Other methods of the breaker are allowed at any step, so the
three hold in the composition too (`BesideSpotChecks`).

**`BorderEventsProofs`**: type correctness, `KeyedOnce`, `LoggedOnce`, and the refinement of `EventRegister`.  The
invariant adds that ids are fresh, that a handler past its insert holds an event of its own
which has no history row yet, and that an answered key has an event.  `UndisturbedChain`
is proved by what an undisturbed application has (`ChainInv`): the rows of routes in its history are linked, each to the one before, and the last of
them ends at its status, but for the row that a request past its update has still to write, and such a request read the status that the last row leads to.
That a row of another source changes none of this is one lemma (`QuietAppend`) for the sweep, imports and entries.

**`ReconciliationProofs`**: of the score that it lies in 0..100; a mismatch scores at least 25 and the
threshold is at most 25, so no mismatch is ever auto-resolved (the model leaves that
update out on this ground); a ghost scores at least 40 and is never of LOW risk; the stale check needs IN_COUNTRY in the portal;
an older exit never lowers a score.  Of the runs: type correctness; `OneOpenUnlessOverlap`, by an invariant on copies
(a run holds one copy of an application at a time; as long as no
other run ever held one at the same time, a copy that shows no open alert tells the truth until the run writes);
`CountsMatchRows`, by a ledger between the counters in memory, the rows written and the check in progress;
`FullJobSettles`, by what each stage of a run says of its job and of the failures so far;
`GhostsAlerted`, by what is due (a row about a ghost is alerted, or its alert is the next thing its run writes, and alerts are never deleted);
`FreshAlertsSent`, by what each alert can expect of the run that opened it (the run has met a ghost, so it will dispatch; while it sends, the
alert is sent, still to be sent, no longer OPEN or a minute old).  The last two rest on the ledger.

**`ScheduledJobsProofs`**: type correctness, `OneRunPerJob`, `SettledStaysQuiet`.  The invariant adds that a run under way is marked in the
job object it was called from (`Marked`): the guard of a timer or a trigger reads that mark, never the runs.

**`ImportsProofs`**: type correctness, `CountsMatchDatabase`, `LoneTaskKeepsPassport`, `ImportSettles`, `CompletedCovers`.  The invariant has five parts.
`Placed` says where a task stands: within its rows, with an application of the passport of its row.  `LoneInv` carries the exception: two tasks on a
passport have been noticed (`Alone`); as long as they have not, a file about to create an application would create the first (`NoneYet`) and what a task has read is
still there (`ReadTrue`).  `Settled` says of each stage which failures it takes to get there.  `Ledger` ties the counts in memory to the applications and
history rows of the file; that a row is logged once rests on the history rows of a file lying before the row it is at.  `Cover` says that the rows of a file are those of its sheet
and that every row behind it has left an application unless one was an error.  For `CompletedCovers` the lines must also reach
the rows: `Parse` gives each line with a passport its place among them instead of appending them one by one, which needs no recursion;
`PlaceOfLine` and `LineOfPlace` show that these places are the rows, one for each line, for a sheet of any size.

**`SessionPoolProofs`**: type correctness, `ExclusiveUnlessDisturbed`, `MarkedUnlessDisturbed`, `HourlyBound`.  The
invariant adds that whoever is past its write at an undisturbed account owns the lock (`HoldsLock`), so two
of them are one, and that the requests counted and the workers between choice and
count together stay below the limit plus the workers of the process (`Counted`).

**`PortalFetchersProofs`**: type correctness, `LiveSessionKept`, `OwnStatusUnlessLate`, `LogTellsOutcome`, `FetcherTidy`, `ResultsAreTold`.  The
two sides share nothing, so the invariant is one of each.  Sessions (`SessionInv`): the interval a late callback may clear is that of the
session it pinged (`KeeperOfCurrent`), so when it is cleared that session is marked dead.  Jobs (`JobsInv`): one job is active and it is
the worker's; what the worker has heard or read is of its own passport or of one that answered late (`Heard`);
a row that is not FAILED has lost its process or update, or is the last one of a job that is complete or at hand and past its first write, and each stage of
the worker says how that row reads (`LogKept`).  The inquiry (`InquiryInv`): a page is held only from its opening to `leave`, a reading only after the search, and it comes from a page of the number at hand or
that number is misled (`CallKept`); as long as no two calls raced, the open browser is the one of the field, and whoever launches finds the field empty (`OneBrowser`).
`ResultsAreTold` is proved under the hypothesis `ParserTells`, which says what the parser's loops compute, mentions no variable and
is evaluated by the run on its pages.

**`OperatorAccessProofs`**: type correctness, `CodeIsLimited`, `TokenIsRotated`, `IdlePageIsCurrent`, `ValidTokenKept`.  As
long as no requests overlapped on the code nor the store was switched, one request at a time has it, its entry tells the whole history of the code
(age and life left add up, attempts are the wrong guesses, none has verified it), and what a request compares is still that entry (`CodeKept`).  The stored refresh token
is never a spent one (`TokenKept`): what a login or a refresh stores is no longer spent, even if its text was.  For the pages (`PageKept`): a list that is shown wrong, or that would be shown wrong when it comes, has behind it a load that
brings the right one, or a trigger or timer whose load is still to come, also for a run that ends meanwhile; a request belongs to a tab until it is over, and one that was
refused carries an expired token or none (`RequestOK`).  `Console` starts with a login or without, which is why `MaxLogins` is assumed positive.

Only model-checked, and why:

* the liveness properties (`Recovers`, `StartedEnds`, `RetriedIsAnswered`, `RunsEnd`, `AccountsReturn`, `OverdueEscalated`): liveness
  under fairness is out of the prover's reach;
* `ParserTells`, the parser's part of `ResultsAreTold`, which rests on what a fold over the lines of a page computes for every page, and so
  on induction over data.

## 5. What is not modelled

Texts, selectors, layouts, audit entries, logging, reports and listings; seeding; the mock portals; deployment.  The auto-resolution update
is proved unreachable and `updateApplicationStatus` of the spot checks is never reached, because `executeSpotCheck` never answers SUCCESS.
The resolve route of a mismatch writes what nothing reads.  The delete button of the passengers page asks for a route that does not
exist, and is an answer with an error in `Console`.  Single queries (update of a passenger, registration of an operator) have no interleaving of their
own.  The launch of the ICP browser has the race of the GDRFA one, which is modelled there.

Two hazards are listed without a property, each with its reason: nothing counts half-open attempts, and no document promises an order of
events by their dates.

Bounds that are not of the code: `MaxRequests`, `MaxSpotChecks`, `MaxHistory`, `MaxApps`, `MaxMoves`, `MaxFaults`, `MaxClock`, `MaxStarts`,
`MaxRuns`, `MaxTicks`, `MaxLapses`, `MaxMishaps`, `MaxBreaks`, `MaxOps`, `MaxSwitches`, `MaxVisits`, `MaxLogins` and `MaxFailures` of `Console`, each
named in its module, and ages that saturate where no test of the code can tell them apart.

## 6. Plan

Done, in this order: breaker and gate, checks, composition, border events with their register, scoring, reconciliation, imports, session pool,
scheduler and alerts, browser sessions and status jobs, the GDRFA inquiry, accounts, frontend; proofs of all.  Next:

1. Abstract specifications for the pool (a mutual exclusion with a disturbance) and for the codes (a bounded guess counter), with refinements.
2. The launch race of `ICPSessionManager` as an action of `ICPChecks`.
