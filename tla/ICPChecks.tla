----------------------------- MODULE ICPChecks -----------------------------
(***************************************************************************)
(* Passport checks against the ICP portal: ICPStatusFetcher.checkStatus    *)
(* called by concurrent requests, its module-level rate limiter, the one   *)
(* browser page of ICPSessionManager that all of them drive, the operator  *)
(* who solves the CAPTCHA on it, and the shared circuit breaker.           *)
(*                                                                         *)
(* A check is one call of checkStatus and stands for its passport; the     *)
(* portal's answer for passport c is c itself.  Each await of doCheck that *)
(* another request can interleave with is a step of its own; saving and    *)
(* logging a result touch nothing another check reads and end in one step. *)
(***************************************************************************)
EXTENDS BreakerCore, Sequences, FiniteSets

CONSTANTS
    Checks,        \* calls of checkStatus
    Malformed,     \* those of check-batch whose passportNumber is undefined
    NoRecord,      \* those the portal has no record of
    Unreadable,    \* those whose result page has no status the selectors find
    NoOne,         \* an empty form, an empty page, an empty status text
    Delay,         \* config.icp.delayBetweenChecks
    Hour,          \* 3600000 ms
    MaxPerHour     \* config.icp.maxChecksPerHour

ASSUME ChecksAssumption ==
    /\ Malformed \subseteq Checks
    /\ NoRecord \subseteq Checks /\ Unreadable \subseteq Checks
    /\ NoOne \notin Checks
    /\ Delay \in Nat /\ Hour \in Nat \ {0} /\ MaxPerHour \in Nat \ {0}
    /\ Delay <= Hour

VARIABLES
    limiter,    \* lastCheckTime, checksThisHour, hourStart, as ages
    page,       \* what the shared page holds: the form and the result shown
    live,       \* checks whose page handle is the page now open
    pc,         \* where each call stands
    got,        \* what each call has read off the page
    saved,      \* <<check, answer>> pairs written to the application
    portalUp,   \* the portal answers
    starts,     \* history: ages of the checks begun, up to one past the hour
    outage,     \* history: checks in a row that could not reach the portal
    disturbed,  \* history: checks that ran while another one did
    shut        \* history: checks whose open page a shutdown closed

checkVars == <<limiter, page, live, pc, got, saved, portalUp, starts, outage,
               disturbed, shut>>
vars == <<breaker, checkVars>>

Running == {c \in Checks : pc[c] \notin {"idle", "done"}}
Blank == [form |-> NoOne, shown |-> NoOne]

TypeOK ==
    /\ breaker \in Breaker
    /\ limiter \in [sinceCheck: 0 .. Delay, thisHour: 0 .. MaxPerHour,
                    sinceHour: 0 .. Hour + 1]
    /\ page \in [form: Checks \cup {NoOne}, shown: Checks \cup {NoOne}]
    /\ live \subseteq Checks
    /\ pc \in [Checks -> {"idle", "launching", "loaded", "waiting", "reading",
                          "extracting", "saving", "done"}]
    /\ got \in [Checks -> Checks \cup {NoOne}]
    /\ saved \subseteq Checks \X (Checks \cup {NoOne})
    /\ portalUp \in BOOLEAN
    /\ starts \in Seq(0 .. Hour + 1)
    /\ outage \in Nat
    /\ disturbed \subseteq Checks
    /\ shut \subseteq Checks

Init ==
    /\ breaker = NewBreaker
    /\ limiter = [sinceCheck |-> Delay, thisHour |-> 0, sinceHour |-> 0]
    /\ page = Blank
    /\ live = {}
    /\ pc = [c \in Checks |-> "idle"]
    /\ got = [c \in Checks |-> NoOne]
    /\ saved = {}
    /\ portalUp \in BOOLEAN
    /\ starts = <<>>
    /\ outage = 0
    /\ disturbed = {}
    /\ shut = {}

Goto(c, where) == pc' = [pc EXCEPT ![c] = where]
-----------------------------------------------------------------------------
\* canProceed(): asking also opens a new hourly window when the old one ended.
Window == IF limiter.sinceHour > Hour
          THEN [limiter EXCEPT !.thisHour = 0, !.sinceHour = 0]
          ELSE limiter
\* Mutants: the hourly limit off by one, no limit at all.
AllowedOneMore == Window.thisHour <= MaxPerHour /\ limiter.sinceCheck >= Delay
AllowedAnyNumber == limiter.sinceCheck >= Delay
Allowed == Window.thisHour < MaxPerHour /\ limiter.sinceCheck >= Delay

\* checkStatus answers RATE_LIMITED or CIRCUIT_OPEN; the caller may try again.
Refuse(c) ==
    /\ pc[c] = "idle"
    /\ ~Allowed \/ ~CanProceed(breaker)
    /\ limiter' = Window
    /\ UNCHANGED <<breaker, page, live, pc, got, saved, portalUp, starts,
                   outage, disturbed, shut>>

\* The synchronous run from checkStatus to doCheck's first await.
Start(c) ==
    /\ pc[c] = "idle"
    /\ Allowed
    /\ CanProceed(breaker)
    /\ breaker' = AfterCanProceed(breaker)
    /\ limiter' = [Window EXCEPT !.sinceCheck = 0, !.thisHour = @ + 1]
    /\ Goto(c, "launching")
    /\ starts' = Append(starts, 0)
    /\ disturbed' = IF Running = {} THEN disturbed
                    ELSE disturbed \cup Running \cup {c}
    /\ UNCHANGED <<page, live, got, saved, portalUp, outage, shut>>

\* Mutant: the page left by the previous check is used as it is.
NavigateKeepsPage(c) ==
    /\ pc[c] = "launching"
    /\ c \notin Malformed
    /\ portalUp
    /\ live' = live \cup {c}
    /\ Goto(c, "loaded")
    /\ UNCHANGED <<breaker, limiter, page, got, saved, portalUp, starts,
                   outage, disturbed, shut>>

\* initialize, getPage, page.goto: the shared page is loaded afresh.
Navigate(c) ==
    /\ pc[c] = "launching"
    /\ c \notin Malformed
    /\ portalUp
    /\ page' = Blank
    /\ live' = live \cup {c}
    /\ Goto(c, "loaded")
    /\ UNCHANGED <<breaker, limiter, got, saved, portalUp, starts, outage,
                   disturbed, shut>>

\* waitForAngular, clickPassportTab, fillForm.
FillForm(c) ==
    /\ pc[c] = "loaded"
    /\ c \in live
    /\ page' = [page EXCEPT !.form = c]
    /\ Goto(c, "waiting")
    /\ UNCHANGED <<breaker, limiter, live, got, saved, portalUp, starts,
                   outage, disturbed, shut>>

\* The operator solves the CAPTCHA and searches for what the form holds.
OperatorSearches ==
    /\ portalUp
    /\ page.form # NoOne
    /\ page.shown = NoOne
    /\ page' = [page EXCEPT !.shown = page.form]
    /\ UNCHANGED <<breaker, limiter, live, pc, got, saved, portalUp, starts,
                   outage, disturbed, shut>>

\* waitForResults returns true: some result is visible on the page.
SeeResult(c) ==
    /\ pc[c] = "waiting"
    /\ c \in live
    /\ page.shown # NoOne
    /\ Goto(c, "reading")
    /\ UNCHANGED <<breaker, limiter, page, live, got, saved, portalUp, starts,
                   outage, disturbed, shut>>

\* checkNoRecord: the message sends the check to saveResult, any other page,
\* one blanked meanwhile too, to extractResults.
CheckNoRecord(c) ==
    /\ pc[c] = "reading"
    /\ c \in live
    /\ IF page.shown \in NoRecord
       THEN got' = [got EXCEPT ![c] = page.shown] /\ Goto(c, "saving")
       ELSE got' = got /\ Goto(c, "extracting")
    /\ UNCHANGED <<breaker, limiter, page, live, saved, portalUp, starts,
                   outage, disturbed, shut>>

\* extractResults tries selector after selector and swallows their errors: a
\* page closed, blanked or unknown to the selectors gives the empty status.
ExtractResults(c) ==
    /\ pc[c] = "extracting"
    /\ got' = [got EXCEPT ![c] = IF c \in live /\ page.shown \notin Unreadable
                                 THEN page.shown ELSE NoOne]
    /\ Goto(c, "saving")
    /\ UNCHANGED <<breaker, limiter, page, live, saved, portalUp, starts,
                   outage, disturbed, shut>>

\* saveResult, whose errors are swallowed, logAutomation, recordSuccess.
Finish(c) ==
    /\ pc[c] = "saving"
    /\ \/ saved' = saved \cup {<<c, got[c]>>}
       \/ saved' = saved
    /\ breaker' = RecordSuccess(breaker)
    /\ outage' = 0
    /\ live' = live \ {c}
    /\ Goto(c, "done")
    /\ UNCHANGED <<limiter, page, got, portalUp, starts, disturbed, shut>>

\* Mutant: only a closed page ends the wait (timeout: 0).
CaptchaTimeoutOnClose(c) ==
    /\ pc[c] = "waiting"
    /\ c \notin live
    /\ breaker' = RecordSuccess(breaker)
    /\ Goto(c, "done")
    /\ UNCHANGED <<limiter, page, live, got, saved, portalUp, starts, outage,
                   disturbed, shut>>

\* waitForResults gives up, or its page was closed: CAPTCHA_TIMEOUT is
\* returned, not thrown.
CaptchaTimeout(c) ==
    /\ pc[c] = "waiting"
    /\ breaker' = RecordSuccess(breaker)
    /\ live' = live \ {c}
    /\ Goto(c, "done")
    /\ UNCHANGED <<limiter, page, got, saved, portalUp, starts, outage,
                   disturbed, shut>>

\* Navigation fails, or the page is closed under the check: the catch block
\* turns the error into a returned result.
CheckFails(c) ==
    /\ \/ /\ pc[c] = "launching" /\ c \notin Malformed /\ ~portalUp
          /\ outage' = outage + 1
       \/ /\ pc[c] \in {"loaded", "reading"} /\ c \notin live
          /\ outage' = outage
    /\ breaker' = RecordSuccess(breaker)
    /\ live' = live \ {c}
    /\ Goto(c, "done")
    /\ UNCHANGED <<limiter, page, got, saved, portalUp, starts, disturbed, shut>>

\* passportNumber.substring throws in the body and again in the catch block:
\* the only error that leaves doCheck.
Throw(c) ==
    /\ pc[c] = "launching"
    /\ c \in Malformed
    /\ breaker' = RecordFailure(breaker)
    /\ Goto(c, "done")
    /\ UNCHANGED <<limiter, page, live, got, saved, portalUp, starts, outage,
                   disturbed, shut>>

\* POST /icp/shutdown closes the page under every running check.
Shutdown ==
    /\ page' = Blank
    /\ live' = {}
    /\ shut' = shut \cup live
    /\ UNCHANGED <<breaker, limiter, pc, got, saved, portalUp, starts, outage,
                   disturbed>>

\* POST /icp/reset.
AdminReset ==
    /\ breaker' = Reset(breaker)
    /\ outage' = 0
    /\ UNCHANGED <<limiter, page, live, pc, got, saved, portalUp, starts,
                   disturbed, shut>>

PortalToggles ==
    /\ portalUp' = ~portalUp
    /\ UNCHANGED <<breaker, limiter, page, live, pc, got, saved, starts,
                   outage, disturbed, shut>>

LimiterElapse ==
    limiter' = [limiter EXCEPT !.sinceCheck = IF @ < Delay THEN @ + 1 ELSE @,
                               !.sinceHour = IF @ <= Hour THEN @ + 1 ELSE @]

Tick ==
    /\ breaker' = Elapse(breaker)
    /\ LimiterElapse
    /\ starts' = [i \in DOMAIN starts |-> IF starts[i] <= Hour THEN starts[i] + 1 ELSE starts[i]]
    /\ UNCHANGED <<page, live, pc, got, saved, portalUp, outage, disturbed,
                   shut>>

Progress(c) ==
    \/ Navigate(c) \/ FillForm(c) \/ SeeResult(c) \/ CheckNoRecord(c)
    \/ ExtractResults(c) \/ Finish(c) \/ CaptchaTimeout(c) \/ CheckFails(c) \/ Throw(c)

Next ==
    \/ \E c \in Checks : Refuse(c) \/ Start(c) \/ Progress(c)
    \/ OperatorSearches \/ Shutdown \/ AdminReset \/ PortalToggles \/ Tick

Spec == Init /\ [][Next]_vars

\* Every wait of doCheck has a timeout, so a started check keeps moving; the
\* operator, the portal and the callers owe nothing.
FairSpec == Spec /\ \A c \in Checks : WF_vars(Progress(c))
-----------------------------------------------------------------------------
\* Consecutive checks never begin less than delayBetweenChecks apart, whoever
\* sends them and however they end.
Paced ==
    \A i \in 1 .. Len(starts) - 1 :
        starts[i] <= Hour => starts[i] - starts[i + 1] >= Delay

\* The hourly window is fixed, not sliding: any hour touches at most two
\* windows, so only the last twice maxChecksPerHour checks lie within one.
HourlyBound == \A i \in 1 .. Len(starts) - 2 * MaxPerHour : starts[i] > Hour

\* The module-level limiter, asked and counted around other requests.
LimiterKept == Paced /\ HourlyBound

\* A check that no other one ran beside saves the answer to its own passport,
\* never what an earlier check left on the page; and it saves an empty status,
\* as a success, only when a shutdown closed the page under it or the portal's
\* answer has no status the selectors find.
LoneCheckSavesOwn ==
    \A s \in saved : s[1] \notin disturbed =>
        \/ s[2] = s[1]
        \/ s[2] = NoOne /\ s[1] \in Unreadable \cup shut

\* A check that was let through ends, answered or not.
StartedEnds ==
    \A c \in Checks : (pc[c] = "launching") ~> (pc[c] = "done")

\* CircuitBreaker.ts: "Opens circuit after consecutive failures" of the portal.
OutageOpensCircuit == outage >= MaxFailures => breaker.state # "CLOSED"
=============================================================================
