-------------------------------- MODULE Console --------------------------------
(***************************************************************************)
(* The frontend: browser tabs that share the token in localStorage, each on*)
(* the login page or on a page of the dashboard.  A page loads its list    *)
(* when it is mounted and when its filter, page number or tab is chosen;   *)
(* its handlers change something on the server and load again.  Replies    *)
(* come in any order.  A handler keeps the choice it was rendered with, and*)
(* goes on after its page is gone; a navigation by location.href ends all  *)
(* of a tab's requests.                                                    *)
(*                                                                         *)
(* The server counts the changes of the console: a list tells how many it  *)
(* has seen.  A reconciliation that a page triggers is accepted at once and*)
(* works on in the background.  An access token is refused once it has     *)
(* expired, as is a wrong password.                                        *)
(***************************************************************************)
EXTENDS Naturals, Sequences, FiniteSets

CONSTANTS
    Tabs, NoTab,
    Home,        \* by tab: the pages it visits
    MaxRequests, \* bound: requests
    MaxVisits,   \* bound: pages a tab is shown
    MaxLogins,   \* bound: access tokens
    MaxFailures  \* bound: requests answered by another error, or not at all

\* The pages: what can be chosen on one, for which choices its list is loaded, at
\* which its handlers are, and when these load again what they change: when it is
\* done, always, or never.
Page(choices, loads, acts, reload) ==
    [choices |-> choices, loads |-> loads, acts |-> acts, reload |-> reload]
DashboardPage == Page({1}, {1}, {}, {"never"})
PassengersPage == Page({1}, {1}, {1}, {"done"})
ApplicationsPage == Page({1}, {1}, {}, {"never"})  \* its filter is not asked of the server
GhostsPage == Page({1, 2}, {1, 2}, {1, 2}, {"done", "never"})  \* never: a spot check
ICPPage == Page({1, 2}, {1, 2}, {1, 2}, {"always"})
ReconciliationPage == Page({1}, {1}, {1}, {"done"})
ImportPage == Page({1, 2}, {2}, {1}, {"never"})    \* 2 is the tab of the history
AuditPage == Page({1, 2}, {1, 2}, {}, {"never"})
SettingsPage == Page({1}, {1}, {1}, {"done"})

Pages == [dashboard |-> DashboardPage, passengers |-> PassengersPage,
          applications |-> ApplicationsPage, ghosts |-> GhostsPage, icp |-> ICPPage,
          reconciliation |-> ReconciliationPage, import |-> ImportPage,
          audit |-> AuditPage, settings |-> SettingsPage]
LoginPage == "login"
\* Where a run can be triggered; its handler loads again after a while.
Triggering == {"reconciliation"}

ASSUME ConsoleAssumption ==
    /\ NoTab \notin Tabs
    /\ Home \in [Tabs -> SUBSET DOMAIN Pages]
    /\ {MaxRequests, MaxVisits, MaxLogins, MaxFailures} \subseteq Nat /\ MaxLogins >= 1

VARIABLES
    token,    \* localStorage: an access token by its number, 0 if there is none
    logins,   \* access tokens so far
    expired,  \* those that have run out
    changes,  \* changes on the server
    runs,     \* triggered runs at work: by tab, its page and the request
    tab,      \* the tabs
    requests, \* every request, in the order sent
    failures,
    upset     \* history: by tab, what kept the shown list from being the right one

consoleVars == <<token, logins, expired, changes, runs, tab, requests, failures, upset>>

Nothing == [choice |-> 0, changes |-> 0]
Tab == [at: DOMAIN Pages \cup {LoginPage}, visit: Nat, choice: 1 .. 2,
        shown: [choice: 0 .. 2, changes: Nat], latest: Nat, own: Nat]
\* A timer is a reload that is to come; token: what the request carries, or brings.
Request == [kind: {"login", "load", "act", "trigger", "timer", "over"},
            tab: Tabs \cup {NoTab}, visit: Nat, choice: 1 .. 2,
            page: DOMAIN Pages \cup {LoginPage}, token: Nat, changes: Nat,
            state: {"sent", "answered", "refused", "failed", "over"}]
Causes == {"reordered", "closure", "failed", "unseen", "background"}

ConsoleTypeOK ==
    /\ logins \in 0 .. MaxLogins /\ token \in 0 .. logins /\ expired \subseteq 1 .. logins
    /\ changes \in Nat /\ runs \subseteq Tabs \X Nat \X Nat
    /\ tab \in [Tabs -> Tab]
    /\ requests \in Seq(Request) /\ Len(requests) <= MaxRequests
    /\ failures \in 0 .. MaxFailures
    /\ upset \in [Tabs -> SUBSET Causes]

AtLogin == [at |-> LoginPage, visit |-> 0, choice |-> 1, shown |-> Nothing, latest |-> 0,
            own |-> 0]
\* A page that was opened before, with the list of its first choice.
AtPage(page) ==
    [AtLogin EXCEPT !.at = page,
                    !.shown = IF 1 \in Pages[page].loads THEN [choice |-> 1, changes |-> 0] ELSE @]

\* Nobody has signed in, or one login is there and each tab is where it may be.
ConsoleInit ==
    /\ logins \in {0, 1} /\ token = logins /\ expired = {} /\ changes = 0 /\ runs = {}
    /\ tab \in [Tabs -> {AtLogin} \cup {AtPage(page) : page \in DOMAIN Pages}]
    /\ \A t \in Tabs : tab[t].at = LoginPage \/ (token = 1 /\ tab[t].at \in Home[t])
    /\ requests = <<>> /\ failures = 0
    /\ upset = [t \in Tabs |-> {}]

On(t) == Pages[tab[t].at]
Mounted(i) == requests[i].visit = tab[requests[i].tab].visit
Flying(t) == {i \in DOMAIN requests : requests[i].tab = t}
TabBecomes(t, r) == tab' = [tab EXCEPT ![t] = r]

\* The interceptor of requests takes the token at that moment.
New(kind, t, choice) ==
    [kind |-> kind, tab |-> t, visit |-> tab[t].visit, choice |-> choice, page |-> tab[t].at,
     token |-> IF kind = "login" THEN 0 ELSE token, changes |-> 0, state |-> "sent"]
\* A request that is over leaves its place.
Ended == [kind |-> "over", tab |-> NoTab, visit |-> 0, choice |-> 1, page |-> LoginPage,
          token |-> 0, changes |-> 0, state |-> "over"]
Over(i) == [requests EXCEPT ![i] = Ended]
Room == Len(requests) < MaxRequests

\* A page is mounted, with its first choice.
Opened(t, page) == [at |-> page, visit |-> tab[t].visit + 1, choice |-> 1, shown |-> Nothing,
                    latest |-> 0, own |-> 0]
\* What it loads is sent after the requests of rs, with the token tk.
WithFirstLoad(rs, t, page, tk) ==
    IF 1 \in Pages[page].loads
    THEN Append(rs, [New("load", t, 1) EXCEPT !.visit = @ + 1, !.page = page, !.token = tk])
    ELSE rs
-----------------------------------------------------------------------------
\* The button is disabled while a login is under way.
SignIn(t) ==
    /\ tab[t].at = LoginPage /\ Room
    /\ \A i \in Flying(t) : requests[i].kind # "login"
    /\ requests' = Append(requests, New("login", t, 1))
    /\ UNCHANGED <<token, logins, expired, changes, runs, tab, failures, upset>>

\* A link of the sidebar.
Visit(t, page) ==
    /\ tab[t].at # LoginPage /\ page # tab[t].at /\ tab[t].visit < MaxVisits /\ Room
    /\ TabBecomes(t, Opened(t, page))
    /\ requests' = WithFirstLoad(requests, t, page, token)
    /\ upset' = [upset EXCEPT ![t] = {}]
    /\ UNCHANGED <<token, logins, expired, changes, runs, failures>>

\* Mutant: the effect does not depend on what is chosen.
ChooseOnly(t, choice) ==
    /\ tab[t].at # LoginPage
    /\ choice \in On(t).choices \ {tab[t].choice} /\ Room
    /\ TabBecomes(t, [tab[t] EXCEPT !.choice = choice])
    /\ UNCHANGED <<token, logins, expired, changes, runs, failures, upset, requests>>

\* The effect of the page runs again for what is chosen.
Choose(t, choice) ==
    /\ tab[t].at # LoginPage
    /\ choice \in On(t).choices \ {tab[t].choice} /\ Room
    /\ TabBecomes(t, [tab[t] EXCEPT !.choice = choice])
    /\ requests' = IF choice \in On(t).loads
                   THEN Append(requests, New("load", t, choice)) ELSE requests
    /\ UNCHANGED <<token, logins, expired, changes, runs, failures, upset>>

\* A handler sends its request.
Act(t) ==
    /\ tab[t].at # LoginPage /\ tab[t].choice \in On(t).acts /\ Room
    /\ \/ requests' = Append(requests, New("act", t, tab[t].choice))
       \/ /\ tab[t].at \in Triggering
          /\ requests' = Append(requests, New("trigger", t, tab[t].choice))
    /\ UNCHANGED <<token, logins, expired, changes, runs, tab, failures, upset>>

\* handleLogout: the page is gone, its requests are not.
SignOut(t) ==
    /\ tab[t].at # LoginPage
    /\ token' = 0
    /\ TabBecomes(t, Opened(t, LoginPage))
    /\ upset' = [upset EXCEPT ![t] = {}]
    /\ UNCHANGED <<logins, expired, changes, runs, requests, failures>>
-----------------------------------------------------------------------------
\* authenticate: a request without a token, or with one that has run out, is
\* refused; authorize may refuse what another error stands for.
Refused(i) == requests[i].token \in expired \cup {0}

\* What the server does for a request, with what it writes before the answer.
Does(i) ==
    /\ changes' = IF requests[i].kind = "load" THEN changes ELSE changes + 1
    /\ runs' = IF requests[i].kind = "trigger"
               THEN runs \cup {<<requests[i].tab, requests[i].visit, i>>} ELSE runs

\* The server answers; what it could not answer it may have done.
Answer(i) ==
    /\ requests[i].state = "sent" /\ requests[i].kind \in {"load", "act", "trigger"}
    /\ \/ /\ Refused(i)
          /\ requests' = [requests EXCEPT ![i].state = "refused"]
          /\ UNCHANGED <<changes, runs, failures>>
       \/ /\ ~Refused(i)
          /\ Does(i)
          /\ requests' = [requests EXCEPT ![i].state = "answered", ![i].changes = changes']
          /\ UNCHANGED failures
       \/ /\ ~Refused(i) /\ failures < MaxFailures
          /\ failures' = failures + 1
          /\ Does(i) \/ UNCHANGED <<changes, runs>>
          /\ requests' = [requests EXCEPT ![i].state = "failed"]
    /\ UNCHANGED <<token, logins, expired, tab, upset>>

\* A load is to come: the trigger was accepted, or its timer is set.
Due(i) == requests[i].kind \in {"trigger", "timer"} /\ requests[i].state = "answered"

\* runFull goes on after the 202; its page learns of the outcome if it loads again.
RunEnds(run) ==
    /\ runs' = runs \ {run}
    /\ changes' = changes + 1
    /\ LET t == run[1]
           due == \E i \in Flying(t) : Mounted(i) /\ Due(i)
       IN  IF tab[t].visit # run[2] THEN UNCHANGED <<tab, upset>>
           ELSE /\ TabBecomes(t, [tab[t] EXCEPT !.own = changes + 1])
                /\ upset' = IF due THEN upset
                            ELSE [upset EXCEPT ![t] = @ \cup {"background"}]
    /\ UNCHANGED <<token, logins, expired, requests, failures>>

\* Right and wrong passwords.
AnswerLogin(i) ==
    /\ requests[i].state = "sent" /\ requests[i].kind = "login"
    /\ \/ /\ logins < MaxLogins
          /\ logins' = logins + 1
          /\ requests' = [requests EXCEPT ![i].state = "answered", ![i].token = logins + 1]
       \/ /\ requests' = [requests EXCEPT ![i].state = "refused"]
          /\ UNCHANGED logins
    /\ UNCHANGED <<token, expired, changes, runs, tab, failures, upset>>

Expire ==
    /\ \E k \in 1 .. logins : k \notin expired /\ expired' = expired \cup {k}
    /\ UNCHANGED <<token, logins, changes, runs, tab, requests, failures, upset>>
-----------------------------------------------------------------------------
\* A 401: the token goes, whichever it is, and the tab is loaded anew.
Expelled(t) ==
    /\ token' = 0
    /\ TabBecomes(t, Opened(t, LoginPage))
    /\ requests' = [i \in DOMAIN requests |->
          IF requests[i].tab = t THEN Ended ELSE requests[i]]
    /\ upset' = [upset EXCEPT ![t] = {}]

\* Mutant: any error of the server is taken for a 401.
TurnedAwayByAny(i) ==
    /\ requests[i].state \in {"refused", "failed"}
    /\ Expelled(requests[i].tab)
    /\ UNCHANGED <<logins, expired, changes, runs, failures>>

\* The interceptor of responses.
TurnedAway(i) ==
    /\ requests[i].state = "refused"
    /\ Expelled(requests[i].tab)
    /\ UNCHANGED <<logins, expired, changes, runs, failures>>

\* handleLogin stores the token and goes to the dashboard.
SignedIn(i) ==
    /\ requests[i].state = "answered" /\ requests[i].kind = "login" /\ Room
    /\ LET t == requests[i].tab
       IN  /\ TabBecomes(t, Opened(t, "dashboard"))
           /\ requests' = WithFirstLoad(Over(i), t, "dashboard", requests[i].token)
           /\ upset' = [upset EXCEPT ![t] = {}]
    /\ token' = requests[i].token
    /\ UNCHANGED <<logins, expired, changes, runs, failures>>

\* A list is shown if its page still is; another error leaves the one before.
Loaded(i) ==
    /\ requests[i].state \in {"answered", "failed"} /\ requests[i].kind = "load"
    /\ LET t == requests[i].tab
           good == requests[i].state = "answered"
           list == [choice |-> requests[i].choice, changes |-> requests[i].changes]
       IN  IF ~Mounted(i) THEN UNCHANGED <<tab, upset>>
           ELSE /\ TabBecomes(t, [tab[t] EXCEPT !.shown = IF good THEN list ELSE @,
                                                !.latest = IF @ < i THEN i ELSE @])
                /\ upset' = [upset EXCEPT ![t] = @ \cup
                      (IF good THEN {} ELSE {"failed"}) \cup
                      (IF i < tab[t].latest THEN {"reordered"} ELSE {})]
    /\ requests' = Over(i)
    /\ UNCHANGED <<token, logins, expired, changes, runs, failures>>

\* The load at the end of a handler, with the choice that it was rendered with.
Reload(rs, i) ==
    Append(rs, [requests[i] EXCEPT !.kind = "load", !.state = "sent", !.token = token])
StaleClosure(i) ==
    IF Mounted(i) /\ requests[i].choice # tab[requests[i].tab].choice THEN {"closure"} ELSE {}

\* A page that is told of its success knows what it has changed.
Told(i) ==
    [tab[requests[i].tab] EXCEPT !.own =
        IF requests[i].state = "answered" /\ Mounted(i) /\ @ < requests[i].changes
        THEN requests[i].changes ELSE @]

\* The handler goes on; after its page is gone it still loads, for nobody.
Acted(i) ==
    /\ requests[i].state \in {"answered", "failed"} /\ requests[i].kind = "act" /\ Room
    /\ \E reload \in Pages[requests[i].page].reload :
       LET t == requests[i].tab
           good == requests[i].state = "answered"
           again == reload = "always" \/ (good /\ reload = "done")
       IN  /\ requests' = IF again THEN Reload(Over(i), i) ELSE Over(i)
           /\ TabBecomes(t, Told(i))
           /\ upset' = [upset EXCEPT ![t] = @ \cup
                 (IF again THEN StaleClosure(i) ELSE {}) \cup
                 (IF good /\ Mounted(i) /\ ~again THEN {"unseen"} ELSE {})]
    /\ UNCHANGED <<token, logins, expired, changes, runs, failures>>

\* handleTrigger: the 202 has come, setTimeout(load, 2000), or the request failed.
Triggered(i) ==
    /\ requests[i].state \in {"answered", "failed"} /\ requests[i].kind = "trigger"
    /\ LET t == requests[i].tab
           good == requests[i].state = "answered"
       IN  /\ requests' = IF good THEN [requests EXCEPT ![i].kind = "timer"] ELSE Over(i)
           /\ TabBecomes(t, Told(i))
    /\ UNCHANGED <<token, logins, expired, changes, runs, failures, upset>>

\* The timer's load.
TimerFires(i) ==
    /\ requests[i].state = "answered" /\ requests[i].kind = "timer" /\ Room
    /\ requests' = Reload(Over(i), i)
    /\ UNCHANGED <<token, logins, expired, changes, runs, tab, failures, upset>>

ConsoleNext ==
    \/ \E t \in Tabs : SignIn(t) \/ SignOut(t) \/ Act(t)
    \/ \E t \in Tabs : \E page \in Home[t] : Visit(t, page)
    \/ \E t \in Tabs, choice \in 1 .. 2 : Choose(t, choice)
    \/ \E i \in DOMAIN requests :
          \/ Answer(i) \/ AnswerLogin(i) \/ TurnedAway(i) \/ SignedIn(i)
          \/ Loaded(i) \/ Acted(i) \/ Triggered(i) \/ TimerFires(i)
    \/ \E run \in runs : RunEnds(run)
    \/ Expire
-----------------------------------------------------------------------------
Quiet(t) == \A i \in Flying(t) : requests[i].visit # tab[t].visit

(***************************************************************************)
(* When nothing of a page is under way, its list is that of the choice, and*)
(* shows every change that the page itself has made, unless replies came in*)
(* another order than they were asked for, a handler outlived the choice it*)
(* was rendered with, a load failed, the handler does not load again, or a *)
(* run that the page triggered ended when the page was not going to load   *)
(* again: it does so once, two seconds after the 202.                      *)
(***************************************************************************)
IdlePageIsCurrent ==
    \A t \in Tabs :
        /\ tab[t].at # LoginPage
        /\ Quiet(t) /\ upset[t] = {} /\ tab[t].choice \in On(t).loads
        => tab[t].shown.choice = tab[t].choice /\ tab[t].own <= tab[t].shown.changes

(***************************************************************************)
(* A valid token is given up only by a logout, or for a 401 that was not   *)
(* about it: a wrong password in another tab, or the late answer to a      *)
(* request that carried an earlier token or none.                          *)
(***************************************************************************)
ValidTokenKept ==
    [][token \notin expired \cup {0} /\ token' = 0 =>
          \/ \E t \in Tabs : tab[t].at # LoginPage /\ tab'[t].at = LoginPage
                             /\ requests' = requests
          \/ \E i \in DOMAIN requests :
                requests[i].state = "refused" /\ requests'[i].state = "over"
                /\ requests[i].token # token]_consoleVars
=============================================================================
