--------------------------- MODULE BrowserSessions ---------------------------
(***************************************************************************)
(* BrowserSessionManager: the logged-in browser session of the portal      *)
(* account a worker uses.  The session is kept in a map, its cookies in    *)
(* the cache for a restart, and an interval pings the portal to keep both  *)
(* alive.  A session is got by the one job under way (the worker takes one *)
(* at a time); the interval's callback runs beside it.                     *)
(*                                                                         *)
(* A login is known by its number, whatever context holds its cookies; the *)
(* portal forgets it when it likes.                                        *)
(***************************************************************************)
EXTENDS Naturals, Sequences

CONSTANTS MaxTicks,    \* bound: keep-alive pings
          MaxLapses,   \* bound: logins the portal forgets, cookies that run out
          MaxFaults,   \* bound: failed calls and crashes
          MaxMishaps   \* bound: all three together

ASSUME SessionsAssumption ==
    MaxTicks \in Nat /\ MaxLapses \in Nat /\ MaxFaults \in Nat /\ MaxMishaps \in Nat

VARIABLES
    contexts,  \* SessionInfo and its BrowserContext, in the order they were opened
    current,   \* sessions: the one in the map, 0 if there is none
    keeper,    \* the interval that is armed, 0 if none is
    keepers,   \* intervals armed so far
    cookies,   \* browser_session in the cache: a login, 0 if there is none
    valid,     \* the logins the portal accepts
    logins,    \* logins so far
    tick,      \* the callback of an interval that is under way
    getter,    \* getSession or shutdown, if it is under way
    ticks, lapses, faults

sessionVars == <<contexts, current, keeper, keepers, cookies, valid, logins, tick,
                 getter, ticks, lapses, faults>>

Context == [login: Nat, alive: BOOLEAN, open: BOOLEAN]
NoTick == [pc |-> "idle", keeper |-> 0, session |-> 0]
NoGetter == [pc |-> "idle", session |-> 0]
GetStages == {"idle", "get", "ping", "cached", "restore", "login", "persist",
              "got", "failed", "close", "remove", "forget", "quit"}

SessionTypeOK ==
    /\ contexts \in Seq(Context)
    /\ {current, getter.session, tick.session} \subseteq 0 .. Len(contexts)
    /\ keepers \in Nat /\ {keeper, tick.keeper} \subseteq 0 .. keepers
    /\ logins \in Nat /\ valid \subseteq 1 .. logins /\ cookies \in 0 .. logins
    /\ tick.pc \in {"idle", "ping", "delete", "save"}
    /\ getter.pc \in GetStages
    /\ ticks \in 0 .. MaxTicks /\ lapses \in 0 .. MaxLapses /\ faults \in 0 .. MaxFaults

SessionInit ==
    /\ contexts = <<>> /\ current = 0 /\ keeper = 0 /\ keepers = 0
    /\ cookies = 0 /\ valid = {} /\ logins = 0
    /\ tick = NoTick /\ getter = NoGetter
    /\ ticks = 0 /\ lapses = 0 /\ faults = 0

Mishaps == ticks + lapses + faults
Fault == faults < MaxFaults /\ Mishaps < MaxMishaps /\ faults' = faults + 1
Getting(pc) == getter.pc = pc
GetGoes(pc, session) == getter' = [pc |-> pc, session |-> session]
Answers(session) == contexts[session].open /\ contexts[session].login \in valid
Dead(session) == contexts' = [contexts EXCEPT ![session].alive = FALSE]

\* startKeepAlive: the interval before it is cleared, a callback of it that is
\* under way goes on.
StartKeepAlive == keeper' = keepers + 1 /\ keepers' = keepers + 1
-----------------------------------------------------------------------------
\* A session in the map is used if it is marked alive and the portal knows it.
LookUp ==
    /\ Getting("get")
    /\ IF current # 0 /\ contexts[current].alive THEN GetGoes("ping", current)
                                                 ELSE GetGoes("cached", 0)
    /\ UNCHANGED <<contexts, current, keeper, keepers, cookies, valid, logins, tick,
                   ticks, lapses, faults>>

\* isSessionAlive of getSession; only an exception marks the session dead.
Ping ==
    /\ Getting("ping")
    /\ \/ /\ GetGoes(IF Answers(getter.session) THEN "got" ELSE "cached", getter.session)
          /\ UNCHANGED <<contexts, faults>>
       \/ Fault /\ Dead(getter.session) /\ GetGoes("cached", 0)
    /\ UNCHANGED <<current, keeper, keepers, cookies, valid, logins, tick, ticks, lapses>>

\* restoreSession: the cookies in the cache, if any, go into a new context.
ReadCookies ==
    /\ Getting("cached")
    /\ \/ /\ cookies = 0
          /\ GetGoes("login", 0)
          /\ UNCHANGED <<contexts, faults>>
       \/ /\ cookies # 0
          /\ contexts' = Append(contexts, [login |-> cookies, alive |-> TRUE, open |-> TRUE])
          /\ GetGoes("restore", Len(contexts) + 1)
          /\ UNCHANGED faults
       \/ Fault /\ GetGoes("login", 0) /\ UNCHANGED contexts
    /\ UNCHANGED <<current, keeper, keepers, cookies, valid, logins, tick, ticks, lapses>>

\* The portal shows its login page to a login it has forgotten.  A page that
\* does not load is given up, its context stays open.
Restore ==
    /\ Getting("restore")
    /\ \/ /\ contexts[getter.session].login \in valid
          /\ current' = getter.session
          /\ StartKeepAlive
          /\ GetGoes("got", getter.session)
          /\ UNCHANGED <<contexts, faults>>
       \/ /\ contexts[getter.session].login \notin valid
          /\ contexts' = [contexts EXCEPT ![getter.session].open = FALSE]
          /\ GetGoes("login", 0)
          /\ UNCHANGED <<current, keeper, keepers, faults>>
       \/ Fault /\ GetGoes("login", 0) /\ UNCHANGED <<contexts, current, keeper, keepers>>
    /\ UNCHANGED <<cookies, valid, logins, tick, ticks, lapses>>

\* createSession up to the entry in the map.  The portal may not load, may show
\* a CAPTCHA or refuse the login: the call fails and the context stays open.
LogIn ==
    /\ Getting("login")
    /\ \/ /\ logins' = logins + 1
          /\ valid' = valid \cup {logins + 1}
          /\ contexts' = Append(contexts, [login |-> logins + 1, alive |-> TRUE, open |-> TRUE])
          /\ current' = Len(contexts) + 1
          /\ GetGoes("persist", Len(contexts) + 1)
          /\ UNCHANGED faults
       \/ /\ Fault
          /\ contexts' = Append(contexts, [login |-> 0, alive |-> TRUE, open |-> TRUE])
          /\ GetGoes("failed", 0)
          /\ UNCHANGED <<logins, valid, current>>
    /\ UNCHANGED <<keeper, keepers, cookies, tick, ticks, lapses>>

\* The end of createSession; cookies that cannot be stored are let go.
Persist ==
    /\ Getting("persist")
    /\ \/ cookies' = contexts[getter.session].login /\ UNCHANGED faults
       \/ Fault /\ UNCHANGED cookies
    /\ StartKeepAlive
    /\ GetGoes("got", getter.session)
    /\ UNCHANGED <<contexts, current, valid, logins, tick, ticks, lapses>>

GetSession == LookUp \/ Ping \/ ReadCookies \/ Restore \/ LogIn \/ Persist
-----------------------------------------------------------------------------
\* The callback of the interval: nothing to do without a session in the map.
Tick ==
    /\ keeper # 0 /\ tick.pc = "idle"
    /\ ticks < MaxTicks /\ Mishaps < MaxMishaps
    /\ ticks' = ticks + 1
    /\ IF current = 0 THEN keeper' = 0 /\ UNCHANGED tick
       ELSE tick' = [pc |-> "ping", keeper |-> keeper, session |-> current] /\ UNCHANGED keeper
    /\ UNCHANGED <<contexts, current, keepers, cookies, valid, logins, getter, lapses, faults>>

\* Mutant: the interval that is cleared is the one in keepAliveIntervals.
TickPingClearsMap(navigating) ==
    /\ tick.pc = "ping"
    /\ \/ /\ Answers(tick.session)
          /\ tick' = [tick EXCEPT !.pc = "save"]
          /\ UNCHANGED <<contexts, keeper>>
       \/ /\ ~Answers(tick.session) \/ navigating
          /\ Dead(tick.session)
          /\ keeper' = 0
          /\ tick' = [tick EXCEPT !.pc = "delete"]
    /\ UNCHANGED <<current, keepers, cookies, valid, logins, getter, ticks, lapses, faults>>

\* Its ping.  It may also fail because a job navigates the page it runs in: the
\* session is then taken for dead.  It clears the interval it belongs to.
TickPing(navigating) ==
    /\ tick.pc = "ping"
    /\ \/ /\ Answers(tick.session)
          /\ tick' = [tick EXCEPT !.pc = "save"]
          /\ UNCHANGED <<contexts, keeper>>
       \/ /\ ~Answers(tick.session) \/ navigating
          /\ Dead(tick.session)
          /\ keeper' = IF keeper = tick.keeper THEN 0 ELSE keeper
          /\ tick' = [tick EXCEPT !.pc = "delete"]
    /\ UNCHANGED <<current, keepers, cookies, valid, logins, getter, ticks, lapses, faults>>

\* The cookies of a dead session are deleted, whoever has stored them since;
\* those of a live one are stored again, if its context is still open to ask.
TickEnds ==
    /\ tick.pc \in {"delete", "save"}
    /\ tick' = NoTick
    /\ \/ tick.pc = "delete" /\ cookies' = 0
       \/ tick.pc = "save" /\ cookies' = contexts[tick.session].login
       \/ tick.pc = "save" /\ ~contexts[tick.session].open /\ UNCHANGED cookies
    /\ UNCHANGED <<contexts, current, keeper, keepers, valid, logins, getter, ticks,
                   lapses, faults>>
-----------------------------------------------------------------------------
\* shutdown, called by stop when the worker is closed: the context ...
Close ==
    /\ Getting("close")
    /\ IF current = 0 THEN UNCHANGED contexts
       ELSE contexts' = [contexts EXCEPT ![current].open = FALSE]
    /\ GetGoes(IF current = 0 THEN "quit" ELSE "remove", 0)
    /\ UNCHANGED <<current, keeper, keepers, cookies, valid, logins, tick, ticks,
                   lapses, faults>>

\* ... the session and its interval ...
ForgetSession ==
    /\ Getting("remove")
    /\ current' = 0
    /\ keeper' = 0
    /\ GetGoes("forget", 0)
    /\ UNCHANGED <<contexts, keepers, cookies, valid, logins, tick, ticks, lapses, faults>>

\* ... the cookies ...
Forget ==
    /\ Getting("forget")
    /\ cookies' = 0
    /\ GetGoes("quit", 0)
    /\ UNCHANGED <<contexts, current, keeper, keepers, valid, logins, tick, ticks,
                   lapses, faults>>

\* ... and the browser, with every context that is still open.
CloseBrowser ==
    /\ Getting("quit")
    /\ contexts' = [i \in DOMAIN contexts |-> [contexts[i] EXCEPT !.open = FALSE]]
    /\ GetGoes("idle", 0)
    /\ UNCHANGED <<current, keeper, keepers, cookies, valid, logins, tick, ticks,
                   lapses, faults>>

\* The portal forgets a login, or the cookies have been in the cache for 25
\* minutes.
Lapse ==
    /\ lapses < MaxLapses /\ Mishaps < MaxMishaps
    /\ lapses' = lapses + 1
    /\ \/ \E l \in valid : valid' = valid \ {l} /\ UNCHANGED cookies
       \/ cookies # 0 /\ cookies' = 0 /\ UNCHANGED valid
    /\ UNCHANGED <<contexts, current, keeper, keepers, logins, tick, getter, ticks, faults>>

\* The process is gone with its browser; the cookies in the cache stay.
ProcessLost ==
    /\ Fault
    /\ contexts' = <<>> /\ current' = 0 /\ keeper' = 0
    /\ tick' = NoTick /\ getter' = NoGetter
    /\ UNCHANGED <<keepers, cookies, valid, logins, ticks, lapses>>
-----------------------------------------------------------------------------
(***************************************************************************)
(* A session that getSession would hand out is being kept alive: whatever  *)
(* a late callback of an earlier interval does, the interval of the        *)
(* session in the map stays armed until that session is found dead.        *)
(***************************************************************************)
LiveSessionKept ==
    current # 0 /\ contexts[current].alive /\ ~Getting("persist") => keeper # 0
=============================================================================
