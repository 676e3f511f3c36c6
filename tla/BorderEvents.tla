--------------------------- MODULE BorderEvents ---------------------------
(***************************************************************************)
(* The writers of an application's status: POST /events/entry and /exit,   *)
(* PATCH /applications/:id/status, POST /applications, and the import of a *)
(* passenger who is new; and the other writers of its status history: the  *)
(* scheduler's sweep for expired visas, the import of a row and the manual *)
(* entry, which log what the portal says and leave the status as it is.    *)
(* None of them uses a transaction: every query is a step of its own, any  *)
(* of them may fail, and the server may stop between two of them.  Clients *)
(* repeat a request when they like.                                        *)
(*                                                                         *)
(* A request is what its body says: the application, the idempotency key   *)
(* (NoKey for a PATCH) and the status it asks for; the event's kind is     *)
(* ENTRY when that is IN_COUNTRY and EXIT when it is EXITED.  For an       *)
(* imported row or a manual entry it is the portal's status, normalised.   *)
(* Their history rows quote the portalStatus column as the old value: its  *)
(* value is kept by module Imports, here it is Stored.  Audit entries are  *)
(* left out: nothing reads them and their errors are swallowed.            *)
(***************************************************************************)
EXTENDS Integers, Sequences

CONSTANTS
    Handlers,      \* requests in flight at a time
    Apps,          \* applications, created or not yet
    Keys,          \* idempotency keys
    NoKey,
    EventTargets,  \* statuses an event can ask for
    PatchTargets,  \* statuses an operator can ask for
    PortalStatuses, \* what normalizeStatus gives for a portal's status
    Expired,       \* applications whose expiryDate has passed
    MaxHistory,    \* bound: rows up to which all but events and POST still start
    MaxFaults,     \* bound: failed queries and server stops
    NoRequest, Nothing

ASSUME EventsAssumption ==
    /\ NoKey \notin Keys
    /\ EventTargets \subseteq {"IN_COUNTRY", "EXITED"}
    /\ PatchTargets \subseteq {"PENDING", "APPROVED", "REJECTED", "ACTIVE",
                               "EXPIRED", "CANCELLED", "IN_COUNTRY", "EXITED"}
    /\ PortalStatuses \subseteq STRING /\ "ABSENT" \notin PortalStatuses
    /\ Expired \subseteq Apps
    /\ MaxHistory \in Nat /\ MaxFaults \in Nat

Absent == "ABSENT"
Stored == "AS STORED"
Statuses == EventTargets \cup PatchTargets \cup PortalStatuses
            \cup {"PENDING", "EXPIRED", "ACTIVE", Absent, Stored}
EventRequest == [app: Apps, key: Keys, target: EventTargets]
PatchRequest == [app: Apps, key: {NoKey}, target: PatchTargets]
CreateRequest == [app: Apps, key: {NoKey}, target: {"PENDING"}]
PortalRequest == [app: Apps, key: {NoKey}, target: PortalStatuses]
Request == EventRequest \cup PatchRequest \cup CreateRequest \cup PortalRequest

ASSUME NoEventAssumption ==
    NoRequest \notin Request /\ Nothing \notin EventRequest

VARIABLES
    status,     \* visa_applications.status
    events,     \* border_events, each row with its id
    nextId,     \* the next id uuid() gives
    history,    \* status_history of each application
    handler,    \* the requests being handled
    sweep,      \* what the running sweep found and has still to log
    acked,      \* keys answered with success
    faults,     \* queries that failed, servers that stopped
    disturbed   \* history: applications on which two updates overlapped or one
                \* was cut short

vars == <<status, events, nextId, history, handler, sweep, acked, faults,
          disturbed>>

Row == [id: Nat \ {0}, app: Apps, key: Keys, target: EventTargets]

\* The column source in three classes: ENTRY_EVENT, EXIT_EVENT and MANUAL come
\* from a route that gave the application a status, SYSTEM from the sweep,
\* CSV_IMPORT and MANUAL_ENTRY tell what the portal said.
Sources == {"ROUTE", "SYSTEM", "PORTAL"}
HistoryRow == [old: Statuses, new: Statuses, event: Nat, source: Sources]
Idle == [pc |-> "idle", req |-> NoRequest, seen |-> Absent, event |-> 0]
Stages == {"idle", "load", "insert", "update", "history", "answer", "portal"}
Handling == [pc: Stages, req: Request \cup {NoRequest}, seen: Statuses, event: Nat]

TypeOK ==
    /\ status \in [Apps -> Statuses]
    /\ events \subseteq Row
    /\ nextId \in Nat \ {0}
    /\ history \in [Apps -> Seq(HistoryRow)]
    /\ handler \in [Handlers -> Handling]
    /\ \A h \in Handlers : handler[h].pc # "idle" => handler[h].req \in Request
    /\ sweep \subseteq [app: Apps, old: Statuses]
    /\ acked \subseteq Keys
    /\ faults \in 0 .. MaxFaults
    /\ disturbed \subseteq Apps

Init ==
    /\ status = [a \in Apps |-> Absent]
    /\ events = {}
    /\ nextId = 1
    /\ history = [a \in Apps |-> <<>>]
    /\ handler = [h \in Handlers |-> Idle]
    /\ sweep = {}
    /\ acked = {}
    /\ faults = 0
    /\ disturbed = {}

Recorded(k) == \E e \in events : e.key = k
App(h) == handler[h].req.app

\* Handlers that have read a's status and not yet logged their change of it.
Updating(a) == {h \in Handlers : /\ handler[h].pc \in {"insert", "update", "history"}
                                 /\ App(h) = a}
Disturb(a) == disturbed' = IF Updating(a) = {} THEN disturbed
                           ELSE disturbed \cup {a}
-----------------------------------------------------------------------------
\* Mutant: a repeated key is refused (the ConflictError the file imports).
DuplicateRefused(r) ==
    /\ Recorded(r.key)
    /\ UNCHANGED vars

\* findUnique by key finds a row: the request is answered with it at once.
Duplicate(r) ==
    /\ Recorded(r.key)
    /\ acked' = acked \cup {r.key}
    /\ UNCHANGED <<status, events, nextId, history, handler, sweep, faults,
                   disturbed>>

\* findUnique by key finds none.
Arrive(h, r) ==
    /\ handler[h] = Idle
    /\ ~Recorded(r.key)
    /\ handler' = [handler EXCEPT ![h] = [Idle EXCEPT !.pc = "load", !.req = r]]
    /\ UNCHANGED <<status, events, nextId, history, sweep, acked, faults,
                   disturbed>>

\* The application is read; what its status was is kept for the history row.
Load(h) ==
    /\ handler[h].pc = "load"
    /\ status[App(h)] # Absent
    /\ handler' = [handler EXCEPT ![h].pc = "insert", ![h].seen = status[App(h)]]
    /\ Disturb(App(h))
    /\ UNCHANGED <<status, events, nextId, history, sweep, acked, faults>>

NotFound(h) ==
    /\ handler[h].pc = "load"
    /\ status[App(h)] = Absent
    /\ handler' = [handler EXCEPT ![h] = Idle]
    /\ UNCHANGED <<status, events, nextId, history, sweep, acked, faults,
                   disturbed>>

\* Mutant: no unique index on the key.
InsertAnyKey(h) ==
    /\ handler[h].pc = "insert"
    /\ events' = events \cup {[id |-> nextId, app |-> App(h), key |-> handler[h].req.key,
                               target |-> handler[h].req.target]}
    /\ nextId' = nextId + 1
    /\ handler' = [handler EXCEPT ![h].pc = "update", ![h].event = nextId]
    /\ UNCHANGED <<status, history, sweep, acked, faults, disturbed>>

\* borderEvent.create; the unique index lets a key in once.
Insert(h) ==
    /\ handler[h].pc = "insert"
    /\ ~Recorded(handler[h].req.key)
    /\ events' = events \cup {[id |-> nextId, app |-> App(h), key |-> handler[h].req.key,
                               target |-> handler[h].req.target]}
    /\ nextId' = nextId + 1
    /\ handler' = [handler EXCEPT ![h].pc = "update", ![h].event = nextId]
    /\ UNCHANGED <<status, history, sweep, acked, faults, disturbed>>

\* The unique index refuses the key: the request ends with an error.
Conflict(h) ==
    /\ handler[h].pc = "insert"
    /\ Recorded(handler[h].req.key)
    /\ handler' = [handler EXCEPT ![h] = Idle]
    /\ UNCHANGED <<status, events, nextId, history, sweep, acked, faults,
                   disturbed>>

\* PATCH /:id/status reads the application.
StartPatch(h, r) ==
    /\ handler[h] = Idle
    /\ status[r.app] # Absent
    /\ Len(history[r.app]) < MaxHistory
    /\ handler' = [handler EXCEPT ![h] = [pc |-> "update", req |-> r,
                                          seen |-> status[r.app], event |-> 0]]
    /\ Disturb(r.app)
    /\ UNCHANGED <<status, events, nextId, history, sweep, acked, faults>>

\* POST /applications: the row is created PENDING, its history row next.
Create(h, r) ==
    /\ handler[h] = Idle
    /\ status[r.app] = Absent
    /\ status' = [status EXCEPT ![r.app] = "PENDING"]
    /\ handler' = [handler EXCEPT ![h] = [Idle EXCEPT !.pc = "history", !.req = r]]
    /\ UNCHANGED <<events, nextId, history, sweep, acked, faults, disturbed>>

\* processOneRecord, for a passenger without an application: it is created with
\* the status of the row, ACTIVE if the row has none, and no history row.
ImportCreates(a, s) ==
    /\ status[a] = Absent
    /\ status' = [status EXCEPT ![a] = s]
    /\ UNCHANGED <<events, nextId, history, handler, sweep, acked, faults, disturbed>>

\* processOneRecord and manualStatusEntry read the latest application.  A row
\* whose status is the application's own logs nothing; an entry always does.
StartPortal(h, r) ==
    /\ handler[h] = Idle
    /\ status[r.app] # Absent
    /\ Len(history[r.app]) < MaxHistory
    /\ handler' = [handler EXCEPT ![h] = [pc |-> "portal", req |-> r, seen |-> Stored,
                                          event |-> 0]]
    /\ UNCHANGED <<status, events, nextId, history, sweep, acked, faults, disturbed>>

\* Their history row, after the writes that concern Imports: from the portal
\* status that was read to the new one.
LogPortal(h) ==
    /\ handler[h].pc = "portal"
    /\ history' = [history EXCEPT ![App(h)] =
                     Append(@, [old |-> handler[h].seen, new |-> handler[h].req.target,
                                event |-> 0, source |-> "PORTAL"])]
    /\ handler' = [handler EXCEPT ![h] = Idle]
    /\ UNCHANGED <<status, events, nextId, sweep, acked, faults, disturbed>>

UpdateStatus(h) ==
    /\ handler[h].pc = "update"
    /\ status' = [status EXCEPT ![App(h)] = handler[h].req.target]
    /\ handler' = [handler EXCEPT ![h].pc = "history"]
    /\ UNCHANGED <<events, nextId, history, sweep, acked, faults, disturbed>>

\* Mutant: oldStatus taken from the row just updated.
WriteHistoryUpdated(h) ==
    /\ handler[h].pc = "history"
    /\ history' = [history EXCEPT ![App(h)] =
                     Append(@, [old |-> status[App(h)], new |-> handler[h].req.target,
                                event |-> handler[h].event, source |-> "ROUTE"])]
    /\ handler' = [handler EXCEPT ![h].pc = "answer"]
    /\ UNCHANGED <<status, events, nextId, sweep, acked, faults, disturbed>>

WriteHistory(h) ==
    /\ handler[h].pc = "history"
    /\ history' = [history EXCEPT ![App(h)] =
                     Append(@, [old |-> handler[h].seen, new |-> handler[h].req.target,
                                event |-> handler[h].event, source |-> "ROUTE"])]
    /\ handler' = [handler EXCEPT ![h].pc = "answer"]
    /\ UNCHANGED <<status, events, nextId, sweep, acked, faults, disturbed>>

Answer(h) ==
    /\ handler[h].pc = "answer"
    /\ acked' = acked \cup ({handler[h].req.key} \cap Keys)
    /\ handler' = [handler EXCEPT ![h] = Idle]
    /\ UNCHANGED <<status, events, nextId, history, sweep, faults, disturbed>>

\* A query of the handler throws, or the server stops under it: what it has
\* written stays, the rest is never written.
Fail(h) ==
    /\ handler[h].pc # "idle"
    /\ faults < MaxFaults
    /\ faults' = faults + 1
    /\ handler' = [handler EXCEPT ![h] = Idle]
    /\ disturbed' = IF handler[h].pc = "history" THEN disturbed \cup {App(h)}
                    ELSE disturbed
    /\ UNCHANGED <<status, events, nextId, history, sweep, acked>>

\* runExpiredVisaCheck: applications still active after their expiry.
SweepFind ==
    /\ sweep = {}
    /\ sweep' = {[app |-> a, old |-> status[a]] :
                   a \in {b \in Expired : /\ status[b] \in {"ACTIVE", "IN_COUNTRY"}
                                          /\ Len(history[b]) < MaxHistory}}
    /\ sweep' # {}
    /\ UNCHANGED <<status, events, nextId, history, handler, acked, faults,
                   disturbed>>

\* Each gets a history row; its status stays what it is.
SweepLog(s) ==
    /\ history' = [history EXCEPT ![s.app] =
                     Append(@, [old |-> s.old, new |-> "EXPIRED", event |-> 0,
                                source |-> "SYSTEM"])]
    /\ sweep' = sweep \ {s}
    /\ UNCHANGED <<status, events, nextId, handler, acked, faults, disturbed>>

SweepFails ==
    /\ sweep # {}
    /\ faults < MaxFaults
    /\ faults' = faults + 1
    /\ sweep' = {}
    /\ UNCHANGED <<status, events, nextId, history, handler, acked, disturbed>>

Advance(h) ==
    \/ Load(h) \/ NotFound(h) \/ Insert(h) \/ Conflict(h)
    \/ UpdateStatus(h) \/ WriteHistory(h) \/ Answer(h)
    \/ LogPortal(h)

Submit(r) == Duplicate(r) \/ \E h \in Handlers : Arrive(h, r)

Next ==
    \/ \E r \in EventRequest : Submit(r)
    \/ \E h \in Handlers :
          \/ Advance(h) \/ Fail(h)
          \/ \E r \in PatchRequest : StartPatch(h, r)
          \/ \E r \in CreateRequest : Create(h, r)
          \/ \E r \in PortalRequest : StartPortal(h, r)
    \/ \E a \in Apps, s \in PortalStatuses \cup {"ACTIVE"} : ImportCreates(a, s)
    \/ SweepFind \/ SweepFails
    \/ \E s \in sweep : SweepLog(s)

Spec == Init /\ [][Next]_vars

\* Every query ends, with an answer or an error; a client that was not
\* answered with success sends its request again.
FairSpec == /\ Spec
            /\ \A h \in Handlers : WF_vars(Advance(h))
            /\ \A r \in EventRequest : SF_vars(Submit(r))
-----------------------------------------------------------------------------
\* Two requests with one key, however they interleave, leave one event.
KeyedOnce == \A e, f \in events : e.key = f.key => e = f

\* An event is logged in the status history at most once, on its own
\* application and with the status it stands for: of two requests that race
\* with one key only the one whose row went in changes anything.
LoggedOnce ==
    \A a, b \in Apps : \A i \in 1 .. Len(history[a]), j \in 1 .. Len(history[b]) :
        LET x == history[a][i] IN
        x.event # 0 =>
            /\ \E e \in events : e.id = x.event /\ e.app = a /\ e.target = x.new
            /\ history[b][j].event = x.event => a = b /\ i = j

\* The rows of a's history whose source is a route, and what the last of them
\* left if there is one.
Changes(a) == {i \in DOMAIN history[a] : history[a][i].source = "ROUTE"}
LastLeft(a, s) ==
    \A i \in Changes(a) : (\A k \in Changes(a) : k <= i) => history[a][i].new = s

\* Whatever the sweep, imports and manual entries log in between: while updates
\* of an application do not overlap and none is cut short, each row of a route
\* starts from the status that the route's row before it left, and the last
\* one is the status the application has.
UndisturbedChain ==
    \A a \in Apps \ disturbed :
        /\ \A i, j \in Changes(a) :
              i < j /\ (\A k \in Changes(a) : k <= i \/ j <= k)
                  => history[a][j].old = history[a][i].new
        /\ Updating(a) = {} => LastLeft(a, status[a])

\* The table of events and the success answers implement the abstract
\* register: first event per key, kept for ever, answered only when kept.
Content(e) == [app |-> e.app, key |-> e.key, target |-> e.target]
recorded == [k \in Keys |->
               IF Recorded(k) THEN Content(CHOOSE e \in events : e.key = k)
               ELSE Nothing]
Promised == INSTANCE EventRegister
                WITH Events <- EventRequest, answered <- acked
RegistersEvents == Promised!Register

\* A client that repeats its request until it is answered is answered, also
\* when another one races it with the same key and when queries failed before.
RetriedIsAnswered ==
    \A r \in EventRequest : (status[r.app] # Absent) ~> (r.key \in acked)
=============================================================================
