------------------------ MODULE BorderEventsProofs ------------------------
(***************************************************************************)
(* Proofs about BorderEvents, for any number of handlers, applications,    *)
(* keys and failures: types, one event per key, one history row per event, *)
(* histories that chain up, and that the handlers implement EventRegister. *)
(***************************************************************************)
EXTENDS BorderEvents, SequenceTheorems, TLAPS

\* Ids are handed out once.
IdsFresh ==
    /\ \A e \in events : e.id < nextId
    /\ \A e, f \in events : e.id = f.id => e = f

\* A handler that has passed the insertion works on the event it inserted,
\* and no other handler works on that one.
Holds(h, e) == /\ e.id = handler[h].event
               /\ e.app = handler[h].req.app
               /\ e.key = handler[h].req.key
               /\ e.target = handler[h].req.target
HoldsOwn ==
    /\ \A h \in Handlers : handler[h].pc \in {"load", "insert"} =>
          handler[h].event = 0 /\ handler[h].req \in EventRequest
    /\ \A h \in Handlers : handler[h].pc = "idle" => handler[h].event = 0
    /\ \A h \in Handlers :
          /\ handler[h].event # 0 => \E e \in events : Holds(h, e)
          /\ handler[h].pc # "idle" /\ handler[h].req.key \in Keys
             /\ handler[h].event = 0 => handler[h].pc \in {"load", "insert"}
    /\ \A g, h \in Handlers :
          handler[g].event # 0 /\ handler[g].event = handler[h].event => g = h

\* The event a handler has still to log is not in any history.
NotYetLogged ==
    \A h \in Handlers : handler[h].event # 0 /\ handler[h].pc # "answer" =>
        \A a \in Apps : \A i \in 1 .. Len(history[a]) :
            history[a][i].event # handler[h].event

AnsweredIsRecorded == \A k \in acked : Recorded(k)

IInv == /\ TypeOK /\ IdsFresh /\ KeyedOnce /\ HoldsOwn /\ NotYetLogged
        /\ LoggedOnce /\ AnsweredIsRecorded
-----------------------------------------------------------------------------
\* What every request carries.
LEMMA RequestFields ==
    ASSUME NEW r \in Request
    PROVE  /\ r.app \in Apps /\ r.target \in Statuses
           /\ r.key \in Keys \cup {NoKey}
           /\ r.key \in Keys => r \in EventRequest
BY EventsAssumption
   DEF Request, EventRequest, PatchRequest, CreateRequest, PortalRequest, Statuses

\* A row logged on application a is the only new row of any history.
LEMMA LogGrows ==
    ASSUME history \in [Apps -> Seq(HistoryRow)],
           NEW a \in Apps, NEW r \in HistoryRow,
           history' = [history EXCEPT ![a] = Append(@, r)]
    PROVE  /\ history' \in [Apps -> Seq(HistoryRow)]
           /\ \A b \in Apps : \A i \in 1 .. Len(history'[b]) :
                 \/ b = a /\ i = Len(history[a]) + 1 /\ history'[b][i] = r
                 \/ i \in 1 .. Len(history[b]) /\ history'[b][i] = history[b][i]
<1>1. history[a] \in Seq(HistoryRow) /\ Append(history[a], r) \in Seq(HistoryRow)
  OBVIOUS
<1>2. history' \in [Apps -> Seq(HistoryRow)]
  BY <1>1
<1>3. ASSUME NEW b \in Apps, NEW i \in 1 .. Len(history'[b])
      PROVE  \/ b = a /\ i = Len(history[a]) + 1 /\ history'[b][i] = r
             \/ i \in 1 .. Len(history[b]) /\ history'[b][i] = history[b][i]
  <2>1. CASE b = a
    <3>1. history'[b] = Append(history[a], r)
      BY <2>1
    <3>2. Len(history'[b]) = Len(history[a]) + 1 /\ Len(history[a]) \in Nat
      BY <3>1, <1>1
    <3>3. CASE i = Len(history[a]) + 1
      BY <3>1, <3>3, <2>1, <1>1
    <3>4. CASE i # Len(history[a]) + 1
      BY <3>1, <3>2, <3>4, <2>1, <1>1
    <3>5. QED
      BY <3>3, <3>4
  <2>2. CASE b # a
    BY <2>2
  <2>3. QED
    BY <2>1, <2>2
<1>4. QED
  BY <1>2, <1>3

\* The rows that WriteHistory and LogPortal log are well formed.
LEMMA RowTyped ==
    ASSUME TypeOK, NEW h \in Handlers, handler[h].pc # "idle"
    PROVE  /\ handler[h].req \in Request /\ App(h) \in Apps
           /\ [old |-> handler[h].seen, new |-> handler[h].req.target,
               event |-> handler[h].event, source |-> "ROUTE"] \in HistoryRow
           /\ [old |-> handler[h].seen, new |-> handler[h].req.target,
               event |-> 0, source |-> "PORTAL"] \in HistoryRow
<1>1. handler[h] \in Handling /\ handler[h].req \in Request
  BY DEF TypeOK
<1>2. handler[h].req.app \in Apps /\ handler[h].req.target \in Statuses
  BY <1>1, RequestFields
<1>3. handler[h].seen \in Statuses /\ handler[h].event \in Nat
  BY <1>1 DEF Handling
<1>4. QED
  BY <1>1, <1>2, <1>3 DEF HistoryRow, Sources, App

-----------------------------------------------------------------------------
\* Every step keeps the types.
LEMMA TypeStep == TypeOK /\ HoldsOwn /\ [Next]_vars => TypeOK'
<1> SUFFICES ASSUME TypeOK, HoldsOwn, [Next]_vars PROVE TypeOK'
  OBVIOUS
<1> USE EventsAssumption, NoEventAssumption
<1>0. Idle \in Handling /\ Idle.pc = "idle"
  BY DEF Idle, Handling, Stages, Statuses
<1>1. ASSUME NEW r \in EventRequest, Duplicate(r) PROVE TypeOK'
  BY <1>1 DEF TypeOK, Duplicate, EventRequest
<1>2. ASSUME NEW r \in EventRequest, NEW h \in Handlers, Arrive(h, r) PROVE TypeOK'
  <2>1. [Idle EXCEPT !.pc = "load", !.req = r] \in Handling /\ r \in Request
    BY <1>0 DEF Idle, Handling, Stages, Request
  <2>2. [Idle EXCEPT !.pc = "load", !.req = r].req = r
    BY DEF Idle
  <2>3. QED
    BY <1>2, <2>1, <2>2 DEF TypeOK, Arrive
<1>3. ASSUME NEW h \in Handlers, Load(h) PROVE TypeOK'
  <2>1. App(h) \in Apps /\ handler[h].pc # "idle"
    BY <1>3, RowTyped DEF Load
  <2>2. handler' \in [Handlers -> Handling]
    <3>1. status[App(h)] \in Statuses /\ handler[h] \in Handling
      BY <2>1 DEF TypeOK
    <3>2. [handler[h] EXCEPT !.pc = "insert", !.seen = status[App(h)]] \in Handling
      BY <3>1 DEF Handling, Stages
    <3>3. QED
      BY <1>3, <3>2 DEF TypeOK, Load
  <2>3. \A g \in Handlers : handler'[g].pc # "idle" => handler'[g].req \in Request
    BY <1>3, <2>1 DEF TypeOK, Load, Handling
  <2>4. disturbed' \subseteq Apps
    BY <1>3, <2>1 DEF TypeOK, Load, Disturb
  <2>5. QED
    BY <1>3, <2>2, <2>3, <2>4 DEF TypeOK, Load
<1>4. ASSUME NEW h \in Handlers, NotFound(h) \/ Conflict(h) PROVE TypeOK'
  BY <1>4, <1>0 DEF TypeOK, NotFound, Conflict
<1>5. ASSUME NEW h \in Handlers, Insert(h) PROVE TypeOK'
  <2>1. handler[h].req \in EventRequest
    BY <1>5 DEF Insert, HoldsOwn
  <2>2. [id |-> nextId, app |-> App(h), key |-> handler[h].req.key,
         target |-> handler[h].req.target] \in Row
    BY <2>1 DEF TypeOK, Row, EventRequest, App
  <2>3. events' \subseteq Row /\ nextId' \in Nat \ {0}
    BY <1>5, <2>2 DEF TypeOK, Insert
  <2>4. handler' \in [Handlers -> Handling]
    BY <1>5, ZenonT(30) DEF TypeOK, Insert, Handling, Stages
  <2>5. \A g \in Handlers : handler'[g].pc # "idle" => handler'[g].req \in Request
    BY <1>5 DEF TypeOK, Insert, Handling
  <2>6. QED
    BY <1>5, <2>3, <2>4, <2>5 DEF TypeOK, Insert
<1>6. ASSUME NEW r \in PatchRequest, NEW h \in Handlers, StartPatch(h, r) PROVE TypeOK'
  <2>1. r \in Request /\ r.app \in Apps
    BY RequestFields DEF Request
  <2>2. [pc |-> "update", req |-> r, seen |-> status[r.app], event |-> 0] \in Handling
    BY <2>1 DEF TypeOK, Handling, Stages
  <2>3. QED
    BY <1>6, <2>1, <2>2 DEF TypeOK, StartPatch, Disturb
<1>7. ASSUME NEW r \in CreateRequest, NEW h \in Handlers, Create(h, r) PROVE TypeOK'
  <2>1. r \in Request /\ r.app \in Apps /\ "PENDING" \in Statuses
    BY RequestFields DEF Request, Statuses
  <2>2. /\ [Idle EXCEPT !.pc = "history", !.req = r] \in Handling
        /\ [Idle EXCEPT !.pc = "history", !.req = r].req = r
    BY <2>1, <1>0 DEF Idle, Handling, Stages
  <2>3. QED
    BY <1>7, <2>1, <2>2 DEF TypeOK, Create
<1>8. ASSUME NEW h \in Handlers, UpdateStatus(h) PROVE TypeOK'
  <2>1. App(h) \in Apps /\ handler[h].req.target \in Statuses /\ handler[h].pc # "idle"
    BY <1>8, RequestFields DEF TypeOK, UpdateStatus, App
  <2>2. QED
    BY <1>8, <2>1 DEF TypeOK, UpdateStatus, Handling, Stages
<1>9. ASSUME NEW h \in Handlers, WriteHistory(h) PROVE TypeOK'
  <2>1. App(h) \in Apps /\ handler[h].pc # "idle"
    BY <1>9, RowTyped DEF WriteHistory
  <2>2. history' \in [Apps -> Seq(HistoryRow)]
    BY <1>9, <2>1, RowTyped, LogGrows DEF TypeOK, WriteHistory
  <2>3. QED
    BY <1>9, <2>1, <2>2, ZenonT(30) DEF TypeOK, WriteHistory, Handling, Stages
<1>10. ASSUME NEW h \in Handlers, Answer(h) PROVE TypeOK'
  BY <1>10, <1>0 DEF TypeOK, Answer
<1>11. ASSUME NEW h \in Handlers, Fail(h) PROVE TypeOK'
  <2>1. App(h) \in Apps
    BY <1>11, RowTyped DEF Fail
  <2>2. faults \in 0 .. MaxFaults /\ faults < MaxFaults /\ faults' = faults + 1
    BY <1>11 DEF TypeOK, Fail
  <2>3. faults' \in 0 .. MaxFaults
    BY <2>2, EventsAssumption
  <2>4. disturbed' \subseteq Apps
    BY <1>11, <2>1 DEF TypeOK, Fail
  <2>5. QED
    BY <1>11, <1>0, <2>3, <2>4 DEF TypeOK, Fail
<1>12. ASSUME SweepFind PROVE TypeOK'
  <2>1. \A a \in Expired : [app |-> a, old |-> status[a]] \in [app: Apps, old: Statuses]
    BY DEF TypeOK
  <2>2. sweep' \subseteq [app: Apps, old: Statuses]
    BY <1>12, <2>1 DEF SweepFind
  <2>3. QED
    BY <1>12, <2>2 DEF TypeOK, SweepFind
<1>13. ASSUME NEW s \in sweep, SweepLog(s) PROVE TypeOK'
  <2>1. /\ s.app \in Apps
        /\ [old |-> s.old, new |-> "EXPIRED", event |-> 0, source |-> "SYSTEM"]
              \in HistoryRow
    BY DEF TypeOK, HistoryRow, Sources, Statuses
  <2>2. history' \in [Apps -> Seq(HistoryRow)]
    BY <1>13, <2>1, LogGrows DEF TypeOK, SweepLog
  <2>3. QED
    BY <1>13, <2>1, <2>2 DEF TypeOK, SweepLog
<1>14. ASSUME SweepFails PROVE TypeOK'
  BY <1>14 DEF TypeOK, SweepFails
<1>15. CASE UNCHANGED vars
  BY <1>15 DEF TypeOK, vars
<1>19. ASSUME NEW h \in Handlers, LogPortal(h) PROVE TypeOK'
  <2>1. App(h) \in Apps /\ handler[h].pc # "idle"
    BY <1>19, RowTyped DEF LogPortal
  <2>2. history' \in [Apps -> Seq(HistoryRow)]
    BY <1>19, <2>1, RowTyped, LogGrows DEF TypeOK, LogPortal
  <2>3. QED
    BY <1>19, <1>0, <2>1, <2>2 DEF TypeOK, LogPortal
<1>20. ASSUME NEW r \in PortalRequest, NEW h \in Handlers, StartPortal(h, r) PROVE TypeOK'
  <2>1. r \in Request /\ r.app \in Apps /\ Stored \in Statuses
    BY RequestFields DEF Request, Statuses
  <2>2. [pc |-> "portal", req |-> r, seen |-> Stored, event |-> 0] \in Handling
    BY <2>1 DEF Handling, Stages
  <2>3. QED
    BY <1>20, <2>1, <2>2 DEF TypeOK, StartPortal
<1>21. ASSUME NEW a \in Apps, NEW s \in PortalStatuses \cup {"ACTIVE"}, ImportCreates(a, s)
       PROVE  TypeOK'
  <2>1. s \in Statuses
    BY DEF Statuses
  <2>2. QED
    BY <1>21, <2>1 DEF TypeOK, ImportCreates
<1>16. ASSUME NEW h \in Handlers, Advance(h) PROVE TypeOK'
  BY <1>16, <1>3, <1>4, <1>5, <1>8, <1>9, <1>10, <1>19 DEF Advance
<1>17. ASSUME NEW r \in EventRequest, Submit(r) PROVE TypeOK'
  BY <1>17, <1>1, <1>2 DEF Submit
<1>18. QED
  BY <1>6, <1>7, <1>11, <1>12, <1>13, <1>14, <1>15, <1>16, <1>17, <1>20, <1>21 DEF Next
-----------------------------------------------------------------------------
\* A handler that moves on, ends or starts while no row is written keeps the
\* rest of the invariant, as long as it keeps its event or gives it up.
LEMMA HandlerMoves ==
    ASSUME IInv, NEW h \in Handlers, NEW n \in Handling,
           handler' = [handler EXCEPT ![h] = n],
           UNCHANGED <<events, nextId, history>>,
           n.pc \in {"load", "insert"} => n.event = 0 /\ n.req \in EventRequest,
           n.pc = "idle" => n.event = 0,
           n.event # 0 => /\ n.event = handler[h].event
                          /\ n.req = handler[h].req
                          /\ n.pc # "answer" => handler[h].pc # "answer",
           n.pc # "idle" /\ n.req.key \in Keys /\ n.event = 0
               => n.pc \in {"load", "insert"}
    PROVE  IdsFresh' /\ KeyedOnce' /\ HoldsOwn' /\ NotYetLogged' /\ LoggedOnce'
<1>1. handler'[h] = n /\ \A g \in Handlers : g # h => handler'[g] = handler[g]
  BY DEF IInv, TypeOK
<1>2. IdsFresh' /\ KeyedOnce' /\ LoggedOnce'
  BY DEF IInv, IdsFresh, KeyedOnce, LoggedOnce
<1>3. NotYetLogged'
  BY <1>1 DEF IInv, NotYetLogged
<1>4. HoldsOwn'
  <2>1. \A g \in Handlers : handler'[g].pc \in {"load", "insert"} =>
           handler'[g].event = 0 /\ handler'[g].req \in EventRequest
    BY <1>1 DEF IInv, HoldsOwn
  <2>2. \A g \in Handlers : handler'[g].pc = "idle" => handler'[g].event = 0
    BY <1>1 DEF IInv, HoldsOwn
  <2>3. \A g \in Handlers : handler'[g].event # 0 =>
           /\ handler'[g].event = handler[g].event
           /\ handler'[g].req = handler[g].req
    BY <1>1
  <2>4. \A g \in Handlers : handler'[g].event # 0 => \E e \in events' : Holds(g, e)'
    BY <2>3 DEF IInv, HoldsOwn, Holds
  <2>5. \A g \in Handlers : /\ handler'[g].pc # "idle"
                            /\ handler'[g].req.key \in Keys
                            /\ handler'[g].event = 0
                            => handler'[g].pc \in {"load", "insert"}
    BY <1>1 DEF IInv, HoldsOwn
  <2>6. \A f, g \in Handlers :
           handler'[f].event # 0 /\ handler'[f].event = handler'[g].event => f = g
    BY <2>3 DEF IInv, HoldsOwn
  <2>7. QED
    BY <2>1, <2>2, <2>4, <2>5, <2>6 DEF HoldsOwn
<1>5. QED
  BY <1>2, <1>3, <1>4

\* Giving up: the handler's request has ended.
LEMMA HandlerEnds ==
    ASSUME IInv, NEW h \in Handlers, handler' = [handler EXCEPT ![h] = Idle],
           UNCHANGED <<events, nextId, history>>
    PROVE  IdsFresh' /\ KeyedOnce' /\ HoldsOwn' /\ NotYetLogged' /\ LoggedOnce'
<1>1. Idle \in Handling /\ Idle.pc = "idle" /\ Idle.event = 0
  BY DEF Idle, Handling, Stages, Statuses
<1>2. QED
  BY <1>1, HandlerMoves

\* Inserting: the key is new, so is the id, and the handler alone holds it.
LEMMA InsertStep ==
    ASSUME IInv, NEW h \in Handlers, Insert(h)
    PROVE  IdsFresh' /\ KeyedOnce' /\ HoldsOwn' /\ NotYetLogged' /\ LoggedOnce'
<1> DEFINE new == [id |-> nextId, app |-> App(h), key |-> handler[h].req.key,
                   target |-> handler[h].req.target]
<1>1. /\ events' = events \cup {new} /\ nextId' = nextId + 1
      /\ nextId \in Nat \ {0} /\ events \subseteq Row
      /\ history' = history /\ ~Recorded(handler[h].req.key)
  BY DEF Insert, IInv, TypeOK
<1>2. /\ handler'[h].pc = "update" /\ handler'[h].event = nextId
      /\ handler'[h].req = handler[h].req
      /\ \A g \in Handlers : g # h => handler'[g] = handler[g]
  BY DEF Insert, IInv, TypeOK, Handling
<1>3. \A e \in events : e.id < nextId /\ e.id \in Nat
  BY <1>1 DEF IInv, IdsFresh, Row
<1>4. IdsFresh'
  BY <1>1, <1>3 DEF IInv, IdsFresh
<1>5. KeyedOnce'
  BY <1>1 DEF IInv, KeyedOnce, Recorded
<1>6. \A g \in Handlers : handler[g].event # 0 => handler[g].event < nextId
  BY <1>3 DEF IInv, HoldsOwn, Holds
<1>7. HoldsOwn'
  <2>1. \A g \in Handlers : handler'[g].event # 0 => \E e \in events' : Holds(g, e)'
    <3>1. \E e \in events' : Holds(h, e)'
      <4>1. /\ new \in events' /\ new.id = handler'[h].event
            /\ new.app = handler'[h].req.app /\ new.key = handler'[h].req.key
            /\ new.target = handler'[h].req.target
        BY <1>1, <1>2 DEF App
      <4>2. QED
        BY <4>1 DEF Holds
    <3>2. \A g \in Handlers : g # h /\ handler'[g].event # 0 =>
             \E e \in events' : Holds(g, e)'
      BY <1>1, <1>2 DEF IInv, HoldsOwn, Holds
    <3>3. QED
      BY <3>1, <3>2
  <2>2. \A f, g \in Handlers :
           handler'[f].event # 0 /\ handler'[f].event = handler'[g].event => f = g
    BY <1>1, <1>2, <1>6 DEF IInv, HoldsOwn
  <2>3. QED
    BY <1>1, <1>2, <2>1, <2>2 DEF IInv, HoldsOwn
<1>8. \A a \in Apps : \A i \in 1 .. Len(history[a]) :
         history[a][i].event = 0 \/ history[a][i].event < nextId
  BY <1>3 DEF IInv, LoggedOnce
<1>9. NotYetLogged'
  BY <1>1, <1>2, <1>8 DEF IInv, NotYetLogged
<1>10. LoggedOnce'
  BY <1>1 DEF IInv, LoggedOnce
<1>11. QED
  BY <1>4, <1>5, <1>7, <1>9, <1>10

\* Logging: the row of an event that no history holds yet.
LEMMA LogStep ==
    ASSUME IInv, NEW h \in Handlers, WriteHistory(h)
    PROVE  IdsFresh' /\ KeyedOnce' /\ HoldsOwn' /\ NotYetLogged' /\ LoggedOnce'
<1> DEFINE row == [old |-> handler[h].seen, new |-> handler[h].req.target,
                   event |-> handler[h].event, source |-> "ROUTE"]
<1>1. App(h) \in Apps /\ row \in HistoryRow /\ history \in [Apps -> Seq(HistoryRow)]
  BY RowTyped DEF WriteHistory, IInv, TypeOK
<1>2. /\ history' = [history EXCEPT ![App(h)] = Append(@, row)]
      /\ events' = events /\ nextId' = nextId /\ handler[h].pc = "history"
  BY DEF WriteHistory
<1>3. \A b \in Apps : \A i \in 1 .. Len(history'[b]) :
         \/ b = App(h) /\ i = Len(history[App(h)]) + 1 /\ history'[b][i] = row
         \/ i \in 1 .. Len(history[b]) /\ history'[b][i] = history[b][i]
  BY <1>1, <1>2, LogGrows
<1>4. /\ handler'[h].pc = "answer" /\ handler'[h].event = handler[h].event
      /\ handler'[h].req = handler[h].req
      /\ \A g \in Handlers : g # h => handler'[g] = handler[g]
  BY DEF WriteHistory, IInv, TypeOK, Handling
<1>5. IdsFresh' /\ KeyedOnce'
  BY <1>2 DEF IInv, IdsFresh, KeyedOnce
<1>6. HoldsOwn'
  <2>1. \A g \in Handlers : handler'[g].event = handler[g].event
                            /\ handler'[g].req = handler[g].req
    BY <1>4
  <2>2. \A g \in Handlers : handler'[g].event # 0 => \E e \in events' : Holds(g, e)'
    BY <1>2, <2>1 DEF IInv, HoldsOwn, Holds
  <2>3. QED
    BY <1>2, <1>4, <2>1, <2>2 DEF IInv, HoldsOwn
<1>7. NotYetLogged'
  <2>1. \A g \in Handlers \ {h} : handler[g].event # 0 => handler[g].event # row.event
    BY DEF IInv, HoldsOwn
  <2>2. QED
    BY <1>3, <1>4, <2>1 DEF IInv, NotYetLogged
<1>8. LoggedOnce'
  <2>1. row.event # 0 =>
           /\ \A b \in Apps : \A i \in 1 .. Len(history[b]) :
                 history[b][i].event # row.event
           /\ \E e \in events : e.id = row.event /\ e.app = App(h) /\ e.target = row.new
    BY <1>2 DEF IInv, NotYetLogged, HoldsOwn, Holds, App
  <2>2. ASSUME NEW a \in Apps, NEW b \in Apps, NEW i \in 1 .. Len(history'[a]),
               NEW j \in 1 .. Len(history'[b]), history'[a][i].event # 0
        PROVE  /\ \E e \in events' : /\ e.id = history'[a][i].event
                                     /\ e.app = a /\ e.target = history'[a][i].new
               /\ history'[b][j].event = history'[a][i].event => a = b /\ i = j
    BY <1>2, <1>3, <2>1, <2>2, SMTT(30) DEF IInv, LoggedOnce
  <2>3. QED
    BY <2>2 DEF LoggedOnce
<1>9. QED
  BY <1>5, <1>6, <1>7, <1>8

\* A row of no event, logged by the sweep or by a handler that ends with it.
LEMMA QuietRow ==
    ASSUME IInv, NEW a \in Apps, NEW row \in HistoryRow, row.event = 0,
           history' = [history EXCEPT ![a] = Append(@, row)],
           UNCHANGED <<events, nextId>>,
           \A g \in Handlers : handler'[g] = handler[g] \/ handler'[g] = Idle
    PROVE  IdsFresh' /\ KeyedOnce' /\ HoldsOwn' /\ NotYetLogged' /\ LoggedOnce'
<1>1. history \in [Apps -> Seq(HistoryRow)]
  BY DEF IInv, TypeOK
<1>2. Idle.pc = "idle" /\ Idle.event = 0
  BY DEF Idle
<1>3. \A b \in Apps : \A i \in 1 .. Len(history'[b]) :
         history'[b][i].event # 0 =>
             i \in 1 .. Len(history[b]) /\ history'[b][i] = history[b][i]
  BY <1>1, <1>2, LogGrows
<1>4. IdsFresh' /\ KeyedOnce' /\ HoldsOwn'
  <2>1. IdsFresh' /\ KeyedOnce'
    BY DEF IInv, IdsFresh, KeyedOnce
  <2>2. \A g \in Handlers : handler'[g].event # 0 => handler'[g] = handler[g]
    BY <1>2
  <2>3. \A g \in Handlers : handler'[g].pc # "idle" => handler'[g] = handler[g]
    BY <1>2
  <2>4. \A g \in Handlers : handler'[g].event # 0 => \E e \in events' : Holds(g, e)'
    BY <2>2 DEF IInv, HoldsOwn, Holds
  <2>5. /\ \A g \in Handlers : handler'[g].pc \in {"load", "insert"} =>
              handler'[g].event = 0 /\ handler'[g].req \in EventRequest
        /\ \A g \in Handlers : handler'[g].pc # "idle" /\ handler'[g].req.key \in Keys
              /\ handler'[g].event = 0 => handler'[g].pc \in {"load", "insert"}
    BY <2>3 DEF IInv, HoldsOwn
  <2>6. \A g \in Handlers : handler'[g].pc = "idle" => handler'[g].event = 0
    BY <1>2 DEF IInv, HoldsOwn
  <2>7. \A f, g \in Handlers :
           handler'[f].event # 0 /\ handler'[f].event = handler'[g].event => f = g
    BY <2>2 DEF IInv, HoldsOwn
  <2>8. QED
    BY <2>1, <2>4, <2>5, <2>6, <2>7 DEF HoldsOwn
<1>5. NotYetLogged'
  <2>1. ASSUME NEW g \in Handlers, NEW b \in Apps, NEW i \in 1 .. Len(history'[b]),
               handler[g].event # 0, handler[g].pc # "answer"
        PROVE  history'[b][i].event # handler[g].event
    <3>1. CASE history'[b][i].event = 0
      BY <2>1, <3>1
    <3>2. CASE history'[b][i].event # 0
      BY <1>3, <2>1, <3>2 DEF IInv, NotYetLogged
    <3>3. QED
      BY <3>1, <3>2
  <2>2. \A g \in Handlers : handler'[g].event # 0 => handler'[g] = handler[g]
    BY <1>2
  <2>3. QED
    BY <2>1, <2>2 DEF NotYetLogged
<1>6. LoggedOnce'
  <2>1. ASSUME NEW c \in Apps, NEW b \in Apps, NEW i \in 1 .. Len(history'[c]),
               NEW j \in 1 .. Len(history'[b]), history'[c][i].event # 0
        PROVE  /\ \E e \in events : /\ e.id = history'[c][i].event
                                    /\ e.app = c /\ e.target = history'[c][i].new
               /\ history'[b][j].event = history'[c][i].event => c = b /\ i = j
    <3>1. i \in 1 .. Len(history[c]) /\ history'[c][i] = history[c][i]
      BY ONLY <1>3, <2>1, SMTT(30)
    <3>2. history'[b][j].event = history'[c][i].event =>
             j \in 1 .. Len(history[b]) /\ history'[b][j] = history[b][j]
      BY ONLY <1>3, <2>1, SMTT(30)
    <3>3. QED
      BY <2>1, <3>1, <3>2 DEF IInv, LoggedOnce
  <2>2. QED
    <3>1. events' = events
      OBVIOUS
    <3>2. QED
      BY ONLY <2>1, <3>1 DEF LoggedOnce
<1>7. QED
  BY <1>4, <1>5, <1>6

LEMMA SweepStep ==
    ASSUME IInv, NEW s \in sweep, SweepLog(s)
    PROVE  IdsFresh' /\ KeyedOnce' /\ HoldsOwn' /\ NotYetLogged' /\ LoggedOnce'
<1> DEFINE row == [old |-> s.old, new |-> "EXPIRED", event |-> 0, source |-> "SYSTEM"]
<1>1. s.app \in Apps /\ row \in HistoryRow /\ row.event = 0
  BY DEF IInv, TypeOK, HistoryRow, Sources, Statuses
<1>2. /\ history' = [history EXCEPT ![s.app] = Append(@, row)]
      /\ events' = events /\ nextId' = nextId /\ handler' = handler
  BY DEF SweepLog
<1> HIDE DEF row
<1>3. QED
  BY <1>1, <1>2, QuietRow

LEMMA PortalStep ==
    ASSUME IInv, NEW h \in Handlers, LogPortal(h)
    PROVE  IdsFresh' /\ KeyedOnce' /\ HoldsOwn' /\ NotYetLogged' /\ LoggedOnce'
<1> DEFINE row == [old |-> handler[h].seen, new |-> handler[h].req.target,
                   event |-> 0, source |-> "PORTAL"]
<1>1. App(h) \in Apps /\ row \in HistoryRow /\ row.event = 0
  BY RowTyped DEF LogPortal, IInv
<1>2. /\ history' = [history EXCEPT ![App(h)] = Append(@, row)]
      /\ events' = events /\ nextId' = nextId
      /\ handler' = [handler EXCEPT ![h] = Idle]
  BY DEF LogPortal
<1>3. \A g \in Handlers : handler'[g] = handler[g] \/ handler'[g] = Idle
  BY <1>2 DEF IInv, TypeOK
<1> HIDE DEF row
<1>4. QED
  BY <1>1, <1>2, <1>3, QuietRow

-----------------------------------------------------------------------------
\* An answered key is recorded: a handler answers only with its own event.
LEMMA AnswersRecorded == IInv /\ [Next]_vars => AnsweredIsRecorded'
<1> SUFFICES ASSUME IInv, [Next]_vars PROVE AnsweredIsRecorded'
  OBVIOUS
<1>1. events \subseteq events' /\ (acked' = acked \/ \E k \in Keys :
                                      acked' = acked \cup {k} /\ Recorded(k))
  <2>1. ASSUME NEW h \in Handlers, Answer(h)
        PROVE  acked' = acked \/ \E k \in Keys : acked' = acked \cup {k} /\ Recorded(k)
    <3>1. CASE handler[h].req.key \in Keys
      <4>1. Recorded(handler[h].req.key)
        BY <2>1, <3>1 DEF Answer, IInv, HoldsOwn, Holds, Recorded
      <4>2. acked' = acked \cup {handler[h].req.key}
        BY <2>1, <3>1 DEF Answer
      <4>3. QED
        BY <3>1, <4>1, <4>2
    <3>2. CASE handler[h].req.key \notin Keys
      BY <2>1, <3>2 DEF Answer
    <3>3. QED
      BY <3>1, <3>2
  <2>2. ASSUME NEW r \in EventRequest, Duplicate(r)
        PROVE  \E k \in Keys : acked' = acked \cup {k} /\ Recorded(k)
    BY <2>2 DEF Duplicate, EventRequest
  <2>3. events \subseteq events'
    BY DEF Next, Submit, Advance, Duplicate, Arrive, Load, NotFound, Insert, Conflict,
           StartPatch, Create, UpdateStatus, WriteHistory, Answer, Fail, SweepFind,
           SweepLog, SweepFails, StartPortal, LogPortal, ImportCreates, vars
  <2>4. acked' = acked \/ (\E h \in Handlers : Answer(h))
                       \/ (\E r \in EventRequest : Duplicate(r))
    BY DEF Next, Submit, Advance, Arrive, Load, NotFound, Insert, Conflict,
           StartPatch, Create, UpdateStatus, WriteHistory, Fail, SweepFind,
           SweepLog, SweepFails, StartPortal, LogPortal, ImportCreates, vars
  <2>5. QED
    BY <2>1, <2>2, <2>3, <2>4
<1>2. QED
  BY <1>1 DEF IInv, AnsweredIsRecorded, Recorded

LEMMA InvInit == Init => IInv
<1> SUFFICES ASSUME Init PROVE IInv
  OBVIOUS
<1>1. Idle \in Handling /\ Idle.pc = "idle" /\ Idle.event = 0
  BY DEF Idle, Handling, Stages, Statuses
<1>2. TypeOK
  BY <1>1, EventsAssumption DEF Init, TypeOK, Statuses
<1>3. IdsFresh /\ KeyedOnce /\ HoldsOwn /\ NotYetLogged /\ LoggedOnce
      /\ AnsweredIsRecorded
  BY <1>1 DEF Init, IdsFresh, KeyedOnce, HoldsOwn, NotYetLogged, LoggedOnce,
              AnsweredIsRecorded
<1>4. QED
  BY <1>2, <1>3 DEF IInv

LEMMA InvStep == IInv /\ [Next]_vars => IInv'
<1> DEFINE Rest == IdsFresh /\ KeyedOnce /\ HoldsOwn /\ NotYetLogged /\ LoggedOnce
<1> SUFFICES ASSUME IInv, [Next]_vars PROVE Rest'
  BY TypeStep, AnswersRecorded DEF IInv
<1>0. ASSUME UNCHANGED <<events, nextId, history, handler>> PROVE Rest'
  BY <1>0 DEF IInv, IdsFresh, KeyedOnce, HoldsOwn, Holds, NotYetLogged, LoggedOnce
<1>1. ASSUME NEW r \in EventRequest, NEW h \in Handlers, Arrive(h, r) PROVE Rest'
  <2> DEFINE n == [Idle EXCEPT !.pc = "load", !.req = r]
  <2>1. n \in Handling /\ n.pc = "load" /\ n.event = 0 /\ n.req = r
    BY DEF Idle, Handling, Stages, Request, Statuses
  <2>2. QED
    BY <1>1, <2>1, HandlerMoves DEF Arrive
<1>2. ASSUME NEW h \in Handlers, Load(h) PROVE Rest'
  <2> DEFINE n == [handler[h] EXCEPT !.pc = "insert", !.seen = status[App(h)]]
  <2>1. /\ n \in Handling /\ n.pc = "insert" /\ n.event = 0
        /\ n.req = handler[h].req /\ n.req \in EventRequest
    <3>1. status[App(h)] \in Statuses
      BY <1>2, RowTyped DEF Load, IInv, TypeOK
    <3>2. QED
      BY <1>2, <3>1 DEF Load, IInv, TypeOK, HoldsOwn, Handling, Stages
  <2>2. handler' = [handler EXCEPT ![h] = n]
    BY <1>2 DEF Load
  <2>3. QED
    BY <1>2, <2>1, <2>2, HandlerMoves DEF Load
<1>3. ASSUME NEW h \in Handlers, NotFound(h) \/ Conflict(h) \/ Answer(h) \/ Fail(h)
      PROVE  Rest'
  BY <1>3, HandlerEnds DEF NotFound, Conflict, Answer, Fail
<1>4. ASSUME NEW r \in PatchRequest, NEW h \in Handlers, StartPatch(h, r) PROVE Rest'
  <2> DEFINE n == [pc |-> "update", req |-> r, seen |-> status[r.app], event |-> 0]
  <2>1. /\ n \in Handling /\ n.pc = "update" /\ n.event = 0 /\ n.req.key \notin Keys
    BY EventsAssumption DEF PatchRequest, Request, IInv, TypeOK, Handling, Stages
  <2>2. QED
    BY <1>4, <2>1, HandlerMoves DEF StartPatch
<1>5. ASSUME NEW r \in CreateRequest, NEW h \in Handlers, Create(h, r) PROVE Rest'
  <2> DEFINE n == [Idle EXCEPT !.pc = "history", !.req = r]
  <2>1. /\ n \in Handling /\ n.pc = "history" /\ n.event = 0 /\ n.req = r
        /\ r.key \notin Keys
    BY EventsAssumption DEF Idle, Handling, Stages, Request, CreateRequest, Statuses
  <2>2. QED
    BY <1>5, <2>1, HandlerMoves DEF Create
<1>6. ASSUME NEW h \in Handlers, UpdateStatus(h) PROVE Rest'
  <2> DEFINE n == [handler[h] EXCEPT !.pc = "history"]
  <2>1. /\ n \in Handling /\ n.pc = "history" /\ n.event = handler[h].event
        /\ n.req = handler[h].req /\ handler[h].pc = "update"
    BY <1>6 DEF UpdateStatus, IInv, TypeOK, Handling, Stages
  <2>2. handler' = [handler EXCEPT ![h] = n]
    BY <1>6 DEF UpdateStatus
  <2>3. n.req.key \in Keys => n.event # 0
    BY <2>1 DEF IInv, HoldsOwn
  <2>4. QED
    BY <1>6, <2>1, <2>2, <2>3, HandlerMoves DEF UpdateStatus
<1>7. ASSUME NEW h \in Handlers, Advance(h) PROVE Rest'
  BY <1>2, <1>3, <1>6, <1>7, InsertStep, LogStep, PortalStep DEF Advance
<1>11. ASSUME NEW r \in PortalRequest, NEW h \in Handlers, StartPortal(h, r) PROVE Rest'
  <2> DEFINE n == [pc |-> "portal", req |-> r, seen |-> Stored, event |-> 0]
  <2>1. r \in Request /\ r.key \notin Keys /\ Stored \in Statuses
    BY EventsAssumption DEF PortalRequest, Request, Statuses
  <2>2. /\ n \in Handling /\ n.pc = "portal" /\ n.event = 0 /\ n.req.key \notin Keys
    BY <2>1 DEF Handling, Stages
  <2>3. handler' = [handler EXCEPT ![h] = n] /\ UNCHANGED <<events, nextId, history>>
    BY <1>11 DEF StartPortal
  <2> HIDE DEF n
  <2>4. QED
    BY <2>2, <2>3, HandlerMoves
<1>12. ASSUME NEW a \in Apps, NEW s \in PortalStatuses \cup {"ACTIVE"}, ImportCreates(a, s)
       PROVE  Rest'
  BY <1>0, <1>12 DEF ImportCreates
<1>8. ASSUME NEW r \in EventRequest, Submit(r) PROVE Rest'
  BY <1>0, <1>1, <1>8 DEF Submit, Duplicate
<1>9. CASE SweepFind \/ SweepFails \/ UNCHANGED vars
  BY <1>0, <1>9 DEF SweepFind, SweepFails, vars
<1>10. QED
  BY <1>3, <1>4, <1>5, <1>7, <1>8, <1>9, <1>11, <1>12, SweepStep DEF Next

\* Handlers, events and histories keep their types.
THEOREM TypeCorrect == Spec => []TypeOK
<1>1. IInv => TypeOK
  BY DEF IInv
<1>2. QED
  BY InvInit, InvStep, <1>1, PTL DEF Spec

\* An idempotency key stands for one event, however many requests race.
THEOREM KeyedTheorem == Spec => []KeyedOnce
<1>1. IInv => KeyedOnce
  BY DEF IInv
<1>2. QED
  BY InvInit, InvStep, <1>1, PTL DEF Spec

\* An event changes the status history at most once, and its own application's.
THEOREM LoggedTheorem == Spec => []LoggedOnce
<1>1. IInv => LoggedOnce
  BY DEF IInv
<1>2. QED
  BY InvInit, InvStep, <1>1, PTL DEF Spec
-----------------------------------------------------------------------------
(* The chain of the rows of routes.  While nothing disturbs an application  *)
(* at most one handler is between reading its status and logging the        *)
(* change, so what that handler has read is what the last such row says.    *)
Written(h) == handler[h].pc = "history"

Linked(a) ==
    \A i, j \in Changes(a) :
        i < j /\ (\A k \in Changes(a) : k <= i \/ j <= k)
            => history[a][j].old = history[a][i].new

Chained(a) ==
    /\ \A g, h \in Updating(a) : g = h
    /\ Linked(a)
    /\ Updating(a) = {} => LastLeft(a, status[a])
    /\ \A h \in Updating(a) :
          /\ LastLeft(a, handler[h].seen)
          /\ IF Written(h) THEN status[a] = handler[h].req.target
                           ELSE status[a] = handler[h].seen
    /\ status[a] = Absent => Changes(a) = {} /\ Updating(a) = {}

ChainInv == \A a \in Apps \ disturbed : Chained(a)

\* A step that logs no row of a route for a.
SameChanges(a) == /\ Changes(a)' = Changes(a)
                  /\ \A i \in Changes(a) : history'[a][i] = history[a][i]

LEMMA SameHistory ==
    ASSUME NEW a \in Apps, history'[a] = history[a] PROVE SameChanges(a)
BY DEF SameChanges, Changes

\* The row of the sweep, of an import or of a manual entry.
LEMMA QuietAppend ==
    ASSUME TypeOK, NEW a \in Apps, NEW b \in Apps, NEW row \in HistoryRow,
           row.source # "ROUTE", history' = [history EXCEPT ![b] = Append(@, row)]
    PROVE  SameChanges(a)
<1>1. history \in [Apps -> Seq(HistoryRow)] /\ history[a] \in Seq(HistoryRow)
  BY DEF TypeOK
<1>2. CASE a # b
  BY <1>1, <1>2, SameHistory
<1>3. CASE a = b
  <2> DEFINE n == Len(history[a])
  <2>1. history'[a] = Append(history[a], row) /\ n \in Nat
    BY <1>1, <1>3
  <2>2. /\ DOMAIN history[a] = 1 .. n /\ DOMAIN history'[a] = 1 .. n + 1
        /\ history'[a][n + 1] = row
        /\ \A i \in 1 .. n : history'[a][i] = history[a][i]
    BY <1>1, <2>1, AppendProperties
  <2>3. Changes(a)' = Changes(a)
    BY <2>1, <2>2 DEF Changes
  <2>4. QED
    BY <2>2, <2>3 DEF SameChanges, Changes
<1>4. QED
  BY <1>2, <1>3

LEMMA TargetsExist == \A r \in Request : r.target # Absent
BY EventsAssumption
   DEF Request, EventRequest, PatchRequest, CreateRequest, PortalRequest, Absent

LEMMA IdleTyped == Idle \in Handling /\ Idle.pc = "idle"
BY DEF Idle, Handling, Stages, Statuses

\* A step that leaves the application and those who update it as they are.
LEMMA ChainKept ==
    ASSUME NEW a \in Apps, Chained(a),
           status'[a] = status[a], SameChanges(a),
           \A h \in Handlers : h \in Updating(a)' <=> h \in Updating(a),
           \A h \in Updating(a) : /\ handler'[h].seen = handler[h].seen
                                  /\ handler'[h].req = handler[h].req
                                  /\ Written(h)' <=> Written(h)
    PROVE  Chained(a)'
<1>1. Updating(a)' = Updating(a)
  BY DEF Updating
<1>2. Linked(a)'
  BY DEF Chained, Linked, SameChanges
<1>3. Updating(a)' = {} => LastLeft(a, status[a])'
  BY <1>1 DEF Chained, LastLeft, SameChanges
<1>4. ASSUME NEW h \in Updating(a)'
      PROVE  /\ LastLeft(a, handler[h].seen)'
             /\ IF Written(h)' THEN status'[a] = handler'[h].req.target
                               ELSE status'[a] = handler'[h].seen
  <2>1. h \in Updating(a) /\ handler'[h].seen = handler[h].seen
    BY <1>1
  <2>2. LastLeft(a, handler[h].seen)
    BY <2>1 DEF Chained
  <2>3. LastLeft(a, handler[h].seen)'
    BY <2>1, <2>2 DEF LastLeft, SameChanges
  <2>4. QED
    BY <2>1, <2>3 DEF Chained
<1>5. status'[a] = Absent => Changes(a)' = {} /\ Updating(a)' = {}
  BY <1>1 DEF Chained, SameChanges
<1>6. QED
  BY <1>1, <1>2, <1>3, <1>4, <1>5 DEF Chained

\* A handler reads the status that the last row left.
LEMMA ChainBegins ==
    ASSUME TypeOK, NEW h \in Handlers, NEW n \in Handling, NEW a \in Apps, Chained(a),
           handler' = [handler EXCEPT ![h] = n],
           n.pc \in {"insert", "update"}, n.req.app = a, n.seen = status[a],
           handler[h].pc \in {"idle", "load"}, status[a] # Absent, Updating(a) = {},
           UNCHANGED <<status, history>>
    PROVE  Chained(a)'
<1>1. handler'[h] = n /\ \A g \in Handlers : g # h => handler'[g] = handler[g]
  BY DEF TypeOK
<1>2. Updating(a)' = {h}
  BY <1>1 DEF Updating, App
<1>3. ~Written(h)'
  BY <1>1 DEF Written
<1>4. Linked(a)' /\ LastLeft(a, handler[h].seen)'
  <2>1. LastLeft(a, status[a]) /\ Linked(a)
    BY DEF Chained
  <2>2. Changes(a)' = Changes(a)
    BY DEF Changes
  <2>3. handler'[h].seen = status[a]
    BY <1>1
  <2>4. QED
    BY <2>1, <2>2, <2>3 DEF Linked, LastLeft
<1>5. QED
  BY <1>1, <1>2, <1>3, <1>4 DEF Chained

\* A handler that gives up before it has written anything leaves no gap.
LEMMA ChainAbandoned ==
    ASSUME TypeOK, NEW h \in Handlers, NEW a \in Apps, Chained(a),
           handler' = [handler EXCEPT ![h] = Idle],
           Written(h) => App(h) # a,
           UNCHANGED <<status, history>>
    PROVE  Chained(a)'
<1>1. handler'[h] = Idle /\ \A g \in Handlers : g # h => handler'[g] = handler[g]
  BY DEF TypeOK
<1>2. \A g \in Handlers : g \in Updating(a)' <=> g \in Updating(a) /\ g # h
  BY <1>1, IdleTyped DEF Updating, App
<1>3. CASE h \in Updating(a)
  <2>1. Updating(a)' = {}
    BY <1>2, <1>3 DEF Chained, Updating
  <2>2. ~Written(h)
    BY <1>3 DEF Updating
  <2>3. LastLeft(a, status[a]) /\ Linked(a) /\ status[a] # Absent
    BY <1>3, <2>2 DEF Chained
  <2>4. Changes(a)' = Changes(a)
    BY DEF Changes
  <2>5. LastLeft(a, status[a])' /\ Linked(a)'
    BY <2>3, <2>4 DEF Linked, LastLeft
  <2>6. QED
    BY <2>1, <2>3, <2>5 DEF Chained
<1>4. CASE h \notin Updating(a)
  <2>1. \A g \in Updating(a) : g \in Handlers /\ handler'[g] = handler[g]
    BY <1>1, <1>4 DEF Updating
  <2>2. SameChanges(a)
    BY SameHistory
  <2>3. QED
    BY <1>2, <1>4, <2>1, <2>2, ChainKept DEF Written
<1>5. QED
  BY <1>3, <1>4

\* The row of the one handler that updated starts where the last one ended.
LEMMA ChainLogged ==
    ASSUME TypeOK, NEW h \in Handlers, NEW a \in Apps, App(h) = a, WriteHistory(h),
           Chained(a)
    PROVE  Chained(a)'
<1> DEFINE row == [old |-> handler[h].seen, new |-> handler[h].req.target,
                   event |-> handler[h].event, source |-> "ROUTE"]
           n == Len(history[a])
<1>1. /\ row \in HistoryRow /\ history[a] \in Seq(HistoryRow) /\ n \in Nat
      /\ row.source = "ROUTE"
  <2>1. row \in HistoryRow
    BY RowTyped DEF WriteHistory
  <2>2. history[a] \in Seq(HistoryRow)
    BY DEF TypeOK
  <2>3. QED
    BY <2>1, <2>2
<1>2. /\ handler[h].pc = "history" /\ status' = status
      /\ history'[a] = Append(history[a], row)
  BY <1>1 DEF WriteHistory, TypeOK
<1>3. handler'[h].pc = "answer" /\ \A g \in Handlers : g # h => handler'[g] = handler[g]
  BY DEF WriteHistory, TypeOK, Handling
<1> HIDE DEF row
<1>4. h \in Updating(a) /\ \A g \in Updating(a) : g = h
  BY <1>2 DEF Updating, Chained
<1>5. Updating(a)' = {}
  <2>1. ASSUME NEW g \in Handlers, g # h PROVE g \notin Updating(a)'
    BY <1>3, <1>4, <2>1 DEF Updating, App
  <2>2. h \notin Updating(a)'
    BY <1>3 DEF Updating
  <2>3. QED
    BY <2>1, <2>2 DEF Updating
<1>6. /\ DOMAIN history[a] = 1 .. n /\ DOMAIN history'[a] = 1 .. n + 1
      /\ history'[a][n + 1] = row
      /\ \A i \in 1 .. n : history'[a][i] = history[a][i]
  BY <1>1, <1>2, AppendProperties
<1>7. row.old = handler[h].seen /\ row.new = status[a]
  BY <1>2, <1>4 DEF Chained, Written, row
<1>8. /\ Changes(a)' = Changes(a) \cup {n + 1}
      /\ Changes(a) \subseteq 1 .. n
      /\ \A i \in Changes(a) : history'[a][i] = history[a][i]
  BY <1>1, <1>6 DEF Changes
<1>9. LastLeft(a, row.old) /\ Linked(a)
  BY <1>4, <1>7 DEF Chained
<1>10. ASSUME NEW i \in Changes(a)', NEW j \in Changes(a)', i < j,
              \A k \in Changes(a)' : k <= i \/ j <= k
       PROVE  history'[a][j].old = history'[a][i].new
  <2>1. i \in Changes(a) /\ i \in 1 .. n
    BY <1>1, <1>8, <1>10
  <2>2. CASE j = n + 1
    <3>1. \A k \in Changes(a) : k <= i
      BY <1>1, <1>8, <1>10, <2>2
    <3>2. history[a][i].new = row.old
      BY <1>9, <2>1, <3>1 DEF LastLeft
    <3>3. QED
      BY <1>6, <1>8, <2>1, <2>2, <3>2
  <2>3. CASE j \in Changes(a)
    <3>1. \A k \in Changes(a) : k <= i \/ j <= k
      BY <1>8, <1>10
    <3>2. history[a][j].old = history[a][i].new
      BY <1>9, <1>10, <2>1, <2>3, <3>1 DEF Linked
    <3>3. QED
      BY <1>8, <2>1, <2>3, <3>2
  <2>4. QED
    BY <1>8, <2>2, <2>3
<1>11. Linked(a)'
  BY <1>10 DEF Linked
<1>12. LastLeft(a, status[a])'
  <2>1. ASSUME NEW i \in Changes(a)', \A k \in Changes(a)' : k <= i
        PROVE  history'[a][i].new = status[a]
    <3>1. n + 1 <= i /\ i \in 1 .. n + 1 /\ i \in Int /\ n \in Int
      <4>1. n + 1 \in Changes(a)' /\ i \in Changes(a) \cup {n + 1}
        BY <1>8, <2>1
      <4>2. n + 1 <= i
        BY <2>1, <4>1
      <4>3. QED
        BY <1>1, <1>8, <4>1, <4>2
    <3>3. i = n + 1
      BY <3>1
    <3>2. QED
      BY <1>6, <1>7, <3>3
  <2>2. QED
    BY <1>2, <2>1 DEF LastLeft
<1>13. status'[a] # Absent
  BY <1>2, <1>4 DEF Chained
<1>14. QED
  BY <1>5, <1>11, <1>12, <1>13 DEF Chained

LEMMA ChainInit == Init => ChainInv
<1> SUFFICES ASSUME Init, NEW a \in Apps PROVE Chained(a)
  BY DEF ChainInv
<1>1. Updating(a) = {} /\ history[a] = <<>>
  BY IdleTyped DEF Init, Updating
<1>2. Changes(a) = {}
  BY <1>1 DEF Changes
<1>3. QED
  BY <1>1, <1>2 DEF Chained, Linked, LastLeft

LEMMA ChainStep == TypeOK /\ ChainInv /\ [Next]_vars => ChainInv'
<1> SUFFICES ASSUME TypeOK, ChainInv, [Next]_vars, NEW a \in Apps, a \notin disturbed'
             PROVE  Chained(a)'
  BY DEF ChainInv
<1>0. disturbed \subseteq disturbed'
  BY DEF Next, Submit, Advance, Duplicate, Arrive, Load, NotFound, Insert, Conflict,
         StartPatch, Create, UpdateStatus, WriteHistory, Answer, Fail, SweepFind,
         SweepLog, SweepFails, StartPortal, LogPortal, ImportCreates, Disturb, vars
<1>c. Chained(a)
  BY <1>0 DEF ChainInv
<1>t. \A h \in Handlers : handler[h] \in Handling
  BY DEF TypeOK
<1>s. history'[a] = history[a] => SameChanges(a)
  BY SameHistory
<1>1. ASSUME UNCHANGED <<status, history, handler>> PROVE Chained(a)'
  <2>1. Updating(a)' = Updating(a)
    BY <1>1 DEF Updating, App
  <2>2. \A h \in Updating(a) : Written(h)' <=> Written(h)
    BY <1>1 DEF Written
  <2>3. QED
    BY <1>1, <1>c, <1>s, <2>1, <2>2, ChainKept
<1>2. ASSUME NEW h \in Handlers, \A g \in Handlers : g # h => handler'[g] = handler[g],
             h \notin Updating(a), h \notin Updating(a)',
             status'[a] = status[a], SameChanges(a)
      PROVE  Chained(a)'
  <2>1. \A g \in Handlers : g \in Updating(a)' <=> g \in Updating(a)
    BY <1>2 DEF Updating, App
  <2>2. \A g \in Updating(a) : g \in Handlers /\ handler'[g] = handler[g]
    BY <1>2 DEF Updating
  <2>3. QED
    BY <1>2, <1>c, <2>1, <2>2, ChainKept DEF Written
<1>3. ASSUME NEW r \in EventRequest, NEW h \in Handlers, Arrive(h, r) PROVE Chained(a)'
  <2> DEFINE n == [Idle EXCEPT !.pc = "load", !.req = r]
  <2>1. n.pc = "load"
    BY DEF Idle
  <2>2. handler[h].pc = "idle" /\ handler' = [handler EXCEPT ![h] = n]
    BY <1>3, IdleTyped DEF Arrive
  <2> HIDE DEF n
  <2>3. handler'[h].pc = "load" /\ \A g \in Handlers : g # h => handler'[g] = handler[g]
    BY <2>1, <2>2 DEF TypeOK
  <2>4. h \notin Updating(a) /\ h \notin Updating(a)'
    BY <2>2, <2>3 DEF Updating
  <2>5. QED
    BY <1>2, <1>3, <1>s, <2>3, <2>4 DEF Arrive
<1>4. ASSUME NEW h \in Handlers, Load(h) PROVE Chained(a)'
  <2> DEFINE n == [handler[h] EXCEPT !.pc = "insert", !.seen = status[App(h)]]
  <2>1. App(h) \in Apps
    BY <1>4, RowTyped DEF Load
  <2>2. /\ n \in Handling /\ n.pc = "insert" /\ n.req = handler[h].req
        /\ n.seen = status[App(h)]
    <3>1. status[App(h)] \in Statuses /\ handler[h] \in Handling
      BY <1>t, <2>1 DEF TypeOK
    <3>2. QED
      BY <3>1 DEF Handling, Stages
  <2>a. handler' = [handler EXCEPT ![h] = n]
    BY <1>4 DEF Load
  <2> HIDE DEF n
  <2>b. handler'[h] = n /\ \A g \in Handlers : g # h => handler'[g] = handler[g]
    BY <2>a DEF TypeOK
  <2>3. handler[h].pc = "load" /\ status[App(h)] # Absent /\ UNCHANGED <<status, history>>
    BY <1>4 DEF Load
  <2>4. CASE App(h) = a
    <3>1. Updating(a) = {}
      BY <1>4, <2>4 DEF Load, Disturb
    <3>2. QED
      BY <1>c, <2>2, <2>a, <2>3, <2>4, <3>1, ChainBegins DEF App
  <2>5. CASE App(h) # a
    <3>1. App(h)' = App(h)
      BY <2>2, <2>b DEF App
    <3>2. h \notin Updating(a) /\ h \notin Updating(a)'
      BY <2>5, <3>1 DEF Updating
    <3>3. QED
      BY <1>2, <1>s, <2>b, <2>3, <3>2
  <2>6. QED
    BY <2>4, <2>5
<1>5. ASSUME NEW h \in Handlers, NotFound(h) \/ Conflict(h) \/ Answer(h) \/ Fail(h)
      PROVE  Chained(a)'
  <2>1. handler' = [handler EXCEPT ![h] = Idle] /\ UNCHANGED <<status, history>>
    BY <1>5 DEF NotFound, Conflict, Answer, Fail
  <2>2. Written(h) => App(h) # a
    BY <1>5 DEF NotFound, Conflict, Answer, Fail, Written
  <2>3. QED
    BY <1>c, <2>1, <2>2, ChainAbandoned
<1>6. ASSUME NEW h \in Handlers, Insert(h) PROVE Chained(a)'
  <2>1. /\ handler'[h].seen = handler[h].seen /\ handler'[h].req = handler[h].req
        /\ handler[h].pc = "insert" /\ handler'[h].pc = "update"
        /\ \A g \in Handlers : g # h => handler'[g] = handler[g]
        /\ UNCHANGED <<status, history>>
    BY <1>6 DEF Insert, TypeOK, Handling
  <2>2. \A g \in Handlers : g \in Updating(a)' <=> g \in Updating(a)
    BY <2>1 DEF Updating, App
  <2>3. \A g \in Updating(a) : /\ handler'[g].seen = handler[g].seen
                               /\ handler'[g].req = handler[g].req
                               /\ Written(g)' <=> Written(g)
    BY <2>1 DEF Updating, Written
  <2>4. QED
    BY <1>c, <1>s, <2>1, <2>2, <2>3, ChainKept
<1>7. ASSUME NEW r \in PatchRequest, NEW h \in Handlers, StartPatch(h, r) PROVE Chained(a)'
  <2> DEFINE n == [pc |-> "update", req |-> r, seen |-> status[r.app], event |-> 0]
  <2>1. n \in Handling /\ n.pc = "update" /\ n.req.app = r.app /\ n.seen = status[r.app]
    BY DEF PatchRequest, Request, TypeOK, Handling, Stages
  <2>2. /\ handler' = [handler EXCEPT ![h] = n] /\ handler[h].pc = "idle"
        /\ status[r.app] # Absent /\ UNCHANGED <<status, history>>
    BY <1>7, IdleTyped DEF StartPatch
  <2> HIDE DEF n
  <2>b. handler'[h] = n /\ \A g \in Handlers : g # h => handler'[g] = handler[g]
    BY <2>2 DEF TypeOK
  <2>3. CASE r.app = a
    <3>1. Updating(a) = {}
      BY <1>7, <2>3 DEF StartPatch, Disturb
    <3>2. QED
      BY <1>c, <2>1, <2>2, <2>3, <3>1, ChainBegins
  <2>4. CASE r.app # a
    <3>1. handler'[h].req.app # a
      BY <2>1, <2>b, <2>4
    <3>2. h \notin Updating(a) /\ h \notin Updating(a)'
      BY <2>2, <3>1 DEF Updating, App
    <3>3. QED
      BY <1>2, <1>s, <2>2, <2>b, <3>2
  <2>5. QED
    BY <2>3, <2>4
<1>8. ASSUME NEW r \in CreateRequest, NEW h \in Handlers, Create(h, r) PROVE Chained(a)'
  <2> DEFINE n == [Idle EXCEPT !.pc = "history", !.req = r]
  <2>1. n.pc = "history" /\ n.req = r
    BY DEF Idle
  <2>2. /\ handler[h].pc = "idle" /\ status[r.app] = Absent /\ history' = history
        /\ status' = [status EXCEPT ![r.app] = "PENDING"]
        /\ handler' = [handler EXCEPT ![h] = n]
    BY <1>8, IdleTyped DEF Create
  <2> HIDE DEF n
  <2>3. handler'[h] = n /\ \A g \in Handlers : g # h => handler'[g] = handler[g]
    BY <2>2 DEF TypeOK
  <2>4. CASE r.app = a
    <3>1. status'[a] = "PENDING" /\ r.target = "PENDING"
      BY <2>2, <2>4 DEF TypeOK, CreateRequest
    <3>2. Changes(a) = {} /\ Updating(a) = {}
      BY <1>c, <2>2, <2>4 DEF Chained
    <3>6. Changes(a)' = {}
      BY <1>s, <2>2, <3>2 DEF SameChanges
    <3>3. Updating(a)' = {h}
      BY <2>1, <2>3, <2>4, <3>2 DEF Updating, App
    <3>4. Written(h)' /\ status'[a] # Absent
      BY <2>1, <2>3, <3>1 DEF Written, Absent
    <3>5. QED
      BY <2>1, <2>3, <3>1, <3>3, <3>4, <3>6 DEF Chained, Linked, LastLeft
  <2>5. CASE r.app # a
    <3>1. h \notin Updating(a) /\ h \notin Updating(a)'
      BY <2>1, <2>2, <2>3, <2>5 DEF Updating, App
    <3>2. status'[a] = status[a]
      BY <2>2, <2>5 DEF TypeOK
    <3>3. QED
      BY <1>2, <1>s, <2>2, <2>3, <3>1, <3>2
  <2>6. QED
    BY <2>4, <2>5
<1>9. ASSUME NEW h \in Handlers, UpdateStatus(h) PROVE Chained(a)'
  <2>1. /\ handler'[h].seen = handler[h].seen /\ handler'[h].req = handler[h].req
        /\ handler[h].pc = "update" /\ handler'[h].pc = "history"
        /\ \A g \in Handlers : g # h => handler'[g] = handler[g]
        /\ status' = [status EXCEPT ![App(h)] = handler[h].req.target]
        /\ history' = history
    BY <1>9 DEF UpdateStatus, TypeOK, Handling
  <2>2. App(h) \in Apps /\ handler[h].req.target # Absent
    BY <1>9, RowTyped, TargetsExist DEF UpdateStatus
  <2>3. \A g \in Handlers : g \in Updating(a)' <=> g \in Updating(a)
    BY <2>1 DEF Updating, App
  <2>4. CASE App(h) = a
    <3>1. h \in Updating(a) /\ \A g \in Updating(a) : g = h
      BY <1>c, <2>1, <2>4 DEF Chained, Updating
    <3>2. Updating(a)' = {h}
      BY <2>3, <3>1 DEF Updating
    <3>3. status'[a] = handler[h].req.target /\ Written(h)'
      BY <2>1, <2>2, <2>4 DEF TypeOK, Written
    <3>4. LastLeft(a, handler[h].seen)' /\ Linked(a)'
      <4>1. LastLeft(a, handler[h].seen) /\ Linked(a) /\ SameChanges(a)
        BY <1>c, <1>s, <2>1, <3>1 DEF Chained
      <4>2. QED
        BY <2>1, <4>1 DEF LastLeft, Linked, SameChanges
    <3>5. QED
      BY <2>1, <2>2, <3>2, <3>3, <3>4 DEF Chained
  <2>5. CASE App(h) # a
    <3>1. \A g \in Updating(a) : g \in Handlers /\ handler'[g] = handler[g]
      BY <2>1, <2>5 DEF Updating
    <3>2. status'[a] = status[a]
      BY <2>1, <2>5 DEF TypeOK
    <3>3. QED
      BY <1>c, <1>s, <2>1, <2>3, <3>1, <3>2, ChainKept DEF Written
  <2>6. QED
    BY <2>4, <2>5
<1>10. ASSUME NEW h \in Handlers, WriteHistory(h) PROVE Chained(a)'
  <2>1. CASE App(h) = a
    BY <1>10, <1>c, <2>1, ChainLogged
  <2>2. CASE App(h) # a
    <3>1. handler'[h].pc = "answer" /\ \A g \in Handlers : g # h => handler'[g] = handler[g]
      BY <1>10, <1>t DEF WriteHistory, TypeOK, Handling
    <3>2. status' = status /\ history'[a] = history[a]
      BY <1>10, <2>2 DEF WriteHistory, TypeOK
    <3>3. h \notin Updating(a) /\ h \notin Updating(a)'
      BY <2>2, <3>1 DEF Updating
    <3>4. QED
      BY <1>2, <1>s, <3>1, <3>2, <3>3
  <2>3. QED
    BY <2>1, <2>2
<1>11. ASSUME NEW s \in sweep, SweepLog(s) PROVE Chained(a)'
  <2> DEFINE row == [old |-> s.old, new |-> "EXPIRED", event |-> 0, source |-> "SYSTEM"]
  <2>1. s.app \in Apps /\ row \in HistoryRow /\ row.source # "ROUTE"
    BY DEF TypeOK, HistoryRow, Sources, Statuses
  <2>2. /\ history' = [history EXCEPT ![s.app] = Append(@, row)]
        /\ status' = status /\ handler' = handler
    BY <1>11 DEF SweepLog
  <2> HIDE DEF row
  <2>3. SameChanges(a)
    BY <2>1, <2>2, QuietAppend
  <2>4. Updating(a)' = Updating(a)
    BY <2>2 DEF Updating, App
  <2>5. \A h \in Updating(a) : Written(h)' <=> Written(h)
    BY <2>2 DEF Written
  <2>6. QED
    BY <1>c, <2>2, <2>3, <2>4, <2>5, ChainKept
<1>16. ASSUME NEW h \in Handlers, LogPortal(h) PROVE Chained(a)'
  <2> DEFINE row == [old |-> handler[h].seen, new |-> handler[h].req.target,
                     event |-> 0, source |-> "PORTAL"]
  <2>1. App(h) \in Apps /\ row \in HistoryRow /\ row.source # "ROUTE"
    BY <1>16, RowTyped DEF LogPortal
  <2>2. /\ history' = [history EXCEPT ![App(h)] = Append(@, row)]
        /\ status' = status /\ handler' = [handler EXCEPT ![h] = Idle]
        /\ handler[h].pc = "portal"
    BY <1>16 DEF LogPortal
  <2> HIDE DEF row
  <2>3. SameChanges(a)
    BY <2>1, <2>2, QuietAppend
  <2>4. handler'[h] = Idle /\ \A g \in Handlers : g # h => handler'[g] = handler[g]
    BY <2>2 DEF TypeOK
  <2>5. h \notin Updating(a) /\ h \notin Updating(a)'
    BY <2>2, <2>4, IdleTyped DEF Updating
  <2>6. QED
    BY <1>2, <2>2, <2>3, <2>4, <2>5
<1>17. ASSUME NEW r \in PortalRequest, NEW h \in Handlers, StartPortal(h, r)
       PROVE  Chained(a)'
  <2> DEFINE n == [pc |-> "portal", req |-> r, seen |-> Stored, event |-> 0]
  <2>1. /\ handler' = [handler EXCEPT ![h] = n] /\ handler[h].pc = "idle"
        /\ n.pc = "portal" /\ UNCHANGED <<status, history>>
    BY <1>17, IdleTyped DEF StartPortal
  <2> HIDE DEF n
  <2>2. handler'[h] = n /\ \A g \in Handlers : g # h => handler'[g] = handler[g]
    BY <2>1 DEF TypeOK
  <2>3. h \notin Updating(a) /\ h \notin Updating(a)'
    BY <2>1, <2>2 DEF Updating
  <2>4. QED
    BY <1>2, <1>s, <2>1, <2>2, <2>3
<1>18. ASSUME NEW b \in Apps, NEW s \in PortalStatuses \cup {"ACTIVE"}, ImportCreates(b, s)
       PROVE  Chained(a)'
  <2>1. /\ status[b] = Absent /\ status' = [status EXCEPT ![b] = s]
        /\ UNCHANGED <<history, handler>>
    BY <1>18 DEF ImportCreates
  <2>2. Updating(a)' = Updating(a) /\ SameChanges(a)
    BY <1>s, <2>1 DEF Updating, App
  <2>3. CASE a = b
    <3>1. Changes(a)' = {} /\ Updating(a)' = {}
      BY <1>c, <2>1, <2>2, <2>3 DEF Chained, SameChanges
    <3>2. status'[a] = s /\ s # Absent
      BY <2>1, <2>3, EventsAssumption DEF TypeOK, Absent
    <3>3. QED
      BY <3>1, <3>2 DEF Chained, Linked, LastLeft
  <2>4. CASE a # b
    <3>1. status'[a] = status[a]
      BY <2>1, <2>4 DEF TypeOK
    <3>2. \A h \in Updating(a) : Written(h)' <=> Written(h)
      BY <2>1 DEF Written
    <3>3. QED
      BY <1>c, <2>1, <2>2, <3>1, <3>2, ChainKept
  <2>5. QED
    BY <2>3, <2>4
<1>12. ASSUME NEW r \in EventRequest, Submit(r) PROVE Chained(a)'
  BY <1>1, <1>3, <1>12 DEF Submit, Duplicate
<1>13. ASSUME NEW h \in Handlers, Advance(h) PROVE Chained(a)'
  BY <1>4, <1>5, <1>6, <1>9, <1>10, <1>13, <1>16 DEF Advance
<1>14. CASE SweepFind \/ SweepFails \/ UNCHANGED vars
  BY <1>1, <1>14 DEF SweepFind, SweepFails, vars
<1>15. QED
  BY <1>5, <1>7, <1>8, <1>11, <1>12, <1>13, <1>14, <1>17, <1>18 DEF Next

\* In the history of an undisturbed application the rows of routes form a chain
\* that ends in its status, whatever other rows lie between them.
THEOREM ChainTheorem == Spec => []UndisturbedChain
<1>1. ChainInv => UndisturbedChain
  BY DEF ChainInv, Chained, Linked, UndisturbedChain
<1>2. IInv => TypeOK
  BY DEF IInv
<1>3. QED
  BY InvInit, InvStep, ChainInit, ChainStep, <1>1, <1>2, PTL DEF Spec
-----------------------------------------------------------------------------
\* What a key stands for is the content of its one event.
LEMMA KeyContent ==
    ASSUME TypeOK, KeyedOnce, NEW e \in events
    PROVE  /\ e.key \in Keys /\ Content(e) \in EventRequest
           /\ recorded[e.key] = Content(e)
           /\ Content(e) # Nothing
<1>1. e.key \in Keys /\ Content(e) \in EventRequest
  BY DEF TypeOK, Row, Content, EventRequest
<1>2. \A f \in events : f.key = e.key => f = e
  BY DEF KeyedOnce
<1>3. (CHOOSE f \in events : f.key = e.key) = e
  BY <1>2
<1>4. QED
  BY <1>1, <1>3, NoEventAssumption DEF recorded, Recorded

\* Inserting an event is the register's step Record.
LEMMA InsertRecords ==
    ASSUME IInv, IInv', NEW h \in Handlers, Insert(h)
    PROVE  \E k \in Keys, e \in EventRequest :
              /\ recorded[k] = Nothing
              /\ recorded' = [recorded EXCEPT ![k] = e]
              /\ acked' = acked
<1> DEFINE k == handler[h].req.key
           new == [id |-> nextId, app |-> App(h), key |-> k,
                   target |-> handler[h].req.target]
<1>1. /\ ~Recorded(k) /\ events' = events \cup {new} /\ acked' = acked
      /\ new \in events' /\ new.key = k /\ k \in Keys
  BY DEF Insert, IInv, HoldsOwn, EventRequest
<1>2. recorded[k] = Nothing
  BY <1>1 DEF recorded
<1>3. \A f, g \in events' : f.key = g.key => f = g
  BY DEF IInv, KeyedOnce
<1>4. \A x \in Keys : x # k =>
         (CHOOSE f \in events' : f.key = x) = (CHOOSE f \in events : f.key = x)
  BY <1>1, Zenon
<1>5. \A x \in Keys : x # k => recorded'[x] = recorded[x]
  BY <1>1, <1>4 DEF recorded, Recorded
<1>6. recorded'[k] = Content(new)
  <2>1. (CHOOSE f \in events' : f.key = k) = new
    BY <1>1, <1>3
  <2>2. \E f \in events' : f.key = k
    BY <1>1
  <2>3. QED
    BY <1>1, <2>1, <2>2 DEF recorded, Recorded
<1>7. Content(new) \in EventRequest
  <2>1. handler[h].req \in EventRequest
    BY DEF Insert, IInv, HoldsOwn
  <2>2. Content(new) = [app |-> handler[h].req.app, key |-> k,
                        target |-> handler[h].req.target]
    BY DEF Content, App
  <2>3. QED
    BY <2>1, <2>2 DEF EventRequest
<1>8. recorded' = [recorded EXCEPT ![k] = Content(new)]
  <2>1. k \in Keys /\ recorded' = [x \in Keys |-> recorded'[x]]
    BY <1>1 DEF recorded
  <2>2. recorded = [x \in Keys |-> recorded[x]]
    BY DEF recorded
  <2>3. QED
    BY ONLY <2>1, <2>2, <1>5, <1>6
<1>9. QED
  BY <1>1, <1>2, <1>7, <1>8

\* Every step is a step of the register, or leaves it alone.
LEMMA RegisterStep ==
    IInv /\ IInv' /\ [Next]_vars => [Promised!RegisterNext]_(Promised!registerVars)
<1> SUFFICES ASSUME IInv, IInv', [Next]_vars
             PROVE  Promised!RegisterNext \/ UNCHANGED <<recorded, acked>>
  BY DEF Promised!registerVars
<1>1. ASSUME NEW h \in Handlers, Insert(h) PROVE Promised!RegisterNext
  BY <1>1, InsertRecords DEF Promised!RegisterNext, Promised!Record
<1>2. ASSUME events' = events PROVE recorded' = recorded
  BY <1>2 DEF recorded, Recorded
<1>3. ASSUME NEW k \in Keys, Recorded(k), events' = events, acked' = acked \cup {k}
      PROVE  Promised!RegisterNext
  <2>1. recorded[k] # Nothing
    BY <1>3, KeyContent DEF IInv, Recorded
  <2>2. QED
    BY <1>2, <1>3, <2>1 DEF Promised!RegisterNext, Promised!Answer
<1>4. ASSUME NEW r \in EventRequest, Duplicate(r) PROVE Promised!RegisterNext
  BY <1>3, <1>4 DEF Duplicate, EventRequest
<1>5. ASSUME NEW h \in Handlers, Answer(h)
      PROVE  Promised!RegisterNext \/ UNCHANGED <<recorded, acked>>
  <2>1. CASE handler[h].req.key \in Keys
    <3>1. Recorded(handler[h].req.key)
      BY <1>5, <2>1 DEF Answer, IInv, HoldsOwn, Holds, Recorded
    <3>2. events' = events /\ acked' = acked \cup {handler[h].req.key}
      BY <1>5, <2>1 DEF Answer
    <3>3. QED
      BY <1>3, <2>1, <3>1, <3>2
  <2>2. CASE handler[h].req.key \notin Keys
    BY <1>2, <1>5, <2>2 DEF Answer
  <2>3. QED
    BY <2>1, <2>2
<1>6. \/ UNCHANGED <<events, acked>>
      \/ \E h \in Handlers : Insert(h) \/ Answer(h)
      \/ \E r \in EventRequest : Duplicate(r)
  BY DEF Next, Submit, Advance, Arrive, Load, NotFound, Conflict, StartPatch, Create,
         UpdateStatus, WriteHistory, Fail, SweepFind, SweepLog, SweepFails,
         StartPortal, LogPortal, ImportCreates, vars
<1>7. QED
  BY <1>1, <1>2, <1>4, <1>5, <1>6

\* The requests implement the abstract register: the first event under a key is
\* kept for ever, and success is answered only for a key that has one.
THEOREM RegisterTheorem == Spec => RegistersEvents
<1>1. Init => Promised!RegisterInit
  BY DEF Init, Promised!RegisterInit, recorded, Recorded
<1>2. QED
  BY InvInit, InvStep, RegisterStep, <1>1, PTL
     DEF Spec, RegistersEvents, Promised!Register
=============================================================================
