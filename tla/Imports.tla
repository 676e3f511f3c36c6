------------------------------- MODULE Imports -------------------------------
(***************************************************************************)
(* The import of portal statuses: uploaded files, row by row, and manual   *)
(* entries for one passenger.  Every query is a step and any task may run  *)
(* between two of them; a query may fail and the server may stop.  Only    *)
(* the passport number is unique in the database: passengers are known by  *)
(* it here (encrypt is a function of it, so it serves as a key).           *)
(*                                                                         *)
(* The fields of a passenger and the dates of an application are copied    *)
(* and never read back by this code, so they are left out, and so are the  *)
(* columns of a file that hold them.                                       *)
(***************************************************************************)
EXTENDS Naturals, Sequences, FiniteSets

CONSTANTS
    Files,        \* uploads
    Entries,      \* manual entries
    Passports,
    Sheets,       \* what a file may hold
    Cells,        \* texts of its cells, "" if there is none
    KeyOf,        \* a cell trimmed and in capitals; Unset if shorter than three
    InCapitals,   \* a cell in capitals
    EntryRows,    \* what an operator may enter
    Codes,        \* statuses other code gives an application
    Registered,   \* bound: passports that other code may register
    MaxApps,      \* bound: applications that other code may create
    MaxMoves,     \* bound: steps of other code
    MaxFaults     \* bound: failed queries and server stops

Unset == "-"

\* normalizeStatus, of a text as it is looked up: trimmed and in small letters.
\* An Arabic text maps to the same statuses as an English one.
Normalize(text) ==
    CASE text \in {"valid", "active", "in force"} -> "ACTIVE"
      [] text = "in country" -> "IN_COUNTRY"
      [] text = "expired" -> "EXPIRED"
      [] text \in {"cancelled", "canceled"} -> "CANCELLED"
      [] text = "closed" -> "CLOSED"
      [] text = "used" -> "USED"
      [] text \in {"pending", "under process"} -> "PENDING"
      [] text = "rejected" -> "REJECTED"
      [] text = "exited" -> "EXITED"
      [] OTHER -> InCapitals[text]   \* not in the map

Statuses == {"ACTIVE", "IN_COUNTRY", "EXPIRED", "CANCELLED", "CLOSED", "USED",
             "PENDING", "REJECTED", "EXITED", "UNKNOWN", Unset}
            \cup {InCapitals[text] : text \in Cells} \cup Codes

\* A row without a status has the empty text.
NormalStatus(row) == IF row.text = "" THEN Unset ELSE Normalize(row.text)

Row == [passport: Passports, text: Cells]

\* The columns that matter here: a header belongs to every column whose pattern
\* it matches.
Columns == {"passportNumber", "status"}
Sheet == [header: Seq(SUBSET Columns), lines: Seq(Seq(Cells))]

\* detectColumnMapping: the first header that matches, 0 if none does.
Column(s, name) ==
    LET found == {c \in DOMAIN s.header : name \in s.header[c]}
    IN  IF found = {} THEN 0 ELSE CHOOSE c \in found : \A d \in found : c <= d

\* getCellValue.
Value(line, c) == IF c \in DOMAIN line THEN line[c] ELSE ""
PassportIn(s, line) == KeyOf[Value(line, Column(s, "passportNumber"))]

\* parseFile: a row for each line with a passport, in the order of the lines.  No
\* column of passports, no line below the header and no line with a passport end
\* the import alike.
WithPassport(s) == {k \in DOMAIN s.lines : PassportIn(s, s.lines[k]) # Unset}
Place(s, k) == Cardinality({i \in WithPassport(s) : i <= k})
RowOf(s, line) == [passport |-> PassportIn(s, line),
                   text |-> Value(line, Column(s, "status"))]
Parse(s) == [j \in 1 .. Cardinality(WithPassport(s)) |->
               RowOf(s, s.lines[CHOOSE k \in WithPassport(s) : Place(s, k) = j])]

NoSheet == [header |-> <<>>, lines |-> <<>>]

ASSUME ImportsAssumption ==
    /\ Files \cap Entries = {} /\ "api" \notin Files \cup Entries
    /\ Sheets \subseteq Sheet
    /\ "" \in Cells
    /\ Unset \notin Passports
    /\ KeyOf \in [Cells -> Passports \cup {Unset}] /\ KeyOf[""] = Unset
    /\ \A text \in Cells : InCapitals[text] # Unset
    /\ \A row \in EntryRows : row \in Row /\ row.text # ""
    /\ Unset \notin Codes
    /\ Registered \subseteq Passports
    /\ MaxApps \in Nat /\ MaxMoves \in Nat /\ MaxFaults \in Nat

Tasks == Files \cup Entries

VARIABLES
    passengers,  \* passports of the passengers
    apps,        \* visa_applications, in the order of createdAt
    history,     \* status_history rows written here, by task and row
    imports,     \* data_imports, by file
    checks,      \* applications a manual entry had checked, by entry
    task,        \* the handler of each file and entry
    sheet,       \* the first sheet of each file
    rows,        \* what it was given, line by line
    moves, faults,
    stopped,     \* history: the server has stopped
    overlapped   \* history: passports two tasks worked on at a time

vars == <<passengers, apps, history, imports, checks, task, sheet, rows, moves,
          faults, stopped, overlapped>>

ImportStates == {"NONE", "PROCESSING", "COMPLETED", "FAILED"}
RowStages == {"find", "createPassenger", "updatePassenger", "createApp",
              "updateApp", "history"}
Stages == RowStages \cup {"none", "total", "finalize", "failing", "job",
                          "over"}

\* by: the task that created it, "api" if it was other code.  reported: history,
\* the last portal status somebody stored who knew one.
App == [passport: Passports, status: Statuses, portal: Statuses,
        by: Tasks \cup {"api"}, reported: Statuses]
Import == [status: ImportStates, total: Nat, processed: Nat, matched: Nat,
           mismatched: Nat, new: Nat, errors: Nat]
\* n: the row; app, status, portal: the latest application as it was read.
Task == [pc: Stages, n: Nat, app: Nat, status: Statuses, portal: Statuses,
         processed: Nat, matched: Nat, mismatched: Nat, new: Nat, errors: Nat]

NoImport == [status |-> "NONE", total |-> 0, processed |-> 0, matched |-> 0,
             mismatched |-> 0, new |-> 0, errors |-> 0]
NoTask == [pc |-> "none", n |-> 1, app |-> 0, status |-> Unset, portal |-> Unset,
           processed |-> 0, matched |-> 0, mismatched |-> 0, new |-> 0, errors |-> 0]

TypeOK ==
    /\ passengers \subseteq Passports
    /\ apps \in Seq(App)
    /\ history \subseteq [app: Nat, by: Tasks, row: Nat, old: Statuses, new: Statuses]
    /\ imports \in [Files -> Import]
    /\ checks \in [Entries -> Nat]
    /\ task \in [Tasks -> Task]
    /\ sheet \in [Files -> Sheet]
    /\ rows \in [Tasks -> Seq(Row)]
    /\ moves \in 0 .. MaxMoves
    /\ faults \in 0 .. MaxFaults
    /\ stopped \in BOOLEAN
    /\ overlapped \subseteq Passports

Init ==
    /\ passengers = {}
    /\ apps = <<>>
    /\ history = {}
    /\ imports = [f \in Files |-> NoImport]
    /\ checks = [e \in Entries |-> 0]
    /\ task = [t \in Tasks |-> NoTask]
    /\ sheet = [f \in Files |-> NoSheet]
    /\ rows = [t \in Tasks |-> <<>>]
    /\ moves = 0
    /\ faults = 0
    /\ stopped = FALSE
    /\ overlapped = {}

Running(t) == task[t].pc \notin {"none", "over"}
At(t, pc) == task[t].pc = pc
Current(t) == rows[t][task[t].n]
InRow(t) == task[t].pc \in RowStages \ {"find"}
OnPassport(p) == {t \in Tasks : InRow(t) /\ Current(t).passport = p}
AppsOf(p) == {i \in DOMAIN apps : apps[i].passport = p}

\* Mutant: an expired application does not count.
LatestUnexpired(p) ==
    LET valid == {i \in AppsOf(p) : apps[i].status # "EXPIRED"}
    IN  IF valid = {} THEN 0 ELSE CHOOSE i \in valid : \A k \in valid : k <= i

\* The last application of a passenger, 0 if there is none.
Latest(p) ==
    IF AppsOf(p) = {} THEN 0 ELSE CHOOSE i \in AppsOf(p) : \A k \in AppsOf(p) : k <= i

TaskBecomes(t, r) == task' = [task EXCEPT ![t] = r]
Goto(t, pc) == TaskBecomes(t, [task[t] EXCEPT !.pc = pc])
End(t) == TaskBecomes(t, [NoTask EXCEPT !.pc = "over"])

\* The row of a file is done with; the next one, if any, follows.
NextRow(t, r) ==
    [r EXCEPT !.n = @ + 1, !.app = 0, !.status = Unset, !.portal = Unset,
              !.pc = IF r.n < Len(rows[t]) THEN "find" ELSE "finalize"]
Processed(r) == [r EXCEPT !.processed = @ + 1]
AsNew(t) == NextRow(t, [Processed(task[t]) EXCEPT !.new = @ + 1])
AsMatched(t) == NextRow(t, [Processed(task[t]) EXCEPT !.matched = @ + 1])
AsMismatched(t) == NextRow(t, [Processed(task[t]) EXCEPT !.mismatched = @ + 1])
AsError(t) == NextRow(t, [task[t] EXCEPT !.errors = @ + 1])
-----------------------------------------------------------------------------
\* importFile: the import record, the parsing, the number of rows.
Upload(f) ==
    /\ At(f, "none")
    /\ \E s \in Sheets :
          /\ sheet' = [sheet EXCEPT ![f] = s]
          /\ rows' = [rows EXCEPT ![f] = Parse(s)]
          /\ Goto(f, IF Parse(s) = <<>> THEN "failing" ELSE "total")
    /\ imports' = [imports EXCEPT ![f].status = "PROCESSING"]
    /\ UNCHANGED <<passengers, apps, history, checks, moves, faults,
                   stopped, overlapped>>

SetTotal(f) ==
    /\ At(f, "total")
    /\ imports' = [imports EXCEPT ![f].total = Len(rows[f])]
    /\ Goto(f, "find")
    /\ UNCHANGED <<passengers, apps, history, checks, sheet, rows, moves,
                   faults, stopped, overlapped>>

\* manualStatusEntry.
Submit(e) ==
    /\ At(e, "none")
    /\ \E row \in EntryRows : rows' = [rows EXCEPT ![e] = <<row>>]
    /\ Goto(e, "find")
    /\ UNCHANGED <<passengers, apps, history, imports, checks, sheet, moves,
                   faults, stopped, overlapped>>
-----------------------------------------------------------------------------
\* The passenger of the row with the latest application; a manual entry for an
\* unknown passenger is refused.
Find(t) ==
    /\ At(t, "find")
    /\ LET p == Current(t).passport
           i == Latest(p)
           read == [task[t] EXCEPT !.pc = "updatePassenger", !.app = i,
                        !.status = IF i = 0 THEN Unset ELSE apps[i].status,
                        !.portal = IF i = 0 THEN Unset ELSE apps[i].portal]
       IN  /\ IF p \in passengers THEN TaskBecomes(t, read)
              ELSE IF t \in Files THEN Goto(t, "createPassenger") ELSE End(t)
           /\ overlapped' = IF OnPassport(p) = {} THEN overlapped
                                                  ELSE overlapped \cup {p}
    /\ UNCHANGED <<passengers, apps, history, imports, checks, sheet, rows,
                   moves, faults, stopped>>

\* The passport is unique: a second creation fails, and with it the row.
CreatePassenger(f) ==
    /\ At(f, "createPassenger")
    /\ IF Current(f).passport \in passengers THEN TaskBecomes(f, AsError(f))
                                             ELSE Goto(f, "createApp")
    /\ passengers' = passengers \cup {Current(f).passport}
    /\ UNCHANGED <<apps, history, imports, checks, sheet, rows, moves, faults,
                   stopped, overlapped>>

\* Mutant: a passenger without an application is taken for a match.
UpdatePassengerOnly(t) ==
    /\ At(t, "updatePassenger")
    /\ IF task[t].app # 0 THEN Goto(t, "updateApp")
       ELSE IF t \in Files THEN TaskBecomes(t, AsMatched(t)) ELSE End(t)
    /\ UNCHANGED <<passengers, apps, history, imports, checks, sheet, rows,
                   moves, faults, stopped, overlapped>>

\* The fields of the passenger are written; a passenger without an application
\* gets one from a file and is an error of a manual entry.
UpdatePassenger(t) ==
    /\ At(t, "updatePassenger")
    /\ IF task[t].app # 0 THEN Goto(t, "updateApp")
       ELSE IF t \in Files THEN Goto(t, "createApp") ELSE End(t)
    /\ UNCHANGED <<passengers, apps, history, imports, checks, sheet, rows,
                   moves, faults, stopped, overlapped>>

CreateApp(f) ==
    /\ At(f, "createApp")
    /\ LET status == NormalStatus(Current(f))
       IN  apps' = Append(apps, [passport |-> Current(f).passport,
                                 status |-> IF status = Unset THEN "ACTIVE" ELSE status,
                                 portal |-> status, by |-> f, reported |-> status])
    /\ TaskBecomes(f, AsNew(f))
    /\ UNCHANGED <<passengers, history, imports, checks, sheet, rows, moves,
                   faults, stopped, overlapped>>

\* Compared with the status that was read, not with the one that is there.
Mismatch(t) == NormalStatus(Current(t)) \notin {Unset, task[t].status}

\* The portal status of the row or, if it has none, the one that was read.
UpdateApp(t) ==
    /\ At(t, "updateApp")
    /\ LET status == NormalStatus(Current(t))
           i == task[t].app
       IN  apps' = [apps EXCEPT
                      ![i].portal = IF status = Unset THEN task[t].portal ELSE status,
                      ![i].reported = IF status = Unset THEN @ ELSE status]
    /\ IF t \in Files /\ ~Mismatch(t) THEN TaskBecomes(t, AsMatched(t))
                                      ELSE Goto(t, "history")
    /\ UNCHANGED <<passengers, history, imports, checks, sheet, rows, moves,
                   faults, stopped, overlapped>>

\* A file logs a mismatch, a manual entry every status.
WriteHistory(t) ==
    /\ At(t, "history")
    /\ history' = history \cup
                  {[app |-> task[t].app, by |-> t, row |-> task[t].n,
                    old |-> IF task[t].portal = Unset THEN "UNKNOWN" ELSE task[t].portal,
                    new |-> NormalStatus(Current(t))]}
    /\ IF t \in Files THEN TaskBecomes(t, AsMismatched(t))
       ELSE IF Mismatch(t) THEN Goto(t, "job") ELSE End(t)
    /\ UNCHANGED <<passengers, apps, imports, checks, sheet, rows, moves,
                   faults, stopped, overlapped>>

\* The targeted run of a manual entry (EnterManually of Reconciliation).
StartCheck(e) ==
    /\ At(e, "job")
    /\ checks' = [checks EXCEPT ![e] = task[e].app]
    /\ End(e)
    /\ UNCHANGED <<passengers, apps, history, imports, sheet, rows, moves,
                   faults, stopped, overlapped>>

Finalize(f) ==
    /\ At(f, "finalize")
    /\ imports' = [imports EXCEPT ![f] =
                     [@ EXCEPT !.status = "COMPLETED", !.processed = task[f].processed,
                               !.matched = task[f].matched, !.new = task[f].new,
                               !.mismatched = task[f].mismatched,
                               !.errors = task[f].errors]]
    /\ End(f)
    /\ UNCHANGED <<passengers, apps, history, checks, sheet, rows, moves,
                   faults, stopped, overlapped>>

\* Mutant: the record says what the answer of the route says.
FailingAsAnswered(f) ==
    /\ At(f, "failing")
    /\ imports' = [imports EXCEPT ![f].status = "IMPORT_FAILED"]
    /\ End(f)
    /\ UNCHANGED <<passengers, apps, history, checks, sheet, rows, moves,
                   faults, stopped, overlapped>>

\* The catch of importFile.
Failing(f) ==
    /\ At(f, "failing")
    /\ imports' = [imports EXCEPT ![f].status = "FAILED"]
    /\ End(f)
    /\ UNCHANGED <<passengers, apps, history, checks, sheet, rows, moves,
                   faults, stopped, overlapped>>
-----------------------------------------------------------------------------
Queries == RowStages \cup {"total", "finalize", "failing", "job"}
Caught(t) == t \in Files /\ task[t].pc \in {"total", "finalize"}

\* Mutant: a row that failed has been counted as processed.
QueryFailsCounted(t) ==
    /\ task[t].pc \in Queries /\ faults < MaxFaults
    /\ faults' = faults + 1
    /\ IF t \in Files /\ task[t].pc \in RowStages
       THEN TaskBecomes(t, NextRow(t, [Processed(task[t]) EXCEPT !.errors = @ + 1]))
       ELSE IF Caught(t) THEN Goto(t, "failing") ELSE End(t)
    /\ UNCHANGED <<passengers, apps, history, imports, checks, sheet, rows,
                   moves, stopped, overlapped>>

\* Mutant: only the rows are inside a try block.
QueryFailsUncaught(t) ==
    /\ task[t].pc \in Queries /\ faults < MaxFaults
    /\ faults' = faults + 1
    /\ IF t \in Files /\ task[t].pc \in RowStages THEN TaskBecomes(t, AsError(t))
                                                  ELSE End(t)
    /\ UNCHANGED <<passengers, apps, history, imports, checks, sheet, rows,
                   moves, stopped, overlapped>>

\* A failed query costs a file the row it is in, or the import outside of one;
\* it ends a manual entry where it is.
QueryFails(t) ==
    /\ task[t].pc \in Queries /\ faults < MaxFaults
    /\ faults' = faults + 1
    /\ IF t \in Files /\ task[t].pc \in RowStages THEN TaskBecomes(t, AsError(t))
       ELSE IF Caught(t) THEN Goto(t, "failing") ELSE End(t)
    /\ UNCHANGED <<passengers, apps, history, imports, checks, sheet, rows,
                   moves, stopped, overlapped>>

ServerStops ==
    /\ faults < MaxFaults
    /\ \E t \in Tasks : Running(t)
    /\ faults' = faults + 1
    /\ stopped' = TRUE
    /\ task' = [t \in Tasks |-> IF Running(t) THEN [NoTask EXCEPT !.pc = "over"]
                                              ELSE task[t]]
    /\ UNCHANGED <<passengers, apps, history, imports, checks, sheet, rows,
                   moves, overlapped>>
-----------------------------------------------------------------------------
Move == moves < MaxMoves /\ moves' = moves + 1

\* POST /passengers; a known passport is refused.
RegisterPassenger(p) ==
    /\ Move
    /\ p \notin passengers
    /\ passengers' = passengers \cup {p}
    /\ UNCHANGED <<apps, history, imports, checks, task, sheet, rows, faults,
                   stopped, overlapped>>

\* POST /applications.
CreateApplication(p) ==
    /\ Move
    /\ p \in passengers
    /\ Cardinality({i \in DOMAIN apps : apps[i].by = "api"}) < MaxApps
    /\ apps' = Append(apps, [passport |-> p, status |-> "PENDING", portal |-> Unset,
                             by |-> "api", reported |-> Unset])
    /\ UNCHANGED <<passengers, history, imports, checks, task, sheet, rows,
                   faults, stopped, overlapped>>

\* Events and PATCH /applications/:id/status.
ChangeStatus(i, code) ==
    /\ Move
    /\ apps' = [apps EXCEPT ![i].status = code]
    /\ UNCHANGED <<passengers, history, imports, checks, task, sheet, rows,
                   faults, stopped, overlapped>>

\* A check of the ICP portal saves what it read.
SaveResult(i, code) ==
    /\ Move
    /\ apps' = [apps EXCEPT ![i].portal = code, ![i].reported = code]
    /\ overlapped' = IF OnPassport(apps[i].passport) = {} THEN overlapped
                     ELSE overlapped \cup {apps[i].passport}
    /\ UNCHANGED <<passengers, history, imports, checks, task, sheet, rows,
                   faults, stopped>>

AdvanceFile(f) ==
    \/ SetTotal(f) \/ Find(f) \/ CreatePassenger(f) \/ UpdatePassenger(f)
    \/ CreateApp(f) \/ UpdateApp(f) \/ WriteHistory(f) \/ Finalize(f) \/ Failing(f)

AdvanceEntry(e) ==
    \/ Find(e) \/ UpdatePassenger(e) \/ UpdateApp(e) \/ WriteHistory(e) \/ StartCheck(e)

Next ==
    \/ \E f \in Files : Upload(f) \/ AdvanceFile(f)
    \/ \E e \in Entries : Submit(e) \/ AdvanceEntry(e)
    \/ \E t \in Tasks : QueryFails(t)
    \/ ServerStops
    \/ \E p \in Registered : RegisterPassenger(p)
    \/ \E p \in passengers : CreateApplication(p)
    \/ \E i \in DOMAIN apps, code \in Codes : ChangeStatus(i, code) \/ SaveResult(i, code)

Spec == Init /\ [][Next]_vars
-----------------------------------------------------------------------------
(***************************************************************************)
(* The counts of a completed import are what happened to its rows and what *)
(* it left in the database: a row that failed half way is only an error,   *)
(* and every new record and every mismatch is there.                       *)
(***************************************************************************)
CountsMatchDatabase ==
    \A f \in Files : imports[f].status = "COMPLETED" =>
        /\ imports[f].total = Len(rows[f])
        /\ imports[f].total = imports[f].processed + imports[f].errors
        /\ imports[f].processed = imports[f].matched + imports[f].mismatched
                                  + imports[f].new
        /\ imports[f].new = Cardinality({i \in DOMAIN apps : apps[i].by = f})
        /\ imports[f].mismatched = Cardinality({h \in history : h.by = f})

(***************************************************************************)
(* An import that completes without an error leaves an application for     *)
(* every passport that stands in its file, also for a passenger whom an    *)
(* earlier import that failed, or one under way, left without.             *)
(***************************************************************************)
CompletedCovers ==
    \A f \in Files : imports[f].status = "COMPLETED" /\ imports[f].errors = 0 =>
        \A k \in DOMAIN sheet[f].lines :
            LET p == PassportIn(sheet[f], sheet[f].lines[k])
            IN  p # Unset => AppsOf(p) # {}

(***************************************************************************)
(* Imports give a passenger one application between them, unless two tasks *)
(* worked on the passport at a time: nothing but the read before the write *)
(* keeps the second application out.                                       *)
(***************************************************************************)
OneApplicationUnlessOverlap ==
    \A i, k \in DOMAIN apps :
        /\ apps[i].by \in Files /\ apps[k].by \in Files
        /\ apps[i].passport = apps[k].passport /\ apps[i].passport \notin overlapped
        => i = k

(***************************************************************************)
(* An application keeps the last portal status anybody reported for it: a  *)
(* row without a status puts back the one it read, which is the same       *)
(* unless another task reported one in between.                            *)
(***************************************************************************)
PortalKeptUnlessOverlap ==
    \A i \in DOMAIN apps :
        apps[i].passport \notin overlapped => apps[i].portal = apps[i].reported

(***************************************************************************)
(* What the missing transaction costs stays with passports that two tasks  *)
(* worked on at a time.                                                    *)
(***************************************************************************)
LoneTaskKeepsPassport == OneApplicationUnlessOverlap /\ PortalKeptUnlessOverlap

(***************************************************************************)
(* The catch of importFile closes the record: an import left PROCESSING    *)
(* without its handler takes a stop of the server or two failed queries,   *)
(* one if the file was no use: the update in the catch.                    *)
(***************************************************************************)
ImportSettles ==
    \A f \in Files : imports[f].status = "PROCESSING" /\ ~Running(f)
        => stopped \/ faults >= IF rows[f] = <<>> THEN 1 ELSE 2
=============================================================================
