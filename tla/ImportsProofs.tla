---------------------------- MODULE ImportsProofs ----------------------------
(***************************************************************************)
(* What imports leave in the database, for any files, passports and        *)
(* bounds: the counts of an import, its record, and the exceptions that    *)
(* overlapping tasks make.                                                 *)
(***************************************************************************)
EXTENDS Imports, SequenceTheorems, FiniteSetTheorems, WellFoundedInduction, TLAPS

\* Where a task stands in its rows and among the applications.
PlacedAt(t) ==
    /\ task[t].app \in 0 .. Len(apps)
    /\ task[t].pc \in RowStages => task[t].n \in 1 .. Len(rows[t])
    /\ task[t].pc \in {"none", "total", "find", "createPassenger", "createApp"}
       => task[t].app = 0
    /\ task[t].pc \in {"none", "total"} => task[t].n = 1
    /\ task[t].pc = "total" => rows[t] # <<>>
    /\ task[t].pc \in {"updateApp", "history"} => task[t].app # 0
    /\ InRow(t) /\ task[t].app # 0
       => apps[task[t].app].passport = Current(t).passport
    /\ task[t].pc \in {"updatePassenger", "createApp"}
       => Current(t).passport \in passengers

Placed == /\ \A t \in Tasks : PlacedAt(t)
          /\ \A i \in DOMAIN apps : apps[i].passport \in passengers

Base == TypeOK /\ Placed

\* Two tasks at a time on a passport have been noticed.
Alone == \A t, u \in Tasks :
            /\ t # u /\ InRow(t) /\ InRow(u)
            /\ Current(t).passport = Current(u).passport
            => Current(t).passport \in overlapped

\* A file that is about to create an application would create the first.
NoneYet == \A f \in Files :
              InRow(f) /\ task[f].app = 0 /\ Current(f).passport \notin overlapped
              => \A i \in DOMAIN apps :
                    apps[i].passport = Current(f).passport => apps[i].by \notin Files

\* The portal status a task has read is still there.
ReadTrue == \A t \in Tasks :
               /\ task[t].pc \in {"updatePassenger", "updateApp"} /\ task[t].app # 0
               /\ Current(t).passport \notin overlapped
               => task[t].portal = apps[task[t].app].portal

LoneInv == Alone /\ NoneYet /\ ReadTrue /\ LoneTaskKeepsPassport
-----------------------------------------------------------------------------
\* The ways a task moves.
OnlyOf(t) == \A u \in Tasks \ {t} : task'[u] = task[u]

\* It is between two rows or at the end.
Leaves(t) ==
    /\ task'[t].pc \notin (RowStages \ {"find"}) \cup {"none", "total"}
    /\ task'[t].pc = "find" => task'[t].n \in 1 .. Len(rows[t]) /\ task'[t].app = 0
    /\ task'[t].app \in 0 .. Len(apps)

\* It goes on with its row.
Continues(t) ==
    /\ InRow(t)
    /\ task'[t].pc \in {"createApp", "updateApp", "history"}
    /\ task'[t].n = task[t].n /\ task'[t].app = task[t].app
    /\ task'[t].portal = task[t].portal
    /\ IF task'[t].pc = "createApp"
       THEN task[t].app = 0 /\ Current(t).passport \in passengers'
       ELSE task[t].app # 0
    /\ task'[t].pc = "updateApp" => task[t].pc = "updatePassenger"

Extends ==
    /\ Len(apps) <= Len(apps')
    /\ \A i \in DOMAIN apps :
          apps'[i].passport = apps[i].passport /\ apps'[i].by = apps[i].by

Proceeds(t) == task'[t] = task[t] \/ Leaves(t) \/ Continues(t)

Calm == /\ \A t \in Tasks : Proceeds(t)
        /\ UNCHANGED rows /\ Extends
        /\ passengers \subseteq passengers' /\ overlapped \subseteq overlapped'
-----------------------------------------------------------------------------
LEMMA Fields ==
    ASSUME NEW r \in Task, NEW pc \in Stages
    PROVE  LET x == [r EXCEPT !.pc = pc]
           IN  /\ x \in Task /\ x.pc = pc /\ x.n = r.n /\ x.app = r.app
               /\ x.status = r.status /\ x.portal = r.portal
               /\ x.processed = r.processed /\ x.matched = r.matched
               /\ x.mismatched = r.mismatched /\ x.new = r.new /\ x.errors = r.errors
BY DEF Task

LEMMA Over ==
    LET x == [NoTask EXCEPT !.pc = "over"] IN x \in Task /\ x.pc = "over" /\ x.app = 0
<1>1. NoTask \in Task
  BY DEF NoTask, Task, Stages, Statuses
<1>2. "over" \in Stages
  BY DEF Stages
<1>3. NoTask.app = 0
  BY DEF NoTask
<1>4. QED
  BY <1>1, <1>2, <1>3, Fields

LEMMA RowsTyped ==
    ASSUME TypeOK, NEW t \in Tasks
    PROVE  rows[t] \in Seq(Row) /\ Len(rows[t]) \in Nat /\ task[t] \in Task
BY DEF TypeOK

LEMMA CurrentTyped ==
    ASSUME TypeOK, NEW t \in Tasks, task[t].n \in 1 .. Len(rows[t])
    PROVE  /\ Current(t) \in Row /\ Current(t).passport \in Passports
           /\ Current(t).text \in Cells
<1>1. rows[t] \in Seq(Row)
  BY RowsTyped
<1>2. rows[t][task[t].n] \in Row
  BY <1>1, ElementOfSeq
<1>3. QED
  BY <1>2 DEF Current, Row

\* A status that is not missing differs from what stands for a missing one.
LEMMA StatusTyped ==
    ASSUME NEW row \in Row
    PROVE  /\ NormalStatus(row) \in Statuses
           /\ row.text # "" => NormalStatus(row) # Unset
<1>1. row.text \in Cells
  BY DEF Row
<1>2. InCapitals[row.text] # Unset /\ InCapitals[row.text] \in Statuses
  BY <1>1, ImportsAssumption DEF Statuses
<1>3. QED
  BY <1>2 DEF NormalStatus, Normalize, Unset, Statuses

\* A row is done with: the fields and the counts of its task.
Counted(t, dp, dm, dd, dn, de) ==
    /\ task'[t].pc = IF task[t].n < Len(rows[t]) THEN "find" ELSE "finalize"
    /\ task'[t].n = task[t].n + 1 /\ task'[t].app = 0
    /\ task'[t].processed = task[t].processed + dp
    /\ task'[t].matched = task[t].matched + dm
    /\ task'[t].mismatched = task[t].mismatched + dd
    /\ task'[t].new = task[t].new + dn
    /\ task'[t].errors = task[t].errors + de

LEMMA Becomes ==
    ASSUME TypeOK, NEW t \in Tasks, NEW r \in Task, TaskBecomes(t, r)
    PROVE  task' \in [Tasks -> Task] /\ task'[t] = r /\ OnlyOf(t)
BY DEF TaskBecomes, TypeOK, OnlyOf

LEMMA NextRowFields ==
    ASSUME NEW t, NEW r \in Task
    PROVE  LET x == NextRow(t, r)
           IN  /\ x \in Task
               /\ x.pc = IF r.n < Len(rows[t]) THEN "find" ELSE "finalize"
               /\ x.n = r.n + 1 /\ x.app = 0
               /\ x.processed = r.processed /\ x.matched = r.matched
               /\ x.mismatched = r.mismatched /\ x.new = r.new /\ x.errors = r.errors
<1> DEFINE pc == IF r.n < Len(rows[t]) THEN "find" ELSE "finalize"
<1>1. pc \in Stages
  BY DEF Stages, RowStages
<1>2. Unset \in Statuses
  BY DEF Statuses
<1> DEFINE x == [r EXCEPT !.n = @ + 1, !.app = 0, !.status = Unset, !.portal = Unset,
                          !.pc = pc]
<1>3. NextRow(t, r) = x
  BY DEF NextRow
<1> HIDE DEF pc
<1>4. x.pc = pc /\ x.n = r.n + 1 /\ x.app = 0
  BY DEF Task
<1>5. /\ x.processed = r.processed /\ x.matched = r.matched
      /\ x.mismatched = r.mismatched /\ x.new = r.new /\ x.errors = r.errors
  BY DEF Task
<1> DEFINE y == [r EXCEPT !.n = @ + 1]
           z == [y EXCEPT !.app = 0]
<1>6. z \in Task
  <2>1. y \in Task
    BY DEF Task
  <2> HIDE DEF y
  <2>2. QED
    BY <2>1 DEF Task
<1>7. x = [z EXCEPT !.status = Unset, !.portal = Unset, !.pc = pc]
  BY DEF Task
<1>8. x \in Task
  <2> HIDE DEF x, z
  <2>1. QED
    BY <1>1, <1>2, <1>6, <1>7 DEF Task
<1> HIDE DEF x
<1>9. QED
  BY <1>3, <1>4, <1>5, <1>8 DEF pc

LEMMA OneProcessed ==
    ASSUME NEW r \in Task
    PROVE  LET x == Processed(r)
           IN  /\ x \in Task /\ x.n = r.n /\ x.processed = r.processed + 1
               /\ x.matched = r.matched /\ x.mismatched = r.mismatched
               /\ x.new = r.new /\ x.errors = r.errors
BY DEF Task, Processed

LEMMA RowCounted ==
    ASSUME TypeOK, NEW t \in Tasks, NEW r \in Task, TaskBecomes(t, NextRow(t, r)),
           NEW dp, NEW dm, NEW dd, NEW dn, NEW de,
           r.n = task[t].n, r.processed = task[t].processed + dp,
           r.matched = task[t].matched + dm, r.mismatched = task[t].mismatched + dd,
           r.new = task[t].new + dn, r.errors = task[t].errors + de
    PROVE  task' \in [Tasks -> Task] /\ OnlyOf(t) /\ Counted(t, dp, dm, dd, dn, de)
<1>1. NextRow(t, r) \in Task
  BY NextRowFields
<1>2. task' \in [Tasks -> Task] /\ OnlyOf(t) /\ task'[t] = NextRow(t, r)
  BY <1>1, Becomes
<1>3. QED
  BY <1>2, NextRowFields DEF Counted

LEMMA AsCounted ==
    ASSUME TypeOK, NEW t \in Tasks
    PROVE  /\ TaskBecomes(t, AsNew(t))
              => task' \in [Tasks -> Task] /\ OnlyOf(t) /\ Counted(t, 1, 0, 0, 1, 0)
           /\ TaskBecomes(t, AsMatched(t))
              => task' \in [Tasks -> Task] /\ OnlyOf(t) /\ Counted(t, 1, 1, 0, 0, 0)
           /\ TaskBecomes(t, AsMismatched(t))
              => task' \in [Tasks -> Task] /\ OnlyOf(t) /\ Counted(t, 1, 0, 1, 0, 0)
           /\ TaskBecomes(t, AsError(t))
              => task' \in [Tasks -> Task] /\ OnlyOf(t) /\ Counted(t, 0, 0, 0, 0, 1)
<1> DEFINE p == Processed(task[t])
<1>1. /\ task[t] \in Task
      /\ task[t].processed \in Nat /\ task[t].matched \in Nat
      /\ task[t].mismatched \in Nat /\ task[t].new \in Nat /\ task[t].errors \in Nat
  BY RowsTyped DEF Task
<1>2. /\ p \in Task /\ p.n = task[t].n /\ p.processed = task[t].processed + 1
      /\ p.matched = task[t].matched /\ p.mismatched = task[t].mismatched
      /\ p.new = task[t].new /\ p.errors = task[t].errors
  BY <1>1, OneProcessed
<1>3. ASSUME TaskBecomes(t, AsNew(t))
      PROVE  task' \in [Tasks -> Task] /\ OnlyOf(t) /\ Counted(t, 1, 0, 0, 1, 0)
  <2> DEFINE r == [p EXCEPT !.new = @ + 1]
  <2>1. /\ r \in Task /\ r.n = task[t].n
        /\ r.processed = task[t].processed + 1 /\ r.matched = task[t].matched + 0
        /\ r.mismatched = task[t].mismatched + 0 /\ r.new = task[t].new + 1
        /\ r.errors = task[t].errors + 0
    <3> HIDE DEF p
    <3>1. QED
      BY <1>1, <1>2 DEF Task
  <2>2. AsNew(t) = NextRow(t, r)
    BY DEF AsNew
  <2> HIDE DEF r
  <2>3. QED
    BY <1>3, <2>1, <2>2, RowCounted
<1>4. ASSUME TaskBecomes(t, AsMatched(t))
      PROVE  task' \in [Tasks -> Task] /\ OnlyOf(t) /\ Counted(t, 1, 1, 0, 0, 0)
  <2> DEFINE r == [p EXCEPT !.matched = @ + 1]
  <2>1. /\ r \in Task /\ r.n = task[t].n
        /\ r.processed = task[t].processed + 1 /\ r.matched = task[t].matched + 1
        /\ r.mismatched = task[t].mismatched + 0 /\ r.new = task[t].new + 0
        /\ r.errors = task[t].errors + 0
    <3> HIDE DEF p
    <3>1. QED
      BY <1>1, <1>2 DEF Task
  <2>2. AsMatched(t) = NextRow(t, r)
    BY DEF AsMatched
  <2> HIDE DEF r
  <2>3. QED
    BY <1>4, <2>1, <2>2, RowCounted
<1>5. ASSUME TaskBecomes(t, AsMismatched(t))
      PROVE  task' \in [Tasks -> Task] /\ OnlyOf(t) /\ Counted(t, 1, 0, 1, 0, 0)
  <2> DEFINE r == [p EXCEPT !.mismatched = @ + 1]
  <2>1. /\ r \in Task /\ r.n = task[t].n
        /\ r.processed = task[t].processed + 1 /\ r.matched = task[t].matched + 0
        /\ r.mismatched = task[t].mismatched + 1 /\ r.new = task[t].new + 0
        /\ r.errors = task[t].errors + 0
    <3> HIDE DEF p
    <3>1. QED
      BY <1>1, <1>2 DEF Task
  <2>2. AsMismatched(t) = NextRow(t, r)
    BY DEF AsMismatched
  <2> HIDE DEF r
  <2>3. QED
    BY <1>5, <2>1, <2>2, RowCounted
<1>6. ASSUME TaskBecomes(t, AsError(t))
      PROVE  task' \in [Tasks -> Task] /\ OnlyOf(t) /\ Counted(t, 0, 0, 0, 0, 1)
  <2> DEFINE r == [task[t] EXCEPT !.errors = @ + 1]
  <2>1. /\ r \in Task /\ r.n = task[t].n
        /\ r.processed = task[t].processed + 0 /\ r.matched = task[t].matched + 0
        /\ r.mismatched = task[t].mismatched + 0 /\ r.new = task[t].new + 0
        /\ r.errors = task[t].errors + 1
    <3> HIDE DEF p
    <3>1. QED
      BY <1>1, <1>2 DEF Task
  <2>2. AsError(t) = NextRow(t, r)
    BY DEF AsError
  <2> HIDE DEF r
  <2>3. QED
    BY <1>6, <2>1, <2>2, RowCounted
<1>7. QED
  BY <1>3, <1>4, <1>5, <1>6

\* A row that is counted leaves its task between two rows.
LEMMA CountedLeaves ==
    ASSUME TypeOK, NEW t \in Tasks, task[t].n \in 1 .. Len(rows[t]),
           NEW dp, NEW dm, NEW dd, NEW dn, NEW de, Counted(t, dp, dm, dd, dn, de)
    PROVE  Leaves(t)
<1>1. Len(rows[t]) \in Nat /\ Len(apps) \in Nat
  BY RowsTyped DEF TypeOK
<1>2. QED
  BY <1>1 DEF Leaves, Counted, RowStages

\* What a step does to the task that takes it.
Moved(t) == task' \in [Tasks -> Task] /\ OnlyOf(t) /\ (Leaves(t) \/ Continues(t))

\* Its row and its counts are what they were.
SameCounts(t) ==
    /\ task'[t].n = task[t].n /\ task'[t].processed = task[t].processed
    /\ task'[t].matched = task[t].matched
    /\ task'[t].mismatched = task[t].mismatched
    /\ task'[t].new = task[t].new /\ task'[t].errors = task[t].errors

LEMMA GotoEffect ==
    ASSUME TypeOK, NEW t \in Tasks, NEW pc \in Stages, Goto(t, pc)
    PROVE  /\ task' \in [Tasks -> Task] /\ OnlyOf(t)
           /\ task'[t].pc = pc /\ task'[t].n = task[t].n /\ task'[t].app = task[t].app
           /\ task'[t].status = task[t].status /\ task'[t].portal = task[t].portal
           /\ task'[t].processed = task[t].processed
           /\ task'[t].matched = task[t].matched
           /\ task'[t].mismatched = task[t].mismatched
           /\ task'[t].new = task[t].new /\ task'[t].errors = task[t].errors
<1> DEFINE r == [task[t] EXCEPT !.pc = pc]
<1>1. task[t] \in Task
  BY RowsTyped
<1>2. r \in Task
  BY <1>1, Fields
<1>3. task' \in [Tasks -> Task] /\ task'[t] = r /\ OnlyOf(t)
  BY <1>2, Becomes DEF Goto
<1>4. QED
  BY <1>1, <1>3, Fields

LEMMA EndEffect ==
    ASSUME TypeOK, NEW t \in Tasks, End(t)
    PROVE  Moved(t) /\ Leaves(t) /\ task'[t].pc = "over"
<1> DEFINE r == [NoTask EXCEPT !.pc = "over"]
<1>1. r \in Task /\ r.pc = "over" /\ r.app = 0
  BY Over
<1>2. TaskBecomes(t, r)
  BY DEF End
<1> HIDE DEF r
<1>3. task' \in [Tasks -> Task] /\ task'[t] = r /\ OnlyOf(t)
  BY <1>1, <1>2, Becomes
<1>4. 0 \in 0 .. Len(apps)
  BY DEF TypeOK
<1>5. Leaves(t)
  BY <1>1, <1>3, <1>4 DEF Leaves, RowStages
<1>6. QED
  BY <1>1, <1>3, <1>5 DEF Moved

\* The count of a row is one of four.
CountedSomehow(t) ==
    \/ Counted(t, 1, 0, 0, 1, 0) \/ Counted(t, 1, 1, 0, 0, 0)
    \/ Counted(t, 1, 0, 1, 0, 0) \/ Counted(t, 0, 0, 0, 0, 1)

LEMMA CountEffect ==
    ASSUME Base, NEW t \in Tasks, task[t].pc \in RowStages,
           \/ TaskBecomes(t, AsNew(t)) \/ TaskBecomes(t, AsMatched(t))
           \/ TaskBecomes(t, AsMismatched(t)) \/ TaskBecomes(t, AsError(t))
    PROVE  Moved(t) /\ Leaves(t) /\ CountedSomehow(t)
<1>1. task[t].n \in 1 .. Len(rows[t])
  BY DEF Base, Placed, PlacedAt
<1>2. task' \in [Tasks -> Task] /\ OnlyOf(t) /\ CountedSomehow(t)
  BY AsCounted DEF Base, CountedSomehow
<1>3. Leaves(t)
  BY <1>1, <1>2, CountedLeaves DEF Base, CountedSomehow
<1>4. QED
  BY <1>2, <1>3 DEF Moved
-----------------------------------------------------------------------------
\* The steps of a task within a row or after it.
RowStep(t) ==
    \/ t \in Files /\ (SetTotal(t) \/ CreatePassenger(t) \/ CreateApp(t)
                        \/ Finalize(t) \/ Failing(t))
    \/ t \in Entries /\ StartCheck(t)
    \/ UpdatePassenger(t) \/ UpdateApp(t) \/ WriteHistory(t) \/ QueryFails(t)

LEMMA SetTotalMoves ==
    ASSUME Base, NEW t \in Tasks, SetTotal(t)
    PROVE  Moved(t)
<1>1. task[t].pc = "total" /\ Goto(t, "find") /\ "find" \in Stages
  BY DEF SetTotal, At, Stages, RowStages
<1>2. task[t].n = 1 /\ rows[t] # <<>> /\ task[t].app = 0 /\ rows[t] \in Seq(Row)
  BY <1>1, RowsTyped DEF Base, Placed, PlacedAt
<1>3. 1 \in 1 .. Len(rows[t]) /\ 0 \in 0 .. Len(apps)
  BY <1>2, EmptySeq DEF Base, TypeOK
<1>4. /\ task' \in [Tasks -> Task] /\ OnlyOf(t)
      /\ task'[t].pc = "find" /\ task'[t].n = 1 /\ task'[t].app = 0
  BY <1>1, <1>2, GotoEffect DEF Base
<1>5. QED
  BY <1>3, <1>4 DEF Moved, Leaves, RowStages

LEMMA CreatePassengerMoves ==
    ASSUME Base, NEW t \in Tasks, CreatePassenger(t)
    PROVE  Moved(t)
<1>1. task[t].pc = "createPassenger" /\ InRow(t) /\ task[t].pc \in RowStages
  BY DEF CreatePassenger, At, InRow, RowStages
<1>2. CASE TaskBecomes(t, AsError(t))
  BY <1>1, <1>2, CountEffect
<1>3. CASE Goto(t, "createApp")
  <2>1. "createApp" \in Stages
    BY DEF Stages, RowStages
  <2>2. task[t].app = 0
    BY <1>1 DEF Base, Placed, PlacedAt
  <2>3. Current(t).passport \in passengers'
    BY DEF CreatePassenger
  <2>4. Continues(t)
    BY <1>1, <1>3, <2>1, <2>2, <2>3, GotoEffect DEF Base, Continues
  <2>5. QED
    BY <1>3, <2>1, <2>4, GotoEffect DEF Base, Moved
<1>4. QED
  BY <1>2, <1>3 DEF CreatePassenger

LEMMA UpdatePassengerMoves ==
    ASSUME Base, NEW t \in Tasks, UpdatePassenger(t)
    PROVE  Moved(t)
<1>1. task[t].pc = "updatePassenger" /\ InRow(t)
  BY DEF UpdatePassenger, At, InRow, RowStages
<1>2. Current(t).passport \in passengers'
  BY <1>1 DEF UpdatePassenger, Base, Placed, PlacedAt
<1>3. {"createApp", "updateApp"} \subseteq Stages
  BY DEF Stages, RowStages
<1>4. CASE task[t].app # 0
  <2>1. Goto(t, "updateApp")
    BY <1>4 DEF UpdatePassenger
  <2>2. Continues(t)
    BY <1>1, <1>3, <1>4, <2>1, GotoEffect DEF Base, Continues
  <2>3. QED
    BY <1>3, <2>1, <2>2, GotoEffect DEF Base, Moved
<1>5. CASE task[t].app = 0 /\ t \in Files
  <2>1. Goto(t, "createApp")
    BY <1>5 DEF UpdatePassenger
  <2>2. Continues(t)
    BY <1>1, <1>2, <1>3, <1>5, <2>1, GotoEffect DEF Base, Continues
  <2>3. QED
    BY <1>3, <2>1, <2>2, GotoEffect DEF Base, Moved
<1>6. CASE task[t].app = 0 /\ t \notin Files
  BY <1>6, EndEffect DEF UpdatePassenger, Base
<1>7. QED
  BY <1>4, <1>5, <1>6

LEMMA UpdateAppMoves ==
    ASSUME Base, NEW t \in Tasks, UpdateApp(t)
    PROVE  Moved(t)
<1>1. task[t].pc = "updateApp" /\ InRow(t) /\ task[t].pc \in RowStages
  BY DEF UpdateApp, At, InRow, RowStages
<1>2. CASE TaskBecomes(t, AsMatched(t))
  BY <1>1, <1>2, CountEffect
<1>3. CASE Goto(t, "history")
  <2>1. "history" \in Stages
    BY DEF Stages, RowStages
  <2>2. task[t].app # 0
    BY <1>1 DEF Base, Placed, PlacedAt
  <2>3. Continues(t)
    BY <1>1, <1>3, <2>1, <2>2, GotoEffect DEF Base, Continues
  <2>4. QED
    BY <1>3, <2>1, <2>3, GotoEffect DEF Base, Moved
<1>4. QED
  BY <1>2, <1>3 DEF UpdateApp

\* The stages outside of the rows.
LEMMA GotoOut ==
    ASSUME Base, NEW t \in Tasks, NEW pc \in {"job", "failing"}, Goto(t, pc)
    PROVE  Moved(t) /\ Leaves(t)
<1>1. pc \in Stages
  BY DEF Stages
<1>2. task[t].app \in 0 .. Len(apps)
  BY DEF Base, Placed, PlacedAt
<1>3. Leaves(t)
  BY <1>1, <1>2, GotoEffect DEF Base, Leaves, RowStages
<1>4. QED
  BY <1>1, <1>3, GotoEffect DEF Base, Moved

LEMMA RowStepMoves ==
    ASSUME Base, NEW t \in Tasks, RowStep(t)
    PROVE  Moved(t)
<1>1. ASSUME SetTotal(t) PROVE Moved(t)
  BY <1>1, SetTotalMoves
<1>2. ASSUME CreatePassenger(t) PROVE Moved(t)
  BY <1>2, CreatePassengerMoves
<1>3. ASSUME UpdatePassenger(t) PROVE Moved(t)
  BY <1>3, UpdatePassengerMoves
<1>4. ASSUME CreateApp(t) PROVE Moved(t)
  BY <1>4, CountEffect DEF CreateApp, At, RowStages
<1>5. ASSUME UpdateApp(t) PROVE Moved(t)
  BY <1>5, UpdateAppMoves
<1>6. ASSUME WriteHistory(t) PROVE Moved(t)
  <2>1. \/ TaskBecomes(t, AsMismatched(t)) /\ task[t].pc \in RowStages
        \/ Goto(t, "job") \/ End(t)
    BY <1>6 DEF WriteHistory, At, RowStages
  <2>2. QED
    BY <2>1, CountEffect, GotoOut, EndEffect DEF Base
<1>7. ASSUME StartCheck(t) \/ Finalize(t) \/ Failing(t) PROVE Moved(t)
  BY <1>7, EndEffect DEF StartCheck, Finalize, Failing, Base
<1>8. ASSUME QueryFails(t) PROVE Moved(t)
  <2>1. \/ TaskBecomes(t, AsError(t)) /\ task[t].pc \in RowStages
        \/ Goto(t, "failing") \/ End(t)
    BY <1>8 DEF QueryFails
  <2>2. QED
    BY <2>1, CountEffect, GotoOut, EndEffect DEF Base
<1>9. QED
  BY <1>1, <1>2, <1>3, <1>4, <1>5, <1>6, <1>7, <1>8 DEF RowStep
-----------------------------------------------------------------------------
\* The applications after a step.
Grows(a) ==
    /\ apps' \in Seq(App) /\ Len(apps') = Len(apps) + 1 /\ apps'[Len(apps) + 1] = a
    /\ \A i \in DOMAIN apps : apps'[i] = apps[i]

Rewrites(i) ==
    /\ apps' \in Seq(App) /\ Len(apps') = Len(apps)
    /\ \A j \in DOMAIN apps \ {i} : apps'[j] = apps[j]
    /\ apps'[i].passport = apps[i].passport /\ apps'[i].by = apps[i].by

LEMMA GrowEffect ==
    ASSUME TypeOK, NEW a \in App, apps' = Append(apps, a)
    PROVE  Grows(a) /\ Extends
<1>1. apps \in Seq(App)
  BY DEF TypeOK
<1>2. Grows(a)
  BY <1>1, AppendProperties DEF Grows
<1>3. QED
  BY <1>1, <1>2 DEF Grows, Extends

LEMMA RewriteExtends ==
    ASSUME TypeOK, NEW i \in DOMAIN apps, Rewrites(i)
    PROVE  Extends
<1>1. Len(apps') = Len(apps) /\ Len(apps) \in Nat
  BY DEF Rewrites, TypeOK
<1>2. ASSUME NEW j \in DOMAIN apps
      PROVE  apps'[j].passport = apps[j].passport /\ apps'[j].by = apps[j].by
  <2>1. CASE j = i
    BY <2>1 DEF Rewrites
  <2>2. CASE j # i
    BY <2>2 DEF Rewrites
  <2>3. QED
    BY <2>1, <2>2
<1>3. QED
  BY <1>1, <1>2 DEF Extends

LEMMA CreateAppEffect ==
    ASSUME Base, NEW f \in Files, CreateApp(f)
    PROVE  \E a \in App :
              /\ Grows(a) /\ Extends /\ a.by = f /\ a.portal = a.reported
              /\ a.passport = Current(f).passport /\ a.passport \in passengers
<1> DEFINE status == NormalStatus(Current(f))
           a == [passport |-> Current(f).passport,
                 status |-> IF status = Unset THEN "ACTIVE" ELSE status,
                 portal |-> status, by |-> f, reported |-> status]
<1>1. f \in Tasks /\ task[f].pc = "createApp"
  BY DEF CreateApp, At, Tasks
<1>2. task[f].n \in 1 .. Len(rows[f]) /\ Current(f).passport \in passengers
  BY <1>1 DEF Base, Placed, PlacedAt, RowStages
<1>3. Current(f) \in Row /\ Current(f).passport \in Passports
  BY <1>1, <1>2, CurrentTyped DEF Base
<1>4. status \in Statuses /\ "ACTIVE" \in Statuses
  BY <1>3, StatusTyped DEF Statuses
<1>5. apps' = Append(apps, a)
  BY DEF CreateApp
<1> HIDE DEF status
<1>6. a \in App
  BY <1>1, <1>3, <1>4 DEF App
<1>7. a.by = f /\ a.portal = a.reported /\ a.passport = Current(f).passport
  OBVIOUS
<1> HIDE DEF a
<1>8. QED
  BY <1>2, <1>5, <1>6, <1>7, GrowEffect DEF Base

LEMMA UpdateAppEffect ==
    ASSUME Base, NEW t \in Tasks, UpdateApp(t)
    PROVE  LET i == task[t].app
               status == NormalStatus(Current(t))
           IN  /\ i \in DOMAIN apps /\ Rewrites(i) /\ Extends
               /\ apps[i].passport = Current(t).passport
               /\ IF status = Unset
                  THEN /\ apps'[i].portal = task[t].portal
                       /\ apps'[i].reported = apps[i].reported
                  ELSE apps'[i].portal = status /\ apps'[i].reported = status
<1> DEFINE i == task[t].app
           status == NormalStatus(Current(t))
           a == [apps[i] EXCEPT !.portal = IF status = Unset THEN task[t].portal ELSE status,
                                !.reported = IF status = Unset THEN @ ELSE status]
<1>1. task[t].pc = "updateApp" /\ InRow(t) /\ task[t] \in Task
  BY RowsTyped DEF UpdateApp, At, InRow, RowStages, Base
<1>2. /\ task[t].n \in 1 .. Len(rows[t]) /\ i # 0 /\ i \in 0 .. Len(apps)
      /\ apps[i].passport = Current(t).passport
  BY <1>1 DEF Base, Placed, PlacedAt, RowStages
<1>3. Current(t) \in Row
  BY <1>2, CurrentTyped DEF Base
<1>4. status \in Statuses /\ task[t].portal \in Statuses
  BY <1>1, <1>3, StatusTyped DEF Task
<1>5. apps \in Seq(App) /\ i \in DOMAIN apps /\ apps[i] \in App
  BY <1>2, ElementOfSeq DEF Base, TypeOK
<1>6. apps' = [apps EXCEPT ![i] = a]
  BY DEF UpdateApp
<1> HIDE DEF status, i
<1>7. /\ a \in App /\ a.passport = apps[i].passport /\ a.by = apps[i].by
      /\ a.portal = (IF status = Unset THEN task[t].portal ELSE status)
      /\ a.reported = (IF status = Unset THEN apps[i].reported ELSE status)
  BY <1>4, <1>5 DEF App
<1> HIDE DEF a
<1>8. apps' \in Seq(App) /\ Len(apps') = Len(apps)
  BY <1>5, <1>6, <1>7, ExceptSeq
<1>9. apps'[i] = a /\ \A j \in DOMAIN apps \ {i} : apps'[j] = apps[j]
  BY <1>5, <1>6
<1>10. Rewrites(i)
  BY <1>7, <1>8, <1>9 DEF Rewrites
<1>11. QED
  BY <1>2, <1>5, <1>7, <1>9, <1>10, RewriteExtends DEF Base, i, status

LEMMA CreateApplicationEffect ==
    ASSUME Base, NEW p \in passengers, CreateApplication(p)
    PROVE  \E a \in App :
              /\ Grows(a) /\ Extends /\ a.by \notin Files /\ a.portal = a.reported
              /\ a.passport \in passengers
<1> DEFINE a == [passport |-> p, status |-> "PENDING", portal |-> Unset, by |-> "api",
                 reported |-> Unset]
<1>1. p \in Passports
  BY DEF Base, TypeOK
<1>2. "PENDING" \in Statuses /\ Unset \in Statuses
  BY DEF Statuses
<1>3. a \in App
  BY <1>1, <1>2 DEF App
<1>4. apps' = Append(apps, a) /\ a.by \notin Files /\ a.portal = a.reported /\ a.passport = p
  BY ImportsAssumption DEF CreateApplication
<1> HIDE DEF a
<1>5. QED
  BY <1>3, <1>4, GrowEffect DEF Base

LEMMA OtherCodeEffect ==
    ASSUME Base, NEW i \in DOMAIN apps, NEW code \in Codes,
           ChangeStatus(i, code) \/ SaveResult(i, code)
    PROVE  /\ Rewrites(i) /\ Extends
           /\ ChangeStatus(i, code) => /\ apps'[i].portal = apps[i].portal
                                       /\ apps'[i].reported = apps[i].reported
           /\ SaveResult(i, code) => /\ apps'[i].portal = code
                                     /\ apps'[i].reported = code
<1>1. apps \in Seq(App) /\ apps[i] \in App /\ code \in Statuses
  BY ElementOfSeq DEF Base, TypeOK, Statuses
<1>2. ASSUME ChangeStatus(i, code)
      PROVE  /\ Rewrites(i) /\ apps'[i].portal = apps[i].portal
             /\ apps'[i].reported = apps[i].reported
  <2> DEFINE a == [apps[i] EXCEPT !.status = code]
  <2>1. /\ a \in App /\ a.passport = apps[i].passport /\ a.by = apps[i].by
        /\ a.portal = apps[i].portal /\ a.reported = apps[i].reported
    BY <1>1 DEF App
  <2>2. apps' = [apps EXCEPT ![i] = a]
    BY <1>2 DEF ChangeStatus
  <2> HIDE DEF a
  <2>3. apps' \in Seq(App) /\ Len(apps') = Len(apps)
    BY <1>1, <2>1, <2>2, ExceptSeq
  <2>4. apps'[i] = a /\ \A j \in DOMAIN apps \ {i} : apps'[j] = apps[j]
    BY <1>1, <2>2
  <2>5. QED
    BY <2>1, <2>3, <2>4 DEF Rewrites
<1>3. ASSUME SaveResult(i, code)
      PROVE  Rewrites(i) /\ apps'[i].portal = code /\ apps'[i].reported = code
  <2> DEFINE a == [apps[i] EXCEPT !.portal = code, !.reported = code]
  <2>1. /\ a \in App /\ a.passport = apps[i].passport /\ a.by = apps[i].by
        /\ a.portal = code /\ a.reported = code
    BY <1>1 DEF App
  <2>2. apps' = [apps EXCEPT ![i] = a]
    BY <1>3 DEF SaveResult
  <2> HIDE DEF a
  <2>3. apps' \in Seq(App) /\ Len(apps') = Len(apps)
    BY <1>1, <2>1, <2>2, ExceptSeq
  <2>4. apps'[i] = a /\ \A j \in DOMAIN apps \ {i} : apps'[j] = apps[j]
    BY <1>1, <2>2
  <2>5. QED
    BY <2>1, <2>3, <2>4 DEF Rewrites
<1>4. Rewrites(i) /\ (ChangeStatus(i, code) => /\ apps'[i].portal = apps[i].portal
                                               /\ apps'[i].reported = apps[i].reported)
                  /\ (SaveResult(i, code) => /\ apps'[i].portal = code
                                             /\ apps'[i].reported = code)
  BY <1>2, <1>3
<1>5. QED
  BY <1>4, RewriteExtends DEF Base
-----------------------------------------------------------------------------
\* A set of positions has a last one.
LEMMA LastExists ==
    ASSUME NEW S, NEW n \in Nat, S \subseteq 1 .. n, S # {}
    PROVE  \E i \in S : \A k \in S : k <= i
<1> DEFINE R == OpToRel(<, Nat)
           T == {n - i : i \in S}
<1>1. IsWellFoundedOn(R, Nat)
  BY NatLessThanWellFounded
<1>2. \A x, y \in Nat : x < y => <<x, y>> \in R
  BY DEF OpToRel
<1> HIDE DEF R
<1>3. T \subseteq Nat /\ T # {}
  <2>1. \A i \in S : n - i \in Nat
    OBVIOUS
  <2>2. QED
    BY <2>1
<1>4. PICK x \in T : \A y \in T : ~(<<y, x>> \in R)
  <2> HIDE DEF T
  <2>1. QED
    BY <1>1, <1>3, WFMin
<1>5. PICK i \in S : x = n - i
  BY <1>4
<1>6. ASSUME NEW k \in S
      PROVE  k <= i
  <2>1. n - k \in T /\ n - k \in Nat /\ x \in Nat /\ i \in Nat /\ k \in Nat
    BY <1>3, <1>4
  <2>2. ~(n - k < x)
    BY <1>2, <1>4, <2>1
  <2>3. QED
    BY <1>5, <2>1, <2>2
<1>7. QED
  BY <1>6

LEMMA LatestFound ==
    ASSUME TypeOK, NEW p
    PROVE  /\ Latest(p) \in 0 .. Len(apps)
           /\ Latest(p) # 0 => Latest(p) \in DOMAIN apps /\ apps[Latest(p)].passport = p
           /\ Latest(p) = 0 => AppsOf(p) = {}
<1>1. Len(apps) \in Nat /\ DOMAIN apps = 1 .. Len(apps) /\ AppsOf(p) \subseteq 1 .. Len(apps)
  BY DEF TypeOK, AppsOf
<1>2. CASE AppsOf(p) = {}
  BY <1>1, <1>2 DEF Latest
<1>3. CASE AppsOf(p) # {}
  <2>1. \E i \in AppsOf(p) : \A k \in AppsOf(p) : k <= i
    BY <1>1, <1>3, LastExists
  <2>2. Latest(p) \in AppsOf(p)
    BY <1>3, <2>1 DEF Latest
  <2>3. Latest(p) \in 1 .. Len(apps) /\ apps[Latest(p)].passport = p
    BY <1>1, <2>2 DEF AppsOf
  <2>4. QED
    BY <1>1, <2>3
<1>4. QED
  BY <1>2, <1>3

\* The task of a row that has found its passenger, or is to create it.
Opens(t) ==
    LET p == Current(t).passport
        i == task'[t].app
    IN  /\ task'[t].n = task[t].n /\ task[t].n \in 1 .. Len(rows[t])
        /\ \/ /\ task'[t].pc = "updatePassenger" /\ p \in passengers
              /\ IF i = 0 THEN AppsOf(p) = {}
                 ELSE /\ i \in DOMAIN apps /\ apps[i].passport = p
                      /\ task'[t].portal = apps[i].portal
           \/ /\ task'[t].pc = "createPassenger" /\ p \notin passengers
              /\ i = 0 /\ t \in Files

LEMMA FindEffect ==
    ASSUME Base, NEW t \in Tasks, Find(t)
    PROVE  /\ task' \in [Tasks -> Task] /\ OnlyOf(t) /\ (Opens(t) \/ Leaves(t))
           /\ t \in Files => SameCounts(t) /\ InRow(t)'
<1> DEFINE p == Current(t).passport
           i == Latest(p)
           status == IF i = 0 THEN Unset ELSE apps[i].status
           portal == IF i = 0 THEN Unset ELSE apps[i].portal
           r == [task[t] EXCEPT !.pc = "updatePassenger", !.app = i, !.status = status,
                                !.portal = portal]
<1>1. task[t].pc = "find" /\ task[t].pc \in RowStages /\ task[t] \in Task
  BY RowsTyped DEF Find, At, RowStages, Base
<1>2. task[t].n \in 1 .. Len(rows[t]) /\ task[t].app = 0
  BY <1>1 DEF Base, Placed, PlacedAt
<1>3. CASE p \in passengers
  <2>1. /\ i \in 0 .. Len(apps) /\ (i # 0 => i \in DOMAIN apps /\ apps[i].passport = p)
        /\ (i = 0 => AppsOf(p) = {})
    BY LatestFound DEF Base
  <2>2. apps \in Seq(App) /\ Unset \in Statuses
    BY DEF Base, TypeOK, Statuses
  <2> HIDE DEF i
  <2>3. i # 0 => apps[i] \in App
    BY <2>1, <2>2, ElementOfSeq
  <2>4. status \in Statuses /\ portal \in Statuses /\ i \in Nat
    BY <2>1, <2>2, <2>3 DEF App
  <2>5. "updatePassenger" \in Stages
    BY DEF Stages, RowStages
  <2>6. TaskBecomes(t, r)
    BY <1>3 DEF Find, i
  <2> HIDE DEF status
  <2>7. portal = IF i = 0 THEN Unset ELSE apps[i].portal
    OBVIOUS
  <2> HIDE DEF portal
  <2> DEFINE x == [task[t] EXCEPT !.pc = "updatePassenger", !.app = i]
  <2>8. x \in Task
    BY <1>1, <2>4, <2>5 DEF Task
  <2>9. r = [x EXCEPT !.status = status, !.portal = portal]
    BY <1>1 DEF Task
  <2>10. /\ r.pc = "updatePassenger" /\ r.n = task[t].n /\ r.app = i
         /\ r.portal = portal /\ r.processed = task[t].processed
         /\ r.matched = task[t].matched /\ r.mismatched = task[t].mismatched
         /\ r.new = task[t].new /\ r.errors = task[t].errors
    BY <1>1 DEF Task
  <2>11. r \in Task
    <3> HIDE DEF x, r
    <3>1. QED
      BY <2>4, <2>8, <2>9 DEF Task
  <2> HIDE DEF r
  <2>12. task' \in [Tasks -> Task] /\ OnlyOf(t) /\ task'[t] = r
    BY <2>6, <2>11, Becomes DEF Base
  <2>13. Opens(t)
    BY <1>2, <1>3, <2>1, <2>7, <2>10, <2>12 DEF Opens
  <2>14. SameCounts(t) /\ InRow(t)'
    BY <2>10, <2>12 DEF SameCounts, InRow, RowStages
  <2>15. QED
    BY <2>12, <2>13, <2>14
<1>4. CASE p \notin passengers /\ t \in Files
  <2>1. Goto(t, "createPassenger") /\ "createPassenger" \in Stages
    BY <1>4 DEF Find, Stages, RowStages
  <2>2. /\ task' \in [Tasks -> Task] /\ OnlyOf(t) /\ task'[t].pc = "createPassenger"
        /\ task'[t].n = task[t].n /\ task'[t].app = 0 /\ SameCounts(t)
    BY <1>2, <2>1, GotoEffect DEF Base, SameCounts
  <2>3. QED
    BY <1>2, <1>4, <2>2 DEF Opens, InRow, RowStages
<1>5. CASE p \notin passengers /\ t \notin Files
  <2>1. End(t)
    BY <1>5 DEF Find
  <2>2. QED
    BY <1>5, <2>1, EndEffect DEF Base, Moved
<1>6. QED
  BY <1>3, <1>4, <1>5
-----------------------------------------------------------------------------
LEMMA LinesTyped ==
    ASSUME NEW s \in Sheet
    PROVE  /\ s.lines \in Seq(Seq(Cells)) /\ WithPassport(s) \subseteq 1 .. Len(s.lines)
           /\ Len(s.lines) \in Nat /\ IsFiniteSet(WithPassport(s))
<1>1. s.lines \in Seq(Seq(Cells)) /\ Len(s.lines) \in Nat
  BY DEF Sheet
<1>2. WithPassport(s) \subseteq 1 .. Len(s.lines)
  BY <1>1 DEF WithPassport
<1>3. IsFiniteSet(1 .. Len(s.lines))
  BY <1>1, FS_Interval
<1>4. QED
  BY <1>1, <1>2, <1>3, FS_Subset

LEMMA CellTyped ==
    ASSUME NEW line \in Seq(Cells), NEW c
    PROVE  Value(line, c) \in Cells
<1>1. c \in DOMAIN line => line[c] \in Cells
  OBVIOUS
<1>2. c \notin DOMAIN line => Value(line, c) \in Cells
  BY ImportsAssumption, Zenon DEF Value
<1>3. QED
  BY <1>1, <1>2, Zenon DEF Value

LEMMA KeysTyped == KeyOf \in [Cells -> Passports \cup {Unset}]
BY ImportsAssumption, Zenon

\* Every line with a passport has a place of its own.
LEMMA PlaceOfLine ==
    ASSUME NEW s \in Sheet
    PROVE  LET lines == WithPassport(s)
           IN  /\ \A k \in lines : Place(s, k) \in 1 .. Cardinality(lines)
               /\ \A k, l \in lines : Place(s, k) = Place(s, l) => k = l
<1> DEFINE lines == WithPassport(s)
           n == Cardinality(lines)
           upTo(k) == {i \in lines : i <= k}
<1>1. lines \subseteq Nat /\ IsFiniteSet(lines) /\ n \in Nat
  BY LinesTyped, FS_CardinalityType
<1>2. \A k : Place(s, k) = Cardinality(upTo(k))
  BY DEF Place
<1> HIDE DEF lines
<1>3. ASSUME NEW k \in lines
      PROVE  IsFiniteSet(upTo(k)) /\ Cardinality(upTo(k)) \in 1 .. n
  <2>1. upTo(k) \in SUBSET lines /\ k \in upTo(k)
    BY <1>1
  <2> HIDE DEF upTo
  <2>2. IsFiniteSet(upTo(k)) /\ Cardinality(upTo(k)) <= n
    BY <1>1, <2>1, FS_Subset
  <2>3. Cardinality(upTo(k)) \in Nat /\ Cardinality(upTo(k)) # 0
    BY <2>1, <2>2, FS_CardinalityType, FS_EmptySet
  <2> HIDE DEF n
  <2>4. QED
    BY <1>1, <2>2, <2>3
<1>4. ASSUME NEW k \in lines, NEW l \in lines, k < l,
             Cardinality(upTo(k)) = Cardinality(upTo(l))
      PROVE  FALSE
  <2>1. upTo(k) \in SUBSET upTo(l) /\ l \in upTo(l) /\ l \notin upTo(k)
    <3>1. k \in Nat /\ l \in Nat /\ \A i \in lines : i \in Nat
      BY <1>1
    <3>2. \A i \in lines : i <= k => i <= l
      BY <1>4, <3>1
    <3>3. l <= l /\ ~(l <= k)
      BY <1>4, <3>1
    <3>4. QED
      BY <3>2, <3>3
  <2> HIDE DEF upTo
  <2>2. upTo(l) = upTo(k)
    BY <1>3, <1>4, <2>1, FS_Subset
  <2>3. QED
    BY <2>1, <2>2
<1> HIDE DEF upTo, n
<1>5. ASSUME NEW k \in lines, NEW l \in lines, Place(s, k) = Place(s, l)
      PROVE  k = l
  <2>1. k \in Nat /\ l \in Nat
    BY <1>1
  <2>2. k < l \/ l < k \/ k = l
    BY <2>1
  <2>3. QED
    BY <1>2, <1>4, <1>5, <2>2
<1>6. QED
  BY <1>2, <1>3, <1>5 DEF lines, n

\* And every place has its line.
LEMMA LineOfPlace ==
    ASSUME NEW s \in Sheet, NEW j \in 1 .. Cardinality(WithPassport(s))
    PROVE  \E k \in WithPassport(s) : Place(s, k) = j
<1> DEFINE lines == WithPassport(s)
           n == Cardinality(lines)
           place == [k \in lines |-> Place(s, k)]
<1>1. IsFiniteSet(lines) /\ n \in Nat
  BY LinesTyped, FS_CardinalityType
<1>2. IsFiniteSet(1 .. n) /\ Cardinality(1 .. n) = n
  BY <1>1, FS_Interval
<1>3. /\ \A k \in lines : Place(s, k) \in 1 .. n
      /\ \A k, l \in lines : Place(s, k) = Place(s, l) => k = l
  BY PlaceOfLine
<1>4. j \in 1 .. n
  OBVIOUS
<1> HIDE DEF lines, n
<1>5. place \in Injection(lines, 1 .. n)
  BY <1>3 DEF Injection, IsInjective
<1>6. place \in Surjection(lines, 1 .. n)
  BY <1>1, <1>2, <1>5, FS_Injection DEF n
<1>7. \E k \in lines : place[k] = j
  BY <1>4, <1>6 DEF Surjection
<1>8. QED
  BY <1>7 DEF lines

LEMMA ParseTyped ==
    ASSUME NEW s \in Sheet
    PROVE  Parse(s) \in Seq(Row) /\ Len(Parse(s)) = Cardinality(WithPassport(s))
<1> DEFINE n == Cardinality(WithPassport(s))
           lineAt(j) == CHOOSE k \in WithPassport(s) : Place(s, k) = j
           row(j) == RowOf(s, s.lines[lineAt(j)])
<1>1. n \in Nat
  BY LinesTyped, FS_CardinalityType
<1>2. ASSUME NEW j \in 1 .. n PROVE row(j) \in Row
  <2>1. lineAt(j) \in WithPassport(s)
    BY LineOfPlace
  <2> HIDE DEF lineAt
  <2>2. s.lines[lineAt(j)] \in Seq(Cells)
    <3>1. lineAt(j) \in 1 .. Len(s.lines) /\ s.lines \in Seq(Seq(Cells))
      BY <2>1, LinesTyped
    <3>2. QED
      BY <3>1, ElementOfSeq
  <2>3. PassportIn(s, s.lines[lineAt(j)]) \in Passports
    <3>1. PassportIn(s, s.lines[lineAt(j)]) \in Passports \cup {Unset}
      BY <2>2, CellTyped, KeysTyped DEF PassportIn
    <3>2. QED
      BY <2>1, <3>1 DEF WithPassport
  <2>4. QED
    BY <2>2, <2>3, CellTyped DEF RowOf, Row
<1>3. Parse(s) = [j \in 1 .. n |-> row(j)]
  BY DEF Parse
<1> HIDE DEF n, row
<1>4. [j \in 1 .. n |-> row(j)] \in Seq(Row) /\ Len([j \in 1 .. n |-> row(j)]) = n
  BY <1>1, <1>2
<1>5. QED
  BY <1>3, <1>4 DEF n

\* Every passport in the lines of a sheet has a row.
LEMMA ParseCovers ==
    ASSUME NEW s \in Sheet, NEW k \in DOMAIN s.lines,
           PassportIn(s, s.lines[k]) # Unset
    PROVE  \E j \in 1 .. Len(Parse(s)) :
              Parse(s)[j].passport = PassportIn(s, s.lines[k])
<1> DEFINE j == Place(s, k)
           l == CHOOSE i \in WithPassport(s) : Place(s, i) = j
<1>1. k \in WithPassport(s)
  BY DEF WithPassport
<1>2. j \in 1 .. Len(Parse(s)) /\ j \in 1 .. Cardinality(WithPassport(s))
  BY <1>1, PlaceOfLine, ParseTyped
<1>3. l = k
  <2>1. l \in WithPassport(s) /\ Place(s, l) = Place(s, k)
    BY <1>1
  <2> HIDE DEF l
  <2>2. QED
    BY <1>1, <2>1, PlaceOfLine
<1>4. Parse(s)[j] = RowOf(s, s.lines[l])
  BY <1>2 DEF Parse
<1> HIDE DEF j, l
<1>5. QED
  BY <1>2, <1>3, <1>4 DEF RowOf

-----------------------------------------------------------------------------
LEMMA UploadEffect ==
    ASSUME Base, NEW f \in Files, Upload(f)
    PROVE  /\ sheet' \in [Files -> Sheet] /\ rows' \in [Tasks -> Seq(Row)]
           /\ task' \in [Tasks -> Task] /\ OnlyOf(f)
           /\ \A u \in Tasks \ {f} : rows'[u] = rows[u]
           /\ rows'[f] = Parse(sheet'[f])
           /\ \A g \in Files \ {f} : sheet'[g] = sheet[g]
           /\ task'[f].pc = (IF rows'[f] = <<>> THEN "failing" ELSE "total")
           /\ task'[f].n = 1 /\ task'[f].app = 0
           /\ task'[f].processed = task[f].processed
           /\ task'[f].matched = task[f].matched
           /\ task'[f].mismatched = task[f].mismatched
           /\ task'[f].new = task[f].new /\ task'[f].errors = task[f].errors
<1>1. PICK s \in Sheets :
         /\ sheet' = [sheet EXCEPT ![f] = s]
         /\ rows' = [rows EXCEPT ![f] = Parse(s)]
         /\ Goto(f, IF Parse(s) = <<>> THEN "failing" ELSE "total")
  BY DEF Upload
<1> DEFINE pc == IF Parse(s) = <<>> THEN "failing" ELSE "total"
<1>2. s \in Sheet /\ Parse(s) \in Seq(Row)
  <2>1. s \in Sheet
    BY ImportsAssumption, Zenon
  <2>2. QED
    BY <2>1, ParseTyped
<1>3. f \in Tasks /\ task[f].pc = "none"
  BY DEF Upload, At, Tasks
<1>4. task[f].n = 1 /\ task[f].app = 0
  BY <1>3 DEF Base, Placed, PlacedAt
<1>5. /\ sheet' \in [Files -> Sheet] /\ sheet'[f] = s
      /\ \A g \in Files \ {f} : sheet'[g] = sheet[g]
  BY <1>1, <1>2 DEF Base, TypeOK
<1>6. /\ rows' \in [Tasks -> Seq(Row)] /\ rows'[f] = Parse(s)
      /\ \A u \in Tasks \ {f} : rows'[u] = rows[u]
  BY <1>1, <1>2, <1>3 DEF Base, TypeOK
<1>7. pc \in Stages /\ Goto(f, pc)
  BY <1>1 DEF Stages
<1> HIDE DEF pc
<1>8. /\ task' \in [Tasks -> Task] /\ OnlyOf(f) /\ task'[f].pc = pc
      /\ task'[f].n = task[f].n /\ task'[f].app = task[f].app
      /\ task'[f].processed = task[f].processed
      /\ task'[f].matched = task[f].matched
      /\ task'[f].mismatched = task[f].mismatched
      /\ task'[f].new = task[f].new /\ task'[f].errors = task[f].errors
  BY <1>3, <1>7, GotoEffect DEF Base
<1>9. QED
  BY <1>4, <1>5, <1>6, <1>8 DEF pc

LEMMA SubmitEffect ==
    ASSUME Base, NEW e \in Entries, Submit(e)
    PROVE  /\ rows' \in [Tasks -> Seq(Row)]
           /\ task' \in [Tasks -> Task] /\ OnlyOf(e)
           /\ \A u \in Tasks \ {e} : rows'[u] = rows[u]
           /\ task'[e].pc = "find" /\ task'[e].n = 1 /\ task'[e].app = 0
           /\ Len(rows'[e]) = 1
<1>1. PICK row \in EntryRows : rows' = [rows EXCEPT ![e] = <<row>>]
  BY DEF Submit
<1>2. row \in Row /\ e \in Tasks /\ task[e].pc = "none"
  BY ImportsAssumption DEF Submit, At, Tasks
<1>3. <<row>> \in Seq(Row) /\ Len(<<row>>) = 1
  BY <1>2
<1>4. task[e].n = 1 /\ task[e].app = 0
  BY <1>2 DEF Base, Placed, PlacedAt
<1>5. /\ rows' \in [Tasks -> Seq(Row)] /\ rows'[e] = <<row>>
      /\ \A u \in Tasks \ {e} : rows'[u] = rows[u]
  BY <1>1, <1>2, <1>3 DEF Base, TypeOK
<1>6. "find" \in Stages /\ Goto(e, "find")
  BY DEF Stages, RowStages, Submit
<1>7. QED
  BY <1>2, <1>3, <1>4, <1>5, <1>6, GotoEffect DEF Base

\* A stop leaves every task where it was or at its end.
LEMMA StopEffect ==
    ASSUME Base, ServerStops
    PROVE  /\ task' \in [Tasks -> Task]
           /\ \A t \in Tasks :
                 IF Running(t) THEN Leaves(t) /\ task'[t].pc = "over"
                               ELSE task'[t] = task[t]
<1> DEFINE r == [NoTask EXCEPT !.pc = "over"]
<1>1. r \in Task /\ r.pc = "over" /\ r.app = 0
  BY Over
<1>2. task' = [t \in Tasks |-> IF Running(t) THEN r ELSE task[t]]
  BY DEF ServerStops
<1> HIDE DEF r
<1>3. task' \in [Tasks -> Task]
  BY <1>1, <1>2 DEF Base, TypeOK
<1>4. 0 \in 0 .. Len(apps)
  BY DEF Base, TypeOK
<1>5. ASSUME NEW t \in Tasks
      PROVE  IF Running(t) THEN Leaves(t) /\ task'[t].pc = "over"
                           ELSE task'[t] = task[t]
  BY <1>1, <1>2, <1>4 DEF Leaves, RowStages
<1>6. QED
  BY <1>3, <1>5

LEMMA ImportFields ==
    ASSUME TypeOK, NEW f \in Files, NEW s \in ImportStates, NEW n \in Nat
    PROVE  /\ [imports EXCEPT ![f].status = s] \in [Files -> Import]
           /\ [imports EXCEPT ![f].total = n] \in [Files -> Import]
<1>1. imports \in [Files -> Import] /\ imports[f] \in Import
  BY DEF TypeOK
<1>2. [imports[f] EXCEPT !.status = s] \in Import /\ [imports[f] EXCEPT !.total = n] \in Import
  BY <1>1 DEF Import
<1>3. QED
  BY <1>1, <1>2

LEMMA FinalizeEffect ==
    ASSUME Base, NEW f \in Files, Finalize(f)
    PROVE  /\ imports' \in [Files -> Import]
           /\ \A g \in Files \ {f} : imports'[g] = imports[g]
           /\ imports'[f].status = "COMPLETED" /\ imports'[f].total = imports[f].total
           /\ imports'[f].processed = task[f].processed
           /\ imports'[f].matched = task[f].matched /\ imports'[f].new = task[f].new
           /\ imports'[f].mismatched = task[f].mismatched
           /\ imports'[f].errors = task[f].errors
<1> DEFINE old == imports[f]
           r == task[f]
           x == [old EXCEPT !.status = "COMPLETED", !.processed = r.processed,
                            !.matched = r.matched, !.new = r.new,
                            !.mismatched = r.mismatched, !.errors = r.errors]
<1>1. old \in Import /\ r \in Task /\ imports \in [Files -> Import]
  BY RowsTyped DEF Base, TypeOK, Tasks
<1>2. imports' = [imports EXCEPT ![f] = x]
  BY DEF Finalize
<1> HIDE DEF old, r
<1>3. /\ x.status = "COMPLETED" /\ x.processed = r.processed /\ x.matched = r.matched
      /\ x.new = r.new /\ x.mismatched = r.mismatched /\ x.errors = r.errors
      /\ x.total = old.total
  BY <1>1 DEF Import
<1>4. x \in Import
  <2> DEFINE y == [old EXCEPT !.status = "COMPLETED", !.processed = r.processed]
             z == [y EXCEPT !.matched = r.matched, !.new = r.new]
  <2>1. /\ r.processed \in Nat /\ r.matched \in Nat /\ r.new \in Nat
        /\ r.mismatched \in Nat /\ r.errors \in Nat
    BY <1>1 DEF Task
  <2>2. y \in Import
    BY <1>1, <2>1 DEF Import, ImportStates
  <2>3. z \in Import
    <3> HIDE DEF y
    <3>1. QED
      BY <2>1, <2>2 DEF Import
  <2>4. x = [z EXCEPT !.mismatched = r.mismatched, !.errors = r.errors]
    BY <1>1 DEF Import
  <2>5. QED
    <3> HIDE DEF x, z
    <3>1. QED
      BY <2>1, <2>3, <2>4 DEF Import
<1> HIDE DEF x
<1>5. /\ imports' \in [Files -> Import] /\ imports'[f] = x
      /\ \A g \in Files \ {f} : imports'[g] = imports[g]
  BY <1>1, <1>2, <1>4
<1>6. QED
  BY <1>3, <1>5 DEF old, r

\* The row a task writes to the history is its own.
LEMMA HistoryEffect ==
    ASSUME Base, NEW t \in Tasks, WriteHistory(t)
    PROVE  \E h \in [app: Nat, by: Tasks, row: Nat, old: Statuses, new: Statuses] :
              history' = history \cup {h} /\ h.by = t /\ h.row = task[t].n
<1>1. task[t].pc = "history" /\ task[t] \in Task
  BY RowsTyped DEF WriteHistory, At, Base
<1>2. task[t].n \in 1 .. Len(rows[t])
  BY <1>1 DEF Base, Placed, PlacedAt, RowStages
<1> DEFINE old == IF task[t].portal = Unset THEN "UNKNOWN" ELSE task[t].portal
           new == NormalStatus(Current(t))
           h == [app |-> task[t].app, by |-> t, row |-> task[t].n, old |-> old, new |-> new]
<1>3. old \in Statuses
  BY <1>1 DEF Task, Statuses
<1>4. new \in Statuses
  BY <1>2, CurrentTyped, StatusTyped DEF Base
<1>5. history' = history \cup {h}
  BY DEF WriteHistory
<1>6. task[t].app \in Nat /\ task[t].n \in Nat
  BY <1>1 DEF Task
<1> HIDE DEF old, new
<1>7. h \in [app: Nat, by: Tasks, row: Nat, old: Statuses, new: Statuses]
  BY <1>3, <1>4, <1>6
<1>8. h.by = t /\ h.row = task[t].n
  OBVIOUS
<1> HIDE DEF h
<1>9. QED
  BY <1>5, <1>7, <1>8
-----------------------------------------------------------------------------
LEMMA Room ==
    ASSUME NEW m \in Nat, NEW n \in 0 .. m, n < m
    PROVE  n + 1 \in 0 .. m
OBVIOUS

LEMMA TaskStepTyped ==
    ASSUME Base, NEW t \in Tasks, RowStep(t)
    PROVE  TypeOK'
<1>1. task' \in [Tasks -> Task]
  BY RowStepMoves DEF Moved
<1> USE DEF Base
<1>2. ASSUME SetTotal(t), t \in Files PROVE TypeOK'
  <2>1. Len(rows[t]) \in Nat
    BY RowsTyped
  <2>2. imports' \in [Files -> Import]
    <3>1. imports[t].status \in ImportStates
      BY <1>2 DEF TypeOK, Import
    <3>2. QED
      BY <1>2, <2>1, <3>1, ImportFields DEF SetTotal
  <2>3. QED
    BY <1>1, <1>2, <2>2 DEF SetTotal, TypeOK
<1>3. ASSUME CreatePassenger(t) PROVE TypeOK'
  <2>1. task[t].n \in 1 .. Len(rows[t])
    BY <1>3 DEF Placed, PlacedAt, CreatePassenger, At, RowStages
  <2>2. Current(t).passport \in Passports
    BY <2>1, CurrentTyped
  <2>3. passengers' \subseteq Passports
    BY <1>3, <2>2 DEF CreatePassenger, TypeOK
  <2>4. QED
    BY <1>1, <1>3, <2>3 DEF CreatePassenger, TypeOK
<1>4. ASSUME UpdatePassenger(t) PROVE TypeOK'
  BY <1>1, <1>4 DEF UpdatePassenger, TypeOK
<1>5. ASSUME CreateApp(t), t \in Files PROVE TypeOK'
  <2>1. apps' \in Seq(App)
    BY <1>5, CreateAppEffect DEF Grows
  <2>2. QED
    BY <1>1, <1>5, <2>1 DEF CreateApp, TypeOK
<1>6. ASSUME UpdateApp(t) PROVE TypeOK'
  <2>1. apps' \in Seq(App)
    BY <1>6, UpdateAppEffect DEF Rewrites
  <2>2. QED
    BY <1>1, <1>6, <2>1 DEF UpdateApp, TypeOK
<1>7. ASSUME WriteHistory(t) PROVE TypeOK'
  <2>1. history' \subseteq [app: Nat, by: Tasks, row: Nat, old: Statuses, new: Statuses]
    <3>1. PICK h \in [app: Nat, by: Tasks, row: Nat, old: Statuses, new: Statuses] :
             history' = history \cup {h}
      BY <1>7, HistoryEffect
    <3>2. QED
      BY <3>1 DEF TypeOK
  <2>2. QED
    BY <1>1, <1>7, <2>1 DEF WriteHistory, TypeOK
<1>8. ASSUME StartCheck(t), t \in Entries PROVE TypeOK'
  <2>1. task[t].app \in Nat
    BY RowsTyped DEF Task
  <2>2. checks' \in [Entries -> Nat]
    BY <1>8, <2>1 DEF StartCheck, TypeOK
  <2>3. QED
    BY <1>1, <1>8, <2>2 DEF StartCheck, TypeOK
<1>9. ASSUME Finalize(t), t \in Files PROVE TypeOK'
  <2>1. imports' \in [Files -> Import]
    BY <1>9, FinalizeEffect
  <2>2. QED
    BY <1>1, <1>9, <2>1 DEF Finalize, TypeOK
<1>10. ASSUME Failing(t), t \in Files PROVE TypeOK'
  <2>1. "FAILED" \in ImportStates
    BY DEF ImportStates
  <2>2. imports' \in [Files -> Import]
    <3>1. [imports EXCEPT ![t].status = "FAILED"] \in [Files -> Import]
      BY <1>10, <2>1, ImportFields
    <3>2. QED
      BY <1>10, <3>1 DEF Failing
  <2>3. QED
    BY <1>1, <1>10, <2>2 DEF Failing, TypeOK
<1>11. ASSUME QueryFails(t) PROVE TypeOK'
  <2>1. faults' \in 0 .. MaxFaults
    <3>1. MaxFaults \in Nat /\ faults \in 0 .. MaxFaults
      BY ImportsAssumption DEF TypeOK
    <3>2. QED
      BY <1>11, <3>1, Room DEF QueryFails
  <2>2. QED
    BY <1>1, <1>11, <2>1 DEF QueryFails, TypeOK
<1>12. QED
  BY <1>2, <1>3, <1>4, <1>5, <1>6, <1>7, <1>8, <1>9, <1>10, <1>11 DEF RowStep

\* What other code does.
OtherCode ==
    \/ \E p \in Registered : RegisterPassenger(p)
    \/ \E p \in passengers : CreateApplication(p)
    \/ \E i \in DOMAIN apps, code \in Codes : ChangeStatus(i, code) \/ SaveResult(i, code)

LEMMA OtherCodeTyped ==
    ASSUME Base, OtherCode
    PROVE  TypeOK'
<1> USE DEF Base
<1>1. ASSUME Move PROVE moves' \in 0 .. MaxMoves
  <2>1. MaxMoves \in Nat /\ moves \in 0 .. MaxMoves
    BY ImportsAssumption DEF TypeOK
  <2>2. QED
    BY <1>1, <2>1, Room DEF Move
<1>2. ASSUME NEW p \in Registered, RegisterPassenger(p) PROVE TypeOK'
  BY <1>1, <1>2, ImportsAssumption DEF RegisterPassenger, TypeOK
<1>3. ASSUME NEW p \in passengers, CreateApplication(p) PROVE TypeOK'
  <2>1. apps' \in Seq(App)
    BY <1>3, CreateApplicationEffect DEF Grows
  <2>2. QED
    BY <1>1, <1>3, <2>1 DEF CreateApplication, TypeOK
<1>4. ASSUME NEW i \in DOMAIN apps, NEW code \in Codes,
             ChangeStatus(i, code) \/ SaveResult(i, code)
      PROVE  TypeOK'
  <2>1. apps' \in Seq(App)
    BY <1>4, OtherCodeEffect DEF Rewrites
  <2>2. apps[i].passport \in Passports
    <3>1. apps[i] \in App
      BY ElementOfSeq DEF TypeOK
    <3>2. QED
      BY <3>1 DEF App
  <2>3. ASSUME ChangeStatus(i, code) PROVE TypeOK'
    BY <1>1, <2>1, <2>3 DEF ChangeStatus, TypeOK
  <2>4. ASSUME SaveResult(i, code) PROVE TypeOK'
    BY <1>1, <2>1, <2>2, <2>4 DEF SaveResult, TypeOK
  <2>5. QED
    BY <1>4, <2>3, <2>4
<1>5. QED
  BY <1>2, <1>3, <1>4 DEF OtherCode

LEMMA StepKinds ==
    ASSUME Next
    PROVE  \/ \E f \in Files : Upload(f)
           \/ \E e \in Entries : Submit(e)
           \/ \E t \in Tasks : Find(t)
           \/ \E t \in Tasks : RowStep(t)
           \/ ServerStops
           \/ OtherCode
<1>1. ASSUME NEW f \in Files, AdvanceFile(f)
      PROVE  \E t \in Tasks : Find(t) \/ RowStep(t)
  BY <1>1 DEF AdvanceFile, RowStep, Tasks
<1>2. ASSUME NEW e \in Entries, AdvanceEntry(e)
      PROVE  \E t \in Tasks : Find(t) \/ RowStep(t)
  BY <1>2 DEF AdvanceEntry, RowStep, Tasks
<1>3. QED
  BY <1>1, <1>2 DEF Next, OtherCode, RowStep

LEMMA TypeStep ==
    ASSUME Base, Next
    PROVE  TypeOK'
<1>1. ASSUME NEW f \in Files, Upload(f) PROVE TypeOK'
  <2>1. "PROCESSING" \in ImportStates
    BY DEF ImportStates
  <2>2. imports' \in [Files -> Import]
    <3>1. [imports EXCEPT ![f].status = "PROCESSING"] \in [Files -> Import]
      BY <2>1, ImportFields DEF Base
    <3>2. QED
      BY <1>1, <3>1 DEF Upload
  <2>3. /\ task' \in [Tasks -> Task] /\ sheet' \in [Files -> Sheet]
        /\ rows' \in [Tasks -> Seq(Row)]
    BY <1>1, UploadEffect
  <2>4. QED
    BY <1>1, <2>2, <2>3 DEF Upload, TypeOK, Base
<1>2. ASSUME NEW e \in Entries, Submit(e) PROVE TypeOK'
  <2>1. task' \in [Tasks -> Task] /\ rows' \in [Tasks -> Seq(Row)]
    BY <1>2, SubmitEffect
  <2>2. QED
    BY <1>2, <2>1 DEF Submit, TypeOK, Base
<1>3. ASSUME NEW t \in Tasks, Find(t) PROVE TypeOK'
  <2>1. task' \in [Tasks -> Task]
    BY <1>3, FindEffect
  <2>2. task[t].n \in 1 .. Len(rows[t])
    BY <1>3 DEF Base, Placed, PlacedAt, Find, At, RowStages
  <2>3. Current(t).passport \in Passports
    BY <2>2, CurrentTyped DEF Base
  <2>4. overlapped' \subseteq Passports
    BY <1>3, <2>3 DEF Find, TypeOK, Base
  <2>5. QED
    BY <1>3, <2>1, <2>4 DEF Find, TypeOK, Base
<1>4. ASSUME NEW t \in Tasks, RowStep(t) PROVE TypeOK'
  BY <1>4, TaskStepTyped
<1>5. ASSUME ServerStops PROVE TypeOK'
  <2>1. task' \in [Tasks -> Task]
    BY <1>5, StopEffect
  <2>2. faults' \in 0 .. MaxFaults
    <3>1. MaxFaults \in Nat /\ faults \in 0 .. MaxFaults
      BY ImportsAssumption DEF Base, TypeOK
    <3>2. QED
      BY <1>5, <3>1, Room DEF ServerStops
  <2>3. QED
    BY <1>5, <2>1, <2>2 DEF ServerStops, TypeOK, Base
<1>6. ASSUME OtherCode PROVE TypeOK'
  BY <1>6, OtherCodeTyped
<1>7. QED
  BY <1>1, <1>2, <1>3, <1>4, <1>5, <1>6, StepKinds
-----------------------------------------------------------------------------
LEMMA KeptPlaced ==
    ASSUME Base, NEW t \in Tasks, task'[t] = task[t], rows'[t] = rows[t], Extends,
           passengers \subseteq passengers', Len(apps') \in Nat
    PROVE  PlacedAt(t)'
<1>1. PlacedAt(t) /\ Len(apps) \in Nat /\ DOMAIN apps = 1 .. Len(apps)
  BY DEF Base, Placed, TypeOK
<1>2. task[t].app # 0 => apps'[task[t].app].passport = apps[task[t].app].passport
  BY <1>1 DEF PlacedAt, Extends
<1>3. Current(t)' = Current(t) /\ InRow(t)' = InRow(t)
  BY DEF Current, InRow
<1>4. QED
  BY <1>1, <1>2, <1>3 DEF PlacedAt, Extends

LEMMA LeavesPlaced ==
    ASSUME Base, NEW t \in Tasks, Leaves(t), rows'[t] = rows[t], Extends,
           Len(apps') \in Nat
    PROVE  PlacedAt(t)' /\ ~InRow(t)'
<1>1. Len(apps) \in Nat
  BY DEF Base, TypeOK
<1>2. QED
  BY <1>1 DEF PlacedAt, Leaves, Extends, RowStages, InRow

LEMMA ContinuesPlaced ==
    ASSUME Base, NEW t \in Tasks, Continues(t), rows'[t] = rows[t], Extends,
           passengers \subseteq passengers', Len(apps') \in Nat
    PROVE  PlacedAt(t)' /\ InRow(t)' /\ Current(t)' = Current(t)
<1>1. PlacedAt(t) /\ Len(apps) \in Nat /\ DOMAIN apps = 1 .. Len(apps)
  BY DEF Base, Placed, TypeOK
<1>2. task[t].app # 0 => apps'[task[t].app].passport = apps[task[t].app].passport
  BY <1>1 DEF PlacedAt, Extends
<1>3. Current(t)' = Current(t) /\ InRow(t)' /\ InRow(t) /\ task[t].pc \in RowStages
  BY DEF Current, InRow, Continues, RowStages
<1>4. /\ task'[t].app = task[t].app /\ task'[t].n = task[t].n
      /\ task'[t].pc \in {"createApp", "updateApp", "history"}
  BY DEF Continues
<1>5. task'[t].app \in 0 .. Len(apps')
  BY <1>1, <1>4 DEF PlacedAt, Extends
<1>6. task'[t].n \in 1 .. Len(rows'[t])
  BY <1>1, <1>3, <1>4 DEF PlacedAt
<1>7. task'[t].app # 0 => apps'[task'[t].app].passport = Current(t)'.passport
  BY <1>1, <1>2, <1>3, <1>4 DEF PlacedAt
<1>8. QED
  BY <1>3, <1>4, <1>5, <1>6, <1>7 DEF PlacedAt, Continues

\* A step that reads no passenger anew.
LEMMA CalmPlaced ==
    ASSUME Base, Calm, apps' \in Seq(App),
           \A i \in DOMAIN apps' : apps'[i].passport \in passengers'
    PROVE  Placed'
<1>1. ASSUME NEW t \in Tasks PROVE PlacedAt(t)'
  <2>1. Proceeds(t) /\ rows'[t] = rows[t] /\ Extends /\ passengers \subseteq passengers'
        /\ Len(apps') \in Nat
    BY DEF Calm
  <2>2. QED
    BY <2>1, KeptPlaced, LeavesPlaced, ContinuesPlaced DEF Proceeds
<1>2. QED
  BY <1>1 DEF Placed

LEMMA MovedProceeds ==
    ASSUME NEW t \in Tasks, Moved(t)
    PROVE  \A u \in Tasks : Proceeds(u)
BY DEF Moved, OnlyOf, Proceeds

\* Applications that stay or are added are of known passengers.
LEMMA GrowsKnown ==
    ASSUME Base, NEW a \in App, Grows(a), a.passport \in passengers',
           passengers \subseteq passengers'
    PROVE  \A i \in DOMAIN apps' : apps'[i].passport \in passengers'
<1>1. /\ Len(apps) \in Nat /\ DOMAIN apps = 1 .. Len(apps)
      /\ DOMAIN apps' = 1 .. Len(apps) + 1
  BY DEF Base, TypeOK, Grows
<1>2. QED
  BY <1>1 DEF Grows, Base, Placed

LEMMA ExtendsKnown ==
    ASSUME Base, Extends, apps' \in Seq(App), Len(apps') = Len(apps),
           passengers \subseteq passengers'
    PROVE  \A i \in DOMAIN apps' : apps'[i].passport \in passengers'
<1>1. DOMAIN apps' = DOMAIN apps
  BY DEF Base, TypeOK
<1>2. QED
  BY <1>1 DEF Extends, Base, Placed

LEMMA SameExtends ==
    ASSUME TypeOK, UNCHANGED apps
    PROVE  Extends /\ apps' \in Seq(App) /\ Len(apps') = Len(apps)
BY DEF Extends, TypeOK

\* The steps that are calm.
LEMMA RowStepCalm ==
    ASSUME Base, NEW t \in Tasks, RowStep(t)
    PROVE  /\ Calm /\ apps' \in Seq(App) /\ UNCHANGED overlapped
           /\ \A i \in DOMAIN apps' : apps'[i].passport \in passengers'
<1>1. \A u \in Tasks : Proceeds(u)
  BY RowStepMoves, MovedProceeds
<1>2. UNCHANGED <<rows, overlapped>> /\ passengers \subseteq passengers'
  BY DEF RowStep, SetTotal, CreatePassenger, CreateApp, Finalize, Failing, StartCheck,
         UpdatePassenger, UpdateApp, WriteHistory, QueryFails
<1>3. ASSUME CreateApp(t), t \in Files
      PROVE  /\ Extends /\ apps' \in Seq(App)
             /\ \A i \in DOMAIN apps' : apps'[i].passport \in passengers'
  <2>1. PICK a \in App : Grows(a) /\ Extends /\ a.passport \in passengers
    BY <1>3, CreateAppEffect
  <2>2. QED
    BY <1>2, <2>1, GrowsKnown DEF Grows
<1>4. ASSUME UpdateApp(t)
      PROVE  /\ Extends /\ apps' \in Seq(App)
             /\ \A i \in DOMAIN apps' : apps'[i].passport \in passengers'
  <2>1. Extends /\ apps' \in Seq(App) /\ Len(apps') = Len(apps)
    BY <1>4, UpdateAppEffect DEF Rewrites
  <2>2. QED
    BY <1>2, <2>1, ExtendsKnown
<1>5. ASSUME UNCHANGED apps
      PROVE  /\ Extends /\ apps' \in Seq(App)
             /\ \A i \in DOMAIN apps' : apps'[i].passport \in passengers'
  BY <1>2, <1>5, SameExtends, ExtendsKnown DEF Base
<1>6. (CreateApp(t) /\ t \in Files) \/ UpdateApp(t) \/ UNCHANGED apps
  BY DEF RowStep, SetTotal, CreatePassenger, Finalize, Failing, StartCheck,
         UpdatePassenger, WriteHistory, QueryFails
<1>7. QED
  BY <1>1, <1>2, <1>3, <1>4, <1>5, <1>6 DEF Calm

LEMMA StopCalm ==
    ASSUME Base, ServerStops
    PROVE  /\ Calm /\ apps' \in Seq(App) /\ UNCHANGED overlapped
           /\ \A i \in DOMAIN apps' : apps'[i].passport \in passengers'
<1>1. \A u \in Tasks : Proceeds(u)
  BY StopEffect DEF Proceeds
<1>2. UNCHANGED <<rows, overlapped, apps, passengers>>
  BY DEF ServerStops
<1>3. QED
  BY <1>1, <1>2, SameExtends, ExtendsKnown DEF Base, Calm

LEMMA OtherCodeCalm ==
    ASSUME Base, OtherCode
    PROVE  /\ Calm /\ apps' \in Seq(App) /\ UNCHANGED task
           /\ \A i \in DOMAIN apps' : apps'[i].passport \in passengers'
<1>1. UNCHANGED <<task, rows>> /\ passengers \subseteq passengers'
      /\ overlapped \subseteq overlapped'
  BY DEF OtherCode, RegisterPassenger, CreateApplication, ChangeStatus, SaveResult
<1>2. \A u \in Tasks : Proceeds(u)
  BY <1>1 DEF Proceeds
<1>3. ASSUME NEW p \in passengers, CreateApplication(p)
      PROVE  /\ Extends /\ apps' \in Seq(App)
             /\ \A i \in DOMAIN apps' : apps'[i].passport \in passengers'
  <2>1. PICK a \in App : Grows(a) /\ Extends /\ a.passport \in passengers
    BY <1>3, CreateApplicationEffect
  <2>2. QED
    BY <1>1, <2>1, GrowsKnown DEF Grows
<1>4. ASSUME NEW i \in DOMAIN apps, NEW code \in Codes,
             ChangeStatus(i, code) \/ SaveResult(i, code)
      PROVE  /\ Extends /\ apps' \in Seq(App)
             /\ \A j \in DOMAIN apps' : apps'[j].passport \in passengers'
  <2>1. Extends /\ apps' \in Seq(App) /\ Len(apps') = Len(apps)
    BY <1>4, OtherCodeEffect DEF Rewrites
  <2>2. QED
    BY <1>1, <2>1, ExtendsKnown
<1>5. ASSUME NEW p \in Registered, RegisterPassenger(p)
      PROVE  /\ Extends /\ apps' \in Seq(App)
             /\ \A j \in DOMAIN apps' : apps'[j].passport \in passengers'
  <2>1. UNCHANGED apps
    BY <1>5 DEF RegisterPassenger
  <2>2. QED
    BY <1>1, <2>1, SameExtends, ExtendsKnown DEF Base
<1>6. QED
  BY <1>1, <1>2, <1>3, <1>4, <1>5 DEF Calm, OtherCode

LEMMA UploadCalmElsewhere ==
    ASSUME Base, NEW t \in Tasks,
           (t \in Files /\ Upload(t)) \/ (t \in Entries /\ Submit(t))
    PROVE  /\ PlacedAt(t)' /\ ~InRow(t)' /\ ~InRow(t) /\ OnlyOf(t)
           /\ \A u \in Tasks \ {t} : rows'[u] = rows[u]
           /\ UNCHANGED <<passengers, apps, history, overlapped>>
<1>1. Len(apps) \in Nat
  BY DEF Base, TypeOK
<1>2. UNCHANGED <<passengers, apps, history, overlapped>> /\ ~InRow(t)
  BY DEF Upload, Submit, At, InRow, RowStages
<1>3. ASSUME t \in Files, Upload(t) PROVE PlacedAt(t)' /\ ~InRow(t)'
  <2>1. /\ task'[t].pc = (IF rows'[t] = <<>> THEN "failing" ELSE "total")
        /\ task'[t].n = 1 /\ task'[t].app = 0
    BY <1>3, UploadEffect
  <2>2. QED
    BY <1>1, <1>2, <2>1 DEF PlacedAt, InRow, RowStages
<1>4. ASSUME t \in Entries, Submit(t) PROVE PlacedAt(t)' /\ ~InRow(t)'
  <2>1. task'[t].pc = "find" /\ task'[t].n = 1 /\ task'[t].app = 0 /\ Len(rows'[t]) = 1
    BY <1>4, SubmitEffect
  <2>2. QED
    BY <1>1, <1>2, <2>1 DEF PlacedAt, InRow, RowStages
<1>5. OnlyOf(t) /\ \A u \in Tasks \ {t} : rows'[u] = rows[u]
  BY UploadEffect, SubmitEffect
<1>6. QED
  BY <1>2, <1>3, <1>4, <1>5

LEMMA FindPlaced ==
    ASSUME Base, NEW t \in Tasks, Find(t)
    PROVE  PlacedAt(t)'
<1>1. UNCHANGED <<passengers, apps, rows>> /\ task' \in [Tasks -> Task] /\ OnlyOf(t)
  BY FindEffect DEF Find
<1>2. apps' \in Seq(App) /\ Len(apps) \in Nat /\ Extends /\ rows'[t] = rows[t]
      /\ DOMAIN apps = 1 .. Len(apps)
  BY <1>1, SameExtends DEF Base, TypeOK
<1>3. ASSUME Leaves(t) PROVE PlacedAt(t)'
  BY <1>2, <1>3, LeavesPlaced
<1>4. ASSUME Opens(t) PROVE PlacedAt(t)'
  <2>1. Current(t)' = Current(t) /\ task'[t].n \in 1 .. Len(rows'[t])
    BY <1>1, <1>4 DEF Current, Opens
  <2>2. QED
    BY <1>1, <1>2, <1>4, <2>1 DEF Opens, PlacedAt
<1>5. QED
  BY <1>3, <1>4, FindEffect

LEMMA PlacedStep ==
    ASSUME Base, Next
    PROVE  Placed'
<1>1. ASSUME NEW t \in Tasks, OnlyOf(t), PlacedAt(t)', UNCHANGED <<passengers, apps>>,
             \A u \in Tasks \ {t} : rows'[u] = rows[u]
      PROVE  Placed'
  <2>1. Extends /\ Len(apps') \in Nat
    BY <1>1, SameExtends DEF Base, TypeOK
  <2>2. ASSUME NEW u \in Tasks \ {t} PROVE PlacedAt(u)'
    <3>1. task'[u] = task[u] /\ rows'[u] = rows[u] /\ u \in Tasks
      BY <1>1, <2>2 DEF OnlyOf
    <3>2. QED
      BY <1>1, <2>1, <3>1, KeptPlaced
  <2>3. \A i \in DOMAIN apps' : apps'[i].passport \in passengers'
    BY <1>1 DEF Base, Placed
  <2>4. QED
    BY <1>1, <2>2, <2>3 DEF Placed
<1>2. ASSUME NEW t \in Tasks,
             (t \in Files /\ Upload(t)) \/ (t \in Entries /\ Submit(t))
      PROVE  Placed'
  BY <1>1, <1>2, UploadCalmElsewhere
<1>3. ASSUME NEW t \in Tasks, Find(t) PROVE Placed'
  <2>1. OnlyOf(t) /\ UNCHANGED <<passengers, apps, rows>>
    BY <1>3, FindEffect DEF Find
  <2>2. QED
    BY <1>1, <1>3, <2>1, FindPlaced
<1>4. ASSUME NEW t \in Tasks, RowStep(t) PROVE Placed'
  BY <1>4, RowStepCalm, CalmPlaced
<1>5. ASSUME ServerStops \/ OtherCode PROVE Placed'
  BY <1>5, StopCalm, OtherCodeCalm, CalmPlaced
<1>6. QED
  BY <1>2, <1>3, <1>4, <1>5, StepKinds DEF Tasks
-----------------------------------------------------------------------------
\* A task in a row after a calm step was in that row before it.
LEMMA RowBefore ==
    ASSUME Calm, NEW t \in Tasks, InRow(t)'
    PROVE  /\ InRow(t) /\ Current(t)' = Current(t) /\ task'[t].app = task[t].app
           /\ task'[t].portal = task[t].portal
           /\ task'[t].pc \in {"updatePassenger", "updateApp"}
              => task[t].pc \in {"updatePassenger", "updateApp"}
<1>1. ~Leaves(t)
  BY DEF InRow, Leaves, RowStages
<1>2. task'[t] = task[t] \/ Continues(t)
  BY <1>1 DEF Calm, Proceeds
<1>3. rows' = rows
  BY DEF Calm
<1>4. ASSUME task'[t] = task[t]
      PROVE  InRow(t) /\ Current(t)' = Current(t)
  BY <1>3, <1>4 DEF InRow, Current
<1>5. ASSUME Continues(t)
      PROVE  /\ InRow(t) /\ Current(t)' = Current(t) /\ task'[t].app = task[t].app
             /\ task'[t].portal = task[t].portal
             /\ task'[t].pc \in {"updatePassenger", "updateApp"}
                => task[t].pc = "updatePassenger"
  BY <1>3, <1>5 DEF Continues, Current
<1>6. QED
  BY <1>2, <1>4, <1>5

LEMMA CalmAlone ==
    ASSUME Alone, Calm
    PROVE  Alone'
<1>1. SUFFICES ASSUME NEW t \in Tasks, NEW u \in Tasks, t # u, InRow(t)', InRow(u)',
                      Current(t)'.passport = Current(u)'.passport
               PROVE  Current(t)'.passport \in overlapped'
  BY DEF Alone
<1>2. /\ InRow(t) /\ Current(t)' = Current(t)
      /\ InRow(u) /\ Current(u)' = Current(u)
  BY <1>1, RowBefore
<1>3. Current(t).passport \in overlapped
  BY <1>1, <1>2 DEF Alone
<1>4. QED
  BY <1>2, <1>3 DEF Calm

\* A step of one task that leaves the rows of the others alone.
LEMMA OthersSame ==
    ASSUME NEW t \in Tasks, OnlyOf(t), \A u \in Tasks \ {t} : rows'[u] = rows[u],
           NEW u \in Tasks \ {t}
    PROVE  task'[u] = task[u] /\ InRow(u)' = InRow(u) /\ Current(u)' = Current(u)
BY DEF OnlyOf, InRow, Current

LEMMA AloneStep ==
    ASSUME Base, Alone, Next
    PROVE  Alone'
<1>1. ASSUME NEW t \in Tasks,
             (t \in Files /\ Upload(t)) \/ (t \in Entries /\ Submit(t))
      PROVE  Alone'
  <2>1. /\ ~InRow(t)' /\ OnlyOf(t) /\ UNCHANGED overlapped
        /\ \A u \in Tasks \ {t} : rows'[u] = rows[u]
    BY <1>1, UploadCalmElsewhere
  <2>2. \A u \in Tasks : InRow(u)' => InRow(u) /\ Current(u)' = Current(u)
    BY <2>1, OthersSame
  <2>3. QED
    BY <2>1, <2>2 DEF Alone
<1>2. ASSUME NEW t \in Tasks, Find(t) PROVE Alone'
  <2>1. OnlyOf(t) /\ UNCHANGED rows /\ (Opens(t) \/ Leaves(t))
    BY <1>2, FindEffect DEF Find
  <2>2. /\ OnPassport(Current(t).passport) # {}
           => Current(t).passport \in overlapped'
        /\ overlapped \subseteq overlapped'
    BY <1>2 DEF Find
  <2>3. \A u \in Tasks \ {t} : InRow(u)' = InRow(u) /\ Current(u)' = Current(u)
    BY <2>1, OthersSame
  <2>4. InRow(t)' => Current(t)' = Current(t)
    <3>1. ASSUME Leaves(t) PROVE ~InRow(t)'
      BY <3>1 DEF Leaves, InRow
    <3>2. ASSUME Opens(t) PROVE Current(t)' = Current(t)
      BY <2>1, <3>2 DEF Opens, Current
    <3>3. QED
      BY <2>1, <3>1, <3>2
  <2>5. ASSUME NEW u \in Tasks \ {t}, InRow(t)', InRow(u)',
               Current(t)'.passport = Current(u)'.passport
        PROVE  Current(t)'.passport \in overlapped'
    <3>1. InRow(u) /\ Current(u).passport = Current(t).passport
      BY <2>3, <2>4, <2>5
    <3>2. u \in OnPassport(Current(t).passport)
      BY <3>1 DEF OnPassport
    <3>3. QED
      BY <2>2, <2>4, <2>5, <3>2
  <2>6. ASSUME NEW u \in Tasks \ {t}, NEW v \in Tasks \ {t}, u # v, InRow(u)', InRow(v)',
               Current(u)'.passport = Current(v)'.passport
        PROVE  Current(u)'.passport \in overlapped'
    <3>1. /\ InRow(u) /\ InRow(v) /\ Current(u).passport = Current(v).passport
          /\ Current(u)' = Current(u)
      BY <2>3, <2>6
    <3>2. QED
      BY <2>2, <2>6, <3>1 DEF Alone
  <2>7. QED
    BY <2>5, <2>6 DEF Alone
<1>3. ASSUME NEW t \in Tasks, RowStep(t) PROVE Alone'
  BY <1>3, RowStepCalm, CalmAlone
<1>4. ASSUME ServerStops \/ OtherCode PROVE Alone'
  BY <1>4, StopCalm, OtherCodeCalm, CalmAlone
<1>5. QED
  BY <1>1, <1>2, <1>3, <1>4, StepKinds DEF Tasks
-----------------------------------------------------------------------------
\* The three statements about applications, where no application changes.
LEMMA QuietKeeps ==
    ASSUME Base, LoneInv, UNCHANGED apps, overlapped \subseteq overlapped',
           \A t \in Tasks : InRow(t)' =>
              /\ InRow(t) /\ Current(t)' = Current(t) /\ task'[t].app = task[t].app
              /\ task'[t].portal = task[t].portal
              /\ task'[t].pc \in {"updatePassenger", "updateApp"}
                 => task[t].pc \in {"updatePassenger", "updateApp"}
    PROVE  NoneYet' /\ ReadTrue' /\ LoneTaskKeepsPassport'
<1>1. NoneYet'
  <2>1. SUFFICES ASSUME NEW f \in Files, InRow(f)', task'[f].app = 0,
                        Current(f)'.passport \notin overlapped', NEW i \in DOMAIN apps',
                        apps'[i].passport = Current(f)'.passport
                 PROVE  apps'[i].by \notin Files
    BY DEF NoneYet
  <2>2. /\ InRow(f) /\ task[f].app = 0 /\ Current(f)' = Current(f)
        /\ Current(f).passport \notin overlapped
    BY <2>1 DEF Tasks
  <2>3. QED
    BY <2>1, <2>2 DEF LoneInv, NoneYet
<1>2. ReadTrue'
  <2>1. SUFFICES ASSUME NEW t \in Tasks, task'[t].pc \in {"updatePassenger", "updateApp"},
                        task'[t].app # 0, Current(t)'.passport \notin overlapped'
                 PROVE  task'[t].portal = apps'[task'[t].app].portal
    BY DEF ReadTrue
  <2>2. InRow(t)'
    BY <2>1 DEF InRow, RowStages
  <2>3. QED
    BY <2>1, <2>2 DEF LoneInv, ReadTrue
<1>3. LoneTaskKeepsPassport'
  BY DEF LoneInv, LoneTaskKeepsPassport, OneApplicationUnlessOverlap,
         PortalKeptUnlessOverlap
<1>4. QED
  BY <1>1, <1>2, <1>3

\* A new application that is the first of its passport from a file, or not from
\* a file at all.
LEMMA GrowsKeeps ==
    ASSUME Base, LoneInv, Calm, NEW a \in App, Grows(a), a.portal = a.reported,
           a.by \in Files /\ a.passport \notin overlapped
              => \A i \in DOMAIN apps :
                    apps[i].passport = a.passport => apps[i].by \notin Files,
           a.by \in Files => \A f \in Files :
              InRow(f)' /\ Current(f)'.passport = a.passport
              => a.passport \in overlapped
    PROVE  NoneYet' /\ ReadTrue' /\ LoneTaskKeepsPassport'
<1> DEFINE m == Len(apps) + 1
<1>1. /\ Len(apps) \in Nat /\ DOMAIN apps = 1 .. Len(apps)
      /\ DOMAIN apps' = 1 .. m /\ apps'[m] = a
      /\ \A i \in DOMAIN apps : apps'[i] = apps[i]
  BY DEF Base, TypeOK, Grows
<1>2. DOMAIN apps' = DOMAIN apps \cup {m} /\ overlapped \subseteq overlapped'
  BY <1>1 DEF Calm
<1> HIDE DEF m
<1>3. NoneYet'
  <2>1. SUFFICES ASSUME NEW f \in Files, InRow(f)', task'[f].app = 0,
                        Current(f)'.passport \notin overlapped', NEW i \in DOMAIN apps',
                        apps'[i].passport = Current(f)'.passport
                 PROVE  apps'[i].by \notin Files
    BY DEF NoneYet
  <2>2. /\ InRow(f) /\ task[f].app = 0 /\ Current(f)' = Current(f)
        /\ Current(f).passport \notin overlapped
    BY <1>2, <2>1, RowBefore DEF Tasks
  <2>3. CASE i = m
    BY <1>1, <1>2, <2>1, <2>2, <2>3
  <2>4. CASE i \in DOMAIN apps
    BY <1>1, <2>1, <2>2, <2>4 DEF LoneInv, NoneYet
  <2>5. QED
    BY <1>2, <2>3, <2>4
<1>4. ReadTrue'
  <2>1. SUFFICES ASSUME NEW t \in Tasks, task'[t].pc \in {"updatePassenger", "updateApp"},
                        task'[t].app # 0, Current(t)'.passport \notin overlapped'
                 PROVE  task'[t].portal = apps'[task'[t].app].portal
    BY DEF ReadTrue
  <2>2. InRow(t)'
    BY <2>1 DEF InRow, RowStages
  <2>3. /\ Current(t)' = Current(t) /\ task'[t].app = task[t].app
        /\ task'[t].portal = task[t].portal
        /\ task[t].pc \in {"updatePassenger", "updateApp"}
    BY <2>1, <2>2, RowBefore
  <2>4. task[t].app \in 0 .. Len(apps)
    BY DEF Base, Placed, PlacedAt
  <2>5. task[t].app \in DOMAIN apps
    BY <1>1, <2>1, <2>3, <2>4
  <2>6. task[t].portal = apps[task[t].app].portal
    BY <1>2, <2>1, <2>3 DEF LoneInv, ReadTrue
  <2>7. QED
    BY <1>1, <2>3, <2>5, <2>6
<1>5. OneApplicationUnlessOverlap'
  <2>1. SUFFICES ASSUME NEW i \in DOMAIN apps', NEW k \in DOMAIN apps',
                        apps'[i].by \in Files, apps'[k].by \in Files,
                        apps'[i].passport = apps'[k].passport,
                        apps'[i].passport \notin overlapped'
                 PROVE  i = k
    BY DEF OneApplicationUnlessOverlap
  <2>2. CASE i \in DOMAIN apps /\ k \in DOMAIN apps
    BY <1>1, <1>2, <2>1, <2>2 DEF LoneInv, LoneTaskKeepsPassport, OneApplicationUnlessOverlap
  <2>3. CASE i = m /\ k \in DOMAIN apps
    BY <1>1, <1>2, <2>1, <2>3
  <2>4. CASE i \in DOMAIN apps /\ k = m
    BY <1>1, <1>2, <2>1, <2>4
  <2>5. QED
    BY <1>2, <2>2, <2>3, <2>4
<1>6. PortalKeptUnlessOverlap'
  <2>1. SUFFICES ASSUME NEW i \in DOMAIN apps', apps'[i].passport \notin overlapped'
                 PROVE  apps'[i].portal = apps'[i].reported
    BY DEF PortalKeptUnlessOverlap
  <2>2. CASE i = m
    BY <1>1, <2>2
  <2>3. CASE i \in DOMAIN apps
    BY <1>1, <1>2, <2>1, <2>3 DEF LoneInv, LoneTaskKeepsPassport, PortalKeptUnlessOverlap
  <2>4. QED
    BY <1>2, <2>2, <2>3
<1>7. QED
  BY <1>3, <1>4, <1>5, <1>6 DEF LoneTaskKeepsPassport

\* An application that is rewritten: its portal status stays reported, and whoever
\* has read another one is not alone.
LEMMA RewritesKeeps ==
    ASSUME Base, LoneInv, Calm, NEW i \in DOMAIN apps, Rewrites(i),
           apps[i].passport \notin overlapped' => apps'[i].portal = apps'[i].reported,
           apps'[i].portal = apps[i].portal \/
              \A t \in Tasks :
                 /\ task'[t].pc \in {"updatePassenger", "updateApp"}
                 /\ Current(t)'.passport = apps[i].passport
                 => apps[i].passport \in overlapped'
    PROVE  NoneYet' /\ ReadTrue' /\ LoneTaskKeepsPassport'
<1>1. /\ DOMAIN apps' = DOMAIN apps /\ overlapped \subseteq overlapped'
      /\ DOMAIN apps = 1 .. Len(apps) /\ Len(apps) \in Nat
      /\ \A j \in DOMAIN apps \ {i} : apps'[j] = apps[j]
      /\ \A j \in DOMAIN apps : /\ apps'[j].passport = apps[j].passport
                                /\ apps'[j].by = apps[j].by
  BY DEF Rewrites, Calm, Base, TypeOK, Extends
<1>2. NoneYet'
  <2>1. SUFFICES ASSUME NEW f \in Files, InRow(f)', task'[f].app = 0,
                        Current(f)'.passport \notin overlapped', NEW j \in DOMAIN apps',
                        apps'[j].passport = Current(f)'.passport
                 PROVE  apps'[j].by \notin Files
    BY DEF NoneYet
  <2>2. /\ InRow(f) /\ task[f].app = 0 /\ Current(f)' = Current(f)
        /\ Current(f).passport \notin overlapped
    BY <1>1, <2>1, RowBefore DEF Tasks
  <2>3. QED
    BY <1>1, <2>1, <2>2 DEF LoneInv, NoneYet
<1>3. ReadTrue'
  <2>1. SUFFICES ASSUME NEW t \in Tasks, task'[t].pc \in {"updatePassenger", "updateApp"},
                        task'[t].app # 0, Current(t)'.passport \notin overlapped'
                 PROVE  task'[t].portal = apps'[task'[t].app].portal
    BY DEF ReadTrue
  <2>2. InRow(t)'
    BY <2>1 DEF InRow, RowStages
  <2>3. /\ InRow(t) /\ Current(t)' = Current(t) /\ task'[t].app = task[t].app
        /\ task'[t].portal = task[t].portal
        /\ task[t].pc \in {"updatePassenger", "updateApp"}
    BY <2>1, <2>2, RowBefore
  <2>4. task[t].app \in DOMAIN apps /\ apps[task[t].app].passport = Current(t).passport
    BY <1>1, <2>1, <2>3 DEF Base, Placed, PlacedAt
  <2>5. task[t].portal = apps[task[t].app].portal
    BY <1>1, <2>1, <2>3 DEF LoneInv, ReadTrue
  <2>6. apps'[task[t].app].portal = apps[task[t].app].portal
    BY <1>1, <2>1, <2>3, <2>4
  <2>7. QED
    BY <2>3, <2>5, <2>6
<1>4. OneApplicationUnlessOverlap'
  BY <1>1 DEF LoneInv, LoneTaskKeepsPassport, OneApplicationUnlessOverlap
<1>5. PortalKeptUnlessOverlap'
  BY <1>1 DEF LoneInv, LoneTaskKeepsPassport, PortalKeptUnlessOverlap
<1>6. QED
  BY <1>2, <1>3, <1>4, <1>5 DEF LoneTaskKeepsPassport

LEMMA UploadLone ==
    ASSUME Base, LoneInv, NEW t \in Tasks,
           (t \in Files /\ Upload(t)) \/ (t \in Entries /\ Submit(t))
    PROVE  NoneYet' /\ ReadTrue' /\ LoneTaskKeepsPassport'
<1>1. /\ ~InRow(t)' /\ OnlyOf(t) /\ UNCHANGED <<apps, overlapped>>
      /\ \A u \in Tasks \ {t} : rows'[u] = rows[u]
  BY UploadCalmElsewhere
<1>2. \A u \in Tasks : InRow(u)' =>
         task'[u] = task[u] /\ InRow(u) /\ Current(u)' = Current(u)
  BY <1>1, OthersSame
<1>3. QED
  BY <1>1, <1>2, QuietKeeps

LEMMA FindLone ==
    ASSUME Base, LoneInv, NEW t \in Tasks, Find(t)
    PROVE  NoneYet' /\ ReadTrue' /\ LoneTaskKeepsPassport'
<1>1. OnlyOf(t) /\ UNCHANGED <<rows, apps>> /\ (Opens(t) \/ Leaves(t))
  BY FindEffect DEF Find
<1>2. overlapped \subseteq overlapped'
  BY DEF Find
<1>3. \A u \in Tasks \ {t} : /\ task'[u] = task[u] /\ InRow(u)' = InRow(u)
                             /\ Current(u)' = Current(u)
  BY <1>1, OthersSame
<1>4. ASSUME Leaves(t) PROVE NoneYet' /\ ReadTrue' /\ LoneTaskKeepsPassport'
  <2>1. ~InRow(t)'
    BY <1>4 DEF Leaves, InRow
  <2>2. \A u \in Tasks : InRow(u)' =>
           task'[u] = task[u] /\ InRow(u) /\ Current(u)' = Current(u)
    BY <1>3, <2>1
  <2>3. QED
    BY <1>1, <1>2, <2>2, QuietKeeps
<1>5. ASSUME Opens(t) PROVE NoneYet' /\ ReadTrue' /\ LoneTaskKeepsPassport'
  <2>1. Current(t)' = Current(t)
    BY <1>1, <1>5 DEF Opens, Current
  <2>2. NoneYet'
    <3>1. SUFFICES ASSUME NEW f \in Files, InRow(f)', task'[f].app = 0,
                          Current(f)'.passport \notin overlapped', NEW i \in DOMAIN apps',
                          apps'[i].passport = Current(f)'.passport
                   PROVE  apps'[i].by \notin Files
      BY DEF NoneYet
    <3>2. CASE f # t
      <4>1. /\ task'[f] = task[f] /\ InRow(f) /\ Current(f)' = Current(f)
        BY <1>3, <3>1, <3>2 DEF Tasks
      <4>2. QED
        BY <1>1, <1>2, <3>1, <4>1 DEF LoneInv, NoneYet
    <3>3. CASE f = t
      <4>1. AppsOf(Current(t).passport) = {} \/ Current(t).passport \notin passengers
        BY <1>5, <3>1, <3>3 DEF Opens
      <4>2. i \in DOMAIN apps /\ apps[i].passport = Current(t).passport
        BY <1>1, <2>1, <3>1, <3>3
      <4>3. i \in AppsOf(Current(t).passport) /\ Current(t).passport \in passengers
        BY <4>2 DEF AppsOf, Base, Placed
      <4>4. QED
        BY <4>1, <4>3
    <3>4. QED
      BY <3>2, <3>3
  <2>3. ReadTrue'
    <3>1. SUFFICES ASSUME NEW u \in Tasks, task'[u].pc \in {"updatePassenger", "updateApp"},
                          task'[u].app # 0, Current(u)'.passport \notin overlapped'
                   PROVE  task'[u].portal = apps'[task'[u].app].portal
      BY DEF ReadTrue
    <3>2. CASE u # t
      <4>1. task'[u] = task[u] /\ Current(u)' = Current(u)
        BY <1>3, <3>1, <3>2
      <4>2. QED
        BY <1>1, <1>2, <3>1, <4>1 DEF LoneInv, ReadTrue
    <3>3. CASE u = t
      BY <1>1, <1>5, <3>1, <3>3 DEF Opens
    <3>4. QED
      BY <3>2, <3>3
  <2>4. LoneTaskKeepsPassport'
    BY <1>1, <1>2 DEF LoneInv, LoneTaskKeepsPassport, OneApplicationUnlessOverlap,
                      PortalKeptUnlessOverlap
  <2>5. QED
    BY <2>2, <2>3, <2>4
<1>6. QED
  BY <1>1, <1>4, <1>5

LEMMA CreateAppLone ==
    ASSUME Base, LoneInv, NEW f \in Files, CreateApp(f)
    PROVE  NoneYet' /\ ReadTrue' /\ LoneTaskKeepsPassport'
<1>1. PICK a \in App : /\ Grows(a) /\ a.by = f /\ a.portal = a.reported
                       /\ a.passport = Current(f).passport
  BY CreateAppEffect
<1>2. f \in Tasks /\ task[f].pc = "createApp" /\ InRow(f) /\ task[f].pc \in RowStages
  BY DEF CreateApp, At, InRow, RowStages, Tasks
<1>3. Calm
  BY <1>2, RowStepCalm DEF RowStep
<1>4. ~InRow(f)'
  <2>1. Leaves(f)
    BY <1>2, CountEffect DEF CreateApp
  <2>2. QED
    BY <2>1 DEF Leaves, InRow
<1>5. task[f].app = 0
  BY <1>2 DEF Base, Placed, PlacedAt
<1>6. a.passport \notin overlapped =>
         \A i \in DOMAIN apps : apps[i].passport = a.passport => apps[i].by \notin Files
  BY <1>1, <1>2, <1>5 DEF LoneInv, NoneYet
<1>7. ASSUME NEW g \in Files, InRow(g)', Current(g)'.passport = a.passport
      PROVE  a.passport \in overlapped
  <2>1. g \in Tasks /\ g # f /\ InRow(g) /\ Current(g)' = Current(g)
    BY <1>3, <1>4, <1>7, RowBefore DEF Tasks
  <2>2. QED
    BY <1>1, <1>2, <1>7, <2>1 DEF LoneInv, Alone
<1>8. QED
  BY <1>1, <1>3, <1>6, <1>7, GrowsKeeps

LEMMA UpdateAppLone ==
    ASSUME Base, LoneInv, NEW t \in Tasks, UpdateApp(t)
    PROVE  NoneYet' /\ ReadTrue' /\ LoneTaskKeepsPassport'
<1> DEFINE i == task[t].app
           status == NormalStatus(Current(t))
<1>1. /\ i \in DOMAIN apps /\ Rewrites(i)
      /\ apps[i].passport = Current(t).passport
      /\ IF status = Unset
         THEN /\ apps'[i].portal = task[t].portal
              /\ apps'[i].reported = apps[i].reported
         ELSE apps'[i].portal = status /\ apps'[i].reported = status
  BY UpdateAppEffect
<1>2. task[t].pc = "updateApp" /\ InRow(t) /\ task[t].pc \in RowStages
  BY DEF UpdateApp, At, InRow, RowStages
<1>3. Calm /\ UNCHANGED overlapped
  BY RowStepCalm DEF RowStep
<1>4. i # 0
  BY <1>2 DEF Base, Placed, PlacedAt
<1>5. ASSUME apps[i].passport \notin overlapped'
      PROVE  apps'[i].portal = apps'[i].reported
  <2>1. task[t].portal = apps[i].portal
    BY <1>1, <1>2, <1>3, <1>4, <1>5 DEF LoneInv, ReadTrue
  <2>2. apps[i].portal = apps[i].reported
    BY <1>1, <1>3, <1>5 DEF LoneInv, LoneTaskKeepsPassport, PortalKeptUnlessOverlap
  <2>3. QED
    BY <1>1, <2>1, <2>2
<1>6. task'[t].pc \notin {"updatePassenger", "updateApp"}
  <2>1. ASSUME TaskBecomes(t, AsMatched(t)) PROVE Leaves(t)
    BY <1>2, <2>1, CountEffect
  <2>2. ASSUME Goto(t, "history") PROVE task'[t].pc = "history"
    <3>1. "history" \in Stages
      BY DEF Stages, RowStages
    <3>2. QED
      BY <2>2, <3>1, GotoEffect DEF Base
  <2>3. QED
    BY <2>1, <2>2 DEF UpdateApp, Leaves, RowStages
<1>7. ASSUME NEW u \in Tasks, task'[u].pc \in {"updatePassenger", "updateApp"},
             Current(u)'.passport = apps[i].passport
      PROVE  apps[i].passport \in overlapped'
  <2>1. InRow(u)' /\ u # t
    BY <1>6, <1>7 DEF InRow, RowStages
  <2>2. InRow(u) /\ Current(u)' = Current(u)
    BY <1>3, <2>1, RowBefore
  <2>3. QED
    BY <1>1, <1>2, <1>3, <1>7, <2>1, <2>2 DEF LoneInv, Alone
<1> HIDE DEF i, status
<1>8. QED
  BY <1>1, <1>3, <1>5, <1>7, RewritesKeeps

LEMMA OtherCodeLone ==
    ASSUME Base, LoneInv, OtherCode
    PROVE  NoneYet' /\ ReadTrue' /\ LoneTaskKeepsPassport'
<1>1. Calm /\ UNCHANGED <<task, rows>> /\ overlapped \subseteq overlapped'
  BY OtherCodeCalm DEF Calm
<1>2. ASSUME NEW p \in Registered, RegisterPassenger(p)
      PROVE  NoneYet' /\ ReadTrue' /\ LoneTaskKeepsPassport'
  <2>1. UNCHANGED apps
    BY <1>2 DEF RegisterPassenger
  <2>2. QED
    BY <1>1, <2>1, RowBefore, QuietKeeps
<1>3. ASSUME NEW p \in passengers, CreateApplication(p)
      PROVE  NoneYet' /\ ReadTrue' /\ LoneTaskKeepsPassport'
  <2>1. PICK a \in App : Grows(a) /\ a.by \notin Files /\ a.portal = a.reported
    BY <1>3, CreateApplicationEffect
  <2>2. QED
    BY <1>1, <2>1, GrowsKeeps
<1>4. ASSUME NEW i \in DOMAIN apps, NEW code \in Codes, ChangeStatus(i, code)
      PROVE  NoneYet' /\ ReadTrue' /\ LoneTaskKeepsPassport'
  <2>1. /\ Rewrites(i) /\ apps'[i].portal = apps[i].portal
        /\ apps'[i].reported = apps[i].reported
    BY <1>4, OtherCodeEffect
  <2>2. apps[i].passport \notin overlapped' => apps'[i].portal = apps'[i].reported
    BY <1>1, <2>1 DEF LoneInv, LoneTaskKeepsPassport, PortalKeptUnlessOverlap
  <2>3. QED
    BY <1>1, <2>1, <2>2, RewritesKeeps
<1>5. ASSUME NEW i \in DOMAIN apps, NEW code \in Codes, SaveResult(i, code)
      PROVE  NoneYet' /\ ReadTrue' /\ LoneTaskKeepsPassport'
  <2>1. Rewrites(i) /\ apps'[i].portal = apps'[i].reported
    BY <1>5, OtherCodeEffect
  <2>2. ASSUME NEW t \in Tasks, task'[t].pc \in {"updatePassenger", "updateApp"},
               Current(t)'.passport = apps[i].passport
        PROVE  apps[i].passport \in overlapped'
    <3>1. InRow(t) /\ Current(t) = Current(t)'
      BY <1>1, <2>2 DEF InRow, RowStages, Current
    <3>2. t \in OnPassport(apps[i].passport)
      BY <2>2, <3>1 DEF OnPassport
    <3>3. QED
      BY <1>5, <3>2 DEF SaveResult
  <2>3. QED
    BY <1>1, <2>1, <2>2, RewritesKeeps
<1>6. QED
  BY <1>2, <1>3, <1>4, <1>5 DEF OtherCode

LEMMA LoneStep ==
    ASSUME Base, LoneInv, Next
    PROVE  LoneInv'
<1>1. Alone'
  BY AloneStep DEF LoneInv
<1>2. NoneYet' /\ ReadTrue' /\ LoneTaskKeepsPassport'
  <2>1. ASSUME NEW t \in Tasks, RowStep(t)
        PROVE  NoneYet' /\ ReadTrue' /\ LoneTaskKeepsPassport'
    <3>1. ASSUME UNCHANGED apps
          PROVE  NoneYet' /\ ReadTrue' /\ LoneTaskKeepsPassport'
      <4>1. Calm /\ overlapped \subseteq overlapped'
        BY <2>1, RowStepCalm
      <4>2. QED
        BY <3>1, <4>1, RowBefore, QuietKeeps
    <3>2. (CreateApp(t) /\ t \in Files) \/ UpdateApp(t) \/ UNCHANGED apps
      BY <2>1 DEF RowStep, SetTotal, CreatePassenger, Finalize, Failing, StartCheck,
                  UpdatePassenger, WriteHistory, QueryFails
    <3>3. QED
      BY <3>1, <3>2, CreateAppLone, UpdateAppLone
  <2>2. ASSUME ServerStops
        PROVE  NoneYet' /\ ReadTrue' /\ LoneTaskKeepsPassport'
    <3>1. Calm /\ UNCHANGED <<apps, overlapped>>
      BY <2>2, StopCalm DEF ServerStops
    <3>2. QED
      BY <3>1, RowBefore, QuietKeeps
  <2>3. QED
    BY <2>1, <2>2, UploadLone, FindLone, OtherCodeLone, StepKinds DEF Tasks
<1>3. QED
  BY <1>1, <1>2 DEF LoneInv
-----------------------------------------------------------------------------
\* What has to go wrong before an import is left PROCESSING.
SettledAt(f) ==
    /\ task[f].pc # "job"
    /\ task[f].pc = "none" => imports[f].status # "PROCESSING"
    /\ task[f].pc = "failing" => rows[f] = <<>> \/ faults >= 1
    /\ imports[f].status = "PROCESSING" /\ ~Running(f)
       => stopped \/ faults >= IF rows[f] = <<>> THEN 1 ELSE 2

Settled == \A f \in Files : SettledAt(f)

LEMMA SettledKept ==
    ASSUME NEW f \in Files, SettledAt(f), task'[f].pc = task[f].pc,
           imports'[f] = imports[f], rows'[f] = rows[f],
           faults \in Nat, faults' \in Nat, faults <= faults', stopped => stopped'
    PROVE  SettledAt(f)'
BY DEF SettledAt, Running

LEMMA SettledElsewhere ==
    ASSUME NEW f \in Files, task'[f].pc \notin {"none", "failing", "job"},
           \/ task'[f].pc # "over"
           \/ imports'[f].status # "PROCESSING" \/ stopped'
    PROVE  SettledAt(f)'
BY DEF SettledAt, Running

\* Where a step of a row leaves a file.
LEMMA RowStepSettled ==
    ASSUME Base, NEW f \in Files, SettledAt(f), RowStep(f),
           faults \in Nat, faults' \in Nat
    PROVE  SettledAt(f)'
<1>1. f \in Tasks /\ f \notin Entries
  BY ImportsAssumption DEF Tasks
<1>2. Moved(f)
  BY <1>1, RowStepMoves
<1>3. ASSUME task'[f].pc \in RowStages \cup {"finalize"} PROVE SettledAt(f)'
  BY <1>3, SettledElsewhere DEF RowStages
<1>4. ASSUME task[f].pc \in RowStages,
             \/ TaskBecomes(f, AsNew(f)) \/ TaskBecomes(f, AsMatched(f))
             \/ TaskBecomes(f, AsMismatched(f)) \/ TaskBecomes(f, AsError(f))
      PROVE  SettledAt(f)'
  <2>1. CountedSomehow(f)
    BY <1>1, <1>4, CountEffect
  <2>2. task'[f].pc \in {"find", "finalize"}
    BY <2>1 DEF CountedSomehow, Counted
  <2>3. QED
    BY <1>3, <2>2 DEF RowStages
<1>5. ASSUME NEW pc \in {"find", "createApp", "updateApp", "history"}, Goto(f, pc)
      PROVE  SettledAt(f)'
  <2>1. task'[f].pc = pc
    BY <1>1, <1>5, GotoEffect DEF Base, Stages, RowStages
  <2>2. QED
    BY <1>3, <1>5, <2>1 DEF RowStages
<1>6. ASSUME Finalize(f) \/ Failing(f) PROVE SettledAt(f)'
  <2>1. task'[f].pc = "over"
    BY <1>1, <1>6, EndEffect DEF Finalize, Failing, Base
  <2>2. imports'[f].status # "PROCESSING"
    <3>1. ASSUME Failing(f) PROVE imports'[f].status = "FAILED"
      BY <3>1, ImportFields DEF Failing, Base, TypeOK, Import
    <3>2. QED
      BY <1>6, <3>1, FinalizeEffect
  <2>3. QED
    BY <2>1, <2>2, SettledElsewhere
<1>7. ASSUME QueryFails(f) PROVE SettledAt(f)'
  <2>1. UNCHANGED <<imports, rows, stopped>> /\ faults' = faults + 1
    BY <1>7 DEF QueryFails
  <2>2. CASE task[f].pc \in RowStages
    BY <1>1, <1>4, <1>7, <2>2 DEF QueryFails
  <2>3. CASE task[f].pc \in {"total", "finalize"}
    <3>1. Goto(f, "failing") /\ "failing" \in Stages
      BY <1>7, <2>3 DEF QueryFails, Caught, RowStages, Stages
    <3>2. task'[f].pc = "failing"
      BY <1>1, <3>1, GotoEffect DEF Base
    <3>3. QED
      BY <2>1, <3>2 DEF SettledAt, Running
  <2>4. CASE task[f].pc = "failing"
    <3>1. End(f)
      BY <1>7, <2>4 DEF QueryFails, Caught, RowStages
    <3>2. task'[f].pc = "over"
      BY <1>1, <3>1, EndEffect DEF Base
    <3>3. rows[f] = <<>> \/ faults >= 1
      BY <2>4 DEF SettledAt
    <3>4. QED
      BY <2>1, <3>2, <3>3 DEF SettledAt, Running
  <2>5. QED
    BY <1>7, <2>2, <2>3, <2>4 DEF QueryFails, Queries, SettledAt
<1>8. ASSUME SetTotal(f) PROVE SettledAt(f)'
  BY <1>5, <1>8 DEF SetTotal
<1>9. ASSUME CreatePassenger(f) \/ CreateApp(f) PROVE SettledAt(f)'
  BY <1>4, <1>5, <1>9 DEF CreatePassenger, CreateApp, At, RowStages
<1>10. ASSUME UpdatePassenger(f) \/ UpdateApp(f) \/ WriteHistory(f)
       PROVE  SettledAt(f)'
  BY <1>4, <1>5, <1>10 DEF UpdatePassenger, UpdateApp, WriteHistory, At, RowStages
<1>11. QED
  BY <1>1, <1>6, <1>7, <1>8, <1>9, <1>10 DEF RowStep

\* What a step changes of a file that it is not a step of.
NotOf(f) == /\ task'[f] = task[f] /\ imports'[f] = imports[f] /\ rows'[f] = rows[f]

LEMMA StepOfOther ==
    ASSUME Base, NEW f \in Files, NEW t \in Tasks, t # f,
           \/ t \in Files /\ Upload(t)
           \/ t \in Entries /\ Submit(t)
           \/ Find(t) \/ RowStep(t)
    PROVE  NotOf(f) /\ (faults' = faults \/ QueryFails(t)) /\ UNCHANGED stopped
<1>1. f \in Tasks /\ f \in Tasks \ {t}
  BY DEF Tasks
<1>2. OnlyOf(t)
  BY UploadEffect, SubmitEffect, FindEffect, RowStepMoves DEF Moved
<1>3. task'[f] = task[f]
  BY <1>1, <1>2 DEF OnlyOf
<1>4. ASSUME t \in Files /\ Upload(t) PROVE rows'[f] = rows[f]
  BY <1>1, <1>4, UploadEffect
<1>5. ASSUME t \in Entries /\ Submit(t) PROVE rows'[f] = rows[f]
  BY <1>1, <1>5, SubmitEffect
<1>6. rows'[f] = rows[f]
  BY <1>4, <1>5 DEF Find, RowStep, SetTotal, CreatePassenger, CreateApp, Finalize,
                    Failing, StartCheck, UpdatePassenger, UpdateApp, WriteHistory,
                    QueryFails
<1>7. imports'[f] = imports[f]
  BY <1>1 DEF Base, TypeOK, Upload, Submit, Find, RowStep, SetTotal, CreatePassenger,
              CreateApp, Finalize, Failing, StartCheck, UpdatePassenger, UpdateApp,
              WriteHistory, QueryFails
<1>8. (faults' = faults \/ QueryFails(t)) /\ UNCHANGED stopped
  BY DEF Upload, Submit, Find, RowStep, SetTotal, CreatePassenger,
         CreateApp, Finalize, Failing, StartCheck, UpdatePassenger, UpdateApp,
         WriteHistory, QueryFails
<1>9. QED
  BY <1>3, <1>6, <1>7, <1>8 DEF NotOf

LEMMA SettledStep ==
    ASSUME Base, Settled, Next
    PROVE  Settled'
<1>1. faults \in Nat /\ faults' \in Nat
  <2>1. MaxFaults \in Nat /\ faults \in 0 .. MaxFaults /\ faults' \in 0 .. MaxFaults
    BY TypeStep, ImportsAssumption DEF Base, TypeOK
  <2>2. QED
    BY <2>1
<1>2. SUFFICES ASSUME NEW f \in Files PROVE SettledAt(f)'
  BY DEF Settled
<1>3. SettledAt(f) /\ f \in Tasks
  BY DEF Settled, Tasks
<1>4. ASSUME NEW t \in Tasks, t # f,
             \/ t \in Files /\ Upload(t)
             \/ t \in Entries /\ Submit(t)
             \/ Find(t) \/ RowStep(t)
      PROVE  SettledAt(f)'
  <2>1. NotOf(f) /\ (faults' = faults \/ QueryFails(t)) /\ UNCHANGED stopped
    BY <1>4, StepOfOther
  <2>2. faults <= faults'
    BY <1>1, <2>1 DEF QueryFails
  <2>3. QED
    BY <1>1, <1>3, <2>1, <2>2, SettledKept DEF NotOf
<1>5. ASSUME Upload(f) PROVE SettledAt(f)'
  <2>1. task'[f].pc = (IF rows'[f] = <<>> THEN "failing" ELSE "total")
    BY <1>5, UploadEffect
  <2>2. QED
    BY <2>1 DEF SettledAt, Running
<1>6. ASSUME Find(f) PROVE SettledAt(f)'
  <2>1. InRow(f)'
    BY <1>3, <1>6, FindEffect
  <2>2. QED
    BY <2>1, SettledElsewhere DEF InRow, RowStages
<1>7. ASSUME RowStep(f) PROVE SettledAt(f)'
  BY <1>1, <1>3, <1>7, RowStepSettled
<1>8. ASSUME ServerStops PROVE SettledAt(f)'
  <2>1. /\ IF Running(f) THEN task'[f].pc = "over" ELSE task'[f] = task[f]
        /\ UNCHANGED <<imports, rows>> /\ stopped' = TRUE /\ faults' = faults + 1
    BY <1>3, <1>8, StopEffect DEF ServerStops
  <2>2. CASE Running(f)
    BY <2>1, <2>2, SettledElsewhere
  <2>3. CASE ~Running(f)
    BY <1>1, <1>3, <2>1, <2>3, SettledKept
  <2>4. QED
    BY <2>2, <2>3
<1>9. ASSUME OtherCode PROVE SettledAt(f)'
  <2>1. UNCHANGED <<task, imports, rows, faults, stopped>>
    BY <1>9 DEF OtherCode, RegisterPassenger, CreateApplication, ChangeStatus, SaveResult
  <2>2. QED
    BY <1>1, <1>3, <2>1, SettledKept
<1>10. Files \cap Entries = {}
  BY ImportsAssumption
<1>11. QED
  BY <1>4, <1>5, <1>6, <1>7, <1>8, <1>9, <1>10, StepKinds DEF Tasks
-----------------------------------------------------------------------------
\* What a file has created and logged, and the counts of its task so far.
Created(f) == {i \in DOMAIN apps : apps[i].by = f}
Logged(f) == {h \in history : h.by = f}

Tallied(f) ==
    /\ task[f].n = task[f].processed + task[f].errors + 1
    /\ task[f].processed = task[f].matched + task[f].mismatched + task[f].new
    /\ task[f].new = Cardinality(Created(f))
    /\ task[f].mismatched = Cardinality(Logged(f))
    /\ \A h \in Logged(f) : h.row < task[f].n

Covered(f) ==
    /\ imports[f].total = Len(rows[f])
    /\ imports[f].total = imports[f].processed + imports[f].errors
    /\ imports[f].processed = imports[f].matched + imports[f].mismatched + imports[f].new
    /\ imports[f].new = Cardinality(Created(f))
    /\ imports[f].mismatched = Cardinality(Logged(f))

Working == RowStages \cup {"finalize"}

LedgerAt(f) ==
    /\ IsFiniteSet(Logged(f))
    /\ task[f].pc \in {"none", "total"} \cup Working => Tallied(f)
    /\ task[f].pc \in Working => imports[f].total = Len(rows[f])
    /\ task[f].pc = "finalize" => task[f].n = Len(rows[f]) + 1
    /\ imports[f].status = "COMPLETED" => task[f].pc = "over" /\ Covered(f)

Ledger == \A f \in Files : LedgerAt(f)

SameRecords(f) == Created(f)' = Created(f) /\ Logged(f)' = Logged(f)

LEMMA LedgerKept ==
    ASSUME NEW f \in Files, LedgerAt(f), NotOf(f), SameRecords(f)
    PROVE  LedgerAt(f)'
BY DEF LedgerAt, NotOf, SameRecords, Tallied, Covered

\* A file goes on with the row it is in.
LEMMA LedgerGoesOn ==
    ASSUME NEW f \in Files, LedgerAt(f), SameCounts(f), SameRecords(f),
           task[f].pc \in {"none", "total"} \cup RowStages,
           task'[f].pc # "over", task'[f].pc # "finalize",
           imports'[f].status # "COMPLETED",
           task'[f].pc \in RowStages => imports'[f].total = Len(rows'[f])
    PROVE  LedgerAt(f)'
BY DEF LedgerAt, SameCounts, SameRecords, Tallied, Working

\* A file is done without having completed.
LEMMA LedgerStops ==
    ASSUME NEW f \in Files, LedgerAt(f), SameRecords(f),
           task'[f].pc \in {"over", "failing"}, imports'[f].status # "COMPLETED"
    PROVE  LedgerAt(f)'
BY DEF LedgerAt, SameRecords, Working, RowStages

LEMMA Sums ==
    ASSUME NEW n \in Nat, NEW p \in Nat, NEW m \in Nat, NEW d \in Nat, NEW w \in Nat,
           NEW e \in Nat, n = p + e + 1, p = m + d + w,
           NEW dp \in Nat, NEW dm \in Nat, NEW dd \in Nat, NEW dn \in Nat, NEW de \in Nat,
           dp + de = 1, dp = dm + dd + dn
    PROVE  n + 1 = (p + dp) + (e + de) + 1 /\ p + dp = (m + dm) + (d + dd) + (w + dn)
OBVIOUS

\* A file is done with a row: what it created and logged is what it counts.
LEMMA LedgerCounts ==
    ASSUME Base, NEW f \in Files, LedgerAt(f), task[f].pc \in RowStages,
           UNCHANGED <<imports, rows>>,
           NEW dp \in Nat, NEW dm \in Nat, NEW dd \in Nat, NEW dn \in Nat, NEW de \in Nat,
           dp + de = 1, dp = dm + dd + dn, Counted(f, dp, dm, dd, dn, de),
           Cardinality(Created(f)') = Cardinality(Created(f)) + dn,
           Cardinality(Logged(f)') = Cardinality(Logged(f)) + dd,
           IsFiniteSet(Logged(f)'),
           \A h \in Logged(f)' : h \in Logged(f) \/ h.row = task[f].n
    PROVE  LedgerAt(f)'
<1>1. /\ f \in Tasks /\ task[f] \in Task /\ Len(rows[f]) \in Nat
      /\ task[f].n \in 1 .. Len(rows[f])
  BY RowsTyped DEF Base, Placed, PlacedAt, Tasks
<1>2. /\ task[f].n \in Nat /\ task[f].processed \in Nat /\ task[f].matched \in Nat
      /\ task[f].mismatched \in Nat /\ task[f].new \in Nat /\ task[f].errors \in Nat
  BY <1>1 DEF Task
<1>3. Tallied(f) /\ imports[f].total = Len(rows[f]) /\ imports[f].status # "COMPLETED"
  BY DEF LedgerAt, Working, RowStages
<1>4. history \subseteq [app: Nat, by: Tasks, row: Nat, old: Statuses, new: Statuses]
  BY DEF Base, TypeOK
<1>5. \A h \in Logged(f) : h.row \in Nat /\ h.row < task[f].n
  BY <1>3, <1>4 DEF Logged, Tallied
<1>6. Tallied(f)'
  <2>1. /\ task'[f].n = task'[f].processed + task'[f].errors + 1
        /\ task'[f].processed = task'[f].matched + task'[f].mismatched + task'[f].new
        /\ task'[f].new = Cardinality(Created(f)')
        /\ task'[f].mismatched = Cardinality(Logged(f)')
    <3>1. /\ task[f].n = task[f].processed + task[f].errors + 1
          /\ task[f].processed = task[f].matched + task[f].mismatched + task[f].new
      BY <1>3 DEF Tallied
    <3>2. /\ task[f].n + 1 = (task[f].processed + dp) + (task[f].errors + de) + 1
          /\ task[f].processed + dp = (task[f].matched + dm) + (task[f].mismatched + dd)
                                      + (task[f].new + dn)
      BY <1>2, <3>1, Sums
    <3>3. /\ task'[f].n = task[f].n + 1 /\ task'[f].processed = task[f].processed + dp
          /\ task'[f].matched = task[f].matched + dm
          /\ task'[f].mismatched = task[f].mismatched + dd
          /\ task'[f].new = task[f].new + dn /\ task'[f].errors = task[f].errors + de
      BY DEF Counted
    <3>4. QED
      BY <1>3, <3>2, <3>3 DEF Tallied
  <2>2. ASSUME NEW h \in Logged(f)' PROVE h.row < task'[f].n
    <3>1. task'[f].n = task[f].n + 1
      BY DEF Counted
    <3>2. CASE h \in Logged(f)
      BY <1>2, <1>5, <3>1, <3>2
    <3>3. CASE h.row = task[f].n
      BY <1>2, <3>1, <3>3
    <3>4. QED
      BY <3>2, <3>3
  <2>3. QED
    BY <2>1, <2>2 DEF Tallied
<1>7. ASSUME task'[f].pc = "finalize" PROVE task'[f].n = Len(rows[f]) + 1
  <2>1. ~(task[f].n < Len(rows[f])) /\ task'[f].n = task[f].n + 1
    BY <1>7 DEF Counted
  <2>2. task[f].n = Len(rows[f])
    BY <1>1, <2>1
  <2>3. QED
    BY <2>1, <2>2
<1>8. QED
  BY <1>3, <1>6, <1>7 DEF LedgerAt

\* The applications of a file after a step.
LEMMA CreatedFinite ==
    ASSUME TypeOK, NEW f
    PROVE  IsFiniteSet(Created(f)) /\ Len(apps) + 1 \notin Created(f)
<1>1. DOMAIN apps = 1 .. Len(apps) /\ Len(apps) \in Nat
  BY DEF TypeOK
<1>2. IsFiniteSet(DOMAIN apps)
  BY <1>1, FS_Interval
<1>3. Created(f) \subseteq DOMAIN apps
  BY DEF Created
<1>4. QED
  BY <1>1, <1>2, <1>3, FS_Subset

LEMMA CreatedGrows ==
    ASSUME TypeOK, NEW a \in App, Grows(a), NEW f
    PROVE  Created(f)' = IF a.by = f THEN Created(f) \cup {Len(apps) + 1} ELSE Created(f)
<1>1. /\ DOMAIN apps = 1 .. Len(apps) /\ Len(apps) \in Nat
      /\ DOMAIN apps' = 1 .. Len(apps) + 1
  BY DEF TypeOK, Grows
<1>2. DOMAIN apps' = DOMAIN apps \cup {Len(apps) + 1}
  BY <1>1
<1>3. QED
  BY <1>1, <1>2 DEF Grows, Created

LEMMA CreatedSame ==
    ASSUME TypeOK, Extends, apps' \in Seq(App), Len(apps') = Len(apps), NEW f
    PROVE  Created(f)' = Created(f)
<1>1. DOMAIN apps' = DOMAIN apps
  BY DEF TypeOK
<1>2. QED
  BY <1>1 DEF Extends, Created

LEMMA RecordsSame ==
    ASSUME UNCHANGED <<apps, history>>, NEW f
    PROVE  SameRecords(f)
BY DEF SameRecords, Created, Logged

LEMMA UpdateAppRecords ==
    ASSUME Base, NEW t \in Tasks, UpdateApp(t), NEW f
    PROVE  SameRecords(f)
<1>1. Extends /\ apps' \in Seq(App) /\ Len(apps') = Len(apps)
  BY UpdateAppEffect DEF Rewrites
<1>2. Created(f)' = Created(f)
  BY <1>1, CreatedSame DEF Base
<1>3. Logged(f)' = Logged(f)
  BY DEF UpdateApp, Logged
<1>4. QED
  BY <1>2, <1>3 DEF SameRecords

LEMMA RecordsOfOther ==
    ASSUME Base, NEW f \in Files, NEW t \in Tasks, t # f,
           \/ t \in Files /\ Upload(t)
           \/ t \in Entries /\ Submit(t)
           \/ Find(t) \/ RowStep(t)
    PROVE  SameRecords(f)
<1>1. ASSUME CreateApp(t), t \in Files PROVE SameRecords(f)
  <2>1. PICK a \in App : Grows(a) /\ a.by = t
    BY <1>1, CreateAppEffect
  <2>2. Created(f)' = Created(f)
    BY <2>1, CreatedGrows DEF Base
  <2>3. Logged(f)' = Logged(f)
    BY <1>1 DEF CreateApp, Logged
  <2>4. QED
    BY <2>2, <2>3 DEF SameRecords
<1>2. ASSUME WriteHistory(t) PROVE SameRecords(f)
  <2>1. PICK h : history' = history \cup {h} /\ h.by = t
    BY <1>2, HistoryEffect
  <2>2. Logged(f)' = Logged(f)
    BY <2>1 DEF Logged
  <2>3. Created(f)' = Created(f)
    BY <1>2 DEF WriteHistory, Created
  <2>4. QED
    BY <2>2, <2>3 DEF SameRecords
<1>3. \/ UNCHANGED <<apps, history>>
      \/ CreateApp(t) /\ t \in Files
      \/ UpdateApp(t) \/ WriteHistory(t)
  BY DEF Upload, Submit, Find, RowStep, SetTotal, CreatePassenger, Finalize, Failing,
         StartCheck, UpdatePassenger, QueryFails
<1>4. QED
  BY <1>1, <1>2, <1>3, UpdateAppRecords, RecordsSame

LEMMA OtherCodeRecords ==
    ASSUME Base, OtherCode, NEW f \in Files
    PROVE  NotOf(f) /\ SameRecords(f)
<1>1. NotOf(f) /\ UNCHANGED history
  BY DEF OtherCode, NotOf, RegisterPassenger, CreateApplication, ChangeStatus, SaveResult
<1>2. Created(f)' = Created(f)
  <2>1. ASSUME NEW p \in passengers, CreateApplication(p)
        PROVE  Created(f)' = Created(f)
    <3>1. PICK a \in App : Grows(a) /\ a.by \notin Files
      BY <2>1, CreateApplicationEffect
    <3>2. QED
      BY <3>1, CreatedGrows DEF Base
  <2>2. ASSUME NEW i \in DOMAIN apps, NEW code \in Codes,
               ChangeStatus(i, code) \/ SaveResult(i, code)
        PROVE  Created(f)' = Created(f)
    BY <2>2, OtherCodeEffect, CreatedSame DEF Rewrites, Base
  <2>3. ASSUME NEW p \in Registered, RegisterPassenger(p)
        PROVE  Created(f)' = Created(f)
    BY <2>3 DEF RegisterPassenger, Created
  <2>4. QED
    BY <2>1, <2>2, <2>3 DEF OtherCode
<1>3. QED
  BY <1>1, <1>2 DEF SameRecords, Logged

\* A row of a file that is done with.
LEMMA RowDone ==
    ASSUME Base, NEW f \in Files, LedgerAt(f), task[f].pc \in RowStages,
           UNCHANGED <<imports, rows>>, SameRecords(f),
           TaskBecomes(f, AsMatched(f)) \/ TaskBecomes(f, AsError(f))
    PROVE  LedgerAt(f)'
<1>1. Counted(f, 1, 1, 0, 0, 0) \/ Counted(f, 0, 0, 0, 0, 1)
  BY AsCounted DEF Base, Tasks
<1>2. Created(f)' = Created(f) /\ Logged(f)' = Logged(f) /\ IsFiniteSet(Logged(f))
  BY DEF SameRecords, LedgerAt
<1>3. IsFiniteSet(Created(f))
  BY CreatedFinite DEF Base
<1>4. Cardinality(Created(f)) \in Nat /\ Cardinality(Logged(f)) \in Nat
  BY <1>2, <1>3, FS_CardinalityType
<1>5. /\ Cardinality(Created(f)') = Cardinality(Created(f)) + 0
      /\ Cardinality(Logged(f)') = Cardinality(Logged(f)) + 0
  BY <1>2, <1>4
<1>6. ASSUME Counted(f, 1, 1, 0, 0, 0) PROVE LedgerAt(f)'
  <2>1. 0 \in Nat /\ 1 \in Nat /\ 1 + 0 = 1 /\ 1 = 1 + 0 + 0
    OBVIOUS
  <2>2. QED
    BY <2>1, <1>2, <1>5, <1>6, LedgerCounts, Zenon
<1>7. ASSUME Counted(f, 0, 0, 0, 0, 1) PROVE LedgerAt(f)'
  <2>1. 0 \in Nat /\ 1 \in Nat /\ 0 + 1 = 1 /\ 0 = 0 + 0 + 0
    OBVIOUS
  <2>2. QED
    BY <2>1, <1>2, <1>5, <1>7, LedgerCounts, Zenon
<1>8. QED
  BY <1>1, <1>6, <1>7

LEMMA CreateAppLedger ==
    ASSUME Base, NEW f \in Files, LedgerAt(f), CreateApp(f)
    PROVE  LedgerAt(f)'
<1>1. PICK a \in App : Grows(a) /\ a.by = f
  BY CreateAppEffect
<1>2. Created(f)' = Created(f) \cup {Len(apps) + 1}
  BY <1>1, CreatedGrows DEF Base
<1>3. IsFiniteSet(Created(f)) /\ Len(apps) + 1 \notin Created(f)
  BY CreatedFinite DEF Base
<1>4. Cardinality(Created(f)') = Cardinality(Created(f)) + 1
  BY <1>2, <1>3, FS_AddElement
<1>5. Logged(f)' = Logged(f) /\ IsFiniteSet(Logged(f))
  BY DEF CreateApp, Logged, LedgerAt
<1>6. Cardinality(Logged(f)') = Cardinality(Logged(f)) + 0
  BY <1>5, FS_CardinalityType
<1>7. Counted(f, 1, 0, 0, 1, 0) /\ task[f].pc \in RowStages
      /\ UNCHANGED <<imports, rows>>
  BY AsCounted DEF CreateApp, At, RowStages, Base, Tasks
<1>8. 0 \in Nat /\ 1 \in Nat /\ 1 + 0 = 1 /\ 1 = 0 + 0 + 1
  OBVIOUS
<1>9. QED
  BY <1>4, <1>5, <1>6, <1>7, <1>8, LedgerCounts, Zenon

LEMMA WriteHistoryLedger ==
    ASSUME Base, NEW f \in Files, LedgerAt(f), WriteHistory(f)
    PROVE  LedgerAt(f)'
<1>1. PICK h : history' = history \cup {h} /\ h.by = f /\ h.row = task[f].n
  BY HistoryEffect DEF Tasks
<1>2. task[f].pc = "history" /\ Tallied(f) /\ IsFiniteSet(Logged(f))
  BY DEF WriteHistory, At, LedgerAt, Working, RowStages
<1>3. Logged(f)' = Logged(f) \cup {h}
  BY <1>1 DEF Logged
<1>4. h \notin Logged(f)
  <2>1. task[f].n \in Nat
    BY RowsTyped DEF Base, Tasks, Task
  <2>2. QED
    BY <1>1, <1>2, <2>1 DEF Tallied
<1>5. /\ IsFiniteSet(Logged(f)')
      /\ Cardinality(Logged(f)') = Cardinality(Logged(f)) + 1
  BY <1>2, <1>3, <1>4, FS_AddElement
<1>6. Created(f)' = Created(f)
  BY DEF WriteHistory, Created
<1>7. Cardinality(Created(f)') = Cardinality(Created(f)) + 0
  <2>1. Cardinality(Created(f)) \in Nat
    BY CreatedFinite, FS_CardinalityType DEF Base
  <2>2. QED
    BY <1>6, <2>1
<1>8. Counted(f, 1, 0, 1, 0, 0) /\ task[f].pc \in RowStages
      /\ UNCHANGED <<imports, rows>>
  BY AsCounted DEF WriteHistory, At, RowStages, Base, Tasks
<1>9. \A g \in Logged(f)' : g \in Logged(f) \/ g.row = task[f].n
  BY <1>1, <1>3
<1>10. 0 \in Nat /\ 1 \in Nat /\ 1 + 0 = 1 /\ 1 = 0 + 1 + 0
  OBVIOUS
<1>11. QED
  BY <1>5, <1>7, <1>8, <1>9, <1>10, LedgerCounts, Zenon

\* Where a step of a row leaves the counts of a file.
LEMMA RowStepLedger ==
    ASSUME Base, NEW f \in Files, LedgerAt(f), SettledAt(f), RowStep(f)
    PROVE  LedgerAt(f)'
<1>1. /\ f \in Tasks /\ f \notin Entries /\ task[f] \in Task
      /\ task[f].pc \in RowStages => task[f].n \in 1 .. Len(rows[f])
  BY ImportsAssumption, RowsTyped DEF Tasks, Base, Placed, PlacedAt
<1>2. task[f].pc # "over" => imports[f].status # "COMPLETED"
  BY DEF LedgerAt
<1>3. ASSUME NEW pc \in {"createApp", "updateApp", "history"}, Goto(f, pc),
             task[f].pc \in RowStages, UNCHANGED <<imports, rows>>, SameRecords(f)
      PROVE  LedgerAt(f)'
  <2>1. task'[f].pc = pc /\ SameCounts(f)
    BY <1>1, <1>3, GotoEffect DEF Base, Stages, RowStages, SameCounts
  <2>2. imports'[f].total = Len(rows'[f]) /\ imports'[f].status # "COMPLETED"
    BY <1>2, <1>3 DEF LedgerAt, Working, RowStages
  <2>3. QED
    BY <1>3, <2>1, <2>2, LedgerGoesOn
<1>4. ASSUME SetTotal(f) PROVE LedgerAt(f)'
  <2>1. task[f].pc = "total" /\ Goto(f, "find") /\ UNCHANGED <<rows, apps, history>>
    BY <1>4 DEF SetTotal, At
  <2>2. task'[f].pc = "find" /\ SameCounts(f)
    BY <1>1, <2>1, GotoEffect DEF Base, Stages, RowStages, SameCounts
  <2>3. imports[f] \in Import /\ imports \in [Files -> Import]
    BY DEF Base, TypeOK
  <2>4. imports'[f].total = Len(rows[f]) /\ imports'[f].status = imports[f].status
    BY <1>4, <2>3 DEF SetTotal, Import
  <2>5. QED
    BY <1>2, <2>1, <2>2, <2>4, RecordsSame, LedgerGoesOn
<1>5. ASSUME CreatePassenger(f) PROVE LedgerAt(f)'
  <2>1. task[f].pc \in RowStages /\ UNCHANGED <<imports, rows, apps, history>>
    BY <1>5 DEF CreatePassenger, At, RowStages
  <2>2. QED
    BY <1>3, <1>5, <2>1, RecordsSame, RowDone DEF CreatePassenger
<1>6. ASSUME UpdatePassenger(f) PROVE LedgerAt(f)'
  <2>1. task[f].pc \in RowStages /\ UNCHANGED <<imports, rows, apps, history>>
    BY <1>6 DEF UpdatePassenger, At, RowStages
  <2>2. QED
    BY <1>3, <1>6, <2>1, RecordsSame DEF UpdatePassenger
<1>7. ASSUME UpdateApp(f) PROVE LedgerAt(f)'
  <2>1. task[f].pc \in RowStages /\ UNCHANGED <<imports, rows>>
    BY <1>7 DEF UpdateApp, At, RowStages
  <2>2. QED
    BY <1>1, <1>3, <1>7, <2>1, UpdateAppRecords, RowDone DEF UpdateApp
<1>8. ASSUME Finalize(f) PROVE LedgerAt(f)'
  <2>1. task[f].pc = "finalize" /\ UNCHANGED <<rows, apps, history>> /\ End(f)
    BY <1>8 DEF Finalize, At
  <2>2. task'[f].pc = "over" /\ SameRecords(f)
    BY <1>1, <2>1, EndEffect, RecordsSame DEF Base
  <2>3. /\ Tallied(f) /\ imports[f].total = Len(rows[f])
        /\ task[f].n = Len(rows[f]) + 1 /\ IsFiniteSet(Logged(f))
    BY <2>1 DEF LedgerAt, Working
  <2>4. task[f].processed + task[f].errors = Len(rows[f])
    <3>1. /\ task[f].processed \in Nat /\ task[f].errors \in Nat
          /\ task[f].n = task[f].processed + task[f].errors + 1 /\ Len(rows[f]) \in Nat
      BY <1>1, <2>3, RowsTyped DEF Base, Task, Tallied
    <3>2. QED
      BY <2>3, <3>1
  <2>5. Covered(f)'
    BY <1>8, <2>1, <2>2, <2>3, <2>4, FinalizeEffect DEF Covered, Tallied, SameRecords
  <2>6. QED
    BY <2>2, <2>3, <2>5 DEF LedgerAt, Working, RowStages, SameRecords
<1>9. ASSUME Failing(f) PROVE LedgerAt(f)'
  <2>1. task'[f].pc = "over" /\ SameRecords(f)
    BY <1>1, <1>9, EndEffect, RecordsSame DEF Failing, Base
  <2>2. imports'[f].status = "FAILED"
    BY <1>9, ImportFields DEF Failing, Base, TypeOK, Import
  <2>3. QED
    BY <2>1, <2>2, LedgerStops
<1>10. ASSUME QueryFails(f) PROVE LedgerAt(f)'
  <2>1. /\ UNCHANGED <<imports, rows, apps, history>> /\ SameRecords(f)
        /\ task[f].pc # "over"
    BY <1>10, RecordsSame DEF QueryFails, Queries, RowStages
  <2>2. CASE TaskBecomes(f, AsError(f)) /\ task[f].pc \in RowStages
    BY <2>1, <2>2, RowDone
  <2>3. CASE Goto(f, "failing")
    <3>1. task'[f].pc = "failing"
      BY <1>1, <2>3, GotoEffect DEF Base, Stages
    <3>2. QED
      BY <1>2, <2>1, <3>1, LedgerStops
  <2>4. CASE End(f)
    <3>1. task'[f].pc = "over"
      BY <1>1, <2>4, EndEffect DEF Base
    <3>2. QED
      BY <1>2, <2>1, <3>1, LedgerStops
  <2>5. QED
    BY <1>10, <2>2, <2>3, <2>4 DEF QueryFails
<1>11. QED
  BY <1>1, <1>4, <1>5, <1>6, <1>7, <1>8, <1>9, <1>10, CreateAppLedger, WriteHistoryLedger
     DEF RowStep

LEMMA LedgerStep ==
    ASSUME Base, Settled, Ledger, Next
    PROVE  Ledger'
<1>1. SUFFICES ASSUME NEW f \in Files PROVE LedgerAt(f)'
  BY DEF Ledger
<1>2. LedgerAt(f) /\ SettledAt(f) /\ f \in Tasks
  BY DEF Ledger, Settled, Tasks
<1>3. ASSUME NEW t \in Tasks, t # f,
             \/ t \in Files /\ Upload(t)
             \/ t \in Entries /\ Submit(t)
             \/ Find(t) \/ RowStep(t)
      PROVE  LedgerAt(f)'
  BY <1>2, <1>3, StepOfOther, RecordsOfOther, LedgerKept
<1>4. ASSUME Upload(f) PROVE LedgerAt(f)'
  <2>1. task[f].pc = "none" /\ UNCHANGED <<apps, history>>
    BY <1>4 DEF Upload, At
  <2>2. task'[f].pc \in {"failing", "total"} /\ SameCounts(f)
    <3>1. task[f].n = 1
      BY <1>2, <2>1 DEF Base, Placed, PlacedAt
    <3>2. QED
      BY <1>4, <3>1, UploadEffect DEF SameCounts
  <2>3. imports'[f].status = "PROCESSING"
    BY <1>4, ImportFields DEF Upload, Base, TypeOK, Import
  <2>4. QED
    BY <1>2, <2>1, <2>2, <2>3, RecordsSame, LedgerGoesOn DEF RowStages
<1>5. ASSUME Find(f) PROVE LedgerAt(f)'
  <2>1. task[f].pc = "find" /\ UNCHANGED <<apps, history, imports, rows>>
    BY <1>5 DEF Find, At
  <2>2. SameCounts(f) /\ InRow(f)'
    BY <1>2, <1>5, FindEffect
  <2>3. imports[f].total = Len(rows[f]) /\ imports[f].status # "COMPLETED"
    BY <1>2, <2>1 DEF LedgerAt, Working, RowStages
  <2>4. QED
    BY <1>2, <2>1, <2>2, <2>3, RecordsSame, LedgerGoesOn DEF InRow, RowStages
<1>6. ASSUME RowStep(f) PROVE LedgerAt(f)'
  BY <1>2, <1>6, RowStepLedger
<1>7. ASSUME ServerStops PROVE LedgerAt(f)'
  <2>1. /\ IF Running(f) THEN task'[f].pc = "over" ELSE task'[f] = task[f]
        /\ UNCHANGED <<imports, rows, apps, history>> /\ SameRecords(f)
    BY <1>2, <1>7, StopEffect, RecordsSame DEF ServerStops
  <2>2. CASE Running(f)
    <3>1. imports'[f].status # "COMPLETED"
      BY <1>2, <2>1, <2>2 DEF LedgerAt, Running
    <3>2. QED
      BY <1>2, <2>1, <2>2, <3>1, LedgerStops
  <2>3. CASE ~Running(f)
    BY <1>2, <2>1, <2>3, LedgerKept DEF NotOf
  <2>4. QED
    BY <2>2, <2>3
<1>8. ASSUME OtherCode PROVE LedgerAt(f)'
  BY <1>2, <1>8, OtherCodeRecords, LedgerKept
<1>9. Files \cap Entries = {}
  BY ImportsAssumption
<1>10. QED
  BY <1>3, <1>4, <1>5, <1>6, <1>7, <1>8, <1>9, StepKinds DEF Tasks
-----------------------------------------------------------------------------
\* The rows of a file are those of its sheet, and the passport of every row that
\* is done has an application unless a row was an error.
Found(f, n) == \A k \in 1 .. n : AppsOf(rows[f][k].passport) # {}

CoverAt(f) ==
    /\ task[f].pc # "none" => rows[f] = Parse(sheet[f])
    /\ task[f].pc \in Working /\ task[f].errors = 0 => Found(f, task[f].n - 1)
    /\ imports[f].status = "COMPLETED" /\ imports[f].errors = 0
       => Found(f, Len(rows[f]))

Cover == \A f \in Files : CoverAt(f)

\* An application stays with its passport.
LEMMA AppsStay ==
    ASSUME Base, Extends, apps' \in Seq(App), NEW p, AppsOf(p) # {}
    PROVE  AppsOf(p)' # {}
<1>1. apps \in Seq(App) /\ Len(apps) \in Nat /\ Len(apps') \in Nat
  BY DEF Base, TypeOK
<1>2. DOMAIN apps \subseteq DOMAIN apps'
  BY <1>1 DEF Extends
<1>3. QED
  BY <1>2 DEF Extends, AppsOf

LEMMA FoundKept ==
    ASSUME Base, Extends, apps' \in Seq(App), NEW f, rows'[f] = rows[f],
           NEW n, Found(f, n)
    PROVE  Found(f, n)'
<1>1. ASSUME NEW p, AppsOf(p) # {} PROVE AppsOf(p)' # {}
  BY <1>1, AppsStay
<1>2. QED
  BY <1>1 DEF Found

LEMMA CoverKept ==
    ASSUME Base, Extends, apps' \in Seq(App), NEW f, NotOf(f), sheet'[f] = sheet[f],
           CoverAt(f)
    PROVE  CoverAt(f)'
<1>1. task'[f] = task[f] /\ imports'[f] = imports[f] /\ rows'[f] = rows[f]
  BY DEF NotOf
<1>2. ASSUME NEW n, Found(f, n) PROVE Found(f, n)'
  BY <1>1, <1>2, FoundKept
<1>3. QED
  BY <1>1, <1>2 DEF CoverAt

\* A file goes on with the row it is in, or to its first.
LEMMA CoverGoesOn ==
    ASSUME Base, Extends, apps' \in Seq(App), NEW f \in Files, CoverAt(f),
           UNCHANGED <<rows, sheet>>, task[f].pc # "none", SameCounts(f),
           task[f].pc \in Working \/ task[f].n = 1,
           imports'[f].status # "COMPLETED"
    PROVE  CoverAt(f)'
<1>1. task'[f].n = task[f].n /\ task'[f].errors = task[f].errors
  BY DEF SameCounts
<1>2. ASSUME task[f].errors = 0 PROVE Found(f, task[f].n - 1)'
  <2>1. CASE task[f].n = 1
    <3>1. task'[f].n - 1 = 0 /\ 1 .. 0 = {}
      BY <1>1, <2>1
    <3>2. QED
      BY <3>1 DEF Found
  <2>2. CASE task[f].pc \in Working
    <3>1. Found(f, task[f].n - 1)
      BY <1>2, <2>2 DEF CoverAt
    <3>2. PICK n : n = task[f].n - 1
      OBVIOUS
    <3>3. Found(f, n)'
      BY <3>1, <3>2, FoundKept
    <3>4. QED
      BY <1>1, <3>2, <3>3
  <2>3. QED
    BY <2>1, <2>2
<1>3. QED
  BY <1>1, <1>2 DEF CoverAt

\* A file is done without having completed.
LEMMA CoverStops ==
    ASSUME NEW f, CoverAt(f), UNCHANGED <<rows, sheet>>, task[f].pc # "none",
           task'[f].pc \in {"over", "failing"}, imports'[f].status # "COMPLETED"
    PROVE  CoverAt(f)'
BY DEF CoverAt, Working, RowStages

\* A row of a file that is done with, as an error or with an application.
LEMMA CoverRow ==
    ASSUME Base, Extends, apps' \in Seq(App), NEW f \in Files, CoverAt(f),
           UNCHANGED <<rows, sheet>>, task[f].pc \in RowStages,
           task'[f].n = task[f].n + 1, imports'[f].status # "COMPLETED",
           NEW p, p = Current(f).passport,
           \/ task'[f].errors = task[f].errors + 1
           \/ task'[f].errors = task[f].errors /\ AppsOf(p)' # {}
    PROVE  CoverAt(f)'
<1>1. task[f].n \in Nat /\ task[f].errors \in Nat
  BY RowsTyped DEF Base, Tasks, Task
<1>2. task[f].pc # "none" /\ task[f].pc \in Working
  BY DEF RowStages, Working
<1>3. ASSUME task'[f].errors = 0 PROVE Found(f, task[f].n - 1)'
  <2>1. AppsOf(p)' # {} /\ task[f].errors = 0
    BY <1>1, <1>3
  <2>2. PICK n \in Nat : n = task[f].n
    BY <1>1
  <2>3. Found(f, n - 1)
    BY <1>2, <2>1, <2>2 DEF CoverAt
  <2>4. Found(f, n - 1)'
    BY <2>3, FoundKept
  <2>5. rows'[f][n].passport = p
    BY <2>2 DEF Current
  <2>6. ASSUME NEW k \in 1 .. n PROVE AppsOf(rows[f][k].passport)' # {}
    <3>1. k \in 1 .. n - 1 \/ k = n
      BY <2>2
    <3>2. QED
      BY <2>1, <2>4, <2>5, <3>1 DEF Found
  <2>7. task'[f].n - 1 = n
    BY <2>2
  <2>8. QED
    BY <2>6, <2>7 DEF Found
<1>4. QED
  BY <1>2, <1>3 DEF CoverAt

\* Where a step of a row leaves the passports of a file.
LEMMA RowStepCover ==
    ASSUME Base, NEW f \in Files, LedgerAt(f), CoverAt(f), RowStep(f)
    PROVE  CoverAt(f)'
<1>1. Extends /\ apps' \in Seq(App) /\ UNCHANGED <<rows, sheet>> /\ f \in Tasks
      /\ f \notin Entries
  <2>1. f \in Tasks /\ f \notin Entries
    BY ImportsAssumption, Zenon DEF Tasks
  <2>2. Extends /\ apps' \in Seq(App) /\ UNCHANGED rows
    BY <2>1, RowStepCalm DEF Calm
  <2>3. UNCHANGED sheet
    BY DEF RowStep, SetTotal, CreatePassenger, CreateApp, Finalize, Failing, StartCheck,
           UpdatePassenger, UpdateApp, WriteHistory, QueryFails
  <2>4. QED
    BY <2>1, <2>2, <2>3
<1>2. task[f].pc # "over" => imports[f].status # "COMPLETED"
  BY DEF LedgerAt
<1>3. task[f].n \in Nat /\ task[f].errors \in Nat
  BY <1>1, RowsTyped DEF Base, Task
<1>4. PICK p : p = Current(f).passport
  OBVIOUS
<1>5. ASSUME NEW pc \in {"createApp", "updateApp", "history"}, Goto(f, pc),
             task[f].pc \in RowStages, UNCHANGED imports
      PROVE  CoverAt(f)'
  <2>1. SameCounts(f)
    BY <1>1, <1>5, GotoEffect DEF Base, Stages, RowStages, SameCounts
  <2>2. task[f].pc # "none" /\ task[f].pc \in Working /\ imports'[f].status # "COMPLETED"
    BY <1>2, <1>5 DEF Working, RowStages
  <2>3. QED
    BY <1>1, <2>1, <2>2, CoverGoesOn
<1>6. ASSUME TaskBecomes(f, AsError(f)), task[f].pc \in RowStages, UNCHANGED imports
      PROVE  CoverAt(f)'
  <2>1. /\ task'[f].n = task[f].n + 1 /\ task'[f].errors = task[f].errors + 1
        /\ imports'[f].status # "COMPLETED"
    BY <1>1, <1>2, <1>6, AsCounted DEF Base, Counted, RowStages
  <2>2. QED
    BY <1>1, <1>4, <1>6, <2>1, CoverRow
<1>7. ASSUME \/ TaskBecomes(f, AsNew(f)) \/ TaskBecomes(f, AsMatched(f))
             \/ TaskBecomes(f, AsMismatched(f)),
             task[f].pc \in RowStages, UNCHANGED imports, AppsOf(p)' # {}
      PROVE  CoverAt(f)'
  <2>1. Counted(f, 1, 0, 0, 1, 0) \/ Counted(f, 1, 1, 0, 0, 0) \/ Counted(f, 1, 0, 1, 0, 0)
    BY <1>1, <1>7, AsCounted DEF Base
  <2>2. task'[f].n = task[f].n + 1 /\ task'[f].errors = task[f].errors + 0
    BY <2>1 DEF Counted
  <2>3. task'[f].errors = task[f].errors
    BY <1>3, <2>2
  <2>4. imports'[f].status # "COMPLETED"
    BY <1>2, <1>7 DEF RowStages
  <2>5. QED
    BY <1>1, <1>4, <1>7, <2>2, <2>3, <2>4, CoverRow
<1>8. ASSUME SetTotal(f) PROVE CoverAt(f)'
  <2>1. task[f].pc = "total" /\ Goto(f, "find") /\ "find" \in Stages
    BY <1>8 DEF SetTotal, At, Stages, RowStages
  <2>2. SameCounts(f) /\ task[f].n = 1
    BY <1>1, <2>1, GotoEffect DEF Base, SameCounts, Placed, PlacedAt
  <2>3. imports[f] \in Import /\ imports \in [Files -> Import]
    BY DEF Base, TypeOK
  <2>4. imports'[f].status = imports[f].status
    BY <1>8, <2>3 DEF SetTotal, Import
  <2>5. QED
    BY <1>1, <1>2, <2>1, <2>2, <2>4, CoverGoesOn
<1>9. ASSUME CreatePassenger(f) PROVE CoverAt(f)'
  <2>1. task[f].pc \in RowStages /\ UNCHANGED imports
    BY <1>9 DEF CreatePassenger, At, RowStages
  <2>2. QED
    BY <1>5, <1>6, <1>9, <2>1 DEF CreatePassenger
<1>10. ASSUME UpdatePassenger(f) PROVE CoverAt(f)'
  <2>1. task[f].pc \in RowStages /\ UNCHANGED imports
    BY <1>10 DEF UpdatePassenger, At, RowStages
  <2>2. QED
    BY <1>5, <1>10, <2>1 DEF UpdatePassenger
<1>11. ASSUME CreateApp(f) PROVE CoverAt(f)'
  <2>1. task[f].pc \in RowStages /\ UNCHANGED imports /\ TaskBecomes(f, AsNew(f))
    BY <1>11 DEF CreateApp, At, RowStages
  <2>2. PICK a \in App : Grows(a) /\ a.passport = p
    BY <1>4, <1>11, CreateAppEffect
  <2>3. AppsOf(p)' # {}
    <3>1. Len(apps) \in Nat /\ Len(apps') = Len(apps) + 1
      BY <2>2 DEF Grows, Base, TypeOK
    <3>2. Len(apps) + 1 \in DOMAIN apps'
      BY <1>1, <3>1
    <3>3. QED
      BY <2>2, <3>2 DEF Grows, AppsOf
  <2>4. QED
    BY <1>7, <2>1, <2>3
<1>12. ASSUME UpdateApp(f) PROVE CoverAt(f)'
  <2>1. task[f].pc \in RowStages /\ UNCHANGED imports
    BY <1>12 DEF UpdateApp, At, RowStages
  <2>2. PICK i \in DOMAIN apps : apps[i].passport = p
    BY <1>1, <1>4, <1>12, UpdateAppEffect
  <2>3. AppsOf(p)' # {}
    BY <1>1, <2>2, AppsStay DEF AppsOf
  <2>4. QED
    BY <1>1, <1>5, <1>7, <1>12, <2>1, <2>3 DEF UpdateApp
<1>13. ASSUME WriteHistory(f) PROVE CoverAt(f)'
  <2>1. task[f].pc \in RowStages /\ UNCHANGED <<imports, apps>>
        /\ TaskBecomes(f, AsMismatched(f)) /\ task[f].pc = "history"
    BY <1>13 DEF WriteHistory, At, RowStages
  <2>2. PlacedAt(f) /\ InRow(f)
    BY <1>1, <2>1 DEF Base, Placed, InRow, RowStages
  <2>3. task[f].app # 0 /\ task[f].app \in 0 .. Len(apps)
        /\ apps[task[f].app].passport = p
    BY <1>4, <2>1, <2>2 DEF PlacedAt
  <2>4. task[f].app \in DOMAIN apps
    <3>1. apps \in Seq(App) /\ Len(apps) \in Nat
      BY DEF Base, TypeOK
    <3>2. QED
      BY <2>3, <3>1
  <2>5. AppsOf(p) # {}
    BY <2>3, <2>4 DEF AppsOf
  <2>6. AppsOf(p)' # {}
    BY <2>1, <2>5 DEF AppsOf
  <2>7. QED
    BY <1>7, <2>1, <2>6
<1>14. ASSUME Finalize(f) PROVE CoverAt(f)'
  <2>1. task[f].pc = "finalize" /\ End(f)
    BY <1>14 DEF Finalize, At
  <2>2. task'[f].pc = "over"
    BY <1>1, <2>1, EndEffect DEF Base
  <2>3. imports'[f].errors = task[f].errors
    BY <1>14, FinalizeEffect
  <2>4. Len(rows[f]) \in Nat /\ task[f].n = Len(rows[f]) + 1
    BY <1>1, <2>1, RowsTyped DEF Base, LedgerAt
  <2>5. task[f].n - 1 = Len(rows[f])
    BY <2>4
  <2>6. task[f].errors = 0 => Found(f, Len(rows[f]))
    BY <2>1, <2>5 DEF CoverAt, Working
  <2>7. PICK n : n = Len(rows[f])
    OBVIOUS
  <2>8. task[f].errors = 0 => Found(f, n)'
    BY <1>1, <2>6, <2>7, FoundKept
  <2>9. rows'[f] = Parse(sheet'[f])
    BY <1>1, <2>1 DEF CoverAt
  <2>10. QED
    BY <1>1, <2>2, <2>3, <2>7, <2>8, <2>9 DEF CoverAt, Working, RowStages
<1>15. ASSUME Failing(f) PROVE CoverAt(f)'
  <2>1. task[f].pc = "failing" /\ task'[f].pc = "over"
    BY <1>1, <1>15, EndEffect DEF Failing, At, Base
  <2>2. imports'[f].status = "FAILED"
    BY <1>15, ImportFields DEF Failing, Base, TypeOK, Import
  <2>3. QED
    BY <1>1, <2>1, <2>2, CoverStops
<1>16. ASSUME QueryFails(f) PROVE CoverAt(f)'
  <2>1. UNCHANGED imports /\ task[f].pc \notin {"over", "none"}
    BY <1>16 DEF QueryFails, Queries, RowStages
  <2>2. CASE TaskBecomes(f, AsError(f)) /\ task[f].pc \in RowStages
    BY <1>6, <2>1, <2>2
  <2>3. CASE Goto(f, "failing")
    <3>1. task'[f].pc = "failing"
      BY <1>1, <2>3, GotoEffect DEF Base, Stages
    <3>2. QED
      BY <1>1, <1>2, <2>1, <3>1, CoverStops
  <2>4. CASE End(f)
    <3>1. task'[f].pc = "over"
      BY <1>1, <2>4, EndEffect DEF Base
    <3>2. QED
      BY <1>1, <1>2, <2>1, <3>1, CoverStops
  <2>5. QED
    BY <1>16, <2>2, <2>3, <2>4 DEF QueryFails
<1>17. QED
  BY <1>1, <1>8, <1>9, <1>10, <1>11, <1>12, <1>13, <1>14, <1>15, <1>16 DEF RowStep

LEMMA CoverStep ==
    ASSUME Base, Ledger, Cover, Next
    PROVE  Cover'
<1>1. SUFFICES ASSUME NEW f \in Files PROVE CoverAt(f)'
  BY DEF Cover
<1>2. LedgerAt(f) /\ CoverAt(f) /\ f \in Tasks
  BY DEF Ledger, Cover, Tasks
<1>3. ASSUME NEW t \in Tasks, t # f,
             \/ t \in Files /\ Upload(t)
             \/ t \in Entries /\ Submit(t)
             \/ Find(t) \/ RowStep(t)
      PROVE  CoverAt(f)'
  <2>1. NotOf(f)
    BY <1>3, StepOfOther
  <2>2. Extends /\ apps' \in Seq(App)
    <3>1. ASSUME RowStep(t) PROVE Extends /\ apps' \in Seq(App)
      BY <3>1, RowStepCalm DEF Calm
    <3>2. UNCHANGED apps \/ RowStep(t)
      BY <1>3 DEF Upload, Submit, Find
    <3>3. QED
      BY <3>1, <3>2, SameExtends DEF Base
  <2>3. sheet'[f] = sheet[f]
    <3>1. ASSUME Upload(t), t \in Files PROVE sheet'[f] = sheet[f]
      BY <1>3, <3>1, UploadEffect
    <3>2. QED
      BY <1>3, <3>1 DEF Submit, Find, RowStep, SetTotal, CreatePassenger, CreateApp,
         Finalize, Failing, StartCheck, UpdatePassenger, UpdateApp, WriteHistory, QueryFails
  <2>4. QED
    BY <1>2, <2>1, <2>2, <2>3, CoverKept
<1>4. ASSUME Upload(f) PROVE CoverAt(f)'
  <2>1. rows'[f] = Parse(sheet'[f]) /\ task'[f].pc \in {"failing", "total"}
    BY <1>4, UploadEffect
  <2>2. imports'[f].status = "PROCESSING"
    BY <1>4, ImportFields DEF Upload, Base, TypeOK, Import
  <2>3. QED
    BY <2>1, <2>2 DEF CoverAt, Working, RowStages
<1>5. ASSUME Find(f) PROVE CoverAt(f)'
  <2>1. task[f].pc = "find" /\ UNCHANGED <<apps, imports, rows, sheet>>
    BY <1>5 DEF Find, At
  <2>2. SameCounts(f)
    BY <1>2, <1>5, FindEffect
  <2>3. task[f].pc \in Working /\ imports'[f].status # "COMPLETED"
    BY <1>2, <2>1 DEF LedgerAt, Working, RowStages
  <2>4. Extends /\ apps' \in Seq(App)
    BY <2>1, SameExtends DEF Base
  <2>5. QED
    BY <1>2, <2>1, <2>2, <2>3, <2>4, CoverGoesOn
<1>6. ASSUME RowStep(f) PROVE CoverAt(f)'
  BY <1>2, <1>6, RowStepCover
<1>7. ASSUME ServerStops PROVE CoverAt(f)'
  <2>1. /\ IF Running(f) THEN task'[f].pc = "over" ELSE task'[f] = task[f]
        /\ UNCHANGED <<imports, rows, sheet, apps>>
    BY <1>2, <1>7, StopEffect DEF ServerStops
  <2>2. CASE Running(f)
    <3>1. task[f].pc # "none" /\ imports'[f].status # "COMPLETED"
      BY <1>2, <2>1, <2>2 DEF LedgerAt, Running
    <3>2. QED
      BY <1>2, <2>1, <2>2, <3>1, CoverStops
  <2>3. CASE ~Running(f)
    <3>1. NotOf(f) /\ sheet'[f] = sheet[f] /\ Extends /\ apps' \in Seq(App)
      BY <2>1, <2>3, SameExtends DEF NotOf, Base
    <3>2. QED
      BY <1>2, <3>1, CoverKept
  <2>4. QED
    BY <2>2, <2>3
<1>8. ASSUME OtherCode PROVE CoverAt(f)'
  <2>1. UNCHANGED <<task, imports, rows>> /\ UNCHANGED sheet
    <3>1. ASSUME NEW q \in passengers, CreateApplication(q)
          PROVE  UNCHANGED <<task, imports, rows>> /\ UNCHANGED sheet
      BY <3>1 DEF CreateApplication
    <3>2. ASSUME NEW i \in DOMAIN apps, NEW code \in Codes,
                 ChangeStatus(i, code) \/ SaveResult(i, code)
          PROVE  UNCHANGED <<task, imports, rows>> /\ UNCHANGED sheet
      BY <3>2 DEF ChangeStatus, SaveResult
    <3>3. QED
      BY <1>8, <3>1, <3>2 DEF OtherCode, RegisterPassenger
  <2>2. Extends /\ apps' \in Seq(App)
    BY <1>8, OtherCodeCalm DEF Calm
  <2>3. QED
    BY <1>2, <2>1, <2>2, CoverKept DEF NotOf
<1>9. Files \cap Entries = {}
  BY ImportsAssumption, Zenon
<1>10. QED
  BY <1>3, <1>4, <1>5, <1>6, <1>7, <1>8, <1>9, StepKinds DEF Tasks
-----------------------------------------------------------------------------
IInv == Base /\ LoneInv /\ Settled /\ Ledger /\ Cover

LEMMA InitIInv ==
    ASSUME Init
    PROVE  IInv
<1>1. NoTask \in Task /\ NoTask.pc = "none" /\ NoTask.n = 1 /\ NoTask.app = 0
      /\ NoTask.processed = 0 /\ NoTask.matched = 0 /\ NoTask.mismatched = 0
      /\ NoTask.new = 0 /\ NoTask.errors = 0
  BY DEF NoTask, Task, Stages, Statuses
<1>2. \A t \in Tasks : task[t] = NoTask /\ rows[t] = <<>>
  BY DEF Init
<1>3. apps = <<>> /\ Len(apps) = 0 /\ DOMAIN apps = {} /\ history = {}
  BY EmptySeq DEF Init
<1>4. TypeOK
  <2>1. NoImport \in Import
    BY DEF NoImport, Import, ImportStates
  <2>2. NoSheet \in Sheet
    BY EmptySeq DEF NoSheet, Sheet
  <2>3. 0 \in 0 .. MaxMoves /\ 0 \in 0 .. MaxFaults
    <3>1. MaxMoves \in Nat /\ MaxFaults \in Nat
      BY ImportsAssumption, Zenon
    <3>2. QED
      BY <3>1
  <2>4. apps \in Seq(App) /\ <<>> \in Seq(Row)
    BY <1>3, EmptySeq
  <2>5. imports \in [Files -> Import] /\ checks \in [Entries -> Nat]
        /\ sheet \in [Files -> Sheet]
    BY <2>1, <2>2 DEF Init
  <2>6. task \in [Tasks -> Task] /\ rows \in [Tasks -> Seq(Row)]
    BY <1>1, <2>4 DEF Init
  <2>7. QED
    BY <1>3, <2>3, <2>4, <2>5, <2>6 DEF Init, TypeOK
<1>5. Placed
  BY <1>1, <1>2, <1>3 DEF Placed, PlacedAt, InRow, RowStages
<1>6. LoneInv
  BY <1>1, <1>2, <1>3 DEF LoneInv, Alone, NoneYet, ReadTrue, InRow, RowStages, Tasks,
     LoneTaskKeepsPassport, OneApplicationUnlessOverlap, PortalKeptUnlessOverlap
<1>7. \A f \in Files : f \in Tasks /\ imports[f].status = "NONE"
  BY DEF Init, NoImport, Tasks
<1>8. Settled
  BY <1>1, <1>2, <1>7 DEF Settled, SettledAt, Running
<1>9. Ledger
  <2>1. SUFFICES ASSUME NEW f \in Files PROVE LedgerAt(f)
    BY DEF Ledger
  <2>2. Created(f) = {} /\ Logged(f) = {}
    BY <1>3 DEF Created, Logged
  <2>3. Tallied(f)
    BY <1>1, <1>2, <1>7, <2>2, FS_EmptySet DEF Tallied
  <2>4. QED
    BY <1>1, <1>2, <1>7, <2>2, <2>3, FS_EmptySet DEF LedgerAt, Working, RowStages
<1>10. Cover
  BY <1>1, <1>2, <1>7 DEF Cover, CoverAt, Working, RowStages
<1>11. QED
  BY <1>4, <1>5, <1>6, <1>8, <1>9, <1>10 DEF IInv, Base

LEMMA StepIInv ==
    ASSUME IInv, [Next]_vars
    PROVE  IInv'
<1>1. CASE Next
  BY <1>1, TypeStep, PlacedStep, LoneStep, SettledStep, LedgerStep, CoverStep DEF IInv, Base
<1>2. CASE UNCHANGED vars
  <2>1. Base'
    BY <1>2 DEF vars, IInv, Base, TypeOK, Placed, PlacedAt, InRow, Current
  <2>2. LoneInv'
    BY <1>2 DEF vars, IInv, InRow, Current, LoneInv, Alone, NoneYet, ReadTrue,
       LoneTaskKeepsPassport, OneApplicationUnlessOverlap, PortalKeptUnlessOverlap
  <2>3. Settled'
    BY <1>2 DEF vars, IInv, Settled, SettledAt, Running
  <2>4. Ledger'
    <3>1. \A f \in Files : LedgerAt(f)' = LedgerAt(f)
      BY <1>2 DEF vars, LedgerAt, Tallied, Covered, Created, Logged
    <3>2. QED
      BY <3>1 DEF IInv, Ledger
  <2>5. Cover'
    <3>1. \A f \in Files : CoverAt(f)' = CoverAt(f)
      BY <1>2 DEF vars, CoverAt, Found, AppsOf
    <3>2. QED
      BY <3>1 DEF IInv, Cover
  <2>6. QED
    BY <2>1, <2>2, <2>3, <2>4, <2>5 DEF IInv
<1>3. QED
  BY <1>1, <1>2

(***************************************************************************)
(* The state has its types.                                                *)
(***************************************************************************)
THEOREM TypeCorrect == Spec => []TypeOK
<1>1. IInv => TypeOK
  BY DEF IInv, Base
<1>2. QED
  BY InitIInv, StepIInv, <1>1, PTL DEF Spec

(***************************************************************************)
(* The counts of a completed import are what happened to its rows and what *)
(* it left in the database, however many rows it has and whatever runs     *)
(* between its queries.                                                    *)
(***************************************************************************)
THEOREM CountsTheorem == Spec => []CountsMatchDatabase
<1>1. IInv => CountsMatchDatabase
  BY DEF IInv, Ledger, LedgerAt, Covered, Created, Logged, CountsMatchDatabase
<1>2. QED
  BY InitIInv, StepIInv, <1>1, PTL DEF Spec

(***************************************************************************)
(* A second application of an import, or a portal status put back, takes   *)
(* two tasks that worked on the passport at a time.                        *)
(***************************************************************************)
THEOREM LoneTaskTheorem == Spec => []LoneTaskKeepsPassport
<1>1. IInv => LoneTaskKeepsPassport
  BY DEF IInv, LoneInv
<1>2. QED
  BY InitIInv, StepIInv, <1>1, PTL DEF Spec

(***************************************************************************)
(* An import left PROCESSING takes a stop of the server or two failed      *)
(* queries, one if its file was no use.                                    *)
(***************************************************************************)
THEOREM SettlesTheorem == Spec => []ImportSettles
<1>1. IInv => ImportSettles
  BY DEF IInv, Settled, SettledAt, ImportSettles
<1>2. QED
  BY InitIInv, StepIInv, <1>1, PTL DEF Spec

(***************************************************************************)
(* An import that completes without an error leaves an application for     *)
(* every passport that stands in the lines of its sheet, however many      *)
(* columns and lines there are and whatever an earlier import left undone. *)
(***************************************************************************)
THEOREM CoversTheorem == Spec => []CompletedCovers
<1>1. ASSUME IInv, NEW f \in Files, imports[f].status = "COMPLETED",
             imports[f].errors = 0, NEW k \in DOMAIN sheet[f].lines,
             PassportIn(sheet[f], sheet[f].lines[k]) # Unset
      PROVE  AppsOf(PassportIn(sheet[f], sheet[f].lines[k])) # {}
  <2>1. LedgerAt(f) /\ CoverAt(f) /\ sheet[f] \in Sheet
    BY <1>1 DEF IInv, Ledger, Cover, Base, TypeOK
  <2>2. rows[f] = Parse(sheet[f]) /\ Found(f, Len(rows[f]))
    BY <1>1, <2>1 DEF LedgerAt, CoverAt
  <2>3. PICK j \in 1 .. Len(Parse(sheet[f])) :
           Parse(sheet[f])[j].passport = PassportIn(sheet[f], sheet[f].lines[k])
    BY <1>1, <2>1, ParseCovers
  <2>4. QED
    BY <2>2, <2>3 DEF Found
<1>2. IInv => CompletedCovers
  BY <1>1 DEF CompletedCovers
<1>3. QED
  BY InitIInv, StepIInv, <1>2, PTL DEF Spec
=============================================================================
