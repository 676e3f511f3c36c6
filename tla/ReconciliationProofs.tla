------------------------ MODULE ReconciliationProofs ------------------------
(***************************************************************************)
(* Proofs about the ghost scores, for every application, and about         *)
(* Reconciliation, for any number of jobs, applications, failures and      *)
(* moves: types, that a completed job reports what it wrote, that a full   *)
(* run closes its job, that only overlapping runs can open two alerts for  *)
(* one application, and that the ghosts of a full run are alerted and sent.*)
(***************************************************************************)
EXTENDS Reconciliation, FiniteSetTheorems, SequenceTheorems, TLAPS

(***************************************************************************)
(* Every score is a percentage: the dashboard and the risk bands read it   *)
(* as one of 100.                                                          *)
(***************************************************************************)
THEOREM ScoreRange ==
    ASSUME NEW f \in Fact
    PROVE  CalculateGhostScore(f) \in 0 .. 100 /\ RowScore(f) \in 0 .. 100
<1>1. CalculateGhostScore(f) \in 0 .. 100
  BY DEF CalculateGhostScore, Capped, Points
<1>2. RowScore(f) \in 0 .. 100
  BY <1>1 DEF RowScore, Points
<1> QED
  BY <1>1, <1>2

(***************************************************************************)
(* A difference between the two statuses is worth 25 points by itself, so  *)
(* with a threshold of at most 25 (the code's is 20) the auto-resolution   *)
(* of low-risk mismatches is never taken, whatever the application.        *)
(***************************************************************************)
THEOREM NeverAutoResolved ==
    ASSUME NEW f \in Fact
    PROVE  ~AutoResolves(f)
<1>1. ASSUME Differs(f) PROVE CalculateGhostScore(f) >= 25
  BY <1>1 DEF Differs, CalculateGhostScore, Capped, Points
<1> QED
  BY <1>1, ScoreRange, ConfigAssumption DEF AutoResolves

(***************************************************************************)
(* What is put before an operator as a ghost is never of LOW risk: the     *)
(* score that opens an alert and the bands of the risk level agree.        *)
(***************************************************************************)
THEOREM GhostsAreRisky ==
    ASSUME NEW f \in Fact, IsGhost(f)
    PROVE  RowScore(f) >= 40 /\ RowRisk(f) # "LOW"
<1>1. ~Lapsed(f) /\ (Differs(f) \/ Stale(f))
  BY DEF IsGhost, Lapsed
<1>2. RowScore(f) >= 40
  <2>1. CASE Differs(f)
    BY <2>1 DEF IsGhost, RowScore, Stale
  <2>2. CASE ~Differs(f)
    BY <2>2, <1>1 DEF RowScore, Points
  <2> QED
    BY <2>1, <2>2
<1>3. RowScore(f) \in Int
  BY ScoreRange
<1> QED
  BY <1>1, <1>2, <1>3 DEF RowRisk, RiskLevel

(***************************************************************************)
(* An application whose status and portal agree is a ghost only when the   *)
(* portal itself still has it in the country after an exit: without a      *)
(* stored portal status the stale check never fires, because the simulated *)
(* portal then says EXITED and the mismatch check has taken the case.      *)
(***************************************************************************)
THEOREM StaleNeedsPortal ==
    ASSUME NEW f \in Fact, Stale(f)
    PROVE  f.portal = "IN_COUNTRY"
<1>1. f.status = "IN_COUNTRY" /\ f.lastEvent = "EXIT" /\ PortalStatus(f) = "IN_COUNTRY"
  BY DEF Stale, Differs
<1>2. SimulatePortalStatus(f) = "EXITED"
  BY <1>1 DEF SimulatePortalStatus
<1> QED
  BY <1>1, <1>2 DEF PortalStatus

(***************************************************************************)
(* An older exit never lowers the score: the longer ago a passenger still  *)
(* IN_COUNTRY left, the higher the case ranks.                             *)
(***************************************************************************)
THEOREM ScoreGrowsWithExit ==
    ASSUME NEW f \in Fact, NEW n \in Nat, n >= f.sinceExit, f.sinceExit # Never
    PROVE  CalculateGhostScore(f) <= CalculateGhostScore([f EXCEPT !.sinceExit = n])
<1> DEFINE g == [f EXCEPT !.sinceExit = n]
<1>1. /\ g.status = f.status /\ g.portal = f.portal /\ g.lastEvent = f.lastEvent
      /\ g.sinceSync = f.sinceSync /\ g.expired = f.expired /\ g.sinceExit = n
  BY DEF Fact
<1>2. PortalStatus(g) = PortalStatus(f) /\ (ExpiredInUse(g) <=> ExpiredInUse(f))
  BY <1>1 DEF PortalStatus, SimulatePortalStatus, ExpiredInUse
<1>3. f.sinceExit \in Int
  BY DEF Fact, Never
<1> HIDE DEF g
<1>4. CalculateGhostScore(f) <= CalculateGhostScore(g)
  BY <1>1, <1>2, <1>3 DEF CalculateGhostScore, Capped, Points
<1> QED
  BY <1>4 DEF g
-----------------------------------------------------------------------------

\* A copy's verdict: a ghost is a mismatch.
LEMMA GhostIsMismatch ==
    ASSUME NEW f, IsGhost(f)
    PROVE  IsMismatch(f)
BY DEF IsGhost, IsMismatch

\* A run keeps its type when it becomes a record of that type.
LEMMA RunTyped ==
    ASSUME run \in [Jobs -> Run], NEW j \in Jobs, NEW r \in Run, RunBecomes(j, r)
    PROVE  run' \in [Jobs -> Run] /\ run'[j] = r
           /\ \A k \in Jobs \ {j} : run'[k] = run[k]
BY DEF RunBecomes

LEMMA JobTyped ==
    ASSUME job \in [Jobs -> Job], NEW j \in Jobs, NEW r \in Job, JobBecomes(j, r)
    PROVE  job' \in [Jobs -> Job] /\ job'[j] = r
           /\ \A k \in Jobs \ {j} : job'[k] = job[k]
BY DEF JobBecomes

\* What each field of a run and of a job may become.
LEMMA RunFields ==
    ASSUME NEW r \in Run
    PROVE  /\ \A x \in Stages : [r EXCEPT !.pc = x] \in Run
           /\ \A x \in Nat : /\ [r EXCEPT !.total = x] \in Run
                             /\ [r EXCEPT !.offset = x] \in Run
                             /\ [r EXCEPT !.checked = x] \in Run
                             /\ [r EXCEPT !.mismatches = x] \in Run
                             /\ [r EXCEPT !.ghosts = x] \in Run
                             /\ [r EXCEPT !.errors = x] \in Run
           /\ \A x \in SUBSET Copy : [r EXCEPT !.page = x] \in Run
           /\ \A x \in SUBSET Apps : [r EXCEPT !.target = x] \in Run
           /\ \A x \in SUBSET Nat : [r EXCEPT !.toSend = x] \in Run
BY DEF Run

LEMMA JobFields ==
    ASSUME NEW r \in Job
    PROVE  /\ \A x \in JobStates : [r EXCEPT !.status = x] \in Job
           /\ \A x \in Kinds : [r EXCEPT !.kind = x] \in Job
           /\ \A x \in Nat : /\ [r EXCEPT !.checked = x] \in Job
                             /\ [r EXCEPT !.mismatches = x] \in Job
                             /\ [r EXCEPT !.ghosts = x] \in Job
                             /\ [r EXCEPT !.errors = x] \in Job
BY DEF Job

LEMMA AlertTyped ==
    ASSUME alerts \in Seq(Alert), NEW i \in DOMAIN alerts, NEW r \in Alert,
           AlertBecomes(i, r)
    PROVE  /\ alerts' \in Seq(Alert) /\ DOMAIN alerts' = DOMAIN alerts
           /\ alerts'[i] = r
           /\ \A k \in DOMAIN alerts \ {i} : alerts'[k] = alerts[k]
<1>1. alerts' \in Seq(Alert)
  BY ExceptSeq DEF AlertBecomes
<1> QED
  BY <1>1 DEF AlertBecomes

LEMMA OlderTyped ==
    ASSUME NEW r \in Alert
    PROVE  Older(r) \in Alert /\ Older(r).app = r.app /\ Older(r).status = r.status
<1>1. (IF r.age < 2 THEN r.age + 1 ELSE 2) \in 0 .. 2
  BY DEF Alert
<1> QED
  BY <1>1 DEF Older, Alert

LEMMA CheckedTyped ==
    ASSUME NEW r \in Run, NEW c \in r.page
    PROVE  /\ Checked(r, c) \in Run
           /\ Checked(r, c).pc = r.pc
           /\ Checked(r, c).page = r.page \ {c}
           /\ Checked(r, c).mismatches = r.mismatches + Points(IsMismatch(c.fact), 1)
           /\ Checked(r, c).ghosts = r.ghosts + Points(IsGhost(c.fact), 1)
           /\ Checked(r, c).errors = r.errors
<1>1. /\ r.page \ {c} \in SUBSET Copy
      /\ r.checked \in Nat /\ r.mismatches \in Nat /\ r.ghosts \in Nat
  BY DEF Run
<1>2. \A x, p : x \in Nat => x + 1 \in Nat /\ x + Points(p, 1) \in Nat
  BY DEF Points
<1>3. Checked(r, c) \in Run
  BY <1>1, <1>2, RunFields, Zenon DEF Checked
<1>4. /\ Checked(r, c).pc = r.pc
      /\ Checked(r, c).page = r.page \ {c}
      /\ Checked(r, c).errors = r.errors
  BY DEF Run, Checked
<1>5. Checked(r, c).mismatches = r.mismatches + Points(IsMismatch(c.fact), 1)
  BY DEF Run, Checked
<1>6. Checked(r, c).ghosts = r.ghosts + Points(IsGhost(c.fact), 1)
  BY DEF Run, Checked
<1> QED
  BY <1>3, <1>4, <1>5, <1>6

LEMMA IdleTyped ==
    /\ NoRun \in Run /\ NoJob \in Job
    /\ \A pc \in Stages : [NoRun EXCEPT !.pc = pc] \in Run
BY DEF NoRun, NoJob, Run, Job, Stages, JobStates, Kinds

LEMMA RecordedTyped ==
    ASSUME TypeOK, NEW j \in Jobs
    PROVE  /\ Recorded(j) \in Job
           /\ Recorded(j).status = job[j].status
           /\ Recorded(j).kind = job[j].kind
<1>1. /\ job[j] \in Job
      /\ run[j].checked \in Nat /\ run[j].mismatches \in Nat /\ run[j].ghosts \in Nat
  BY DEF TypeOK, Run
<1>2. Recorded(j) \in Job
  BY <1>1, JobFields, Zenon DEF Recorded
<1>3. Recorded(j).status = job[j].status /\ Recorded(j).kind = job[j].kind
  BY <1>1 DEF Recorded, Job
<1> QED
  BY <1>2, <1>3

LEMMA ScopeTyped ==
    ASSUME TypeOK
    PROVE  /\ Cardinality(InScope) \in Nat
           /\ \A a \in Apps : CopyOf(a) \in Copy
<1>1. IsFiniteSet(InScope)
  BY ReconciliationAssumption, FS_Subset DEF InScope
<1>2. Cardinality(InScope) \in Nat
  BY <1>1, FS_CardinalityType
<1>3. \A a \in Apps : CopyOf(a) \in Copy
  BY DEF TypeOK, CopyOf, Copy, HasOpen
<1> QED
  BY <1>2, <1>3
-----------------------------------------------------------------------------
LEMMA TypeInit == Init => TypeOK
<1> SUFFICES ASSUME Init PROVE TypeOK
  OBVIOUS
<1>1. rows \in [Jobs -> Seq([app: Apps, score: 0 .. 100, ghost: BOOLEAN])]
  BY DEF Init
<1>2. alerts \in Seq(Alert)
  BY DEF Init
<1>3. facts \in [Apps -> Facts]
  BY ReconciliationAssumption DEF Init
<1>4. moves \in 0 .. MaxMoves /\ faults \in 0 .. MaxFaults
  BY ReconciliationAssumption DEF Init
<1>5. job \in [Jobs -> Job] /\ run \in [Jobs -> Run]
  BY IdleTyped DEF Init
<1> QED
  BY <1>1, <1>2, <1>3, <1>4, <1>5 DEF Init, TypeOK

LEMMA TypeStep == TypeOK /\ [Next]_vars => TypeOK'
<1> SUFFICES ASSUME TypeOK, [Next]_vars PROVE TypeOK'
  OBVIOUS
<1> USE ReconciliationAssumption
<1>0. \A j \in Jobs : run[j] \in Run /\ job[j] \in Job
  BY DEF TypeOK
<1>1. ASSUME NEW j \in Jobs, NEW kind \in Kinds, NEW target \in SUBSET Apps,
             Create(j, kind, target)
      PROVE  TypeOK'
  <2>1. [NoJob EXCEPT !.status = "PENDING", !.kind = kind] \in Job
    BY IdleTyped DEF Job, JobStates
  <2>2. [NoRun EXCEPT !.pc = "begin", !.target = target] \in Run
    <3>1. "begin" \in Stages
      BY DEF Stages
    <3> QED
      BY <3>1, IdleTyped, RunFields, Zenon
  <2> QED
    BY <1>1, <2>1, <2>2, RunTyped, JobTyped DEF TypeOK, Create
<1>2. ASSUME NEW j \in Jobs, Begin(j) PROVE TypeOK'
  <2>1. [job[j] EXCEPT !.status = "RUNNING"] \in Job
    <3>1. "RUNNING" \in JobStates
      BY DEF JobStates
    <3> QED
      BY <3>1, <1>0, JobFields, Zenon
  <2>2. [run[j] EXCEPT !.pc = IF Full(j) THEN "count" ELSE "page"] \in Run
    <3>1. (IF Full(j) THEN "count" ELSE "page") \in Stages
      BY DEF Stages
    <3> QED
      BY <3>1, <1>0, RunFields, Zenon
  <2> QED
    BY <1>2, <2>1, <2>2, RunTyped, JobTyped DEF TypeOK, Begin
<1>3. ASSUME NEW j \in Jobs, Count(j) PROVE TypeOK'
  <2>1. [run[j] EXCEPT !.total = Cardinality(InScope),
             !.pc = IF InScope = {} THEN "complete" ELSE "page"] \in Run
    <3>1. (IF InScope = {} THEN "complete" ELSE "page") \in Stages
      BY DEF Stages
    <3>2. Cardinality(InScope) \in Nat
      BY ScopeTyped
    <3> QED
      BY <3>1, <3>2, <1>0, RunFields, Zenon
  <2> QED
    BY <1>3, <2>1, RunTyped DEF TypeOK, Count
<1>4. ASSUME NEW j \in Jobs, NEW S \in SUBSET Apps, Fetch(j, S) PROVE TypeOK'
  <2>1. {CopyOf(a) : a \in S} \in SUBSET Copy
    BY ScopeTyped
  <2>2. [run[j] EXCEPT !.pc = "check", !.page = {CopyOf(a) : a \in S}] \in Run
    <3>1. "check" \in Stages
      BY DEF Stages
    <3> QED
      BY <2>1, <3>1, <1>0, RunFields, Zenon
  <2>3. overlapped' \subseteq Apps
    BY <1>4 DEF TypeOK, Fetch
  <2> QED
    BY <1>4, <2>2, <2>3, RunTyped DEF TypeOK, Fetch
<1>5. ASSUME NEW j \in Jobs, NEW c \in run[j].page, CheckClean(j, c) PROVE TypeOK'
  <2>1. Checked(run[j], c) \in Run
    BY CheckedTyped DEF TypeOK
  <2> QED
    BY <1>5, <2>1, RunTyped DEF TypeOK, CheckClean
<1>6. ASSUME NEW j \in Jobs, NEW c \in run[j].page, WriteRow(j, c) PROVE TypeOK'
  <2>0. run[j] \in Run /\ c \in Copy /\ c.app \in Apps /\ c.fact \in Fact
    BY DEF TypeOK, Run, Copy
  <2>1. Checked(run[j], c) \in Run
    BY <2>0, CheckedTyped
  <2>2. [run[j] EXCEPT !.page = (run[j].page \ {c}) \cup {[c EXCEPT !.written = TRUE]}] \in Run
    <3>1. [c EXCEPT !.written = TRUE] \in Copy
      BY <2>0 DEF Copy
    <3>2. (run[j].page \ {c}) \cup {[c EXCEPT !.written = TRUE]} \in SUBSET Copy
      BY <2>0, <3>1 DEF Run
    <3> QED
      BY <2>0, <3>2 DEF Run
  <2>3. run' \in [Jobs -> Run]
    BY <1>6, <2>1, <2>2, RunTyped DEF TypeOK, WriteRow
  <2>4. [app |-> c.app, score |-> RowScore(c.fact), ghost |-> IsGhost(c.fact)]
          \in [app: Apps, score: 0 .. 100, ghost: BOOLEAN]
    BY <2>0, ScoreRange DEF IsGhost
  <2>5. rows' \in [Jobs -> Seq([app: Apps, score: 0 .. 100, ghost: BOOLEAN])]
    <3> DEFINE Row == [app: Apps, score: 0 .. 100, ghost: BOOLEAN]
               new == [app |-> c.app, score |-> RowScore(c.fact),
                       ghost |-> IsGhost(c.fact)]
    <3>1. rows \in [Jobs -> Seq(Row)] /\ rows[j] \in Seq(Row)
      BY DEF TypeOK
    <3>2. new \in Row
      BY <2>4
    <3>3. rows' = [rows EXCEPT ![j] = Append(rows[j], new)]
      BY <1>6 DEF WriteRow
    <3> HIDE DEF Row, new
    <3>4. Append(rows[j], new) \in Seq(Row)
      BY <3>1, <3>2
    <3>5. rows' \in [Jobs -> Seq(Row)]
      BY <3>1, <3>3, <3>4
    <3> QED
      BY <3>5 DEF Row
  <2> QED
    BY <1>6, <2>3, <2>5 DEF TypeOK, WriteRow
<1>7. ASSUME NEW j \in Jobs, NEW c \in run[j].page, OpenAlert(j, c) PROVE TypeOK'
  <2>1. Checked(run[j], c) \in Run
    BY CheckedTyped DEF TypeOK
  <2>2. c.app \in Apps
    BY DEF TypeOK, Run, Copy
  <2>3. [app |-> c.app, by |-> j, age |-> 0, sent |-> FALSE, status |-> "OPEN"] \in Alert
    BY <2>2 DEF Alert
  <2>4. alerts' \in Seq(Alert)
    BY <1>7, <2>3 DEF TypeOK, OpenAlert
  <2> QED
    BY <1>7, <2>1, <2>4, RunTyped DEF TypeOK, OpenAlert
<1>8. ASSUME NEW j \in Jobs, CheckFails(j) PROVE TypeOK'
  <2>1. PICK c \in Current(j) :
          RunBecomes(j, [run[j] EXCEPT !.page = @ \ {c}, !.errors = @ + 1])
    BY <1>8 DEF CheckFails
  <2>2. [run[j] EXCEPT !.page = @ \ {c}, !.errors = @ + 1] \in Run
    <3>1. run[j].page \ {c} \in SUBSET Copy /\ run[j].errors + 1 \in Nat
      BY <1>0 DEF Run
    <3> QED
      BY <3>1, <1>0, RunFields, Zenon
  <2>3. run' \in [Jobs -> Run]
    BY <2>1, <2>2, RunTyped DEF TypeOK
  <2>4. faults' \in 0 .. MaxFaults
    BY <1>8 DEF TypeOK, CheckFails
  <2> QED
    BY <1>8, <2>3, <2>4 DEF TypeOK, CheckFails
<1>9. ASSUME NEW j \in Jobs, PageDone(j) PROVE TypeOK'
  <2>1. run[j].offset + BatchSize \in Nat
    BY DEF TypeOK, Run
  <2>2. [run[j] EXCEPT !.offset = run[j].offset + BatchSize,
             !.pc = IF run[j].offset + BatchSize < run[j].total
                    THEN "page" ELSE "complete"] \in Run
    <3>1. (IF run[j].offset + BatchSize < run[j].total
           THEN "page" ELSE "complete") \in Stages
      BY DEF Stages
    <3> QED
      BY <2>1, <3>1, <1>0, RunFields, Zenon
  <2> QED
    BY <1>9, <2>2, RecordedTyped, RunTyped, JobTyped DEF TypeOK, PageDone
<1>10. ASSUME NEW j \in Jobs, Complete(j) PROVE TypeOK'
  <2>1. [Recorded(j) EXCEPT !.status = "COMPLETED",
             !.errors = IF Full(j) THEN run[j].errors ELSE 0] \in Job
    <3>1. "COMPLETED" \in JobStates
      BY DEF JobStates
    <3>2. (IF Full(j) THEN run[j].errors ELSE 0) \in Nat
      BY <1>0 DEF Run
    <3> QED
      BY <3>1, <3>2, RecordedTyped, JobFields, Zenon
  <2>2. [NoRun EXCEPT !.pc = IF Full(j) /\ run[j].ghosts > 0
                             THEN "dispatch" ELSE "over"] \in Run
    BY IdleTyped DEF Stages
  <2> QED
    BY <1>10, <2>1, <2>2, RunTyped, JobTyped DEF TypeOK, Complete
<1>11. ASSUME NEW j \in Jobs, Failing(j) PROVE TypeOK'
  <2>1. [job[j] EXCEPT !.status = "FAILED"] \in Job
    <3>1. "FAILED" \in JobStates
      BY DEF JobStates
    <3> QED
      BY <3>1, <1>0, JobFields, Zenon
  <2>2. [NoRun EXCEPT !.pc = "over"] \in Run
    BY IdleTyped DEF Stages
  <2> QED
    BY <1>11, <2>1, <2>2, RunTyped, JobTyped DEF TypeOK, Failing
<1>12. ASSUME NEW j \in Jobs, Dispatch(j) PROVE TypeOK'
  <2>1. {i \in DOMAIN alerts : /\ alerts[i].status = "OPEN"
                               /\ alerts[i].age <= Window(j)} \in SUBSET Nat
    BY DEF TypeOK
  <2>2. [run[j] EXCEPT !.pc = "send", !.toSend =
             {i \in DOMAIN alerts : /\ alerts[i].status = "OPEN"
                                    /\ alerts[i].age <= Window(j)}] \in Run
    <3>1. "send" \in Stages
      BY DEF Stages
    <3> QED
      BY <2>1, <3>1, <1>0, RunFields, Zenon
  <2> QED
    BY <1>12, <2>2, RunTyped DEF TypeOK, Dispatch
<1>13. ASSUME NEW j \in Jobs, Send(j) PROVE TypeOK'
  <2>1. [NoRun EXCEPT !.pc = "over"] \in Run
    BY IdleTyped DEF Stages
  <2>2. CASE RunBecomes(j, [NoRun EXCEPT !.pc = "over"]) /\ UNCHANGED alerts
    BY <1>13, <2>1, <2>2, RunTyped DEF TypeOK, Send
  <2>3. ASSUME NEW i \in run[j].toSend,
               AlertBecomes(i, [alerts[i] EXCEPT !.sent = TRUE]),
               RunBecomes(j, [run[j] EXCEPT !.toSend = @ \ {i}])
        PROVE  TypeOK'
    <3>1. [run[j] EXCEPT !.toSend = @ \ {i}] \in Run
      BY <1>0 DEF Run
    <3>2. alerts' \in Seq(Alert)
      <4>1. CASE i \in DOMAIN alerts
        <5>1. alerts[i] \in Alert
          BY <4>1 DEF TypeOK
        <5>2. [alerts[i] EXCEPT !.sent = TRUE] \in Alert
          BY <5>1 DEF Alert
        <5> QED
          BY <2>3, <4>1, <5>2, AlertTyped DEF TypeOK
      <4>2. CASE i \notin DOMAIN alerts
        <5>1. alerts \in [1 .. Len(alerts) -> Alert]
          BY DEF TypeOK
        <5>2. alerts' = alerts
          BY <2>3, <4>2, <5>1 DEF AlertBecomes
        <5> QED
          BY <5>2 DEF TypeOK
      <4> QED
        BY <4>1, <4>2
    <3> QED
      BY <1>13, <2>3, <3>1, <3>2, RunTyped DEF TypeOK, Send
  <2> QED
    BY <1>13, <2>2, <2>3 DEF Send
<1>14. ASSUME NEW j \in Jobs, QueryFails(j) PROVE TypeOK'
  <2>1. [NoRun EXCEPT !.pc = IF Caught(j) THEN "failing" ELSE "over"] \in Run
    BY IdleTyped DEF Stages
  <2>2. run' \in [Jobs -> Run]
    BY <1>14, <2>1, RunTyped DEF TypeOK, QueryFails
  <2>3. faults' \in 0 .. MaxFaults
    BY <1>14 DEF TypeOK, QueryFails
  <2> QED
    BY <1>14, <2>2, <2>3 DEF TypeOK, QueryFails
<1>15. CASE ServerStops
  <2>1. [NoRun EXCEPT !.pc = "over"] \in Run
    BY IdleTyped DEF Stages
  <2>2. run' \in [Jobs -> Run]
    BY <1>15, <2>1, <1>0 DEF ServerStops
  <2>3. faults' \in 0 .. MaxFaults
    BY <1>15 DEF TypeOK, ServerStops
  <2> QED
    BY <1>15, <2>2, <2>3 DEF TypeOK, ServerStops
<1>16. ASSUME NEW a \in Apps, NEW f \in Facts, ChangeFact(a, f) PROVE TypeOK'
  BY <1>16 DEF TypeOK, ChangeFact, Move
<1>17. ASSUME NEW i \in DOMAIN alerts, NEW s \in Settlements, Settle(i, s)
       PROVE  TypeOK'
  <2>1. alerts[i] \in Alert
    BY DEF TypeOK
  <2>2. [alerts[i] EXCEPT !.status = s] \in Alert
    BY <2>1, ReconciliationAssumption DEF Alert
  <2>3. alerts' \in Seq(Alert)
    BY <1>17, <2>2, AlertTyped DEF TypeOK, Settle
  <2>4. moves' \in 0 .. MaxMoves
    BY <1>17 DEF TypeOK, Settle, Move
  <2> QED
    BY <1>17, <2>3, <2>4 DEF TypeOK, Settle
<1>18. CASE TimePasses
  <2>1. \A i \in 1 .. Len(alerts) : Older(alerts[i]) \in Alert
    BY OlderTyped DEF TypeOK
  <2>2. alerts' = [i \in 1 .. Len(alerts) |-> Older(alerts[i])] /\ Len(alerts) \in Nat
    BY <1>18 DEF TypeOK, TimePasses
  <2>3. alerts' \in Seq(Alert)
    BY <2>1, <2>2, IsASeq
  <2>4. moves' \in 0 .. MaxMoves
    BY <1>18 DEF TypeOK, TimePasses, Move
  <2> QED
    BY <1>18, <2>3, <2>4 DEF TypeOK, TimePasses
<1>19. CASE UNCHANGED vars
  BY <1>19 DEF TypeOK, vars
<1>20. ASSUME NEW j \in Jobs, Schedule(j) \/ Trigger(j) \/ \E a \in Apps : EnterManually(j, a)
       PROVE  TypeOK'
  <2>1. "SCHEDULED" \in Kinds /\ "TRIGGERED" \in Kinds /\ "TARGETED" \in Kinds
    BY DEF Kinds
  <2>2. {} \in SUBSET Apps /\ \A a \in Apps : {a} \in SUBSET Apps
    OBVIOUS
  <2>3. CASE Schedule(j)
    BY <1>1, <2>1, <2>2, <2>3 DEF Schedule
  <2>4. CASE Trigger(j)
    BY <1>1, <2>1, <2>2, <2>4 DEF Trigger
  <2>5. ASSUME NEW a \in Apps, EnterManually(j, a) PROVE TypeOK'
    BY <1>1, <2>1, <2>2, <2>5 DEF EnterManually
  <2> QED
    BY <1>20, <2>3, <2>4, <2>5
<1>21. ASSUME NEW j \in Jobs, ReadPage(j) PROVE TypeOK'
  <2>1. run[j].target \in SUBSET Apps
    BY <1>0 DEF Run
  <2>2. PageAt(run[j].offset) \subseteq SUBSET Apps
    BY DEF PageAt, InScope
  <2> QED
    BY <1>4, <1>21, <2>1, <2>2 DEF ReadPage
<1>22. ASSUME NEW j \in Jobs, Check(j) PROVE TypeOK'
  <2>1. Current(j) \subseteq run[j].page
    BY DEF Current
  <2> QED
    BY <1>5, <1>6, <1>7, <1>22, <2>1 DEF Check
<1>23. ASSUME NEW j \in Jobs, Advance(j) PROVE TypeOK'
  BY <1>2, <1>3, <1>9, <1>10, <1>11, <1>12, <1>13, <1>21, <1>22, <1>23 DEF Advance
<1> QED
  BY <1>8, <1>14, <1>15, <1>16, <1>17, <1>18, <1>19, <1>20, <1>23 DEF Next

(***************************************************************************)
(* Job rows, runs, mismatch rows and alerts keep their types, for any      *)
(* number of jobs, applications, failures and outside moves.               *)
(***************************************************************************)
THEOREM TypeCorrect == Spec => []TypeOK
<1>1. TypeOK /\ [Next]_vars => TypeOK'
  BY TypeStep
<1> QED
  BY TypeInit, <1>1, PTL DEF Spec
-----------------------------------------------------------------------------
\* A page holds one copy of an application; two pages with copies of one
\* application overlap; a copy read without an OPEN alert is still right, as
\* long as no other run holds one.
OneCopy == \A j \in Jobs : \A c, d \in run[j].page : c.app = d.app => c = d
Apart == \A j, k \in Jobs : j # k =>
            \A c \in run[j].page : \A d \in run[k].page :
                c.app = d.app => c.app \in overlapped
Unalerted == \A j \in Jobs : \A c \in run[j].page :
                ~c.open /\ c.app \notin overlapped => ~HasOpen(c.app)
WrittenIsDue == \A j \in Jobs : \A c \in run[j].page : c.written => ~c.open

CopyInv == OneCopy /\ Apart /\ Unalerted /\ WrittenIsDue /\ OneOpenUnlessOverlap

\* A step that reads no application, marks no copy and opens no alert.
PagesShrink == \A k \in Jobs : run'[k].page \subseteq run[k].page
AlertsSettle == \A i \in DOMAIN alerts' :
                    /\ i \in DOMAIN alerts /\ alerts'[i].app = alerts[i].app
                    /\ alerts'[i].status = "OPEN" => alerts[i].status = "OPEN"

LEMMA QuietStep ==
    ASSUME CopyInv, PagesShrink, AlertsSettle, UNCHANGED overlapped
    PROVE  CopyInv'
<1>1. OneCopy' /\ Apart' /\ WrittenIsDue'
  BY DEF CopyInv, OneCopy, Apart, WrittenIsDue, PagesShrink
<1>2. \A a : HasOpen(a)' => HasOpen(a)
  BY DEF HasOpen, AlertsSettle
<1>3. Unalerted'
  BY <1>2 DEF CopyInv, Unalerted, PagesShrink
<1>4. OneOpenUnlessOverlap'
  BY DEF CopyInv, OneOpenUnlessOverlap, SameOpenAlert, AlertsSettle
<1> QED
  BY <1>1, <1>3, <1>4 DEF CopyInv

\* The copies a page query returns.
LEMMA FetchCopies ==
    ASSUME TypeOK, CopyInv, NEW j \in Jobs, NEW S \in SUBSET Apps, Fetch(j, S)
    PROVE  CopyInv'
<1>1. /\ run'[j].page = {CopyOf(a) : a \in S}
      /\ \A k \in Jobs \ {j} : run'[k] = run[k]
      /\ alerts' = alerts
  BY DEF TypeOK, Fetch, RunBecomes, Run
<1>2. overlapped \subseteq overlapped' /\ overlapped' \subseteq Apps
  BY DEF TypeOK, Fetch
<1>3. \A a \in S : /\ CopyOf(a).app = a /\ CopyOf(a).open = HasOpen(a)
                    /\ CopyOf(a).written = FALSE
  BY DEF CopyOf
<1>4. \A a : HasOpen(a)' = HasOpen(a)
  BY <1>1 DEF HasOpen
<1>5. OneCopy'
  BY <1>1, <1>3 DEF CopyInv, OneCopy
<1>6. WrittenIsDue'
  BY <1>1, <1>3 DEF CopyInv, WrittenIsDue
<1>7. Unalerted'
  BY <1>1, <1>2, <1>3, <1>4 DEF CopyInv, Unalerted
<1>8. Apart'
  <2>1. ASSUME NEW a \in S, NEW k \in Jobs, k # j, NEW d \in run[k].page, d.app = a
        PROVE  a \in overlapped'
    BY <2>1 DEF Fetch, Held
  <2> QED
    BY <1>1, <1>2, <1>3, <2>1 DEF CopyInv, Apart
<1>9. OneOpenUnlessOverlap'
  BY <1>1, <1>2 DEF CopyInv, OneOpenUnlessOverlap, SameOpenAlert
<1> QED
  BY <1>5, <1>6, <1>7, <1>8, <1>9 DEF CopyInv

\* Writing the row of a ghost only marks its copy.
LEMMA WriteRowCopies ==
    ASSUME TypeOK, CopyInv, NEW j \in Jobs, NEW c \in run[j].page, WriteRow(j, c)
    PROVE  CopyInv'
<1>0. run[j] \in Run /\ c \in Copy /\ alerts' = alerts /\ overlapped' = overlapped
  BY DEF TypeOK, Run, WriteRow
<1>1. CASE RunBecomes(j, Checked(run[j], c))
  <2>1. run'[j] = Checked(run[j], c) /\ \A k \in Jobs \ {j} : run'[k] = run[k]
    BY <1>1 DEF TypeOK, RunBecomes
  <2>2. PagesShrink
    BY <1>0, <2>1, CheckedTyped DEF PagesShrink
  <2> QED
    BY <1>0, <2>2, QuietStep DEF AlertsSettle
<1>2. ASSUME IsGhost(c.fact) /\ ~c.open,
             RunBecomes(j, [run[j] EXCEPT !.page = (run[j].page \ {c}) \cup
                                                   {[c EXCEPT !.written = TRUE]}])
      PROVE  CopyInv'
  <2> DEFINE e == [c EXCEPT !.written = TRUE]
  <2>1. e.app = c.app /\ e.open = c.open
    BY <1>0 DEF Copy
  <2>2. /\ run'[j].page = (run[j].page \ {c}) \cup {e}
        /\ \A k \in Jobs \ {j} : run'[k] = run[k]
    BY <1>0, <1>2 DEF TypeOK, RunBecomes, Run
  <2> HIDE DEF e
  <2>3. \A k \in Jobs : \A d \in run'[k].page :
           d \in run[k].page \/ (k = j /\ d = e)
    BY <2>2
  <2>4. OneCopy'
    BY <2>1, <2>2, <2>3 DEF CopyInv, OneCopy
  <2>5. Apart'
    BY <1>0, <2>1, <2>3 DEF CopyInv, Apart
  <2>6. \A a : HasOpen(a)' = HasOpen(a)
    BY <1>0 DEF HasOpen
  <2>7. Unalerted'
    BY <1>0, <2>1, <2>3, <2>6 DEF CopyInv, Unalerted
  <2>8. WrittenIsDue'
    BY <1>2, <2>1, <2>3 DEF CopyInv, WrittenIsDue
  <2>9. OneOpenUnlessOverlap'
    BY <1>0 DEF CopyInv, OneOpenUnlessOverlap, SameOpenAlert
  <2> QED
    BY <2>4, <2>5, <2>7, <2>8, <2>9 DEF CopyInv
<1> QED
  BY <1>1, <1>2 DEF WriteRow

\* The alert opened for a copy is the first OPEN one of its application, unless
\* another run holds a copy too.
LEMMA OpenAlertCopies ==
    ASSUME TypeOK, CopyInv, NEW j \in Jobs, NEW c \in run[j].page, OpenAlert(j, c)
    PROVE  CopyInv'
<1> DEFINE new == [app |-> c.app, by |-> j, age |-> 0, sent |-> FALSE,
                   status |-> "OPEN"]
<1>0. run[j] \in Run /\ c \in Copy /\ overlapped' = overlapped /\ c.written
  BY DEF TypeOK, Run, OpenAlert
<1>1. /\ run'[j].page = run[j].page \ {c}
      /\ \A k \in Jobs \ {j} : run'[k] = run[k]
  BY <1>0, CheckedTyped DEF TypeOK, OpenAlert, RunBecomes
<1>2. PagesShrink
  BY <1>1 DEF PagesShrink
<1>3. new \in Alert
  BY <1>0 DEF Alert, Copy
<1>4. alerts' = Append(alerts, new) /\ alerts \in Seq(Alert)
  BY DEF TypeOK, OpenAlert
<1>5. new.app = c.app
  OBVIOUS
<1> HIDE DEF new
<1>6. \A i \in DOMAIN alerts' :
         \/ i \in DOMAIN alerts /\ alerts'[i] = alerts[i]
         \/ i = Len(alerts) + 1 /\ alerts'[i] = new
  BY <1>3, <1>4
<1>7. OneCopy' /\ Apart' /\ WrittenIsDue'
  BY <1>0, <1>2 DEF CopyInv, OneCopy, Apart, WrittenIsDue, PagesShrink
<1>8. c.app \notin overlapped => ~HasOpen(c.app)
  BY <1>0 DEF CopyInv, WrittenIsDue, Unalerted
<1>9. \A a : a # c.app => (HasOpen(a)' => HasOpen(a))
  BY <1>5, <1>6 DEF HasOpen
<1>10. ASSUME NEW k \in Jobs, NEW d \in run'[k].page, d.app = c.app
       PROVE  c.app \in overlapped
  <2>1. d \in run[k].page
    BY <1>2 DEF PagesShrink
  <2>2. k # j
    BY <1>1, <1>10, <2>1 DEF CopyInv, OneCopy
  <2> QED
    BY <1>10, <2>1, <2>2 DEF CopyInv, Apart
<1>11. Unalerted'
  BY <1>0, <1>2, <1>9, <1>10 DEF CopyInv, Unalerted, PagesShrink
<1>12. OneOpenUnlessOverlap'
  BY <1>0, <1>5, <1>6, <1>8
     DEF CopyInv, OneOpenUnlessOverlap, SameOpenAlert, HasOpen
<1> QED
  BY <1>7, <1>11, <1>12 DEF CopyInv

\* The records a run or a job becomes, as the next state holds them.
LEMMA RunNow ==
    ASSUME TypeOK, NEW j \in Jobs, NEW r, RunBecomes(j, r)
    PROVE  run'[j] = r /\ \A k \in Jobs \ {j} : run'[k] = run[k]
BY DEF TypeOK, RunBecomes

LEMMA JobNow ==
    ASSUME TypeOK, NEW j \in Jobs, NEW r, JobBecomes(j, r)
    PROVE  job'[j] = r /\ \A k \in Jobs \ {j} : job'[k] = job[k]
BY DEF TypeOK, JobBecomes

LEMMA NoRunPage ==
    /\ NoRun.page = {} /\ NoRun.pc = "none" /\ NoRun.errors = 0
    /\ NoRun.mismatches = 0 /\ NoRun.ghosts = 0
    /\ \A x, y : /\ [NoRun EXCEPT !.pc = x].page = {}
                 /\ [NoRun EXCEPT !.pc = x].pc = x
                 /\ [NoRun EXCEPT !.pc = x, !.target = y].page = {}
                 /\ [NoRun EXCEPT !.pc = x, !.target = y].pc = x
                 /\ [NoRun EXCEPT !.pc = x, !.target = y].errors = 0
                 /\ [NoRun EXCEPT !.pc = x, !.target = y].mismatches = 0
                 /\ [NoRun EXCEPT !.pc = x, !.target = y].ghosts = 0
BY DEF NoRun

LEMMA CopyStep == TypeOK /\ CopyInv /\ [Next]_vars => CopyInv'
<1> SUFFICES ASSUME TypeOK, CopyInv, [Next]_vars PROVE CopyInv'
  OBVIOUS
<1>0. \A j \in Jobs : run[j] \in Run /\ job[j] \in Job
  BY DEF TypeOK
<1>1. ASSUME UNCHANGED <<alerts, overlapped>>, PagesShrink PROVE CopyInv'
  BY <1>1, QuietStep DEF AlertsSettle
<1>2. ASSUME NEW j \in Jobs, NEW r, RunBecomes(j, r), r.page \subseteq run[j].page
      PROVE  PagesShrink
  BY <1>2, RunNow DEF PagesShrink
<1>3. ASSUME NEW j \in Jobs, NEW kind, NEW target, Create(j, kind, target)
      PROVE  CopyInv'
  BY <1>1, <1>2, <1>3, NoRunPage DEF Create
<1>4. ASSUME NEW j \in Jobs, Begin(j) PROVE CopyInv'
  <2>1. [run[j] EXCEPT !.pc = IF Full(j) THEN "count" ELSE "page"].page = run[j].page
    BY <1>0 DEF Run
  <2> QED
    BY <1>1, <1>2, <1>4, <2>1 DEF Begin
<1>5. ASSUME NEW j \in Jobs, Count(j) PROVE CopyInv'
  <2>1. \A x, y : [run[j] EXCEPT !.total = x, !.pc = y].page = run[j].page
    BY <1>0 DEF Run
  <2> QED
    BY <1>1, <1>2, <1>5, <2>1 DEF Count
<1>6. ASSUME NEW j \in Jobs, ReadPage(j) PROVE CopyInv'
  <2>1. run[j].target \in SUBSET Apps
    BY <1>0 DEF Run
  <2>2. PageAt(run[j].offset) \subseteq SUBSET Apps
    BY DEF PageAt, InScope
  <2> QED
    BY <1>6, <2>1, <2>2, FetchCopies DEF ReadPage
<1>7. ASSUME NEW j \in Jobs, Check(j) PROVE CopyInv'
  <2>1. PICK c \in run[j].page : CheckClean(j, c) \/ WriteRow(j, c) \/ OpenAlert(j, c)
    BY <1>7 DEF Check, Current
  <2>2. CASE CheckClean(j, c)
    <3>1. Checked(run[j], c).page \subseteq run[j].page
      BY <1>0, CheckedTyped
    <3> QED
      BY <1>1, <1>2, <2>2, <3>1 DEF CheckClean
  <2> QED
    BY <2>1, <2>2, WriteRowCopies, OpenAlertCopies
<1>8. ASSUME NEW j \in Jobs, CheckFails(j) PROVE CopyInv'
  <2>1. PICK c \in Current(j) :
          RunBecomes(j, [run[j] EXCEPT !.page = @ \ {c}, !.errors = @ + 1])
    BY <1>8 DEF CheckFails
  <2>2. [run[j] EXCEPT !.page = @ \ {c}, !.errors = @ + 1].page = run[j].page \ {c}
    BY <1>0 DEF Run
  <2>3. PagesShrink
    BY <2>1, <2>2, RunNow DEF PagesShrink
  <2> QED
    BY <1>1, <1>8, <2>3 DEF CheckFails
<1>9. ASSUME NEW j \in Jobs, PageDone(j) PROVE CopyInv'
  <2>1. \A x, y : [run[j] EXCEPT !.offset = x, !.pc = y].page = run[j].page
    BY <1>0 DEF Run
  <2> QED
    BY <1>1, <1>2, <1>9, <2>1 DEF PageDone
<1>10. ASSUME NEW j \in Jobs, Complete(j) \/ Failing(j) \/ QueryFails(j)
       PROVE  CopyInv'
  BY <1>1, <1>2, <1>10, NoRunPage DEF Complete, Failing, QueryFails
<1>11. ASSUME NEW j \in Jobs, Dispatch(j) PROVE CopyInv'
  <2>1. \A x, y : [run[j] EXCEPT !.pc = x, !.toSend = y].page = run[j].page
    BY <1>0 DEF Run
  <2> QED
    BY <1>1, <1>2, <1>11, <2>1 DEF Dispatch
<1>12. ASSUME NEW i, NEW r, AlertBecomes(i, r),
              i \in DOMAIN alerts => r.app = alerts[i].app /\
                 (r.status = "OPEN" => alerts[i].status = "OPEN")
       PROVE  AlertsSettle
  <2>1. /\ DOMAIN alerts' = DOMAIN alerts
        /\ \A k \in DOMAIN alerts : alerts'[k] = IF k = i THEN r ELSE alerts[k]
    <3>1. alerts \in [1 .. Len(alerts) -> Alert]
      BY DEF TypeOK
    <3> QED
      BY <3>1, <1>12 DEF AlertBecomes
  <2> QED
    BY <1>12, <2>1 DEF AlertsSettle
<1>13. ASSUME NEW j \in Jobs, Send(j) PROVE CopyInv'
  <2>1. CASE RunBecomes(j, [NoRun EXCEPT !.pc = "over"]) /\ UNCHANGED alerts
    BY <1>1, <1>2, <1>13, <2>1, NoRunPage DEF Send
  <2>2. ASSUME NEW i \in run[j].toSend,
               AlertBecomes(i, [alerts[i] EXCEPT !.sent = TRUE]),
               RunBecomes(j, [run[j] EXCEPT !.toSend = @ \ {i}])
        PROVE  CopyInv'
    <3>1. [run[j] EXCEPT !.toSend = @ \ {i}].page = run[j].page
      BY <1>0 DEF Run
    <3>2. PagesShrink
      BY <1>2, <2>2, <3>1
    <3>3. i \in DOMAIN alerts => alerts[i] \in Alert
      BY DEF TypeOK
    <3>4. AlertsSettle
      BY <1>12, <2>2, <3>3 DEF Alert
    <3> QED
      BY <1>13, <3>2, <3>4, QuietStep DEF Send
  <2> QED
    BY <1>13, <2>1, <2>2 DEF Send
<1>14. CASE ServerStops
  <2>1. PagesShrink
    BY <1>14, NoRunPage DEF ServerStops, PagesShrink
  <2> QED
    BY <1>1, <1>14, <2>1 DEF ServerStops
<1>15. ASSUME NEW a, NEW f, ChangeFact(a, f) PROVE CopyInv'
  BY <1>1, <1>15 DEF ChangeFact, PagesShrink
<1>16. ASSUME NEW i \in DOMAIN alerts, NEW s \in Settlements, Settle(i, s)
       PROVE  CopyInv'
  <2>1. alerts[i] \in Alert /\ s # "OPEN"
    BY ReconciliationAssumption DEF TypeOK
  <2>2. AlertsSettle
    BY <1>12, <1>16, <2>1 DEF Settle, Alert
  <2> QED
    BY <1>16, <2>2, QuietStep DEF Settle, PagesShrink
<1>17. CASE TimePasses
  <2>1. AlertsSettle
    BY <1>17, OlderTyped DEF TypeOK, TimePasses, AlertsSettle
  <2> QED
    BY <1>17, <2>1, QuietStep DEF TimePasses, PagesShrink
<1>18. CASE UNCHANGED vars
  BY <1>1, <1>18 DEF vars, PagesShrink
<1>19. ASSUME NEW j \in Jobs, Schedule(j) \/ Trigger(j) \/ \E a \in Apps : EnterManually(j, a)
       PROVE  CopyInv'
  BY <1>3, <1>19 DEF Schedule, Trigger, EnterManually
<1>20. ASSUME NEW j \in Jobs, Advance(j) PROVE CopyInv'
  BY <1>4, <1>5, <1>6, <1>7, <1>9, <1>10, <1>11, <1>13, <1>20 DEF Advance
<1> QED
  BY <1>8, <1>10, <1>14, <1>15, <1>16, <1>17, <1>18, <1>19, <1>20 DEF Next

LEMMA CopyInit == Init => CopyInv
<1> SUFFICES ASSUME Init PROVE CopyInv
  OBVIOUS
<1>1. /\ \A j \in Jobs : run[j].page = {}
      /\ DOMAIN alerts = {}
  BY NoRunPage DEF Init
<1> QED
  BY <1>1 DEF CopyInv, OneCopy, Apart, Unalerted, WrittenIsDue, OneOpenUnlessOverlap

(***************************************************************************)
(* With any number of runs side by side, an application no two runs ever   *)
(* held a copy of at a time never has two OPEN alerts: the check of the    *)
(* copy is enough but for the overlap.                                     *)
(***************************************************************************)
THEOREM OneOpenTheorem == Spec => []OneOpenUnlessOverlap
<1>1. Init => TypeOK /\ CopyInv
  BY TypeInit, CopyInit
<1>2. TypeOK /\ CopyInv /\ [Next]_vars => TypeOK' /\ CopyInv'
  BY TypeStep, CopyStep
<1>3. CopyInv => OneOpenUnlessOverlap
  BY DEF CopyInv
<1> QED
  BY <1>1, <1>2, <1>3, PTL DEF Spec
-----------------------------------------------------------------------------
\* What a run has counted so far against the rows it has written: one row may
\* be ahead of the count, that of a ghost whose alert is due.  r, b and w are
\* the run, the job row and the mismatch rows of one job.
Due(r) == IF \E c \in r.page : c.written THEN 1 ELSE 0
Counting == {"begin", "count", "page", "check", "complete"}
Balanced(r, w) ==
    /\ r.ghosts <= r.mismatches
    /\ r.mismatches + Due(r) <= Len(w)
    /\ Len(w) <= r.mismatches + r.errors + Due(r)
PageInOrder(r) ==
    /\ r.pc # "check" => r.page = {}
    /\ \A c \in r.page : c.written => IsMismatch(c.fact)
    /\ \A c, d \in r.page : c.written /\ d.written => c = d
Reported(b, w) ==
    /\ b.ghosts <= b.mismatches
    /\ b.mismatches <= Len(w)
    /\ b.kind # "TARGETED" => Len(w) <= b.mismatches + b.errors
InStep(r, b, w) ==
    /\ r.pc \in Counting => b.status \in {"PENDING", "RUNNING"} /\ Balanced(r, w)
    /\ PageInOrder(r)
    /\ b.status = "NONE" => r.pc = "none" /\ w = <<>>
    /\ b.status = "COMPLETED" => r.pc \in {"dispatch", "send", "over"} /\ Reported(b, w)

Ledger == \A j \in Jobs : InStep(run[j], job[j], rows[j])

LEMMA Elsewhere ==
    ASSUME Ledger, NEW j \in Jobs,
           \A k \in Jobs \ {j} : /\ run'[k] = run[k] /\ job'[k] = job[k]
                                 /\ rows'[k] = rows[k],
           InStep(run'[j], job'[j], rows'[j])
    PROVE  Ledger'
<1>1. ASSUME NEW k \in Jobs PROVE InStep(run'[k], job'[k], rows'[k])
  BY DEF Ledger
<1> QED
  BY <1>1 DEF Ledger

LEMMA LedgerTyped ==
    ASSUME TypeOK, NEW j \in Jobs
    PROVE  /\ run[j] \in Run /\ job[j] \in Job /\ Len(rows[j]) \in Nat
           /\ run[j].mismatches \in Nat /\ run[j].ghosts \in Nat
           /\ run[j].errors \in Nat /\ Due(run[j]) \in 0 .. 1
BY DEF TypeOK, Run, Due

\* While a run checks its page, it is balanced and its job is open.
LEMMA CheckingInStep ==
    ASSUME TypeOK, Ledger, NEW j \in Jobs, run[j].pc = "check",
           NEW c \in Current(j)
    PROVE  /\ Balanced(run[j], rows[j]) /\ PageInOrder(run[j])
           /\ job[j].status \in {"PENDING", "RUNNING"}
           /\ c \in run[j].page /\ c \in Copy
           /\ Due(run[j]) = IF c.written THEN 1 ELSE 0
           /\ \A d \in run[j].page \ {c} : ~d.written
           /\ c.written => IsMismatch(c.fact)
<1>1. /\ Balanced(run[j], rows[j]) /\ PageInOrder(run[j])
      /\ job[j].status \in {"PENDING", "RUNNING"}
  BY DEF Ledger, InStep, Counting
<1>2. c \in run[j].page /\ c \in Copy
  BY LedgerTyped DEF Current, Run
<1>3. Due(run[j]) = IF c.written THEN 1 ELSE 0
  BY <1>2 DEF Due, Current
<1>4. \A d \in run[j].page \ {c} : ~d.written
  BY <1>1, <1>2 DEF Current, PageInOrder
<1> QED
  BY <1>1, <1>2, <1>3, <1>4 DEF PageInOrder

\* A checking run without a written copy is in step when it is balanced.
LEMMA CheckInStep ==
    ASSUME NEW r, NEW b, NEW w, b.status \in {"PENDING", "RUNNING"},
           r.pc = "check", PageInOrder(r), Balanced(r, w)
    PROVE  InStep(r, b, w)
BY DEF InStep

\* The steps of a check.
LEMMA CheckedLedger ==
    ASSUME TypeOK, Ledger, NEW j \in Jobs, run[j].pc = "check",
           NEW c \in Current(j), NEW w,
           Len(w) = Len(rows[j]) + Points(IsMismatch(c.fact) /\ ~c.written, 1)
    PROVE  InStep(Checked(run[j], c), job[j], w)
<1> DEFINE r == Checked(run[j], c)
<1>1. /\ r.pc = "check" /\ r.page = run[j].page \ {c}
      /\ r.mismatches = run[j].mismatches + Points(IsMismatch(c.fact), 1)
      /\ r.ghosts = run[j].ghosts + Points(IsGhost(c.fact), 1)
      /\ r.errors = run[j].errors
  BY CheckingInStep, CheckedTyped, LedgerTyped
<1> HIDE DEF r
<1>2. Due(r) = 0
  BY <1>1, CheckingInStep DEF Due
<1>3. PageInOrder(r)
  BY <1>1, CheckingInStep DEF PageInOrder
<1>4. /\ run[j].ghosts <= run[j].mismatches
      /\ run[j].mismatches + Due(run[j]) <= Len(rows[j])
      /\ Len(rows[j]) <= run[j].mismatches + run[j].errors + Due(run[j])
  BY CheckingInStep DEF Balanced
<1>5. Points(IsGhost(c.fact), 1) <= Points(IsMismatch(c.fact), 1)
  BY GhostIsMismatch DEF Points
<1>6. CASE IsMismatch(c.fact)
  <2>1. /\ Points(IsMismatch(c.fact), 1) = 1
        /\ Len(w) = Len(rows[j]) + 1 - Due(run[j])
    <3>1. CASE c.written
      <4>1. Points(IsMismatch(c.fact) /\ ~c.written, 1) = 0 /\ Due(run[j]) = 1
        BY <3>1, CheckingInStep DEF Points
      <4>2. Points(IsMismatch(c.fact), 1) = 1
        BY <1>6 DEF Points
      <4>3. Len(w) = Len(rows[j]) + 1 - Due(run[j])
        BY <4>1, LedgerTyped
      <4> QED
        BY <4>2, <4>3
    <3>2. CASE ~c.written
      <4>1. Points(IsMismatch(c.fact) /\ ~c.written, 1) = 1 /\ Due(run[j]) = 0
        BY <1>6, <3>2, CheckingInStep DEF Points
      <4>2. Points(IsMismatch(c.fact), 1) = 1
        BY <1>6 DEF Points
      <4>3. Len(w) = Len(rows[j]) + 1 - Due(run[j])
        BY <4>1, LedgerTyped
      <4> QED
        BY <4>2, <4>3
    <3> QED
      BY <3>1, <3>2
  <2>2. Points(IsGhost(c.fact), 1) \in 0 .. 1
    BY DEF Points
  <2>3. Balanced(r, w)
    BY <1>1, <1>2, <1>4, <2>1, <2>2, LedgerTyped DEF Balanced
  <2> QED
    BY <1>1, <1>3, <2>3, CheckingInStep, CheckInStep DEF r
<1>7. CASE ~IsMismatch(c.fact)
  <2>1. /\ Points(IsMismatch(c.fact), 1) = 0 /\ Points(IsGhost(c.fact), 1) = 0
        /\ Len(w) = Len(rows[j]) /\ Due(run[j]) = 0
    BY <1>7, CheckingInStep, LedgerTyped, GhostIsMismatch DEF Points
  <2>2. Balanced(r, w)
    BY <1>1, <1>2, <1>4, <2>1, LedgerTyped DEF Balanced
  <2> QED
    BY <1>1, <1>3, <2>2, CheckingInStep, CheckInStep DEF r
<1> QED
  BY <1>6, <1>7

LEMMA MarkedLedger ==
    ASSUME TypeOK, Ledger, NEW j \in Jobs, run[j].pc = "check",
           NEW c \in Current(j), ~c.written, IsMismatch(c.fact),
           NEW w, Len(w) = Len(rows[j]) + 1
    PROVE  InStep([run[j] EXCEPT !.page = (run[j].page \ {c}) \cup
                                          {[c EXCEPT !.written = TRUE]}],
                  job[j], w)
<1> DEFINE e == [c EXCEPT !.written = TRUE]
           r == [run[j] EXCEPT !.page = (run[j].page \ {c}) \cup {e}]
<1>1. e.written /\ e.fact = c.fact
  BY CheckingInStep DEF Copy
<1>2. /\ r.pc = "check" /\ r.page = (run[j].page \ {c}) \cup {e}
      /\ r.mismatches = run[j].mismatches /\ r.ghosts = run[j].ghosts
      /\ r.errors = run[j].errors
  BY LedgerTyped DEF Run
<1> HIDE DEF e, r
<1>3. Due(r) = 1 /\ Due(run[j]) = 0
  BY <1>1, <1>2, CheckingInStep DEF Due
<1>4. PageInOrder(r)
  BY <1>1, <1>2, CheckingInStep DEF PageInOrder
<1>5. Balanced(r, w)
  BY <1>2, <1>3, CheckingInStep, LedgerTyped DEF Balanced
<1>6. InStep(r, job[j], w)
  BY <1>2, <1>4, <1>5, CheckingInStep, CheckInStep
<1> QED
  BY <1>6 DEF r, e

\* A check that fails leaves at most one row the run has not counted.
LEMMA FailedLedger ==
    ASSUME TypeOK, Ledger, NEW j \in Jobs, run[j].pc = "check",
           NEW c \in Current(j)
    PROVE  InStep([run[j] EXCEPT !.page = @ \ {c}, !.errors = @ + 1],
                  job[j], rows[j])
<1> DEFINE r == [run[j] EXCEPT !.page = @ \ {c}, !.errors = @ + 1]
<1>1. /\ r.pc = "check" /\ r.page = run[j].page \ {c}
      /\ r.mismatches = run[j].mismatches /\ r.ghosts = run[j].ghosts
      /\ r.errors = run[j].errors + 1
  <2>1. \A x, y : /\ [run[j] EXCEPT !.page = x, !.errors = y].page = x
                  /\ [run[j] EXCEPT !.page = x, !.errors = y].errors = y
                  /\ [run[j] EXCEPT !.page = x, !.errors = y].pc = run[j].pc
                  /\ [run[j] EXCEPT !.page = x, !.errors = y].ghosts = run[j].ghosts
                  /\ [run[j] EXCEPT !.page = x, !.errors = y].mismatches
                        = run[j].mismatches
    BY LedgerTyped DEF Run
  <2> QED
    BY <2>1
<1> HIDE DEF r
<1>2. Due(r) = 0
  BY <1>1, CheckingInStep DEF Due
<1>3. PageInOrder(r)
  BY <1>1, CheckingInStep DEF PageInOrder
<1>4. Balanced(r, rows[j])
  BY <1>1, <1>2, CheckingInStep, LedgerTyped DEF Balanced
<1>5. InStep(r, job[j], rows[j])
  BY <1>1, <1>3, <1>4, CheckingInStep, CheckInStep
<1> QED
  BY <1>5 DEF r

\* Fields of what a run and a job become.
LEMMA RecordedFields ==
    ASSUME TypeOK, NEW j \in Jobs
    PROVE  /\ Recorded(j).mismatches = run[j].mismatches
           /\ Recorded(j).ghosts = run[j].ghosts
           /\ \A x, y : LET b == [Recorded(j) EXCEPT !.status = x, !.errors = y]
                       IN  /\ b.status = x /\ b.errors = y /\ b.kind = job[j].kind
                           /\ b.mismatches = run[j].mismatches
                           /\ b.ghosts = run[j].ghosts
<1>1. Recorded(j) \in Job /\ Recorded(j).kind = job[j].kind
  BY RecordedTyped
<1>2. Recorded(j).mismatches = run[j].mismatches
  BY LedgerTyped DEF Recorded, Job
<1>3. Recorded(j).ghosts = run[j].ghosts
  BY LedgerTyped DEF Recorded, Job
<1>4. ASSUME NEW x, NEW y
      PROVE  LET b == [Recorded(j) EXCEPT !.status = x, !.errors = y]
             IN  /\ b.status = x /\ b.errors = y /\ b.kind = job[j].kind
                 /\ b.mismatches = run[j].mismatches /\ b.ghosts = run[j].ghosts
  BY <1>1, <1>2, <1>3 DEF Job
<1> QED
  BY <1>2, <1>3, <1>4

\* A run that goes on with an empty page, or to its first one, stays in step.
LEMMA OpenInStep ==
    ASSUME NEW r, NEW b, NEW w, b.status \in {"PENDING", "RUNNING"},
           r.page = {}, r.pc \in Counting => Balanced(r, w)
    PROVE  InStep(r, b, w)
BY DEF InStep, PageInOrder

LEMMA LedgerStep == TypeOK /\ Ledger /\ [Next]_vars => Ledger'
<1> SUFFICES ASSUME TypeOK, Ledger, [Next]_vars PROVE Ledger'
  OBVIOUS
<1>0. \A j \in Jobs : run[j] \in Run /\ job[j] \in Job
  BY DEF TypeOK
<1>1. ASSUME NEW j \in Jobs, NEW r, RunBecomes(j, r), UNCHANGED <<job, rows>>,
             InStep(r, job[j], rows[j])
      PROVE  Ledger'
  BY <1>1, RunNow, Elsewhere
<1>2. ASSUME NEW j \in Jobs, NEW r, RunBecomes(j, r), NEW b, JobBecomes(j, b),
             UNCHANGED rows, InStep(r, b, rows[j])
      PROVE  Ledger'
  BY <1>2, RunNow, JobNow, Elsewhere
<1>3. ASSUME NEW j \in Jobs, NEW kind, NEW target, Create(j, kind, target)
      PROVE  Ledger'
  <2> DEFINE r == [NoRun EXCEPT !.pc = "begin", !.target = target]
             b == [NoJob EXCEPT !.status = "PENDING", !.kind = kind]
  <2>1. b.status = "PENDING"
    BY DEF NoJob
  <2>2. /\ r.page = {} /\ r.pc = "begin" /\ r.errors = 0
        /\ r.mismatches = 0 /\ r.ghosts = 0
    BY NoRunPage
  <2>3. Len(rows[j]) = 0
    BY <1>3 DEF Create, Ledger, InStep
  <2>4. RunBecomes(j, r) /\ JobBecomes(j, b) /\ UNCHANGED rows
    BY <1>3 DEF Create
  <2> HIDE DEF r, b
  <2>5. Due(r) = 0
    BY <2>2 DEF Due
  <2>6. Balanced(r, rows[j])
    BY <2>2, <2>3, <2>5 DEF Balanced
  <2> QED
    BY <1>2, <2>1, <2>2, <2>4, <2>6, OpenInStep
<1>4. ASSUME NEW j \in Jobs, Begin(j) PROVE Ledger'
  <2> DEFINE r == [run[j] EXCEPT !.pc = IF Full(j) THEN "count" ELSE "page"]
             b == [job[j] EXCEPT !.status = "RUNNING"]
  <2>1. b.status = "RUNNING"
    BY <1>0 DEF Job
  <2>2. /\ r.page = run[j].page /\ r.errors = run[j].errors
        /\ r.mismatches = run[j].mismatches /\ r.ghosts = run[j].ghosts
    BY <1>0 DEF Run
  <2>3. RunBecomes(j, r) /\ JobBecomes(j, b) /\ UNCHANGED rows
    BY <1>4 DEF Begin
  <2>4. run[j].page = {} /\ Balanced(run[j], rows[j])
    BY <1>4 DEF Begin, Ledger, InStep, PageInOrder, Counting
  <2> HIDE DEF r, b
  <2>5. Balanced(r, rows[j])
    BY <2>2, <2>4 DEF Balanced, Due
  <2> QED
    BY <1>2, <2>1, <2>2, <2>3, <2>4, <2>5, OpenInStep
<1>5. ASSUME NEW j \in Jobs, Count(j) PROVE Ledger'
  <2> DEFINE r == [run[j] EXCEPT !.total = Cardinality(InScope),
                       !.pc = IF InScope = {} THEN "complete" ELSE "page"]
  <2>1. /\ r.page = run[j].page /\ r.errors = run[j].errors
        /\ r.mismatches = run[j].mismatches /\ r.ghosts = run[j].ghosts
    <3>1. \A x, y : /\ [run[j] EXCEPT !.total = x, !.pc = y].page = run[j].page
                    /\ [run[j] EXCEPT !.total = x, !.pc = y].errors = run[j].errors
                    /\ [run[j] EXCEPT !.total = x, !.pc = y].ghosts = run[j].ghosts
                    /\ [run[j] EXCEPT !.total = x, !.pc = y].mismatches
                          = run[j].mismatches
      BY <1>0 DEF Run
    <3> QED
      BY <3>1
  <2>2. /\ run[j].page = {} /\ Balanced(run[j], rows[j])
        /\ job[j].status \in {"PENDING", "RUNNING"}
    BY <1>5 DEF Count, Ledger, InStep, PageInOrder, Counting
  <2>3. RunBecomes(j, r) /\ UNCHANGED <<job, rows>>
    BY <1>5 DEF Count
  <2> HIDE DEF r
  <2>4. Balanced(r, rows[j])
    BY <2>1, <2>2 DEF Balanced, Due
  <2> QED
    BY <1>1, <2>1, <2>2, <2>3, <2>4, OpenInStep
<1>6. ASSUME NEW j \in Jobs, NEW S, run[j].pc = "page", Fetch(j, S) PROVE Ledger'
  <2> DEFINE r == [run[j] EXCEPT !.pc = "check", !.page = {CopyOf(a) : a \in S}]
  <2>1. /\ r.pc = "check" /\ r.page = {CopyOf(a) : a \in S}
        /\ r.errors = run[j].errors
        /\ r.mismatches = run[j].mismatches /\ r.ghosts = run[j].ghosts
    <3>1. \A x, y : /\ [run[j] EXCEPT !.pc = x, !.page = y].page = y
                    /\ [run[j] EXCEPT !.pc = x, !.page = y].pc = x
                    /\ [run[j] EXCEPT !.pc = x, !.page = y].errors = run[j].errors
                    /\ [run[j] EXCEPT !.pc = x, !.page = y].ghosts = run[j].ghosts
                    /\ [run[j] EXCEPT !.pc = x, !.page = y].mismatches
                          = run[j].mismatches
      BY <1>0 DEF Run
    <3> QED
      BY <3>1
  <2>2. /\ run[j].page = {} /\ Balanced(run[j], rows[j])
        /\ job[j].status \in {"PENDING", "RUNNING"}
    BY <1>6 DEF Ledger, InStep, PageInOrder, Counting
  <2>3. RunBecomes(j, r) /\ UNCHANGED <<job, rows>>
    BY <1>6 DEF Fetch
  <2>4. \A c \in r.page : ~c.written
    BY <2>1 DEF CopyOf
  <2> HIDE DEF r
  <2>5. PageInOrder(r)
    BY <2>1, <2>4 DEF PageInOrder
  <2>6. Due(r) = 0 /\ Due(run[j]) = 0
    BY <2>2, <2>4 DEF Due
  <2>7. Balanced(r, rows[j])
    BY <2>1, <2>2, <2>6 DEF Balanced
  <2> QED
    BY <1>1, <2>1, <2>2, <2>3, <2>5, <2>7, CheckInStep
<1>7. ASSUME NEW j \in Jobs, Check(j) PROVE Ledger'
  <2>1. PICK c \in Current(j) : CheckClean(j, c) \/ WriteRow(j, c) \/ OpenAlert(j, c)
    BY <1>7 DEF Check
  <2>2. run[j].pc = "check" /\ UNCHANGED job
    BY <1>7, <2>1 DEF Check, CheckClean, WriteRow, OpenAlert
  <2>3. CASE CheckClean(j, c) \/ OpenAlert(j, c)
    <3>1. Points(IsMismatch(c.fact) /\ ~c.written, 1) = 0
      BY <2>3 DEF Points, CheckClean, OpenAlert
    <3>2. InStep(Checked(run[j], c), job[j], rows[j])
      BY <2>2, <3>1, CheckedLedger, LedgerTyped
    <3> QED
      BY <1>1, <2>3, <3>2 DEF CheckClean, OpenAlert
  <2>4. CASE WriteRow(j, c)
    <3>1. /\ Len(rows'[j]) = Len(rows[j]) + 1
          /\ \A k \in Jobs \ {j} : rows'[k] = rows[k]
      BY <2>4 DEF TypeOK, WriteRow
    <3>2. Points(IsMismatch(c.fact) /\ ~c.written, 1) = 1
      BY <2>4 DEF Points, WriteRow
    <3>3. ASSUME NEW r, RunBecomes(j, r), InStep(r, job[j], rows'[j])
          PROVE  Ledger'
      BY <2>2, <3>1, <3>3, RunNow, Elsewhere
    <3>4. InStep(Checked(run[j], c), job[j], rows'[j])
      BY <2>2, <3>1, <3>2, CheckedLedger
    <3>5. InStep([run[j] EXCEPT !.page = (run[j].page \ {c}) \cup
                                         {[c EXCEPT !.written = TRUE]}],
                 job[j], rows'[j])
      BY <2>2, <2>4, <3>1, MarkedLedger DEF WriteRow
    <3> QED
      BY <2>4, <3>3, <3>4, <3>5 DEF WriteRow
  <2> QED
    BY <2>1, <2>3, <2>4
<1>8. ASSUME NEW j \in Jobs, CheckFails(j) PROVE Ledger'
  <2>1. PICK c \in Current(j) :
          RunBecomes(j, [run[j] EXCEPT !.page = @ \ {c}, !.errors = @ + 1])
    BY <1>8 DEF CheckFails
  <2> QED
    BY <1>1, <1>8, <2>1, FailedLedger DEF CheckFails
<1>9. ASSUME NEW j \in Jobs, PageDone(j) PROVE Ledger'
  <2>1. PICK x, y : RunBecomes(j, [run[j] EXCEPT !.offset = x, !.pc = y]) /\ y \in Stages
    BY <1>9 DEF PageDone, Stages
  <2> DEFINE r == [run[j] EXCEPT !.offset = x, !.pc = y]
             b == Recorded(j)
  <2>2. /\ r.page = run[j].page /\ r.errors = run[j].errors
        /\ r.mismatches = run[j].mismatches /\ r.ghosts = run[j].ghosts
    BY <1>0 DEF Run
  <2>3. /\ run[j].page = {} /\ Balanced(run[j], rows[j])
        /\ job[j].status \in {"PENDING", "RUNNING"}
    BY <1>9 DEF PageDone, Ledger, InStep, Counting
  <2>4. b.status = job[j].status
    BY <1>0 DEF Recorded, Job
  <2>5. RunBecomes(j, r) /\ JobBecomes(j, b) /\ UNCHANGED rows
    BY <1>9, <2>1 DEF PageDone
  <2> HIDE DEF r, b
  <2>6. Balanced(r, rows[j])
    BY <2>2, <2>3 DEF Balanced, Due
  <2> QED
    BY <1>2, <2>2, <2>3, <2>4, <2>5, <2>6, OpenInStep
<1>10. ASSUME NEW j \in Jobs, Complete(j) PROVE Ledger'
  <2> DEFINE e == IF Full(j) THEN run[j].errors ELSE 0
             s == IF Full(j) /\ run[j].ghosts > 0 THEN "dispatch" ELSE "over"
             b == [Recorded(j) EXCEPT !.status = "COMPLETED", !.errors = e]
             r == [NoRun EXCEPT !.pc = s]
  <2>1. /\ run[j].page = {} /\ Balanced(run[j], rows[j])
    BY <1>10 DEF Complete, Finished, Ledger, InStep, PageInOrder, Counting
  <2>2. Due(run[j]) = 0
    BY <2>1 DEF Due
  <2>3. /\ b.status = "COMPLETED" /\ b.errors = e /\ b.kind = job[j].kind
        /\ b.mismatches = run[j].mismatches /\ b.ghosts = run[j].ghosts
    BY RecordedFields
  <2>4. /\ r.page = {} /\ r.pc \in {"dispatch", "over"}
    BY NoRunPage
  <2>5. RunBecomes(j, r) /\ JobBecomes(j, b) /\ UNCHANGED rows
    BY <1>10 DEF Complete
  <2>6. b.kind # "TARGETED" => e = run[j].errors
    BY <2>3 DEF Full
  <2> HIDE DEF r, b, e
  <2>7. /\ run[j].ghosts <= run[j].mismatches
        /\ run[j].mismatches <= Len(rows[j])
        /\ Len(rows[j]) <= run[j].mismatches + run[j].errors
    BY <2>1, <2>2, LedgerTyped DEF Balanced
  <2>8. Reported(b, rows[j])
    BY <2>3, <2>6, <2>7 DEF Reported
  <2>9. InStep(r, b, rows[j])
    BY <2>3, <2>4, <2>8 DEF InStep, PageInOrder, Counting
  <2> QED
    BY <1>2, <2>5, <2>9
<1>11. ASSUME NEW j \in Jobs, Failing(j) PROVE Ledger'
  <2> DEFINE b == [job[j] EXCEPT !.status = "FAILED"]
             r == [NoRun EXCEPT !.pc = "over"]
  <2>1. b.status = "FAILED"
    BY <1>0 DEF Job
  <2>2. r.page = {} /\ r.pc = "over"
    BY NoRunPage
  <2>3. RunBecomes(j, r) /\ JobBecomes(j, b) /\ UNCHANGED rows
    BY <1>11 DEF Failing
  <2> HIDE DEF r, b
  <2>4. InStep(r, b, rows[j])
    BY <2>1, <2>2 DEF InStep, PageInOrder, Counting
  <2> QED
    BY <1>2, <2>3, <2>4
\* A run whose counting is over.
<1>12. ASSUME NEW j \in Jobs, NEW r, RunBecomes(j, r), UNCHANGED <<job, rows>>,
              r.page = {}, r.pc \in {"send", "over"},
              run[j].pc # "none"
       PROVE  Ledger'
  <2>1. CASE job[j].status = "COMPLETED"
    <3>1. Reported(job[j], rows[j])
      BY <2>1 DEF Ledger, InStep
    <3> QED
      BY <1>1, <1>12, <2>1, <3>1 DEF InStep, PageInOrder, Counting
  <2>2. CASE job[j].status # "COMPLETED"
    <3>1. job[j].status # "NONE"
      BY <1>12 DEF Ledger, InStep
    <3> QED
      BY <1>1, <1>12, <2>2, <3>1 DEF InStep, PageInOrder, Counting
  <2> QED
    BY <2>1, <2>2
<1>13. ASSUME NEW j \in Jobs, Dispatch(j) PROVE Ledger'
  <2>1. PICK x : RunBecomes(j, [run[j] EXCEPT !.pc = "send", !.toSend = x])
    BY <1>13 DEF Dispatch
  <2> DEFINE r == [run[j] EXCEPT !.pc = "send", !.toSend = x]
  <2>2. r.page = run[j].page /\ r.pc = "send"
    BY <1>0 DEF Run
  <2>3. run[j].page = {} /\ run[j].pc # "none" /\ UNCHANGED <<job, rows>>
    BY <1>13 DEF Dispatch, Ledger, InStep, PageInOrder
  <2> QED
    BY <1>12, <2>1, <2>2, <2>3
<1>14. ASSUME NEW j \in Jobs, Send(j) PROVE Ledger'
  <2>1. run[j].pc = "send" /\ run[j].page = {} /\ UNCHANGED <<job, rows>>
    BY <1>14 DEF Send, Ledger, InStep, PageInOrder
  <2>2. ASSUME NEW x PROVE [run[j] EXCEPT !.toSend = x].page = run[j].page
                           /\ [run[j] EXCEPT !.toSend = x].pc = run[j].pc
    BY <1>0 DEF Run
  <2>3. CASE RunBecomes(j, [NoRun EXCEPT !.pc = "over"])
    BY <1>12, <2>1, <2>3, NoRunPage
  <2>4. ASSUME NEW i \in run[j].toSend,
               RunBecomes(j, [run[j] EXCEPT !.toSend = @ \ {i}])
        PROVE  Ledger'
    BY <1>12, <2>1, <2>2, <2>4
  <2> QED
    BY <1>14, <2>3, <2>4 DEF Send
<1>15. ASSUME NEW j \in Jobs, QueryFails(j) PROVE Ledger'
  <2> DEFINE s == IF Caught(j) THEN "failing" ELSE "over"
             r == [NoRun EXCEPT !.pc = s]
  <2>1. run[j].pc # "none" /\ RunBecomes(j, r) /\ UNCHANGED <<job, rows>>
    BY <1>15 DEF QueryFails, Alive
  <2>2. r.page = {} /\ r.pc = s
    BY NoRunPage
  <2>3. CASE ~Caught(j)
    BY <1>12, <2>1, <2>2, <2>3
  <2>4. CASE Caught(j)
    <3>1. job[j].status \in {"PENDING", "RUNNING"}
      BY <2>4 DEF Caught, Ledger, InStep, Counting
    <3>2. r.pc \notin Counting
      BY <2>2, <2>4 DEF Counting
    <3> HIDE DEF r
    <3> QED
      BY <1>1, <2>1, <2>2, <3>1, <3>2, OpenInStep
  <2> QED
    BY <2>3, <2>4
<1>16. CASE ServerStops
  <2>1. /\ UNCHANGED <<job, rows>>
        /\ \A j \in Jobs : run'[j] = IF Alive(j) THEN [NoRun EXCEPT !.pc = "over"]
                                                 ELSE run[j]
    BY <1>16 DEF ServerStops
  <2>2. ASSUME NEW j \in Jobs, Alive(j) PROVE InStep(run'[j], job[j], rows[j])
    <3>1. run'[j].page = {} /\ run'[j].pc = "over"
      BY <2>1, <2>2, NoRunPage
    <3>2. job[j].status # "NONE"
      BY <2>2 DEF Alive, Ledger, InStep
    <3>3. job[j].status = "COMPLETED" => Reported(job[j], rows[j])
      BY DEF Ledger, InStep
    <3> QED
      BY <3>1, <3>2, <3>3 DEF InStep, PageInOrder, Counting
  <2>3. ASSUME NEW j \in Jobs, ~Alive(j) PROVE InStep(run'[j], job[j], rows[j])
    BY <2>1, <2>3 DEF Ledger
  <2> QED
    BY <2>1, <2>2, <2>3 DEF Ledger
<1>17. ASSUME UNCHANGED <<run, job, rows>> PROVE Ledger'
  BY <1>17 DEF Ledger
<1>18. ASSUME NEW j \in Jobs, Schedule(j) \/ Trigger(j) \/ \E a \in Apps : EnterManually(j, a)
       PROVE  Ledger'
  BY <1>3, <1>18 DEF Schedule, Trigger, EnterManually
<1>19. ASSUME NEW j \in Jobs, Advance(j) PROVE Ledger'
  <2>1. ASSUME ReadPage(j) PROVE Ledger'
    BY <1>6, <2>1 DEF ReadPage
  <2> QED
    BY <1>4, <1>5, <1>7, <1>9, <1>10, <1>11, <1>13, <1>14, <1>19, <2>1 DEF Advance
<1>20. ASSUME UNCHANGED vars \/ TimePasses
              \/ (\E a \in Apps, f \in Facts : ChangeFact(a, f))
              \/ (\E i \in DOMAIN alerts, s \in Settlements : Settle(i, s))
       PROVE  Ledger'
  BY <1>17, <1>20 DEF vars, TimePasses, ChangeFact, Settle
<1> QED
  BY <1>8, <1>15, <1>16, <1>18, <1>19, <1>20 DEF Next

LEMMA LedgerInit == Init => Ledger
<1> SUFFICES ASSUME Init, NEW j \in Jobs PROVE InStep(run[j], job[j], rows[j])
  BY DEF Ledger
<1>1. run[j] = NoRun /\ job[j] = NoJob /\ rows[j] = <<>>
  BY DEF Init
<1>2. NoJob.status = "NONE"
  BY DEF NoJob
<1> QED
  BY <1>1, <1>2, NoRunPage DEF InStep, PageInOrder, Counting

(***************************************************************************)
(* However queries fail and runs interleave, what a completed job reports  *)
(* is what it wrote: the count is taken after the rows, so a row may be    *)
(* uncounted, never a counted mismatch without its row.                    *)
(***************************************************************************)
THEOREM CountsTheorem == Spec => []CountsMatchRows
<1>1. Init => TypeOK /\ Ledger
  BY TypeInit, LedgerInit
<1>2. TypeOK /\ Ledger /\ [Next]_vars => TypeOK' /\ Ledger'
  BY TypeStep, LedgerStep
<1>3. Ledger => CountsMatchRows
  BY DEF Ledger, InStep, Reported, CountsMatchRows, Full
<1> QED
  BY <1>1, <1>2, <1>3, PTL DEF Spec
-----------------------------------------------------------------------------
\* Where the run of an open full job is: the catch takes one failed query,
\* and leaving it with the job still RUNNING another one.
Working == {"count", "page", "check", "complete"}
Settling(r, b, n, s) ==
    /\ b.status = "NONE" => r.pc = "none"
    /\ r.pc = "begin" => b.status = "PENDING"
    /\ b.status = "RUNNING" /\ b.kind # "TARGETED" =>
          \/ r.pc \in Working
          \/ r.pc = "failing" /\ n >= 1
          \/ r.pc = "over" /\ (s \/ n >= 2)
AllSettling == \A j \in Jobs : Settling(run[j], job[j], faults, stopped)

LEMMA SettlingElsewhere ==
    ASSUME TypeOK, AllSettling, NEW j \in Jobs, faults' \in Nat, faults' >= faults,
           stopped => stopped',
           \A k \in Jobs \ {j} : run'[k] = run[k] /\ job'[k] = job[k],
           Settling(run'[j], job'[j], faults', stopped')
    PROVE  AllSettling'
<1>1. faults \in Nat
  BY DEF TypeOK
<1>2. ASSUME NEW k \in Jobs \ {j} PROVE Settling(run'[k], job'[k], faults', stopped')
  <2>1. Settling(run[k], job[k], faults, stopped) /\ run'[k] = run[k] /\ job'[k] = job[k]
    BY DEF AllSettling
  <2>2. (faults >= 1 => faults' >= 1) /\ (faults >= 2 => faults' >= 2)
    BY <1>1
  <2> QED
    BY <2>1, <2>2 DEF Settling
<1> QED
  BY <1>2 DEF AllSettling

LEMMA SettlingStep == TypeOK /\ AllSettling /\ [Next]_vars => AllSettling'
<1> SUFFICES ASSUME TypeOK, AllSettling, [Next]_vars PROVE AllSettling'
  OBVIOUS
<1>0. /\ \A j \in Jobs : run[j] \in Run /\ job[j] \in Job
      /\ faults \in Nat
  BY DEF TypeOK
<1>1. ASSUME NEW j \in Jobs, NEW r, RunBecomes(j, r), UNCHANGED <<job, stopped>>,
             faults' \in Nat, faults' >= faults,
             Settling(r, job[j], faults', stopped)
      PROVE  AllSettling'
  BY <1>1, RunNow, SettlingElsewhere
<1>2. ASSUME NEW j \in Jobs, NEW r, RunBecomes(j, r), NEW b, JobBecomes(j, b),
             UNCHANGED <<faults, stopped>>, Settling(r, b, faults, stopped)
      PROVE  AllSettling'
  BY <1>0, <1>2, RunNow, JobNow, SettlingElsewhere
<1>3. ASSUME NEW j \in Jobs, NEW kind, NEW target, Create(j, kind, target)
      PROVE  AllSettling'
  <2> DEFINE r == [NoRun EXCEPT !.pc = "begin", !.target = target]
             b == [NoJob EXCEPT !.status = "PENDING", !.kind = kind]
  <2>1. b.status = "PENDING" /\ r.pc = "begin"
    BY NoRunPage DEF NoJob
  <2>2. RunBecomes(j, r) /\ JobBecomes(j, b) /\ UNCHANGED <<faults, stopped>>
    BY <1>3 DEF Create
  <2> HIDE DEF r, b
  <2> QED
    BY <1>2, <2>1, <2>2 DEF Settling
<1>4. ASSUME NEW j \in Jobs, Begin(j) PROVE AllSettling'
  <2> DEFINE p == IF Full(j) THEN "count" ELSE "page"
             r == [run[j] EXCEPT !.pc = p]
             b == [job[j] EXCEPT !.status = "RUNNING"]
  <2>1. b.status = "RUNNING" /\ r.pc = p
    BY <1>0 DEF Job, Run
  <2>2. RunBecomes(j, r) /\ JobBecomes(j, b) /\ UNCHANGED <<faults, stopped>>
    BY <1>4 DEF Begin
  <2> HIDE DEF r, b
  <2> QED
    BY <1>2, <2>1, <2>2 DEF Settling, Working
\* A working run that works on.
<1>5. ASSUME NEW j \in Jobs, run[j].pc \in Working, NEW r, r.pc \in Working,
             RunBecomes(j, r), UNCHANGED <<job, stopped>>,
             faults' \in Nat, faults' >= faults
      PROVE  AllSettling'
  <2>1. Settling(r, job[j], faults', stopped)
    BY <1>5 DEF AllSettling, Settling, Working
  <2> QED
    BY <1>1, <1>5, <2>1
<1>6. ASSUME NEW j \in Jobs, Count(j) PROVE AllSettling'
  <2> DEFINE p == IF InScope = {} THEN "complete" ELSE "page"
             r == [run[j] EXCEPT !.total = Cardinality(InScope), !.pc = p]
  <2>1. \A x, y : [run[j] EXCEPT !.total = x, !.pc = y].pc = y
    BY <1>0 DEF Run
  <2>2. r.pc = p
    BY <2>1
  <2>3. /\ run[j].pc = "count" /\ RunBecomes(j, r)
        /\ UNCHANGED <<job, faults, stopped>>
    BY <1>6 DEF Count
  <2> HIDE DEF r
  <2>4. run[j].pc \in Working /\ r.pc \in Working
    BY <2>2, <2>3 DEF Working
  <2>5. faults' \in Nat /\ faults' >= faults
    BY <1>0, <2>3
  <2> QED
    BY <1>5, <2>3, <2>4, <2>5
<1>7. ASSUME NEW j \in Jobs, ReadPage(j) PROVE AllSettling'
  <2>1. PICK S : Fetch(j, S)
    BY <1>7 DEF ReadPage
  <2> DEFINE r == [run[j] EXCEPT !.pc = "check", !.page = {CopyOf(a) : a \in S}]
  <2>2. \A x, y : [run[j] EXCEPT !.pc = x, !.page = y].pc = x
    BY <1>0 DEF Run
  <2>3. r.pc = "check"
    BY <2>2
  <2>4. /\ run[j].pc = "page" /\ RunBecomes(j, r)
        /\ UNCHANGED <<job, faults, stopped>>
    BY <1>7, <2>1 DEF ReadPage, Fetch
  <2> HIDE DEF r
  <2>5. run[j].pc \in Working /\ r.pc \in Working
    BY <2>3, <2>4 DEF Working
  <2>6. faults' \in Nat /\ faults' >= faults
    BY <1>0, <2>4
  <2> QED
    BY <1>5, <2>4, <2>5, <2>6
<1>8. ASSUME NEW j \in Jobs, Check(j) PROVE AllSettling'
  <2>1. PICK c \in Current(j) : CheckClean(j, c) \/ WriteRow(j, c) \/ OpenAlert(j, c)
    BY <1>8 DEF Check
  <2>2. run[j].pc = "check" /\ UNCHANGED <<job, faults, stopped>>
    BY <1>8, <2>1 DEF Check, CheckClean, WriteRow, OpenAlert
  <2>3. c \in Copy /\ c \in run[j].page
    BY LedgerTyped DEF Current, Run
  <2>4. Checked(run[j], c).pc = "check"
    BY <2>2, <2>3, CheckedTyped, LedgerTyped
  <2>5. \A x : [run[j] EXCEPT !.page = x].pc = "check"
    BY <1>0, <2>2 DEF Run
  <2>6. ASSUME NEW r, r.pc = "check", RunBecomes(j, r) PROVE AllSettling'
    BY <1>0, <1>5, <2>2, <2>6 DEF Working
  <2> QED
    BY <2>1, <2>4, <2>5, <2>6 DEF CheckClean, WriteRow, OpenAlert
<1>9. ASSUME NEW j \in Jobs, CheckFails(j) PROVE AllSettling'
  <2>1. \A x, y : [run[j] EXCEPT !.page = x, !.errors = y].pc = run[j].pc
    BY <1>0 DEF Run
  <2>2. /\ run[j].pc = "check" /\ UNCHANGED <<job, stopped>>
        /\ faults' \in Nat /\ faults' >= faults
    BY <1>0, <1>9 DEF CheckFails
  <2>3. PICK c : RunBecomes(j, [run[j] EXCEPT !.page = @ \ {c}, !.errors = @ + 1])
    BY <1>9 DEF CheckFails
  <2> DEFINE r == [run[j] EXCEPT !.page = @ \ {c}, !.errors = @ + 1]
  <2>4. r.pc = "check"
    BY <2>1, <2>2
  <2>5. RunBecomes(j, r)
    BY <2>3
  <2> HIDE DEF r
  <2>6. run[j].pc \in Working /\ r.pc \in Working
    BY <2>2, <2>4 DEF Working
  <2> QED
    BY <1>5, <2>2, <2>5, <2>6
<1>10. ASSUME NEW j \in Jobs, PageDone(j) PROVE AllSettling'
  <2>1. PICK x, y : RunBecomes(j, [run[j] EXCEPT !.offset = x, !.pc = y]) /\ y \in Working
    BY <1>10 DEF PageDone, Working
  <2> DEFINE r == [run[j] EXCEPT !.offset = x, !.pc = y]
             b == Recorded(j)
  <2>2. r.pc = y
    BY <1>0 DEF Run
  <2>3. b.status = job[j].status /\ b.kind = job[j].kind
    BY <1>0 DEF Recorded, Job
  <2>4. RunBecomes(j, r) /\ JobBecomes(j, b) /\ UNCHANGED <<faults, stopped>>
    BY <1>10, <2>1 DEF PageDone
  <2>5. run[j].pc = "check"
    BY <1>10 DEF PageDone
  <2> HIDE DEF r, b
  <2>6. Settling(r, b, faults, stopped)
    BY <2>1, <2>2, <2>3, <2>5 DEF AllSettling, Settling, Working
  <2> QED
    BY <1>2, <2>4, <2>6
<1>11. ASSUME NEW j \in Jobs, Complete(j) PROVE AllSettling'
  <2>1. PICK x, y : /\ JobBecomes(j, [Recorded(j) EXCEPT !.status = "COMPLETED", !.errors = x])
                    /\ RunBecomes(j, [NoRun EXCEPT !.pc = y]) /\ y \in {"dispatch", "over"}
    BY <1>11 DEF Complete
  <2>2. [Recorded(j) EXCEPT !.status = "COMPLETED", !.errors = x].status = "COMPLETED"
    BY RecordedFields
  <2>3. [NoRun EXCEPT !.pc = y].pc = y
    BY NoRunPage
  <2> QED
    BY <1>2, <1>11, <2>1, <2>2, <2>3 DEF Settling, Complete
<1>12. ASSUME NEW j \in Jobs, Failing(j) PROVE AllSettling'
  <2>1. [job[j] EXCEPT !.status = "FAILED"].status = "FAILED"
    BY <1>0 DEF Job
  <2>2. [NoRun EXCEPT !.pc = "over"].pc = "over"
    BY NoRunPage
  <2> QED
    BY <1>2, <1>12, <2>1, <2>2 DEF Settling, Failing
\* A run past its last update.
<1>13. ASSUME NEW j \in Jobs, run[j].pc \in {"dispatch", "send"}, NEW r,
              r.pc \in {"send", "over"}, RunBecomes(j, r),
              UNCHANGED <<job, stopped>>, faults' \in Nat, faults' >= faults
       PROVE  AllSettling'
  <2>1. Settling(r, job[j], faults', stopped)
    BY <1>13 DEF AllSettling, Settling, Working
  <2> QED
    BY <1>1, <1>13, <2>1
<1>14. ASSUME NEW j \in Jobs, Dispatch(j) PROVE AllSettling'
  <2>1. PICK x : RunBecomes(j, [run[j] EXCEPT !.pc = "send", !.toSend = x])
    BY <1>14 DEF Dispatch
  <2> DEFINE r == [run[j] EXCEPT !.pc = "send", !.toSend = x]
  <2>2. r.pc \in {"send", "over"} /\ RunBecomes(j, r)
    BY <1>0, <2>1 DEF Run
  <2> HIDE DEF r
  <2>3. run[j].pc = "dispatch" /\ UNCHANGED <<job, faults, stopped>>
    BY <1>14 DEF Dispatch
  <2>4. faults' \in Nat /\ faults' >= faults
    BY <1>0, <2>3
  <2>5. run[j].pc \in {"dispatch", "send"} /\ UNCHANGED <<job, stopped>>
    BY <2>3
  <2> QED
    BY <1>13, <2>2, <2>4, <2>5
<1>15. ASSUME NEW j \in Jobs, Send(j) PROVE AllSettling'
  <2>1. \A x : [run[j] EXCEPT !.toSend = x].pc = run[j].pc
    BY <1>0 DEF Run
  <2>2. run[j].pc = "send" /\ UNCHANGED <<job, faults, stopped>>
    BY <1>15 DEF Send
  <2>3. faults' \in Nat /\ faults' >= faults
    BY <1>0, <2>2
  <2>4. run[j].pc \in {"dispatch", "send"} /\ UNCHANGED <<job, stopped>>
    BY <2>2
  <2>5. CASE RunBecomes(j, [NoRun EXCEPT !.pc = "over"])
    <3> DEFINE r == [NoRun EXCEPT !.pc = "over"]
    <3>1. r.pc \in {"send", "over"}
      BY NoRunPage
    <3>2. RunBecomes(j, r)
      BY <2>5
    <3> HIDE DEF r
    <3> QED
      BY <1>13, <2>3, <2>4, <3>1, <3>2
  <2>6. ASSUME NEW i \in run[j].toSend,
               RunBecomes(j, [run[j] EXCEPT !.toSend = @ \ {i}])
        PROVE  AllSettling'
    <3> DEFINE r == [run[j] EXCEPT !.toSend = @ \ {i}]
    <3>1. r.pc \in {"send", "over"}
      BY <2>1, <2>2
    <3>2. RunBecomes(j, r)
      BY <2>6
    <3> HIDE DEF r
    <3> QED
      BY <1>13, <2>3, <2>4, <3>1, <3>2
  <2> QED
    BY <1>15, <2>5, <2>6 DEF Send
<1>16. ASSUME NEW j \in Jobs, QueryFails(j) PROVE AllSettling'
  <2> DEFINE p == IF Caught(j) THEN "failing" ELSE "over"
             r == [NoRun EXCEPT !.pc = p]
  <2>1. /\ RunBecomes(j, r) /\ UNCHANGED <<job, stopped>>
        /\ faults' = faults + 1
        /\ run[j].pc \notin {"none", "over"}
        /\ run[j].pc = "check" => run[j].page = {}
    BY <1>16 DEF QueryFails, Alive
  <2>2. r.pc = p
    BY NoRunPage
  <2>3. faults' \in Nat /\ faults' >= faults /\ faults' >= 1
        /\ (faults >= 1 => faults' >= 2)
    BY <1>0, <2>1
  <2> HIDE DEF r
  <2>4. Settling(run[j], job[j], faults, stopped)
    BY DEF AllSettling
  <2>5. Settling(r, job[j], faults', stopped)
    BY <2>1, <2>2, <2>3, <2>4 DEF Settling, Working, Caught, Full
  <2> QED
    BY <1>1, <2>1, <2>3, <2>5
<1>17. CASE ServerStops
  <2>1. /\ UNCHANGED job /\ stopped' /\ faults' = faults + 1
        /\ \A j \in Jobs : run'[j] = IF Alive(j) THEN [NoRun EXCEPT !.pc = "over"]
                                                 ELSE run[j]
    BY <1>17 DEF ServerStops
  <2>2. ASSUME NEW j \in Jobs PROVE Settling(run'[j], job'[j], faults', stopped')
    <3>1. Settling(run[j], job[j], faults, stopped)
      BY DEF AllSettling
    <3>2. CASE Alive(j)
      <4>1. run'[j].pc = "over"
        BY <2>1, <3>2, NoRunPage
      <4> QED
        BY <2>1, <3>1, <3>2, <4>1 DEF Settling, Alive
    <3>3. CASE ~Alive(j)
      <4>1. run'[j] = run[j] /\ run[j].pc \in {"none", "over"}
        BY <2>1, <3>3 DEF Alive
      <4> QED
        BY <2>1, <3>1, <4>1 DEF Settling, Working
    <3> QED
      BY <3>2, <3>3
  <2> QED
    BY <2>2 DEF AllSettling
<1>18. ASSUME NEW j \in Jobs, Schedule(j) \/ Trigger(j) \/ \E a \in Apps : EnterManually(j, a)
       PROVE  AllSettling'
  BY <1>3, <1>18 DEF Schedule, Trigger, EnterManually
<1>19. ASSUME NEW j \in Jobs, Advance(j) PROVE AllSettling'
  BY <1>4, <1>6, <1>7, <1>8, <1>10, <1>11, <1>12, <1>14, <1>15, <1>19 DEF Advance
<1>20. ASSUME UNCHANGED vars \/ TimePasses
              \/ (\E a \in Apps, f \in Facts : ChangeFact(a, f))
              \/ (\E i \in DOMAIN alerts, s \in Settlements : Settle(i, s))
       PROVE  AllSettling'
  <2>1. UNCHANGED <<run, job, faults, stopped>>
    BY <1>20 DEF vars, TimePasses, ChangeFact, Settle
  <2> QED
    BY <2>1 DEF AllSettling
<1> QED
  BY <1>9, <1>16, <1>17, <1>18, <1>19, <1>20 DEF Next

LEMMA SettlingInit == Init => AllSettling
<1> SUFFICES ASSUME Init, NEW j \in Jobs
             PROVE  Settling(run[j], job[j], faults, stopped)
  BY DEF AllSettling
<1>1. run[j] = NoRun /\ job[j] = NoJob
  BY DEF Init
<1>2. NoJob.status = "NONE"
  BY DEF NoJob
<1> QED
  BY <1>1, <1>2, NoRunPage DEF Settling

(***************************************************************************)
(* One failed query never leaves a full job RUNNING without its run: the   *)
(* try block covers every query between the first update and the last.     *)
(***************************************************************************)
THEOREM SettlesTheorem == Spec => []FullJobSettles
<1>1. Init => TypeOK /\ AllSettling
  BY TypeInit, SettlingInit
<1>2. TypeOK /\ AllSettling /\ [Next]_vars => TypeOK' /\ AllSettling'
  BY TypeStep, SettlingStep
<1>3. AllSettling => FullJobSettles
  <2> SUFFICES ASSUME AllSettling, NEW j \in Jobs, job[j].status = "RUNNING",
                      Full(j), ~Alive(j)
               PROVE  stopped \/ faults >= 2
    BY DEF FullJobSettles
  <2>1. Settling(run[j], job[j], faults, stopped)
    BY DEF AllSettling
  <2> QED
    BY <2>1 DEF Settling, Full, Alive, Working
<1> QED
  BY <1>1, <1>2, <1>3, PTL DEF Spec
-----------------------------------------------------------------------------
\* What a run has seen and written against the applications that have an alert,
\* S: a row about a ghost is alerted, or its alert is the next thing to write.
Alerted == {alerts[i].app : i \in DOMAIN alerts}
GhostRows(w) == {w[n].app : n \in {m \in DOMAIN w : w[m].ghost}}
DueApps(r) == {c.app : c \in {d \in r.page : d.written}}
Told(S, r, b, w) ==
    /\ \A c \in r.page : (c.open => c.app \in S) /\ (c.written => IsGhost(c.fact))
    /\ r.pc \in Counting /\ r.errors = 0 => GhostRows(w) \subseteq S \cup DueApps(r)
    /\ b.status = "COMPLETED" /\ b.kind # "TARGETED" /\ b.errors = 0
          => GhostRows(w) \subseteq S

AllTold == \A j \in Jobs : Told(Alerted, run[j], job[j], rows[j])

\* Alerts change hands and age, but none is deleted.
LEMMA AlertKeepsApp ==
    ASSUME TypeOK, NEW i \in Nat, NEW r, AlertBecomes(i, r),
           i \in DOMAIN alerts => r.app = alerts[i].app
    PROVE  Alerted \subseteq Alerted'
<1>1. /\ DOMAIN alerts' = DOMAIN alerts
      /\ \A k \in DOMAIN alerts : alerts'[k] = IF k = i THEN r ELSE alerts[k]
  BY DEF AlertBecomes, TypeOK
<1> QED
  BY <1>1 DEF Alerted

LEMMA AlertsStay ==
    ASSUME TypeOK, [Next]_vars
    PROVE  Alerted \subseteq Alerted'
<1>1. alerts \in Seq(Alert) /\ \A i \in DOMAIN alerts : alerts[i] \in Alert
  BY DEF TypeOK
<1>2. ASSUME NEW j \in Jobs, NEW c \in run[j].page, OpenAlert(j, c)
      PROVE  Alerted \subseteq Alerted'
  <2>1. \A i \in DOMAIN alerts : i \in DOMAIN alerts' /\ alerts'[i] = alerts[i]
    BY <1>1, <1>2 DEF OpenAlert
  <2> QED
    BY <2>1 DEF Alerted
<1>3. ASSUME NEW j \in Jobs, Send(j) PROVE Alerted \subseteq Alerted'
  <2>1. CASE UNCHANGED alerts
    BY <2>1 DEF Alerted
  <2>2. ASSUME NEW i \in run[j].toSend, AlertBecomes(i, [alerts[i] EXCEPT !.sent = TRUE])
        PROVE  Alerted \subseteq Alerted'
    <3>1. i \in Nat
      BY DEF TypeOK, Run
    <3>2. i \in DOMAIN alerts => [alerts[i] EXCEPT !.sent = TRUE].app = alerts[i].app
      BY <1>1 DEF Alert
    <3> QED
      BY <2>2, <3>1, <3>2, AlertKeepsApp
  <2> QED
    BY <1>3, <2>1, <2>2 DEF Send
<1>4. ASSUME NEW i \in DOMAIN alerts, NEW s \in Settlements, Settle(i, s)
      PROVE  Alerted \subseteq Alerted'
  <2>1. i \in Nat /\ [alerts[i] EXCEPT !.status = s].app = alerts[i].app
    BY <1>1 DEF Alert
  <2> QED
    BY <1>4, <2>1, AlertKeepsApp DEF Settle
<1>5. CASE TimePasses
  <2>1. /\ DOMAIN alerts' = DOMAIN alerts
        /\ \A i \in DOMAIN alerts : alerts'[i].app = alerts[i].app
    BY <1>1, <1>5, OlderTyped DEF TimePasses
  <2> QED
    BY <2>1 DEF Alerted
<1>6. CASE UNCHANGED alerts
  BY <1>6 DEF Alerted
<1>7. ASSUME NEW j \in Jobs, Check(j) PROVE Alerted \subseteq Alerted'
  BY <1>2, <1>6, <1>7 DEF Check, Current, CheckClean, WriteRow
<1>8. ASSUME NEW j \in Jobs, Advance(j) PROVE Alerted \subseteq Alerted'
  <2>1. Begin(j) \/ Count(j) \/ PageDone(j) \/ Complete(j) \/ Failing(j) \/ Dispatch(j)
           => UNCHANGED alerts
    BY DEF Begin, Count, PageDone, Complete, Failing, Dispatch
  <2>2. ReadPage(j) => UNCHANGED alerts
    <3>1. \A S : Fetch(j, S) => UNCHANGED alerts
      BY DEF Fetch
    <3> QED
      BY <3>1 DEF ReadPage
  <2> QED
    BY <1>3, <1>6, <1>7, <1>8, <2>1, <2>2 DEF Advance
<1>9. ASSUME NEW j \in Jobs,
             \/ Schedule(j) \/ Trigger(j) \/ \E a \in Apps : EnterManually(j, a)
             \/ CheckFails(j) \/ QueryFails(j)
      PROVE  Alerted \subseteq Alerted'
  <2>1. \A kind, target : Create(j, kind, target) => UNCHANGED alerts
    BY DEF Create
  <2>2. (CheckFails(j) => UNCHANGED alerts) /\ (QueryFails(j) => UNCHANGED alerts)
    <3>1. CheckFails(j) => UNCHANGED alerts
      BY Zenon DEF CheckFails
    <3>2. QueryFails(j) => UNCHANGED alerts
      BY Zenon DEF QueryFails
    <3> QED
      BY <3>1, <3>2
  <2> QED
    BY <1>6, <1>9, <2>1, <2>2 DEF Schedule, Trigger, EnterManually
<1>10. CASE ServerStops \/ (\E a \in Apps, f \in Facts : ChangeFact(a, f)) \/ UNCHANGED vars
  BY <1>6, <1>10 DEF ServerStops, ChangeFact, vars
<1> QED
  BY <1>4, <1>5, <1>8, <1>9, <1>10 DEF Next

LEMMA ToldElsewhere ==
    ASSUME AllTold, Alerted \subseteq Alerted', NEW k \in Jobs,
           run'[k] = run[k], job'[k] = job[k], rows'[k] = rows[k]
    PROVE  Told(Alerted', run'[k], job'[k], rows'[k])
<1>1. Told(Alerted, run[k], job[k], rows[k])
  BY DEF AllTold
<1> QED
  BY <1>1 DEF Told

\* A run that is not checking a page has nothing due and no copy in hand.
LEMMA EmptyPageTold ==
    ASSUME NEW S, NEW r, NEW b, NEW w, r.page = {},
           r.pc \in Counting /\ r.errors = 0 => GhostRows(w) \subseteq S,
           b.status = "COMPLETED" /\ b.kind # "TARGETED" /\ b.errors = 0
              => GhostRows(w) \subseteq S
    PROVE  Told(S, r, b, w)
BY DEF Told, DueApps

\* A check that ends: its copy leaves the page, what else is due stays so.
LEMMA CheckedTold ==
    ASSUME TypeOK, Ledger, NEW j \in Jobs, run[j].pc = "check", NEW c \in Current(j),
           NEW S, NEW w, Told(Alerted, run[j], job[j], rows[j]), Alerted \subseteq S,
           GhostRows(w) \subseteq GhostRows(rows[j]) \cup S, c.written => c.app \in S
    PROVE  Told(S, Checked(run[j], c), job[j], w)
<1>1. /\ c \in run[j].page /\ job[j].status \in {"PENDING", "RUNNING"}
  BY CheckingInStep
<1> DEFINE r == Checked(run[j], c)
<1>2. r.page = run[j].page \ {c} /\ r.pc = "check" /\ r.errors = run[j].errors
  BY <1>1, LedgerTyped, CheckedTyped
<1> HIDE DEF r
<1>3. DueApps(run[j]) \subseteq DueApps(r) \cup S
  BY <1>2 DEF DueApps
<1>4. r.errors = 0 => GhostRows(w) \subseteq S \cup DueApps(r)
  BY <1>2, <1>3 DEF Told, Counting
<1>5. Told(S, r, job[j], w)
  BY <1>1, <1>2, <1>4 DEF Told
<1> QED
  BY <1>5 DEF r

LEMMA CheckTold ==
    ASSUME TypeOK, Ledger, AllTold, [Next]_vars, NEW j \in Jobs, run[j].pc = "check",
           NEW c \in Current(j), CheckClean(j, c) \/ WriteRow(j, c) \/ OpenAlert(j, c)
    PROVE  /\ Told(Alerted', run'[j], job'[j], rows'[j])
           /\ \A k \in Jobs \ {j} : /\ run'[k] = run[k] /\ job'[k] = job[k]
                                    /\ rows'[k] = rows[k]
<1>1. /\ c \in run[j].page /\ c \in Copy /\ job[j].status \in {"PENDING", "RUNNING"}
      /\ c.written => IsMismatch(c.fact)
  BY CheckingInStep
<1>2. Told(Alerted, run[j], job[j], rows[j]) /\ Alerted \subseteq Alerted'
  BY AlertsStay DEF AllTold
<1>3. CASE CheckClean(j, c)
  <2>1. RunBecomes(j, Checked(run[j], c)) /\ UNCHANGED <<job, rows>> /\ ~c.written
    BY <1>1, <1>3 DEF CheckClean
  <2>2. run'[j] = Checked(run[j], c) /\ \A k \in Jobs \ {j} : run'[k] = run[k]
    BY <2>1, RunNow
  <2> QED
    BY <1>2, <2>1, <2>2, CheckedTold
<1>4. CASE OpenAlert(j, c)
  <2>1. RunBecomes(j, Checked(run[j], c)) /\ UNCHANGED <<job, rows>>
    BY <1>4 DEF OpenAlert
  <2>2. run'[j] = Checked(run[j], c) /\ \A k \in Jobs \ {j} : run'[k] = run[k]
    BY <2>1, RunNow
  <2>3. c.app \in Alerted'
    <3>1. /\ Len(alerts) + 1 \in DOMAIN alerts'
          /\ alerts'[Len(alerts) + 1] = [app |-> c.app, by |-> j, age |-> 0,
                                         sent |-> FALSE, status |-> "OPEN"]
      BY <1>4 DEF OpenAlert, TypeOK
    <3> QED
      BY <3>1 DEF Alerted
  <2> QED
    BY <1>2, <2>1, <2>2, <2>3, CheckedTold
<1>5. CASE WriteRow(j, c)
  <2> DEFINE new == [app |-> c.app, score |-> RowScore(c.fact), ghost |-> IsGhost(c.fact)]
             w == Append(rows[j], new)
  <2>1. ~c.written /\ UNCHANGED job /\ rows' = [rows EXCEPT ![j] = w]
    BY <1>5 DEF WriteRow
  <2>2. rows'[j] = w /\ \A k \in Jobs \ {j} : rows'[k] = rows[k]
    BY <2>1 DEF TypeOK
  <2>3. GhostRows(w) \subseteq GhostRows(rows[j]) \cup (IF IsGhost(c.fact) THEN {c.app} ELSE {})
    <3>1. rows[j] \in Seq([app: Apps, score: 0 .. 100, ghost: BOOLEAN])
      BY DEF TypeOK
    <3>2. /\ DOMAIN w = DOMAIN rows[j] \cup {Len(rows[j]) + 1}
          /\ \A n \in DOMAIN rows[j] : w[n] = rows[j][n]
          /\ w[Len(rows[j]) + 1] = new
      BY <3>1
    <3>3. new.app = c.app /\ new.ghost = IsGhost(c.fact)
      OBVIOUS
    <3> HIDE DEF w, new
    <3> QED
      BY <3>2, <3>3 DEF GhostRows
  <2> HIDE DEF w, new
  <2>4. CASE IsGhost(c.fact) /\ ~c.open
    <3> DEFINE e == [c EXCEPT !.written = TRUE]
               r == [run[j] EXCEPT !.page = (run[j].page \ {c}) \cup {e}]
    <3>1. RunBecomes(j, r)
      BY <1>5, <2>4 DEF WriteRow
    <3>2. run'[j] = r /\ \A k \in Jobs \ {j} : run'[k] = run[k]
      BY <3>1, RunNow
    <3>3. e.written /\ e.app = c.app /\ e.open = c.open /\ e.fact = c.fact
      BY <1>1 DEF Copy
    <3>4. /\ r.page = (run[j].page \ {c}) \cup {e} /\ r.pc = "check"
          /\ r.errors = run[j].errors
      BY LedgerTyped DEF Run
    <3> HIDE DEF e, r
    <3>5. DueApps(run[j]) \cup {c.app} \subseteq DueApps(r)
      BY <2>1, <3>3, <3>4 DEF DueApps
    <3>6. r.errors = 0 => GhostRows(w) \subseteq Alerted' \cup DueApps(r)
      BY <1>2, <2>3, <3>4, <3>5 DEF Told, Counting
    <3>7. \A d \in r.page : (d.open => d.app \in Alerted') /\ (d.written => IsGhost(d.fact))
      BY <1>2, <2>4, <3>3, <3>4 DEF Told
    <3>8. Told(Alerted', r, job[j], w)
      BY <1>1, <3>6, <3>7 DEF Told
    <3> QED
      BY <2>1, <2>2, <3>2, <3>8
  <2>5. CASE ~(IsGhost(c.fact) /\ ~c.open)
    <3>1. RunBecomes(j, Checked(run[j], c))
      BY <1>5, <2>5 DEF WriteRow
    <3>2. run'[j] = Checked(run[j], c) /\ \A k \in Jobs \ {j} : run'[k] = run[k]
      BY <3>1, RunNow
    <3>3. IsGhost(c.fact) => c.app \in Alerted'
      BY <1>1, <1>2, <2>5 DEF Told
    <3>4. GhostRows(w) \subseteq GhostRows(rows[j]) \cup Alerted'
      BY <2>3, <3>3
    <3>5. Told(Alerted', Checked(run[j], c), job[j], w)
      BY <1>2, <2>1, <3>4, CheckedTold
    <3> QED
      BY <2>1, <2>2, <3>2, <3>5
  <2> QED
    BY <2>4, <2>5
<1> QED
  BY <1>3, <1>4, <1>5

LEMMA ToldStep == TypeOK /\ Ledger /\ AllTold /\ [Next]_vars => AllTold'
<1> SUFFICES ASSUME TypeOK, Ledger, AllTold, [Next]_vars PROVE AllTold'
  OBVIOUS
<1>0. /\ \A j \in Jobs : /\ run[j] \in Run /\ job[j] \in Job
                         /\ InStep(run[j], job[j], rows[j])
                         /\ Told(Alerted, run[j], job[j], rows[j])
      /\ Alerted \subseteq Alerted'
  BY AlertsStay DEF TypeOK, Ledger, AllTold
<1>a. ASSUME NEW j \in Jobs, Told(Alerted', run'[j], job'[j], rows'[j]),
             \A k \in Jobs \ {j} : run'[k] = run[k] /\ job'[k] = job[k] /\ rows'[k] = rows[k]
      PROVE  AllTold'
  BY <1>0, <1>a, ToldElsewhere DEF AllTold
<1>1. ASSUME NEW j \in Jobs, NEW r, RunBecomes(j, r), UNCHANGED <<job, rows>>,
             Told(Alerted', r, job[j], rows[j])
      PROVE  AllTold'
  BY <1>1, <1>a, RunNow
<1>2. ASSUME NEW j \in Jobs, NEW r, RunBecomes(j, r), NEW b, JobBecomes(j, b),
             UNCHANGED rows, Told(Alerted', r, b, rows[j])
      PROVE  AllTold'
  BY <1>2, <1>a, RunNow, JobNow
\* A run that is past its checks, or has no page yet, has nothing due.
<1>b. ASSUME NEW j \in Jobs, run[j].page = {}, run[j].pc \in Counting, NEW r, r.page = {},
             r.errors = run[j].errors, NEW b, b.status # "COMPLETED"
      PROVE  Told(Alerted', r, b, rows[j])
  <2>1. run[j].errors = 0 => GhostRows(rows[j]) \subseteq Alerted'
    BY <1>0, <1>b DEF Told, DueApps
  <2> QED
    BY <1>b, <2>1, EmptyPageTold
<1>c. ASSUME NEW j \in Jobs, NEW r, r.page = {}, r.pc \notin Counting, RunBecomes(j, r),
             UNCHANGED <<job, rows>>
      PROVE  AllTold'
  <2>1. Told(Alerted', r, job[j], rows[j])
    BY <1>0, <1>c, EmptyPageTold DEF Told
  <2> QED
    BY <1>1, <1>c, <2>1
<1>3. ASSUME NEW j \in Jobs, NEW kind, NEW target, Create(j, kind, target)
      PROVE  AllTold'
  <2> DEFINE r == [NoRun EXCEPT !.pc = "begin", !.target = target]
             b == [NoJob EXCEPT !.status = "PENDING", !.kind = kind]
  <2>1. b.status = "PENDING" /\ r.page = {}
    BY NoRunPage DEF NoJob
  <2>2. rows[j] = <<>>
    BY <1>0, <1>3 DEF Create, InStep
  <2>3. GhostRows(rows[j]) = {}
    BY <2>2 DEF GhostRows
  <2>4. RunBecomes(j, r) /\ JobBecomes(j, b) /\ UNCHANGED rows
    BY <1>3 DEF Create
  <2> HIDE DEF r, b
  <2> QED
    BY <1>2, <2>1, <2>3, <2>4, EmptyPageTold
<1>4. ASSUME NEW j \in Jobs, Begin(j) PROVE AllTold'
  <2> DEFINE r == [run[j] EXCEPT !.pc = IF Full(j) THEN "count" ELSE "page"]
             b == [job[j] EXCEPT !.status = "RUNNING"]
  <2>1. /\ b.status = "RUNNING" /\ r.page = run[j].page /\ r.errors = run[j].errors
    BY <1>0 DEF Job, Run
  <2>2. RunBecomes(j, r) /\ JobBecomes(j, b) /\ UNCHANGED rows
    BY <1>4 DEF Begin
  <2>3. run[j].page = {} /\ run[j].pc \in Counting
    BY <1>0, <1>4 DEF Begin, InStep, PageInOrder, Counting
  <2> HIDE DEF r, b
  <2> QED
    BY <1>2, <1>b, <2>1, <2>2, <2>3
<1>5. ASSUME NEW j \in Jobs, Count(j) PROVE AllTold'
  <2> DEFINE p == IF InScope = {} THEN "complete" ELSE "page"
             r == [run[j] EXCEPT !.total = Cardinality(InScope), !.pc = p]
  <2>1. \A x, y : /\ [run[j] EXCEPT !.total = x, !.pc = y].page = run[j].page
                  /\ [run[j] EXCEPT !.total = x, !.pc = y].errors = run[j].errors
    BY <1>0 DEF Run
  <2>2. r.page = run[j].page /\ r.errors = run[j].errors
    BY <2>1
  <2>3. /\ run[j].page = {} /\ run[j].pc \in Counting
        /\ job[j].status # "COMPLETED"
    BY <1>0, <1>5 DEF Count, InStep, PageInOrder, Counting
  <2>4. RunBecomes(j, r) /\ UNCHANGED <<job, rows>>
    BY <1>5 DEF Count
  <2> HIDE DEF r
  <2> QED
    BY <1>1, <1>b, <2>2, <2>3, <2>4
<1>6. ASSUME NEW j \in Jobs, NEW S, run[j].pc = "page", Fetch(j, S) PROVE AllTold'
  <2> DEFINE r == [run[j] EXCEPT !.pc = "check", !.page = {CopyOf(a) : a \in S}]
  <2>1. \A x, y : /\ [run[j] EXCEPT !.pc = x, !.page = y].page = y
                  /\ [run[j] EXCEPT !.pc = x, !.page = y].pc = x
                  /\ [run[j] EXCEPT !.pc = x, !.page = y].errors = run[j].errors
    BY <1>0 DEF Run
  <2>2. r.page = {CopyOf(a) : a \in S} /\ r.pc = "check" /\ r.errors = run[j].errors
    BY <2>1
  <2>3. RunBecomes(j, r) /\ UNCHANGED <<job, rows>>
    BY <1>6 DEF Fetch
  <2> HIDE DEF r
  <2>4. \A c \in r.page : (c.open => c.app \in Alerted') /\ ~c.written
    BY <1>0, <2>2 DEF CopyOf, HasOpen, Alerted
  <2>5. run[j].page = {} /\ run[j].pc \in Counting /\ job[j].status # "COMPLETED"
    BY <1>0, <1>6 DEF InStep, PageInOrder, Counting
  <2>6. r.errors = 0 => GhostRows(rows[j]) \subseteq Alerted'
    BY <1>0, <2>2, <2>5 DEF Told, DueApps
  <2> QED
    BY <1>1, <2>3, <2>4, <2>5, <2>6 DEF Told
<1>7. ASSUME NEW j \in Jobs, ReadPage(j) PROVE AllTold'
  BY <1>6, <1>7 DEF ReadPage
<1>8. ASSUME NEW j \in Jobs, Check(j) PROVE AllTold'
  BY <1>8, <1>a, CheckTold DEF Check
<1>9. ASSUME NEW j \in Jobs, CheckFails(j) PROVE AllTold'
  <2>1. PICK c \in Current(j) : RunBecomes(j, [run[j] EXCEPT !.page = @ \ {c}, !.errors = @ + 1])
    BY <1>9, Zenon DEF CheckFails
  <2> DEFINE r == [run[j] EXCEPT !.page = @ \ {c}, !.errors = @ + 1]
  <2>2. \A x, y : /\ [run[j] EXCEPT !.page = x, !.errors = y].page = x
                  /\ [run[j] EXCEPT !.page = x, !.errors = y].errors = y
    BY <1>0 DEF Run
  <2>3. r.page = run[j].page \ {c} /\ r.errors = run[j].errors + 1
    BY <2>2
  <2>4. run[j].errors \in Nat /\ job[j].status # "COMPLETED"
    BY <1>0, <1>9 DEF Run, CheckFails, InStep, Counting
  <2>5. RunBecomes(j, r) /\ UNCHANGED <<job, rows>>
    BY <1>9, <2>1 DEF CheckFails
  <2> HIDE DEF r
  <2>6. r.errors # 0
    BY <2>3, <2>4
  <2>7. Told(Alerted', r, job[j], rows[j])
    BY <1>0, <2>3, <2>4, <2>6 DEF Told
  <2> QED
    BY <1>1, <2>5, <2>7
<1>10. ASSUME NEW j \in Jobs, PageDone(j) PROVE AllTold'
  <2> DEFINE next == run[j].offset + BatchSize
             r == [run[j] EXCEPT !.offset = next,
                       !.pc = IF next < run[j].total THEN "page" ELSE "complete"]
  <2>1. \A x, y : /\ [run[j] EXCEPT !.offset = x, !.pc = y].page = run[j].page
                  /\ [run[j] EXCEPT !.offset = x, !.pc = y].errors = run[j].errors
    BY <1>0 DEF Run
  <2>2. r.page = run[j].page /\ r.errors = run[j].errors
    BY <2>1
  <2>3. RunBecomes(j, r) /\ JobBecomes(j, Recorded(j)) /\ UNCHANGED rows
    BY <1>10 DEF PageDone
  <2>4. run[j].page = {} /\ run[j].pc \in Counting /\ job[j].status # "COMPLETED"
    BY <1>0, <1>10 DEF PageDone, InStep, Counting
  <2>5. Recorded(j).status # "COMPLETED"
    BY <2>4, RecordedTyped
  <2> HIDE DEF r
  <2> QED
    BY <1>2, <1>b, <2>2, <2>3, <2>4, <2>5
<1>11. ASSUME NEW j \in Jobs, Complete(j) PROVE AllTold'
  <2> DEFINE e == IF Full(j) THEN run[j].errors ELSE 0
             p == IF Full(j) /\ run[j].ghosts > 0 THEN "dispatch" ELSE "over"
             r == [NoRun EXCEPT !.pc = p]
             b == [Recorded(j) EXCEPT !.status = "COMPLETED", !.errors = e]
  <2>1. b.errors = e /\ b.kind = job[j].kind
    BY RecordedFields
  <2>2. r.page = {} /\ r.pc \notin Counting
    BY NoRunPage DEF Counting
  <2>3. RunBecomes(j, r) /\ JobBecomes(j, b) /\ UNCHANGED rows
    BY <1>11 DEF Complete
  <2>4. run[j].page = {} /\ run[j].pc \in Counting
    BY <1>0, <1>11 DEF Complete, Finished, InStep, PageInOrder, Counting
  <2>5. run[j].errors = 0 => GhostRows(rows[j]) \subseteq Alerted'
    BY <1>0, <2>4 DEF Told, DueApps
  <2>6. b.kind # "TARGETED" => b.errors = run[j].errors
    BY <2>1 DEF Full
  <2> HIDE DEF r, b
  <2>7. Told(Alerted', r, b, rows[j])
    BY <2>2, <2>5, <2>6, EmptyPageTold
  <2> QED
    BY <1>2, <2>3, <2>7
<1>12. ASSUME NEW j \in Jobs, Failing(j) PROVE AllTold'
  <2> DEFINE r == [NoRun EXCEPT !.pc = "over"]
             b == [job[j] EXCEPT !.status = "FAILED"]
  <2>1. b.status = "FAILED" /\ r.page = {} /\ r.pc = "over"
    BY <1>0, NoRunPage DEF Job
  <2>2. RunBecomes(j, r) /\ JobBecomes(j, b) /\ UNCHANGED rows
    BY <1>12 DEF Failing
  <2> HIDE DEF r, b
  <2>3. Told(Alerted', r, b, rows[j])
    BY <2>1, EmptyPageTold DEF Counting
  <2> QED
    BY <1>2, <2>2, <2>3
<1>13. ASSUME NEW j \in Jobs, Dispatch(j) PROVE AllTold'
  <2> DEFINE x == {i \in DOMAIN alerts : /\ alerts[i].status = "OPEN"
                                         /\ alerts[i].age <= Window(j)}
             r == [run[j] EXCEPT !.pc = "send", !.toSend = x]
  <2>1. RunBecomes(j, r)
    BY <1>13 DEF Dispatch
  <2> HIDE DEF x
  <2>2. r.page = run[j].page /\ r.pc = "send"
    BY <1>0 DEF Run
  <2>3. run[j].page = {} /\ UNCHANGED <<job, rows>>
    BY <1>0, <1>13 DEF Dispatch, InStep, PageInOrder
  <2> HIDE DEF r
  <2>4. r.page = {} /\ r.pc \notin Counting
    BY <2>2, <2>3 DEF Counting
  <2> QED
    BY <1>c, <2>1, <2>3, <2>4
<1>14. ASSUME NEW j \in Jobs, Send(j) PROVE AllTold'
  <2>1. UNCHANGED <<job, rows>> /\ run[j].pc = "send"
    BY <1>14 DEF Send
  <2>2. CASE RunBecomes(j, [NoRun EXCEPT !.pc = "over"])
    <3>1. [NoRun EXCEPT !.pc = "over"].page = {} /\ [NoRun EXCEPT !.pc = "over"].pc \notin Counting
      BY NoRunPage DEF Counting
    <3> QED
      BY <1>c, <2>1, <2>2, <3>1
  <2>3. ASSUME NEW i, RunBecomes(j, [run[j] EXCEPT !.toSend = @ \ {i}]) PROVE AllTold'
    <3> DEFINE r == [run[j] EXCEPT !.toSend = @ \ {i}]
    <3>1. r.page = run[j].page /\ r.pc = run[j].pc
      BY <1>0 DEF Run
    <3>2. run[j].page = {}
      BY <1>0, <2>1 DEF InStep, PageInOrder
    <3> HIDE DEF r
    <3>3. r.page = {} /\ r.pc \notin Counting
      BY <2>1, <3>1, <3>2 DEF Counting
    <3> QED
      BY <1>c, <2>1, <2>3, <3>3 DEF r
  <2> QED
    BY <1>14, <2>2, <2>3 DEF Send
<1>15. ASSUME NEW j \in Jobs, QueryFails(j) PROVE AllTold'
  <2> DEFINE r == [NoRun EXCEPT !.pc = IF Caught(j) THEN "failing" ELSE "over"]
  <2>1. r.page = {} /\ r.pc \notin Counting
    BY NoRunPage DEF Counting
  <2>2. RunBecomes(j, r) /\ UNCHANGED <<job, rows>>
    BY <1>15 DEF QueryFails
  <2> HIDE DEF r
  <2> QED
    BY <1>c, <2>1, <2>2
<1>16. CASE ServerStops
  <2> SUFFICES ASSUME NEW j \in Jobs PROVE Told(Alerted', run'[j], job'[j], rows'[j])
    BY DEF AllTold
  <2> DEFINE r == [NoRun EXCEPT !.pc = "over"]
  <2>1. r.page = {} /\ r.pc \notin Counting
    BY NoRunPage DEF Counting
  <2>2. run'[j] = IF Alive(j) THEN r ELSE run[j]
    BY <1>16 DEF ServerStops
  <2>3. UNCHANGED <<job, rows>>
    BY <1>16 DEF ServerStops
  <2> HIDE DEF r
  <2>4. CASE Alive(j)
    BY <1>0, <2>1, <2>2, <2>3, <2>4, EmptyPageTold DEF Told
  <2>5. CASE ~Alive(j)
    BY <1>0, <2>2, <2>3, <2>5, ToldElsewhere
  <2> QED
    BY <2>4, <2>5
<1>17. CASE UNCHANGED <<run, job, rows>>
  BY <1>0, <1>17, ToldElsewhere DEF AllTold
<1>18. ASSUME NEW j \in Jobs, Advance(j) PROVE AllTold'
  BY <1>4, <1>5, <1>7, <1>8, <1>10, <1>11, <1>12, <1>13, <1>14, <1>18 DEF Advance
<1>19. ASSUME NEW j \in Jobs, Schedule(j) \/ Trigger(j) \/ \E a \in Apps : EnterManually(j, a)
       PROVE  AllTold'
  BY <1>3, <1>19 DEF Schedule, Trigger, EnterManually
<1>20. CASE \/ UNCHANGED vars \/ TimePasses
            \/ \E a \in Apps, f \in Facts : ChangeFact(a, f)
            \/ \E i \in DOMAIN alerts, s \in Settlements : Settle(i, s)
  BY <1>17, <1>20 DEF vars, TimePasses, ChangeFact, Settle
<1> QED
  BY <1>9, <1>15, <1>16, <1>18, <1>19, <1>20 DEF Next

LEMMA ToldInit == Init => AllTold
<1> SUFFICES ASSUME Init, NEW j \in Jobs PROVE Told(Alerted, run[j], job[j], rows[j])
  BY DEF AllTold
<1>1. run[j].page = {} /\ GhostRows(rows[j]) = {}
  BY NoRunPage DEF Init, GhostRows
<1> QED
  BY <1>1, EmptyPageTold

(***************************************************************************)
(* A full run that completes without an error has seen to every ghost it   *)
(* recorded, however its checks interleave with other runs, settlements    *)
(* and updates: the flag it read with the page may be old, but the alert   *)
(* it stood for is never deleted.                                          *)
(***************************************************************************)
THEOREM GhostsAlertedTheorem == Spec => []GhostsAlerted
<1>1. Init => TypeOK /\ Ledger /\ AllTold
  BY TypeInit, LedgerInit, ToldInit
<1>2. TypeOK /\ Ledger /\ AllTold /\ [Next]_vars => TypeOK' /\ Ledger' /\ AllTold'
  BY TypeStep, LedgerStep, ToldStep
<1>3. AllTold => GhostsAlerted
  <2> SUFFICES ASSUME AllTold, NEW j \in Jobs, job[j].status = "COMPLETED", Full(j),
                      job[j].errors = 0, NEW n \in DOMAIN rows[j], rows[j][n].ghost
               PROVE  \E i \in DOMAIN alerts : alerts[i].app = rows[j][n].app
    BY DEF GhostsAlerted
  <2>1. rows[j][n].app \in Alerted
    BY DEF AllTold, Told, Full, GhostRows
  <2> QED
    BY <2>1 DEF Alerted
<1> QED
  BY <1>1, <1>2, <1>3, PTL DEF Spec
-----------------------------------------------------------------------------
\* Where the alert a, the i-th, stands with the run r that opened it, the run
\* of job b: a run that opened an alert has met a ghost, so it will dispatch;
\* while it sends, the alert is sent or still to be sent.  n failed queries.
Young(a) == a.status = "OPEN" /\ a.age = 0
Reaches(r, b, i, a, n) ==
    /\ r.pc # "none"
    /\ r.pc \in Counting => r.ghosts > 0
    /\ b.kind # "TARGETED" /\ Young(a) =>
          /\ r.pc = "send" => a.sent \/ i \in r.toSend
          /\ r.pc = "over" /\ b.status = "COMPLETED" => a.sent \/ n > 0

AllReach ==
    \A i \in DOMAIN alerts :
        Reaches(run[alerts[i].by], job[alerts[i].by], i, alerts[i], faults)

\* What may happen to an alert that stays.
Kept(a, e) == e.by = a.by /\ (Young(e) => Young(a)) /\ (a.sent => e.sent)

LEMMA KeptAlert ==
    ASSUME NEW r, NEW b, NEW i, NEW a, NEW e, NEW m \in Nat, NEW n \in Nat, n >= m,
           Kept(a, e), Reaches(r, b, i, a, m)
    PROVE  Reaches(r, b, i, e, n)
BY DEF Kept, Reaches

\* No step but the opening of an alert adds one, and none is put back to OPEN
\* or made younger.
AlertsKept == \A i \in DOMAIN alerts' : i \in DOMAIN alerts /\ Kept(alerts[i], alerts'[i])

LEMMA SentKeeps ==
    ASSUME TypeOK, NEW i \in Nat, AlertBecomes(i, [alerts[i] EXCEPT !.sent = TRUE])
    PROVE  /\ AlertsKept /\ DOMAIN alerts' = DOMAIN alerts
           /\ i \in DOMAIN alerts' => alerts'[i].sent
<1> DEFINE e == [alerts[i] EXCEPT !.sent = TRUE]
<1>1. /\ DOMAIN alerts' = DOMAIN alerts
      /\ \A k \in DOMAIN alerts : /\ k # i => alerts'[k] = alerts[k]
                                  /\ k = i => alerts'[k] = e
  BY DEF AlertBecomes, TypeOK
<1>2. ASSUME i \in DOMAIN alerts
      PROVE  e.sent /\ e.by = alerts[i].by /\ e.status = alerts[i].status /\ e.age = alerts[i].age
  <2>1. alerts[i] \in Alert
    BY <1>2 DEF TypeOK
  <2> QED
    BY <2>1 DEF Alert
<1> HIDE DEF e
<1> QED
  BY <1>1, <1>2 DEF AlertsKept, Kept, Young

LEMMA SettledKeeps ==
    ASSUME TypeOK, NEW i \in DOMAIN alerts, NEW s \in Settlements, Settle(i, s)
    PROVE  AlertsKept
<1> DEFINE e == [alerts[i] EXCEPT !.status = s]
<1>1. /\ DOMAIN alerts' = DOMAIN alerts
      /\ \A k \in DOMAIN alerts : /\ k # i => alerts'[k] = alerts[k]
                                  /\ k = i => alerts'[k] = e
  BY DEF Settle, AlertBecomes, TypeOK
<1>2. /\ e.sent = alerts[i].sent /\ e.by = alerts[i].by /\ e.status = s
  BY DEF TypeOK, Alert
<1>3. s # "OPEN"
  BY ReconciliationAssumption
<1> HIDE DEF e
<1> QED
  BY <1>1, <1>2, <1>3 DEF AlertsKept, Kept, Young

LEMMA OlderKeeps ==
    ASSUME TypeOK, TimePasses
    PROVE  AlertsKept
<1>1. DOMAIN alerts' = DOMAIN alerts /\ \A i \in DOMAIN alerts : alerts'[i] = Older(alerts[i])
  BY DEF TimePasses
<1>2. ASSUME NEW i \in DOMAIN alerts
      PROVE  /\ Older(alerts[i]).sent = alerts[i].sent /\ Older(alerts[i]).by = alerts[i].by
             /\ Older(alerts[i]).age # 0
  <2>1. alerts[i] \in Alert
    BY DEF TypeOK
  <2>2. alerts[i].age \in 0 .. 2
    BY <2>1 DEF Alert
  <2>3. /\ Older(alerts[i]).sent = alerts[i].sent /\ Older(alerts[i]).by = alerts[i].by
        /\ Older(alerts[i]).age = IF alerts[i].age < 2 THEN alerts[i].age + 1 ELSE 2
    BY <2>1 DEF Older, Alert
  <2> QED
    BY <2>2, <2>3
<1> QED
  BY <1>1, <1>2 DEF AlertsKept, Kept, Young

\* A step of the run of j, seen by every alert there is.
LEMMA ReachElsewhere ==
    ASSUME TypeOK, AllReach, NEW j \in Jobs, AlertsKept, faults' \in Nat, faults' >= faults,
           \A k \in Jobs \ {j} : run'[k] = run[k] /\ job'[k] = job[k],
           \A i \in DOMAIN alerts' : alerts'[i].by = j =>
               Reaches(run'[j], job'[j], i, alerts'[i], faults')
    PROVE  AllReach'
<1> SUFFICES ASSUME NEW i \in DOMAIN alerts', alerts'[i].by # j
             PROVE  Reaches(run'[alerts'[i].by], job'[alerts'[i].by], i, alerts'[i], faults')
  BY DEF AllReach
<1>1. i \in DOMAIN alerts /\ Kept(alerts[i], alerts'[i]) /\ faults \in Nat
  BY DEF AlertsKept, TypeOK
<1>2. alerts[i].by \in Jobs \ {j} /\ alerts'[i].by = alerts[i].by
  <2>1. alerts[i] \in Alert
    BY <1>1 DEF TypeOK
  <2> QED
    BY <1>1, <2>1 DEF Kept, Alert
<1>3. Reaches(run[alerts[i].by], job[alerts[i].by], i, alerts[i], faults)
  BY <1>1 DEF AllReach
<1> QED
  BY <1>1, <1>2, <1>3, KeptAlert

LEMMA ReachStep == TypeOK /\ Ledger /\ AllTold /\ AllReach /\ [Next]_vars => AllReach'
<1> SUFFICES ASSUME TypeOK, Ledger, AllTold, AllReach, [Next]_vars PROVE AllReach'
  OBVIOUS
<1>0. /\ \A j \in Jobs : run[j] \in Run /\ job[j] \in Job /\ InStep(run[j], job[j], rows[j])
      /\ faults \in Nat
      /\ UNCHANGED alerts => AlertsKept
  BY DEF TypeOK, Ledger, AlertsKept, Kept
<1>d. \A i \in DOMAIN alerts : alerts[i].by \in Jobs
  <2>1. \A i \in DOMAIN alerts : alerts[i] \in Alert
    BY DEF TypeOK
  <2> QED
    BY <2>1 DEF Alert
\* What the alerts of one job make of a step of its run.
<1>a. ASSUME NEW j \in Jobs, AlertsKept, faults' \in Nat, faults' >= faults,
             \A k \in Jobs \ {j} : run'[k] = run[k] /\ job'[k] = job[k],
             \A i \in DOMAIN alerts' :
                 Reaches(run[j], job[j], i, alerts[i], faults)
                    => Reaches(run'[j], job'[j], i, alerts'[i], faults')
      PROVE  AllReach'
  <2> SUFFICES ASSUME NEW i \in DOMAIN alerts', alerts'[i].by = j
               PROVE  Reaches(run'[j], job'[j], i, alerts'[i], faults')
    BY <1>a, ReachElsewhere
  <2>1. Reaches(run[j], job[j], i, alerts[i], faults)
    BY <1>a DEF AlertsKept, Kept, AllReach
  <2> QED
    BY <1>a, <2>1
<1>1. ASSUME NEW j \in Jobs, NEW r, RunBecomes(j, r), UNCHANGED <<job, alerts>>,
             faults' \in Nat, faults' >= faults,
             \A i \in DOMAIN alerts :
                 Reaches(run[j], job[j], i, alerts[i], faults)
                    => Reaches(r, job[j], i, alerts[i], faults')
      PROVE  AllReach'
  BY <1>0, <1>1, <1>a, RunNow
<1>2. ASSUME NEW j \in Jobs, NEW r, RunBecomes(j, r), NEW b, JobBecomes(j, b),
             UNCHANGED <<alerts, faults>>,
             \A i \in DOMAIN alerts :
                 Reaches(run[j], job[j], i, alerts[i], faults)
                    => Reaches(r, b, i, alerts[i], faults)
      PROVE  AllReach'
  BY <1>0, <1>2, <1>a, RunNow, JobNow
\* A run that goes on counting keeps what it has met.
<1>b. ASSUME NEW j \in Jobs, run[j].pc \in Counting, NEW r, r.pc \in Counting,
             NEW g \in Nat, r.ghosts = run[j].ghosts + g, NEW b, NEW i, NEW a, NEW n,
             Reaches(run[j], job[j], i, a, faults)
      PROVE  Reaches(r, b, i, a, n)
  <2>1. run[j].ghosts \in Nat
    BY <1>0 DEF Run
  <2> QED
    BY <1>b, <2>1 DEF Reaches, Counting
<1>c. ASSUME NEW j \in Jobs, run[j].pc \in Counting, NEW r, r.pc \in Counting,
             r.ghosts = run[j].ghosts, NEW b, NEW i, NEW a, NEW n,
             Reaches(run[j], job[j], i, a, faults)
      PROVE  Reaches(r, b, i, a, n)
  BY <1>c DEF Reaches, Counting
<1>3. ASSUME NEW j \in Jobs, NEW kind, NEW target, Create(j, kind, target)
      PROVE  AllReach'
  <2> DEFINE r == [NoRun EXCEPT !.pc = "begin", !.target = target]
             b == [NoJob EXCEPT !.status = "PENDING", !.kind = kind]
  <2>1. run[j].pc = "none"
    BY <1>0, <1>3 DEF Create, InStep
  <2>2. RunBecomes(j, r) /\ JobBecomes(j, b) /\ UNCHANGED <<alerts, faults>>
    BY <1>3 DEF Create
  <2> HIDE DEF r, b
  <2> QED
    BY <1>2, <2>1, <2>2 DEF Reaches
<1>4. ASSUME NEW j \in Jobs, Begin(j) PROVE AllReach'
  <2> DEFINE r == [run[j] EXCEPT !.pc = IF Full(j) THEN "count" ELSE "page"]
             b == [job[j] EXCEPT !.status = "RUNNING"]
  <2>1. r.pc \in Counting /\ r.ghosts = run[j].ghosts
    BY <1>0 DEF Run, Counting
  <2>2. RunBecomes(j, r) /\ JobBecomes(j, b) /\ UNCHANGED <<alerts, faults>>
    BY <1>4 DEF Begin
  <2>3. run[j].pc \in Counting
    BY <1>4 DEF Begin, Counting
  <2> HIDE DEF r, b
  <2> QED
    BY <1>2, <1>c, <2>1, <2>2, <2>3
<1>5. ASSUME NEW j \in Jobs, Count(j) PROVE AllReach'
  <2> DEFINE p == IF InScope = {} THEN "complete" ELSE "page"
             r == [run[j] EXCEPT !.total = Cardinality(InScope), !.pc = p]
  <2>1. \A x, y : /\ [run[j] EXCEPT !.total = x, !.pc = y].pc = y
                  /\ [run[j] EXCEPT !.total = x, !.pc = y].ghosts = run[j].ghosts
    BY <1>0 DEF Run
  <2>2. r.pc \in Counting /\ r.ghosts = run[j].ghosts
    BY <2>1 DEF Counting
  <2>3. run[j].pc \in Counting
    BY <1>5 DEF Count, Counting
  <2>4. RunBecomes(j, r) /\ UNCHANGED <<job, alerts, faults>>
    BY <1>5 DEF Count
  <2> HIDE DEF r
  <2> QED
    BY <1>0, <1>1, <1>c, <2>2, <2>3, <2>4
<1>6. ASSUME NEW j \in Jobs, NEW S, run[j].pc = "page", Fetch(j, S) PROVE AllReach'
  <2> DEFINE r == [run[j] EXCEPT !.pc = "check", !.page = {CopyOf(a) : a \in S}]
  <2>1. \A x, y : /\ [run[j] EXCEPT !.pc = x, !.page = y].pc = x
                  /\ [run[j] EXCEPT !.pc = x, !.page = y].ghosts = run[j].ghosts
    BY <1>0 DEF Run
  <2>2. r.pc \in Counting /\ r.ghosts = run[j].ghosts /\ run[j].pc \in Counting
    BY <1>6, <2>1 DEF Counting
  <2>3. RunBecomes(j, r) /\ UNCHANGED <<job, alerts, faults>>
    BY <1>6 DEF Fetch
  <2> HIDE DEF r
  <2> QED
    BY <1>0, <1>1, <1>c, <2>2, <2>3
<1>7. ASSUME NEW j \in Jobs, ReadPage(j) PROVE AllReach'
  BY <1>6, <1>7 DEF ReadPage
\* A check that ends, without an alert to write.
<1>8. ASSUME NEW j \in Jobs, run[j].pc = "check", NEW c \in run[j].page,
             RunBecomes(j, Checked(run[j], c)), UNCHANGED <<job, alerts, faults>>
      PROVE  AllReach'
  <2> DEFINE r == Checked(run[j], c)
             g == Points(IsGhost(c.fact), 1)
  <2>1. r.pc = "check" /\ r.ghosts = run[j].ghosts + g
    BY <1>0, <1>8, CheckedTyped
  <2>2. g \in Nat /\ r.pc \in Counting /\ run[j].pc \in Counting
    BY <1>8, <2>1 DEF Points, Counting
  <2> HIDE DEF r, g
  <2>3. \A i \in DOMAIN alerts : Reaches(run[j], job[j], i, alerts[i], faults)
                                    => Reaches(r, job[j], i, alerts[i], faults')
    BY <1>b, <2>1, <2>2
  <2>4. RunBecomes(j, r) /\ faults' \in Nat /\ faults' >= faults
    BY <1>0, <1>8 DEF r
  <2> QED
    BY <1>1, <1>8, <2>3, <2>4
<1>9. ASSUME NEW j \in Jobs, run[j].pc = "check", NEW c \in Current(j),
             CheckClean(j, c) \/ WriteRow(j, c)
      PROVE  AllReach'
  <2>1. c \in run[j].page
    BY <1>9 DEF Current
  <2>2. CASE RunBecomes(j, Checked(run[j], c)) /\ UNCHANGED <<job, alerts, faults>>
    BY <1>8, <1>9, <2>1, <2>2
  <2> DEFINE e == [c EXCEPT !.written = TRUE]
             r == [run[j] EXCEPT !.page = (run[j].page \ {c}) \cup {e}]
  <2>3. CASE RunBecomes(j, r) /\ UNCHANGED <<job, alerts, faults>>
    <3>1. r.pc = run[j].pc /\ r.ghosts = run[j].ghosts
      BY <1>0 DEF Run
    <3>2. r.pc \in Counting /\ run[j].pc \in Counting
      BY <1>9, <3>1 DEF Counting
    <3> HIDE DEF r, e
    <3> QED
      BY <1>0, <1>1, <1>c, <2>3, <3>1, <3>2
  <2> HIDE DEF r, e
  <2>4. \/ RunBecomes(j, Checked(run[j], c)) /\ UNCHANGED <<job, alerts, faults>>
        \/ RunBecomes(j, r) /\ UNCHANGED <<job, alerts, faults>>
    BY <1>9, Zenon DEF CheckClean, WriteRow, r, e
  <2> QED
    BY <2>2, <2>3, <2>4
\* The alert that is opened is about a ghost, which the run counts with it.
<1>10. ASSUME NEW j \in Jobs, run[j].pc = "check", NEW c \in Current(j), OpenAlert(j, c)
       PROVE  AllReach'
  <2>1. c \in run[j].page /\ IsGhost(c.fact)
    BY <1>10 DEF Current, OpenAlert, AllTold, Told
  <2> DEFINE r == Checked(run[j], c)
             new == [app |-> c.app, by |-> j, age |-> 0, sent |-> FALSE, status |-> "OPEN"]
  <2>2. r.pc = "check" /\ r.ghosts = run[j].ghosts + 1
    BY <1>0, <1>10, <2>1, CheckedTyped DEF Points
  <2>3. run[j].ghosts \in Nat /\ new.by = j
    BY <1>0 DEF Run
  <2>4. /\ RunBecomes(j, r) /\ UNCHANGED <<job, faults>> /\ alerts' = Append(alerts, new)
    BY <1>10 DEF OpenAlert
  <2> HIDE DEF r, new
  <2>5. run'[j] = r /\ \A k \in Jobs \ {j} : run'[k] = run[k]
    BY <2>4, RunNow
  <2>6. /\ \A i \in DOMAIN alerts' : i \in DOMAIN alerts \/ i = Len(alerts) + 1
        /\ \A i \in DOMAIN alerts : alerts'[i] = alerts[i]
        /\ alerts'[Len(alerts) + 1] = new
    BY <2>4 DEF TypeOK
  <2>7. \A i, a : Reaches(r, job[j], i, a, faults)
    BY <2>2, <2>3 DEF Reaches, Counting
  <2>8. ASSUME NEW i \in DOMAIN alerts'
        PROVE  Reaches(run'[alerts'[i].by], job'[alerts'[i].by], i, alerts'[i], faults')
    <3>1. CASE alerts'[i].by = j
      BY <2>4, <2>5, <2>7, <3>1
    <3>2. CASE alerts'[i].by # j
      <4>1. i \in DOMAIN alerts /\ alerts'[i] = alerts[i]
        BY <2>3, <2>6, <3>2
      <4>2. alerts[i].by \in Jobs \ {j}
        BY <1>d, <3>2, <4>1
      <4> QED
        BY <2>4, <2>5, <4>1, <4>2 DEF AllReach
    <3> QED
      BY <3>1, <3>2
  <2> QED
    BY <2>8 DEF AllReach
<1>11. ASSUME NEW j \in Jobs, Check(j) PROVE AllReach'
  BY <1>9, <1>10, <1>11 DEF Check
<1>12. ASSUME NEW j \in Jobs, CheckFails(j) PROVE AllReach'
  <2>1. PICK c \in Current(j) : RunBecomes(j, [run[j] EXCEPT !.page = @ \ {c}, !.errors = @ + 1])
    BY <1>12, Zenon DEF CheckFails
  <2> DEFINE r == [run[j] EXCEPT !.page = @ \ {c}, !.errors = @ + 1]
  <2>2. \A x, y : /\ [run[j] EXCEPT !.page = x, !.errors = y].pc = run[j].pc
                  /\ [run[j] EXCEPT !.page = x, !.errors = y].ghosts = run[j].ghosts
    BY <1>0 DEF Run
  <2>3. r.pc = run[j].pc /\ r.ghosts = run[j].ghosts
    BY <2>2
  <2>4. /\ run[j].pc = "check" /\ UNCHANGED <<job, alerts>> /\ faults' = faults + 1
    BY <1>12 DEF CheckFails
  <2> HIDE DEF r
  <2>5. run[j].pc \in Counting /\ r.pc \in Counting /\ faults' \in Nat /\ faults' >= faults
    BY <1>0, <2>3, <2>4 DEF Counting
  <2>6. \A i \in DOMAIN alerts : Reaches(run[j], job[j], i, alerts[i], faults)
                                    => Reaches(r, job[j], i, alerts[i], faults')
    BY <1>c, <2>3, <2>5
  <2>7. RunBecomes(j, r)
    BY <2>1 DEF r
  <2> QED
    BY <1>1, <2>4, <2>5, <2>6, <2>7
<1>13. ASSUME NEW j \in Jobs, PageDone(j) PROVE AllReach'
  <2> DEFINE next == run[j].offset + BatchSize
             p == IF next < run[j].total THEN "page" ELSE "complete"
             r == [run[j] EXCEPT !.offset = next, !.pc = p]
  <2>1. \A x, y : /\ [run[j] EXCEPT !.offset = x, !.pc = y].pc = y
                  /\ [run[j] EXCEPT !.offset = x, !.pc = y].ghosts = run[j].ghosts
    BY <1>0 DEF Run
  <2>2. r.pc \in Counting /\ r.ghosts = run[j].ghosts /\ run[j].pc \in Counting
    BY <1>13, <2>1 DEF Counting, PageDone
  <2>3. RunBecomes(j, r) /\ JobBecomes(j, Recorded(j)) /\ UNCHANGED <<alerts, faults>>
    BY <1>13 DEF PageDone
  <2> HIDE DEF r
  <2> QED
    BY <1>2, <1>c, <2>2, <2>3
<1>14. ASSUME NEW j \in Jobs, Complete(j) PROVE AllReach'
  <2> DEFINE e == IF Full(j) THEN run[j].errors ELSE 0
             p == IF Full(j) /\ run[j].ghosts > 0 THEN "dispatch" ELSE "over"
             r == [NoRun EXCEPT !.pc = p]
             b == [Recorded(j) EXCEPT !.status = "COMPLETED", !.errors = e]
  <2>1. b.kind = job[j].kind
    BY RecordedFields
  <2>2. r.pc = p
    BY NoRunPage
  <2>3. RunBecomes(j, r) /\ JobBecomes(j, b) /\ UNCHANGED <<alerts, faults>>
    BY <1>14 DEF Complete
  <2>4. run[j].pc \in Counting
    BY <1>14 DEF Complete, Finished, Counting
  <2> HIDE DEF r, b
  <2>5. \A i, a : Reaches(run[j], job[j], i, a, faults) => Reaches(r, b, i, a, faults)
    BY <2>1, <2>2, <2>4 DEF Reaches, Counting, Full
  <2> QED
    BY <1>2, <2>3, <2>5
<1>15. ASSUME NEW j \in Jobs, Failing(j) PROVE AllReach'
  <2> DEFINE r == [NoRun EXCEPT !.pc = "over"]
             b == [job[j] EXCEPT !.status = "FAILED"]
  <2>1. b.status = "FAILED" /\ r.pc = "over"
    BY <1>0, NoRunPage DEF Job
  <2>2. RunBecomes(j, r) /\ JobBecomes(j, b) /\ UNCHANGED <<alerts, faults>>
    BY <1>15 DEF Failing
  <2> HIDE DEF r, b
  <2>3. \A i, a : Reaches(r, b, i, a, faults)
    BY <2>1 DEF Reaches, Counting
  <2> QED
    BY <1>2, <2>2, <2>3
<1>16. ASSUME NEW j \in Jobs, Dispatch(j) PROVE AllReach'
  <2> DEFINE x == {i \in DOMAIN alerts : /\ alerts[i].status = "OPEN"
                                         /\ alerts[i].age <= Window(j)}
             r == [run[j] EXCEPT !.pc = "send", !.toSend = x]
  <2>1. RunBecomes(j, r) /\ UNCHANGED <<job, alerts, faults>>
    BY <1>16 DEF Dispatch
  <2>2. \A i \in DOMAIN alerts : Young(alerts[i]) => i \in x
    BY DEF Young, Window
  <2> HIDE DEF x
  <2>3. r.pc = "send" /\ r.toSend = x
    BY <1>0 DEF Run
  <2> HIDE DEF r
  <2>4. \A i \in DOMAIN alerts : Reaches(r, job[j], i, alerts[i], faults)
    BY <2>2, <2>3 DEF Reaches, Counting
  <2> QED
    BY <1>0, <1>1, <2>1, <2>4
<1>17. ASSUME NEW j \in Jobs, Send(j) PROVE AllReach'
  <2>1. run[j].pc = "send" /\ UNCHANGED <<job, faults>> /\ job' = job /\ faults' = faults
    BY <1>17 DEF Send
  <2>2. CASE /\ run[j].toSend = {} /\ RunBecomes(j, [NoRun EXCEPT !.pc = "over"])
             /\ UNCHANGED alerts
    <3> DEFINE r == [NoRun EXCEPT !.pc = "over"]
    <3>1. r.pc = "over"
      BY NoRunPage
    <3> HIDE DEF r
    <3>2. \A i, a : Reaches(run[j], job[j], i, a, faults) => Reaches(r, job[j], i, a, faults)
      BY <2>1, <2>2, <3>1 DEF Reaches, Counting
    <3>3. RunBecomes(j, r)
      BY <2>2 DEF r
    <3> QED
      BY <1>0, <1>1, <2>1, <2>2, <3>2, <3>3
  <2>3. ASSUME NEW i \in run[j].toSend, AlertBecomes(i, [alerts[i] EXCEPT !.sent = TRUE]),
               RunBecomes(j, [run[j] EXCEPT !.toSend = @ \ {i}])
        PROVE  AllReach'
    <3> DEFINE r == [run[j] EXCEPT !.toSend = @ \ {i}]
    <3>1. r.pc = "send" /\ r.toSend = run[j].toSend \ {i}
      BY <1>0, <2>1 DEF Run
    <3>2. i \in Nat
      BY <1>0 DEF Run
    <3>3. /\ AlertsKept /\ DOMAIN alerts' = DOMAIN alerts
          /\ i \in DOMAIN alerts' => alerts'[i].sent
      BY <2>3, <3>2, SentKeeps
    <3>4. run'[j] = r /\ \A k \in Jobs \ {j} : run'[k] = run[k]
      BY <2>3, RunNow
    <3> HIDE DEF r
    <3>5. ASSUME NEW k \in DOMAIN alerts', Reaches(run[j], job[j], k, alerts[k], faults)
          PROVE  Reaches(r, job[j], k, alerts'[k], faults)
      BY <2>1, <3>1, <3>3, <3>5 DEF Reaches, AlertsKept, Kept, Counting
    <3> QED
      BY <1>0, <1>a, <2>1, <3>3, <3>4, <3>5
  <2> QED
    BY <1>17, <2>2, <2>3 DEF Send
<1>18. ASSUME NEW j \in Jobs, QueryFails(j) PROVE AllReach'
  <2> DEFINE r == [NoRun EXCEPT !.pc = IF Caught(j) THEN "failing" ELSE "over"]
  <2>1. r.pc \in {"failing", "over"}
    BY NoRunPage
  <2>2. RunBecomes(j, r) /\ UNCHANGED <<job, alerts>> /\ faults' = faults + 1
    BY <1>18 DEF QueryFails
  <2> HIDE DEF r
  <2>3. faults' \in Nat /\ faults' >= faults /\ faults' > 0
    BY <1>0, <2>2
  <2>4. \A i, a : Reaches(r, job[j], i, a, faults')
    BY <2>1, <2>3 DEF Reaches, Counting
  <2> QED
    BY <1>1, <2>2, <2>3, <2>4
<1>19. CASE ServerStops
  <2> SUFFICES ASSUME NEW i \in DOMAIN alerts'
               PROVE  Reaches(run'[alerts'[i].by], job'[alerts'[i].by], i, alerts'[i], faults')
    BY DEF AllReach
  <2> DEFINE j == alerts[i].by
             r == [NoRun EXCEPT !.pc = "over"]
  <2>1. r.pc = "over"
    BY NoRunPage
  <2>2. UNCHANGED <<job, alerts>> /\ alerts' = alerts /\ job' = job /\ faults' = faults + 1
    BY <1>19 DEF ServerStops
  <2>3. j \in Jobs
    BY <1>d, <2>2
  <2>4. run'[j] = IF Alive(j) THEN r ELSE run[j]
    BY <1>19, <2>3 DEF ServerStops
  <2>5. Reaches(run[j], job[j], i, alerts[i], faults)
    BY <2>2 DEF AllReach
  <2>6. faults' \in Nat /\ faults' >= faults /\ faults' > 0
    BY <1>0, <2>2
  <2> HIDE DEF r
  <2>7. Reaches(r, job[j], i, alerts[i], faults')
    BY <2>1, <2>6 DEF Reaches, Counting
  <2>8. Reaches(run[j], job[j], i, alerts[i], faults')
    BY <2>5, <2>6 DEF Reaches
  <2> QED
    BY <2>2, <2>4, <2>7, <2>8
<1>20. CASE UNCHANGED <<run, job, faults>> /\ AlertsKept
  <2> SUFFICES ASSUME NEW i \in DOMAIN alerts'
               PROVE  Reaches(run'[alerts'[i].by], job'[alerts'[i].by], i, alerts'[i], faults')
    BY DEF AllReach
  <2>1. i \in DOMAIN alerts /\ Kept(alerts[i], alerts'[i]) /\ alerts'[i].by = alerts[i].by
    BY <1>20 DEF AlertsKept, Kept
  <2>2. Reaches(run[alerts[i].by], job[alerts[i].by], i, alerts[i], faults)
    BY <2>1 DEF AllReach
  <2> QED
    BY <1>20, <2>1, <2>2, KeptAlert, <1>0
<1>21. ASSUME NEW j \in Jobs, Advance(j) PROVE AllReach'
  BY <1>4, <1>5, <1>7, <1>11, <1>13, <1>14, <1>15, <1>16, <1>17, <1>21 DEF Advance
<1>22. ASSUME NEW j \in Jobs, Schedule(j) \/ Trigger(j) \/ \E a \in Apps : EnterManually(j, a)
       PROVE  AllReach'
  BY <1>3, <1>22 DEF Schedule, Trigger, EnterManually
<1>23. CASE TimePasses
  BY <1>20, <1>23, OlderKeeps DEF TimePasses
<1>24. ASSUME NEW i \in DOMAIN alerts, NEW s \in Settlements, Settle(i, s) PROVE AllReach'
  BY <1>20, <1>24, SettledKeeps DEF Settle
<1>25. CASE UNCHANGED vars \/ \E a \in Apps, f \in Facts : ChangeFact(a, f)
  BY <1>0, <1>20, <1>25 DEF vars, ChangeFact
<1> QED
  BY <1>12, <1>18, <1>19, <1>21, <1>22, <1>23, <1>24, <1>25 DEF Next

LEMMA ReachInit == Init => AllReach
BY DEF Init, AllReach

(***************************************************************************)
(* Of the alerts a completed full run opened none that is still OPEN and   *)
(* fresh is left unsent, unless a query failed: settling others, other     *)
(* runs' dispatches and updates do not come between.                       *)
(***************************************************************************)
THEOREM FreshAlertsTheorem == Spec => []FreshAlertsSent
<1> DEFINE Inv == TypeOK /\ Ledger /\ AllTold /\ AllReach
<1>1. Init => Inv
  BY TypeInit, LedgerInit, ToldInit, ReachInit
<1>2. Inv /\ [Next]_vars => Inv'
  BY TypeStep, LedgerStep, ToldStep, ReachStep
<1>3. Inv => FreshAlertsSent
  <2> SUFFICES ASSUME Inv, NEW i \in DOMAIN alerts,
                      job[alerts[i].by].status = "COMPLETED", Full(alerts[i].by),
                      ~Alive(alerts[i].by), alerts[i].status = "OPEN", alerts[i].age = 0
               PROVE  alerts[i].sent \/ faults > 0
    BY DEF FreshAlertsSent
  <2>1. Reaches(run[alerts[i].by], job[alerts[i].by], i, alerts[i], faults)
    BY DEF AllReach
  <2> QED
    BY <2>1 DEF Reaches, Young, Full, Alive
<1> QED
  BY <1>1, <1>2, <1>3, PTL DEF Spec
=============================================================================
