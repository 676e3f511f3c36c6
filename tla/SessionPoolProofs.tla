------------------------- MODULE SessionPoolProofs -------------------------
(***************************************************************************)
(* Safety of the session pool for all workers, processes, accounts and     *)
(* limits.                                                                 *)
(***************************************************************************)
EXTENDS SessionPool, FiniteSetTheorems, TLAPS

Locked(w) == worker[w].pc \in {"verify", "open", "using", "unlockRead", "unlockDel"}

\* Who is at an undisturbed account owns its lock.
HoldsLock ==
    \A w \in Workers : Locked(w) /\ Acc(w) \notin disturbed => lock[Acc(w)].owner = w

HomeOf(p) == {w \in Workers : Home[w] = p}

\* Workers of a process that have found an account and not counted it yet.
InFlight(p, a) ==
    {w \in Workers : /\ Home[w] = p /\ Acc(w) = a
                     /\ worker[w].pc \in {"read", "write", "verify", "open"}}

\* With those in flight counted in, the limit is passed by the others at most.
Counted ==
    \A p \in Processes, a \in Accounts :
        pool[p][a].requests + Cardinality(InFlight(p, a))
            < MaxRequestsPerHour + Cardinality(HomeOf(p))

IInv == TypeOK /\ HoldsLock /\ MarkedUnlessDisturbed /\ Counted
-----------------------------------------------------------------------------
\* The steps of a worker leave the other workers alone.
LEMMA WorkerMoves ==
    ASSUME TypeOK, NEW w \in Workers, NEW r \in Worker,
           worker' = [worker EXCEPT ![w] = r]
    PROVE  /\ worker' \in [Workers -> Worker]
           /\ worker'[w] = r
           /\ \A v \in Workers \ {w} : worker'[v] = worker[v]
BY DEF TypeOK

LEMMA Going ==
    ASSUME TypeOK, NEW w \in Workers, NEW pc \in Stages, Goto(w, pc)
    PROVE  /\ worker' \in [Workers -> Worker]
           /\ worker'[w].pc = pc /\ worker'[w].account = Acc(w)
           /\ worker'[w].failed = worker[w].failed
           /\ \A v \in Workers \ {w} : worker'[v] = worker[v]
<1>1. worker[w] \in Worker
  BY DEF TypeOK
<1>2. /\ [worker[w] EXCEPT !.pc = pc] \in Worker
      /\ [worker[w] EXCEPT !.pc = pc].pc = pc
      /\ [worker[w] EXCEPT !.pc = pc].account = worker[w].account
      /\ [worker[w] EXCEPT !.pc = pc].failed = worker[w].failed
  BY <1>1 DEF Worker
<1>3. worker' = [worker EXCEPT ![w] = [worker[w] EXCEPT !.pc = pc]]
  BY DEF Goto
<1>4. QED
  BY <1>2, <1>3, WorkerMoves DEF Acc

LEMMA IdleTyped == Idle \in Worker /\ Idle.pc = "idle" /\ AccountList[1] \in Accounts
<1>1. 1 \in DOMAIN AccountList
  BY PoolAssumption
<1>2. AccountList[1] \in Accounts
  BY <1>1 DEF Accounts
<1>3. QED
  BY <1>2 DEF Idle, Worker, Stages

LEMMA Ending ==
    ASSUME TypeOK, NEW w \in Workers, End(w)
    PROVE  /\ worker' \in [Workers -> Worker]
           /\ worker'[w].pc = "idle"
           /\ \A v \in Workers \ {w} : worker'[v] = worker[v]
BY WorkerMoves, IdleTyped DEF End

\* A worker changes its account in its own process.
LEMMA AccountMoves ==
    ASSUME TypeOK, NEW w \in Workers, NEW r \in Account, AccountBecomes(w, r)
    PROVE  /\ pool' \in [Processes -> [Accounts -> Account]]
           /\ pool'[Home[w]][Acc(w)] = r
           /\ \A p \in Processes, a \in Accounts :
                 p # Home[w] \/ a # Acc(w) => pool'[p][a] = pool[p][a]
<1>1. Home[w] \in Processes /\ Acc(w) \in Accounts
  BY PoolAssumption DEF TypeOK, Worker, Acc
<1>2. pool \in [Processes -> [Accounts -> Account]]
  BY DEF TypeOK
<1>3. pool' = [pool EXCEPT ![Home[w]] = [pool[Home[w]] EXCEPT ![Acc(w)] = r]]
  BY <1>1, <1>2 DEF AccountBecomes
<1>4. [pool[Home[w]] EXCEPT ![Acc(w)] = r] \in [Accounts -> Account]
  BY <1>1, <1>2
<1>5. QED
  BY <1>1, <1>2, <1>3, <1>4

\* What the steps make of an account is an account, and which fields they keep.
LEMMA AccountTyped ==
    ASSUME NEW r \in Account
    PROVE  /\ [r EXCEPT !.lockLeft = LockTTL] \in Account
           /\ [r EXCEPT !.lockLeft = LockTTL].inUse = r.inUse
           /\ [r EXCEPT !.lockLeft = LockTTL].requests = r.requests
           /\ [r EXCEPT !.lockLeft = 0] \in Account
           /\ [r EXCEPT !.lockLeft = 0].inUse = r.inUse
           /\ [r EXCEPT !.lockLeft = 0].requests = r.requests
           /\ [r EXCEPT !.cooldown = CooldownDuration] \in Account
           /\ [r EXCEPT !.cooldown = CooldownDuration].inUse = r.inUse
           /\ [r EXCEPT !.cooldown = CooldownDuration].requests = r.requests
           /\ r.requests \in Nat /\ r.inUse \in BOOLEAN
BY PoolAssumption DEF Account

LEMMA Uncounted ==
    \A r \in Account : /\ [r EXCEPT !.requests = 0] \in Account
                       /\ [r EXCEPT !.requests = 0].inUse = r.inUse
                       /\ [r EXCEPT !.requests = 0].requests = 0
BY DEF Account

LEMMA AccountFields ==
    /\ \A r \in Account, f \in 0 .. MaxFailures :
          /\ [r EXCEPT !.inUse = FALSE, !.failures = f] \in Account
          /\ [r EXCEPT !.inUse = FALSE, !.failures = f].inUse = FALSE
          /\ [r EXCEPT !.inUse = FALSE, !.failures = f].requests = r.requests
    /\ \A r \in Account, f \in 0 .. MaxFailures :
          /\ [r EXCEPT !.failures = f] \in Account
          /\ [r EXCEPT !.failures = f].inUse = r.inUse
          /\ [r EXCEPT !.failures = f].requests = r.requests
BY DEF Account

LEMMA CountsTyped ==
    ASSUME NEW r \in Account
    PROVE  /\ r.requests + 1 \in Nat
           /\ (IF r.failures < MaxFailures THEN r.failures + 1 ELSE r.failures)
                 \in 0 .. MaxFailures
           /\ \A success \in BOOLEAN :
                 (IF success THEN 0 ELSE r.failures) \in 0 .. MaxFailures
<1>1. MaxFailures \in Nat /\ r.failures \in 0 .. MaxFailures /\ r.requests \in Nat
  BY PoolAssumption DEF Account
<1>2. QED
  BY <1>1

LEMMA CooledTyped ==
    ASSUME NEW w, NEW r \in Account
    PROVE  /\ CooledDown(w, r) \in Account
           /\ CooledDown(w, r).inUse = r.inUse
           /\ CooledDown(w, r).requests = r.requests
BY AccountTyped DEF CooledDown

LEMMA MineTyped ==
    ASSUME TypeOK, NEW w \in Workers
    PROVE  /\ Home[w] \in Processes /\ Acc(w) \in Accounts
           /\ worker[w] \in Worker /\ Mine(w) \in Account
           /\ lock[Acc(w)] \in Lock
BY PoolAssumption DEF TypeOK, Worker, Acc, Mine

LEMMA UnlockedTyped ==
    ASSUME TypeOK, NEW w \in Workers
    PROVE  LET r == CooledDown(w, [Mine(w) EXCEPT !.lockLeft = 0])
           IN  r \in Account /\ r.inUse = Mine(w).inUse /\ r.requests = Mine(w).requests
<1> DEFINE u == [Mine(w) EXCEPT !.lockLeft = 0]
<1>1. Mine(w) \in Account
  BY MineTyped
<1>2. u \in Account /\ u.inUse = Mine(w).inUse /\ u.requests = Mine(w).requests
  BY <1>1, AccountTyped
<1> HIDE DEF u
<1>3. /\ CooledDown(w, u) \in Account
      /\ CooledDown(w, u).inUse = u.inUse /\ CooledDown(w, u).requests = u.requests
  BY <1>2, CooledTyped
<1>4. QED
  BY <1>2, <1>3 DEF u

LEMMA UsedLastTyped ==
    ASSUME NEW s \in Seq(Accounts), NEW a \in Accounts
    PROVE  UsedLast(s, a) \in Seq(Accounts)
<1> DEFINE i == CHOOSE i \in DOMAIN s : s[i] = a
           at(k) == IF k < i THEN s[k] ELSE IF k < Len(s) THEN s[k + 1] ELSE a
<1>1. \A k \in 1 .. Len(s) : at(k) \in Accounts
  <2>1. \A k \in 1 .. Len(s) : s[k] \in Accounts /\ (k < Len(s) => s[k + 1] \in Accounts)
    OBVIOUS
  <2>2. QED
    BY <2>1
<1> HIDE DEF i
<1>2. UsedLast(s, a) = [k \in 1 .. Len(s) |-> at(k)]
  BY DEF UsedLast, i
<1>3. Len(s) \in Nat
  OBVIOUS
<1> HIDE DEF at
<1>4. [k \in 1 .. Len(s) |-> at(k)] \in Seq(Accounts)
  BY <1>1, <1>3
<1>5. QED
  BY <1>2, <1>4

LEMMA FreeTyped == Free \in Lock /\ Free.owner = Nobody
BY PoolAssumption DEF Free, Lock

LEMMA WrittenTyped ==
    ASSUME NEW w \in Workers
    PROVE  [owner |-> w, left |-> LockTTL] \in Lock
BY PoolAssumption DEF Lock
-----------------------------------------------------------------------------
\* Steps of a worker that neither mark an account nor count a request.
Quiet(w) ==
    \/ ReadLock(w) \/ WriteLock(w) \/ Verify(w) \/ CacheFailsLocking(w)
    \/ OpenFails(w) \/ UnlockRead(w) \/ UnlockDel(w) \/ CacheFailsUnlocking(w)

Others(w) == \A v \in Workers \ {w} : worker'[v] = worker[v]

PoolKept ==
    \A p \in Processes, a \in Accounts :
        /\ pool'[p][a].inUse = pool[p][a].inUse
        /\ pool'[p][a].requests = pool[p][a].requests

\* From where to where a quiet step takes a worker that goes on.
QuietMoves == {<<"read", "write">>, <<"write", "verify">>, <<"verify", "open">>,
               <<"open", "unlockRead">>, <<"unlockRead", "unlockDel">>}

QuietMove(w) ==
    /\ Others(w)
    /\ worker[w].pc \notin {"idle", "using"}
    /\ \/ worker'[w].pc = "idle"
       \/ /\ worker'[w].account = Acc(w)
          /\ <<worker[w].pc, worker'[w].pc>> \in QuietMoves

LEMMA PoolStays == pool' = pool => PoolKept
BY DEF PoolKept

LEMMA PoolChanges ==
    ASSUME TypeOK, NEW w \in Workers, NEW r \in Account, AccountBecomes(w, r),
           r.inUse = Mine(w).inUse, r.requests = Mine(w).requests
    PROVE  PoolKept /\ pool' \in [Processes -> [Accounts -> Account]]
BY AccountMoves, MineTyped DEF PoolKept, Mine

LEMMA LockChanges ==
    ASSUME TypeOK, NEW w \in Workers, NEW r \in Lock,
           lock' = [lock EXCEPT ![Acc(w)] = r]
    PROVE  /\ lock' \in [Accounts -> Lock]
           /\ lock'[Acc(w)] = r
           /\ \A a \in Accounts \ {Acc(w)} : lock'[a] = lock[a]
BY MineTyped DEF TypeOK

LEMMA QuietStep ==
    ASSUME TypeOK, NEW w \in Workers, Quiet(w)
    PROVE  TypeOK' /\ QuietMove(w) /\ PoolKept /\ disturbed \subseteq disturbed'
<1>1. /\ Home[w] \in Processes /\ Acc(w) \in Accounts
      /\ worker[w] \in Worker /\ Mine(w) \in Account /\ lock[Acc(w)] \in Lock
  BY MineTyped
<1>2. /\ pool \in [Processes -> [Accounts -> Account]]
      /\ turn \in [Processes -> Seq(Accounts)]
      /\ lock \in [Accounts -> Lock]
      /\ worker \in [Workers -> Worker]
      /\ disturbed \subseteq Accounts
  BY DEF TypeOK
<1>3. SUFFICES /\ pool' \in [Processes -> [Accounts -> Account]]
               /\ turn' \in [Processes -> Seq(Accounts)]
               /\ lock' \in [Accounts -> Lock]
               /\ worker' \in [Workers -> Worker]
               /\ disturbed' \subseteq Accounts
               /\ QuietMove(w) /\ PoolKept /\ disturbed \subseteq disturbed'
  BY DEF TypeOK
<1>4. \A pc \in Stages :
         Goto(w, pc) /\ <<worker[w].pc, pc>> \in QuietMoves
             => QuietMove(w) /\ worker' \in [Workers -> Worker]
  BY Going DEF QuietMove, QuietMoves, Others
<1>5. End(w) /\ worker[w].pc \notin {"idle", "using"}
             => QuietMove(w) /\ worker' \in [Workers -> Worker]
  BY Ending DEF QuietMove, Others
<1>6. {"write", "verify", "open", "unlockRead", "unlockDel"} \subseteq Stages
  BY DEF Stages
<1>7. CASE ReadLock(w)
  <2>1. At(w, "read") /\ (Goto(w, "write") \/ End(w))
        /\ UNCHANGED <<pool, turn, lock, disturbed>>
    BY <1>7 DEF ReadLock
  <2>2. <<"read", "write">> \in QuietMoves
    BY DEF QuietMoves
  <2>3. QuietMove(w) /\ worker' \in [Workers -> Worker]
    BY <1>4, <1>5, <1>6, <2>1, <2>2 DEF At
  <2>4. QED
    BY <1>2, <2>1, <2>3, PoolStays
<1>8. CASE WriteLock(w)
  <2>1. At(w, "write") /\ Goto(w, "verify") /\ UNCHANGED <<pool, turn>>
    BY <1>8 DEF WriteLock
  <2>2. <<"write", "verify">> \in QuietMoves
    BY DEF QuietMoves
  <2>3. QuietMove(w) /\ worker' \in [Workers -> Worker]
    BY <1>4, <1>6, <2>1, <2>2 DEF At
  <2>4. lock' \in [Accounts -> Lock]
    BY <1>8, WrittenTyped, LockChanges DEF WriteLock
  <2>5. disturbed' \subseteq Accounts /\ disturbed \subseteq disturbed'
    BY <1>1, <1>2, <1>8 DEF WriteLock
  <2>6. QED
    BY <1>2, <2>1, <2>3, <2>4, <2>5, PoolStays
<1>9. CASE Verify(w)
  <2>1. At(w, "verify") /\ UNCHANGED <<turn, lock, disturbed>>
    BY <1>9 DEF Verify
  <2>2. <<"verify", "open">> \in QuietMoves
    BY DEF QuietMoves
  <2>3. CASE lock[Acc(w)].owner = w
    <3>1. Goto(w, "open") /\ AccountBecomes(w, [Mine(w) EXCEPT !.lockLeft = LockTTL])
      BY <1>9, <2>3 DEF Verify
    <3>2. PoolKept /\ pool' \in [Processes -> [Accounts -> Account]]
      BY <1>1, <3>1, AccountTyped, PoolChanges
    <3>3. QuietMove(w) /\ worker' \in [Workers -> Worker]
      BY <1>4, <1>6, <2>1, <2>2, <3>1 DEF At
    <3>4. QED
      BY <1>2, <2>1, <3>2, <3>3
  <2>4. CASE lock[Acc(w)].owner # w
    <3>1. End(w) /\ UNCHANGED pool
      BY <1>9, <2>4 DEF Verify
    <3>2. QuietMove(w) /\ worker' \in [Workers -> Worker]
      BY <1>5, <2>1, <3>1 DEF At
    <3>3. QED
      BY <1>2, <2>1, <3>1, <3>2, PoolStays
  <2>5. QED
    BY <2>3, <2>4
<1>10. CASE CacheFailsLocking(w)
  <2>1. /\ worker[w].pc \in {"read", "write", "verify"} /\ End(w)
        /\ UNCHANGED <<pool, turn>>
    BY <1>10 DEF CacheFailsLocking
  <2>2. QuietMove(w) /\ worker' \in [Workers -> Worker]
    BY <1>5, <2>1
  <2>3. CASE UNCHANGED <<lock, disturbed>>
    BY <1>2, <2>1, <2>2, <2>3, PoolStays
  <2>4. CASE /\ lock' = [lock EXCEPT ![Acc(w)] = [owner |-> w, left |-> LockTTL]]
             /\ disturbed' = IF lock[Acc(w)].owner = Nobody THEN disturbed
                                                    ELSE disturbed \cup {Acc(w)}
    <3>1. lock' \in [Accounts -> Lock]
      BY <2>4, WrittenTyped, LockChanges
    <3>2. disturbed' \subseteq Accounts /\ disturbed \subseteq disturbed'
      BY <1>1, <1>2, <2>4
    <3>3. QED
      BY <1>2, <2>1, <2>2, <3>1, <3>2, PoolStays
  <2>5. QED
    BY <1>10, <2>3, <2>4 DEF CacheFailsLocking
<1>11. CASE OpenFails(w)
  <2> DEFINE f == IF Mine(w).failures < MaxFailures THEN Mine(w).failures + 1
                                                   ELSE Mine(w).failures
             r == [Mine(w) EXCEPT !.failures = f]
  <2>1. /\ At(w, "open") /\ AccountBecomes(w, r)
        /\ worker' = [worker EXCEPT ![w].pc = "unlockRead", ![w].failed = TRUE]
        /\ UNCHANGED <<turn, lock, disturbed>>
    BY <1>11 DEF OpenFails
  <2>2. f \in 0 .. MaxFailures
    BY <1>1, CountsTyped
  <2> HIDE DEF f
  <2>3. r \in Account /\ r.inUse = Mine(w).inUse /\ r.requests = Mine(w).requests
    BY <1>1, <2>2, AccountFields
  <2> HIDE DEF r
  <2>4. PoolKept /\ pool' \in [Processes -> [Accounts -> Account]]
    BY <2>1, <2>3, PoolChanges
  <2>5. \A x \in Worker :
           /\ [x EXCEPT !.pc = "unlockRead", !.failed = TRUE] \in Worker
           /\ [x EXCEPT !.pc = "unlockRead", !.failed = TRUE].pc = "unlockRead"
           /\ [x EXCEPT !.pc = "unlockRead", !.failed = TRUE].account = x.account
    BY <1>6 DEF Worker
  <2>6. worker' = [worker EXCEPT ![w] = [worker[w] EXCEPT !.pc = "unlockRead",
                                                          !.failed = TRUE]]
    BY <1>2, <2>1
  <2>7. /\ worker' \in [Workers -> Worker] /\ Others(w)
        /\ worker'[w].pc = "unlockRead" /\ worker'[w].account = Acc(w)
    BY <1>1, <2>5, <2>6, WorkerMoves DEF Others, Acc
  <2>8. QuietMove(w)
    BY <2>1, <2>7 DEF QuietMove, QuietMoves, At
  <2>9. QED
    BY <1>2, <2>1, <2>4, <2>7, <2>8
<1>12. CASE UnlockRead(w)
  <2>1. At(w, "unlockRead") /\ UNCHANGED <<turn, lock, disturbed>>
    BY <1>12 DEF UnlockRead
  <2>2. <<"unlockRead", "unlockDel">> \in QuietMoves
    BY DEF QuietMoves
  <2>3. CASE lock[Acc(w)].owner = w
    <3>1. Goto(w, "unlockDel") /\ UNCHANGED pool
      BY <1>12, <2>3 DEF UnlockRead
    <3>2. QuietMove(w) /\ worker' \in [Workers -> Worker]
      BY <1>4, <1>6, <2>1, <2>2, <3>1 DEF At
    <3>3. QED
      BY <1>2, <2>1, <3>1, <3>2, PoolStays
  <2>4. CASE lock[Acc(w)].owner # w
    <3>1. End(w) /\ AccountBecomes(w, CooledDown(w, [Mine(w) EXCEPT !.lockLeft = 0]))
      BY <1>12, <2>4 DEF UnlockRead
    <3>2. PoolKept /\ pool' \in [Processes -> [Accounts -> Account]]
      BY <3>1, UnlockedTyped, PoolChanges
    <3>3. QuietMove(w) /\ worker' \in [Workers -> Worker]
      BY <1>5, <2>1, <3>1 DEF At
    <3>4. QED
      BY <1>2, <2>1, <3>2, <3>3
  <2>5. QED
    BY <2>3, <2>4
<1>13. CASE UnlockDel(w)
  <2>1. /\ At(w, "unlockDel") /\ End(w) /\ UNCHANGED <<turn, disturbed>>
        /\ AccountBecomes(w, CooledDown(w, [Mine(w) EXCEPT !.lockLeft = 0]))
        /\ lock' = [lock EXCEPT ![Acc(w)] = Free]
    BY <1>13 DEF UnlockDel
  <2>2. PoolKept /\ pool' \in [Processes -> [Accounts -> Account]]
    BY <2>1, UnlockedTyped, PoolChanges
  <2>3. QuietMove(w) /\ worker' \in [Workers -> Worker]
    BY <1>5, <2>1 DEF At
  <2>4. lock' \in [Accounts -> Lock]
    BY <2>1, FreeTyped, LockChanges
  <2>5. QED
    BY <1>2, <2>1, <2>2, <2>3, <2>4
<1>14. CASE CacheFailsUnlocking(w)
  <2>1. /\ worker[w].pc \in {"unlockRead", "unlockDel"} /\ End(w)
        /\ UNCHANGED <<turn, disturbed>>
        /\ AccountBecomes(w, CooledDown(w, Mine(w)))
        /\ UNCHANGED lock \/ lock' = [lock EXCEPT ![Acc(w)] = Free]
    BY <1>14 DEF CacheFailsUnlocking
  <2>2. PoolKept /\ pool' \in [Processes -> [Accounts -> Account]]
    BY <1>1, <2>1, CooledTyped, PoolChanges
  <2>3. QuietMove(w) /\ worker' \in [Workers -> Worker]
    BY <1>5, <2>1
  <2>4. lock' \in [Accounts -> Lock]
    BY <1>2, <2>1, FreeTyped, LockChanges
  <2>5. QED
    BY <1>2, <2>1, <2>2, <2>3, <2>4
<1>15. QED
  BY <1>7, <1>8, <1>9, <1>10, <1>11, <1>12, <1>13, <1>14 DEF Quiet

LEMMA SelectStep ==
    ASSUME TypeOK, NEW w \in Workers, Select(w)
    PROVE  /\ TypeOK' /\ UNCHANGED <<pool, lock, disturbed>> /\ Others(w)
           /\ worker[w].pc = "idle" /\ worker'[w].pc = "read"
           /\ worker'[w].account \in Accounts
           /\ pool[Home[w]][worker'[w].account].requests < MaxRequestsPerHour
<1>1. PICK i \in DOMAIN turn[Home[w]] :
         /\ Available(Home[w], turn[Home[w]][i])
         /\ worker' = [worker EXCEPT ![w] = [pc |-> "read", failed |-> FALSE,
                                             account |-> turn[Home[w]][i]]]
  BY DEF Select
<1>2. turn[Home[w]][i] \in Accounts
  <2>1. turn[Home[w]] \in Seq(Accounts)
    BY MineTyped DEF TypeOK
  <2>2. QED
    BY <2>1
<1> DEFINE r == [pc |-> "read", failed |-> FALSE, account |-> turn[Home[w]][i]]
<1>3. r \in Worker /\ r.pc = "read" /\ r.account = turn[Home[w]][i]
  BY <1>2 DEF Worker, Stages
<1> HIDE DEF r
<1>4. worker' = [worker EXCEPT ![w] = r]
  BY <1>1 DEF r
<1>5. worker' \in [Workers -> Worker] /\ worker'[w] = r /\ Others(w)
  BY <1>3, <1>4, WorkerMoves DEF Others
<1>6. UNCHANGED <<pool, turn, lock, disturbed>> /\ worker[w].pc = "idle"
  BY DEF Select, At
<1>7. TypeOK'
  BY <1>5, <1>6 DEF TypeOK
<1>8. QED
  BY <1>1, <1>2, <1>3, <1>5, <1>6, <1>7 DEF Available

LEMMA OpenedStep ==
    ASSUME TypeOK, NEW w \in Workers, Opened(w)
    PROVE  /\ TypeOK' /\ UNCHANGED <<lock, disturbed>> /\ Others(w)
           /\ worker[w].pc = "open" /\ worker'[w].pc = "using"
           /\ worker'[w].account = Acc(w)
           /\ pool'[Home[w]][Acc(w)].inUse
           /\ pool'[Home[w]][Acc(w)].requests = pool[Home[w]][Acc(w)].requests + 1
           /\ \A p \in Processes, a \in Accounts :
                 p # Home[w] \/ a # Acc(w) => pool'[p][a] = pool[p][a]
<1> DEFINE n == Mine(w).requests + 1
           r == [Mine(w) EXCEPT !.inUse = TRUE, !.requests = n]
<1>1. /\ worker[w].pc = "open" /\ AccountBecomes(w, r) /\ Goto(w, "using")
      /\ turn' = [turn EXCEPT ![Home[w]] = UsedLast(turn[Home[w]], Acc(w))]
      /\ UNCHANGED <<lock, disturbed>>
  BY DEF Opened, At
<1>2. n \in Nat /\ n = pool[Home[w]][Acc(w)].requests + 1
  BY MineTyped, CountsTyped DEF Mine
<1> HIDE DEF n
<1>3. r \in Account /\ r.inUse /\ r.requests = n
  <2>1. Mine(w) \in Account /\ n \in Nat
    BY <1>2, MineTyped
  <2>2. \A x \in Account, k \in Nat : [x EXCEPT !.inUse = TRUE, !.requests = k] \in Account
    BY DEF Account
  <2>3. \A x \in Account, k \in Nat : [x EXCEPT !.inUse = TRUE, !.requests = k].inUse
    BY DEF Account
  <2>4. \A x \in Account, k \in Nat : [x EXCEPT !.inUse = TRUE, !.requests = k].requests = k
    BY DEF Account
  <2>5. r \in Account
    BY <2>1, <2>2
  <2>6. r.inUse
    BY <2>1, <2>3
  <2>7. r.requests = n
    BY <2>1, <2>4
  <2>8. QED
    BY <2>5, <2>6, <2>7
<1> HIDE DEF r
<1>4. /\ pool' \in [Processes -> [Accounts -> Account]]
      /\ pool'[Home[w]][Acc(w)] = r
      /\ \A p \in Processes, a \in Accounts :
            p # Home[w] \/ a # Acc(w) => pool'[p][a] = pool[p][a]
  BY <1>1, <1>3, AccountMoves
<1>5. /\ worker' \in [Workers -> Worker] /\ Others(w)
      /\ worker'[w].pc = "using" /\ worker'[w].account = Acc(w)
  <2>1. "using" \in Stages
    BY DEF Stages
  <2>2. QED
    BY <1>1, <2>1, Going DEF Others
<1>6. turn' \in [Processes -> Seq(Accounts)]
  <2>1. /\ turn \in [Processes -> Seq(Accounts)] /\ Home[w] \in Processes
        /\ Acc(w) \in Accounts
    BY MineTyped DEF TypeOK
  <2>2. UsedLast(turn[Home[w]], Acc(w)) \in Seq(Accounts)
    BY <2>1, UsedLastTyped
  <2>3. QED
    BY <1>1, <2>1, <2>2
<1>7. TypeOK'
  BY <1>1, <1>4, <1>5, <1>6 DEF TypeOK
<1>8. QED
  BY <1>1, <1>2, <1>3, <1>4, <1>5, <1>7

LEMMA ReleaseStep ==
    ASSUME TypeOK, NEW w \in Workers, NEW success \in BOOLEAN, Release(w, success)
    PROVE  /\ TypeOK' /\ UNCHANGED <<lock, disturbed>> /\ Others(w)
           /\ worker[w].pc = "using" /\ worker'[w].pc = "unlockRead"
           /\ worker'[w].account = Acc(w)
           /\ pool'[Home[w]][Acc(w)].inUse = FALSE
           /\ pool'[Home[w]][Acc(w)].requests = pool[Home[w]][Acc(w)].requests
           /\ \A p \in Processes, a \in Accounts :
                 p # Home[w] \/ a # Acc(w) => pool'[p][a] = pool[p][a]
<1> DEFINE f == IF success THEN 0 ELSE Mine(w).failures
           r == [Mine(w) EXCEPT !.inUse = FALSE, !.failures = f]
<1>1. /\ worker[w].pc = "using" /\ AccountBecomes(w, r) /\ Goto(w, "unlockRead")
      /\ UNCHANGED <<turn, lock, disturbed>>
  BY DEF Release, At
<1>2. f \in 0 .. MaxFailures
  BY MineTyped, CountsTyped
<1> HIDE DEF f
<1>3. r \in Account /\ r.inUse = FALSE /\ r.requests = pool[Home[w]][Acc(w)].requests
  <2>1. Mine(w) \in Account
    BY MineTyped
  <2>2. r \in Account /\ r.inUse = FALSE /\ r.requests = Mine(w).requests
    BY <1>2, <2>1, AccountFields
  <2>3. QED
    BY <2>2 DEF Mine
<1> HIDE DEF r
<1>4. /\ pool' \in [Processes -> [Accounts -> Account]]
      /\ pool'[Home[w]][Acc(w)] = r
      /\ \A p \in Processes, a \in Accounts :
            p # Home[w] \/ a # Acc(w) => pool'[p][a] = pool[p][a]
  BY <1>1, <1>3, AccountMoves
<1>5. /\ worker' \in [Workers -> Worker] /\ Others(w)
      /\ worker'[w].pc = "unlockRead" /\ worker'[w].account = Acc(w)
  <2>1. "unlockRead" \in Stages
    BY DEF Stages
  <2>2. QED
    BY <1>1, <2>1, Going DEF Others
<1>6. TypeOK'
  BY <1>1, <1>4, <1>5 DEF TypeOK
<1>7. QED
  BY <1>1, <1>3, <1>4, <1>5, <1>6

LEMMA ResetStep ==
    ASSUME TypeOK, NEW p \in Processes, ResetCounters(p)
    PROVE  /\ TypeOK' /\ UNCHANGED <<lock, worker, disturbed>>
           /\ \A q \in Processes, a \in Accounts :
                 /\ pool'[q][a].inUse = pool[q][a].inUse
                 /\ pool'[q][a].requests \in {0, pool[q][a].requests}
<1>1. pool \in [Processes -> [Accounts -> Account]]
  BY DEF TypeOK
<1>2. pool' = [pool EXCEPT ![p] =
                  [a \in Accounts |-> [pool[p][a] EXCEPT !.requests = 0]]]
  BY <1>1 DEF ResetCounters
<1>3. [a \in Accounts |-> [pool[p][a] EXCEPT !.requests = 0]] \in [Accounts -> Account]
  <2>1. \A a \in Accounts : pool[p][a] \in Account
    BY <1>1
  <2>2. QED
    BY <2>1, Uncounted
<1>4. /\ pool' \in [Processes -> [Accounts -> Account]]
      /\ \A a \in Accounts : pool'[p][a] = [pool[p][a] EXCEPT !.requests = 0]
      /\ \A q \in Processes \ {p} : pool'[q] = pool[q]
  BY <1>1, <1>2, <1>3
<1>5. \A a \in Accounts : /\ pool'[p][a].inUse = pool[p][a].inUse
                          /\ pool'[p][a].requests = 0
  <2>1. TAKE a \in Accounts
  <2> DEFINE t == [pool[p][a] EXCEPT !.requests = 0]
  <2>2. pool[p][a] \in Account
    BY <1>1
  <2>3. t.inUse = pool[p][a].inUse /\ t.requests = 0
    BY <2>2, Uncounted
  <2>4. pool'[p][a] = t
    BY <1>4
  <2> HIDE DEF t
  <2>5. QED
    BY <2>3, <2>4
<1>6. UNCHANGED <<turn, lock, worker, disturbed>>
  BY DEF ResetCounters
<1>7. TypeOK'
  BY <1>4, <1>6 DEF TypeOK
<1>8. QED
  BY <1>4, <1>5, <1>6, <1>7

LEMMA NewTyped == NewAccount \in Account /\ NewAccount.inUse = FALSE
                  /\ NewAccount.requests = 0
BY PoolAssumption DEF NewAccount, Account

LEMMA RestartStep ==
    ASSUME TypeOK, NEW p \in Processes, Restart(p)
    PROVE  /\ TypeOK' /\ UNCHANGED <<lock, disturbed>>
           /\ \A a \in Accounts : pool'[p][a] = NewAccount
           /\ \A q \in Processes \ {p} : pool'[q] = pool[q]
           /\ \A w \in Workers : IF Home[w] = p THEN worker'[w].pc = "idle"
                                                ELSE worker'[w] = worker[w]
<1>1. /\ pool \in [Processes -> [Accounts -> Account]]
      /\ turn \in [Processes -> Seq(Accounts)]
      /\ worker \in [Workers -> Worker]
  BY DEF TypeOK
<1>2. /\ pool' = [pool EXCEPT ![p] = [a \in Accounts |-> NewAccount]]
      /\ turn' = [turn EXCEPT ![p] = AccountList]
      /\ worker' = [w \in Workers |-> IF Home[w] = p THEN Idle ELSE worker[w]]
      /\ UNCHANGED <<lock, disturbed>>
  BY DEF Restart
<1>3. [a \in Accounts |-> NewAccount] \in [Accounts -> Account]
  BY NewTyped
<1>4. pool' \in [Processes -> [Accounts -> Account]]
  BY <1>1, <1>2, <1>3
<1>5. turn' \in [Processes -> Seq(Accounts)]
  BY <1>1, <1>2, PoolAssumption
<1>6. worker' \in [Workers -> Worker]
  BY <1>1, <1>2, IdleTyped
<1>7. TypeOK'
  BY <1>2, <1>4, <1>5, <1>6 DEF TypeOK
<1>8. QED
  BY <1>1, <1>2, <1>7, IdleTyped

LEMMA LessTyped == \A n \in Nat : \A m \in 0 .. n : Less(m) \in 0 .. n
<1>1. SUFFICES ASSUME NEW n \in Nat, NEW m \in 0 .. n
               PROVE  (IF m = 0 THEN 0 ELSE m - 1) \in 0 .. n
  BY DEF Less
<1>2. QED
  OBVIOUS

LEMMA TickStep ==
    ASSUME TypeOK, Tick
    PROVE  /\ TypeOK' /\ UNCHANGED worker /\ PoolKept
           /\ disturbed \subseteq disturbed'
           /\ \A a \in Accounts :
                 \/ lock'[a].owner = lock[a].owner
                 \/ \A w \in Workers : AtAccount(w, a) => a \in disturbed'
<1>1. /\ pool \in [Processes -> [Accounts -> Account]]
      /\ lock \in [Accounts -> Lock] /\ disturbed \subseteq Accounts
  BY DEF TypeOK
<1>2. \A r \in Account :
         LET c == Less(r.cooldown)
             k == Less(r.lockLeft)
             t == [r EXCEPT !.lockLeft = k, !.cooldown = c]
         IN  t \in Account /\ t.inUse = r.inUse /\ t.requests = r.requests
  <2>1. SUFFICES ASSUME NEW r \in Account, NEW k, NEW c,
                        k = Less(r.lockLeft), c = Less(r.cooldown)
                 PROVE  LET t == [r EXCEPT !.lockLeft = k, !.cooldown = c]
                        IN  /\ t \in Account /\ t.inUse = r.inUse
                            /\ t.requests = r.requests
    OBVIOUS
  <2>2. LockTTL \in Nat /\ CooldownDuration \in Nat
    BY PoolAssumption
  <2>3. r.lockLeft \in 0 .. LockTTL /\ r.cooldown \in 0 .. CooldownDuration
    BY DEF Account
  <2>4. k \in 0 .. LockTTL /\ c \in 0 .. CooldownDuration
    BY <2>1, <2>2, <2>3, LessTyped
  <2>5. QED
    BY <2>4 DEF Account
<1>3. pool' = [p \in Processes |-> [a \in Accounts |->
                 [pool[p][a] EXCEPT !.lockLeft = Less(pool[p][a].lockLeft),
                                    !.cooldown = Less(pool[p][a].cooldown)]]]
  BY DEF Tick
<1>4. pool' \in [Processes -> [Accounts -> Account]] /\ PoolKept
  <2>1. \A p \in Processes, a \in Accounts :
           /\ pool'[p][a] \in Account
           /\ pool'[p][a].inUse = pool[p][a].inUse
           /\ pool'[p][a].requests = pool[p][a].requests
    <3>1. TAKE p \in Processes, a \in Accounts
    <3> DEFINE k == Less(pool[p][a].lockLeft)
               c == Less(pool[p][a].cooldown)
               t == [pool[p][a] EXCEPT !.lockLeft = k, !.cooldown = c]
    <3>2. pool[p][a] \in Account
      BY <1>1
    <3>3. /\ t \in Account /\ t.inUse = pool[p][a].inUse
          /\ t.requests = pool[p][a].requests
      BY <1>2, <3>2
    <3>4. pool'[p][a] = t
      BY <1>3
    <3> HIDE DEF t
    <3>5. QED
      BY <3>3, <3>4
  <2>2. QED
    BY <1>3, <2>1 DEF PoolKept
<1>5. \A r \in Lock : /\ [r EXCEPT !.left = Less(r.left)] \in Lock
                      /\ [r EXCEPT !.left = Less(r.left)].owner = r.owner
  BY PoolAssumption, LessTyped DEF Lock
<1>6. lock' = [a \in Accounts |-> IF RunsOut(a) THEN Free
                                  ELSE [lock[a] EXCEPT !.left = Less(lock[a].left)]]
  BY DEF Tick
<1>7. /\ lock' \in [Accounts -> Lock]
      /\ \A a \in Accounts : ~RunsOut(a) => lock'[a].owner = lock[a].owner
  BY <1>1, <1>5, <1>6, FreeTyped
<1>8. disturbed' = disturbed \cup {a \in Accounts :
                      RunsOut(a) /\ \E w \in Workers : AtAccount(w, a)}
  BY DEF Tick
<1>9. UNCHANGED <<turn, worker>>
  BY DEF Tick
<1>10. TypeOK'
  BY <1>1, <1>4, <1>7, <1>8, <1>9 DEF TypeOK
<1>11. \A a \in Accounts : RunsOut(a) =>
          \A w \in Workers : AtAccount(w, a) => a \in disturbed'
  BY <1>8
<1>12. QED
  BY <1>4, <1>7, <1>8, <1>9, <1>10, <1>11

\* The steps as the proofs take them.
LEMMA Steps ==
    ASSUME Next
    PROVE  \/ \E w \in Workers : Select(w) \/ Quiet(w) \/ Opened(w)
                                 \/ \E success \in BOOLEAN : Release(w, success)
           \/ \E p \in Processes : ResetCounters(p) \/ Restart(p)
           \/ Tick
BY DEF Next, Progress, Quiet

LEMMA TypeStep == TypeOK /\ [Next]_vars => TypeOK'
<1>1. CASE UNCHANGED vars
  BY <1>1 DEF vars, TypeOK
<1>2. CASE Next
  BY <1>2, Steps, SelectStep, QuietStep, OpenedStep, ReleaseStep, ResetStep,
     RestartStep, TickStep
<1>3. QED
  BY <1>1, <1>2
-----------------------------------------------------------------------------
\* With lock and disturbed left alone, a worker keeps the lock it had.
LEMMA LockKept ==
    ASSUME HoldsLock, UNCHANGED <<lock, disturbed>>,
           \A v \in Workers : Locked(v)' =>
              \/ Locked(v) /\ Acc(v)' = Acc(v)
              \/ lock[Acc(v)'].owner = v
    PROVE  HoldsLock'
BY DEF HoldsLock

LEMMA OthersHold ==
    ASSUME NEW w \in Workers, Others(w)
    PROVE  \A v \in Workers \ {w} : Locked(v)' = Locked(v) /\ Acc(v)' = Acc(v)
BY DEF Others, Locked, Acc

\* The owner of a lock that is taken loses it; so the account is disturbed.
LEMMA LockTaken ==
    ASSUME TypeOK, HoldsLock, NEW w \in Workers, Others(w),
           worker'[w].pc = "idle" \/ Acc(w)' = Acc(w),
           lock' = [lock EXCEPT ![Acc(w)] = [owner |-> w, left |-> LockTTL]],
           disturbed' = IF lock[Acc(w)].owner = Nobody THEN disturbed
                                                       ELSE disturbed \cup {Acc(w)},
           ~Locked(w)
    PROVE  HoldsLock'
<1>1. SUFFICES ASSUME NEW v \in Workers, Locked(v)', Acc(v)' \notin disturbed'
               PROVE  lock'[Acc(v)'].owner = v
  BY DEF HoldsLock
<1>2. /\ lock'[Acc(w)].owner = w
      /\ \A a \in Accounts \ {Acc(w)} : lock'[a] = lock[a]
  <2> DEFINE r == [owner |-> w, left |-> LockTTL]
  <2>1. lock' = [lock EXCEPT ![Acc(w)] = r] /\ r.owner = w /\ r \in Lock
    BY WrittenTyped
  <2> HIDE DEF r
  <2>2. QED
    BY <2>1, LockChanges
<1>3. CASE v = w
  <2>1. worker'[w].pc # "idle"
    BY <1>1, <1>3 DEF Locked
  <2>2. QED
    BY <1>2, <1>3, <2>1
<1>4. CASE v # w
  <2>1. Locked(v) /\ Acc(v)' = Acc(v) /\ Acc(v) \notin disturbed
    BY <1>1, <1>4, OthersHold
  <2>2. lock[Acc(v)].owner = v /\ v # Nobody /\ Acc(v) \in Accounts
    BY <2>1, PoolAssumption, MineTyped DEF HoldsLock
  <2>3. Acc(v) # Acc(w)
    BY <1>1, <2>1, <2>2
  <2>4. QED
    BY <1>2, <2>1, <2>2, <2>3
<1>5. QED
  BY <1>3, <1>4

\* A worker that still has its lock deletes its own, or one that is disturbed.
LEMMA LockDeleted ==
    ASSUME TypeOK, HoldsLock, NEW w \in Workers, Others(w), At(w, "unlockDel"),
           worker'[w].pc = "idle", UNCHANGED disturbed,
           lock' = [lock EXCEPT ![Acc(w)] = Free]
    PROVE  HoldsLock'
<1>1. SUFFICES ASSUME NEW v \in Workers, Locked(v)', Acc(v)' \notin disturbed'
               PROVE  lock'[Acc(v)'].owner = v
  BY DEF HoldsLock
<1>2. \A a \in Accounts \ {Acc(w)} : lock'[a] = lock[a]
  BY FreeTyped, LockChanges
<1>3. v # w
  BY <1>1 DEF Locked
<1>4. Locked(v) /\ Acc(v)' = Acc(v) /\ Acc(v) \notin disturbed
  BY <1>1, <1>3, OthersHold
<1>5. lock[Acc(v)].owner = v /\ Acc(v) \in Accounts
  BY <1>4, MineTyped DEF HoldsLock
<1>6. Acc(w) \notin disturbed => lock[Acc(w)].owner = w
  BY DEF HoldsLock, Locked, At
<1>7. Acc(v) # Acc(w)
  BY <1>3, <1>4, <1>5, <1>6
<1>8. QED
  BY <1>2, <1>4, <1>5, <1>7

LEMMA HoldsStep ==
    ASSUME TypeOK, HoldsLock, [Next]_vars
    PROVE  HoldsLock'
<1>1. CASE UNCHANGED vars
  BY <1>1 DEF vars, HoldsLock, Locked, Acc
<1>2. ASSUME NEW w \in Workers, Others(w), UNCHANGED <<lock, disturbed>>,
             Locked(w)' => \/ Locked(w) /\ Acc(w)' = Acc(w)
                           \/ lock[Acc(w)'].owner = w
      PROVE  HoldsLock'
  BY <1>2, OthersHold, LockKept
<1>3. ASSUME NEW w \in Workers, Select(w)
      PROVE  HoldsLock'
  <2>1. Others(w) /\ UNCHANGED <<lock, disturbed>> /\ ~Locked(w)'
    BY <1>3, SelectStep DEF Locked
  <2>2. QED
    BY <1>2, <2>1
<1>4. ASSUME NEW w \in Workers, Quiet(w)
      PROVE  HoldsLock'
  <2>1. QuietMove(w)
    BY <1>4, QuietStep
  <2>2. /\ Others(w)
        /\ worker'[w].pc = "idle" \/ Acc(w)' = Acc(w)
        /\ worker[w].pc # "write" /\ Locked(w)' => Locked(w) /\ Acc(w)' = Acc(w)
    BY <2>1 DEF QuietMove, QuietMoves, Locked, Acc
  <2>3. CASE UNCHANGED <<lock, disturbed>> /\ worker[w].pc # "write"
    BY <1>2, <2>2, <2>3
  <2>4. CASE WriteLock(w)
    BY <2>2, <2>4, LockTaken DEF WriteLock, Locked, At
  <2>5. CASE CacheFailsLocking(w)
    <3>1. ~Locked(w)'
      BY <2>5, Ending DEF CacheFailsLocking, Locked
    <3>2. CASE UNCHANGED <<lock, disturbed>>
      BY <1>2, <2>2, <3>1, <3>2
    <3>3. CASE /\ At(w, "write")
               /\ lock' = [lock EXCEPT ![Acc(w)] = [owner |-> w, left |-> LockTTL]]
               /\ disturbed' = IF lock[Acc(w)].owner = Nobody
                               THEN disturbed ELSE disturbed \cup {Acc(w)}
      BY <2>2, <3>3, LockTaken DEF Locked, At
    <3>4. QED
      BY <2>5, <3>2, <3>3 DEF CacheFailsLocking
  <2>6. CASE UnlockDel(w)
    BY <2>2, <2>6, Ending, LockDeleted DEF UnlockDel
  <2>7. CASE CacheFailsUnlocking(w)
    <3>1. End(w) /\ UNCHANGED disturbed /\ worker[w].pc # "write"
      BY <2>7 DEF CacheFailsUnlocking
    <3>2. CASE UNCHANGED lock
      BY <2>3, <3>1, <3>2
    <3>3. CASE At(w, "unlockDel") /\ lock' = [lock EXCEPT ![Acc(w)] = Free]
      BY <2>2, <3>1, <3>3, Ending, LockDeleted
    <3>4. QED
      BY <2>7, <3>2, <3>3 DEF CacheFailsUnlocking
  <2>8. CASE ReadLock(w) \/ Verify(w) \/ OpenFails(w) \/ UnlockRead(w)
    <3>1. UNCHANGED <<lock, disturbed>> /\ worker[w].pc # "write"
      BY <2>8 DEF ReadLock, Verify, OpenFails, UnlockRead, At
    <3>2. QED
      BY <2>3, <3>1
  <2>9. QED
    BY <1>4, <2>4, <2>5, <2>6, <2>7, <2>8 DEF Quiet
<1>5. ASSUME NEW w \in Workers, Opened(w)
      PROVE  HoldsLock'
  <2>1. Others(w) /\ UNCHANGED <<lock, disturbed>> /\ Locked(w) /\ Acc(w)' = Acc(w)
    BY <1>5, OpenedStep DEF Locked, Acc
  <2>2. QED
    BY <1>2, <2>1
<1>6. ASSUME NEW w \in Workers, NEW success \in BOOLEAN, Release(w, success)
      PROVE  HoldsLock'
  <2>1. Others(w) /\ UNCHANGED <<lock, disturbed>> /\ Locked(w) /\ Acc(w)' = Acc(w)
    BY <1>6, ReleaseStep DEF Locked, Acc
  <2>2. QED
    BY <1>2, <2>1
<1>7. ASSUME NEW p \in Processes, ResetCounters(p)
      PROVE  HoldsLock'
  BY <1>7, ResetStep, LockKept DEF Locked, Acc
<1>8. ASSUME NEW p \in Processes, Restart(p)
      PROVE  HoldsLock'
  <2>1. \A v \in Workers : Locked(v)' => Locked(v) /\ Acc(v)' = Acc(v)
    BY <1>8, RestartStep DEF Locked, Acc
  <2>2. QED
    BY <1>8, <2>1, RestartStep, LockKept
<1>9. CASE Tick
  <2>1. SUFFICES ASSUME NEW v \in Workers, Locked(v)', Acc(v)' \notin disturbed'
                 PROVE  lock'[Acc(v)'].owner = v
    BY DEF HoldsLock
  <2>2. Locked(v) /\ Acc(v)' = Acc(v) /\ Acc(v) \notin disturbed
    BY <1>9, <2>1, TickStep DEF Locked, Acc
  <2>3. AtAccount(v, Acc(v)) /\ Acc(v) \in Accounts
    BY <2>2, MineTyped DEF AtAccount, Holding, Locked, At
  <2>4. lock'[Acc(v)].owner = lock[Acc(v)].owner
    BY <1>9, <2>1, <2>2, <2>3, TickStep
  <2>5. QED
    BY <2>2, <2>4 DEF HoldsLock
<1>10. QED
  BY <1>1, <1>3, <1>4, <1>5, <1>6, <1>7, <1>8, <1>9, Steps
-----------------------------------------------------------------------------
\* With the marks left alone, the workers that use an account are the same.
LEMMA MarksKept ==
    ASSUME MarkedUnlessDisturbed, disturbed \subseteq disturbed',
           \A p \in Processes, a \in Accounts : pool'[p][a].inUse = pool[p][a].inUse,
           \A v \in Workers, a \in Accounts :
              (At(v, "using") /\ Acc(v) = a)' <=> (At(v, "using") /\ Acc(v) = a)
    PROVE  MarkedUnlessDisturbed'
<1>1. SUFFICES ASSUME NEW p \in Processes, NEW a \in Accounts \ disturbed'
               PROVE  pool'[p][a].inUse <=>
                         \E v \in Workers : (At(v, "using") /\ Acc(v) = a)'
                                            /\ Home[v] = p
  BY DEF MarkedUnlessDisturbed
<1>2. pool[p][a].inUse <=>
         \E v \in Workers : (At(v, "using") /\ Acc(v) = a) /\ Home[v] = p
  BY <1>1 DEF MarkedUnlessDisturbed
<1>3. pool'[p][a].inUse = pool[p][a].inUse
  BY <1>1
<1>4. QED
  BY <1>1, <1>2, <1>3

LEMMA MarkedStep ==
    ASSUME TypeOK, HoldsLock, MarkedUnlessDisturbed, [Next]_vars
    PROVE  MarkedUnlessDisturbed'
<1>1. CASE UNCHANGED vars
  BY <1>1 DEF vars, MarkedUnlessDisturbed, At, Acc
<1>2. ASSUME NEW w \in Workers, Others(w), disturbed \subseteq disturbed', PoolKept,
             worker[w].pc # "using", worker'[w].pc # "using"
      PROVE  MarkedUnlessDisturbed'
  <2>1. \A v \in Workers, a \in Accounts :
           (At(v, "using") /\ Acc(v) = a)' <=> (At(v, "using") /\ Acc(v) = a)
    BY <1>2 DEF Others, At, Acc
  <2>2. QED
    BY <1>2, <2>1, MarksKept DEF PoolKept
<1>3. ASSUME NEW w \in Workers, Select(w)
      PROVE  MarkedUnlessDisturbed'
  BY <1>2, <1>3, SelectStep, PoolStays
<1>4. ASSUME NEW w \in Workers, Quiet(w)
      PROVE  MarkedUnlessDisturbed'
  <2>1. QuietMove(w) /\ PoolKept /\ disturbed \subseteq disturbed'
    BY <1>4, QuietStep
  <2>2. Others(w) /\ worker[w].pc # "using" /\ worker'[w].pc # "using"
    BY <2>1 DEF QuietMove, QuietMoves
  <2>3. QED
    BY <1>2, <2>1, <2>2
<1>5. ASSUME NEW w \in Workers, Opened(w)
      PROVE  MarkedUnlessDisturbed'
  <2>1. /\ Others(w) /\ UNCHANGED disturbed
        /\ worker[w].pc = "open" /\ worker'[w].pc = "using"
        /\ worker'[w].account = Acc(w) /\ Home[w] \in Processes
        /\ pool'[Home[w]][Acc(w)].inUse
        /\ \A p \in Processes, a \in Accounts :
              p # Home[w] \/ a # Acc(w) => pool'[p][a] = pool[p][a]
    BY <1>5, OpenedStep, MineTyped
  <2>2. SUFFICES ASSUME NEW p \in Processes, NEW a \in Accounts \ disturbed
                 PROVE  pool'[p][a].inUse <=>
                           \E v \in Workers : (At(v, "using") /\ Acc(v) = a)'
                                              /\ Home[v] = p
    BY <2>1 DEF MarkedUnlessDisturbed
  <2>3. CASE p = Home[w] /\ a = Acc(w)
    <3>1. (At(w, "using") /\ Acc(w) = a)' /\ Home[w] = p
      BY <2>1, <2>3 DEF At, Acc
    <3>2. QED
      BY <2>1, <2>3, <3>1
  <2>4. CASE ~(p = Home[w] /\ a = Acc(w))
    <3>1. \A v \in Workers : Home[v] = p =>
             ((At(v, "using") /\ Acc(v) = a)' <=> (At(v, "using") /\ Acc(v) = a))
      BY <2>1, <2>4 DEF Others, At, Acc
    <3>2. pool'[p][a].inUse = pool[p][a].inUse
      BY <2>1, <2>4
    <3>3. pool[p][a].inUse <=>
             \E v \in Workers : (At(v, "using") /\ Acc(v) = a) /\ Home[v] = p
      BY <2>2 DEF MarkedUnlessDisturbed
    <3>4. QED
      BY <3>1, <3>2, <3>3
  <2>5. QED
    BY <2>3, <2>4
<1>6. ASSUME NEW w \in Workers, NEW success \in BOOLEAN, Release(w, success)
      PROVE  MarkedUnlessDisturbed'
  <2>1. /\ Others(w) /\ UNCHANGED disturbed
        /\ worker[w].pc = "using" /\ worker'[w].pc = "unlockRead"
        /\ Home[w] \in Processes
        /\ pool'[Home[w]][Acc(w)].inUse = FALSE
        /\ \A p \in Processes, a \in Accounts :
              p # Home[w] \/ a # Acc(w) => pool'[p][a] = pool[p][a]
    BY <1>6, ReleaseStep, MineTyped
  <2>2. SUFFICES ASSUME NEW p \in Processes, NEW a \in Accounts \ disturbed
                 PROVE  pool'[p][a].inUse <=>
                           \E v \in Workers : (At(v, "using") /\ Acc(v) = a)'
                                              /\ Home[v] = p
    BY <2>1 DEF MarkedUnlessDisturbed
  <2>3. CASE p = Home[w] /\ a = Acc(w)
    <3>1. lock[a].owner = w
      BY <2>1, <2>2, <2>3 DEF HoldsLock, Locked
    <3>2. \A v \in Workers \ {w} : ~(At(v, "using") /\ Acc(v) = a)
      BY <2>2, <3>1 DEF HoldsLock, Locked, At
    <3>3. \A v \in Workers : ~(At(v, "using") /\ Acc(v) = a)'
      BY <2>1, <3>2 DEF Others, At, Acc
    <3>4. QED
      BY <2>1, <2>3, <3>3
  <2>4. CASE ~(p = Home[w] /\ a = Acc(w))
    <3>1. \A v \in Workers : Home[v] = p =>
             ((At(v, "using") /\ Acc(v) = a)' <=> (At(v, "using") /\ Acc(v) = a))
      BY <2>1, <2>4 DEF Others, At, Acc
    <3>2. pool'[p][a].inUse = pool[p][a].inUse
      BY <2>1, <2>4
    <3>3. pool[p][a].inUse <=>
             \E v \in Workers : (At(v, "using") /\ Acc(v) = a) /\ Home[v] = p
      BY <2>2 DEF MarkedUnlessDisturbed
    <3>4. QED
      BY <3>1, <3>2, <3>3
  <2>5. QED
    BY <2>3, <2>4
<1>7. ASSUME NEW p \in Processes, ResetCounters(p)
      PROVE  MarkedUnlessDisturbed'
  BY <1>7, ResetStep, MarksKept DEF At, Acc
<1>8. ASSUME NEW p \in Processes, Restart(p)
      PROVE  MarkedUnlessDisturbed'
  <2>1. SUFFICES ASSUME NEW q \in Processes, NEW a \in Accounts \ disturbed
                 PROVE  pool'[q][a].inUse <=>
                           \E v \in Workers : (At(v, "using") /\ Acc(v) = a)'
                                              /\ Home[v] = q
    BY <1>8, RestartStep DEF MarkedUnlessDisturbed
  <2>2. CASE q = p
    <3>1. pool'[q][a].inUse = FALSE
      BY <1>8, <2>2, RestartStep, NewTyped
    <3>2. \A v \in Workers : Home[v] = q => ~At(v, "using")'
      BY <1>8, <2>2, RestartStep DEF At
    <3>3. QED
      BY <3>1, <3>2
  <2>3. CASE q # p
    <3>1. \A v \in Workers : Home[v] = q =>
             ((At(v, "using") /\ Acc(v) = a)' <=> (At(v, "using") /\ Acc(v) = a))
      BY <1>8, <2>3, RestartStep DEF At, Acc
    <3>2. pool'[q][a].inUse = pool[q][a].inUse
      BY <1>8, <2>3, RestartStep
    <3>3. pool[q][a].inUse <=>
             \E v \in Workers : (At(v, "using") /\ Acc(v) = a) /\ Home[v] = q
      BY <2>1 DEF MarkedUnlessDisturbed
    <3>4. QED
      BY <3>1, <3>2, <3>3
  <2>4. QED
    BY <2>2, <2>3
<1>9. CASE Tick
  BY <1>9, TickStep, MarksKept DEF PoolKept, At, Acc
<1>10. QED
  BY <1>1, <1>3, <1>4, <1>5, <1>6, <1>7, <1>8, <1>9, Steps
-----------------------------------------------------------------------------
LEMMA WorkersFinite ==
    ASSUME NEW p, NEW a
    PROVE  /\ IsFiniteSet(HomeOf(p)) /\ IsFiniteSet(InFlight(p, a))
           /\ Cardinality(HomeOf(p)) \in Nat /\ Cardinality(InFlight(p, a)) \in Nat
           /\ Cardinality(InFlight(p, a)) <= Cardinality(HomeOf(p))
<1>1. IsFiniteSet(Workers)
  BY PoolAssumption
<1>2. HomeOf(p) \subseteq Workers /\ InFlight(p, a) \subseteq HomeOf(p)
  BY DEF HomeOf, InFlight
<1>3. IsFiniteSet(HomeOf(p))
  BY <1>1, <1>2, FS_Subset
<1>4. IsFiniteSet(InFlight(p, a)) /\ Cardinality(InFlight(p, a)) <= Cardinality(HomeOf(p))
  BY <1>2, <1>3, FS_Subset
<1>5. QED
  BY <1>3, <1>4, FS_CardinalityType

\* Nobody new in flight and nothing counted: the bound holds on.
LEMMA CountKept ==
    ASSUME TypeOK, TypeOK', Counted, NEW p \in Processes, NEW a \in Accounts,
           pool'[p][a].requests \in {0, pool[p][a].requests},
           InFlight(p, a)' \subseteq InFlight(p, a)
    PROVE  pool'[p][a].requests + Cardinality(InFlight(p, a)')
               < MaxRequestsPerHour + Cardinality(HomeOf(p))
<1>1. pool[p][a].requests \in Nat
  BY DEF TypeOK, Account
<1>2. /\ Cardinality(InFlight(p, a)) \in Nat /\ Cardinality(HomeOf(p)) \in Nat
      /\ IsFiniteSet(InFlight(p, a)) /\ MaxRequestsPerHour \in Nat
  BY WorkersFinite, PoolAssumption
<1>3. /\ IsFiniteSet(InFlight(p, a)')
      /\ Cardinality(InFlight(p, a)') <= Cardinality(InFlight(p, a))
  BY <1>2, FS_Subset
<1>4. Cardinality(InFlight(p, a)') \in Nat
  BY <1>3, FS_CardinalityType
<1>5. pool[p][a].requests + Cardinality(InFlight(p, a))
          < MaxRequestsPerHour + Cardinality(HomeOf(p))
  BY DEF Counted
<1> DEFINE m == pool[p][a].requests
           n == pool'[p][a].requests
           i == Cardinality(InFlight(p, a))
           k == Cardinality(InFlight(p, a)')
           h == Cardinality(HomeOf(p))
<1>6. n \in {0, m}
  OBVIOUS
<1> HIDE DEF m, n, i, k, h
<1>7. /\ m \in Nat /\ i \in Nat /\ k \in Nat /\ h \in Nat /\ k <= i
      /\ m + i < MaxRequestsPerHour + h
  BY <1>1, <1>2, <1>3, <1>4, <1>5 DEF m, i, k, h
<1>8. n + k < MaxRequestsPerHour + h
  BY <1>2, <1>6, <1>7
<1>9. QED
  BY <1>8 DEF n, k, h

LEMMA CountedStep ==
    ASSUME TypeOK, Counted, [Next]_vars
    PROVE  Counted'
<1>0. TypeOK'
  BY TypeStep
<1>1. CASE UNCHANGED vars
  BY <1>1 DEF vars, Counted, InFlight, Acc
<1>2. SUFFICES ASSUME Next, NEW p \in Processes, NEW a \in Accounts
               PROVE  pool'[p][a].requests + Cardinality(InFlight(p, a)')
                          < MaxRequestsPerHour + Cardinality(HomeOf(p))
  BY <1>1 DEF Counted, HomeOf
<1>3. ASSUME NEW w \in Workers, Others(w),
             pool'[p][a].requests = pool[p][a].requests,
             (w \in InFlight(p, a))' => w \in InFlight(p, a)
      PROVE  pool'[p][a].requests + Cardinality(InFlight(p, a)')
                 < MaxRequestsPerHour + Cardinality(HomeOf(p))
  <2>1. InFlight(p, a)' \subseteq InFlight(p, a)
    BY <1>3 DEF Others, InFlight, Acc
  <2>2. QED
    BY <1>0, <1>3, <2>1, CountKept
<1>4. ASSUME NEW w \in Workers, Select(w)
      PROVE  pool'[p][a].requests + Cardinality(InFlight(p, a)')
                 < MaxRequestsPerHour + Cardinality(HomeOf(p))
  <2>1. /\ Others(w) /\ UNCHANGED pool /\ worker'[w].account \in Accounts
        /\ pool[Home[w]][worker'[w].account].requests < MaxRequestsPerHour
    BY <1>4, SelectStep
  <2>2. CASE p = Home[w] /\ a = worker'[w].account
    <3>1. /\ InFlight(p, a)' \subseteq HomeOf(p) /\ IsFiniteSet(HomeOf(p))
          /\ Cardinality(HomeOf(p)) \in Nat /\ MaxRequestsPerHour \in Nat
      BY WorkersFinite, PoolAssumption DEF InFlight, HomeOf
    <3>2. /\ IsFiniteSet(InFlight(p, a)')
          /\ Cardinality(InFlight(p, a)') <= Cardinality(HomeOf(p))
      BY <3>1, FS_Subset
    <3>3. Cardinality(InFlight(p, a)') \in Nat
      BY <3>2, FS_CardinalityType
    <3>4. pool'[p][a].requests \in Nat /\ pool'[p][a].requests < MaxRequestsPerHour
      BY <2>1, <2>2 DEF TypeOK, Account
    <3>5. QED
      BY <3>1, <3>2, <3>3, <3>4
  <2>3. CASE ~(p = Home[w] /\ a = worker'[w].account)
    <3>1. ~(w \in InFlight(p, a))'
      BY <2>3 DEF InFlight, Acc
    <3>2. QED
      BY <1>3, <2>1, <3>1
  <2>4. QED
    BY <2>2, <2>3
<1>5. ASSUME NEW w \in Workers, Quiet(w)
      PROVE  pool'[p][a].requests + Cardinality(InFlight(p, a)')
                 < MaxRequestsPerHour + Cardinality(HomeOf(p))
  <2>1. QuietMove(w) /\ PoolKept
    BY <1>5, QuietStep
  <2>2. (w \in InFlight(p, a))' => w \in InFlight(p, a)
    BY <2>1 DEF QuietMove, QuietMoves, InFlight, Acc
  <2>3. Others(w) /\ pool'[p][a].requests = pool[p][a].requests
    BY <2>1 DEF QuietMove, PoolKept
  <2>4. QED
    BY <1>3, <2>2, <2>3
<1>6. ASSUME NEW w \in Workers, Opened(w)
      PROVE  pool'[p][a].requests + Cardinality(InFlight(p, a)')
                 < MaxRequestsPerHour + Cardinality(HomeOf(p))
  <2>1. /\ Others(w) /\ worker[w].pc = "open" /\ worker'[w].pc = "using"
        /\ pool'[Home[w]][Acc(w)].requests = pool[Home[w]][Acc(w)].requests + 1
        /\ p # Home[w] \/ a # Acc(w) => pool'[p][a] = pool[p][a]
    BY <1>6, OpenedStep
  <2>2. CASE p = Home[w] /\ a = Acc(w)
    <3>1. w \in InFlight(p, a)
      BY <2>1, <2>2 DEF InFlight
    <3>2. InFlight(p, a)' = InFlight(p, a) \ {w}
      BY <2>1 DEF Others, InFlight, Acc
    <3>3. IsFiniteSet(InFlight(p, a)) /\ Cardinality(InFlight(p, a)) \in Nat
          /\ Cardinality(HomeOf(p)) \in Nat /\ MaxRequestsPerHour \in Nat
      BY WorkersFinite, PoolAssumption
    <3>4. Cardinality(InFlight(p, a)') = Cardinality(InFlight(p, a)) - 1
      BY <3>1, <3>2, <3>3, FS_RemoveElement
    <3>5. /\ pool[p][a].requests \in Nat
          /\ pool'[p][a].requests = pool[p][a].requests + 1
      BY <2>1, <2>2 DEF TypeOK, Account
    <3>6. pool[p][a].requests + Cardinality(InFlight(p, a))
              < MaxRequestsPerHour + Cardinality(HomeOf(p))
      BY DEF Counted
    <3>7. QED
      BY <3>3, <3>4, <3>5, <3>6
  <2>3. CASE ~(p = Home[w] /\ a = Acc(w))
    <3>1. ~(w \in InFlight(p, a))'
      BY <2>1 DEF InFlight
    <3>2. QED
      BY <1>3, <2>1, <2>3, <3>1
  <2>4. QED
    BY <2>2, <2>3
<1>7. ASSUME NEW w \in Workers, NEW success \in BOOLEAN, Release(w, success)
      PROVE  pool'[p][a].requests + Cardinality(InFlight(p, a)')
                 < MaxRequestsPerHour + Cardinality(HomeOf(p))
  <2>1. /\ Others(w) /\ worker'[w].pc = "unlockRead"
        /\ pool'[p][a].requests = pool[p][a].requests
    BY <1>7, ReleaseStep
  <2>2. ~(w \in InFlight(p, a))'
    BY <2>1 DEF InFlight
  <2>3. QED
    BY <1>3, <2>1, <2>2
<1>8. ASSUME NEW q \in Processes, ResetCounters(q)
      PROVE  pool'[p][a].requests + Cardinality(InFlight(p, a)')
                 < MaxRequestsPerHour + Cardinality(HomeOf(p))
  <2>1. UNCHANGED worker /\ pool'[p][a].requests \in {0, pool[p][a].requests}
    BY <1>8, ResetStep
  <2>2. InFlight(p, a)' \subseteq InFlight(p, a)
    BY <2>1 DEF InFlight, Acc
  <2>3. QED
    BY <1>0, <2>1, <2>2, CountKept
<1>9. ASSUME NEW q \in Processes, Restart(q)
      PROVE  pool'[p][a].requests + Cardinality(InFlight(p, a)')
                 < MaxRequestsPerHour + Cardinality(HomeOf(p))
  <2>1. pool'[p][a].requests \in {0, pool[p][a].requests}
    BY <1>9, RestartStep, NewTyped
  <2>2. InFlight(p, a)' \subseteq InFlight(p, a)
    BY <1>9, RestartStep DEF InFlight, Acc
  <2>3. QED
    BY <1>0, <2>1, <2>2, CountKept
<1>10. CASE Tick
  <2>1. UNCHANGED worker /\ pool'[p][a].requests = pool[p][a].requests
    BY <1>10, TickStep DEF PoolKept
  <2>2. InFlight(p, a)' \subseteq InFlight(p, a)
    BY <2>1 DEF InFlight, Acc
  <2>3. QED
    BY <1>0, <2>1, <2>2, CountKept
<1>11. QED
  BY <1>2, <1>4, <1>5, <1>6, <1>7, <1>8, <1>9, <1>10, Steps
-----------------------------------------------------------------------------
LEMMA InvInit == Init => IInv
<1>1. SUFFICES ASSUME Init PROVE IInv
  OBVIOUS
<1>2. \A w \in Workers : worker[w] = Idle
  BY <1>1 DEF Init
<1>3. TypeOK
  <2>1. /\ pool = [p \in Processes |-> [a \in Accounts |-> NewAccount]]
        /\ turn = [p \in Processes |-> AccountList]
        /\ lock = [a \in Accounts |-> Free]
        /\ worker = [w \in Workers |-> Idle]
        /\ disturbed = {}
    BY <1>1 DEF Init
  <2>2. AccountList \in Seq(Accounts)
    BY PoolAssumption
  <2>3. QED
    BY <2>1, <2>2, NewTyped, FreeTyped, IdleTyped DEF TypeOK
<1>4. HoldsLock
  BY <1>2, IdleTyped DEF HoldsLock, Locked
<1>5. MarkedUnlessDisturbed
  <2>1. \A p \in Processes, a \in Accounts : pool[p][a] = NewAccount
    BY <1>1 DEF Init
  <2>2. \A w \in Workers : ~At(w, "using")
    BY <1>2, IdleTyped DEF At
  <2>3. QED
    BY <2>1, <2>2, NewTyped DEF MarkedUnlessDisturbed
<1>6. ASSUME NEW p \in Processes, NEW a \in Accounts
      PROVE  pool[p][a].requests + Cardinality(InFlight(p, a))
                 < MaxRequestsPerHour + Cardinality(HomeOf(p))
  <2>1. pool[p][a] = NewAccount
    BY <1>1 DEF Init
  <2>2. pool[p][a].requests = 0
    BY <2>1, NewTyped
  <2>3. MaxRequestsPerHour \in Nat \ {0}
    BY PoolAssumption
  <2>4. QED
    BY <2>2, <2>3, WorkersFinite
<1>7. Counted
  BY <1>6 DEF Counted
<1>8. QED
  BY <1>3, <1>4, <1>5, <1>7 DEF IInv

LEMMA InvStep == IInv /\ [Next]_vars => IInv'
BY TypeStep, HoldsStep, MarkedStep, CountedStep DEF IInv

LEMMA Invariant == Spec => []IInv
BY InvInit, InvStep, PTL DEF Spec

\* The pools, the locks and the workers always have their types.
THEOREM TypeCorrect == Spec => []TypeOK
<1>1. IInv => TypeOK
  BY DEF IInv
<1>2. QED
  BY <1>1, Invariant, PTL

\* Two workers use an account at a time only if its lock was overwritten or
\* ran out: both would own it.
THEOREM ExclusiveTheorem == Spec => []ExclusiveUnlessDisturbed
<1>1. IInv => ExclusiveUnlessDisturbed
  BY DEF IInv, ExclusiveUnlessDisturbed, HoldsLock, Locked, At
<1>2. QED
  BY <1>1, Invariant, PTL

\* The mark of an undisturbed account is set exactly while it is used.
THEOREM MarkedTheorem == Spec => []MarkedUnlessDisturbed
<1>1. IInv => MarkedUnlessDisturbed
  BY DEF IInv
<1>2. QED
  BY <1>1, Invariant, PTL

\* The hourly limit is passed by at most the other workers of the process.
THEOREM HourlyTheorem == Spec => []HourlyBound
<1>1. ASSUME TypeOK, Counted, NEW p \in Processes, NEW a \in Accounts
      PROVE  pool[p][a].requests < MaxRequestsPerHour + Cardinality(HomeOf(p))
  <2>1. pool[p][a].requests \in Nat /\ MaxRequestsPerHour \in Nat
    BY <1>1, PoolAssumption DEF TypeOK, Account
  <2>2. pool[p][a].requests + Cardinality(InFlight(p, a))
            < MaxRequestsPerHour + Cardinality(HomeOf(p))
    BY <1>1 DEF Counted
  <2>3. QED
    BY <2>1, <2>2, WorkersFinite
<1>2. IInv => HourlyBound
  BY <1>1 DEF IInv, HourlyBound, HomeOf
<1>3. QED
  BY <1>2, Invariant, PTL
=============================================================================
