---------------------------- MODULE SessionPool ----------------------------
(***************************************************************************)
(* The pool of portal accounts: workers of several processes, each with a  *)
(* SessionPool of its own, keep each other off an account by a lock with a *)
(* lifetime in the shared cache.  The lock is a read, a write and a second *)
(* read, its release a read and a delete: every access to the cache is a   *)
(* step, may fail, and leaves room for anybody else and for the clock.     *)
(*                                                                         *)
(* A worker stands for the id of the lock it writes.  Times are what is    *)
(* left of them.  The browser session behind an account is opened or not.  *)
(***************************************************************************)
EXTENDS Naturals, Sequences, FiniteSets

CONSTANTS
    Workers,             \* callers of acquireSession, one session each at a time
    Processes,
    Home,                \* the process of each worker
    AccountList,         \* the accounts as they were added
    LockTTL,             \* lockTTL, in clock units
    CooldownDuration,    \* cooldownDuration
    MaxFailures,         \* maxFailures
    MaxRequestsPerHour,  \* maxRequestsPerHour
    Nobody

Accounts == {AccountList[i] : i \in DOMAIN AccountList}

ASSUME PoolAssumption ==
    /\ IsFiniteSet(Workers) /\ Nobody \notin Workers
    /\ Home \in [Workers -> Processes]
    /\ AccountList \in Seq(Accounts) /\ AccountList # <<>>
    /\ LockTTL \in Nat \ {0} /\ CooldownDuration \in Nat
    /\ MaxFailures \in Nat \ {0} /\ MaxRequestsPerHour \in Nat \ {0}

VARIABLES
    pool,       \* the accounts of each process
    turn,       \* the accounts of each process by lastUsed, oldest first
    lock,       \* session_lock:<account> in the cache
    worker,     \* where each worker stands
    disturbed   \* history: accounts whose lock was overwritten or ran out
                \* while its owner was at the account

vars == <<pool, turn, lock, worker, disturbed>>

\* failures is counted up to MaxFailures: no test tells more apart.
Account == [inUse: BOOLEAN, lockLeft: 0 .. LockTTL, cooldown: 0 .. CooldownDuration,
            requests: Nat, failures: 0 .. MaxFailures]
Lock == [owner: Workers \cup {Nobody}, left: 0 .. LockTTL]
\* failed: the session could not be opened.
Stages == {"idle", "read", "write", "verify", "open", "using", "unlockRead",
           "unlockDel"}
Worker == [pc: Stages, account: Accounts, failed: BOOLEAN]

NewAccount == [inUse |-> FALSE, lockLeft |-> 0, cooldown |-> 0, requests |-> 0,
               failures |-> 0]
Free == [owner |-> Nobody, left |-> 0]
Idle == [pc |-> "idle", account |-> AccountList[1], failed |-> FALSE]

TypeOK ==
    /\ pool \in [Processes -> [Accounts -> Account]]
    /\ turn \in [Processes -> Seq(Accounts)]
    /\ lock \in [Accounts -> Lock]
    /\ worker \in [Workers -> Worker]
    /\ disturbed \subseteq Accounts

Init ==
    /\ pool = [p \in Processes |-> [a \in Accounts |-> NewAccount]]
    /\ turn = [p \in Processes |-> AccountList]
    /\ lock = [a \in Accounts |-> Free]
    /\ worker = [w \in Workers |-> Idle]
    /\ disturbed = {}

At(w, pc) == worker[w].pc = pc
Acc(w) == worker[w].account
Mine(w) == pool[Home[w]][Acc(w)]

\* From its own write until it is done with the account, a worker relies on
\* the lock; from the second read on, it knows to have it.
Holding(w) == worker[w].pc \in {"open", "using", "unlockRead", "unlockDel"}
AtAccount(w, a) == Acc(w) = a /\ (Holding(w) \/ At(w, "verify"))

\* lastUsed of an account becomes the latest.
UsedLast(s, a) ==
    LET i == CHOOSE i \in DOMAIN s : s[i] = a
    IN  [k \in 1 .. Len(s) |-> IF k < i THEN s[k]
                               ELSE IF k < Len(s) THEN s[k + 1] ELSE a]

Goto(w, pc) == worker' = [worker EXCEPT ![w].pc = pc]
End(w) == worker' = [worker EXCEPT ![w] = Idle]
AccountBecomes(w, r) == pool' = [pool EXCEPT ![Home[w]][Acc(w)] = r]

\* Mutant: a request too many.
AvailableOneMore(p, a) ==
    /\ ~pool[p][a].inUse
    /\ pool[p][a].cooldown = 0
    /\ pool[p][a].lockLeft = 0
    /\ pool[p][a].requests <= MaxRequestsPerHour

Available(p, a) ==
    /\ ~pool[p][a].inUse
    /\ pool[p][a].cooldown = 0
    /\ pool[p][a].lockLeft = 0
    /\ pool[p][a].requests < MaxRequestsPerHour
-----------------------------------------------------------------------------
\* selectBestAccount, up to the first read of the lock.
Select(w) ==
    /\ At(w, "idle")
    /\ \E i \in DOMAIN turn[Home[w]] :
          /\ Available(Home[w], turn[Home[w]][i])
          /\ \A k \in 1 .. i - 1 : ~Available(Home[w], turn[Home[w]][k])
          /\ worker' = [worker EXCEPT ![w] = [pc |-> "read", failed |-> FALSE,
                                              account |-> turn[Home[w]][i]]]
    /\ UNCHANGED <<pool, turn, lock, disturbed>>

\* A lock that exists sends the worker away.
ReadLock(w) ==
    /\ At(w, "read")
    /\ IF lock[Acc(w)].owner = Nobody THEN Goto(w, "write") ELSE End(w)
    /\ UNCHANGED <<pool, turn, lock, disturbed>>

\* Whatever is there by now is overwritten.
WriteLock(w) ==
    /\ At(w, "write")
    /\ lock' = [lock EXCEPT ![Acc(w)] = [owner |-> w, left |-> LockTTL]]
    /\ disturbed' = IF lock[Acc(w)].owner = Nobody THEN disturbed
                                                   ELSE disturbed \cup {Acc(w)}
    /\ Goto(w, "verify")
    /\ UNCHANGED <<pool, turn>>

Verify(w) ==
    /\ At(w, "verify")
    /\ IF lock[Acc(w)].owner = w
       THEN /\ AccountBecomes(w, [Mine(w) EXCEPT !.lockLeft = LockTTL])
            /\ Goto(w, "open")
       ELSE /\ End(w)
            /\ UNCHANGED pool
    /\ UNCHANGED <<turn, lock, disturbed>>

\* Mutant: without the cache everybody goes ahead.
CacheFailsLockingOpen(w) ==
    /\ worker[w].pc \in {"read", "write", "verify"}
    /\ Goto(w, "open")
    /\ UNCHANGED <<pool, turn, lock, disturbed>>

\* A failing access to the cache counts as a lock not acquired; a write may
\* have reached the cache all the same.
CacheFailsLocking(w) ==
    /\ worker[w].pc \in {"read", "write", "verify"}
    /\ \/ UNCHANGED <<lock, disturbed>>
       \/ /\ At(w, "write")
          /\ lock' = [lock EXCEPT ![Acc(w)] = [owner |-> w, left |-> LockTTL]]
          /\ disturbed' = IF lock[Acc(w)].owner = Nobody THEN disturbed
                                                         ELSE disturbed \cup {Acc(w)}
    /\ End(w)
    /\ UNCHANGED <<pool, turn>>

\* Mutant: the account is not marked.
OpenedUnmarked(w) ==
    /\ At(w, "open")
    /\ AccountBecomes(w, [Mine(w) EXCEPT !.requests = @ + 1])
    /\ turn' = [turn EXCEPT ![Home[w]] = UsedLast(@, Acc(w))]
    /\ Goto(w, "using")
    /\ UNCHANGED <<lock, disturbed>>

\* getSession answers: the account is in use.
Opened(w) ==
    /\ At(w, "open")
    /\ AccountBecomes(w, [Mine(w) EXCEPT !.inUse = TRUE, !.requests = @ + 1])
    /\ turn' = [turn EXCEPT ![Home[w]] = UsedLast(@, Acc(w))]
    /\ Goto(w, "using")
    /\ UNCHANGED <<lock, disturbed>>

\* getSession throws: a failure, and the lock is released.
OpenFails(w) ==
    /\ At(w, "open")
    /\ AccountBecomes(w, [Mine(w) EXCEPT
                            !.failures = IF @ < MaxFailures THEN @ + 1 ELSE @])
    /\ worker' = [worker EXCEPT ![w].pc = "unlockRead", ![w].failed = TRUE]
    /\ UNCHANGED <<turn, lock, disturbed>>

\* Mutant: a session that did not work stays in use.
ReleaseIfWorked(w, success) ==
    /\ At(w, "using")
    /\ AccountBecomes(w, [Mine(w) EXCEPT !.inUse = ~success,
                                         !.failures = IF success THEN 0 ELSE @])
    /\ Goto(w, "unlockRead")
    /\ UNCHANGED <<turn, lock, disturbed>>

\* releaseSession, up to the first access to the cache.
Release(w, success) ==
    /\ At(w, "using")
    /\ AccountBecomes(w, [Mine(w) EXCEPT !.inUse = FALSE,
                                         !.failures = IF success THEN 0 ELSE @])
    /\ Goto(w, "unlockRead")
    /\ UNCHANGED <<turn, lock, disturbed>>

\* What the worker does after releaseLock: an account that failed too often
\* cools down.
CooledDown(w, r) ==
    IF worker[w].failed /\ r.failures >= MaxFailures
    THEN [r EXCEPT !.cooldown = CooldownDuration] ELSE r

\* The lock of somebody else is left alone.
UnlockRead(w) ==
    /\ At(w, "unlockRead")
    /\ IF lock[Acc(w)].owner = w
       THEN Goto(w, "unlockDel") /\ UNCHANGED pool
       ELSE /\ AccountBecomes(w, CooledDown(w, [Mine(w) EXCEPT !.lockLeft = 0]))
            /\ End(w)
    /\ UNCHANGED <<turn, lock, disturbed>>

\* Deleted, whosever it is by now.
UnlockDel(w) ==
    /\ At(w, "unlockDel")
    /\ lock' = [lock EXCEPT ![Acc(w)] = Free]
    /\ AccountBecomes(w, CooledDown(w, [Mine(w) EXCEPT !.lockLeft = 0]))
    /\ End(w)
    /\ UNCHANGED <<turn, disturbed>>

\* The error is swallowed, whether or not the lock is gone, and the process
\* takes it for valid until its time has passed.
CacheFailsUnlocking(w) ==
    /\ worker[w].pc \in {"unlockRead", "unlockDel"}
    /\ \/ UNCHANGED lock
       \/ At(w, "unlockDel") /\ lock' = [lock EXCEPT ![Acc(w)] = Free]
    /\ AccountBecomes(w, CooledDown(w, Mine(w)))
    /\ End(w)
    /\ UNCHANGED <<turn, disturbed>>
-----------------------------------------------------------------------------
\* session_cleanup of the scheduler.
ResetCounters(p) ==
    /\ pool' = [pool EXCEPT ![p] = [a \in Accounts |-> [@[a] EXCEPT !.requests = 0]]]
    /\ UNCHANGED <<turn, lock, worker, disturbed>>

\* A process starts again with its workers; its locks stay in the cache.
Restart(p) ==
    /\ pool' = [pool EXCEPT ![p] = [a \in Accounts |-> NewAccount]]
    /\ turn' = [turn EXCEPT ![p] = AccountList]
    /\ worker' = [w \in Workers |-> IF Home[w] = p THEN Idle ELSE worker[w]]
    /\ UNCHANGED <<lock, disturbed>>

Less(n) == IF n = 0 THEN 0 ELSE n - 1

RunsOut(a) == lock[a].left = 1

Tick ==
    /\ pool' = [p \in Processes |-> [a \in Accounts |->
                  [pool[p][a] EXCEPT !.lockLeft = Less(@), !.cooldown = Less(@)]]]
    /\ lock' = [a \in Accounts |-> IF RunsOut(a) THEN Free
                                   ELSE [lock[a] EXCEPT !.left = Less(@)]]
    /\ disturbed' = disturbed \cup {a \in Accounts :
                      RunsOut(a) /\ \E w \in Workers : AtAccount(w, a)}
    /\ UNCHANGED <<turn, worker>>

Progress(w) ==
    \/ ReadLock(w) \/ WriteLock(w) \/ Verify(w) \/ CacheFailsLocking(w)
    \/ Opened(w) \/ OpenFails(w)
    \/ \E success \in BOOLEAN : Release(w, success)
    \/ UnlockRead(w) \/ UnlockDel(w) \/ CacheFailsUnlocking(w)

Next ==
    \/ \E w \in Workers : Select(w) \/ Progress(w)
    \/ \E p \in Processes : ResetCounters(p) \/ Restart(p)
    \/ Tick

Spec == Init /\ [][Next]_vars

\* Time passes, and a worker that has begun goes on: accesses to the cache and
\* the opening of a session end one way or the other, and sessions are released.
FairSpec ==
    /\ Spec
    /\ WF_vars(Tick)
    /\ \A w \in Workers : WF_vars(Progress(w))
-----------------------------------------------------------------------------
(***************************************************************************)
(* Two workers never use an account at a time, whatever process they are   *)
(* in, unless its lock was overwritten between the read and the write that *)
(* take it, or ran out under a worker that needed longer.                  *)
(***************************************************************************)
ExclusiveUnlessDisturbed ==
    \A v, w \in Workers :
        /\ At(v, "using") /\ At(w, "using")
        /\ Acc(v) = Acc(w) /\ Acc(v) \notin disturbed
        => v = w

(***************************************************************************)
(* The mark that keeps workers of one process off an account is the truth  *)
(* under the same condition: it is set exactly while one of them uses it.  *)
(***************************************************************************)
MarkedUnlessDisturbed ==
    \A p \in Processes, a \in Accounts \ disturbed :
        pool[p][a].inUse <=> \E w \in Workers : At(w, "using") /\ Acc(w) = a
                                                /\ Home[w] = p

(***************************************************************************)
(* The hourly limit is compared before the lock is asked for and counted   *)
(* after the session is open: the other workers of the process may each    *)
(* add one to it, and no more.                                             *)
(***************************************************************************)
HourlyBound ==
    \A p \in Processes, a \in Accounts :
        pool[p][a].requests < MaxRequestsPerHour
                              + Cardinality({w \in Workers : Home[w] = p})

(***************************************************************************)
(* No account is lost to a process: whatever fails, in the cache, in the   *)
(* portal or in a restart, it becomes available again within its limit.    *)
(***************************************************************************)
AccountsReturn ==
    \A p \in Processes, a \in Accounts :
        []<>(Available(p, a) \/ pool[p][a].requests >= MaxRequestsPerHour)
=============================================================================
