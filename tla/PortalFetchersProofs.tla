------------------------ MODULE PortalFetchersProofs ------------------------
(***************************************************************************)
(* Proofs about PortalFetchers, for any passports, attempts, calls, pages, *)
(* failures and lapses: types, that a live session is kept alive, that a   *)
(* status is stored with its own passport unless an answer came late, that *)
(* the log tells the outcome of a job, and that the public inquiry closes  *)
(* its pages, opens one browser and reads the pages of its own numbers.    *)
(***************************************************************************)
EXTENDS PortalFetchers, SequenceTheorems, TLAPS

-----------------------------------------------------------------------------
(***************************************************************************)
(* Sessions.  The record shapes that the updates rely on; what a stage of  *)
(* getSession or of a keep-alive callback says about its session; and that *)
(* a callback can only clear the interval of the session it has found dead.*)
(***************************************************************************)
SessionShape ==
    /\ getter \in [pc : GetStages, session : Nat]
    /\ tick \in [pc : {"idle", "ping", "delete", "save"}, keeper : Nat, session : Nat]

ContextTypes ==
    /\ contexts \in Seq(Context) /\ Len(contexts) \in Nat
    /\ current \in 0 .. Len(contexts)
    /\ getter.session \in 0 .. Len(contexts)
    /\ tick.session \in 0 .. Len(contexts)

KeeperTypes == keepers \in Nat /\ keeper \in 0 .. keepers /\ tick.keeper \in 0 .. keepers

LoginTypes ==
    /\ logins \in Nat /\ valid \subseteq 1 .. logins /\ cookies \in 0 .. logins
    /\ \A i \in 1 .. Len(contexts) : contexts[i].login \in 0 .. logins

CounterTypes ==
    /\ ticks \in 0 .. MaxTicks /\ lapses \in 0 .. MaxLapses /\ faults \in 0 .. MaxFaults

Named ==
    /\ getter.pc \in {"ping", "restore", "persist", "got"} => getter.session # 0
    /\ tick.pc # "idle" => tick.session # 0 /\ tick.keeper # 0

KeeperOfCurrent ==
    tick.pc # "idle" /\ keeper = tick.keeper => current = tick.session \/ Getting("persist")

SessionInv ==
    /\ SessionShape
    /\ ContextTypes
    /\ KeeperTypes
    /\ LoginTypes
    /\ CounterTypes
    /\ Named
    /\ KeeperOfCurrent
    /\ LiveSessionKept

LEMMA SessionsTyped == SessionInv => SessionTypeOK
BY DEF SessionInv, SessionShape, ContextTypes, KeeperTypes, LoginTypes, CounterTypes,
   SessionTypeOK, GetStages

\* A context that is marked dead, one that is closed and one that is opened.
LEMMA MarkedDead ==
    ASSUME NEW cs \in Seq(Context), NEW s \in 1 .. Len(cs)
    PROVE  /\ [cs EXCEPT ![s].alive = FALSE] \in Seq(Context)
           /\ Len([cs EXCEPT ![s].alive = FALSE]) = Len(cs)
           /\ \A i \in 1 .. Len(cs) :
                 /\ [cs EXCEPT ![s].alive = FALSE][i].login = cs[i].login
                 /\ [cs EXCEPT ![s].alive = FALSE][i].alive <=> i # s /\ cs[i].alive
<1> DEFINE c == [cs[s] EXCEPT !.alive = FALSE]
           cut == [cs EXCEPT ![s] = c]
<1>1. \A i \in 1 .. Len(cs) : cs[i] \in Context
  BY ElementOfSeq
<1>2. c \in Context /\ c.login = cs[s].login /\ c.open = cs[s].open /\ c.alive = FALSE
  BY <1>1 DEF Context
<1>3. cut \in Seq(Context) /\ Len(cut) = Len(cs)
  BY <1>2, ExceptSeq
<1>4. \A i \in 1 .. Len(cs) : cut[i] = IF i = s THEN c ELSE cs[i]
  BY <1>2, ExceptSeq
<1> HIDE DEF c
<1>5. \A i \in 1 .. Len(cs) : cut[i].login = cs[i].login /\ (cut[i].alive <=> i # s /\ cs[i].alive)
  BY <1>2, <1>4, Zenon
<1> QED
  BY <1>3, <1>5 DEF c

LEMMA ContextClosed ==
    ASSUME NEW cs \in Seq(Context), NEW s \in 1 .. Len(cs)
    PROVE  /\ [cs EXCEPT ![s].open = FALSE] \in Seq(Context)
           /\ Len([cs EXCEPT ![s].open = FALSE]) = Len(cs)
           /\ \A i \in 1 .. Len(cs) :
                 /\ [cs EXCEPT ![s].open = FALSE][i].login = cs[i].login
                 /\ [cs EXCEPT ![s].open = FALSE][i].alive = cs[i].alive
<1> DEFINE c == [cs[s] EXCEPT !.open = FALSE]
           cut == [cs EXCEPT ![s] = c]
<1>1. \A i \in 1 .. Len(cs) : cs[i] \in Context
  BY ElementOfSeq
<1>2. c \in Context /\ c.login = cs[s].login /\ c.alive = cs[s].alive /\ c.open = FALSE
  BY <1>1 DEF Context
<1>3. cut \in Seq(Context) /\ Len(cut) = Len(cs)
  BY <1>2, ExceptSeq
<1>4. \A i \in 1 .. Len(cs) : cut[i] = IF i = s THEN c ELSE cs[i]
  BY <1>2, ExceptSeq
<1> HIDE DEF c
<1>5. \A i \in 1 .. Len(cs) : cut[i].login = cs[i].login /\ cut[i].alive = cs[i].alive
  BY <1>2, <1>4
<1> QED
  BY <1>3, <1>5 DEF c

LEMMA AllClosed ==
    ASSUME NEW cs \in Seq(Context)
    PROVE  LET shut == [i \in DOMAIN cs |-> [cs[i] EXCEPT !.open = FALSE]]
           IN  /\ shut \in Seq(Context)
               /\ Len(shut) = Len(cs)
               /\ \A i \in 1 .. Len(cs) : /\ shut[i].login = cs[i].login
                                          /\ shut[i].alive = cs[i].alive
<1> DEFINE shut == [i \in DOMAIN cs |-> [cs[i] EXCEPT !.open = FALSE]]
<1>1. Len(cs) \in Nat /\ DOMAIN cs = 1 .. Len(cs)
  BY LenProperties
<1>2. \A i \in 1 .. Len(cs) : cs[i] \in Context
  BY ElementOfSeq
<1>3. \A i \in 1 .. Len(cs) : shut[i] \in Context /\ shut[i].login = cs[i].login
                                /\ shut[i].alive = cs[i].alive
  BY <1>1, <1>2 DEF Context
<1>4. shut \in Seq(Context) /\ Len(shut) = Len(cs)
  BY <1>1, <1>3
<1> QED
  BY <1>3, <1>4

LEMMA ContextOpened ==
    ASSUME NEW cs \in Seq(Context), NEW n \in Nat
    PROVE  LET c == [login |-> n, alive |-> TRUE, open |-> TRUE]
           IN  /\ Append(cs, c) \in Seq(Context)
               /\ Len(Append(cs, c)) = Len(cs) + 1
               /\ \A i \in 1 .. Len(cs) : Append(cs, c)[i] = cs[i]
               /\ Append(cs, c)[Len(cs) + 1] = c
BY AppendProperties DEF Context

LEMMA LiveSessions == SessionInit => SessionInv
<1> SUFFICES ASSUME SessionInit PROVE SessionInv
  OBVIOUS
<1>1. Len(contexts) = 0 /\ contexts \in Seq(Context)
  BY DEF SessionInit
<1> QED
  BY <1>1, SessionsAssumption DEF SessionInit, SessionInv, SessionShape, ContextTypes,
     KeeperTypes, LoginTypes, CounterTypes, Named, KeeperOfCurrent, LiveSessionKept,
     NoTick, NoGetter, GetStages

(***************************************************************************)
(* Each step of getSession, of a callback and of shutdown keeps the        *)
(* invariant.  The pattern is the same throughout: the parts that the step *)
(* disturbs one by one.                                                    *)
(***************************************************************************)
LEMMA LookUpKeeps == SessionInv /\ LookUp => SessionInv'
<1> SUFFICES ASSUME SessionInv, LookUp PROVE SessionInv'
  OBVIOUS
<1> USE DEF SessionInv, LookUp, Getting, GetGoes
<1>1. SessionShape'
  BY DEF SessionShape, GetStages, NoTick, ContextTypes
<1>2. ContextTypes'
  BY DEF ContextTypes, NoTick
<1>3. KeeperTypes'
  BY DEF KeeperTypes, NoTick
<1>4. LoginTypes'
  BY DEF LoginTypes
<1>5. CounterTypes'
  BY SessionsAssumption DEF CounterTypes, SessionShape, Fault
<1>6. Named'
  BY DEF Named, NoTick
<1>7. KeeperOfCurrent'
  BY DEF KeeperOfCurrent, KeeperTypes, ContextTypes, Named, NoTick
<1>8. LiveSessionKept'
  BY DEF LiveSessionKept, KeeperTypes, ContextTypes, KeeperOfCurrent, Named
<1> QED
  BY <1>1, <1>2, <1>3, <1>4, <1>5, <1>6, <1>7, <1>8 DEF SessionInv

LEMMA PersistKeeps == SessionInv /\ Persist => SessionInv'
<1> SUFFICES ASSUME SessionInv, Persist PROVE SessionInv'
  OBVIOUS
<1> USE DEF SessionInv, Persist, Getting, GetGoes, StartKeepAlive
<1>1. getter.session \in 1 .. Len(contexts)
  BY DEF ContextTypes, Named
<1>2. contexts[getter.session].login \in 0 .. logins /\ cookies \in 0 .. logins
  BY <1>1 DEF LoginTypes
<1>3. cookies' \in 0 .. logins
  BY <1>2 DEF Fault
<1>4. SessionShape'
  BY DEF SessionShape, GetStages, NoTick
<1>5. ContextTypes'
  BY <1>1 DEF ContextTypes, NoTick
<1>6. KeeperTypes'
  BY DEF KeeperTypes, NoTick
<1>7. LoginTypes'
  BY <1>3 DEF LoginTypes
<1>8. CounterTypes'
  BY SessionsAssumption DEF CounterTypes, SessionShape, Fault
<1>9. Named'
  BY <1>1 DEF Named, NoTick
<1>10. KeeperOfCurrent'
  BY DEF KeeperOfCurrent, KeeperTypes, ContextTypes, Named, NoTick
<1>11. LiveSessionKept'
  BY DEF LiveSessionKept, KeeperTypes, ContextTypes, KeeperOfCurrent, Named
<1> QED
  BY <1>4, <1>5, <1>6, <1>7, <1>8, <1>9, <1>10, <1>11 DEF SessionInv

LEMMA TickKeeps == SessionInv /\ Tick => SessionInv'
<1> SUFFICES ASSUME SessionInv, Tick PROVE SessionInv'
  OBVIOUS
<1> USE DEF SessionInv, Tick, Getting
<1>1. SessionShape'
  BY DEF SessionShape, GetStages, NoTick, ContextTypes, KeeperTypes
<1>2. ContextTypes'
  BY DEF ContextTypes, NoTick
<1>3. KeeperTypes'
  BY DEF KeeperTypes, NoTick
<1>4. LoginTypes'
  BY DEF LoginTypes
<1>5. CounterTypes'
  BY SessionsAssumption DEF CounterTypes, SessionShape, Fault
<1>6. Named'
  BY DEF Named, NoTick
<1>7. KeeperOfCurrent'
  BY DEF KeeperOfCurrent, KeeperTypes, ContextTypes, Named, NoTick
<1>8. LiveSessionKept'
  BY DEF LiveSessionKept, KeeperTypes, ContextTypes, KeeperOfCurrent, Named
<1> QED
  BY <1>1, <1>2, <1>3, <1>4, <1>5, <1>6, <1>7, <1>8 DEF SessionInv

LEMMA TickEndsKeeps == SessionInv /\ TickEnds => SessionInv'
<1> SUFFICES ASSUME SessionInv, TickEnds PROVE SessionInv'
  OBVIOUS
<1> USE DEF SessionInv, TickEnds, Getting
<1>1. tick.session \in 1 .. Len(contexts)
  BY DEF ContextTypes, Named
<1>2. contexts[tick.session].login \in 0 .. logins /\ cookies \in 0 .. logins /\ logins \in Nat
  BY <1>1 DEF LoginTypes
<1>3. cookies' \in 0 .. logins
  BY <1>2
<1>4. SessionShape'
  BY DEF SessionShape, GetStages, NoTick
<1>5. ContextTypes'
  BY DEF ContextTypes, NoTick
<1>6. KeeperTypes'
  BY DEF KeeperTypes, NoTick
<1>7. LoginTypes'
  BY <1>3 DEF LoginTypes
<1>8. CounterTypes'
  BY SessionsAssumption DEF CounterTypes, SessionShape, Fault
<1>9. Named'
  BY DEF Named, NoTick
<1>10. KeeperOfCurrent'
  BY DEF KeeperOfCurrent, KeeperTypes, ContextTypes, Named, NoTick
<1>11. LiveSessionKept'
  BY DEF LiveSessionKept, KeeperTypes, ContextTypes, KeeperOfCurrent, Named
<1> QED
  BY <1>4, <1>5, <1>6, <1>7, <1>8, <1>9, <1>10, <1>11 DEF SessionInv

LEMMA ForgetSessionKeeps == SessionInv /\ ForgetSession => SessionInv'
<1> SUFFICES ASSUME SessionInv, ForgetSession PROVE SessionInv'
  OBVIOUS
<1> USE DEF SessionInv, ForgetSession, Getting, GetGoes
<1>1. SessionShape'
  BY DEF SessionShape, GetStages, NoTick
<1>2. ContextTypes'
  BY DEF ContextTypes, NoTick
<1>3. KeeperTypes'
  BY DEF KeeperTypes, NoTick
<1>4. LoginTypes'
  BY DEF LoginTypes
<1>5. CounterTypes'
  BY SessionsAssumption DEF CounterTypes, SessionShape, Fault
<1>6. Named'
  BY DEF Named, NoTick
<1>7. KeeperOfCurrent'
  BY DEF KeeperOfCurrent, KeeperTypes, ContextTypes, Named, NoTick
<1>8. LiveSessionKept'
  BY DEF LiveSessionKept, KeeperTypes, ContextTypes, KeeperOfCurrent, Named
<1> QED
  BY <1>1, <1>2, <1>3, <1>4, <1>5, <1>6, <1>7, <1>8 DEF SessionInv

LEMMA ForgetKeeps == SessionInv /\ Forget => SessionInv'
<1> SUFFICES ASSUME SessionInv, Forget PROVE SessionInv'
  OBVIOUS
<1> USE DEF SessionInv, Forget, Getting, GetGoes
<1>1. SessionShape'
  BY DEF SessionShape, GetStages, NoTick
<1>2. ContextTypes'
  BY DEF ContextTypes, NoTick
<1>3. KeeperTypes'
  BY DEF KeeperTypes, NoTick
<1>4. LoginTypes'
  BY DEF LoginTypes
<1>5. CounterTypes'
  BY SessionsAssumption DEF CounterTypes, SessionShape, Fault
<1>6. Named'
  BY DEF Named, NoTick
<1>7. KeeperOfCurrent'
  BY DEF KeeperOfCurrent, KeeperTypes, ContextTypes, Named, NoTick
<1>8. LiveSessionKept'
  BY DEF LiveSessionKept, KeeperTypes, ContextTypes, KeeperOfCurrent, Named
<1> QED
  BY <1>1, <1>2, <1>3, <1>4, <1>5, <1>6, <1>7, <1>8 DEF SessionInv

LEMMA LapseKeeps == SessionInv /\ Lapse => SessionInv'
<1> SUFFICES ASSUME SessionInv, Lapse PROVE SessionInv'
  OBVIOUS
<1> USE DEF SessionInv, Lapse, Getting
<1>1. logins \in Nat /\ cookies \in 0 .. logins /\ valid \subseteq 1 .. logins
  BY DEF LoginTypes
<1>2. (cookies' = cookies \/ cookies' = 0) /\ valid' \subseteq valid
  OBVIOUS
<1>3. cookies' \in 0 .. logins /\ valid' \subseteq 1 .. logins
  BY <1>1, <1>2
<1>4. SessionShape'
  BY DEF SessionShape, GetStages, NoTick
<1>5. ContextTypes'
  BY DEF ContextTypes, NoTick
<1>6. KeeperTypes'
  BY DEF KeeperTypes, NoTick
<1>7. LoginTypes'
  BY <1>3 DEF LoginTypes
<1>8. CounterTypes'
  BY SessionsAssumption DEF CounterTypes, SessionShape, Fault
<1>9. Named'
  BY DEF Named, NoTick
<1>10. KeeperOfCurrent'
  BY DEF KeeperOfCurrent, KeeperTypes, ContextTypes, Named, NoTick
<1>11. LiveSessionKept'
  BY DEF LiveSessionKept, KeeperTypes, ContextTypes, KeeperOfCurrent, Named
<1> QED
  BY <1>4, <1>5, <1>6, <1>7, <1>8, <1>9, <1>10, <1>11 DEF SessionInv

\* What marking a session dead does to the contexts of a state.
LEMMA DeadContexts ==
    ASSUME ContextTypes, NEW s \in 1 .. Len(contexts), Dead(s)
    PROVE  /\ contexts' \in Seq(Context) /\ Len(contexts') = Len(contexts)
           /\ \A i \in 1 .. Len(contexts) :
                 /\ contexts'[i].login = contexts[i].login
                 /\ contexts'[i].alive <=> i # s /\ contexts[i].alive
<1>1. contexts \in Seq(Context)
  BY DEF ContextTypes
<1> QED
  BY <1>1, MarkedDead DEF Dead

LEMMA PingKeeps == SessionInv /\ Ping => SessionInv'
<1> SUFFICES ASSUME SessionInv, Ping PROVE SessionInv'
  OBVIOUS
<1> USE DEF SessionInv, Ping, Getting, GetGoes
<1>1. getter.session \in 1 .. Len(contexts)
  BY DEF ContextTypes, Named
<1>2. contexts' = contexts \/ Dead(getter.session)
  OBVIOUS
<1>3. /\ contexts' \in Seq(Context) /\ Len(contexts') = Len(contexts)
      /\ \A i \in 1 .. Len(contexts) :
            /\ contexts'[i].login = contexts[i].login
            /\ contexts'[i].alive => contexts[i].alive
  <2>1. CASE contexts' = contexts
    BY <2>1 DEF ContextTypes
  <2>2. CASE Dead(getter.session)
    BY <1>1, <2>2, DeadContexts
  <2> QED
    BY <1>2, <2>1, <2>2
<1>4. SessionShape'
  BY <1>1 DEF SessionShape, GetStages, NoTick, ContextTypes
<1>5. ContextTypes'
  BY <1>3 DEF ContextTypes, NoTick
<1>6. KeeperTypes'
  BY DEF KeeperTypes, NoTick
<1>7. LoginTypes'
  BY <1>3 DEF LoginTypes, ContextTypes
<1>8. CounterTypes'
  BY SessionsAssumption DEF CounterTypes, SessionShape, Fault
<1>9. Named'
  BY <1>1 DEF Named, NoTick
<1>10. KeeperOfCurrent'
  BY DEF KeeperOfCurrent, KeeperTypes, ContextTypes, Named, NoTick
<1>11. LiveSessionKept'
  BY <1>3 DEF LiveSessionKept, KeeperTypes, ContextTypes, KeeperOfCurrent, Named
<1> QED
  BY <1>4, <1>5, <1>6, <1>7, <1>8, <1>9, <1>10, <1>11 DEF SessionInv

LEMMA TickPingKeeps ==
    ASSUME NEW n \in BOOLEAN
    PROVE  SessionInv /\ TickPing(n) => SessionInv'
<1> SUFFICES ASSUME SessionInv, TickPing(n) PROVE SessionInv'
  OBVIOUS
<1> USE DEF SessionInv, TickPing, Getting
<1>1. tick.session \in 1 .. Len(contexts)
  BY DEF ContextTypes, Named
<1>2. contexts' = contexts \/ Dead(tick.session)
  OBVIOUS
<1>3. /\ contexts' \in Seq(Context) /\ Len(contexts') = Len(contexts)
      /\ \A i \in 1 .. Len(contexts) :
            /\ contexts'[i].login = contexts[i].login
            /\ contexts'[i].alive => contexts[i].alive
  <2>1. CASE contexts' = contexts
    BY <2>1 DEF ContextTypes
  <2>2. CASE Dead(tick.session)
    BY <1>1, <2>2, DeadContexts
  <2> QED
    BY <1>2, <2>1, <2>2
<1>4. /\ tick'.session = tick.session /\ tick'.keeper = tick.keeper
      /\ tick' = [tick EXCEPT !.pc = "save"] \/ tick' = [tick EXCEPT !.pc = "delete"]
  BY DEF SessionShape
<1>5. \/ keeper' = keeper
      \/ keeper' = 0 /\ keeper = tick.keeper /\ Dead(tick.session)
  OBVIOUS
<1>6. keeper' # keeper => ~contexts'[tick.session].alive
  BY <1>1, <1>5, DeadContexts
<1>7. SessionShape'
  BY DEF SessionShape, GetStages, NoTick
<1>8. ContextTypes'
  BY <1>3, <1>4 DEF ContextTypes, NoTick
<1>9. KeeperTypes'
  BY <1>4, <1>5 DEF KeeperTypes, NoTick
<1>10. LoginTypes'
  BY <1>3 DEF LoginTypes, ContextTypes
<1>11. CounterTypes'
  BY SessionsAssumption DEF CounterTypes, SessionShape, Fault
<1>12. Named'
  BY <1>1, <1>4 DEF Named, NoTick
<1>13. KeeperOfCurrent'
  BY <1>4, <1>5 DEF KeeperOfCurrent, KeeperTypes, ContextTypes, Named, NoTick
<1>14. LiveSessionKept'
  BY <1>1, <1>3, <1>5, <1>6 DEF LiveSessionKept, KeeperTypes, ContextTypes, KeeperOfCurrent, Named
<1> QED
  BY <1>7, <1>8, <1>9, <1>10, <1>11, <1>12, <1>13, <1>14 DEF SessionInv

\* A context that is opened is the last one; the others stay as they are.
LEMMA NewContexts ==
    ASSUME ContextTypes, NEW n \in Nat,
           contexts' = Append(contexts, [login |-> n, alive |-> TRUE, open |-> TRUE])
    PROVE  /\ contexts' \in Seq(Context) /\ Len(contexts') = Len(contexts) + 1
           /\ Len(contexts') \in Nat /\ Len(contexts) + 1 \in 1 .. Len(contexts')
           /\ \A i \in 1 .. Len(contexts) : contexts'[i] = contexts[i]
           /\ contexts'[Len(contexts) + 1].login = n
<1>1. contexts \in Seq(Context) /\ Len(contexts) \in Nat
  BY DEF ContextTypes
<1> QED
  BY <1>1, ContextOpened

LEMMA ShutContexts ==
    ASSUME ContextTypes, NEW s \in 1 .. Len(contexts),
           contexts' = [contexts EXCEPT ![s].open = FALSE]
    PROVE  /\ contexts' \in Seq(Context) /\ Len(contexts') = Len(contexts)
           /\ \A i \in 1 .. Len(contexts) :
                 /\ contexts'[i].login = contexts[i].login
                 /\ contexts'[i].alive = contexts[i].alive
<1>1. contexts \in Seq(Context)
  BY DEF ContextTypes
<1> QED
  BY <1>1, ContextClosed

LEMMA ReadCookiesKeeps == SessionInv /\ ReadCookies => SessionInv'
<1> SUFFICES ASSUME SessionInv, ReadCookies PROVE SessionInv'
  OBVIOUS
<1> USE DEF SessionInv, ReadCookies, Getting, GetGoes
<1>1. cookies \in Nat /\ logins \in Nat /\ cookies \in 0 .. logins
  BY DEF LoginTypes
<1>2. /\ contexts' \in Seq(Context) /\ Len(contexts') \in Nat /\ Len(contexts') >= Len(contexts)
      /\ \A i \in 1 .. Len(contexts) : contexts'[i] = contexts[i]
      /\ \A i \in 1 .. Len(contexts') : i \notin 1 .. Len(contexts) => contexts'[i].login = cookies
  <2>1. CASE contexts' = contexts
    BY <2>1 DEF ContextTypes
  <2>2. CASE contexts' = Append(contexts, [login |-> cookies, alive |-> TRUE, open |-> TRUE])
    <3>1. /\ contexts' \in Seq(Context) /\ Len(contexts') = Len(contexts) + 1
          /\ Len(contexts') \in Nat /\ Len(contexts) \in Nat
          /\ \A i \in 1 .. Len(contexts) : contexts'[i] = contexts[i]
          /\ contexts'[Len(contexts) + 1].login = cookies
      BY <1>1, <2>2, NewContexts DEF ContextTypes
    <3>2. \A i \in 1 .. Len(contexts') : i \notin 1 .. Len(contexts) => i = Len(contexts) + 1
      BY <3>1
    <3> QED
      BY <3>1, <3>2
  <2> QED
    BY <2>1, <2>2
<1>3. \/ getter' = [pc |-> "login", session |-> 0]
      \/ /\ getter' = [pc |-> "restore", session |-> Len(contexts) + 1]
         /\ Len(contexts) + 1 \in 1 .. Len(contexts')
  BY <1>1, NewContexts
<1>4. SessionShape'
  BY <1>3 DEF SessionShape, GetStages, NoTick, NoGetter, ContextTypes
<1>5. ContextTypes'
  BY <1>2, <1>3 DEF ContextTypes, NoTick, NoGetter
<1>6. KeeperTypes'
  BY DEF KeeperTypes, NoTick
<1>7. LoginTypes'
  BY <1>1, <1>2 DEF LoginTypes, ContextTypes
<1>8. CounterTypes'
  BY SessionsAssumption DEF CounterTypes, SessionShape, Fault
<1>9. Named'
  BY <1>3 DEF Named, NoTick, NoGetter
<1>10. KeeperOfCurrent'
  BY DEF KeeperOfCurrent, KeeperTypes, ContextTypes, Named, NoTick
<1>11. LiveSessionKept'
  BY <1>2 DEF LiveSessionKept, KeeperTypes, ContextTypes, KeeperOfCurrent, Named
<1> QED
  BY <1>4, <1>5, <1>6, <1>7, <1>8, <1>9, <1>10, <1>11 DEF SessionInv

LEMMA RestoreKeeps == SessionInv /\ Restore => SessionInv'
<1> SUFFICES ASSUME SessionInv, Restore PROVE SessionInv'
  OBVIOUS
<1> USE DEF SessionInv, Restore, Getting, GetGoes, StartKeepAlive
<1>1. getter.session \in 1 .. Len(contexts)
  BY DEF ContextTypes, Named
<1>2. /\ contexts' \in Seq(Context) /\ Len(contexts') = Len(contexts)
      /\ \A i \in 1 .. Len(contexts) : /\ contexts'[i].login = contexts[i].login
                                       /\ contexts'[i].alive = contexts[i].alive
  BY <1>1, ShutContexts DEF ContextTypes
<1>3. \/ current' = getter.session /\ keeper' = keepers + 1 /\ keepers' = keepers + 1
         /\ getter' = [pc |-> "got", session |-> getter.session]
      \/ current' = current /\ keeper' = keeper /\ keepers' = keepers
         /\ getter' = [pc |-> "login", session |-> 0]
  OBVIOUS
<1>4. SessionShape'
  BY <1>1, <1>3 DEF SessionShape, GetStages, NoTick, NoGetter, ContextTypes
<1>5. ContextTypes'
  BY <1>1, <1>2, <1>3 DEF ContextTypes, NoTick, NoGetter
<1>6. KeeperTypes'
  BY <1>3 DEF KeeperTypes, NoTick
<1>7. LoginTypes'
  BY <1>2 DEF LoginTypes, ContextTypes
<1>8. CounterTypes'
  BY SessionsAssumption DEF CounterTypes, SessionShape, Fault
<1>9. Named'
  BY <1>1, <1>3 DEF Named, NoTick, NoGetter
<1>10. KeeperOfCurrent'
  BY <1>3 DEF KeeperOfCurrent, KeeperTypes, ContextTypes, Named, NoTick
<1>11. LiveSessionKept'
  BY <1>2, <1>3 DEF LiveSessionKept, KeeperTypes, ContextTypes, KeeperOfCurrent, Named
<1> QED
  BY <1>4, <1>5, <1>6, <1>7, <1>8, <1>9, <1>10, <1>11 DEF SessionInv

LEMMA LogInKeeps == SessionInv /\ LogIn => SessionInv'
<1> SUFFICES ASSUME SessionInv, LogIn PROVE SessionInv'
  OBVIOUS
<1> USE DEF SessionInv, LogIn, Getting, GetGoes
<1> DEFINE n == IF logins' = logins THEN 0 ELSE logins + 1
<1>1. logins \in Nat /\ n \in Nat
  BY DEF LoginTypes
<1>2. contexts' = Append(contexts, [login |-> n, alive |-> TRUE, open |-> TRUE])
  <2>1. CASE logins' = logins
    BY <1>1, <2>1
  <2>2. CASE logins' # logins
    BY <1>1, <2>2
  <2> QED
    BY <2>1, <2>2
<1> HIDE DEF n
<1>3. /\ contexts' \in Seq(Context) /\ Len(contexts') = Len(contexts) + 1
      /\ Len(contexts') \in Nat /\ Len(contexts) + 1 \in 1 .. Len(contexts')
      /\ \A i \in 1 .. Len(contexts) : contexts'[i] = contexts[i]
      /\ contexts'[Len(contexts) + 1].login = n
  BY <1>1, <1>2, NewContexts
<1>4. \/ /\ getter' = [pc |-> "persist", session |-> Len(contexts) + 1]
         /\ current' = Len(contexts) + 1
         /\ logins' = logins + 1 /\ valid' = valid \cup {logins + 1}
      \/ /\ getter' = [pc |-> "failed", session |-> 0] /\ current' = current
         /\ logins' = logins /\ valid' = valid
  OBVIOUS
<1>5. n \in 0 .. logins'
  BY <1>1, <1>4 DEF n
<1>6. \A i \in 1 .. Len(contexts') : contexts'[i].login \in 0 .. logins'
  BY <1>1, <1>3, <1>4, <1>5, SMTT(30) DEF LoginTypes, ContextTypes
<1>7. logins' \in Nat /\ valid' \subseteq 1 .. logins' /\ cookies' \in 0 .. logins'
  <2>1. logins \in Nat /\ valid \subseteq 1 .. logins /\ cookies \in 0 .. logins
    BY DEF LoginTypes
  <2>2. CASE logins' = logins + 1 /\ valid' = valid \cup {logins + 1}
    BY <2>1, <2>2
  <2>3. CASE logins' = logins /\ valid' = valid
    BY <2>1, <2>3
  <2> QED
    BY <1>4, <2>2, <2>3
<1>8. SessionShape'
  BY <1>3, <1>4 DEF SessionShape, GetStages, NoTick, NoGetter, ContextTypes
<1>9. ContextTypes'
  BY <1>3, <1>4 DEF ContextTypes, NoTick, NoGetter
<1>10. KeeperTypes'
  BY DEF KeeperTypes, NoTick
<1>11. LoginTypes'
  BY <1>6, <1>7 DEF LoginTypes
<1>12. CounterTypes'
  BY SessionsAssumption DEF CounterTypes, SessionShape, Fault
<1>13. Named'
  BY <1>3, <1>4 DEF Named, NoTick, NoGetter, ContextTypes
<1>14. KeeperOfCurrent'
  BY <1>4 DEF KeeperOfCurrent, KeeperTypes, ContextTypes, Named, NoTick
<1>15. LiveSessionKept'
  BY <1>3, <1>4 DEF LiveSessionKept, KeeperTypes, ContextTypes, KeeperOfCurrent, Named
<1> QED
  BY <1>8, <1>9, <1>10, <1>11, <1>12, <1>13, <1>14, <1>15 DEF SessionInv

LEMMA CloseKeeps == SessionInv /\ Close => SessionInv'
<1> SUFFICES ASSUME SessionInv, Close PROVE SessionInv'
  OBVIOUS
<1> USE DEF SessionInv, Close, Getting, GetGoes
<1>1. /\ contexts' \in Seq(Context) /\ Len(contexts') = Len(contexts)
      /\ \A i \in 1 .. Len(contexts) : /\ contexts'[i].login = contexts[i].login
                                       /\ contexts'[i].alive = contexts[i].alive
  BY ShutContexts DEF ContextTypes
<1>2. SessionShape'
  BY DEF SessionShape, GetStages, NoTick, NoGetter
<1>3. ContextTypes'
  BY <1>1 DEF ContextTypes, NoTick, NoGetter
<1>4. KeeperTypes'
  BY DEF KeeperTypes, NoTick
<1>5. LoginTypes'
  BY <1>1 DEF LoginTypes, ContextTypes
<1>6. CounterTypes'
  BY SessionsAssumption DEF CounterTypes, SessionShape, Fault
<1>7. Named'
  BY DEF Named, NoTick, NoGetter
<1>8. KeeperOfCurrent'
  BY DEF KeeperOfCurrent, KeeperTypes, ContextTypes, Named, NoTick
<1>9. LiveSessionKept'
  BY <1>1 DEF LiveSessionKept, KeeperTypes, ContextTypes, KeeperOfCurrent, Named
<1> QED
  BY <1>2, <1>3, <1>4, <1>5, <1>6, <1>7, <1>8, <1>9 DEF SessionInv

LEMMA CloseBrowserKeeps == SessionInv /\ CloseBrowser => SessionInv'
<1> SUFFICES ASSUME SessionInv, CloseBrowser PROVE SessionInv'
  OBVIOUS
<1> USE DEF SessionInv, CloseBrowser, Getting, GetGoes
<1>1. /\ contexts' \in Seq(Context) /\ Len(contexts') = Len(contexts)
      /\ \A i \in 1 .. Len(contexts) : /\ contexts'[i].login = contexts[i].login
                                       /\ contexts'[i].alive = contexts[i].alive
  <2>1. contexts \in Seq(Context)
    BY DEF ContextTypes
  <2> QED
    BY <2>1, AllClosed
<1>2. SessionShape'
  BY DEF SessionShape, GetStages, NoTick, NoGetter
<1>3. ContextTypes'
  BY <1>1 DEF ContextTypes, NoTick, NoGetter
<1>4. KeeperTypes'
  BY DEF KeeperTypes, NoTick
<1>5. LoginTypes'
  BY <1>1 DEF LoginTypes, ContextTypes
<1>6. CounterTypes'
  BY SessionsAssumption DEF CounterTypes, SessionShape, Fault
<1>7. Named'
  BY DEF Named, NoTick, NoGetter
<1>8. KeeperOfCurrent'
  BY DEF KeeperOfCurrent, KeeperTypes, ContextTypes, Named, NoTick
<1>9. LiveSessionKept'
  BY <1>1 DEF LiveSessionKept, KeeperTypes, ContextTypes, KeeperOfCurrent, Named
<1> QED
  BY <1>2, <1>3, <1>4, <1>5, <1>6, <1>7, <1>8, <1>9 DEF SessionInv

LEMMA ProcessLostKeeps == SessionInv /\ ProcessLost => SessionInv'
<1> SUFFICES ASSUME SessionInv, ProcessLost PROVE SessionInv'
  OBVIOUS
<1> USE DEF SessionInv, ProcessLost, Fault
<1>1. contexts' \in Seq(Context) /\ Len(contexts') = 0
  OBVIOUS
<1>2. SessionShape'
  BY DEF SessionShape, GetStages, NoTick, NoGetter
<1>3. ContextTypes'
  BY <1>1 DEF ContextTypes, NoTick, NoGetter
<1>4. KeeperTypes'
  BY DEF KeeperTypes, NoTick
<1>5. LoginTypes'
  BY <1>1 DEF LoginTypes
<1>6. CounterTypes'
  BY SessionsAssumption DEF CounterTypes, SessionShape, Fault
<1>7. Named'
  BY DEF Named, NoTick, NoGetter
<1>8. KeeperOfCurrent'
  BY DEF KeeperOfCurrent, KeeperTypes, ContextTypes, Named, NoTick
<1>9. LiveSessionKept'
  BY DEF LiveSessionKept, KeeperTypes, ContextTypes, KeeperOfCurrent, Named
<1> QED
  BY <1>2, <1>3, <1>4, <1>5, <1>6, <1>7, <1>8, <1>9 DEF SessionInv

\* Outside the session manager, a job asks for a session and lets it go; only
\* the end of createSession must not be cut short.
LEMMA GetterMoves ==
    ASSUME SessionInv, NEW pc \in GetStages, pc \notin {"ping", "restore", "persist", "got"},
           ~Getting("persist"), GetGoes(pc, 0), faults' \in 0 .. MaxFaults,
           UNCHANGED <<contexts, current, keeper, keepers, cookies, valid, logins, tick,
                       ticks, lapses>>
    PROVE  SessionInv'
<1> USE DEF SessionInv, Getting, GetGoes
<1>1. SessionShape'
  BY DEF SessionShape
<1>2. ContextTypes' /\ KeeperTypes'
  BY DEF ContextTypes, KeeperTypes
<1>3. LoginTypes' /\ CounterTypes'
  BY DEF LoginTypes, CounterTypes
<1>4. Named' /\ KeeperOfCurrent' /\ LiveSessionKept'
  BY DEF Named, KeeperOfCurrent, LiveSessionKept
<1> QED
  BY <1>1, <1>2, <1>3, <1>4

\* A step that leaves the session manager alone, but for a call that fails.
LEMMA SessionsUntouched ==
    ASSUME SessionInv, faults' \in 0 .. MaxFaults,
           UNCHANGED <<contexts, current, keeper, keepers, cookies, valid, logins, tick,
                       getter, ticks, lapses>>
    PROVE  SessionInv'
<1> USE DEF SessionInv, Getting
<1>1. SessionShape' /\ ContextTypes' /\ KeeperTypes'
  BY DEF SessionShape, ContextTypes, KeeperTypes
<1>2. LoginTypes' /\ CounterTypes'
  BY DEF LoginTypes, CounterTypes
<1>3. Named' /\ KeeperOfCurrent' /\ LiveSessionKept'
  BY DEF Named, KeeperOfCurrent, LiveSessionKept
<1> QED
  BY <1>1, <1>2, <1>3

-----------------------------------------------------------------------------
(***************************************************************************)
(* Status jobs.  One job is active, that of the worker; what the worker    *)
(* has heard and read is of its own passport unless an answer came late;   *)
(* and where the worker is tells how the last row of its log reads.        *)
(***************************************************************************)
Worker == [pc : Stages, job : Passports \cup {NoOne}, attempt : 0 .. Retries,
           heard : Passports \cup {NoOne},
           result : Tellings \cup {Text[p] : p \in Passports}]
App == [status : Statuses \cup {"PENDING"}, portal : Tellings]
QueueEntry == [state : JobStates, attempts : 0 .. MaxAttempts]

JobTypes ==
    /\ apps \in [Passports -> App]
    /\ logs \in [Passports -> Seq(LogRow)]
    /\ job \in [Passports -> QueueEntry]
    /\ ghosts \subseteq Passports /\ slow \subseteq Passports /\ changed \subseteq Passports
    /\ worker \in Worker
    /\ late \in Passports \cup {NoOne}
    /\ up \in {"running", "stopping", "down"}
    /\ moves \in 0 .. MaxMoves
    /\ lost \subseteq Passports \X Nat

Fetching == {"fetch", "goto", "search", "read"}
\* getSession is under way.
Seeking == {"get", "ping", "cached", "restore", "login", "persist"}
Storing == {"success", "app", "compare", "queue"}

Working ==
    /\ At("idle") <=> Now = NoOne
    /\ \A p \in Passports : job[p].state = "active" <=> p = Now
    /\ \A p \in Passports : job[p].state \in {"waiting", "active"} => job[p].attempts < MaxAttempts
    /\ getter.pc \in Seeking => At("fetch")

\* The statuses that a search for p may be told.
AnswersTo(p) == {Told(p)} \cup {Told(q) : q \in slow}

Heard ==
    /\ worker.heard \in {NoOne, Now} \cup slow
    /\ late \in {NoOne} \cup slow
    /\ worker.pc \in Fetching \cup {"log"} => worker.result \in {Unset, Text[Now]}
    /\ worker.pc \in Storing => worker.result \in AnswersTo(Now) /\ worker.result # Unset

\* The last row is that of a job that is complete, or of the job under way.
LastIsOpen(p) == job[p].state = "completed" \/ (p = Now /\ ~At("log"))

\* A row that is over is FAILED, or has lost its process or the catch's update.
RowsKept(p) ==
    \A n \in 1 .. Len(logs[p]) :
        \/ logs[p][n].status = "FAILED"
        \/ <<p, n>> \in lost
        \/ n = Len(logs[p]) /\ LastIsOpen(p)

SuccessKept(p) ==
    job[p].state = "completed" =>
        /\ LastRow(p).status = "SUCCESS"
        /\ apps[p].portal # Unset
        /\ apps[p].status = apps[p].portal \/ p \in ghosts \cup changed

WorkKept ==
    /\ worker.pc \in Fetching \cup Storing \cup {"failing"} => logs[Now] # <<>>
    /\ worker.pc \in {"app", "compare", "queue"} => LastRow(Now).status = "SUCCESS"
    /\ worker.pc \in {"compare", "queue"} => apps[Now].portal = worker.result

LogKept ==
    /\ \A p \in Passports : RowsKept(p) /\ SuccessKept(p)
    /\ WorkKept

JobsInv ==
    /\ SessionInv
    /\ JobTypes
    /\ Working
    /\ Heard
    /\ OwnStatusUnlessLate
    /\ LogKept

LEMMA JobsImply == JobsInv => TypeOK /\ OwnStatusUnlessLate /\ LogTellsOutcome /\ LiveSessionKept
<1> SUFFICES ASSUME JobsInv PROVE TypeOK /\ LogTellsOutcome
  BY DEF JobsInv, SessionInv
<1>1. TypeOK
  BY SessionsTyped DEF JobsInv, JobTypes, TypeOK, Worker, App, QueueEntry
<1>2. ASSUME NEW p \in Passports
      PROVE  /\ job[p].state = "completed" =>
                   /\ LastRow(p).status = "SUCCESS"
                   /\ apps[p].portal # Unset
                   /\ apps[p].status = apps[p].portal \/ p \in ghosts \cup changed
             /\ \A n \in DOMAIN logs[p] :
                   \/ logs[p][n].status = "FAILED"
                   \/ p = Now \/ <<p, n>> \in lost
                   \/ job[p].state = "completed" /\ n = Len(logs[p])
  <2>1. RowsKept(p) /\ SuccessKept(p)
    BY DEF JobsInv, LogKept
  <2>2. logs[p] \in Seq(LogRow)
    BY DEF JobsInv, JobTypes
  <2>3. DOMAIN logs[p] = 1 .. Len(logs[p])
    BY <2>2, LenProperties
  <2> QED
    BY <2>1, <2>3 DEF RowsKept, LastIsOpen, SuccessKept
<1> QED
  BY <1>1, <1>2 DEF LogTellsOutcome

LEMMA JobsStart == Init => JobsInv
<1> SUFFICES ASSUME Init PROVE JobsInv
  OBVIOUS
<1>1. SessionInv
  BY LiveSessions DEF Init
<1>2. JobTypes
  <2>1. apps \in [Passports -> App] /\ job \in [Passports -> QueueEntry]
    BY JobsAssumption DEF Init, App, QueueEntry, JobStates, Tellings
  <2>2. logs \in [Passports -> Seq(LogRow)]
    BY DEF Init
  <2>3. worker \in Worker
    BY JobsAssumption DEF Init, Worker, NoWorker, Stages, Tellings
  <2> QED
    BY <2>1, <2>2, <2>3, JobsAssumption DEF Init, JobTypes
<1>3. Working /\ Heard
  BY JobsAssumption DEF Init, SessionInit, NoGetter, NoWorker, Working, Heard, At, Now,
     Getting, Fetching, Storing, Seeking
<1>4. OwnStatusUnlessLate
  BY DEF Init, OwnStatusUnlessLate
<1>5. LogKept
  BY DEF Init, LogKept, RowsKept, SuccessKept, WorkKept, NoWorker, Fetching,
     Storing, At
<1> QED
  BY <1>1, <1>2, <1>3, <1>4, <1>5 DEF JobsInv

\* A text of the portal that is not empty is worded, not lost.
LEMMA Normalized ==
    ASSUME NEW text, text # Unset
    PROVE  NormalizeStatus(text) # Unset
BY DEF NormalizeStatus, Unset

\* Where the log is concerned, a step of the fetch only moves the worker on.
LEMMA FetchKeepsLog ==
    ASSUME LogKept, worker.pc \in Fetching, worker'.job = Now,
           worker'.pc \in Fetching \cup {"success", "failing"},
           UNCHANGED <<apps, logs, job, ghosts, changed, lost>>
    PROVE  LogKept'
<1>1. ASSUME NEW p \in Passports PROVE RowsKept(p)' /\ SuccessKept(p)'
  <2>1. RowsKept(p) /\ SuccessKept(p)
    BY DEF LogKept
  <2>2. RowsKept(p)'
    BY <2>1 DEF RowsKept, LastIsOpen, At, Now, Fetching
  <2>3. SuccessKept(p)'
    BY <2>1 DEF SuccessKept, LastRow
  <2> QED
    BY <2>2, <2>3
<1>2. WorkKept'
  <2>1. logs[Now] # <<>>
    BY DEF LogKept, WorkKept
  <2> QED
    BY <2>1 DEF WorkKept, Now, Fetching
<1> QED
  BY <1>1, <1>2 DEF LogKept

\* The facts a step of the fetch has to show.
FetchStep ==
    /\ worker.pc \in Fetching
    /\ worker' \in Worker /\ worker'.job = Now
    /\ worker'.pc \in Fetching \cup {"success", "failing"}
    /\ slow \subseteq slow' /\ slow' \subseteq Passports
    /\ late' \in {NoOne} \cup slow'
    /\ worker'.heard \in {NoOne, Now} \cup slow'
    /\ worker'.pc \in Fetching => worker'.result \in {Unset, Text[Now]}
    /\ worker'.pc = "success" => worker'.result \in AnswersTo(Now) /\ worker'.result # Unset
    /\ getter'.pc \in Seeking => worker'.pc = "fetch"
    /\ UNCHANGED <<apps, logs, job, ghosts, up, moves, changed, lost>>

LEMMA FetchStepKeeps ==
    ASSUME JobsInv, FetchStep, SessionInv'
    PROVE  JobsInv'
<1> USE DEF JobsInv
<1>1. JobTypes'
  BY DEF JobTypes, FetchStep
<1>2. Working'
  BY DEF Working, FetchStep, At, Now, Getting, Fetching
<1>3. AnswersTo(Now) \subseteq AnswersTo(Now)'
  BY DEF FetchStep, AnswersTo, Now
<1>4. Heard'
  BY <1>3 DEF Heard, FetchStep, Now, Fetching, Storing
<1>5. OwnStatusUnlessLate'
  BY DEF OwnStatusUnlessLate, FetchStep
<1>6. LogKept'
  BY FetchKeepsLog DEF FetchStep
<1> QED
  BY <1>1, <1>2, <1>4, <1>5, <1>6

\* The end of an attempt.
LEMMA AttemptOver ==
    ASSUME worker \in Worker, AttemptFailed
    PROVE  /\ worker' \in Worker /\ worker'.job = Now /\ worker'.result = worker.result
           /\ worker'.pc \in {"fetch", "failing"}
           /\ worker'.heard \in {NoOne, worker.heard}
<1>1. worker.attempt \in 0 .. Retries /\ Retries \in Nat
  BY JobsAssumption DEF Worker
<1>2. CASE worker.attempt < Retries
  <2>1. worker.attempt + 1 \in 0 .. Retries
    BY <1>1, <1>2
  <2>2. worker' = [worker EXCEPT !.pc = "fetch", !.attempt = worker.attempt + 1, !.heard = NoOne]
    BY <1>2 DEF AttemptFailed
  <2> QED
    BY <2>1, <2>2 DEF Worker, Stages, Now
<1>3. CASE ~(worker.attempt < Retries)
  BY <1>1, <1>3 DEF AttemptFailed, Worker, Stages, Now
<1> QED
  BY <1>2, <1>3

LEMMA WorkerGoes ==
    ASSUME worker \in Worker, NEW pc \in Stages, Goes(pc)
    PROVE  /\ worker' \in Worker /\ worker'.pc = pc /\ worker'.job = Now
           /\ worker'.heard = worker.heard /\ worker'.result = worker.result
           /\ worker'.attempt = worker.attempt
BY DEF Goes, Worker, Now

\* The state of a fetch before its step.
LEMMA WhileFetching ==
    ASSUME JobsInv, worker.pc \in Fetching
    PROVE  /\ worker \in Worker /\ Now \in Passports
           /\ worker.heard \in {NoOne, Now} \cup slow
           /\ late \in {NoOne} \cup slow /\ slow \subseteq Passports
           /\ worker.result \in {Unset, Text[Now]}
           /\ getter.pc \in Seeking => At("fetch")
           /\ faults \in 0 .. MaxFaults
<1>1. worker \in Worker
  BY DEF JobsInv, JobTypes
<1>2. Now \in Passports
  BY <1>1 DEF JobsInv, Working, At, Now, Fetching, Worker
<1> QED
  BY <1>1, <1>2 DEF JobsInv, JobTypes, Heard, Working, SessionInv, CounterTypes

LEMMA AskSessionKeeps == JobsInv /\ AskSession => JobsInv'
<1> SUFFICES ASSUME JobsInv, AskSession PROVE JobsInv'
  OBVIOUS
<1>1. worker.pc \in Fetching
  BY DEF AskSession, At, Fetching
<1>2. SessionInv'
  BY <1>1, WhileFetching, GetterMoves DEF JobsInv, AskSession, Getting, GetStages
<1>3. FetchStep
  BY <1>1, WhileFetching DEF FetchStep, AskSession, Getting, GetGoes, At, jobVars, Fetching, Now
<1> QED
  BY <1>2, <1>3, FetchStepKeeps

LEMMA HaveSessionKeeps == JobsInv /\ HaveSession => JobsInv'
<1> SUFFICES ASSUME JobsInv, HaveSession PROVE JobsInv'
  OBVIOUS
<1>1. worker.pc \in Fetching
  BY DEF HaveSession, At, Fetching
<1>2. CASE Getting("got")
  <2>1. Goes("goto") /\ UNCHANGED <<sessionVars, late, jobVars>>
    BY <1>2 DEF HaveSession, sessionVars
  <2>2. SessionInv'
    BY <1>1, <2>1, WhileFetching, SessionsUntouched DEF JobsInv, sessionVars
  <2>3. FetchStep
    BY <1>1, <1>2, <2>1, WhileFetching, WorkerGoes
       DEF FetchStep, Getting, sessionVars, jobVars, Fetching, Seeking, Stages
  <2> QED
    BY <2>2, <2>3, FetchStepKeeps
<1>3. CASE ~Getting("got")
  <2>1. AttemptFailed /\ GetGoes("idle", 0)
    BY <1>3 DEF HaveSession
  <2>2. SessionInv'
    BY <1>1, <2>1, WhileFetching, GetterMoves DEF JobsInv, HaveSession, Getting, GetStages
  <2>3. FetchStep
    BY <1>1, <2>1, WhileFetching, AttemptOver
       DEF FetchStep, HaveSession, GetGoes, jobVars, Fetching, Seeking
  <2> QED
    BY <2>2, <2>3, FetchStepKeeps
<1> QED
  BY <1>2, <1>3

LEMMA NavigateKeeps == JobsInv /\ Navigate => JobsInv'
<1> SUFFICES ASSUME JobsInv, Navigate PROVE JobsInv'
  OBVIOUS
<1>1. worker.pc \in Fetching /\ At("goto") /\ getter.pc \notin Seeking /\ ~Getting("persist")
  BY DEF Navigate, At, Fetching, JobsInv, Working, Getting, Seeking
<1>2. worker \in Worker
  BY <1>1, WhileFetching
<1>3. CASE \E heard \in {late, NoOne} : worker' = [worker EXCEPT !.pc = "search", !.heard = heard]
           /\ UNCHANGED sessionVars
  <2>1. PICK heard \in {late, NoOne} : worker' = [worker EXCEPT !.pc = "search", !.heard = heard]
    BY <1>3, Zenon
  <2>2. /\ worker' \in Worker /\ worker'.pc = "search" /\ worker'.job = Now
        /\ worker'.heard = heard /\ worker'.result = worker.result
    BY <1>1, <1>2, <2>1, WhileFetching DEF Worker, Stages, Now
  <2>3. SessionInv'
    BY <1>1, <1>3, WhileFetching, SessionsUntouched DEF JobsInv, sessionVars
  <2>4. FetchStep
    BY <1>1, <1>3, <2>2, WhileFetching
       DEF FetchStep, Navigate, jobVars, Fetching, Getting, sessionVars
  <2> QED
    BY <2>3, <2>4, FetchStepKeeps
<1>4. CASE /\ AttemptFailed /\ GetGoes("idle", 0) /\ faults' \in 0 .. MaxFaults
           /\ UNCHANGED <<contexts, current, keeper, keepers, cookies, valid, logins, tick,
                          ticks, lapses>>
  <2>1. SessionInv'
    BY <1>1, <1>4, GetterMoves DEF JobsInv, GetStages
  <2>2. FetchStep
    BY <1>1, <1>2, <1>4, WhileFetching, AttemptOver
       DEF FetchStep, Navigate, GetGoes, jobVars, Fetching, Seeking
  <2> QED
    BY <2>1, <2>2, FetchStepKeeps
<1>5. faults \in 0 .. MaxFaults /\ (Fault => faults' \in 0 .. MaxFaults)
  BY <1>1, WhileFetching, SessionsAssumption DEF Fault
<1> QED
  BY <1>3, <1>4, <1>5 DEF Navigate

LEMMA SearchKeeps == JobsInv /\ Search => JobsInv'
<1> SUFFICES ASSUME JobsInv, Search PROVE JobsInv'
  OBVIOUS
<1>1. worker.pc \in Fetching /\ At("search")
  BY DEF Search, At, Fetching
<1>2. worker \in Worker /\ Now \in Passports
  BY <1>1, WhileFetching
<1>3. SessionInv'
  BY <1>1, WhileFetching, SessionsUntouched DEF JobsInv, Search, sessionVars
<1>4. /\ worker' \in Worker /\ worker'.pc = "read" /\ worker'.job = Now
      /\ worker'.heard \in {Now, worker.heard}
      /\ worker'.result \in {Text[Now], worker.result}
  <2>1. \/ worker' = [worker EXCEPT !.pc = "read", !.heard = Now]
        \/ worker' = [worker EXCEPT !.pc = "read", !.result = Text[Now]]
        \/ Goes("read")
    BY Zenon DEF Search
  <2>2. CASE worker' = [worker EXCEPT !.pc = "read", !.heard = Now]
    BY <1>2, <2>2 DEF Worker, Stages, Now
  <2>3. CASE worker' = [worker EXCEPT !.pc = "read", !.result = Text[Now]]
    BY <1>2, <2>3 DEF Worker, Stages, Now
  <2>4. CASE Goes("read")
    BY <1>2, <2>4, WorkerGoes DEF Stages
  <2> QED
    BY <2>1, <2>2, <2>3, <2>4
<1>5. /\ slow \subseteq slow' /\ slow' \subseteq Passports
      /\ late' \in {NoOne} \cup slow'
  BY <1>1, <1>2, WhileFetching DEF Search
<1>6. FetchStep
  BY <1>1, <1>4, <1>5, WhileFetching
     DEF FetchStep, Search, Fetching, Getting, At, sessionVars
<1> QED
  BY <1>3, <1>6, FetchStepKeeps

LEMMA ReadKeeps == JobsInv /\ Read => JobsInv'
<1> DEFINE text == IF worker.heard # NoOne THEN Text[worker.heard] ELSE worker.result
<1> SUFFICES ASSUME JobsInv, Read PROVE JobsInv'
  OBVIOUS
<1>1. worker.pc \in Fetching /\ At("read") /\ ~Getting("persist")
  BY DEF Read, At, Fetching, JobsInv, Working, Getting, Seeking
<1>2. worker \in Worker /\ Now \in Passports /\ slow \subseteq Passports
  BY <1>1, WhileFetching
<1>3. SessionInv'
  BY <1>1, WhileFetching, GetterMoves DEF JobsInv, Read, GetStages
<1>4. CASE text = Unset
  <2>1. AttemptFailed
    BY <1>4 DEF Read
  <2>2. FetchStep
    BY <1>1, <1>2, <2>1, WhileFetching, AttemptOver
       DEF FetchStep, Read, GetGoes, jobVars, Fetching, Seeking
  <2> QED
    BY <1>3, <2>2, FetchStepKeeps
<1>5. CASE text # Unset
  <2>1. worker' = [worker EXCEPT !.pc = "success", !.result = NormalizeStatus(text)]
    BY <1>5 DEF Read
  <2>2. NormalizeStatus(text) # Unset
    BY <1>5, Normalized
  <2>3. \E q \in {Now} \cup slow : text = Text[q]
    BY <1>1, <1>2, <1>5, WhileFetching, JobsAssumption
  <2>4. PICK q \in {Now} \cup slow : text = Text[q]
    BY <2>3
  <2>5. NormalizeStatus(text) = Told(q) /\ q \in Passports
    BY <1>2, <2>4 DEF Told
  <2> HIDE DEF text
  <2>6. NormalizeStatus(text) \in AnswersTo(Now) /\ NormalizeStatus(text) \in Tellings
    BY <2>4, <2>5 DEF AnswersTo, Tellings
  <2>7. /\ worker' \in Worker /\ worker'.pc = "success" /\ worker'.job = Now
        /\ worker'.heard = worker.heard /\ worker'.result = NormalizeStatus(text)
    BY <1>2, <2>1, <2>6 DEF Worker, Stages, Now
  <2>8. FetchStep
    BY <1>1, <1>2, <2>2, <2>6, <2>7, WhileFetching
       DEF FetchStep, Read, GetGoes, jobVars, Fetching, Seeking
  <2> QED
    BY <1>3, <2>8, FetchStepKeeps
<1> QED
  BY <1>4, <1>5

\* A job that is over: only its own entry, rows and marks have changed.
Ended(q) ==
    /\ Now = q /\ worker' = NoWorker
    /\ getter'.pc \notin Seeking /\ late' \in {late, NoOne}
    /\ up' \in {"running", "stopping", "down"}
    /\ job' \in [Passports -> QueueEntry] /\ job'[q].state # "active"
    /\ job'[q].state = "waiting" => job'[q].attempts < MaxAttempts
    /\ logs' \in [Passports -> Seq(LogRow)]
    /\ \A p \in Passports \ {q} : job'[p] = job[p] /\ logs'[p] = logs[p]
    /\ lost \subseteq lost' /\ lost' \subseteq Passports \X Nat
    /\ ghosts \subseteq ghosts' /\ ghosts' \subseteq Passports
    /\ RowsKept(q)' /\ SuccessKept(q)'
    /\ UNCHANGED <<apps, moves, slow, changed>>

LEMMA JobEnds ==
    ASSUME JobsInv, SessionInv', NEW q \in Passports, Ended(q)
    PROVE  JobsInv'
<1> USE DEF JobsInv, Ended
<1>1. /\ worker'.pc = "idle" /\ worker'.job = NoOne /\ worker'.heard = NoOne
      /\ worker' \in Worker /\ NoOne \notin Passports
  BY JobsAssumption DEF NoWorker, Worker, Stages, Tellings
<1>2. JobTypes'
  BY <1>1 DEF JobTypes
<1>3. Working'
  BY <1>1 DEF Working, At, Now, Getting
<1>4. Heard'
  BY <1>1 DEF Heard, Fetching, Storing
<1>5. OwnStatusUnlessLate'
  BY DEF OwnStatusUnlessLate
<1>6. ASSUME NEW p \in Passports PROVE RowsKept(p)' /\ SuccessKept(p)'
  <2>1. CASE p = q
    BY <2>1
  <2>2. CASE p # q
    <3>1. RowsKept(p) /\ SuccessKept(p)
      BY DEF LogKept
    <3>2. RowsKept(p)'
      BY <2>2, <3>1 DEF RowsKept, LastIsOpen
    <3>3. SuccessKept(p)'
      BY <2>2, <3>1 DEF SuccessKept, LastRow
    <3> QED
      BY <3>2, <3>3
  <2> QED
    BY <2>1, <2>2
<1>7. WorkKept'
  BY <1>1 DEF WorkKept, Fetching, Storing
<1> QED
  BY <1>2, <1>3, <1>4, <1>5, <1>6, <1>7 DEF LogKept

\* A job that goes on outside its fetch: its row and its application may change.
GoesOn(q) ==
    /\ Now = q
    /\ worker' \in Worker /\ worker'.job = q /\ worker'.pc \in Storing \cup {"fetch", "failing"}
    /\ worker'.heard = worker.heard /\ worker'.result = worker.result
    /\ worker'.pc \in Storing => worker.pc \in Storing
    /\ worker'.pc = "fetch" => worker.pc = "log"
    /\ getter'.pc \notin Seeking
    /\ logs' \in [Passports -> Seq(LogRow)] /\ apps' \in [Passports -> App]
    /\ \A p \in Passports \ {q} : logs'[p] = logs[p] /\ apps'[p] = apps[p]
    /\ RowsKept(q)' /\ WorkKept' /\ OwnStatusUnlessLate'
    /\ UNCHANGED <<job, ghosts, late, up, moves, slow, changed, lost>>

LEMMA JobGoesOn ==
    ASSUME JobsInv, SessionInv', NEW q \in Passports, GoesOn(q)
    PROVE  JobsInv'
<1> USE DEF JobsInv, GoesOn
<1>1. job[q].state = "active" /\ q # NoOne
  BY JobsAssumption DEF Working
<1>2. JobTypes'
  BY DEF JobTypes
<1>3. Working'
  BY <1>1 DEF Working, At, Now, Getting, Storing
<1>4. AnswersTo(q)' = AnswersTo(q)
  BY DEF AnswersTo
<1>5. Heard'
  BY <1>4 DEF Heard, Fetching, Storing, Now
<1>6. ASSUME NEW p \in Passports PROVE RowsKept(p)' /\ SuccessKept(p)'
  <2>1. CASE p = q
    BY <1>1, <2>1 DEF SuccessKept
  <2>2. CASE p # q
    <3>1. RowsKept(p) /\ SuccessKept(p)
      BY DEF LogKept
    <3>2. RowsKept(p)'
      BY <2>2, <3>1 DEF RowsKept, LastIsOpen, Now
    <3>3. SuccessKept(p)'
      BY <2>2, <3>1 DEF SuccessKept, LastRow
    <3> QED
      BY <3>2, <3>3
  <2> QED
    BY <2>1, <2>2
<1> QED
  BY <1>2, <1>3, <1>5, <1>6 DEF LogKept

\* The last row of a log is replaced.
LEMMA RowReplaced ==
    ASSUME JobTypes, Now \in Passports, logs[Now] # <<>>, NEW row \in LogRow, LogBecomes(row)
    PROVE  /\ logs' \in [Passports -> Seq(LogRow)]
           /\ \A p \in Passports \ {Now} : logs'[p] = logs[p]
           /\ Len(logs'[Now]) = Len(logs[Now]) /\ Len(logs[Now]) \in Nat \ {0}
           /\ logs'[Now] # <<>>
           /\ logs'[Now][Len(logs'[Now])] = row
           /\ \A n \in 1 .. Len(logs[Now]) : n # Len(logs[Now]) => logs'[Now][n] = logs[Now][n]
<1> DEFINE log == logs[Now]
           next == [log EXCEPT ![Len(log)] = row]
<1>1. logs \in [Passports -> Seq(LogRow)] /\ log \in Seq(LogRow) /\ log # <<>>
  BY DEF JobTypes
<1>2. Len(log) \in Nat \ {0} /\ Len(log) \in 1 .. Len(log)
  BY <1>1
<1>3. /\ next \in Seq(LogRow) /\ Len(next) = Len(log)
      /\ \A n \in 1 .. Len(log) : next[n] = IF n = Len(log) THEN row ELSE log[n]
  BY <1>1, <1>2, ExceptSeq
<1>4. next # <<>>
  BY <1>2, <1>3
<1>5. logs' = [logs EXCEPT ![Now] = next]
  BY DEF LogBecomes
<1> HIDE DEF next
<1>6. logs'[Now] = next /\ logs' \in [Passports -> Seq(LogRow)]
      /\ \A p \in Passports \ {Now} : logs'[p] = logs[p]
  BY <1>1, <1>3, <1>5
<1> QED
  BY <1>2, <1>3, <1>4, <1>6

\* The state of a job before a step outside its fetch.
LEMMA WhileAtWork ==
    ASSUME JobsInv, worker.pc \in Storing \cup {"log", "failing"}
    PROVE  /\ worker \in Worker /\ Now \in Passports /\ JobTypes
           /\ job[Now].state = "active" /\ job[Now].attempts < MaxAttempts
           /\ worker.pc # "log" => logs[Now] # <<>>
           /\ RowsKept(Now) /\ WorkKept
           /\ getter.pc \notin Seeking
           /\ faults \in 0 .. MaxFaults
<1>1. worker \in Worker /\ JobTypes
  BY DEF JobsInv, JobTypes
<1>2. Now \in Passports /\ job[Now].state = "active" /\ getter.pc \notin Seeking
      /\ job[Now].attempts < MaxAttempts
  BY <1>1 DEF JobsInv, Working, At, Now, Storing, Worker, Getting
<1>3. RowsKept(Now) /\ WorkKept
  BY <1>2 DEF JobsInv, LogKept
<1>4. faults \in 0 .. MaxFaults
  BY DEF JobsInv, SessionInv, CounterTypes
<1> QED
  BY <1>1, <1>2, <1>3, <1>4 DEF WorkKept, JobTypes, Storing

\* A job that is thrown back is waiting or has failed.
LEMMA ThrownBack ==
    ASSUME JobTypes, Now \in Passports, Thrown(Now), job[Now].state = "active",
           job[Now].attempts < MaxAttempts
    PROVE  /\ worker' = NoWorker
           /\ job' \in [Passports -> QueueEntry] /\ job'[Now].state \in {"waiting", "failed"}
           /\ job'[Now].state = "waiting" => job'[Now].attempts < MaxAttempts
           /\ \A p \in Passports \ {Now} : job'[p] = job[p]
<1> DEFINE n == job[Now].attempts + 1
           e == [attempts |-> n, state |-> IF n < MaxAttempts THEN "waiting" ELSE "failed"]
<1>1. job \in [Passports -> QueueEntry] /\ n \in 0 .. MaxAttempts
  BY JobsAssumption DEF JobTypes, QueueEntry
<1>2. worker' = NoWorker /\ job' = [job EXCEPT ![Now] = e]
  BY DEF Thrown
<1>3. e \in QueueEntry /\ e.state \in {"waiting", "failed"}
      /\ (e.state = "waiting" => e.attempts < MaxAttempts)
  BY <1>1 DEF QueueEntry, JobStates
<1> HIDE DEF e
<1> QED
  BY <1>1, <1>2, <1>3

LEMMA Completed ==
    ASSUME JobTypes, Now \in Passports, Over(Now)
    PROVE  /\ worker' = NoWorker
           /\ job' \in [Passports -> QueueEntry] /\ job'[Now].state = "completed"
           /\ \A p \in Passports \ {Now} : job'[p] = job[p]
<1>1. job \in [Passports -> QueueEntry] /\ job[Now] \in QueueEntry
  BY DEF JobTypes
<1>2. [job[Now] EXCEPT !.state = "completed"] \in QueueEntry
      /\ [job[Now] EXCEPT !.state = "completed"].state = "completed"
  BY <1>1 DEF QueueEntry, JobStates
<1> QED
  BY <1>1, <1>2 DEF Over

LEMMA TakeJobKeeps == \A q \in Passports : JobsInv /\ TakeJob(q) => JobsInv'
<1> SUFFICES ASSUME NEW q \in Passports, JobsInv, TakeJob(q) PROVE JobsInv'
  OBVIOUS
<1> USE DEF JobsInv
<1>1. /\ worker'.pc = "log" /\ worker'.job = q /\ worker'.heard = NoOne
      /\ worker'.result = Unset /\ worker' \in Worker
  <2>1. NoWorker \in Worker /\ NoWorker.heard = NoOne /\ NoWorker.result = Unset
    BY JobsAssumption DEF NoWorker, Worker, Stages, Tellings
  <2>2. worker' = [NoWorker EXCEPT !.pc = "log", !.job = q]
    BY DEF TakeJob
  <2> QED
    BY <2>1, <2>2 DEF Worker, Stages
<1>2. /\ job' \in [Passports -> QueueEntry] /\ job'[q].state = "active"
      /\ job'[q].attempts = job[q].attempts
      /\ \A p \in Passports \ {q} : job'[p] = job[p]
  <2>1. job \in [Passports -> QueueEntry] /\ job[q] \in QueueEntry
    BY DEF JobTypes
  <2>2. [job[q] EXCEPT !.state = "active"] \in QueueEntry
        /\ [job[q] EXCEPT !.state = "active"].state = "active"
        /\ [job[q] EXCEPT !.state = "active"].attempts = job[q].attempts
    BY <2>1 DEF QueueEntry, JobStates
  <2> QED
    BY <2>1, <2>2 DEF TakeJob
<1>3. Now = NoOne /\ getter.pc \notin Seeking /\ NoOne \notin Passports /\ job[q].state = "waiting"
      /\ \A p \in Passports : job[p].state # "active"
  BY JobsAssumption DEF TakeJob, Working, At
<1>4. SessionInv'
  BY SessionsUntouched DEF TakeJob, sessionVars, SessionInv, CounterTypes
<1>5. JobTypes'
  BY <1>1, <1>2 DEF JobTypes, TakeJob
<1>6. Working'
  BY <1>1, <1>2, <1>3 DEF Working, TakeJob, At, Now, Getting, sessionVars
<1>7. Heard' /\ OwnStatusUnlessLate'
  BY <1>1 DEF Heard, OwnStatusUnlessLate, TakeJob, Fetching, Storing, Now
<1>8. ASSUME NEW p \in Passports PROVE RowsKept(p)' /\ SuccessKept(p)'
  <2>1. RowsKept(p) /\ SuccessKept(p)
    BY DEF LogKept
  <2>2. RowsKept(p)'
    <3>1. LastIsOpen(p) => LastIsOpen(p)'
      BY <1>2, <1>3 DEF LastIsOpen
    <3>2. UNCHANGED <<logs, lost>>
      BY DEF TakeJob
    <3> QED
      BY <2>1, <3>1, <3>2 DEF RowsKept
  <2>3. SuccessKept(p)'
    BY <1>2, <2>1 DEF SuccessKept, LastRow, TakeJob
  <2> QED
    BY <2>2, <2>3
<1>9. WorkKept'
  BY <1>1 DEF WorkKept, Fetching, Storing
<1> QED
  BY <1>4, <1>5, <1>6, <1>7, <1>8, <1>9 DEF LogKept

LEMMA LogSuccessKeeps == JobsInv /\ LogSuccess => JobsInv'
<1> SUFFICES ASSUME JobsInv, LogSuccess PROVE JobsInv'
  OBVIOUS
<1> DEFINE row == [status |-> "SUCCESS", attempts |-> 1]
<1>1. worker.pc = "success" /\ worker.pc \in Storing \cup {"log", "failing"}
  BY DEF LogSuccess, At, Storing
<1>2. PICK q \in Passports : q = Now
  BY <1>1, WhileAtWork
<1>3. row \in LogRow
  BY DEF LogRow
<1>4. /\ logs' \in [Passports -> Seq(LogRow)]
      /\ \A p \in Passports \ {q} : logs'[p] = logs[p]
      /\ Len(logs'[q]) = Len(logs[q]) /\ logs'[q] # <<>>
      /\ logs'[q][Len(logs'[q])].status = "SUCCESS"
      /\ \A n \in 1 .. Len(logs[q]) : n # Len(logs[q]) => logs'[q][n] = logs[q][n]
  BY <1>1, <1>2, <1>3, WhileAtWork, RowReplaced DEF LogSuccess
<1>5. /\ worker' \in Worker /\ worker'.pc = "app" /\ worker'.job = q
      /\ worker'.heard = worker.heard /\ worker'.result = worker.result
  BY <1>1, <1>2, WhileAtWork, WorkerGoes DEF LogSuccess, Stages
<1>6. SessionInv' /\ getter'.pc \notin Seeking
  BY <1>1, WhileAtWork, SessionsUntouched DEF JobsInv, LogSuccess, sessionVars
<1>7. RowsKept(q)'
  <2>1. RowsKept(q) /\ UNCHANGED lost
    BY <1>1, <1>2, WhileAtWork DEF LogSuccess
  <2>2. LastIsOpen(q)'
    BY <1>5 DEF LastIsOpen, At, Now
  <2> QED
    BY <1>4, <2>1, <2>2 DEF RowsKept
<1>8. WorkKept'
  BY <1>4, <1>5 DEF WorkKept, LastRow, Now
<1>9. OwnStatusUnlessLate'
  BY DEF JobsInv, OwnStatusUnlessLate, LogSuccess
<1>10. GoesOn(q)
  BY <1>1, <1>2, <1>4, <1>5, <1>6, <1>7, <1>8, <1>9, WhileAtWork
     DEF GoesOn, JobTypes, Storing, LogSuccess
<1> QED
  BY <1>6, <1>10, JobGoesOn

LEMMA StoreStatusKeeps == JobsInv /\ StoreStatus => JobsInv'
<1> SUFFICES ASSUME JobsInv, StoreStatus PROVE JobsInv'
  OBVIOUS
<1>1. worker.pc = "app" /\ worker.pc \in Storing \cup {"log", "failing"}
  BY DEF StoreStatus, At, Storing
<1>2. PICK q \in Passports : q = Now
  BY <1>1, WhileAtWork
<1>3. /\ worker.result \in Tellings /\ worker.result # Unset
      /\ worker.result \in AnswersTo(q) /\ slow \subseteq Passports
  BY <1>1, <1>2 DEF JobsInv, Heard, JobTypes, Storing, AnswersTo, Tellings
<1>4. /\ apps' \in [Passports -> App] /\ apps'[q].portal = worker.result
      /\ \A p \in Passports \ {q} : apps'[p] = apps[p]
  <2>1. apps \in [Passports -> App] /\ apps[q] \in App
    BY DEF JobsInv, JobTypes
  <2>2. [apps[q] EXCEPT !.portal = worker.result] \in App
        /\ [apps[q] EXCEPT !.portal = worker.result].portal = worker.result
    BY <1>3, <2>1 DEF App
  <2> QED
    BY <1>2, <2>1, <2>2 DEF StoreStatus
<1>5. /\ worker' \in Worker /\ worker'.pc = "compare" /\ worker'.job = q
      /\ worker'.heard = worker.heard /\ worker'.result = worker.result
  BY <1>1, <1>2, WhileAtWork, WorkerGoes DEF StoreStatus, Stages
<1>6. SessionInv' /\ getter'.pc \notin Seeking
  BY <1>1, WhileAtWork, SessionsUntouched DEF JobsInv, StoreStatus, sessionVars
<1>7. RowsKept(q)'
  <2>1. RowsKept(q) /\ UNCHANGED <<logs, lost>>
    BY <1>1, <1>2, WhileAtWork DEF StoreStatus
  <2>2. LastIsOpen(q)'
    BY <1>5 DEF LastIsOpen, At, Now
  <2> QED
    BY <2>1, <2>2 DEF RowsKept
<1>8. WorkKept'
  BY <1>1, <1>2, <1>4, <1>5, WhileAtWork
     DEF WorkKept, LastRow, Now, Storing, StoreStatus
<1>9. OwnStatusUnlessLate'
  BY <1>2, <1>3, <1>4 DEF JobsInv, OwnStatusUnlessLate, StoreStatus, AnswersTo
<1>10. GoesOn(q)
  BY <1>1, <1>2, <1>4, <1>5, <1>6, <1>7, <1>8, <1>9, WhileAtWork
     DEF GoesOn, JobTypes, Storing, StoreStatus
<1> QED
  BY <1>6, <1>10, JobGoesOn

\* The worker moves on within a job without a write.
LEMMA OnlyGoes ==
    ASSUME JobsInv, SessionInv', worker.pc \in Storing, NEW pc \in {"queue", "failing"},
           pc = "queue" => worker.pc = "compare", Goes(pc), getter' = getter,
           UNCHANGED <<apps, logs, job, ghosts, late, up, moves, slow, changed, lost>>
    PROVE  JobsInv'
<1>1. worker.pc \in Storing \cup {"log", "failing"}
  OBVIOUS
<1>2. PICK q \in Passports : q = Now
  BY <1>1, WhileAtWork
<1>3. /\ worker' \in Worker /\ worker'.pc = pc /\ worker'.job = q
      /\ worker'.heard = worker.heard /\ worker'.result = worker.result
  BY <1>1, <1>2, WhileAtWork, WorkerGoes DEF Stages
<1>4. RowsKept(q)'
  <2>1. RowsKept(q)
    BY <1>1, <1>2, WhileAtWork
  <2>2. LastIsOpen(q)'
    BY <1>3 DEF LastIsOpen, At, Now
  <2> QED
    BY <2>1, <2>2 DEF RowsKept
<1>5. WorkKept'
  BY <1>1, <1>2, <1>3, WhileAtWork DEF WorkKept, LastRow, Now, Storing, Fetching
<1>6. OwnStatusUnlessLate'
  BY DEF JobsInv, OwnStatusUnlessLate
<1>7. GoesOn(q)
  BY <1>1, <1>2, <1>3, <1>4, <1>5, <1>6, WhileAtWork DEF GoesOn, JobTypes, Storing
<1> QED
  BY <1>7, JobGoesOn

\* A job that is complete: its last row is a SUCCESS and its status is stored.
LEMMA CompletedEnds ==
    ASSUME JobsInv, SessionInv', worker.pc \in {"compare", "queue"}, Over(Now), getter' = getter,
           ghosts \subseteq ghosts', ghosts' \subseteq Passports,
           apps[Now].status = worker.result \/ Now \in ghosts',
           UNCHANGED <<apps, logs, late, up, moves, slow, changed, lost>>
    PROVE  JobsInv'
<1>1. worker.pc \in Storing \cup {"log", "failing"} /\ worker.pc \in Storing
  BY DEF Storing
<1>2. PICK q \in Passports : q = Now
  BY <1>1, WhileAtWork
<1>3. /\ worker' = NoWorker
      /\ job' \in [Passports -> QueueEntry] /\ job'[q].state = "completed"
      /\ \A p \in Passports \ {q} : job'[p] = job[p]
  BY <1>1, <1>2, WhileAtWork, Completed
<1>4. LastRow(q).status = "SUCCESS" /\ apps[q].portal = worker.result
  BY <1>1, <1>2, WhileAtWork DEF WorkKept
<1>5. worker.result # Unset
  BY <1>1 DEF JobsInv, Heard
<1>6. RowsKept(q)'
  <2>1. RowsKept(q)
    BY <1>1, <1>2, WhileAtWork
  <2>2. LastIsOpen(q)'
    BY <1>3 DEF LastIsOpen
  <2> QED
    BY <2>1, <2>2 DEF RowsKept
<1>7. SuccessKept(q)'
  BY <1>2, <1>4, <1>5 DEF SuccessKept, LastRow
<1>8. Ended(q)
  BY <1>1, <1>2, <1>3, <1>6, <1>7, WhileAtWork DEF Ended, JobTypes
<1> QED
  BY <1>8, JobEnds

LEMMA CompareKeeps == JobsInv /\ Compare => JobsInv'
<1> SUFFICES ASSUME JobsInv, Compare PROVE JobsInv'
  OBVIOUS
<1>1. worker.pc = "compare" /\ worker.pc \in Storing \cup {"log", "failing"}
      /\ worker.pc \in Storing
  BY DEF Compare, At, Storing
<1>2. SessionInv' /\ getter' = getter
  BY <1>1, WhileAtWork, SessionsUntouched DEF JobsInv, Compare, sessionVars
<1>3. CASE apps[Now].status = worker.result
  BY <1>1, <1>2, <1>3, CompletedEnds DEF Compare, JobsInv, JobTypes
<1>4. CASE apps[Now].status # worker.result
  BY <1>1, <1>2, <1>4, OnlyGoes DEF Compare
<1> QED
  BY <1>3, <1>4

LEMMA EnqueueKeeps == JobsInv /\ Enqueue => JobsInv'
<1> SUFFICES ASSUME JobsInv, Enqueue PROVE JobsInv'
  OBVIOUS
<1>1. worker.pc = "queue" /\ worker.pc \in Storing \cup {"log", "failing"}
  BY DEF Enqueue, At, Storing
<1>2. SessionInv' /\ getter' = getter
  BY <1>1, WhileAtWork, SessionsUntouched DEF JobsInv, Enqueue, sessionVars
<1>3. /\ ghosts \subseteq ghosts' /\ ghosts' \subseteq Passports /\ Now \in ghosts'
  BY <1>1, WhileAtWork DEF Enqueue, JobTypes
<1> QED
  BY <1>1, <1>2, <1>3, CompletedEnds DEF Enqueue

LEMMA CreateLogKeeps == JobsInv /\ CreateLog => JobsInv'
<1> SUFFICES ASSUME JobsInv, CreateLog PROVE JobsInv'
  OBVIOUS
<1>1. worker.pc = "log" /\ worker.pc \in Storing \cup {"log", "failing"}
  BY DEF CreateLog, At
<1>2. PICK q \in Passports : q = Now
  BY <1>1, WhileAtWork
<1>3. CASE /\ logs' = [logs EXCEPT ![Now] = Append(@, [status |-> "RUNNING", attempts |-> 1])]
           /\ worker' = [worker EXCEPT !.pc = "fetch", !.attempt = 1]
           /\ UNCHANGED <<sessionVars, job>>
  <2> DEFINE row == [status |-> "RUNNING", attempts |-> 1]
             next == Append(logs[q], row)
  <2>1. logs \in [Passports -> Seq(LogRow)] /\ logs[q] \in Seq(LogRow) /\ row \in LogRow
    BY <1>1, WhileAtWork DEF JobTypes, LogRow
  <2>2. /\ next \in Seq(LogRow) /\ next # <<>> /\ Len(next) = Len(logs[q]) + 1
        /\ Len(logs[q]) \in Nat
        /\ \A n \in 1 .. Len(logs[q]) : next[n] = logs[q][n]
    <3> HIDE DEF row
    <3> QED
      BY <2>1, AppendProperties
  <2>3. logs' = [logs EXCEPT ![q] = next]
    BY <1>2, <1>3
  <2> HIDE DEF next
  <2>4. /\ logs' \in [Passports -> Seq(LogRow)] /\ logs'[q] = next
        /\ \A p \in Passports \ {q} : logs'[p] = logs[p]
    BY <2>1, <2>2, <2>3
  <2>5. /\ worker' \in Worker /\ worker'.pc = "fetch" /\ worker'.job = q
        /\ worker'.heard = worker.heard /\ worker'.result = worker.result
    <3>1. worker \in Worker /\ 1 \in 0 .. Retries
      BY <1>1, WhileAtWork, JobsAssumption
    <3>2. worker' = [worker EXCEPT !.pc = "fetch", !.attempt = 1]
      BY <1>3
    <3> QED
      BY <1>2, <3>1, <3>2 DEF Worker, Stages, Now
  <2>6. SessionInv' /\ getter'.pc \notin Seeking
    BY <1>1, <1>3, WhileAtWork, SessionsUntouched DEF JobsInv, sessionVars
  <2>7. RowsKept(q)'
    <3>1. RowsKept(q) /\ UNCHANGED lost /\ ~LastIsOpen(q)
      BY <1>1, <1>2, WhileAtWork DEF CreateLog, LastIsOpen, At
    <3>2. \A n \in 1 .. Len(logs[q]) : logs[q][n].status = "FAILED" \/ <<q, n>> \in lost
      BY <3>1 DEF RowsKept
    <3>3. LastIsOpen(q)'
      BY <2>5 DEF LastIsOpen, At, Now
    <3>4. ASSUME NEW n \in 1 .. Len(next)
          PROVE  next[n].status = "FAILED" \/ <<q, n>> \in lost \/ n = Len(next)
      BY <2>2, <3>2
    <3> QED
      BY <2>4, <3>1, <3>3, <3>4 DEF RowsKept
  <2>8. WorkKept'
    BY <2>2, <2>4, <2>5 DEF WorkKept, Now
  <2>9. OwnStatusUnlessLate'
    BY DEF JobsInv, OwnStatusUnlessLate, CreateLog
  <2>10. GoesOn(q)
    BY <1>1, <1>2, <1>3, <2>4, <2>5, <2>6, <2>7, <2>8, <2>9, WhileAtWork
       DEF GoesOn, JobTypes, Storing, CreateLog
  <2> QED
    BY <2>6, <2>10, JobGoesOn
<1>4. CASE /\ Fault /\ Thrown(Now)
           /\ UNCHANGED <<contexts, current, keeper, keepers, cookies, valid, logins, tick,
                          getter, ticks, lapses, logs>>
  <2>1. SessionInv' /\ getter' = getter
    BY <1>1, <1>4, WhileAtWork, SessionsUntouched, SessionsAssumption DEF JobsInv, Fault
  <2>2. /\ worker' = NoWorker
        /\ job' \in [Passports -> QueueEntry] /\ job'[q].state \in {"waiting", "failed"}
        /\ job'[q].state = "waiting" => job'[q].attempts < MaxAttempts
        /\ \A p \in Passports \ {q} : job'[p] = job[p]
    BY <1>1, <1>2, <1>4, WhileAtWork, ThrownBack
  <2>3. RowsKept(q)'
    <3>1. RowsKept(q) /\ UNCHANGED <<logs, lost>> /\ ~LastIsOpen(q)
      BY <1>1, <1>2, <1>4, WhileAtWork DEF CreateLog, LastIsOpen, At
    <3> QED
      BY <3>1 DEF RowsKept
  <2>4. SuccessKept(q)'
    BY <2>2 DEF SuccessKept
  <2>5. Ended(q)
    BY <1>1, <1>2, <1>4, <2>1, <2>2, <2>3, <2>4, WhileAtWork
       DEF Ended, JobTypes, CreateLog
  <2> QED
    BY <2>1, <2>5, JobEnds
<1> QED
  BY <1>3, <1>4 DEF CreateLog

LEMMA CatchKeeps == JobsInv /\ Catch => JobsInv'
<1> SUFFICES ASSUME JobsInv, Catch PROVE JobsInv'
  OBVIOUS
<1> DEFINE row == [status |-> "FAILED", attempts |-> job[Now].attempts + 1]
<1>1. worker.pc = "failing" /\ worker.pc \in Storing \cup {"log", "failing"}
  BY DEF Catch, At
<1>2. PICK q \in Passports : q = Now
  BY <1>1, WhileAtWork
<1>3. row \in LogRow
  <2>1. job[Now] \in QueueEntry
    BY <1>1, WhileAtWork DEF JobTypes
  <2> QED
    BY <2>1, JobsAssumption DEF QueueEntry, LogRow
<1>4. /\ logs' \in [Passports -> Seq(LogRow)]
      /\ \A p \in Passports \ {q} : logs'[p] = logs[p]
      /\ Len(logs'[q]) = Len(logs[q]) /\ logs'[q] # <<>>
      /\ logs'[q][Len(logs'[q])].status = "FAILED"
      /\ \A n \in 1 .. Len(logs[q]) : n # Len(logs[q]) => logs'[q][n] = logs[q][n]
  BY <1>1, <1>2, <1>3, WhileAtWork, RowReplaced DEF Catch
<1>5. SessionInv' /\ getter' = getter
  BY <1>1, WhileAtWork, SessionsUntouched DEF JobsInv, Catch, sessionVars
<1>6. /\ worker' = NoWorker
      /\ job' \in [Passports -> QueueEntry] /\ job'[q].state \in {"waiting", "failed"}
      /\ job'[q].state = "waiting" => job'[q].attempts < MaxAttempts
      /\ \A p \in Passports \ {q} : job'[p] = job[p]
  BY <1>1, <1>2, WhileAtWork, ThrownBack DEF Catch
<1>7. RowsKept(q)'
  <2>1. RowsKept(q) /\ UNCHANGED lost
    BY <1>1, <1>2, WhileAtWork DEF Catch
  <2> QED
    BY <1>4, <2>1 DEF RowsKept
<1>8. SuccessKept(q)'
  BY <1>6 DEF SuccessKept
<1>9. Ended(q)
  BY <1>1, <1>2, <1>4, <1>5, <1>6, <1>7, <1>8, WhileAtWork DEF Ended, JobTypes, Catch
<1> QED
  BY <1>5, <1>9, JobEnds

LEMMA CallFailsKeeps == JobsInv /\ CallFails => JobsInv'
<1> SUFFICES ASSUME JobsInv, CallFails PROVE JobsInv'
  OBVIOUS
<1>1. worker.pc \in Storing \cup {"log", "failing"}
  BY DEF CallFails, Storing
<1>2. PICK q \in Passports : q = Now
  BY <1>1, WhileAtWork
<1>3. SessionInv' /\ getter' = getter
  BY <1>1, WhileAtWork, SessionsUntouched, SessionsAssumption DEF JobsInv, CallFails, Fault
<1>4. CASE ~At("failing")
  <2>1. worker.pc \in Storing
    BY <1>4 DEF CallFails, At, Storing
  <2> QED
    BY <1>3, <1>4, <2>1, OnlyGoes DEF CallFails
<1>5. CASE At("failing")
  <2>1. /\ worker' = NoWorker
        /\ job' \in [Passports -> QueueEntry] /\ job'[q].state \in {"waiting", "failed"}
        /\ job'[q].state = "waiting" => job'[q].attempts < MaxAttempts
        /\ \A p \in Passports \ {q} : job'[p] = job[p]
    BY <1>1, <1>2, <1>5, WhileAtWork, ThrownBack DEF CallFails
  <2>2. Len(logs[q]) \in Nat
    BY <1>1, WhileAtWork DEF JobTypes
  <2>3. lost' = lost \cup {<<q, Len(logs[q])>>}
    BY <1>2, <1>5 DEF CallFails, LastLog
  <2>4. RowsKept(q)'
    <3>1. RowsKept(q) /\ UNCHANGED logs
      BY <1>1, <1>2, WhileAtWork DEF CallFails
    <3> QED
      BY <2>3, <3>1 DEF RowsKept
  <2>5. SuccessKept(q)'
    BY <2>1 DEF SuccessKept
  <2>6. Ended(q)
    BY <1>1, <1>2, <1>3, <2>1, <2>2, <2>3, <2>4, <2>5, WhileAtWork
       DEF Ended, JobTypes, CallFails
  <2> QED
    BY <1>3, <2>6, JobEnds
<1> QED
  BY <1>4, <1>5

\* A step that leaves the jobs alone.
LEMMA JobsUntouched ==
    ASSUME JobsInv, SessionInv', getter'.pc \in Seeking => At("fetch"),
           up' \in {"running", "stopping", "down"}, late' \in {late, NoOne},
           UNCHANGED <<apps, logs, job, ghosts, worker, moves, slow, changed, lost>>
    PROVE  JobsInv'
<1> USE DEF JobsInv
<1>1. JobTypes'
  BY DEF JobTypes
<1>2. Working'
  BY DEF Working, At, Now
<1>3. Heard'
  BY DEF Heard, AnswersTo, Now
<1>4. OwnStatusUnlessLate'
  BY DEF OwnStatusUnlessLate
<1>5. LogKept'
  BY DEF LogKept, RowsKept, LastIsOpen, SuccessKept, WorkKept, LastRow, At, Now
<1> QED
  BY <1>1, <1>2, <1>3, <1>4, <1>5

LEMMA SessionStepKeeps == JobsInv /\ SessionStep => JobsInv'
<1> SUFFICES ASSUME JobsInv, SessionStep PROVE JobsInv'
  OBVIOUS
<1>1. SessionInv /\ UNCHANGED <<worker, late, jobVars>>
      /\ (getter.pc \in Seeking => At("fetch"))
      /\ up \in {"running", "stopping", "down"}
  BY DEF JobsInv, JobTypes, Working, SessionStep
<1>2. SessionInv'
  <2>1. GetSession => SessionInv'
    BY <1>1, LookUpKeeps, PingKeeps, ReadCookiesKeeps, RestoreKeeps, LogInKeeps, PersistKeeps
       DEF GetSession
  <2>2. TickPing(At("goto")) => SessionInv'
    BY <1>1, TickPingKeeps DEF At
  <2> QED
    BY <1>1, <2>1, <2>2, CloseKeeps, ForgetSessionKeeps, ForgetKeeps, TickKeeps, TickEndsKeeps,
       LapseKeeps DEF SessionStep
<1>3. getter.pc \notin Seeking => getter'.pc \notin Seeking
  <2>1. GetSession => getter.pc \in Seeking
    BY DEF GetSession, LookUp, Ping, ReadCookies, Restore, LogIn, Persist, Getting, Seeking
  <2>2. Close \/ ForgetSession \/ Forget => getter'.pc \notin Seeking
    BY DEF Close, ForgetSession, Forget, GetGoes, Seeking
  <2>3. Tick \/ TickPing(At("goto")) \/ TickEnds \/ Lapse => getter' = getter
    BY DEF Tick, TickPing, TickEnds, Lapse
  <2> QED
    BY <2>1, <2>2, <2>3 DEF SessionStep
<1> QED
  BY <1>1, <1>2, <1>3, JobsUntouched DEF jobVars

LEMMA StopKeeps == JobsInv /\ (Stop \/ Stopped \/ Start) => JobsInv'
<1> SUFFICES ASSUME JobsInv, Stop \/ Stopped \/ Start PROVE JobsInv'
  OBVIOUS
<1>1. SessionInv /\ faults \in 0 .. MaxFaults /\ (getter.pc \in Seeking => At("fetch"))
  BY DEF JobsInv, SessionInv, CounterTypes, Working
<1>2. CASE Stop
  <2>1. getter.pc \notin Seeking /\ ~Getting("persist")
    BY <1>1, <1>2 DEF Stop, At, Getting, Seeking
  <2>2. SessionInv'
    BY <1>1, <1>2, <2>1, GetterMoves DEF Stop, GetStages
  <2>3. getter'.pc \notin Seeking
    BY <1>2 DEF Stop, GetGoes, Seeking
  <2> QED
    BY <1>2, <2>2, <2>3, JobsUntouched DEF Stop
<1>3. CASE Stopped
  <2>1. SessionInv' /\ getter'.pc \notin Seeking
    BY <1>1, <1>3, CloseBrowserKeeps DEF Stopped, CloseBrowser, GetGoes, Seeking
  <2> QED
    BY <1>3, <2>1, JobsUntouched DEF Stopped
<1>4. CASE Start
  <2>1. SessionInv' /\ getter' = getter
    BY <1>1, <1>4, SessionsUntouched DEF Start, sessionVars
  <2> QED
    BY <1>1, <1>4, <2>1, JobsUntouched DEF Start
<1> QED
  BY <1>2, <1>3, <1>4

LEMMA CrashKeeps == JobsInv /\ Crash => JobsInv'
<1> SUFFICES ASSUME JobsInv, Crash PROVE JobsInv'
  OBVIOUS
<1>1. SessionInv'
  BY ProcessLostKeeps DEF JobsInv, Crash
<1>2. getter'.pc \notin Seeking /\ worker' = NoWorker
  BY DEF Crash, ProcessLost, NoGetter, Seeking
<1>3. JobTypes /\ worker \in Worker
  BY DEF JobsInv, JobTypes
<1>4. CASE Now = NoOne
  <2>1. job' = job /\ lost' = lost
    BY <1>3, <1>4, JobsAssumption DEF JobTypes, Crash
  <2>2. JobTypes'
    <3>1. NoWorker \in Worker
      BY JobsAssumption DEF NoWorker, Worker, Stages, Tellings
    <3> QED
      BY <1>2, <1>3, <2>1, <3>1 DEF JobTypes, Crash
  <2>3. worker'.pc = "idle" /\ worker'.job = NoOne /\ worker'.heard = NoOne /\ At("idle")
    BY <1>2, <1>4 DEF NoWorker, JobsInv, Working
  <2>4. Working'
    BY <1>2, <1>4, <2>1, <2>3 DEF JobsInv, Working, At, Now
  <2>5. Heard'
    BY <1>3, <2>3 DEF Heard, Fetching, Storing, Crash
  <2>6. OwnStatusUnlessLate'
    BY DEF JobsInv, OwnStatusUnlessLate, Crash
  <2>7. ASSUME NEW p \in Passports PROVE RowsKept(p)' /\ SuccessKept(p)'
    <3>1. RowsKept(p) /\ SuccessKept(p)
      BY DEF JobsInv, LogKept
    <3>2. RowsKept(p)'
      <4>1. LastIsOpen(p) => LastIsOpen(p)'
        BY <1>4, <2>1, JobsAssumption DEF LastIsOpen
      <4> QED
        BY <2>1, <3>1, <4>1 DEF RowsKept, Crash
    <3>3. SuccessKept(p)'
      BY <2>1, <3>1 DEF SuccessKept, LastRow, Crash
    <3> QED
      BY <3>2, <3>3
  <2>8. WorkKept'
    BY <2>3 DEF WorkKept, Fetching, Storing
  <2> QED
    BY <1>1, <2>2, <2>4, <2>5, <2>6, <2>7, <2>8 DEF JobsInv, LogKept
<1>5. CASE Now # NoOne
  <2>1. PICK q \in Passports : q = Now
    BY <1>3, <1>5 DEF Worker, Now
  <2>2. /\ job' \in [Passports -> QueueEntry]
        /\ job'[q].state = "waiting" /\ job'[q].attempts = job[q].attempts
        /\ \A p \in Passports \ {q} : job'[p] = job[p]
    <3>1. job \in [Passports -> QueueEntry] /\ job[q] \in QueueEntry
      BY <1>3 DEF JobTypes
    <3>2. /\ [job[q] EXCEPT !.state = "waiting"] \in QueueEntry
          /\ [job[q] EXCEPT !.state = "waiting"].state = "waiting"
          /\ [job[q] EXCEPT !.state = "waiting"].attempts = job[q].attempts
      BY <3>1 DEF QueueEntry, JobStates
    <3> DEFINE e == [job[q] EXCEPT !.state = "waiting"]
    <3>3. job' = [p \in Passports |-> IF p = q THEN e ELSE job[p]]
      BY <2>1 DEF Crash
    <3> HIDE DEF e
    <3> QED
      BY <3>1, <3>2, <3>3 DEF e
  <2>3. job[q].attempts < MaxAttempts
    BY <2>1 DEF JobsInv, Working
  <2>4. Len(logs[q]) \in Nat
    BY <1>3 DEF JobTypes
  <2>5. lost' = IF At("log") THEN lost ELSE lost \cup {<<q, Len(logs[q])>>}
    BY <1>5, <2>1 DEF Crash, LastLog
  <2>6. RowsKept(q)'
    <3>1. RowsKept(q) /\ UNCHANGED logs
      BY DEF JobsInv, LogKept, Crash
    <3>2. LastIsOpen(q) => ~At("log")
      BY <2>1 DEF LastIsOpen, JobsInv, Working
    <3>3. CASE At("log")
      BY <2>5, <3>1, <3>2, <3>3 DEF RowsKept
    <3>4. CASE ~At("log")
      BY <2>5, <3>1, <3>4 DEF RowsKept
    <3> QED
      BY <3>3, <3>4
  <2>7. SuccessKept(q)'
    BY <2>2 DEF SuccessKept
  <2>8. Ended(q)
    BY <1>2, <1>3, <2>1, <2>2, <2>3, <2>4, <2>5, <2>6, <2>7 DEF Ended, JobTypes, Crash
  <2> QED
    BY <1>1, <2>8, JobEnds
<1> QED
  BY <1>4, <1>5

LEMMA ChangeStatusKeeps ==
    \A q \in Passports, status \in Statuses : JobsInv /\ ChangeStatus(q, status) => JobsInv'
<1> SUFFICES ASSUME NEW q \in Passports, NEW status \in Statuses, JobsInv,
                    ChangeStatus(q, status)
             PROVE  JobsInv'
  OBVIOUS
<1>1. /\ apps' \in [Passports -> App] /\ \A p \in Passports : apps'[p].portal = apps[p].portal
      /\ \A p \in Passports \ {q} : apps'[p] = apps[p]
  <2>1. apps \in [Passports -> App] /\ apps[q] \in App
    BY DEF JobsInv, JobTypes
  <2>2. [apps[q] EXCEPT !.status = status] \in App
        /\ [apps[q] EXCEPT !.status = status].portal = apps[q].portal
    BY <2>1 DEF App
  <2> QED
    BY <2>1, <2>2 DEF ChangeStatus
<1>2. SessionInv'
  BY SessionsUntouched DEF JobsInv, ChangeStatus, sessionVars, SessionInv, CounterTypes
<1>3. JobTypes'
  BY <1>1, JobsAssumption DEF JobsInv, JobTypes, ChangeStatus
<1>4. Working' /\ Heard'
  BY DEF JobsInv, Working, Heard, AnswersTo, ChangeStatus, At, Now, sessionVars
<1>5. OwnStatusUnlessLate'
  BY <1>1 DEF JobsInv, OwnStatusUnlessLate, ChangeStatus
<1>6. ASSUME NEW p \in Passports PROVE RowsKept(p)' /\ SuccessKept(p)'
  <2>1. RowsKept(p) /\ SuccessKept(p)
    BY DEF JobsInv, LogKept
  <2>2. RowsKept(p)'
    BY <2>1 DEF RowsKept, LastIsOpen, ChangeStatus, At, Now
  <2>3. SuccessKept(p)'
    BY <1>1, <2>1 DEF SuccessKept, LastRow, ChangeStatus
  <2> QED
    BY <2>2, <2>3
<1>7. WorkKept'
  <2>1. WorkKept
    BY DEF JobsInv, LogKept
  <2>2. worker.pc \in {"compare", "queue"} => Now \in Passports
    BY DEF JobsInv, Working, JobTypes, Worker, At, Now
  <2> QED
    BY <1>1, <2>1, <2>2 DEF WorkKept, LastRow, ChangeStatus, Now
<1> QED
  BY <1>2, <1>3, <1>4, <1>5, <1>6, <1>7 DEF JobsInv, LogKept

LEMMA JobsMove == JobsInv /\ [Next]_vars => JobsInv'
<1> SUFFICES ASSUME JobsInv, [Next]_vars PROVE JobsInv'
  OBVIOUS
<1>1. Process => JobsInv'
  BY CreateLogKeeps, AskSessionKeeps, HaveSessionKeeps, NavigateKeeps, SearchKeeps, ReadKeeps,
     LogSuccessKeeps, StoreStatusKeeps, CompareKeeps, EnqueueKeeps, CatchKeeps DEF Process
<1>2. UNCHANGED vars => JobsInv'
  <2>1. ASSUME UNCHANGED vars PROVE JobsInv'
    <3>1. /\ SessionInv'
      BY <2>1, SessionsUntouched DEF vars, sessionVars, JobsInv, SessionInv, CounterTypes
    <3>2. getter' = getter /\ (getter.pc \in Seeking => At("fetch"))
          /\ up \in {"running", "stopping", "down"}
      BY <2>1 DEF vars, sessionVars, JobsInv, Working, JobTypes
    <3> QED
      BY <2>1, <3>1, <3>2, JobsUntouched DEF vars
  <2> QED
    BY <2>1
<1> QED
  BY <1>1, <1>2, TakeJobKeeps, CallFailsKeeps, SessionStepKeeps, StopKeeps, CrashKeeps,
     ChangeStatusKeeps DEF Next

-----------------------------------------------------------------------------
(***************************************************************************)
(* The public inquiry.  What a call holds is kept step by step: a reading  *)
(* is of a page of its number, or the number is misled; and unless two     *)
(* calls raced, the only open browser is the one of the field.             *)
(***************************************************************************)
ReadTexts == {Readings[page] : page \in Pages} \cup {Unread, "NOT_FOUND"}
Results == ReadTexts \cup {"FETCH_FAILED"}
CallRecord(last) ==
    [pc : CallStages, outer : BOOLEAN, n : Nat, attempt : 1 .. GRetries, page : 0 .. last,
     mine : 0 .. last, seen : ReadTexts, results : Seq(Results)]

\* What is said of the k-th number of c is read from a page of it, or it is misled.
OwnReading(c, k, what, told) ==
    \/ what \in {Readings[page] : page \in Shown[Asked[c][k]]}
    \/ Asked[c][k] \in told

\* The record of c is sound with so many browsers and these numbers misled.
CallKept(c, r, last, told) ==
    /\ r \in CallRecord(last)
    /\ r.n \in 1 .. Len(Asked[c]) + 1
    /\ r.pc # "over" => r.n <= Len(Asked[c])
    /\ Len(r.results) = r.n - 1
    /\ r.page # 0 => r.pc \in {"search", "extract", "leave"}
    /\ r.seen # Unread => r.pc \in {"extract", "leave"} /\ OwnReading(c, r.n, r.seen, told)
    /\ \A k \in 1 .. Len(r.results) :
          OwnReading(c, k, r.results[k], told) \/ r.results[k] = "FETCH_FAILED"

FieldTypes ==
    /\ launches \in Nat /\ opened \subseteq 1 .. launches
    /\ browser \in 0 .. launches /\ context \in 0 .. launches
    /\ closer \in {"none", "closing", "over"}
    /\ breaks \in 0 .. MaxBreaks
    /\ raced \in BOOLEAN

CallsKept ==
    /\ call \in [Callers -> CallRecord(launches)]
    /\ \A c \in Callers : CallKept(c, call[c], launches, misled)

OneBrowser ==
    raced \/ /\ opened \subseteq {browser}
             /\ \A c \in Callers : CallAt(c, "launch") => browser = 0
             /\ \A c, d \in Callers : CallAt(c, "launch") /\ CallAt(d, "launch") => c = d
             /\ closer = "closing" => opened = {} /\ browser # 0

InquiryInv == FieldTypes /\ CallsKept /\ OneBrowser

LEMMA InquiryImplies == InquiryInv => GDRFATypeOK /\ FetcherTidy /\ ReadFromOwnPage
<1> SUFFICES ASSUME InquiryInv PROVE GDRFATypeOK /\ FetcherTidy /\ ReadFromOwnPage
  OBVIOUS
<1>1. ASSUME NEW c \in Callers
      PROVE  /\ call[c].pc \in CallStages /\ call[c].attempt \in 1 .. GRetries
             /\ {call[c].page, call[c].mine} \subseteq 0 .. launches
             /\ call[c].n \in 1 .. Len(Asked[c]) + 1
             /\ Len(call[c].results) = call[c].n - 1
             /\ call[c].page # 0 => call[c].pc \in {"search", "extract", "leave"}
  <2>1. CallKept(c, call[c], launches, misled)
    BY DEF InquiryInv, CallsKept
  <2> QED
    BY <2>1 DEF CallKept, CallRecord
<1>2. GDRFATypeOK
  BY <1>1 DEF GDRFATypeOK, InquiryInv, FieldTypes
<1>3. FetcherTidy
  BY <1>1 DEF FetcherTidy, InquiryInv, OneBrowser
<1>4. ASSUME NEW c \in Callers, NEW n \in DOMAIN call[c].results
      PROVE  \/ call[c].results[n] \in {Readings[page] : page \in Shown[Asked[c][n]]}
             \/ call[c].results[n] = "FETCH_FAILED"
             \/ Asked[c][n] \in misled
  <2>1. CallKept(c, call[c], launches, misled)
    BY DEF InquiryInv, CallsKept
  <2>2. call[c].results \in Seq(Results)
    BY <2>1 DEF CallKept, CallRecord
  <2>3. n \in 1 .. Len(call[c].results)
    BY <2>2, LenProperties
  <2> QED
    BY <2>1, <2>3 DEF CallKept, OwnReading
<1>5. ReadFromOwnPage
  BY <1>4 DEF ReadFromOwnPage
<1> QED
  BY <1>2, <1>3, <1>5

LEMMA InquiryStarts == GDRFAInit => InquiryInv
<1> SUFFICES ASSUME GDRFAInit PROVE InquiryInv
  OBVIOUS
<1>1. FieldTypes /\ OneBrowser
  <2>1. raced \in BOOLEAN /\ \A c \in Callers : ~CallAt(c, "launch")
    BY DEF GDRFAInit, CallAt, NoCall
  <2> QED
    BY <2>1, GDRFAAssumption DEF GDRFAInit, FieldTypes, OneBrowser
<1>2. NoCall \in CallRecord(0) /\ NoCall.n = 1 /\ NoCall.pc = "none" /\ NoCall.page = 0
      /\ NoCall.seen = Unread /\ NoCall.results = <<>>
  BY GDRFAAssumption DEF NoCall, CallRecord, CallStages, ReadTexts
<1>3. ASSUME NEW c \in Callers PROVE CallKept(c, NoCall, 0, {})
  <2>1. Len(Asked[c]) \in Nat \ {0}
    BY GDRFAAssumption
  <2> QED
    BY <1>2, <2>1 DEF CallKept
<1> QED
  BY <1>1, <1>2, <1>3 DEF GDRFAInit, InquiryInv, CallsKept

\* What a call holds stays sound while browsers are launched and numbers misled.
LEMMA StaysKept ==
    ASSUME NEW c \in Callers, NEW r, NEW last \in Nat, NEW next \in Nat, last <= next,
           NEW told, NEW more, told \subseteq more, CallKept(c, r, last, told)
    PROVE  CallKept(c, r, next, more)
<1>1. r \in CallRecord(next)
  BY DEF CallKept, CallRecord
<1> QED
  BY <1>1 DEF CallKept, OwnReading

\* A step of one call.
LEMMA CallMoves ==
    ASSUME CallsKept, launches \in Nat, NEW c \in Callers, NEW r, Becomes(c, r),
           launches' \in Nat, launches <= launches', misled \subseteq misled',
           CallKept(c, r, launches', misled')
    PROVE  /\ CallsKept' /\ call'[c] = r
           /\ \A d \in Callers \ {c} : call'[d] = call[d]
<1>1. /\ call'[c] = r /\ \A d \in Callers \ {c} : call'[d] = call[d]
      /\ call' = [d \in Callers |-> IF d = c THEN r ELSE call[d]]
  BY DEF CallsKept, Becomes
<1>2. ASSUME NEW d \in Callers PROVE CallKept(d, call'[d], launches', misled')
  <2>1. CallKept(d, call[d], launches', misled')
    BY StaysKept DEF CallsKept
  <2> QED
    BY <1>1, <2>1
<1>3. call' \in [Callers -> CallRecord(launches)']
  <2>1. ASSUME NEW d \in Callers PROVE call'[d] \in CallRecord(launches')
    BY <1>2 DEF CallKept
  <2> QED
    BY <1>1, <2>1 DEF CallRecord
<1> QED
  BY <1>1, <1>2, <1>3 DEF CallsKept

\* A result is added and the call goes on with the next number, if there is one.
LEMMA WithKept ==
    ASSUME NEW c \in Callers, NEW r, NEW last \in Nat, NEW told,
           CallKept(c, r, last, told), r.page = 0, r.n <= Len(Asked[c]),
           NEW what \in Results, OwnReading(c, r.n, what, told) \/ what = "FETCH_FAILED"
    PROVE  CallKept(c, With(r, c, what), last, told) /\ With(r, c, what).pc \in {"init", "over"}
<1> DEFINE w == With(r, c, what)
           more == Append(r.results, what)
<1>1. /\ r \in CallRecord(last) /\ r.n \in Nat /\ Len(r.results) = r.n - 1
      /\ r.results \in Seq(Results)
  BY DEF CallKept, CallRecord
<1>2. Len(Asked[c]) \in Nat
  BY GDRFAAssumption
<1>3. /\ more \in Seq(Results) /\ Len(more) = r.n
      /\ \A k \in 1 .. Len(r.results) : more[k] = r.results[k]
      /\ more[r.n] = what
  BY <1>1, AppendProperties
<1> HIDE DEF more
<1> DEFINE pc == IF r.n < Len(Asked[c]) THEN "init" ELSE "over"
<1>4. w = [r EXCEPT !.results = more, !.n = r.n + 1, !.attempt = 1, !.seen = Unread, !.pc = pc]
  BY DEF With, more
<1>5. /\ pc \in {"init", "over"} /\ pc \in CallStages
      /\ pc # "over" => r.n + 1 <= Len(Asked[c])
      /\ r.n + 1 \in Nat /\ r.n + 1 \in 1 .. Len(Asked[c]) + 1
      /\ Unread \in ReadTexts /\ 1 \in 1 .. GRetries
  BY <1>1, <1>2, GDRFAAssumption DEF CallStages, ReadTexts
<1> HIDE DEF pc
<1>6. /\ w.results = more /\ w.n = r.n + 1 /\ w.seen = Unread /\ w.page = 0
      /\ w.pc = pc /\ w \in CallRecord(last)
  BY <1>1, <1>3, <1>4, <1>5 DEF CallRecord
<1> HIDE DEF w
<1>7. ASSUME NEW k \in 1 .. Len(w.results)
      PROVE  OwnReading(c, k, w.results[k], told) \/ w.results[k] = "FETCH_FAILED"
  <2>1. CASE k = r.n
    BY <1>3, <1>6, <2>1
  <2>2. CASE k # r.n
    <3>1. k \in 1 .. Len(r.results) /\ w.results[k] = r.results[k]
      BY <1>1, <1>3, <1>6, <2>2, SMTT(30)
    <3> QED
      BY <3>1 DEF CallKept
  <2> QED
    BY <2>1, <2>2
<1>8. CallKept(c, w, last, told) /\ w.pc \in {"init", "over"}
  BY <1>1, <1>3, <1>5, <1>6, <1>7 DEF CallKept
<1> QED
  BY <1>8 DEF w

\* An attempt that fails is made again, or its number has failed.
LEMMA FailedKept ==
    ASSUME NEW c \in Callers, NEW r, NEW last \in Nat, NEW told,
           CallKept(c, r, last, told), r.page = 0, r.n <= Len(Asked[c])
    PROVE  CallKept(c, Failed(r, c), last, told) /\ Failed(r, c).pc \in {"init", "over"}
<1>1. CASE r.attempt < GRetries
  <2> DEFINE w == [r EXCEPT !.attempt = r.attempt + 1, !.pc = "init", !.seen = Unread]
  <2>1. Failed(r, c) = w
    BY <1>1 DEF Failed
  <2>2. r \in CallRecord(last) /\ r.attempt + 1 \in 1 .. GRetries
    BY <1>1, GDRFAAssumption DEF CallKept, CallRecord
  <2>3. /\ w \in CallRecord(last) /\ w.pc = "init" /\ w.seen = Unread /\ w.page = 0
        /\ w.n = r.n /\ w.results = r.results
    BY <2>2 DEF CallRecord, CallStages, ReadTexts
  <2> HIDE DEF w
  <2>4. CallKept(c, w, last, told)
    BY <2>3 DEF CallKept
  <2> QED
    BY <2>1, <2>3, <2>4
<1>2. CASE ~(r.attempt < GRetries)
  <2>1. Failed(r, c) = With(r, c, "FETCH_FAILED")
    BY <1>2 DEF Failed
  <2>2. "FETCH_FAILED" \in Results
    BY DEF Results
  <2> QED
    BY <2>1, <2>2, WithKept
<1> QED
  BY <1>1, <1>2

\* A call moves on: its number, results and page stay, nothing is read anew.
LEMMA StageKept ==
    ASSUME NEW c \in Callers, NEW r, NEW w, NEW last \in Nat, NEW told,
           CallKept(c, r, last, told), r.pc # "over", w \in CallRecord(last),
           w.n = r.n, w.results = r.results, w.pc # "over",
           w.page # 0 => w.pc \in {"search", "extract", "leave"},
           w.seen # Unread => w.pc \in {"extract", "leave"} /\ OwnReading(c, r.n, w.seen, told)
    PROVE  CallKept(c, w, last, told)
BY DEF CallKept

\* The state of a call that is under way.
LEMMA UnderWay ==
    ASSUME InquiryInv, NEW c \in Callers, call[c].pc # "over"
    PROVE  /\ CallKept(c, call[c], launches, misled) /\ launches \in Nat
           /\ call[c] \in CallRecord(launches)
           /\ call[c].n \in Nat /\ call[c].n <= Len(Asked[c])
           /\ call[c].seen # Unread => call[c].pc \in {"extract", "leave"}
           /\ call[c].page # 0 => call[c].pc \in {"search", "extract", "leave"}
<1>1. CallKept(c, call[c], launches, misled) /\ launches \in Nat
  BY DEF InquiryInv, CallsKept, FieldTypes
<1>2. call[c] \in CallRecord(launches)
  BY <1>1 DEF CallKept
<1> QED
  BY <1>1, <1>2 DEF CallKept, CallRecord

\* An error before the page.
LEMMA FailsKept ==
    ASSUME InquiryInv, NEW c \in Callers, call[c].pc # "over", Fails(c),
           call[c].page = 0, call[c].seen = Unread, launches' = launches, misled' = misled
    PROVE  /\ CallsKept' /\ call'[c].pc \in {"init", "over", "thrown"}
           /\ \A d \in Callers \ {c} : call'[d] = call[d]
<1> DEFINE r == [call[c] EXCEPT !.mine = 0]
           w == [call[c] EXCEPT !.pc = "thrown"]
<1>1. /\ CallKept(c, call[c], launches, misled) /\ launches \in Nat
      /\ call[c] \in CallRecord(launches) /\ call[c].n <= Len(Asked[c])
  BY UnderWay
<1>2. CallsKept
  BY DEF InquiryInv
<1>3. CASE call[c].outer
  <2>1. Becomes(c, w)
    BY <1>3 DEF Fails
  <2>2. /\ w \in CallRecord(launches) /\ w.pc = "thrown" /\ w.page = 0 /\ w.seen = Unread
        /\ w.n = call[c].n /\ w.results = call[c].results
    BY <1>1 DEF CallRecord, CallStages
  <2> HIDE DEF w
  <2>3. CallKept(c, w, launches, misled)
    BY <1>1, <2>2, StageKept
  <2> QED
    BY <1>1, <1>2, <2>1, <2>2, <2>3, CallMoves
<1>4. CASE ~call[c].outer
  <2>1. Becomes(c, Failed(r, c))
    BY <1>4 DEF Fails
  <2>2. /\ r \in CallRecord(launches) /\ r.pc = call[c].pc /\ r.page = 0 /\ r.seen = Unread
        /\ r.n = call[c].n /\ r.results = call[c].results
    BY <1>1 DEF CallRecord
  <2> HIDE DEF r
  <2>3. CallKept(c, r, launches, misled)
    BY <1>1, <2>2, StageKept
  <2>4. CallKept(c, Failed(r, c), launches, misled) /\ Failed(r, c).pc \in {"init", "over"}
    BY <1>1, <2>2, <2>3, FailedKept
  <2> QED
    BY <1>1, <1>2, <2>1, <2>4, CallMoves
<1> QED
  BY <1>3, <1>4

\* A call moves on; what it reads may mislead its number.
LEMMA StageMoves ==
    ASSUME InquiryInv, NEW c \in Callers, call[c].pc # "over", NEW w, Becomes(c, w),
           w \in CallRecord(launches), w.n = call[c].n, w.results = call[c].results,
           w.pc # "over", w.page # 0 => w.pc \in {"search", "extract", "leave"},
           launches' = launches, misled \subseteq misled',
           w.seen # Unread => /\ w.pc \in {"extract", "leave"}
                              /\ OwnReading(c, call[c].n, w.seen, misled')
    PROVE  /\ CallsKept' /\ call'[c] = w
           /\ \A d \in Callers \ {c} : call'[d] = call[d]
<1>1. CallKept(c, call[c], launches, misled) /\ launches \in Nat /\ CallsKept
  BY UnderWay DEF InquiryInv
<1>2. CallKept(c, call[c], launches, misled')
  BY <1>1, StaysKept
<1>3. CallKept(c, w, launches, misled')
  BY <1>1, <1>2, StageKept
<1> QED
  BY <1>1, <1>3, CallMoves

\* Unless it launches a browser, the step of a call leaves the browsers alone.
LEMMA CallStepKeeps ==
    ASSUME InquiryInv, CallsKept', NEW c \in Callers, call'[c].pc # "launch",
           \A d \in Callers \ {c} : call'[d] = call[d],
           breaks' \in 0 .. MaxBreaks, context' \in 0 .. launches,
           UNCHANGED <<browser, opened, launches, closer, raced>>
    PROVE  InquiryInv'
<1>1. FieldTypes'
  BY DEF InquiryInv, FieldTypes
<1>2. OneBrowser'
  BY DEF InquiryInv, OneBrowser, CallAt
<1> QED
  BY <1>1, <1>2 DEF InquiryInv

LEMMA BreakBounded ==
    InquiryInv => breaks \in 0 .. MaxBreaks /\ (Break => breaks' \in 0 .. MaxBreaks)
BY GDRFAAssumption DEF InquiryInv, FieldTypes, Break

LEMMA CallKeeps == \A c \in Callers : InquiryInv /\ Call(c) => InquiryInv'
<1> SUFFICES ASSUME NEW c \in Callers, InquiryInv, Call(c) PROVE InquiryInv'
  OBVIOUS
<1> DEFINE w == [NoCall EXCEPT !.pc = "init", !.outer = Batch(c)]
<1>1. launches \in Nat /\ context \in 0 .. launches /\ CallsKept
  BY DEF InquiryInv, FieldTypes
<1>2. Len(Asked[c]) \in Nat \ {0} /\ Batch(c) \in BOOLEAN
  BY GDRFAAssumption DEF Batch
<1>3. /\ w \in CallRecord(launches) /\ w.n = 1 /\ w.pc = "init" /\ w.page = 0
      /\ w.seen = Unread /\ w.results = <<>>
  <2>1. /\ NoCall \in CallRecord(launches) /\ NoCall.n = 1 /\ NoCall.page = 0
        /\ NoCall.seen = Unread /\ NoCall.results = <<>>
    BY <1>1, GDRFAAssumption DEF NoCall, CallRecord, CallStages, ReadTexts
  <2> QED
    BY <1>2, <2>1 DEF CallRecord, CallStages
<1>4. Becomes(c, w)
  BY DEF Call
<1> HIDE DEF w
<1>5. CallKept(c, w, launches, misled)
  BY <1>2, <1>3 DEF CallKept
<1>6. launches' = launches /\ misled' = misled
  BY DEF Call, fields
<1>7. CallsKept' /\ call'[c] = w /\ \A d \in Callers \ {c} : call'[d] = call[d]
  BY <1>1, <1>4, <1>5, <1>6, CallMoves
<1> QED
  BY <1>1, <1>3, <1>7, CallStepKeeps, BreakBounded DEF Call, fields

\* A call has its browser, or finds that there is one.
LEMMA InitializedMoves ==
    ASSUME InquiryInv, NEW c \in Callers, call[c].pc \in {"init", "context"},
           Becomes(c, Initialized(c)), launches' = launches, misled' = misled
    PROVE  /\ CallsKept' /\ call'[c].pc # "launch"
           /\ \A d \in Callers \ {c} : call'[d] = call[d]
<1> DEFINE w == Initialized(c)
           pc == IF call[c].outer THEN "init" ELSE "page"
<1>1. /\ call[c] \in CallRecord(launches) /\ call[c].page = 0 /\ call[c].seen = Unread
      /\ launches \in Nat
  BY UnderWay
<1>2. pc \in {"init", "page"} /\ pc \in CallStages
  BY DEF CallStages
<1> HIDE DEF pc
<1>3. w = [call[c] EXCEPT !.pc = pc, !.outer = FALSE, !.mine = 0]
  BY DEF Initialized, pc
<1>4. /\ w \in CallRecord(launches) /\ w.pc = pc /\ w.n = call[c].n
      /\ w.results = call[c].results /\ w.page = 0 /\ w.seen = Unread
  BY <1>1, <1>2, <1>3 DEF CallRecord
<1> HIDE DEF w
<1>5. CallsKept' /\ call'[c] = w /\ \A d \in Callers \ {c} : call'[d] = call[d]
  BY <1>2, <1>4, StageMoves DEF w
<1> QED
  BY <1>2, <1>4, <1>5

LEMMA InitializeKeeps == \A c \in Callers : InquiryInv /\ Initialize(c) => InquiryInv'
<1> SUFFICES ASSUME NEW c \in Callers, InquiryInv, Initialize(c) PROVE InquiryInv'
  OBVIOUS
<1>1. call[c].pc = "init"
      /\ UNCHANGED <<browser, context, opened, launches, closer, breaks, misled>>
  BY DEF Initialize, CallAt, fields
<1>2. /\ call[c] \in CallRecord(launches) /\ call[c].page = 0 /\ call[c].seen = Unread
  BY <1>1, UnderWay
<1>3. FieldTypes /\ OneBrowser /\ context \in 0 .. launches
  BY DEF InquiryInv, FieldTypes
<1>4. CASE browser # 0 /\ Becomes(c, Initialized(c)) /\ raced' = raced
  <2>1. /\ CallsKept' /\ call'[c].pc # "launch"
        /\ \A d \in Callers \ {c} : call'[d] = call[d]
    BY <1>1, <1>4, InitializedMoves
  <2> QED
    BY <1>1, <1>3, <1>4, <2>1, CallStepKeeps, BreakBounded
<1>5. CASE browser = 0 /\ Leads(c, "launch") /\ raced' = (raced \/ Launching # {})
  <2> DEFINE w == [call[c] EXCEPT !.pc = "launch"]
  <2>1. /\ w \in CallRecord(launches) /\ w.pc = "launch" /\ w.n = call[c].n
        /\ w.results = call[c].results /\ w.page = 0 /\ w.seen = Unread
    BY <1>2 DEF CallRecord, CallStages
  <2>2. Becomes(c, w)
    BY <1>5 DEF Leads
  <2> HIDE DEF w
  <2>3. CallsKept' /\ call'[c] = w /\ \A d \in Callers \ {c} : call'[d] = call[d]
    BY <1>1, <2>1, <2>2, StageMoves
  <2>4. FieldTypes'
    <3>1. raced' \in BOOLEAN
      BY <1>5
    <3> QED
      BY <1>1, <1>3, <3>1 DEF FieldTypes
  <2>5. OneBrowser'
    <3> SUFFICES ASSUME ~raced' PROVE OneBrowser'
      BY DEF OneBrowser
    <3>1. ~raced /\ Launching = {}
      BY <1>5
    <3>2. \A d \in Callers : ~CallAt(d, "launch")
      BY <3>1 DEF Launching
    <3>3. \A d \in Callers : CallAt(d, "launch")' => d = c
      BY <2>3, <3>2 DEF CallAt
    <3> QED
      BY <1>1, <1>3, <1>5, <3>1, <3>3 DEF OneBrowser
  <2> QED
    BY <2>3, <2>4, <2>5 DEF InquiryInv
<1> QED
  BY <1>4, <1>5 DEF Initialize

LEMMA LaunchKeeps == \A c \in Callers : InquiryInv /\ Launch(c) => InquiryInv'
<1> SUFFICES ASSUME NEW c \in Callers, InquiryInv, Launch(c) PROVE InquiryInv'
  OBVIOUS
<1> DEFINE w == [call[c] EXCEPT !.pc = "context", !.mine = launches + 1]
<1>1. call[c].pc = "launch" /\ launches' = launches + 1 /\ misled' = misled /\ Becomes(c, w)
  BY DEF Launch, CallAt
<1>2. /\ call[c] \in CallRecord(launches) /\ call[c].page = 0 /\ call[c].seen = Unread
      /\ launches \in Nat /\ CallKept(c, call[c], launches, misled)
  BY <1>1, UnderWay
<1>3. FieldTypes /\ OneBrowser /\ CallsKept
  BY DEF InquiryInv
<1>4. /\ w \in CallRecord(launches + 1) /\ w.pc = "context" /\ w.n = call[c].n
      /\ w.results = call[c].results /\ w.page = 0 /\ w.seen = Unread
  <2>1. call[c] \in CallRecord(launches + 1) /\ launches + 1 \in 0 .. launches + 1
    BY <1>2 DEF CallRecord
  <2> QED
    BY <1>2, <2>1 DEF CallRecord, CallStages
<1> HIDE DEF w
<1>5. CallKept(c, w, launches', misled')
  <2>1. launches + 1 \in Nat /\ launches <= launches + 1
    BY <1>2
  <2>2. CallKept(c, call[c], launches + 1, misled)
    BY <1>2, <2>1, StaysKept
  <2> QED
    BY <1>1, <1>4, <2>1, <2>2, StageKept
<1>6. CallsKept' /\ call'[c] = w /\ \A d \in Callers \ {c} : call'[d] = call[d]
  BY <1>1, <1>2, <1>3, <1>5, CallMoves
<1>7. FieldTypes'
  BY <1>3 DEF FieldTypes, Launch
<1>8. OneBrowser'
  <2> SUFFICES ASSUME ~raced' PROVE OneBrowser'
    BY DEF OneBrowser
  <2>1. /\ ~raced /\ browser = 0 /\ opened = {} /\ closer # "closing"
        /\ \A d \in Callers : CallAt(d, "launch") => d = c
    BY <1>1, <1>3 DEF OneBrowser, FieldTypes, Launch, CallAt
  <2>2. \A d \in Callers : ~CallAt(d, "launch")'
    BY <1>4, <1>6, <2>1 DEF CallAt
  <2> QED
    BY <2>1, <2>2 DEF OneBrowser, Launch
<1> QED
  BY <1>6, <1>7, <1>8 DEF InquiryInv

LEMMA LaunchFailsKeeps == \A c \in Callers : InquiryInv /\ LaunchFails(c) => InquiryInv'
<1> SUFFICES ASSUME NEW c \in Callers, InquiryInv, LaunchFails(c) PROVE InquiryInv'
  OBVIOUS
<1>1. /\ call[c].pc \in {"launch", "context"} /\ Fails(c) /\ Break
      /\ UNCHANGED <<browser, context, opened, launches, closer, raced, misled>>
  BY DEF LaunchFails, fields
<1>2. /\ CallsKept' /\ call'[c].pc \in {"init", "over", "thrown"}
      /\ \A d \in Callers \ {c} : call'[d] = call[d]
  BY <1>1, UnderWay, FailsKept
<1>3. context \in 0 .. launches
  BY DEF InquiryInv, FieldTypes
<1> QED
  BY <1>1, <1>2, <1>3, CallStepKeeps, BreakBounded

LEMMA NewContextKeeps == \A c \in Callers : InquiryInv /\ NewContext(c) => InquiryInv'
<1> SUFFICES ASSUME NEW c \in Callers, InquiryInv, NewContext(c) PROVE InquiryInv'
  OBVIOUS
<1>1. /\ call[c].pc = "context"
      /\ UNCHANGED <<browser, opened, launches, closer, breaks, raced, misled>>
  BY DEF NewContext, CallAt
<1>2. context \in 0 .. launches /\ opened \subseteq 0 .. launches
      /\ context' \in opened \cup {context}
  BY DEF InquiryInv, FieldTypes, NewContext
<1>3. /\ CallsKept' /\ call'[c].pc # "launch"
      /\ \A d \in Callers \ {c} : call'[d] = call[d]
  <2>1. CASE Becomes(c, Initialized(c))
    BY <1>1, <2>1, InitializedMoves
  <2>2. CASE Fails(c)
    BY <1>1, <2>2, UnderWay, FailsKept
  <2> QED
    BY <2>1, <2>2 DEF NewContext
<1> QED
  BY <1>1, <1>2, <1>3, CallStepKeeps, BreakBounded

LEMMA NewPageKeeps == \A c \in Callers : InquiryInv /\ NewPage(c) => InquiryInv'
<1> SUFFICES ASSUME NEW c \in Callers, InquiryInv, NewPage(c) PROVE InquiryInv'
  OBVIOUS
<1> DEFINE w == [call[c] EXCEPT !.pc = "search", !.page = context]
<1>1. /\ call[c].pc = "page"
      /\ UNCHANGED <<browser, context, opened, launches, closer, breaks, raced, misled>>
  BY DEF NewPage, CallAt, fields
<1>2. context \in 0 .. launches
  BY DEF InquiryInv, FieldTypes
<1>3. /\ CallsKept' /\ call'[c].pc # "launch"
      /\ \A d \in Callers \ {c} : call'[d] = call[d]
  <2>1. CASE Becomes(c, w)
    <3>1. /\ call[c] \in CallRecord(launches) /\ call[c].seen = Unread
      BY <1>1, UnderWay
    <3>2. /\ w \in CallRecord(launches) /\ w.pc = "search" /\ w.n = call[c].n
          /\ w.results = call[c].results /\ w.seen = Unread
      BY <1>2, <3>1 DEF CallRecord, CallStages
    <3> HIDE DEF w
    <3>3. CallsKept' /\ call'[c] = w /\ \A d \in Callers \ {c} : call'[d] = call[d]
      BY <1>1, <2>1, <3>2, StageMoves
    <3> QED
      BY <3>2, <3>3
  <2>2. CASE Fails(c)
    BY <1>1, <2>2, UnderWay, FailsKept
  <2> QED
    BY <2>1, <2>2 DEF NewPage
<1> QED
  BY <1>1, <1>2, <1>3, CallStepKeeps, BreakBounded

LEMMA SearchFailsKeeps == \A c \in Callers : InquiryInv /\ SearchFails(c) => InquiryInv'
<1> SUFFICES ASSUME NEW c \in Callers, InquiryInv, SearchFails(c) PROVE InquiryInv'
  OBVIOUS
<1> DEFINE w == [call[c] EXCEPT !.pc = "leave"]
<1>1. /\ call[c].pc = "search" /\ Becomes(c, w) /\ breaks' \in 0 .. MaxBreaks
      /\ UNCHANGED <<browser, context, opened, launches, closer, raced, misled>>
  BY BreakBounded DEF SearchFails, CallAt, Leads, fields
<1>2. call[c] \in CallRecord(launches) /\ call[c].seen = Unread
  BY <1>1, UnderWay
<1>3. /\ w \in CallRecord(launches) /\ w.pc = "leave" /\ w.n = call[c].n
      /\ w.results = call[c].results /\ w.seen = Unread
  BY <1>2 DEF CallRecord, CallStages
<1> HIDE DEF w
<1>4. CallsKept' /\ call'[c] = w /\ \A d \in Callers \ {c} : call'[d] = call[d]
  BY <1>1, <1>3, StageMoves
<1>5. context \in 0 .. launches
  BY DEF InquiryInv, FieldTypes
<1> QED
  BY <1>1, <1>3, <1>4, <1>5, CallStepKeeps

LEMMA SearchedKeeps == \A c \in Callers : InquiryInv /\ Searched(c) => InquiryInv'
<1> SUFFICES ASSUME NEW c \in Callers, InquiryInv, Searched(c) PROVE InquiryInv'
  OBVIOUS
<1> DEFINE Sees(seen) == [call EXCEPT ![c] = [call[c] EXCEPT !.pc = "extract", !.seen = seen]]
<1>0. \/ (\E page \in Shown[Number(c)] : call' = Sees(Readings[page])) /\ misled' = misled
      \/ /\ call' = Sees(Readings[FormPage]) \/ call' = Sees("NOT_FOUND")
         /\ misled' = misled \cup {Number(c)}
  BY Zenon DEF Searched, Becomes
<1>1. /\ call[c].pc = "search" /\ misled \subseteq misled'
      /\ UNCHANGED <<browser, context, opened, launches, closer, breaks, raced>>
  <2>1. CallAt(c, "search") /\ UNCHANGED <<fields, closer, breaks, raced>>
    BY Zenon DEF Searched
  <2>2. misled' = misled \/ misled' = misled \cup {Number(c)}
    BY <1>0, Zenon
  <2> QED
    BY <2>1, <2>2 DEF CallAt, fields
<1>2. /\ call[c] \in CallRecord(launches) /\ call[c].n \in Nat /\ call[c].n <= Len(Asked[c])
      /\ CallKept(c, call[c], launches, misled)
  BY <1>1, UnderWay
<1>3. Shown[Number(c)] \subseteq Pages /\ FormPage \in Pages
  <2>1. call[c].n \in DOMAIN Asked[c]
    BY <1>2, GDRFAAssumption, LenProperties DEF CallKept
  <2> QED
    BY <2>1, GDRFAAssumption DEF Number
<1>4. PICK seen \in ReadTexts : call' = Sees(seen) /\ OwnReading(c, call[c].n, seen, misled')
  <2>1. CASE \E page \in Shown[Number(c)] : call' = Sees(Readings[page])
    <3> HIDE DEF Sees
    <3>1. PICK page \in Shown[Number(c)] : call' = Sees(Readings[page])
      BY <2>1
    <3>2. Readings[page] \in ReadTexts /\ OwnReading(c, call[c].n, Readings[page], misled')
      BY <1>3 DEF ReadTexts, OwnReading, Number
    <3> QED
      BY <3>1, <3>2
  <2>2. CASE /\ misled' = misled \cup {Number(c)}
             /\ call' = Sees(Readings[FormPage]) \/ call' = Sees("NOT_FOUND")
    <3> HIDE DEF Sees
    <3>1. /\ Readings[FormPage] \in ReadTexts /\ "NOT_FOUND" \in ReadTexts
          /\ \A seen \in ReadTexts : OwnReading(c, call[c].n, seen, misled')
      BY <1>3, <2>2 DEF ReadTexts, OwnReading, Number
    <3> QED
      BY <2>2, <3>1
  <2> HIDE DEF Sees
  <2> QED
    BY <1>0, <2>1, <2>2
<1> DEFINE w == [call[c] EXCEPT !.pc = "extract", !.seen = seen]
<1>6. /\ w \in CallRecord(launches) /\ w.pc = "extract" /\ w.n = call[c].n
      /\ w.results = call[c].results /\ w.seen = seen
  BY <1>2 DEF CallRecord, CallStages
<1>7. Becomes(c, w)
  BY <1>4 DEF Becomes
<1> HIDE DEF w
<1>8. CallsKept' /\ call'[c] = w /\ \A d \in Callers \ {c} : call'[d] = call[d]
  BY <1>1, <1>4, <1>6, <1>7, StageMoves
<1>9. context \in 0 .. launches
  BY DEF InquiryInv, FieldTypes
<1> QED
  BY <1>1, <1>6, <1>8, <1>9, CallStepKeeps, BreakBounded

LEMMA ReadResultKeeps == \A c \in Callers : InquiryInv /\ ReadResult(c) => InquiryInv'
<1> SUFFICES ASSUME NEW c \in Callers, InquiryInv, ReadResult(c) PROVE InquiryInv'
  OBVIOUS
<1>1. /\ call[c].pc = "extract"
      /\ UNCHANGED <<browser, context, opened, launches, closer, breaks, raced, misled>>
  BY DEF ReadResult, CallAt, fields
<1>2. call[c] \in CallRecord(launches) /\ CallKept(c, call[c], launches, misled)
  BY <1>1, UnderWay
<1>3. PICK seen \in {call[c].seen, Unread} :
         Becomes(c, [call[c] EXCEPT !.pc = "leave", !.seen = seen])
  <2>1. [call[c] EXCEPT !.pc = "leave"] = [call[c] EXCEPT !.pc = "leave", !.seen = call[c].seen]
    BY <1>2 DEF CallRecord
  <2> QED
    BY <2>1, Zenon DEF ReadResult
<1> DEFINE w == [call[c] EXCEPT !.pc = "leave", !.seen = seen]
<1>4. seen \in ReadTexts
  BY <1>2 DEF CallRecord, ReadTexts
<1>5. /\ w \in CallRecord(launches) /\ w.pc = "leave" /\ w.n = call[c].n
      /\ w.results = call[c].results /\ w.seen = seen
  BY <1>2, <1>4 DEF CallRecord, CallStages
<1>6. seen # Unread => OwnReading(c, call[c].n, seen, misled)
  BY <1>2 DEF CallKept
<1>7. Becomes(c, w)
  BY <1>3
<1> HIDE DEF w
<1>8. CallsKept' /\ call'[c] = w /\ \A d \in Callers \ {c} : call'[d] = call[d]
  BY <1>1, <1>5, <1>6, <1>7, StageMoves
<1>9. context \in 0 .. launches
  BY DEF InquiryInv, FieldTypes
<1> QED
  BY <1>1, <1>5, <1>8, <1>9, CallStepKeeps, BreakBounded

LEMMA LeaveKeeps == \A c \in Callers : InquiryInv /\ Leave(c) => InquiryInv'
<1> SUFFICES ASSUME NEW c \in Callers, InquiryInv, Leave(c) PROVE InquiryInv'
  OBVIOUS
<1> DEFINE r == [call[c] EXCEPT !.page = 0]
<1>1. /\ call[c].pc = "leave"
      /\ UNCHANGED <<browser, context, opened, launches, closer, breaks, raced, misled>>
  BY DEF Leave, CallAt, fields
<1>2. /\ call[c] \in CallRecord(launches) /\ CallKept(c, call[c], launches, misled)
      /\ launches \in Nat /\ call[c].n <= Len(Asked[c])
  BY <1>1, UnderWay
<1>3. /\ r \in CallRecord(launches) /\ r.pc = "leave" /\ r.page = 0 /\ r.n = call[c].n
      /\ r.seen = call[c].seen /\ r.results = call[c].results
  BY <1>1, <1>2 DEF CallRecord
<1>4. Becomes(c, IF r.seen = Unread THEN Failed(r, c) ELSE With(r, c, r.seen))
  BY DEF Leave
<1> HIDE DEF r
<1>5. r.seen # Unread => OwnReading(c, r.n, r.seen, misled)
  BY <1>2, <1>3 DEF CallKept
<1>6. CallKept(c, r, launches, misled)
  BY <1>1, <1>2, <1>3, <1>5, StageKept
<1>7. \E w : /\ Becomes(c, w) /\ CallKept(c, w, launches, misled)
             /\ w.pc \in {"init", "over"}
  <2>1. CASE r.seen = Unread
    BY <1>2, <1>3, <1>4, <1>6, <2>1, FailedKept
  <2>2. CASE r.seen # Unread
    <3>1. r.seen \in Results
      BY <1>3 DEF CallRecord, Results
    <3> QED
      BY <1>2, <1>3, <1>4, <1>5, <1>6, <2>2, <3>1, WithKept
  <2> QED
    BY <2>1, <2>2
<1>8. PICK w : Becomes(c, w) /\ CallKept(c, w, launches, misled) /\ w.pc \in {"init", "over"}
  BY <1>7
<1>9. CallsKept' /\ call'[c] = w /\ \A d \in Callers \ {c} : call'[d] = call[d]
  BY <1>1, <1>2, <1>8, CallMoves DEF InquiryInv
<1>10. context \in 0 .. launches
  BY DEF InquiryInv, FieldTypes
<1> QED
  BY <1>1, <1>8, <1>9, <1>10, CallStepKeeps, BreakBounded

LEMMA CloseSteps == InquiryInv /\ (Closes \/ Closed) => InquiryInv'
<1> SUFFICES ASSUME InquiryInv, Closes \/ Closed PROVE InquiryInv'
  OBVIOUS
<1>1. call' = call /\ launches' = launches /\ misled' = misled
  BY DEF Closes, Closed
<1>2. CallsKept'
  BY <1>1 DEF InquiryInv, CallsKept, CallKept, CallRecord
<1>3. FieldTypes'
  <2>1. FieldTypes
    BY DEF InquiryInv
  <2>2. opened' \subseteq opened /\ UNCHANGED <<launches, breaks, raced>>
    BY DEF Closes, Closed
  <2>3. /\ browser' \in {browser, 0} /\ context' \in {context, 0}
        /\ closer' \in {"closing", "over"}
    BY DEF Closes, Closed
  <2> QED
    BY <2>1, <2>2, <2>3 DEF FieldTypes
<1>4. OneBrowser'
  BY DEF InquiryInv, OneBrowser, FieldTypes, Closes, Closed, CallAt
<1> QED
  BY <1>2, <1>3, <1>4 DEF InquiryInv

LEMMA InquiryMoves == InquiryInv /\ [GDRFANext]_gdrfaVars => InquiryInv'
<1> SUFFICES ASSUME InquiryInv, [GDRFANext]_gdrfaVars PROVE InquiryInv'
  OBVIOUS
<1>1. ASSUME NEW c \in Callers, AdvanceCall(c) PROVE InquiryInv'
  BY <1>1, InitializeKeeps, LaunchKeeps, NewContextKeeps, NewPageKeeps, SearchedKeeps,
     ReadResultKeeps, LeaveKeeps DEF AdvanceCall
<1>2. CASE UNCHANGED gdrfaVars
  BY <1>2 DEF gdrfaVars, InquiryInv, FieldTypes, CallsKept, OneBrowser, CallAt
<1> QED
  BY <1>1, <1>2, CallKeeps, LaunchFailsKeeps, SearchFailsKeeps, CloseSteps DEF GDRFANext
-----------------------------------------------------------------------------
\* Both sides at once: neither touches the other's state.
FetchersInv == JobsInv /\ InquiryInv

THEOREM FetchersAreSound == FetchersSpec => []FetchersInv
<1>1. FetchersInit => FetchersInv
  BY JobsStart, InquiryStarts DEF FetchersInit, FetchersInv
<1>2. FetchersInv /\ [FetchersNext]_fetchersVars => FetchersInv'
  <2> SUFFICES ASSUME FetchersInv, [FetchersNext]_fetchersVars PROVE FetchersInv'
    OBVIOUS
  <2>1. [Next]_vars /\ [GDRFANext]_gdrfaVars
    BY DEF FetchersNext, fetchersVars
  <2> QED
    BY <2>1, JobsMove, InquiryMoves DEF FetchersInv
<1> QED
  BY <1>1, <1>2, PTL DEF FetchersSpec

(***************************************************************************)
(* Everything the two fetchers hold has its type: contexts and intervals,  *)
(* queue entries, log rows, statuses, calls and their results.             *)
(***************************************************************************)
THEOREM FetchersTypeCorrect == FetchersSpec => []FetchersTypeOK
<1>1. FetchersInv => FetchersTypeOK
  BY JobsImply, InquiryImplies DEF FetchersInv, FetchersTypeOK
<1> QED
  BY <1>1, FetchersAreSound, PTL

(***************************************************************************)
(* BrowserSessions: whatever a late callback of an interval does, and      *)
(* wherever getSession, shutdown or a crash stands, a live session in the  *)
(* map has its interval armed.                                             *)
(***************************************************************************)
THEOREM LiveSessionTheorem == FetchersSpec => []LiveSessionKept
<1>1. FetchersInv => LiveSessionKept
  BY JobsImply DEF FetchersInv
<1> QED
  BY <1>1, FetchersAreSound, PTL

(***************************************************************************)
(* Status jobs: a portal status that is stored is what the portal said of  *)
(* that passport, or of one whose answer came after its own search.        *)
(***************************************************************************)
THEOREM OwnStatusTheorem == FetchersSpec => []OwnStatusUnlessLate
<1>1. FetchersInv => OwnStatusUnlessLate
  BY JobsImply DEF FetchersInv
<1> QED
  BY <1>1, FetchersAreSound, PTL

(***************************************************************************)
(* Status jobs: the log tells what became of each job, through failing     *)
(* queries, retries and crashes: SUCCESS for one that is complete, FAILED  *)
(* for every attempt that failed, row by row, except the rows that lost    *)
(* their process or the update of their catch block.                       *)
(***************************************************************************)
THEOREM LogTellsTheorem == FetchersSpec => []LogTellsOutcome
<1>1. FetchersInv => LogTellsOutcome
  BY JobsImply DEF FetchersInv
<1> QED
  BY <1>1, FetchersAreSound, PTL

(***************************************************************************)
(* The public inquiry: no attempt leaves its page open, and unless two     *)
(* calls raced at most one browser is open.                                *)
(***************************************************************************)
THEOREM FetcherTidyTheorem == FetchersSpec => []FetcherTidy
<1>1. FetchersInv => FetcherTidy
  BY InquiryImplies DEF FetchersInv
<1> QED
  BY <1>1, FetchersAreSound, PTL

(***************************************************************************)
(* The public inquiry: if the parser tells what each page says, which is a *)
(* fact about the pages alone and is evaluated by the run, every result is *)
(* told by a page of its own number, unless that number was misled.        *)
(***************************************************************************)
THEOREM ResultsTheorem == ASSUME ParserTells PROVE FetchersSpec => []ResultsAreTold
<1>1. FetchersInv => ResultsAreTold
  BY InquiryImplies DEF FetchersInv, ResultsAreTold
<1> QED
  BY <1>1, FetchersAreSound, PTL
=============================================================================
