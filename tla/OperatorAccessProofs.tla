------------------------- MODULE OperatorAccessProofs -------------------------
(***************************************************************************)
(* Theorems of Accounts and Console, proved of OperatorAccess, in which a  *)
(* behaviour is one of either.                                             *)
(***************************************************************************)
EXTENDS OperatorAccess, SequenceTheorems, TLAPS

-----------------------------------------------------------------------------
\* One request at most is under way with the code.
OneForCode ==
    \A q, r \in Requests :
        /\ ~At(q, "idle") /\ KeyOf(req[q].pc) = "otp"
        /\ ~At(r, "idle") /\ KeyOf(req[r].pc) = "otp"
        => q = r

\* What the entry of a code tells of its history.
EntryTells ==
    Get("otp").value # 0 =>
        /\ Get("otp").value = codes
        /\ verified = 0
        /\ wrong = Get("otp").attempts
        /\ Get("otp").left # Forever
        /\ age + Get("otp").left = CodeLife

\* What a request compares is still the entry.
HeldIsEntry ==
    \A r \in Requests : At(r, "compare") =>
        /\ req[r].held = Get("otp")
        /\ Get("otp").value # 0
        /\ Get("otp").attempts < MaxAttempts

CodeKept ==
    "otp" \notin loose =>
        OneForCode /\ EntryTells /\ HeldIsEntry /\ wrong <= MaxAttempts /\ verified <= 1

TokenKept == "refresh_token" \notin loose => Get("refresh_token").value \notin spent

\* A token that a request has made is the text of a second.
TokensMade ==
    \A r \in Requests : req[r].pc \in {"login", "rotate"} => req[r].held.value \in Seconds

AccountsInv == AccountsTypeOK /\ CodeKept /\ TokenKept /\ TokensMade
-----------------------------------------------------------------------------
\* What holds of every request: it belongs to a tab until it is over, carries a
\* token of the past, and is of the page its tab shows or of an earlier one.
RequestOK(r) ==
    /\ r \in Request
    /\ r.state = "over" <=> r.tab = NoTab
    /\ r.kind = "over" <=> r.tab = NoTab
    /\ r.token <= logins /\ r.changes <= changes
    /\ r.state = "refused" => r.token \in expired \cup {0}
    /\ r.kind = "login" /\ r.state = "sent" => r.token = 0
    /\ r.kind = "login" /\ r.state = "answered" => r.token # 0
    /\ r.tab # NoTab => /\ r.visit <= tab[r.tab].visit
                        /\ r.visit = tab[r.tab].visit => r.page = tab[r.tab].at
    /\ r.kind \in {"load", "act", "trigger", "timer"} => r.page \in DOMAIN Pages
    /\ r.kind \in {"trigger", "timer"} => r.page \in Triggering /\ r.choice = 1
    /\ r.kind = "timer" => r.state = "answered"

TabOK(t) ==
    /\ tab[t].own <= changes
    /\ tab[t].latest <= Len(requests)
    /\ tab[t].latest > 0 => requests[tab[t].latest].tab = NoTab
    /\ tab[t].at # LoginPage => tab[t].choice \in On(t).choices

\* The requests of the page that t shows.
OfPage(t) == {i \in DOMAIN requests : requests[i].tab = t /\ requests[i].visit = tab[t].visit}

\* A load that brings, or will bring, the right list.
Right(t, i) ==
    /\ requests[i].kind = "load"
    /\ requests[i].choice = tab[t].choice
    /\ requests[i].state = "answered" => tab[t].own <= requests[i].changes

ShownRight(t) == tab[t].shown.choice = tab[t].choice /\ tab[t].own <= tab[t].shown.changes

\* Something is to come that will show the right list after the j-th request.
Coming(t, j) == \E k \in OfPage(t) : Due(k) \/ (k > j /\ Right(t, k))

\* As long as nothing has upset a page, each list that is wrong or would be
\* wrong when it comes has a right one to come after it.
PageKept(t) ==
    tab[t].at # LoginPage /\ upset[t] = {} /\ tab[t].choice \in On(t).loads =>
        /\ ShownRight(t) \/ Coming(t, tab[t].latest)
        /\ \A j \in OfPage(t) :
              requests[j].kind = "load" /\ j > tab[t].latest => Right(t, j) \/ Coming(t, j)

ConsoleInv ==
    /\ ConsoleTypeOK
    /\ \A i \in DOMAIN requests : RequestOK(requests[i])
    /\ \A t \in Tabs : TabOK(t)
    /\ \A t \in Tabs : PageKept(t)

AccessInv == AccountsInv /\ ConsoleInv /\ side \in {"routes", "tabs"}
-----------------------------------------------------------------------------
(***************************************************************************)
(* The cache and the requests.                                             *)
(***************************************************************************)
\* Set changes one entry of the store that is there.
LEMMA SetStores ==
    ASSUME AccountsTypeOK, NEW key \in Keys, NEW entry \in Entry, Set(key, entry),
           redis' = redis
    PROVE  /\ store' \in [{"redis", "memory"} -> [Keys -> Entry]]
           /\ Get(key)' = entry
           /\ \A k \in Keys : k # key => Get(k)' = Get(k)
<1>1. Where \in {"redis", "memory"} /\ Where' = Where
  BY DEF Where
<1>2. store \in [{"redis", "memory"} -> [Keys -> Entry]]
  BY DEF AccountsTypeOK
<1>3. [store[Where] EXCEPT ![key] = entry] \in [Keys -> Entry]
  BY <1>1, <1>2
<1>4. store' \in [{"redis", "memory"} -> [Keys -> Entry]]
  BY <1>1, <1>2, <1>3 DEF Set
<1>5. store'[Where] = [store[Where] EXCEPT ![key] = entry]
  BY <1>1, <1>2 DEF Set
<1>6. Get(key)' = entry /\ \A k \in Keys : k # key => Get(k)' = Get(k)
  BY <1>1, <1>2, <1>5 DEF Get
<1>. QED
  BY <1>4, <1>6

LEMMA NoneIsEntry == None \in Entry /\ None.value = 0
  BY DEF None, Entry, Forever

LEMMA GetIsEntry ==
    ASSUME AccountsTypeOK, NEW key \in Keys
    PROVE  Get(key) \in Entry
  BY DEF AccountsTypeOK, Get, Where

\* A request goes on; the others are where they were.
LEMMA RequestGoes ==
    ASSUME AccountsTypeOK, NEW r \in Requests, NEW pc \in Stages, NEW held \in Entry,
           Becomes(r, pc, held)
    PROVE  /\ req' \in [Requests -> [pc: Stages, held: Entry]]
           /\ req'[r] = [pc |-> pc, held |-> held]
           /\ \A q \in Requests : q # r => req'[q] = req[q]
  BY DEF AccountsTypeOK, Becomes

LEMMA RequestEnds ==
    ASSUME AccountsTypeOK, NEW r \in Requests, Done(r)
    PROVE  /\ req' \in [Requests -> [pc: Stages, held: Entry]]
           /\ req'[r] = Idle
           /\ \A q \in Requests : q # r => req'[q] = req[q]
<1>1. Becomes(r, "idle", None) /\ "idle" \in Stages
  BY DEF Done, Stages
<1>. QED
  BY <1>1, NoneIsEntry, RequestGoes DEF Idle

\* Whoever is alone with the code, or leaves it, leaves the others to be one.
LEMMA CodeUntouched ==
    ASSUME CodeKept, NEW r \in Requests,
           \A q \in Requests : q # r => req'[q] = req[q],
           req'[r].pc = "idle" \/ KeyOf(req'[r].pc) # "otp",
           Get("otp")' = Get("otp"),
           UNCHANGED <<codes, age, wrong, verified>>,
           "otp" \in loose => "otp" \in loose'
    PROVE  CodeKept'
<1>. SUFFICES ASSUME "otp" \notin loose'
              PROVE  /\ OneForCode' /\ EntryTells' /\ HeldIsEntry'
                     /\ wrong' <= MaxAttempts /\ verified' <= 1
  BY Zenon DEF CodeKept
<1>1. /\ OneForCode /\ EntryTells /\ HeldIsEntry
      /\ wrong <= MaxAttempts /\ verified <= 1
  BY Zenon DEF CodeKept
<1>2. OneForCode'
  BY <1>1 DEF OneForCode, At
<1>3. EntryTells'
  BY <1>1 DEF EntryTells
<1>4. HeldIsEntry'
  <2>. SUFFICES ASSUME NEW q \in Requests, At(q, "compare")'
                PROVE  /\ req'[q].held = Get("otp")'
                       /\ Get("otp")'.value # 0
                       /\ Get("otp")'.attempts < MaxAttempts
    BY DEF HeldIsEntry
  <2>1. q # r
    BY DEF At, KeyOf
  <2>. QED
    BY <1>1, <2>1 DEF HeldIsEntry, At
<1>. QED
  BY <1>1, <1>2, <1>3, <1>4

\* A request that makes no token leaves those of the others.
LEMMA NoTokenMade ==
    ASSUME TokensMade, NEW r \in Requests, req'[r].pc \notin {"login", "rotate"},
           \A q \in Requests : q # r => req'[q] = req[q]
    PROVE  TokensMade'
  BY DEF TokensMade, Seconds

LEMMA ZeroIsNoSecond == 0 \notin Seconds
  BY AccountsAssumption DEF Seconds

LEMMA TokenIsEntry ==
    ASSUME AccountsTypeOK
    PROVE  Token \in Entry /\ Token.value \in Seconds
<1>1. ticks \in 0 .. MaxTicks /\ MaxTicks \in Nat
  BY AccountsAssumption DEF AccountsTypeOK
<1>2. Token.value = ticks + 1 /\ (ticks + 1 \in Nat => Token \in Entry)
  BY NoneIsEntry DEF Token, Entry, None
<1>3. ticks + 1 \in Seconds /\ ticks + 1 \in Nat
  BY <1>1 DEF Seconds
<1>. QED
  BY <1>2, <1>3

\* The token that is stored is not among those that are spent with it.
LEMMA NewToken ==
    ASSUME AccountsInv, NEW r \in Requests, req[r].pc \in {"login", "rotate"}, Issue(r),
           redis' = redis
    PROVE  /\ store' \in [{"redis", "memory"} -> [Keys -> Entry]]
           /\ req' \in [Requests -> [pc: Stages, held: Entry]]
           /\ issued' \subseteq Seconds /\ spent' \subseteq issued'
           /\ Get("otp")' = Get("otp")
           /\ req'[r] = Idle /\ \A q \in Requests : q # r => req'[q] = req[q]
           /\ Get("refresh_token")'.value \notin spent'
           /\ TokensMade'
<1>. DEFINE new == req[r].held.value
            fresh == [value |-> new, attempts |-> 0, left |-> TokenLife]
<1>1. AccountsTypeOK /\ issued \subseteq Seconds /\ TokensMade
  BY DEF AccountsInv, AccountsTypeOK
<1>2. new \in Seconds /\ new \in Nat
  BY <1>1, AccountsAssumption DEF TokensMade, Seconds
<1>3. fresh \in Entry /\ fresh.value = new
  BY <1>2, AccountsAssumption DEF Entry
<1>4. Set("refresh_token", fresh) /\ Done(r) /\ issued' = issued \cup {new}
      /\ spent' = issued \ {new}
  BY DEF Issue
<1>. HIDE DEF fresh
<1>5. /\ store' \in [{"redis", "memory"} -> [Keys -> Entry]]
      /\ Get("refresh_token")' = fresh
      /\ Get("otp")' = Get("otp")
  BY <1>1, <1>3, <1>4, SetStores DEF Keys
<1>6. Get("refresh_token")'.value = new
  BY <1>3, <1>5
<1>. HIDE DEF new
<1>7. new \notin spent' /\ spent' \subseteq issued' /\ issued' \subseteq Seconds
  BY <1>1, <1>2, <1>4
<1>8. /\ req' \in [Requests -> [pc: Stages, held: Entry]]
      /\ req'[r] = Idle /\ \A q \in Requests : q # r => req'[q] = req[q]
  BY <1>1, <1>4, RequestEnds
<1>9. TokensMade'
  BY <1>1, <1>8, NoTokenMade DEF Idle
<1>. QED
  BY <1>5, <1>6, <1>7, <1>8, <1>9

LEMMA NoCodeKey ==
    Idle.pc = "idle" /\ KeyOf("rotate") # "otp" /\ Idle.pc \notin {"login", "rotate"}
  BY DEF Idle, KeyOf

LEMMA LogInKeeps ==
    ASSUME AccountsInv, NEW r \in Requests, LogIn(r)
    PROVE  AccountsInv'
<1>1. Issue(r) /\ redis' = redis /\ req[r].pc \in {"login", "rotate"}
  BY DEF LogIn, At
<1>2. AccountsTypeOK'
  BY <1>1, NewToken DEF LogIn, AccountsInv, AccountsTypeOK, counters
<1>3. CodeKept'
  BY <1>1, NewToken, CodeUntouched, NoCodeKey DEF LogIn, AccountsInv
<1>4. TokenKept' /\ TokensMade'
  BY <1>1, NewToken DEF TokenKept
<1>. QED
  BY <1>2, <1>3, <1>4 DEF AccountsInv

LEMMA RotateKeeps ==
    ASSUME AccountsInv, NEW r \in Requests, Rotate(r)
    PROVE  AccountsInv'
<1>1. Issue(r) /\ redis' = redis /\ req[r].pc \in {"login", "rotate"}
  BY DEF Rotate, At
<1>2. AccountsTypeOK'
  BY <1>1, NewToken DEF Rotate, AccountsInv, AccountsTypeOK, counters
<1>3. CodeKept'
  BY <1>1, NewToken, CodeUntouched, NoCodeKey DEF Rotate, AccountsInv
<1>4. TokenKept' /\ TokensMade'
  BY <1>1, NewToken DEF TokenKept
<1>. QED
  BY <1>2, <1>3, <1>4 DEF AccountsInv

LEMMA LogOutKeeps ==
    ASSUME AccountsInv, NEW r \in Requests, LogOut(r)
    PROVE  AccountsInv'
<1>1. /\ store' \in [{"redis", "memory"} -> [Keys -> Entry]]
      /\ Get("refresh_token")' = None /\ Get("otp")' = Get("otp")
  BY SetStores, NoneIsEntry DEF LogOut, Del, Keys, AccountsInv
<1>2. /\ req' \in [Requests -> [pc: Stages, held: Entry]]
      /\ req'[r] = Idle /\ \A q \in Requests : q # r => req'[q] = req[q]
  BY RequestEnds DEF LogOut, AccountsInv
<1>3. spent' \subseteq issued /\ 0 \notin spent'
  BY ZeroIsNoSecond DEF LogOut, AccountsInv, AccountsTypeOK
<1>4. AccountsTypeOK'
  BY <1>1, <1>2, <1>3 DEF LogOut, AccountsInv, AccountsTypeOK, counters
<1>5. CodeKept'
  BY <1>1, <1>2, CodeUntouched, NoCodeKey DEF LogOut, AccountsInv
<1>6. TokenKept'
  BY <1>1, <1>3, NoneIsEntry DEF TokenKept
<1>7. TokensMade'
  BY <1>2, NoTokenMade, NoCodeKey DEF AccountsInv
<1>. QED
  BY <1>4, <1>5, <1>6, <1>7 DEF AccountsInv

LEMMA RefreshKeeps ==
    ASSUME AccountsInv, NEW r \in Requests, Refresh(r)
    PROVE  AccountsInv'
<1>1. /\ req' \in [Requests -> [pc: Stages, held: Entry]]
      /\ req'[r].pc \in {"idle", "rotate"}
      /\ req'[r].pc = "rotate" => req'[r].held.value \in Seconds
      /\ \A q \in Requests : q # r => req'[q] = req[q]
  <2>1. "rotate" \in Stages /\ Token \in Entry /\ Token.value \in Seconds
    BY TokenIsEntry DEF Stages, AccountsInv
  <2>2. CASE Becomes(r, "rotate", Token)
    <3>1. /\ req' \in [Requests -> [pc: Stages, held: Entry]]
          /\ req'[r] = [pc |-> "rotate", held |-> Token]
          /\ \A q \in Requests : q # r => req'[q] = req[q]
      BY <2>1, <2>2, RequestGoes DEF AccountsInv
    <3>. QED
      BY <2>1, <3>1
  <2>3. CASE Done(r)
    BY <2>3, RequestEnds DEF Idle, AccountsInv
  <2>. QED
    BY <2>2, <2>3 DEF Refresh
<1>2. UNCHANGED <<store, redis, issued, codes, counters, spent, age, wrong, verified, loose>>
  BY DEF Refresh
<1>3. Get("otp")' = Get("otp") /\ Get("refresh_token")' = Get("refresh_token")
  BY <1>2 DEF Get, Where
<1>4. AccountsTypeOK'
  BY <1>1, <1>2 DEF AccountsInv, AccountsTypeOK, counters
<1>5. CodeKept'
  BY <1>1, <1>2, <1>3, CodeUntouched, NoCodeKey DEF AccountsInv
<1>6. TokenKept'
  BY <1>2, <1>3 DEF TokenKept, AccountsInv
<1>7. TokensMade'
  BY <1>1 DEF TokensMade, AccountsInv, Seconds
<1>. QED
  BY <1>4, <1>5, <1>6, <1>7 DEF AccountsInv

LEMMA SendCodeKeeps ==
    ASSUME AccountsInv, NEW r \in Requests, SendCode(r)
    PROVE  AccountsInv'
<1>. DEFINE fresh == [value |-> codes + 1, attempts |-> 0, left |-> CodeLife]
<1>1. AccountsTypeOK /\ codes \in Nat
  BY DEF AccountsInv, AccountsTypeOK
<1>2. /\ fresh \in Entry /\ fresh.value = codes + 1 /\ fresh.attempts = 0
      /\ fresh.left = CodeLife /\ CodeLife # Forever
  BY <1>1, AccountsAssumption DEF Entry, Forever
<1>3. Set("otp", fresh) /\ Done(r)
      /\ UNCHANGED <<redis, issued, counters, spent>> /\ codes' = codes + 1
      /\ age' = 0 /\ wrong' = 0 /\ verified' = 0
      /\ loose' = IF Under("otp", r) THEN loose ELSE loose \ {"otp"}
  BY DEF SendCode
<1>. HIDE DEF fresh
<1>4. /\ store' \in [{"redis", "memory"} -> [Keys -> Entry]]
      /\ Get("otp")' = fresh /\ Get("refresh_token")' = Get("refresh_token")
  BY <1>1, <1>2, <1>3, SetStores DEF Keys
<1>5. /\ req' \in [Requests -> [pc: Stages, held: Entry]]
      /\ req'[r] = Idle /\ \A q \in Requests : q # r => req'[q] = req[q]
  BY <1>1, <1>3, RequestEnds
<1>6. AccountsTypeOK'
  BY <1>1, <1>3, <1>4, <1>5 DEF AccountsTypeOK, counters
<1>7. CodeKept'
  <2>. SUFFICES ASSUME "otp" \notin loose'
                PROVE  /\ OneForCode' /\ EntryTells' /\ HeldIsEntry'
                       /\ wrong' <= MaxAttempts /\ verified' <= 1
    BY Zenon DEF CodeKept
  <2>1. \A q \in Requests \ {r} : ~(~At(q, "idle") /\ KeyOf(req[q].pc) = "otp")
    <3>. SUFFICES ASSUME Under("otp", r) PROVE FALSE
      BY DEF Under
    <3>1. OneForCode
      BY <1>3 DEF CodeKept, AccountsInv
    <3>2. ~At(r, "idle") /\ KeyOf(req[r].pc) = "otp"
      BY DEF SendCode, At, KeyOf
    <3>. QED
      BY <3>1, <3>2 DEF OneForCode, Under
  <2>2. OneForCode'
    BY <1>5, <2>1, NoCodeKey DEF OneForCode, At
  <2>3. EntryTells'
    BY <1>1, <1>2, <1>3, <1>4, AccountsAssumption DEF EntryTells
  <2>4. \A q \in Requests : q # r => req[q].pc # "compare"
    BY <2>1 DEF At, KeyOf
  <2>5. HeldIsEntry'
    BY <1>5, <2>4, NoCodeKey DEF HeldIsEntry, At
  <2>6. wrong' <= MaxAttempts /\ verified' <= 1
    BY <1>3, AccountsAssumption
  <2>. QED
    BY <2>2, <2>3, <2>5, <2>6
<1>8. TokenKept'
  BY <1>3, <1>4 DEF TokenKept, AccountsInv
<1>9. TokensMade'
  BY <1>5, NoTokenMade, NoCodeKey DEF AccountsInv
<1>. QED
  BY <1>6, <1>7, <1>8, <1>9 DEF AccountsInv

LEMMA VerifyKeeps ==
    ASSUME AccountsInv, NEW r \in Requests, Verify(r)
    PROVE  AccountsInv'
<1>. DEFINE entry == Get("otp")
<1>1. entry \in Entry
  BY GetIsEntry DEF AccountsInv, Keys
<1>2. /\ req' \in [Requests -> [pc: Stages, held: Entry]]
      /\ \A q \in Requests : q # r => req'[q] = req[q]
      /\ req'[r].pc \in {"idle", "drop", "compare"}
      /\ req'[r].pc = "compare" => /\ req'[r].held = entry
                                   /\ entry.value # 0 /\ entry.attempts < MaxAttempts
  <2>1. CASE entry.value = 0
    <3>1. Done(r)
      BY <2>1 DEF Verify
    <3>. QED
      BY <3>1, RequestEnds DEF Idle, AccountsInv
  <2>2. CASE entry.value # 0
    <3>. DEFINE pc == IF entry.attempts >= MaxAttempts THEN "drop" ELSE "compare"
    <3>1. Becomes(r, pc, entry)
      BY <2>2 DEF Verify
    <3>2. pc \in Stages /\ pc \in {"drop", "compare"}
      BY DEF Stages
    <3>3. pc = "compare" => entry.attempts < MaxAttempts
      BY <1>1, AccountsAssumption DEF Entry
    <3>. HIDE DEF pc, entry
    <3>4. /\ req' \in [Requests -> [pc: Stages, held: Entry]]
          /\ req'[r] = [pc |-> pc, held |-> entry]
          /\ \A q \in Requests : q # r => req'[q] = req[q]
      BY <1>1, <3>1, <3>2, RequestGoes DEF AccountsInv
    <3>. QED
      BY <2>2, <3>2, <3>3, <3>4
  <2>. QED
    BY <2>1, <2>2
<1>3. UNCHANGED <<store, redis, issued, codes, counters, spent, age, wrong, verified, loose>>
  BY DEF Verify
<1>4. Get("otp")' = entry /\ Get("refresh_token")' = Get("refresh_token")
  BY <1>3 DEF Get, Where
<1>5. AccountsTypeOK'
  BY <1>2, <1>3 DEF AccountsInv, AccountsTypeOK, counters
<1>6. CodeKept'
  <2>. SUFFICES ASSUME "otp" \notin loose'
                PROVE  /\ OneForCode' /\ EntryTells' /\ HeldIsEntry'
                       /\ wrong' <= MaxAttempts /\ verified' <= 1
    BY Zenon DEF CodeKept
  <2>1. /\ OneForCode /\ EntryTells /\ HeldIsEntry
        /\ wrong <= MaxAttempts /\ verified <= 1
    BY <1>3, Zenon DEF CodeKept, AccountsInv
  <2>2. req[r].pc = "verify" /\ KeyOf("verify") = "otp"
    BY DEF Verify, At, KeyOf
  <2>3. OneForCode'
    BY <1>2, <2>1, <2>2 DEF OneForCode, At
  <2>4. EntryTells'
    BY <1>3, <1>4, <2>1 DEF EntryTells
  <2>5. HeldIsEntry'
    BY <1>2, <1>4, <2>1 DEF HeldIsEntry, At
  <2>. QED
    BY <1>3, <2>1, <2>3, <2>4, <2>5
<1>7. TokenKept'
  BY <1>3, <1>4 DEF TokenKept, AccountsInv
<1>8. TokensMade'
  BY <1>2, NoTokenMade, NoCodeKey DEF AccountsInv
<1>. QED
  BY <1>5, <1>6, <1>7, <1>8 DEF AccountsInv

\* A request for the code that ends after it was alone with it leaves nobody there.
LEMMA LastForCode ==
    ASSUME OneForCode, NEW r \in Requests, ~At(r, "idle"), KeyOf(req[r].pc) = "otp",
           req'[r] = Idle, \A q \in Requests : q # r => req'[q] = req[q]
    PROVE  OneForCode' /\ \A q \in Requests : ~At(q, "compare")'
<1>1. \A q \in Requests : q # r => At(q, "idle") \/ KeyOf(req[q].pc) # "otp"
  BY DEF OneForCode
<1>2. OneForCode'
  BY <1>1, NoCodeKey DEF OneForCode, At
<1>3. \A q \in Requests : ~At(q, "compare")'
  BY <1>1, NoCodeKey DEF At, KeyOf
<1>. QED
  BY <1>2, <1>3

\* The entry is deleted, by whoever verified it last.
LEMMA CodeGone ==
    ASSUME AccountsInv, NEW r \in Requests, ~At(r, "idle"), KeyOf(req[r].pc) = "otp",
           Del("otp"), Done(r), UNCHANGED <<redis, issued, codes, counters, spent, age,
           wrong, loose>>, verified' \in Nat, "otp" \notin loose => verified' <= 1
    PROVE  AccountsInv'
<1>1. /\ store' \in [{"redis", "memory"} -> [Keys -> Entry]]
      /\ Get("otp")' = None /\ Get("refresh_token")' = Get("refresh_token")
  BY SetStores, NoneIsEntry DEF Del, Keys, AccountsInv
<1>2. /\ req' \in [Requests -> [pc: Stages, held: Entry]]
      /\ req'[r] = Idle /\ \A q \in Requests : q # r => req'[q] = req[q]
  BY RequestEnds DEF AccountsInv
<1>3. AccountsTypeOK'
  BY <1>1, <1>2 DEF AccountsInv, AccountsTypeOK, counters
<1>4. CodeKept'
  <2>. SUFFICES ASSUME "otp" \notin loose'
                PROVE  /\ OneForCode' /\ EntryTells' /\ HeldIsEntry'
                       /\ wrong' <= MaxAttempts /\ verified' <= 1
    BY Zenon DEF CodeKept
  <2>1. OneForCode /\ wrong <= MaxAttempts
    BY Zenon DEF CodeKept, AccountsInv
  <2>2. OneForCode' /\ HeldIsEntry'
    BY <1>2, <2>1, LastForCode, Zenon DEF HeldIsEntry
  <2>3. EntryTells'
    BY <1>1, NoneIsEntry DEF EntryTells
  <2>. QED
    BY <2>1, <2>2, <2>3
<1>5. TokenKept'
  BY <1>1 DEF TokenKept, AccountsInv
<1>6. TokensMade'
  BY <1>2, NoTokenMade, NoCodeKey DEF AccountsInv
<1>. QED
  BY <1>3, <1>4, <1>5, <1>6 DEF AccountsInv

LEMMA DropKeeps ==
    ASSUME AccountsInv, NEW r \in Requests, Drop(r)
    PROVE  AccountsInv'
<1>1. ~At(r, "idle") /\ KeyOf(req[r].pc) = "otp"
  BY DEF Drop, At, KeyOf
<1>2. verified' \in Nat /\ ("otp" \notin loose => verified' <= 1)
  BY DEF Drop, AccountsInv, AccountsTypeOK, CodeKept
<1>. QED
  BY <1>1, <1>2, CodeGone, Zenon DEF Drop

LEMMA RightCodeKeeps ==
    ASSUME AccountsInv, NEW r \in Requests, RightCode(r)
    PROVE  AccountsInv'
<1>1. ~At(r, "idle") /\ KeyOf(req[r].pc) = "otp"
  BY DEF RightCode, At, KeyOf
<1>2. verified' \in Nat
  BY DEF RightCode, AccountsInv, AccountsTypeOK
<1>3. "otp" \notin loose => verified = 0
  BY DEF RightCode, AccountsInv, CodeKept, HeldIsEntry, EntryTells
<1>4. "otp" \notin loose => verified' <= 1
  BY <1>3 DEF RightCode
<1>. QED
  BY <1>1, <1>2, <1>4, CodeGone, Zenon DEF RightCode

LEMMA OneMoreAttempt ==
    ASSUME NEW held \in Entry, NEW left \in Nat
    PROVE  LET entry == [held EXCEPT !.attempts = @ + 1, !.left = left]
           IN  /\ entry \in Entry /\ entry.value = held.value
               /\ entry.attempts = held.attempts + 1 /\ entry.left = left
<1>. DEFINE more == [held EXCEPT !.attempts = @ + 1]
            entry == [more EXCEPT !.left = left]
<1>1. more \in Entry /\ more.value = held.value /\ more.attempts = held.attempts + 1
  BY DEF Entry
<1>2. [held EXCEPT !.attempts = @ + 1, !.left = left] = entry
  OBVIOUS
<1>. HIDE DEF more
<1>3. /\ entry \in Entry /\ entry.value = more.value
      /\ entry.attempts = more.attempts /\ entry.left = left
  BY <1>1 DEF Entry
<1>. QED
  BY <1>1, <1>2, <1>3

LEMMA WrongCodeKeeps ==
    ASSUME AccountsInv, NEW r \in Requests, WrongCode(r)
    PROVE  AccountsInv'
<1>. DEFINE held == req[r].held
            entry == [held EXCEPT !.attempts = @ + 1, !.left = KeptLeft("otp")]
<1>1. AccountsTypeOK /\ held \in Entry /\ KeptLeft("otp") \in Nat
  <2>1. AccountsTypeOK /\ held \in Entry
    BY DEF AccountsInv, AccountsTypeOK
  <2>2. Get("otp") \in Entry
    BY <2>1, GetIsEntry DEF Keys
  <2>3. KeptLeft("otp") \in Nat
    BY <2>2, AccountsAssumption DEF KeptLeft, Entry
  <2>. QED
    BY <2>1, <2>3
<1>2. /\ entry \in Entry /\ entry.value = held.value /\ entry.attempts = held.attempts + 1
      /\ entry.left = KeptLeft("otp")
  BY <1>1, OneMoreAttempt
<1>3. Set("otp", entry) /\ Done(r) /\ redis' = redis
      /\ wrong' = (IF held.value = codes THEN wrong + 1 ELSE wrong)
      /\ loose' = (IF redis THEN loose ELSE loose \cup {"otp"})
      /\ UNCHANGED <<issued, codes, counters, spent, age, verified>>
  BY DEF WrongCode
<1>. HIDE DEF entry
<1>4. /\ store' \in [{"redis", "memory"} -> [Keys -> Entry]]
      /\ Get("otp")' = entry /\ Get("refresh_token")' = Get("refresh_token")
  BY <1>1, <1>2, <1>3, SetStores DEF Keys
<1>5. /\ req' \in [Requests -> [pc: Stages, held: Entry]]
      /\ req'[r] = Idle /\ \A q \in Requests : q # r => req'[q] = req[q]
  BY <1>1, <1>3, RequestEnds
<1>6. AccountsTypeOK'
  BY <1>1, <1>3, <1>4, <1>5 DEF AccountsTypeOK, counters, Keys
<1>7. CodeKept'
  <2>. SUFFICES ASSUME "otp" \notin loose'
                PROVE  /\ OneForCode' /\ EntryTells' /\ HeldIsEntry'
                       /\ wrong' <= MaxAttempts /\ verified' <= 1
    BY Zenon DEF CodeKept
  <2>1. redis /\ "otp" \notin loose
    BY <1>3
  <2>2. OneForCode /\ EntryTells /\ HeldIsEntry
    BY <2>1, Zenon DEF CodeKept, AccountsInv
  <2>3. ~At(r, "idle") /\ KeyOf(req[r].pc) = "otp"
    BY DEF WrongCode, At, KeyOf
  <2>4. OneForCode' /\ HeldIsEntry'
    BY <1>5, <2>2, <2>3, LastForCode, Zenon DEF HeldIsEntry
  <2>5. /\ held = Get("otp") /\ Get("otp").value # 0 /\ Get("otp").attempts < MaxAttempts
    BY <2>2 DEF HeldIsEntry, WrongCode
  <2>6. /\ held.value = codes /\ verified = 0 /\ wrong = held.attempts
        /\ held.left # Forever /\ age + held.left = CodeLife
    BY <2>2, <2>5 DEF EntryTells
  <2>7. entry.left = held.left /\ wrong' = wrong + 1 /\ held.attempts < MaxAttempts
    BY <1>2, <1>3, <2>1, <2>5, <2>6 DEF KeptLeft
  <2>8. EntryTells'
    BY <1>2, <1>3, <1>4, <2>6, <2>7 DEF EntryTells
  <2>9. wrong \in Nat /\ MaxAttempts \in Nat
    BY <1>1, AccountsAssumption DEF AccountsTypeOK
  <2>10. wrong' <= MaxAttempts
    BY <2>6, <2>7, <2>9
  <2>11. verified' <= 1
    BY <1>3, <2>6
  <2>. QED
    BY <2>4, <2>8, <2>10, <2>11
<1>8. TokenKept'
  BY <1>3, <1>4 DEF TokenKept, AccountsInv
<1>9. TokensMade'
  BY <1>5, NoTokenMade, NoCodeKey DEF AccountsInv
<1>. QED
  BY <1>6, <1>7, <1>8, <1>9 DEF AccountsInv

\* What a request comes with.
LEMMA AskBrings ==
    ASSUME AccountsInv, NEW r \in Requests,
           NEW pc \in {"login", "logout", "refresh", "send", "verify"}, Ask(r, pc)
    PROVE  \E held \in Entry :
              Becomes(r, pc, held) /\ (pc = "login" => held.value \in Seconds)
<1>1. CASE pc = "login"
  <2>1. Becomes(r, pc, Token)
    BY <1>1 DEF Ask
  <2>. QED
    BY <2>1, TokenIsEntry DEF AccountsInv
<1>2. CASE pc = "refresh"
  <2>1. PICK sent \in issued : Becomes(r, pc, [None EXCEPT !.value = sent])
    BY <1>2 DEF Ask
  <2>2. sent \in Nat
    BY AccountsAssumption DEF AccountsInv, AccountsTypeOK, Seconds
  <2>3. [None EXCEPT !.value = sent] \in Entry
    BY <2>2, NoneIsEntry DEF Entry
  <2>. QED
    BY <1>2, <2>1, <2>3
<1>3. CASE pc \in {"logout", "send", "verify"}
  <2>1. Becomes(r, pc, None)
    BY <1>3 DEF Ask
  <2>. QED
    BY <1>3, <2>1, NoneIsEntry
<1>. QED
  BY <1>1, <1>2, <1>3

LEMMA AskKeeps ==
    ASSUME AccountsInv, NEW r \in Requests,
           NEW pc \in {"login", "logout", "refresh", "send", "verify"}, Ask(r, pc)
    PROVE  AccountsInv'
<1>0. PICK held \in Entry : Becomes(r, pc, held) /\ (pc = "login" => held.value \in Seconds)
  BY AskBrings
<1>1. pc \in Stages /\ pc # "rotate" /\ ops' = ops + 1 /\ ops < MaxOps
      /\ loose' = (IF Under(KeyOf(pc), r) THEN loose \cup {KeyOf(pc)} ELSE loose)
      /\ UNCHANGED <<store, redis, issued, codes, ticks, switches, spent, age, wrong, verified>>
  BY DEF Ask, Stages
<1>2. /\ req' \in [Requests -> [pc: Stages, held: Entry]]
      /\ req'[r] = [pc |-> pc, held |-> held]
      /\ \A q \in Requests : q # r => req'[q] = req[q]
  BY <1>0, <1>1, RequestGoes DEF AccountsInv
<1>3. Get("otp")' = Get("otp") /\ Get("refresh_token")' = Get("refresh_token")
  BY <1>1 DEF Get, Where
<1>4. KeyOf(pc) \in Keys
  BY DEF KeyOf, Keys
<1>5. AccountsTypeOK'
  BY <1>1, <1>2, <1>4, AccountsAssumption DEF AccountsInv, AccountsTypeOK
<1>6. CodeKept'
  <2>. SUFFICES ASSUME "otp" \notin loose'
                PROVE  /\ OneForCode' /\ EntryTells' /\ HeldIsEntry'
                       /\ wrong' <= MaxAttempts /\ verified' <= 1
    BY Zenon DEF CodeKept
  <2>1. "otp" \notin loose /\ (KeyOf(pc) = "otp" => ~Under("otp", r))
    BY <1>1
  <2>2. /\ OneForCode /\ EntryTells /\ HeldIsEntry
        /\ wrong <= MaxAttempts /\ verified <= 1
    BY <2>1, Zenon DEF CodeKept, AccountsInv
  <2>3. KeyOf(pc) = "otp" =>
           \A q \in Requests : q # r => At(q, "idle") \/ KeyOf(req[q].pc) # "otp"
    BY <2>1 DEF Under
  <2>4. req'[r].pc = pc
    BY <1>2
  <2>5. OneForCode'
    BY <1>2, <2>2, <2>3, <2>4 DEF OneForCode, At
  <2>6. EntryTells'
    BY <1>1, <1>3, <2>2 DEF EntryTells
  <2>7. HeldIsEntry'
    BY <1>2, <1>3, <2>2, <2>4 DEF HeldIsEntry, At
  <2>. QED
    BY <1>1, <2>2, <2>5, <2>6, <2>7
<1>7. TokenKept'
  BY <1>1, <1>3 DEF TokenKept, AccountsInv
<1>8. TokensMade'
  BY <1>0, <1>1, <1>2 DEF TokensMade, AccountsInv, Seconds
<1>. QED
  BY <1>5, <1>6, <1>7, <1>8 DEF AccountsInv

LEMMA TickKeeps ==
    ASSUME AccountsInv, Tick
    PROVE  AccountsInv'
<1>1. AccountsTypeOK
  BY DEF AccountsInv
<1>2. \A e \in Entry : /\ Aged(e) \in Entry
                       /\ Aged(e).value \in {0, e.value}
                       /\ Aged(e).value # 0 =>
                             /\ Aged(e).attempts = e.attempts
                             /\ e.left # Forever =>
                                   Aged(e).left = e.left - 1 /\ Aged(e).left # Forever
  BY NoneIsEntry DEF Aged, Entry, Forever
<1>3. \A s \in {"redis", "memory"}, k \in Keys :
         store[s][k] \in Entry /\ store'[s][k] = Aged(store[s][k])
  BY <1>1 DEF Tick, AccountsTypeOK
<1>4. store' \in [{"redis", "memory"} -> [Keys -> Entry]]
  BY <1>1, <1>2, <1>3 DEF Tick, AccountsTypeOK
<1>5. AccountsTypeOK'
  BY <1>1, <1>4, AccountsAssumption DEF Tick, AccountsTypeOK, Keys
<1>6. \A k \in Keys : Get(k) \in Entry /\ Get(k)' = Aged(Get(k))
  BY <1>3 DEF Get, Where, Tick
<1>7. CodeKept'
  <2>. SUFFICES ASSUME "otp" \notin loose'
                PROVE  /\ OneForCode' /\ EntryTells' /\ HeldIsEntry'
                       /\ wrong' <= MaxAttempts /\ verified' <= 1
    BY Zenon DEF CodeKept
  <2>1. "otp" \notin loose /\ \A r \in Requests : ~At(r, "compare")
    BY DEF Tick
  <2>2. /\ OneForCode /\ EntryTells /\ wrong <= MaxAttempts /\ verified <= 1
    BY <2>1, Zenon DEF CodeKept, AccountsInv
  <2>3. OneForCode' /\ HeldIsEntry'
    BY <2>1, <2>2 DEF Tick, OneForCode, HeldIsEntry, At
  <2>4. EntryTells'
    <3>. SUFFICES ASSUME Get("otp")'.value # 0
                  PROVE  /\ Get("otp")'.value = codes'
                         /\ verified' = 0
                         /\ wrong' = Get("otp")'.attempts
                         /\ Get("otp")'.left # Forever
                         /\ age' + Get("otp")'.left = CodeLife
      BY DEF EntryTells
    <3>1. Get("otp") \in Entry /\ Get("otp")' = Aged(Get("otp"))
      BY <1>6 DEF Keys
    <3>2. /\ Get("otp").value # 0 /\ Get("otp")'.value = Get("otp").value
          /\ Get("otp")'.attempts = Get("otp").attempts
          /\ Get("otp").left # Forever =>
                Get("otp")'.left = Get("otp").left - 1 /\ Get("otp")'.left # Forever
      BY <1>2, <3>1
    <3>3. /\ Get("otp").value = codes /\ verified = 0 /\ wrong = Get("otp").attempts
          /\ Get("otp").left # Forever /\ age + Get("otp").left = CodeLife
      BY <2>2, <3>2 DEF EntryTells
    <3>4. age \in Nat /\ Get("otp").left \in Nat /\ age' = age + 1
          /\ UNCHANGED <<codes, verified, wrong>>
      BY <1>1, <3>1 DEF Tick, AccountsTypeOK, Entry
    <3>. QED
      BY <3>2, <3>3, <3>4
  <2>. QED
    BY <2>2, <2>3, <2>4 DEF Tick
<1>8. TokenKept'
  <2>1. Get("refresh_token")'.value \in {0, Get("refresh_token").value}
    BY <1>2, <1>6 DEF Keys
  <2>2. 0 \notin spent
    BY <1>1, ZeroIsNoSecond DEF AccountsTypeOK
  <2>. QED
    BY <2>1, <2>2 DEF TokenKept, AccountsInv, Tick
<1>9. TokensMade'
  BY DEF TokensMade, AccountsInv, Tick, Seconds
<1>. QED
  BY <1>5, <1>7, <1>8, <1>9 DEF AccountsInv

LEMMA SwitchKeeps ==
    ASSUME AccountsInv, Switch
    PROVE  AccountsInv'
<1>1. AccountsTypeOK'
  BY AccountsAssumption DEF AccountsInv, AccountsTypeOK, Switch
<1>2. "otp" \in loose' /\ "refresh_token" \in loose'
  BY DEF Switch, Keys
<1>3. TokensMade'
  BY DEF TokensMade, AccountsInv, Switch, Seconds
<1>. QED
  BY <1>1, <1>2, <1>3 DEF AccountsInv, CodeKept, TokenKept

LEMMA AccountsRest ==
    ASSUME AccountsInv, UNCHANGED accountsVars
    PROVE  AccountsInv'
<1>1. UNCHANGED <<store, redis, req, issued, codes, ops, ticks, switches, spent, age, wrong,
                  verified, loose>>
  BY DEF accountsVars
<1>. QED
  BY <1>1 DEF AccountsInv, AccountsTypeOK, CodeKept, TokenKept, OneForCode, EntryTells,
              HeldIsEntry, TokensMade, Seconds, Get, Where, At

LEMMA AccountsStep ==
    ASSUME AccountsInv, AccountsNext
    PROVE  AccountsInv'
<1>1. ASSUME NEW r \in Requests, Serve(r) PROVE AccountsInv'
  <2>1. CASE LogIn(r)
    BY <2>1, LogInKeeps
  <2>2. CASE Refresh(r)
    BY <2>2, RefreshKeeps
  <2>3. CASE Rotate(r)
    BY <2>3, RotateKeeps
  <2>4. CASE LogOut(r)
    BY <2>4, LogOutKeeps
  <2>5. CASE SendCode(r)
    BY <2>5, SendCodeKeeps
  <2>6. CASE Verify(r)
    BY <2>6, VerifyKeeps
  <2>7. CASE Drop(r)
    BY <2>7, DropKeeps
  <2>8. CASE WrongCode(r)
    BY <2>8, WrongCodeKeeps
  <2>9. CASE RightCode(r)
    BY <2>9, RightCodeKeeps
  <2>. QED
    BY <1>1, <2>1, <2>2, <2>3, <2>4, <2>5, <2>6, <2>7, <2>8, <2>9 DEF Serve
<1>2. ASSUME NEW r \in Requests,
             NEW pc \in {"login", "logout", "refresh", "send", "verify"}, Ask(r, pc)
      PROVE  AccountsInv'
  BY <1>2, AskKeeps
<1>3. CASE Tick
  BY <1>3, TickKeeps
<1>4. CASE Switch
  BY <1>4, SwitchKeeps
<1>. QED
  BY <1>1, <1>2, <1>3, <1>4, Zenon DEF AccountsNext

LEMMA AccountsStarts ==
    ASSUME AccountsInit
    PROVE  AccountsInv
<1>1. AccountsTypeOK
  BY NoneIsEntry, AccountsAssumption
     DEF AccountsInit, AccountsTypeOK, Idle, Stages
<1>2. \A k \in Keys : Get(k) = None
  BY DEF AccountsInit, Get, Where
<1>3. CodeKept
  <2>1. \A r \in Requests : At(r, "idle")
    BY DEF AccountsInit, At, Idle
  <2>2. OneForCode /\ HeldIsEntry
    BY <2>1 DEF OneForCode, HeldIsEntry, At
  <2>3. EntryTells
    BY <1>2, NoneIsEntry DEF EntryTells, Keys
  <2>. QED
    BY <2>2, <2>3, AccountsAssumption DEF CodeKept, AccountsInit
<1>4. TokenKept
  BY <1>2 DEF TokenKept, AccountsInit
<1>5. TokensMade
  BY NoCodeKey DEF TokensMade, AccountsInit
<1>. QED
  BY <1>1, <1>3, <1>4, <1>5 DEF AccountsInv

LEMMA AccountsSafe ==
    ASSUME AccountsInv
    PROVE  CodeIsLimited
<1>. SUFFICES ASSUME "otp" \notin loose
              PROVE  /\ verified <= 1 /\ wrong <= MaxAttempts
                     /\ Get("otp").value # 0 => /\ Get("otp").value = codes
                                                /\ age < CodeLife /\ verified = 0
  BY DEF CodeIsLimited
<1>1. verified <= 1 /\ wrong <= MaxAttempts /\ EntryTells
  BY Zenon DEF AccountsInv, CodeKept
<1>2. Get("otp") \in Entry /\ age \in Nat /\ CodeLife \in Nat
  BY GetIsEntry, AccountsAssumption DEF AccountsInv, AccountsTypeOK, Keys
<1>. QED
  BY <1>1, <1>2 DEF EntryTells, Entry, Forever

\* Only refresh itself passes a token on, and it passes on the one that is stored.
LEMMA RefreshIsFresh ==
    ASSUME AccountsInv, AccountsNext, NEW r \in Requests, At(r, "refresh"), At(r, "rotate")'
    PROVE  req[r].held.value \notin spent \/ "refresh_token" \in loose
<1>1. ASSUME NEW q \in Requests, NEW pc \in Stages, NEW held \in Entry, Becomes(q, pc, held),
             pc # "rotate"
      PROVE  FALSE
  <2>1. req'[q] = [pc |-> pc, held |-> held] /\ \A p \in Requests : p # q => req'[p] = req[p]
    BY <1>1, RequestGoes DEF AccountsInv
  <2>. QED
    BY <1>1, <2>1 DEF At
<1>2. ASSUME NEW q \in Requests, Done(q) PROVE FALSE
  BY <1>2, RequestEnds DEF At, AccountsInv, Idle
<1>3. Refresh(r)
  <2>1. ASSUME NEW q \in Requests, Serve(q) PROVE Refresh(q)
    <3>1. ~LogIn(q) /\ ~Rotate(q)
      BY <1>2 DEF LogIn, Rotate, Issue
    <3>2. ~LogOut(q) /\ ~SendCode(q) /\ ~Drop(q) /\ ~WrongCode(q) /\ ~RightCode(q)
      BY <1>2 DEF LogOut, SendCode, Drop, WrongCode, RightCode
    <3>3. ~Verify(q)
      <4>. SUFFICES ASSUME Verify(q) PROVE FALSE
        OBVIOUS
      <4>. DEFINE pc == IF Get("otp").attempts >= MaxAttempts THEN "drop" ELSE "compare"
      <4>1. Get("otp").value = 0 => Done(q)
        BY DEF Verify
      <4>2. Get("otp").value # 0 => Becomes(q, pc, Get("otp"))
        BY DEF Verify
      <4>3. pc \in Stages /\ pc # "rotate" /\ Get("otp") \in Entry
        BY GetIsEntry DEF Stages, AccountsInv, Keys
      <4>. HIDE DEF pc
      <4>. QED
        BY <1>1, <1>2, <4>1, <4>2, <4>3
    <3>. QED
      BY <2>1, <3>1, <3>2, <3>3 DEF Serve
  <2>2. ASSUME NEW q \in Requests,
               NEW pc \in {"login", "logout", "refresh", "send", "verify"}, Ask(q, pc)
        PROVE  FALSE
    <3>1. PICK held \in Entry : Becomes(q, pc, held)
      BY <2>2, AskBrings
    <3>2. pc \in Stages /\ pc # "rotate"
      BY DEF Stages
    <3>. QED
      BY <1>1, <3>1, <3>2
  <2>3. ~Tick /\ ~Switch
    BY DEF Tick, Switch, At
  <2>4. PICK q \in Requests : Refresh(q)
    BY <2>1, <2>2, <2>3, Zenon DEF AccountsNext
  <2>5. q = r
    <3>1. Becomes(q, "rotate", Token) \/ Done(q)
      BY <2>4, Zenon DEF Refresh
    <3>2. q # r => req'[r] = req[r]
      BY <3>1 DEF Becomes, Done, AccountsInv, AccountsTypeOK
    <3>. QED
      BY <3>2 DEF At
  <2>. QED
    BY <2>4, <2>5
<1>4. Get("refresh_token").value = req[r].held.value
  BY <1>2, <1>3 DEF Refresh
<1>. QED
  BY <1>4 DEF AccountsInv, TokenKept

-----------------------------------------------------------------------------
(***************************************************************************)
(* The frontend: first what is true of the pages and of the requests, then *)
(* of a step of one tab.                                                   *)
(***************************************************************************)
\* Where a run can be triggered there is nothing to choose.
LEMMA PagesTell ==
    /\ LoginPage \notin DOMAIN Pages /\ "dashboard" \in DOMAIN Pages
    /\ 1 \in Pages["dashboard"].loads
    /\ Triggering \subseteq DOMAIN Pages
    /\ \A page \in DOMAIN Pages :
          /\ 1 \in Pages[page].choices
          /\ Pages[page].reload \subseteq {"done", "always", "never"}
          /\ page \in Triggering => Pages[page].choices = {1}
  BY DEF Triggering, Pages, LoginPage, Page, DashboardPage, PassengersPage, ApplicationsPage, GhostsPage,
         ICPPage, ReconciliationPage, ImportPage, AuditPage, SettingsPage

LEMMA EndedIsRequest ==
    /\ Ended \in Request /\ Ended.tab = NoTab /\ Ended.state = "over" /\ Ended.kind = "over"
    /\ Ended.token = 0 /\ Ended.changes = 0
  BY DEF Ended, Request

LEMMA EndedIsOK ==
    ASSUME ConsoleTypeOK
    PROVE  RequestOK(Ended)
  BY EndedIsRequest DEF RequestOK, ConsoleTypeOK

\* One entry of a sequence is replaced.
LEMMA Replaced ==
    ASSUME NEW s \in Seq(Request), NEW i \in DOMAIN s, NEW n \in Request
    PROVE  LET z == [s EXCEPT ![i] = n]
           IN  /\ z \in Seq(Request) /\ Len(z) = Len(s) /\ z[i] = n
               /\ \A j \in 1 .. Len(s) : j # i => z[j] = s[j]
  OBVIOUS

LEMMA Appended ==
    ASSUME NEW s \in Seq(Request), NEW n \in Request
    PROVE  LET z == Append(s, n)
           IN  /\ z \in Seq(Request) /\ Len(z) = Len(s) + 1 /\ z[Len(s) + 1] = n
               /\ \A j \in 1 .. Len(s) : z[j] = s[j]
  OBVIOUS

\* A step of tab t: of the requests it changes those of t only, or adds some.
RequestsStep(t) ==
    /\ requests' \in Seq(Request) /\ Len(requests') \in Len(requests) .. MaxRequests
    /\ \A j \in 1 .. Len(requests') :
          \/ j <= Len(requests) /\ requests'[j] = requests[j]
          \/ /\ requests'[j].tab \in {t, NoTab}
             /\ j <= Len(requests) => requests[j].tab = t

TabStep(t) ==
    /\ tab' \in [Tabs -> Tab] /\ upset' \in [Tabs -> SUBSET Causes]
    /\ \A u \in Tabs : u # t => tab'[u] = tab[u] /\ upset'[u] = upset[u]
    /\ tab[t].visit <= tab'[t].visit
    /\ tab'[t].visit = tab[t].visit => tab'[t].at = tab[t].at

CountStep ==
    /\ logins' \in logins .. MaxLogins /\ token' \in 0 .. logins' /\ expired' = expired
    /\ changes' \in Nat /\ changes <= changes'
    /\ runs' \subseteq Tabs \X Nat \X Nat
    /\ failures' \in 0 .. MaxFailures

StepOf(t) == RequestsStep(t) /\ TabStep(t) /\ CountStep

\* Requests of a tab that the step leaves alone.
LEMMA RequestStays ==
    ASSUME ConsoleTypeOK, NEW t \in Tabs, StepOf(t), NEW r, RequestOK(r)
    PROVE  RequestOK(r)'
<1>1. r \in Request /\ r.tab \in Tabs \cup {NoTab} /\ r.visit \in Nat /\ r.token \in Nat
      /\ r.changes \in Nat
  BY DEF RequestOK, Request
<1>2. \A u \in Tabs : /\ tab[u].visit \in Nat /\ tab'[u].visit \in Nat
                      /\ tab[u].visit <= tab'[u].visit
                      /\ tab'[u].visit = tab[u].visit => tab'[u].at = tab[u].at
  <2>. SUFFICES ASSUME NEW u \in Tabs
                PROVE  /\ tab[u].visit \in Nat /\ tab'[u].visit \in Nat
                       /\ tab[u].visit <= tab'[u].visit
                       /\ tab'[u].visit = tab[u].visit => tab'[u].at = tab[u].at
    OBVIOUS
  <2>1. tab[u].visit \in Nat /\ tab'[u].visit \in Nat
    BY DEF StepOf, RequestsStep, TabStep, CountStep, ConsoleTypeOK, Tab
  <2>2. CASE u = t
    BY <2>1, <2>2 DEF StepOf, RequestsStep, TabStep, CountStep
  <2>3. CASE u # t
    BY <2>1, <2>3 DEF StepOf, RequestsStep, TabStep, CountStep
  <2>. QED
    BY <2>2, <2>3
<1>3. r.tab # NoTab => /\ r.visit <= tab'[r.tab].visit
                       /\ r.visit = tab'[r.tab].visit => r.page = tab'[r.tab].at
  BY <1>1, <1>2 DEF RequestOK
<1>4. r.token <= logins' /\ r.changes <= changes' /\ expired' = expired
  BY <1>1 DEF StepOf, RequestsStep, TabStep, CountStep, ConsoleTypeOK, RequestOK
<1>. QED
  BY <1>3, <1>4 DEF RequestOK

LEMMA PageStays ==
    ASSUME ConsoleTypeOK, NEW t \in Tabs, PageKept(t), tab'[t] = tab[t], upset'[t] = upset[t],
           DOMAIN requests \subseteq DOMAIN requests',
           \A k \in OfPage(t) : requests[k].kind = "load" \/ Due(k) =>
              requests'[k].tab = t /\ requests'[k].visit = requests[k].visit,
           \A k \in OfPage(t) : Due(k) => Due(k)',
           \A k \in OfPage(t) : requests[k].kind = "load" =>
              /\ requests'[k].kind = "load"
              /\ requests'[k].choice = requests[k].choice
              /\ requests'[k].state = "answered" =>
                    \/ requests[k].state = "answered"
                       /\ requests'[k].changes = requests[k].changes
                    \/ tab[t].own <= requests'[k].changes,
           \A j \in DOMAIN requests' :
              requests'[j].tab = t /\ requests'[j].visit = tab[t].visit
                 /\ requests'[j].kind = "load"
              => j \in OfPage(t) /\ requests[j].kind = "load"
    PROVE  PageKept(t)'
<1>. SUFFICES ASSUME (tab[t].at # LoginPage)', upset'[t] = {},
                     (tab[t].choice \in On(t).loads)'
              PROVE  /\ ShownRight(t)' \/ Coming(t, tab[t].latest)'
                     /\ \A j \in OfPage(t)' :
                           requests'[j].kind = "load" /\ j > tab'[t].latest =>
                              Right(t, j)' \/ Coming(t, j)'
  BY Zenon DEF PageKept
<1>1. /\ ShownRight(t) \/ Coming(t, tab[t].latest)
      /\ \A j \in OfPage(t) :
            requests[j].kind = "load" /\ j > tab[t].latest => Right(t, j) \/ Coming(t, j)
  BY DEF PageKept, On
<1>2. \A k \in OfPage(t) : requests[k].kind = "load" \/ Due(k) => k \in OfPage(t)'
  BY DEF OfPage
<1>3. \A k \in OfPage(t) : Right(t, k) => Right(t, k)'
  BY DEF Right
<1>4. ASSUME NEW j, Coming(t, j) PROVE Coming(t, j)'
  <2>1. PICK k \in OfPage(t) : Due(k) \/ (k > j /\ Right(t, k))
    BY <1>4 DEF Coming
  <2>2. Right(t, k) => requests[k].kind = "load"
    BY DEF Right
  <2>3. k \in OfPage(t)' /\ (Due(k)' \/ (k > j /\ Right(t, k)'))
    BY <1>2, <1>3, <2>1, <2>2
  <2>. QED
    BY <2>3, Zenon DEF Coming
<1>5. ShownRight(t)' \/ Coming(t, tab[t].latest)'
  <2>1. CASE ShownRight(t)
    BY <2>1 DEF ShownRight
  <2>2. CASE Coming(t, tab[t].latest)
    <3>1. PICK l : l = tab[t].latest
      OBVIOUS
    <3>2. Coming(t, l)'
      BY <1>4, <2>2, <3>1
    <3>. QED
      BY <3>1, <3>2 DEF Coming
  <2>. QED
    BY <1>1, <2>1, <2>2
<1>6. ASSUME NEW j \in OfPage(t)', requests'[j].kind = "load", j > tab'[t].latest
      PROVE  Right(t, j)' \/ Coming(t, j)'
  <2>1. j \in OfPage(t) /\ requests[j].kind = "load"
    BY <1>6 DEF OfPage
  <2>2. Right(t, j) \/ Coming(t, j)
    BY <1>1, <1>6, <2>1
  <2>. QED
    BY <1>3, <1>4, <2>1, <2>2
<1>. QED
  BY <1>5, <1>6

\* The last request is a load that will be right, or a timer is set.
LEMMA PageRenewed ==
    ASSUME NEW t \in Tabs, requests' \in Seq(Request), tab' \in [Tabs -> Tab],
           NEW k \in DOMAIN requests',
           requests'[k].tab = t, requests'[k].visit = tab'[t].visit,
           \/ Due(k)'
           \/ /\ k = Len(requests') /\ k > tab'[t].latest
              /\ requests'[k].kind = "load" /\ requests'[k].choice = tab'[t].choice
              /\ requests'[k].state = "sent"
    PROVE  PageKept(t)'
<1>1. k \in OfPage(t)'
  BY DEF OfPage
<1>2. CASE Due(k)'
  BY <1>1, <1>2 DEF PageKept, Coming
<1>3. CASE k = Len(requests') /\ k > tab'[t].latest /\ Right(t, k)'
  <2>1. Coming(t, tab[t].latest)'
    BY <1>1, <1>3 DEF Coming
  <2>2. \A j \in OfPage(t)' : j = k \/ k > j
    BY <1>3 DEF OfPage
  <2>3. \A j \in OfPage(t)' : Right(t, j)' \/ Coming(t, j)'
    BY <1>1, <1>3, <2>2 DEF Coming
  <2>. QED
    BY <2>1, <2>3 DEF PageKept
<1>4. requests'[k].kind = "load" /\ requests'[k].choice = tab'[t].choice
      /\ requests'[k].state = "sent" => Right(t, k)'
  BY DEF Right
<1>. QED
  BY <1>2, <1>3, <1>4

LEMMA TabStays ==
    ASSUME ConsoleInv, NEW t \in Tabs, RequestsStep(t), NEW u \in Tabs,
           tab'[u].at = tab[u].at, tab'[u].latest = tab[u].latest,
           tab'[u].choice = tab[u].choice, tab'[u].own <= changes'
    PROVE  TabOK(u)'
<1>1. /\ TabOK(u) /\ tab[u].latest \in Nat /\ Len(requests) \in Nat
      /\ requests \in Seq(Request) /\ NoTab \notin Tabs
  BY ConsoleAssumption, SMTT(30) DEF ConsoleInv, ConsoleTypeOK, Tab
<1>2. tab'[u].latest <= Len(requests')
  BY <1>1 DEF TabOK, RequestsStep
<1>3. ASSUME tab[u].latest > 0 PROVE requests'[tab[u].latest].tab = NoTab
  <2>1. PICK l \in 1 .. Len(requests) : l = tab[u].latest
    BY <1>1, <1>3 DEF TabOK
  <2>2. requests[l].tab = NoTab /\ l \in 1 .. Len(requests')
    BY <1>1, <1>3, <2>1 DEF TabOK, RequestsStep
  <2>3. requests'[l] = requests[l]
    BY <1>1, <2>2 DEF RequestsStep
  <2>. QED
    BY <2>1, <2>2, <2>3
<1>. QED
  BY <1>1, <1>2, <1>3 DEF TabOK, On

LEMMA StepKeeps ==
    ASSUME ConsoleInv, NEW t \in Tabs, StepOf(t),
           \A j \in 1 .. Len(requests') :
              (j <= Len(requests) /\ requests'[j] = requests[j]) \/ RequestOK(requests[j])',
           TabOK(t)', PageKept(t)'
    PROVE  ConsoleInv'
<1>0. ConsoleTypeOK /\ requests \in Seq(Request) /\ Len(requests) \in Nat
      /\ NoTab \notin Tabs
  BY ConsoleAssumption DEF ConsoleInv, ConsoleTypeOK
<1>a. /\ logins' \in 0 .. MaxLogins /\ token' \in 0 .. logins' /\ expired' \subseteq 1 .. logins'
      /\ failures' \in 0 .. MaxFailures
  <2>1. /\ logins \in 0 .. MaxLogins /\ expired \subseteq 1 .. logins
        /\ logins' \in logins .. MaxLogins /\ expired' = expired
        /\ token' \in 0 .. logins' /\ failures' \in 0 .. MaxFailures
    BY <1>0 DEF StepOf, CountStep, ConsoleTypeOK
  <2>. QED
    BY <2>1, ConsoleAssumption
<1>b. requests' \in Seq(Request) /\ Len(requests') <= MaxRequests
  <2>1. requests' \in Seq(Request) /\ Len(requests') \in Len(requests) .. MaxRequests
    BY DEF StepOf, RequestsStep
  <2>. QED
    BY <1>0, <2>1, ConsoleAssumption
<1>c. /\ changes' \in Nat /\ runs' \subseteq Tabs \X Nat \X Nat
      /\ tab' \in [Tabs -> Tab] /\ upset' \in [Tabs -> SUBSET Causes]
  BY DEF StepOf, CountStep, TabStep
<1>1. ConsoleTypeOK'
  BY <1>a, <1>b, <1>c DEF ConsoleTypeOK
<1>2. \A i \in DOMAIN requests' : RequestOK(requests[i])'
  <2>. SUFFICES ASSUME NEW i \in DOMAIN requests', i <= Len(requests),
                       requests'[i] = requests[i]
                PROVE  RequestOK(requests[i])'
    BY <1>0 DEF StepOf, RequestsStep, TabStep, CountStep
  <2>1. PICK r : r = requests[i]
    OBVIOUS
  <2>2. RequestOK(r)
    BY <1>0, <2>1 DEF StepOf, RequestsStep, TabStep, CountStep, ConsoleInv
  <2>3. RequestOK(r)' /\ r = requests'[i]
    BY <1>0, <2>1, <2>2, RequestStays
  <2>. QED
    BY <2>3
<1>3. \A u \in Tabs : TabOK(u)'
  <2>. SUFFICES ASSUME NEW u \in Tabs, u # t PROVE TabOK(u)'
    OBVIOUS
  <2>1. TabOK(u) /\ tab'[u] = tab[u] /\ tab[u].own \in Nat /\ changes \in Nat
    BY <1>0 DEF ConsoleInv, StepOf, TabStep, ConsoleTypeOK, Tab
  <2>2. tab'[u].own <= changes'
    <3>1. changes' \in Nat /\ changes <= changes' /\ tab[u].own <= changes
      BY <2>1 DEF TabOK, StepOf, CountStep
    <3>. QED
      BY <2>1, <3>1
  <2>. QED
    BY <2>1, <2>2, TabStays DEF StepOf
<1>4. \A u \in Tabs : PageKept(u)'
  <2>. SUFFICES ASSUME NEW u \in Tabs, u # t PROVE PageKept(u)'
    OBVIOUS
  <2>1. PageKept(u) /\ tab'[u] = tab[u] /\ upset'[u] = upset[u]
    BY DEF ConsoleInv, StepOf, TabStep
  <2>2. DOMAIN requests \subseteq DOMAIN requests' /\ DOMAIN requests' = 1 .. Len(requests')
    BY <1>0 DEF StepOf, RequestsStep
  <2>3. \A k \in OfPage(u) : requests'[k] = requests[k]
    BY <1>0, <2>2 DEF OfPage, StepOf, RequestsStep
  <2>4. \A j \in DOMAIN requests' :
           requests'[j].tab = u => j \in DOMAIN requests /\ requests'[j] = requests[j]
    BY <1>0, <2>2 DEF StepOf, RequestsStep
  <2>5. \A k \in OfPage(u) : requests'[k].tab = u
    BY <2>3 DEF OfPage
  <2>6. \A k \in OfPage(u) : Due(k) => Due(k)'
    BY <2>3 DEF Due
  <2>7. \A j \in DOMAIN requests' :
           requests'[j].tab = u /\ requests'[j].visit = tab[u].visit
              /\ requests'[j].kind = "load"
           => j \in OfPage(u) /\ requests[j].kind = "load"
    BY <2>4 DEF OfPage
  <2>. QED
    BY <1>0, <2>1, <2>2, <2>3, <2>5, <2>6, <2>7, PageStays
<1>. QED
  BY <1>1, <1>2, <1>3, <1>4 DEF ConsoleInv

\* One request is replaced, ...
LEMMA ReplacesOne ==
    ASSUME ConsoleTypeOK, NEW t \in Tabs, NEW i \in DOMAIN requests, requests[i].tab = t,
           NEW n \in Request, n.tab \in {t, NoTab}, requests' = [requests EXCEPT ![i] = n]
    PROVE  /\ RequestsStep(t)
           /\ requests' \in Seq(Request) /\ Len(requests') = Len(requests)
           /\ DOMAIN requests' = 1 .. Len(requests) /\ DOMAIN requests = 1 .. Len(requests)
           /\ requests'[i] = n
           /\ \A j \in 1 .. Len(requests) : j # i => requests'[j] = requests[j]
<1>1. /\ requests \in Seq(Request) /\ Len(requests) \in Nat /\ Len(requests) <= MaxRequests
      /\ MaxRequests \in Nat
  BY ConsoleAssumption DEF ConsoleTypeOK
<1>2. /\ requests' \in Seq(Request) /\ Len(requests') = Len(requests) /\ requests'[i] = n
      /\ \A j \in 1 .. Len(requests) : j # i => requests'[j] = requests[j]
  BY <1>1, Replaced
<1>. QED
  BY <1>1, <1>2 DEF RequestsStep

\* ... one is added, ...
LEMMA AddsOne ==
    ASSUME ConsoleTypeOK, Room, NEW t \in Tabs, NEW n \in Request, n.tab = t,
           requests' = Append(requests, n)
    PROVE  /\ RequestsStep(t)
           /\ requests' \in Seq(Request) /\ Len(requests') = Len(requests) + 1
           /\ DOMAIN requests' = 1 .. Len(requests) + 1 /\ DOMAIN requests = 1 .. Len(requests)
           /\ requests'[Len(requests) + 1] = n
           /\ \A j \in 1 .. Len(requests) : requests'[j] = requests[j]
<1>1. /\ requests \in Seq(Request) /\ Len(requests) \in Nat /\ Len(requests) < MaxRequests
      /\ MaxRequests \in Nat
  BY ConsoleAssumption DEF ConsoleTypeOK, Room
<1>2. /\ requests' \in Seq(Request) /\ Len(requests') = Len(requests) + 1
      /\ requests'[Len(requests) + 1] = n
      /\ \A j \in 1 .. Len(requests) : requests'[j] = requests[j]
  BY <1>1, Appended
<1>. QED
  BY <1>1, <1>2 DEF RequestsStep

\* Requests of a tab that are over, when its page is another.
Ends(t, rs) ==
    /\ rs \in Seq(Request) /\ Len(rs) = Len(requests)
    /\ \A j \in 1 .. Len(requests) :
          rs[j] = requests[j] \/ (rs[j] = Ended /\ requests[j].tab = t)

Adds(rs, n) == requests' = Append(rs, n)

\* The requests with one more, and some of a tab over.
Grown(t, n) ==
    /\ RequestsStep(t)
    /\ requests' \in Seq(Request) /\ Len(requests') = Len(requests) + 1
    /\ DOMAIN requests' = 1 .. Len(requests) + 1 /\ DOMAIN requests = 1 .. Len(requests)
    /\ requests'[Len(requests) + 1] = n
    /\ \A j \in 1 .. Len(requests) :
          requests'[j] = requests[j] \/ (requests'[j] = Ended /\ requests[j].tab = t)

\* ... or some of a tab are over and one is added.
LEMMA EndsAndAdds ==
    ASSUME ConsoleTypeOK, Room, NEW t \in Tabs, NEW n \in Request, n.tab = t,
           NEW rs, Ends(t, rs), Adds(rs, n)
    PROVE  Grown(t, n)
<1>1. /\ requests \in Seq(Request) /\ Len(requests) \in Nat /\ Len(requests) < MaxRequests
      /\ MaxRequests \in Nat /\ DOMAIN requests = 1 .. Len(requests)
  BY ConsoleAssumption DEF ConsoleTypeOK, Room
<1>0. /\ rs \in Seq(Request) /\ Len(rs) = Len(requests)
      /\ \A j \in 1 .. Len(requests) :
            rs[j] = requests[j] \/ (rs[j] = Ended /\ requests[j].tab = t)
  BY DEF Ends
<1>2. /\ requests' \in Seq(Request) /\ Len(requests') = Len(requests) + 1
      /\ requests'[Len(requests) + 1] = n
      /\ \A j \in 1 .. Len(requests) : requests'[j] = rs[j]
  BY <1>0, <1>1, Appended DEF Adds
<1>3. \A j \in 1 .. Len(requests) :
         requests'[j] = requests[j] \/ (requests'[j] = Ended /\ requests[j].tab = t)
  BY <1>0, <1>2
<1>4. RequestsStep(t)
  BY <1>1, <1>2, <1>3, EndedIsRequest DEF RequestsStep
<1>. QED
  BY <1>1, <1>2, <1>3, <1>4 DEF Grown

LEMMA TabsRest ==
    ASSUME ConsoleTypeOK, NEW t \in Tabs, UNCHANGED <<tab, upset>>
    PROVE  TabStep(t)
  BY DEF ConsoleTypeOK, TabStep, Tab

LEMMA TabGoes ==
    ASSUME ConsoleTypeOK, NEW t \in Tabs, NEW r \in Tab, TabBecomes(t, r),
           NEW S \in SUBSET Causes, upset' = [upset EXCEPT ![t] = S],
           \/ r.visit = tab[t].visit + 1
           \/ r.visit = tab[t].visit /\ r.at = tab[t].at
    PROVE  TabStep(t) /\ tab'[t] = r /\ upset'[t] = S
<1>1. tab[t].visit \in Nat /\ r.visit \in Nat
  BY DEF ConsoleTypeOK, Tab
<1>2. tab'[t] = r /\ upset'[t] = S
  BY DEF ConsoleTypeOK, TabBecomes
<1>3. tab' \in [Tabs -> Tab] /\ upset' \in [Tabs -> SUBSET Causes]
  BY DEF ConsoleTypeOK, TabBecomes
<1>4. \A u \in Tabs : u # t => tab'[u] = tab[u] /\ upset'[u] = upset[u]
  BY DEF ConsoleTypeOK, TabBecomes
<1>. QED
  BY <1>1, <1>2, <1>3, <1>4 DEF TabStep

LEMMA CountsRest ==
    ASSUME ConsoleTypeOK, UNCHANGED <<logins, expired, changes, runs, failures>>,
           token' \in 0 .. logins
    PROVE  CountStep
  BY ConsoleAssumption DEF ConsoleTypeOK, CountStep

\* What there is to know of a request that is under way.
LEMMA UnderWay ==
    ASSUME ConsoleInv, NEW i \in DOMAIN requests, requests[i].state # "over"
    PROVE  /\ ConsoleTypeOK /\ RequestOK(requests[i]) /\ requests[i] \in Request
           /\ requests[i].tab \in Tabs
           /\ TabOK(requests[i].tab) /\ PageKept(requests[i].tab)
<1>1. RequestOK(requests[i]) /\ ConsoleTypeOK
  BY DEF ConsoleInv
<1>2. requests[i] \in Request /\ requests[i].tab # NoTab
  BY <1>1 DEF RequestOK
<1>3. requests[i].tab \in Tabs
  BY <1>2 DEF Request
<1>. QED
  BY <1>1, <1>2, <1>3 DEF ConsoleInv

\* A new request, as a record.
LEMMA NewIsRequest ==
    ASSUME ConsoleInv, NEW kind \in {"login", "load", "act", "trigger"}, NEW t \in Tabs,
           NEW choice \in 1 .. 2
    PROVE  LET n == New(kind, t, choice)
           IN  /\ n \in Request /\ n.kind = kind /\ n.tab = t /\ n.visit = tab[t].visit
               /\ n.choice = choice /\ n.page = tab[t].at
               /\ n.token = (IF kind = "login" THEN 0 ELSE token)
               /\ n.changes = 0 /\ n.state = "sent"
  BY DEF New, Request, ConsoleInv, ConsoleTypeOK, Tab

LEMMA NewIsOK ==
    ASSUME ConsoleInv, NEW kind \in {"login", "load", "act", "trigger"}, NEW t \in Tabs,
           NEW choice \in 1 .. 2, kind # "login" => tab[t].at # LoginPage,
           kind = "trigger" => tab[t].at \in Triggering /\ choice = 1,
           NEW n, n = New(kind, t, choice), tab'[t].visit = tab[t].visit,
           tab'[t].at = tab[t].at, UNCHANGED <<logins, changes>>
    PROVE  RequestOK(n)'
<1>1. /\ n \in Request /\ n.kind = kind /\ n.tab = t /\ n.visit = tab[t].visit
      /\ n.choice = choice /\ n.page = tab[t].at
      /\ n.token = (IF kind = "login" THEN 0 ELSE token) /\ n.changes = 0 /\ n.state = "sent"
  BY NewIsRequest
<1>2. token <= logins /\ logins \in Nat /\ changes \in Nat /\ tab[t].visit \in Nat
      /\ tab[t].at \in DOMAIN Pages \cup {LoginPage} /\ NoTab # t
  BY ConsoleAssumption DEF ConsoleInv, ConsoleTypeOK, Tab
<1>. QED
  BY <1>1, <1>2 DEF RequestOK
-----------------------------------------------------------------------------
(***************************************************************************)
(* The actions of the frontend.                                            *)
(***************************************************************************)
\* A page of a tab to which nothing of its own is added keeps what it has.
LEMMA PageSeesNothing ==
    ASSUME ConsoleTypeOK, NEW t \in Tabs, PageKept(t), RequestsStep(t), tab'[t] = tab[t],
           upset'[t] = upset[t],
           \A k \in OfPage(t) :
              requests[k].kind = "load" \/ Due(k) => requests'[k] = requests[k],
           \A j \in DOMAIN requests' :
              \/ j \in DOMAIN requests /\ requests'[j] = requests[j]
              \/ requests'[j].kind # "load"
              \/ requests'[j].visit # tab[t].visit
    PROVE  PageKept(t)'
<1>1. DOMAIN requests \subseteq DOMAIN requests'
  BY DEF RequestsStep, ConsoleTypeOK
<1>2. \A j \in DOMAIN requests' :
         requests'[j].tab = t /\ requests'[j].visit = tab[t].visit
            /\ requests'[j].kind = "load"
         => j \in OfPage(t) /\ requests[j].kind = "load"
  BY DEF OfPage
<1>3. \A k \in OfPage(t) : requests[k].kind = "load" \/ Due(k) =>
         /\ requests'[k].tab = t /\ requests'[k].visit = requests[k].visit
         /\ requests'[k].kind = requests[k].kind /\ requests'[k].choice = requests[k].choice
         /\ requests'[k].changes = requests[k].changes
         /\ requests'[k].state = requests[k].state
  BY DEF OfPage
<1>4. \A k \in OfPage(t) : Due(k) => Due(k)'
  BY <1>3 DEF Due
<1>. QED
  BY <1>1, <1>2, <1>3, <1>4, PageStays

\* A step that ends requests and writes one: it is enough to look at that one.
LEMMA OneIsNew ==
    ASSUME ConsoleTypeOK, CountStep, requests' \in Seq(Request),
           NEW k \in 1 .. Len(requests'), NEW m, requests'[k] = m, RequestOK(m)',
           \A j \in 1 .. Len(requests') :
              \/ j = k
              \/ j <= Len(requests) /\ (requests'[j] = requests[j] \/ requests'[j] = Ended)
    PROVE  \A j \in 1 .. Len(requests') :
              (j <= Len(requests) /\ requests'[j] = requests[j]) \/ RequestOK(requests[j])'
<1>1. RequestOK(Ended)'
  BY EndedIsRequest DEF RequestOK, CountStep, ConsoleTypeOK
<1>. TAKE j \in 1 .. Len(requests')
<1>2. CASE j = k
  BY <1>2
<1>3. CASE requests'[j] = Ended
  BY <1>1, <1>3
<1>. QED
  BY <1>2, <1>3

LEMMA SignInKeeps ==
    ASSUME ConsoleInv, NEW t \in Tabs, SignIn(t)
    PROVE  ConsoleInv'
<1>1. /\ ConsoleTypeOK /\ Room /\ tab[t].at = LoginPage /\ TabOK(t) /\ PageKept(t)
      /\ requests' = Append(requests, New("login", t, 1))
      /\ UNCHANGED <<token, logins, expired, changes, runs, tab, failures, upset>>
  BY DEF SignIn, ConsoleInv
<1>2. PICK n : n = New("login", t, 1)
  OBVIOUS
<1>3. n \in Request /\ n.tab = t
  BY <1>2, NewIsRequest
<1>4. /\ RequestsStep(t) /\ requests' \in Seq(Request)
      /\ Len(requests') = Len(requests) + 1 /\ requests'[Len(requests) + 1] = n
      /\ \A j \in 1 .. Len(requests) : requests'[j] = requests[j]
  BY <1>1, <1>2, <1>3, AddsOne
<1>5. StepOf(t)
  BY <1>1, <1>4, TabsRest, CountsRest DEF StepOf, ConsoleTypeOK
<1>6. RequestOK(n)'
  BY <1>1, <1>2, NewIsOK
<1>7. \A j \in 1 .. Len(requests') :
         (j <= Len(requests) /\ requests'[j] = requests[j]) \/ RequestOK(requests[j])'
  <2>1. Len(requests) \in Nat
    BY <1>1 DEF ConsoleTypeOK
  <2>2. /\ Len(requests) + 1 \in 1 .. Len(requests')
        /\ \A j \in 1 .. Len(requests') : j = Len(requests) + 1 \/ j \in 1 .. Len(requests)
    BY <1>4, <2>1
  <2>. QED
    BY <1>1, <1>4, <1>5, <1>6, <2>1, <2>2, OneIsNew DEF StepOf
<1>8. TabOK(t)'
  BY <1>1, <1>4, TabStays DEF TabOK
<1>9. PageKept(t)'
  BY <1>1 DEF PageKept
<1>. QED
  BY <1>5, <1>7, <1>8, <1>9, StepKeeps

LEMMA ActKeeps ==
    ASSUME ConsoleInv, NEW t \in Tabs, Act(t)
    PROVE  ConsoleInv'
<1>. DEFINE choice == tab[t].choice
<1>1. /\ ConsoleTypeOK /\ Room /\ tab[t].at # LoginPage /\ TabOK(t) /\ PageKept(t)
      /\ choice \in On(t).choices /\ choice \in 1 .. 2
      /\ UNCHANGED <<token, logins, expired, changes, runs, tab, failures, upset>>
  BY DEF Act, ConsoleInv, ConsoleTypeOK, Tab, TabOK
<1>2. PICK kind \in {"act", "trigger"} :
         /\ requests' = Append(requests, New(kind, t, choice))
         /\ kind = "trigger" => tab[t].at \in Triggering
  BY DEF Act
<1>. HIDE DEF choice
<1>0. PICK n : n = New(kind, t, choice)
  OBVIOUS
<1>3. n \in Request /\ n.tab = t /\ n.kind # "load"
  BY <1>0, <1>1, NewIsRequest
<1>4. /\ RequestsStep(t) /\ requests' \in Seq(Request)
      /\ Len(requests') = Len(requests) + 1 /\ requests'[Len(requests) + 1] = n
      /\ DOMAIN requests' = 1 .. Len(requests) + 1 /\ DOMAIN requests = 1 .. Len(requests)
      /\ \A j \in 1 .. Len(requests) : requests'[j] = requests[j]
  BY <1>0, <1>1, <1>2, <1>3, AddsOne
<1>5. StepOf(t)
  BY <1>1, <1>4, TabsRest, CountsRest DEF StepOf, ConsoleTypeOK
<1>6. RequestOK(n)'
  <2>1. kind = "trigger" => choice = 1
    BY <1>1, <1>2, PagesTell DEF On
  <2>. QED
    BY <1>0, <1>1, <1>2, <2>1, NewIsOK
<1>7. Len(requests) \in Nat /\ \A j \in 1 .. Len(requests') :
         j = Len(requests) + 1 \/ j \in 1 .. Len(requests)
  BY <1>1, <1>4 DEF ConsoleTypeOK
<1>8. \A j \in 1 .. Len(requests') :
         (j <= Len(requests) /\ requests'[j] = requests[j]) \/ RequestOK(requests[j])'
  BY <1>1, <1>4, <1>5, <1>6, <1>7, OneIsNew DEF StepOf
<1>9. TabOK(t)'
  BY <1>1, <1>4, TabStays DEF TabOK
<1>10. PageKept(t)'
  <2>1. \A k \in OfPage(t) : requests'[k] = requests[k]
    BY <1>4 DEF OfPage
  <2>2. \A j \in DOMAIN requests' :
           (j \in DOMAIN requests /\ requests'[j] = requests[j]) \/ requests'[j].kind # "load"
    BY <1>3, <1>4, <1>7
  <2>. QED
    BY <1>1, <1>4, <2>1, <2>2, PageSeesNothing
<1>. QED
  BY <1>5, <1>8, <1>9, <1>10, StepKeeps

LEMMA ChooseKeeps ==
    ASSUME ConsoleInv, NEW t \in Tabs, NEW choice \in 1 .. 2, Choose(t, choice)
    PROVE  ConsoleInv'
<1>. DEFINE r == [tab[t] EXCEPT !.choice = choice]
<1>1. /\ ConsoleTypeOK /\ Room /\ tab[t].at # LoginPage /\ TabOK(t)
      /\ choice \in On(t).choices /\ TabBecomes(t, r)
      /\ requests' = (IF choice \in On(t).loads
                      THEN Append(requests, New("load", t, choice)) ELSE requests)
      /\ UNCHANGED <<token, logins, expired, changes, runs, failures, upset>>
  BY DEF Choose, ConsoleInv
<1>2. tab[t] \in Tab /\ upset[t] \in SUBSET Causes /\ token \in 0 .. logins
      /\ Len(requests) \in Nat /\ requests \in Seq(Request)
  BY <1>1 DEF ConsoleTypeOK
<1>3. /\ r \in Tab /\ r.choice = choice /\ r.at = tab[t].at /\ r.visit = tab[t].visit
      /\ r.latest = tab[t].latest /\ r.own = tab[t].own
  BY <1>2 DEF Tab
<1>4. upset' = [upset EXCEPT ![t] = upset[t]]
  BY <1>1 DEF ConsoleTypeOK
<1>. HIDE DEF r
<1>5. TabStep(t) /\ tab'[t] = r
  BY <1>1, <1>2, <1>3, <1>4, TabGoes
<1>6. CountStep
  BY <1>1, <1>2, CountsRest
<1>7. On(t)' = On(t)
  BY <1>3, <1>5 DEF On
<1>8. CASE choice \in On(t).loads
  <2>1. PICK n : n = New("load", t, choice)
    OBVIOUS
  <2>2. /\ n \in Request /\ n.tab = t /\ n.kind = "load" /\ n.choice = choice
        /\ n.visit = tab[t].visit /\ n.state = "sent"
    BY <2>1, NewIsRequest
  <2>3. /\ RequestsStep(t) /\ requests' \in Seq(Request)
        /\ Len(requests') = Len(requests) + 1 /\ requests'[Len(requests) + 1] = n
        /\ DOMAIN requests' = 1 .. Len(requests) + 1
        /\ \A j \in 1 .. Len(requests) : requests'[j] = requests[j]
    BY <1>1, <1>8, <2>1, <2>2, AddsOne
  <2>4. RequestOK(n)'
    BY <1>1, <1>3, <1>5, <2>1, NewIsOK
  <2>5. /\ Len(requests) + 1 \in 1 .. Len(requests')
        /\ \A j \in 1 .. Len(requests') : j = Len(requests) + 1 \/ j \in 1 .. Len(requests)
    BY <1>2, <2>3
  <2>6. \A j \in 1 .. Len(requests') :
           (j <= Len(requests) /\ requests'[j] = requests[j]) \/ RequestOK(requests[j])'
    BY <1>1, <1>2, <1>6, <2>3, <2>4, <2>5, OneIsNew
  <2>7. tab'[t].latest <= Len(requests') /\ Len(requests) + 1 > tab'[t].latest
    BY <1>1, <1>2, <1>3, <1>5, <2>3 DEF TabOK, Tab
  <2>8. TabOK(t)'
    <3>1. ASSUME tab[t].latest > 0 PROVE requests'[tab[t].latest].tab = NoTab
      <4>1. tab[t].latest \in 1 .. Len(requests)
        BY <1>1, <1>2, <3>1 DEF TabOK, Tab
      <4>. QED
        BY <1>1, <2>3, <3>1, <4>1 DEF TabOK
    <3>. QED
      BY <1>1, <1>3, <1>5, <1>7, <2>7, <3>1 DEF TabOK
  <2>9. PageKept(t)'
    <3>1. tab' \in [Tabs -> Tab]
      BY <1>5 DEF TabStep
    <3>. QED
      BY <1>3, <1>5, <2>2, <2>3, <2>5, <2>7, <3>1, PageRenewed
  <2>. QED
    BY <1>5, <1>6, <2>3, <2>6, <2>8, <2>9, StepKeeps DEF StepOf
<1>9. CASE choice \notin On(t).loads
  <2>1. requests' = requests
    BY <1>1, <1>9
  <2>2. RequestsStep(t)
    BY <1>1, <1>2, <2>1, ConsoleAssumption DEF RequestsStep, ConsoleTypeOK
  <2>3. TabOK(t)'
    BY <1>1, <1>3, <1>5, <1>7, <2>1 DEF TabOK
  <2>4. PageKept(t)'
    BY <1>3, <1>5, <1>7, <1>9 DEF PageKept
  <2>. QED
    BY <1>2, <1>5, <1>6, <2>1, <2>2, <2>3, <2>4, StepKeeps DEF StepOf
<1>. QED
  BY <1>8, <1>9

LEMMA OpenedIsTab ==
    ASSUME ConsoleTypeOK, NEW t \in Tabs, NEW page \in DOMAIN Pages \cup {LoginPage}
    PROVE  LET r == Opened(t, page)
           IN  /\ r \in Tab /\ r.at = page /\ r.visit = tab[t].visit + 1 /\ r.choice = 1
               /\ r.shown = Nothing /\ r.latest = 0 /\ r.own = 0
<1>1. tab[t].visit + 1 \in Nat
  BY DEF ConsoleTypeOK, Tab
<1>2. Nothing \in [choice: 0 .. 2, changes: Nat]
  BY DEF Nothing
<1>. QED
  BY <1>1, <1>2 DEF Opened, Tab

\* The login page is opened.
LEMMA LoginOpens ==
    ASSUME ConsoleInv, NEW t \in Tabs, Ends(t, requests'), TabBecomes(t, Opened(t, LoginPage)),
           upset' = [upset EXCEPT ![t] = {}], token' = 0,
           UNCHANGED <<logins, expired, changes, runs, failures>>
    PROVE  ConsoleInv'
<1>1. ConsoleTypeOK /\ requests \in Seq(Request) /\ Len(requests) \in Nat
      /\ Len(requests) <= MaxRequests /\ logins \in Nat /\ changes \in Nat
  BY DEF ConsoleInv, ConsoleTypeOK
<1>2. PICK r \in Tab : /\ r = Opened(t, LoginPage) /\ r.at = LoginPage
                       /\ r.visit = tab[t].visit + 1 /\ r.latest = 0 /\ r.own = 0
  BY <1>1, OpenedIsTab
<1>3. TabStep(t) /\ tab'[t] = r
  BY <1>1, <1>2, TabGoes
<1>4. CountStep
  BY <1>1, CountsRest
<1>5. RequestsStep(t)
  BY <1>1, EndedIsRequest, ConsoleAssumption DEF RequestsStep, Ends
<1>6. \A j \in 1 .. Len(requests') :
         (j <= Len(requests) /\ requests'[j] = requests[j]) \/ RequestOK(requests[j])'
  <2>1. RequestOK(Ended)'
    BY <1>1, <1>4, EndedIsRequest DEF RequestOK, CountStep
  <2>2. ASSUME NEW j \in 1 .. Len(requests'), requests'[j] = Ended
        PROVE  RequestOK(requests[j])'
    BY <2>1, <2>2
  <2>. QED
    BY <1>1, <2>2 DEF Ends
<1>7. TabOK(t)'
  BY <1>1, <1>2, <1>3 DEF TabOK, Ends
<1>8. PageKept(t)'
  BY <1>2, <1>3 DEF PageKept
<1>. QED
  BY <1>3, <1>4, <1>5, <1>6, <1>7, <1>8, StepKeeps DEF StepOf

LEMMA SignOutKeeps ==
    ASSUME ConsoleInv, NEW t \in Tabs, SignOut(t)
    PROVE  ConsoleInv'
<1>1. Ends(t, requests')
  BY DEF SignOut, Ends, ConsoleInv, ConsoleTypeOK
<1>. QED
  BY <1>1, LoginOpens DEF SignOut

LEMMA TurnedAwayKeeps ==
    ASSUME ConsoleInv, NEW i \in DOMAIN requests, TurnedAway(i)
    PROVE  ConsoleInv'
<1>. DEFINE t == requests[i].tab
<1>1. t \in Tabs /\ ConsoleTypeOK
  BY UnderWay DEF TurnedAway
<1>2. requests \in Seq(Request) /\ DOMAIN requests = 1 .. Len(requests)
  BY <1>1 DEF ConsoleTypeOK
<1>3. requests' = [k \in 1 .. Len(requests) |-> IF requests[k].tab = t THEN Ended ELSE requests[k]]
  BY <1>2 DEF TurnedAway, Expelled
<1>4. requests' \in Seq(Request) /\ Len(requests') = Len(requests)
  BY <1>2, <1>3, EndedIsRequest
<1>5. Ends(t, requests')
  BY <1>3, <1>4 DEF Ends
<1>6. /\ TabBecomes(t, Opened(t, LoginPage)) /\ upset' = [upset EXCEPT ![t] = {}] /\ token' = 0
      /\ UNCHANGED <<logins, expired, changes, runs, failures>>
  BY DEF TurnedAway, Expelled
<1>. QED
  BY <1>1, <1>5, <1>6, LoginOpens

\* A page of the dashboard is opened, and loads if its first choice does.
LEMMA PageOpens ==
    ASSUME ConsoleInv, NEW t \in Tabs, NEW page \in DOMAIN Pages, Room, NEW rs, Ends(t, rs),
           TabBecomes(t, Opened(t, page)), upset' = [upset EXCEPT ![t] = {}],
           token' \in 0 .. logins, requests' = WithFirstLoad(rs, t, page, token'),
           UNCHANGED <<logins, expired, changes, runs, failures>>
    PROVE  ConsoleInv'
<1>1. ConsoleTypeOK /\ requests \in Seq(Request) /\ Len(requests) \in Nat
      /\ Len(requests) < MaxRequests /\ logins \in Nat /\ changes \in Nat
      /\ tab[t].visit \in Nat
  BY DEF ConsoleInv, ConsoleTypeOK, Room, Tab
<1>2. PICK r \in Tab : /\ r = Opened(t, page) /\ r.at = page /\ r.visit = tab[t].visit + 1
                       /\ r.choice = 1 /\ r.latest = 0 /\ r.own = 0
  BY <1>1, OpenedIsTab
<1>3. TabStep(t) /\ tab'[t] = r
  <2>1. TabBecomes(t, r) /\ {} \in SUBSET Causes
    BY <1>2
  <2>. QED
    BY <1>1, <1>2, <2>1, TabGoes
<1>4. CountStep
  BY <1>1, CountsRest
<1>5. On(t)' = Pages[page] /\ page # LoginPage /\ 1 \in Pages[page].choices
  BY <1>2, <1>3, PagesTell DEF On
<1>6. CASE 1 \in Pages[page].loads
  <2>1. PICK n : n = [New("load", t, 1) EXCEPT !.visit = @ + 1, !.page = page, !.token = token']
    OBVIOUS
  <2>2. n = [kind |-> "load", tab |-> t, visit |-> tab[t].visit + 1, choice |-> 1,
             page |-> page, token |-> token', changes |-> 0, state |-> "sent"]
    BY <2>1 DEF New
  <2>3. n \in Request
    BY <1>1, <2>2 DEF Request
  <2>4. requests' = Append(rs, n)
    BY <1>6, <2>1 DEF WithFirstLoad
  <2>5. n.tab = t /\ n.kind = "load" /\ n.choice = 1 /\ n.state = "sent"
        /\ n.visit = tab[t].visit + 1 /\ n.page = page /\ n.token = token' /\ n.changes = 0
    BY <2>2
  <2>6. /\ RequestsStep(t) /\ requests' \in Seq(Request)
        /\ Len(requests') = Len(requests) + 1 /\ requests'[Len(requests) + 1] = n
        /\ DOMAIN requests' = 1 .. Len(requests) + 1
        /\ \A j \in 1 .. Len(requests) :
              requests'[j] = requests[j] \/ (requests'[j] = Ended /\ requests[j].tab = t)
    <3>1. ConsoleTypeOK /\ Room /\ n.tab = t /\ Adds(rs, n)
      BY <1>1, <2>4, <2>5 DEF Adds
    <3>2. Grown(t, n)
      BY <2>3, <3>1, EndsAndAdds
    <3>. QED
      BY <3>2 DEF Grown
  <2>7. RequestOK(n)'
    <3>1. n.tab \in Tabs /\ n.tab # NoTab /\ n.kind # "over" /\ n.state # "over"
      BY <2>5, ConsoleAssumption
    <3>2. n.token <= logins' /\ n.changes <= changes'
      BY <1>1, <2>5
    <3>3. n.visit = tab'[n.tab].visit /\ n.page = tab'[n.tab].at /\ n.visit \in Nat
      BY <1>2, <1>3, <2>3, <2>5 DEF Request
    <3>4. n.visit <= tab'[n.tab].visit
      BY <3>3
    <3>. QED
      BY <2>3, <2>5, <3>1, <3>2, <3>3, <3>4 DEF RequestOK
  <2>8. /\ Len(requests) + 1 \in 1 .. Len(requests')
        /\ \A j \in 1 .. Len(requests') :
              \/ j = Len(requests) + 1
              \/ j <= Len(requests) /\ (requests'[j] = requests[j] \/ requests'[j] = Ended)
    BY <1>1, <2>6
  <2>9. \A j \in 1 .. Len(requests') :
           (j <= Len(requests) /\ requests'[j] = requests[j]) \/ RequestOK(requests[j])'
    BY <1>1, <1>4, <2>6, <2>7, <2>8, OneIsNew
  <2>10. TabOK(t)'
    BY <1>1, <1>2, <1>3, <1>5, <2>6 DEF TabOK
  <2>11. PageKept(t)'
    <3>1. tab' \in [Tabs -> Tab] /\ Len(requests) + 1 > tab'[t].latest
      BY <1>1, <1>2, <1>3 DEF TabStep
    <3>. QED
      BY <1>2, <1>3, <2>5, <2>6, <2>8, <3>1, PageRenewed
  <2>. QED
    BY <1>3, <1>4, <2>6, <2>9, <2>10, <2>11, StepKeeps DEF StepOf
<1>7. CASE 1 \notin Pages[page].loads
  <2>1. requests' = rs
    BY <1>7 DEF WithFirstLoad
  <2>2. RequestsStep(t)
    BY <1>1, <2>1, EndedIsRequest, ConsoleAssumption DEF RequestsStep, Ends
  <2>3. \A j \in 1 .. Len(requests') :
           (j <= Len(requests) /\ requests'[j] = requests[j]) \/ RequestOK(requests[j])'
    <3>1. RequestOK(Ended)'
      BY <1>1, <1>4, EndedIsRequest DEF RequestOK, CountStep
    <3>2. ASSUME NEW j \in 1 .. Len(requests'), requests'[j] = Ended
          PROVE  RequestOK(requests[j])'
      BY <3>1, <3>2
    <3>. QED
      BY <1>1, <2>1, <3>2 DEF Ends
  <2>4. TabOK(t)'
    BY <1>1, <1>2, <1>3, <1>5, <2>1 DEF TabOK, Ends
  <2>5. PageKept(t)'
    BY <1>2, <1>3, <1>5, <1>7 DEF PageKept
  <2>. QED
    BY <1>3, <1>4, <2>2, <2>3, <2>4, <2>5, StepKeeps DEF StepOf
<1>. QED
  BY <1>6, <1>7

LEMMA VisitKeeps ==
    ASSUME ConsoleInv, NEW t \in Tabs, NEW page \in Home[t], Visit(t, page)
    PROVE  ConsoleInv'
<1>1. page \in DOMAIN Pages
  BY ConsoleAssumption
<1>2. Ends(t, requests) /\ token \in 0 .. logins
  BY DEF Ends, ConsoleInv, ConsoleTypeOK
<1>3. /\ Room /\ TabBecomes(t, Opened(t, page)) /\ upset' = [upset EXCEPT ![t] = {}]
      /\ requests' = WithFirstLoad(requests, t, page, token) /\ token' = token
      /\ UNCHANGED <<logins, expired, changes, runs, failures>>
  BY DEF Visit
<1>4. PICK rs : rs = requests
  OBVIOUS
<1>. QED
  BY <1>1, <1>2, <1>3, <1>4, PageOpens

LEMMA SignedInKeeps ==
    ASSUME ConsoleInv, NEW i \in DOMAIN requests, SignedIn(i)
    PROVE  ConsoleInv'
<1>1. requests[i].tab \in Tabs /\ ConsoleTypeOK /\ RequestOK(requests[i])
      /\ requests[i] \in Request
  BY UnderWay DEF SignedIn
<1>2. PICK t \in Tabs : t = requests[i].tab
  BY <1>1
<1>3. /\ Room /\ TabBecomes(t, Opened(t, "dashboard")) /\ upset' = [upset EXCEPT ![t] = {}]
      /\ token' = requests[i].token
      /\ requests' = WithFirstLoad(Over(i), t, "dashboard", token')
      /\ UNCHANGED <<logins, expired, changes, runs, failures>>
  BY <1>2 DEF SignedIn
<1>4. PICK rs : rs = Over(i)
  OBVIOUS
<1>5. requests \in Seq(Request) /\ rs = [requests EXCEPT ![i] = Ended]
  BY <1>1, <1>4 DEF ConsoleTypeOK, Over
<1>6. Ends(t, rs)
  BY <1>2, <1>5, Replaced, EndedIsRequest DEF Ends
<1>7. token' \in 0 .. logins
  BY <1>1, <1>3 DEF RequestOK, Request, ConsoleTypeOK
<1>8. "dashboard" \in DOMAIN Pages
  BY PagesTell
<1>. QED
  BY <1>3, <1>4, <1>6, <1>7, <1>8, PageOpens

\* A request with other values in some fields.
SameRequest(n, r) ==
    n.kind = r.kind /\ n.tab = r.tab /\ n.visit = r.visit /\ n.choice = r.choice /\ n.page = r.page

LEMMA WithState ==
    ASSUME NEW r \in Request, NEW s \in {"sent", "answered", "refused", "failed", "over"}
    PROVE  LET n == [r EXCEPT !.state = s]
           IN  /\ n \in Request /\ n.state = s /\ SameRequest(n, r)
               /\ n.token = r.token /\ n.changes = r.changes
  BY DEF Request, SameRequest

LEMMA WithChanges ==
    ASSUME NEW r \in Request, NEW c \in Nat
    PROVE  LET n == [r EXCEPT !.changes = c]
           IN  /\ n \in Request /\ n.changes = c /\ SameRequest(n, r)
               /\ n.token = r.token /\ n.state = r.state
  BY DEF Request, SameRequest

LEMMA WithToken ==
    ASSUME NEW r \in Request, NEW k \in Nat
    PROVE  LET n == [r EXCEPT !.token = k]
           IN  /\ n \in Request /\ n.token = k /\ SameRequest(n, r)
               /\ n.changes = r.changes /\ n.state = r.state
  BY DEF Request, SameRequest

LEMMA WithKind ==
    ASSUME NEW r \in Request, NEW kind \in {"load", "timer"}
    PROVE  LET n == [r EXCEPT !.kind = kind]
           IN  /\ n \in Request /\ n.kind = kind /\ n.token = r.token /\ n.changes = r.changes
               /\ n.tab = r.tab /\ n.visit = r.visit /\ n.choice = r.choice
               /\ n.page = r.page /\ n.state = r.state
  BY DEF Request

\* The reply to a request comes; nothing is shown yet.
LEMMA ReplyKeeps ==
    ASSUME ConsoleInv, NEW i \in DOMAIN requests, requests[i].state = "sent",
           NEW n \in Request, SameRequest(n, requests[i]),
           n.state \in {"answered", "refused", "failed"},
           n.token <= logins', n.changes <= changes',
           n.state = "refused" => n.token \in expired \cup {0},
           n.kind = "login" /\ n.state = "answered" => n.token # 0,
           n.kind = "load" /\ n.state = "answered" => n.changes = changes',
           requests' = [requests EXCEPT ![i] = n], UNCHANGED <<tab, upset>>, CountStep
    PROVE  ConsoleInv'
<1>1. PICK t \in Tabs : /\ t = requests[i].tab /\ ConsoleTypeOK /\ RequestOK(requests[i])
                        /\ requests[i] \in Request /\ TabOK(t) /\ PageKept(t)
  BY UnderWay
<1>2. /\ RequestsStep(t) /\ requests' \in Seq(Request) /\ Len(requests') = Len(requests)
      /\ DOMAIN requests' = 1 .. Len(requests) /\ DOMAIN requests = 1 .. Len(requests)
      /\ requests'[i] = n /\ \A j \in 1 .. Len(requests) : j # i => requests'[j] = requests[j]
  BY <1>1, ReplacesOne DEF SameRequest
<1>3. StepOf(t)
  BY <1>1, <1>2, TabsRest DEF StepOf
<1>4. RequestOK(n)'
  <2>1. n.kind # "timer" /\ n.kind # "over" /\ n.tab = t /\ NoTab # t
    BY <1>1, ConsoleAssumption DEF RequestOK, SameRequest
  <2>2. n.visit <= tab[t].visit /\ (n.visit = tab[t].visit => n.page = tab[t].at)
    BY <1>1, <2>1 DEF RequestOK, SameRequest
  <2>3. /\ n.kind \in {"load", "act", "trigger"} => n.page \in DOMAIN Pages
        /\ n.kind = "trigger" => n.page \in Triggering /\ n.choice = 1
    BY <1>1 DEF RequestOK, SameRequest
  <2>. QED
    BY <2>1, <2>2, <2>3 DEF RequestOK, CountStep
<1>5. \A j \in 1 .. Len(requests') :
         (j <= Len(requests) /\ requests'[j] = requests[j]) \/ RequestOK(requests[j])'
  BY <1>1, <1>2, <1>4, OneIsNew DEF ConsoleTypeOK
<1>6. tab[t].own <= changes' /\ tab[t].own \in Nat
  BY <1>1, SMTT(30) DEF TabOK, CountStep, ConsoleTypeOK, Tab
<1>7. TabOK(t)'
  BY <1>2, <1>6, TabStays
<1>8. PageKept(t)'
  <2>0. n.tab = t /\ n.visit = requests[i].visit /\ n.kind = requests[i].kind
        /\ n.choice = requests[i].choice
    BY <1>1 DEF SameRequest
  <2>1. \A k \in OfPage(t) : requests'[k].tab = t /\ requests'[k].visit = requests[k].visit
    BY <1>2, <2>0 DEF OfPage
  <2>3. \A k \in OfPage(t) : Due(k) => Due(k)'
    BY <1>2 DEF OfPage, Due
  <2>4. \A k \in OfPage(t) : requests[k].kind = "load" =>
           /\ requests'[k].kind = "load" /\ requests'[k].choice = requests[k].choice
           /\ requests'[k].state = "answered" =>
                 \/ requests[k].state = "answered"
                    /\ requests'[k].changes = requests[k].changes
                 \/ tab[t].own <= requests'[k].changes
    <3>. SUFFICES ASSUME NEW k \in OfPage(t), requests[k].kind = "load"
                  PROVE  /\ requests'[k].kind = "load"
                         /\ requests'[k].choice = requests[k].choice
                         /\ requests'[k].state = "answered" =>
                               \/ requests[k].state = "answered"
                                  /\ requests'[k].changes = requests[k].changes
                               \/ tab[t].own <= requests'[k].changes
      OBVIOUS
    <3>1. CASE k = i
      BY <1>2, <1>6, <2>0, <3>1
    <3>2. CASE k # i
      BY <1>2, <3>2 DEF OfPage
    <3>. QED
      BY <3>1, <3>2
  <2>2. \A j \in DOMAIN requests' :
           requests'[j].tab = t /\ requests'[j].visit = tab[t].visit
              /\ requests'[j].kind = "load"
           => j \in OfPage(t) /\ requests[j].kind = "load"
    BY <1>1, <1>2 DEF OfPage, SameRequest
  <2>. QED
    BY <1>1, <1>2, <2>1, <2>2, <2>3, <2>4, PageStays
<1>. QED
  BY <1>3, <1>5, <1>7, <1>8, StepKeeps

LEMMA DoesKeeps ==
    ASSUME ConsoleInv, NEW i \in DOMAIN requests, requests[i].state = "sent", Does(i)
    PROVE  changes' \in Nat /\ changes <= changes' /\ runs' \subseteq Tabs \X Nat \X Nat
<1>1. /\ changes \in Nat /\ runs \subseteq Tabs \X Nat \X Nat /\ i \in Nat
      /\ requests[i].tab \in Tabs /\ requests[i].visit \in Nat
  <2>1. ConsoleTypeOK
    BY DEF ConsoleInv
  <2>2. changes \in Nat /\ runs \subseteq Tabs \X Nat \X Nat /\ requests \in Seq(Request)
    BY <2>1 DEF ConsoleTypeOK
  <2>3. i \in Nat /\ requests[i] \in Request
    BY <2>2
  <2>4. requests[i].visit \in Nat
    BY <2>3 DEF Request
  <2>. QED
    BY <2>2, <2>3, <2>4, UnderWay
<1>2. <<requests[i].tab, requests[i].visit, i>> \in Tabs \X Nat \X Nat
  BY <1>1
<1>3. runs' \subseteq Tabs \X Nat \X Nat
  BY <1>1, <1>2 DEF Does
<1>. QED
  BY <1>1, <1>3 DEF Does

LEMMA AnswerKeeps ==
    ASSUME ConsoleInv, NEW i \in DOMAIN requests, Answer(i)
    PROVE  ConsoleInv'
<1>1. /\ requests[i].state = "sent" /\ requests[i].kind \in {"load", "act", "trigger"}
      /\ UNCHANGED <<token, logins, expired, tab, upset>>
  BY DEF Answer
<1>2. /\ ConsoleTypeOK /\ RequestOK(requests[i]) /\ requests[i] \in Request
      /\ requests \in Seq(Request)
  BY <1>1, UnderWay DEF ConsoleTypeOK
<1>3. PICK r \in Request : r = requests[i]
  BY <1>2
<1>4. r.token <= logins /\ r.changes <= changes /\ logins \in 0 .. MaxLogins
      /\ token \in 0 .. logins /\ changes \in Nat /\ r.changes \in Nat /\ r.token \in Nat
      /\ failures \in 0 .. MaxFailures /\ MaxFailures \in Nat /\ MaxLogins \in Nat
  BY <1>2, <1>3, ConsoleAssumption DEF RequestOK, ConsoleTypeOK, Request
<1>5. CASE Refused(i) /\ requests' = [requests EXCEPT ![i].state = "refused"]
           /\ UNCHANGED <<changes, runs, failures>>
  <2>1. PICK n : n = [r EXCEPT !.state = "refused"]
    OBVIOUS
  <2>2. /\ n \in Request /\ n.state = "refused" /\ SameRequest(n, r) /\ n.token = r.token
        /\ n.changes = r.changes
    BY <2>1, WithState
  <2>3. requests' = [requests EXCEPT ![i] = n]
    BY <1>2, <1>3, <1>5, <2>1
  <2>4. n.token \in expired \cup {0}
    BY <1>3, <1>5, <2>2 DEF Refused
  <2>5. CountStep
    BY <1>1, <1>2, <1>4, <1>5, CountsRest
  <2>. QED
    BY <1>1, <1>3, <1>4, <1>5, <2>2, <2>3, <2>4, <2>5, ReplyKeeps
<1>6. CASE /\ Does(i)
           /\ requests' = [requests EXCEPT ![i].state = "answered", ![i].changes = changes']
           /\ UNCHANGED failures
  <2>0. changes' \in Nat /\ changes <= changes' /\ runs' \subseteq Tabs \X Nat \X Nat
    BY <1>1, <1>6, DoesKeeps
  <2>1. PICK m : m = [r EXCEPT !.state = "answered"]
    OBVIOUS
  <2>2. /\ m \in Request /\ m.state = "answered" /\ SameRequest(m, r) /\ m.token = r.token
    BY <2>1, WithState
  <2>3. PICK n : n = [m EXCEPT !.changes = changes']
    OBVIOUS
  <2>4. /\ n \in Request /\ n.state = "answered" /\ SameRequest(n, r) /\ n.token = r.token
        /\ n.changes = changes'
    BY <2>0, <2>2, <2>3, WithChanges DEF SameRequest
  <2>5. requests' = [requests EXCEPT ![i] = n]
    BY <1>2, <1>3, <1>6, <2>1, <2>3
  <2>6. CountStep
    BY <1>1, <1>4, <1>6, <2>0 DEF CountStep
  <2>7. n.kind # "login"
    BY <1>1, <1>3, <2>4 DEF SameRequest
  <2>8. SameRequest(n, requests[i]) /\ n.token <= logins' /\ n.changes <= changes'
    BY <1>1, <1>3, <1>4, <2>0, <2>4
  <2>. QED
    BY <1>1, <2>4, <2>5, <2>6, <2>7, <2>8, ReplyKeeps
<1>7. CASE /\ failures < MaxFailures /\ failures' = failures + 1
           /\ Does(i) \/ UNCHANGED <<changes, runs>>
           /\ requests' = [requests EXCEPT ![i].state = "failed"]
  <2>0. changes' \in Nat /\ changes <= changes' /\ runs' \subseteq Tabs \X Nat \X Nat
    <3>1. CASE Does(i)
      BY <1>1, <3>1, DoesKeeps
    <3>2. CASE UNCHANGED <<changes, runs>>
      BY <1>2, <1>4, <3>2 DEF ConsoleTypeOK
    <3>. QED
      BY <1>7, <3>1, <3>2
  <2>1. PICK n : n = [r EXCEPT !.state = "failed"]
    OBVIOUS
  <2>2. /\ n \in Request /\ n.state = "failed" /\ SameRequest(n, r) /\ n.token = r.token
        /\ n.changes = r.changes
    BY <2>1, WithState
  <2>3. requests' = [requests EXCEPT ![i] = n]
    BY <1>2, <1>3, <1>7, <2>1
  <2>4. CountStep
    BY <1>1, <1>4, <1>7, <2>0 DEF CountStep
  <2>5. n.changes <= changes' /\ n.token <= logins'
    BY <1>1, <1>4, <2>0, <2>2
  <2>. QED
    BY <1>1, <1>3, <2>2, <2>3, <2>4, <2>5, ReplyKeeps
<1>. QED
  BY <1>5, <1>6, <1>7, Zenon DEF Answer

LEMMA AnswerLoginKeeps ==
    ASSUME ConsoleInv, NEW i \in DOMAIN requests, AnswerLogin(i)
    PROVE  ConsoleInv'
<1>1. /\ requests[i].state = "sent" /\ requests[i].kind = "login"
      /\ UNCHANGED <<token, expired, changes, runs, tab, failures, upset>>
  BY DEF AnswerLogin
<1>2. /\ ConsoleTypeOK /\ RequestOK(requests[i]) /\ requests[i] \in Request
      /\ requests \in Seq(Request)
  BY <1>1, UnderWay DEF ConsoleTypeOK
<1>3. PICK r \in Request : r = requests[i]
  BY <1>2
<1>4. r.token = 0 /\ r.changes <= changes /\ logins \in 0 .. MaxLogins
      /\ token \in 0 .. logins /\ changes \in Nat /\ r.changes \in Nat
      /\ failures \in 0 .. MaxFailures /\ MaxFailures \in Nat /\ MaxLogins \in Nat
  BY <1>1, <1>2, <1>3, ConsoleAssumption DEF RequestOK, ConsoleTypeOK, Request
<1>5. CASE /\ logins < MaxLogins /\ logins' = logins + 1
           /\ requests' = [requests EXCEPT ![i].state = "answered", ![i].token = logins + 1]
  <2>1. PICK m : m = [r EXCEPT !.state = "answered"]
    OBVIOUS
  <2>2. /\ m \in Request /\ m.state = "answered" /\ SameRequest(m, r)
        /\ m.changes = r.changes
    BY <2>1, WithState
  <2>3. PICK n : n = [m EXCEPT !.token = logins + 1]
    OBVIOUS
  <2>4. /\ n \in Request /\ n.state = "answered" /\ SameRequest(n, r) /\ n.token = logins + 1
        /\ n.changes = r.changes
    BY <1>4, <2>2, <2>3, WithToken DEF SameRequest
  <2>5. requests' = [requests EXCEPT ![i] = n]
    BY <1>2, <1>3, <1>5, <2>1, <2>3
  <2>6. CountStep
    <3>1. logins' \in logins .. MaxLogins /\ token' \in 0 .. logins'
      BY <1>1, <1>4, <1>5
    <3>2. runs' \subseteq Tabs \X Nat \X Nat
      BY <1>1, <1>2 DEF ConsoleTypeOK
    <3>3. changes' \in Nat /\ changes <= changes' /\ failures' \in 0 .. MaxFailures
      BY <1>1, <1>4
    <3>. QED
      BY <1>1, <3>1, <3>2, <3>3 DEF CountStep
  <2>7. n.kind = "login"
    BY <1>1, <1>3, <2>4 DEF SameRequest
  <2>8. SameRequest(n, requests[i]) /\ n.token <= logins' /\ n.changes <= changes'
        /\ n.token # 0
    BY <1>1, <1>3, <1>4, <1>5, <2>4
  <2>. QED
    BY <1>1, <2>4, <2>5, <2>6, <2>7, <2>8, ReplyKeeps
<1>6. CASE requests' = [requests EXCEPT ![i].state = "refused"] /\ UNCHANGED logins
  <2>1. PICK n : n = [r EXCEPT !.state = "refused"]
    OBVIOUS
  <2>2. /\ n \in Request /\ n.state = "refused" /\ SameRequest(n, r) /\ n.token = r.token
        /\ n.changes = r.changes
    BY <2>1, WithState
  <2>3. requests' = [requests EXCEPT ![i] = n]
    BY <1>2, <1>3, <1>6, <2>1
  <2>4. CountStep
    BY <1>1, <1>2, <1>4, <1>6, CountsRest
  <2>5. SameRequest(n, requests[i]) /\ n.token <= logins' /\ n.changes <= changes'
        /\ n.token \in expired \cup {0}
    BY <1>1, <1>3, <1>4, <1>6, <2>2
  <2>. QED
    BY <1>1, <2>2, <2>3, <2>4, <2>5, ReplyKeeps
<1>. QED
  BY <1>5, <1>6, Zenon DEF AnswerLogin

LEMMA WithShown ==
    ASSUME NEW r \in Tab, NEW list \in [choice: 0 .. 2, changes: Nat]
    PROVE  LET n == [r EXCEPT !.shown = list]
           IN  /\ n \in Tab /\ n.shown = list /\ n.at = r.at /\ n.visit = r.visit
               /\ n.choice = r.choice /\ n.latest = r.latest /\ n.own = r.own
  BY DEF Tab

LEMMA WithLatest ==
    ASSUME NEW r \in Tab, NEW k \in Nat
    PROVE  LET n == [r EXCEPT !.latest = k]
           IN  /\ n \in Tab /\ n.latest = k /\ n.at = r.at /\ n.visit = r.visit
               /\ n.choice = r.choice /\ n.shown = r.shown /\ n.own = r.own
  BY DEF Tab

LEMMA WithOwn ==
    ASSUME NEW r \in Tab, NEW k \in Nat
    PROVE  LET n == [r EXCEPT !.own = k]
           IN  /\ n \in Tab /\ n.own = k /\ n.at = r.at /\ n.visit = r.visit
               /\ n.choice = r.choice /\ n.shown = r.shown /\ n.latest = r.latest
               /\ k = r.own => n = r
  BY DEF Tab

\* A request of tab t is over, and nothing is added.
LEMMA EndsOne ==
    ASSUME ConsoleTypeOK, NEW t \in Tabs, NEW i \in DOMAIN requests, requests[i].tab = t,
           requests' = Over(i), CountStep
    PROVE  /\ RequestsStep(t) /\ Len(requests') = Len(requests)
           /\ requests' \in Seq(Request)
           /\ DOMAIN requests' = 1 .. Len(requests) /\ DOMAIN requests = 1 .. Len(requests)
           /\ requests'[i] = Ended
           /\ \A j \in 1 .. Len(requests) : j # i => requests'[j] = requests[j]
           /\ \A j \in 1 .. Len(requests') :
                 (j <= Len(requests) /\ requests'[j] = requests[j]) \/ RequestOK(requests[j])'
<1>1. /\ RequestsStep(t) /\ Len(requests') = Len(requests) /\ requests' \in Seq(Request)
      /\ DOMAIN requests' = 1 .. Len(requests) /\ DOMAIN requests = 1 .. Len(requests)
      /\ requests'[i] = Ended
      /\ \A j \in 1 .. Len(requests) : j # i => requests'[j] = requests[j]
  BY ReplacesOne, EndedIsRequest DEF Over
<1>2. RequestOK(Ended)'
  BY EndedIsRequest DEF RequestOK, CountStep, ConsoleTypeOK
<1>3. RequestOK(requests[i])'
  BY <1>1, <1>2
<1>4. Len(requests) \in Nat
  BY DEF ConsoleTypeOK
<1>5. \A j \in 1 .. Len(requests') :
         (j <= Len(requests) /\ requests'[j] = requests[j]) \/ RequestOK(requests[j])'
  BY <1>1, <1>3, <1>4
<1>. QED
  BY <1>1, <1>5

LEMMA LoadedKeeps ==
    ASSUME ConsoleInv, NEW i \in DOMAIN requests, Loaded(i)
    PROVE  ConsoleInv'
<1>1. /\ requests[i].state \in {"answered", "failed"} /\ requests[i].kind = "load"
      /\ requests' = Over(i) /\ UNCHANGED <<token, logins, expired, changes, runs, failures>>
  BY DEF Loaded
<1>2. PICK t \in Tabs : /\ t = requests[i].tab /\ ConsoleTypeOK /\ RequestOK(requests[i])
                        /\ requests[i] \in Request /\ TabOK(t) /\ PageKept(t)
  BY <1>1, UnderWay
<1>3. CountStep
  BY <1>1, <1>2, CountsRest DEF ConsoleTypeOK
<1>4. /\ RequestsStep(t) /\ Len(requests') = Len(requests) /\ requests' \in Seq(Request)
      /\ DOMAIN requests' = 1 .. Len(requests) /\ DOMAIN requests = 1 .. Len(requests)
      /\ requests'[i] = Ended
      /\ \A j \in 1 .. Len(requests) : j # i => requests'[j] = requests[j]
      /\ \A j \in 1 .. Len(requests') :
            (j <= Len(requests) /\ requests'[j] = requests[j]) \/ RequestOK(requests[j])'
  BY <1>1, <1>2, <1>3, EndsOne
<1>5. CASE ~Mounted(i)
  <2>1. UNCHANGED <<tab, upset>>
    BY <1>5 DEF Loaded
  <2>2. StepOf(t)
    BY <1>2, <1>3, <1>4, <2>1, TabsRest DEF StepOf
  <2>3. TabOK(t)'
    BY <1>1, <1>2, <1>4, <2>1, TabStays DEF TabOK
  <2>4. PageKept(t)'
    <3>1. \A k \in OfPage(t) : requests'[k] = requests[k]
      BY <1>2, <1>4, <1>5 DEF OfPage, Mounted
    <3>2. \A j \in DOMAIN requests' :
             (j \in DOMAIN requests /\ requests'[j] = requests[j]) \/ requests'[j].kind # "load"
      BY <1>4, EndedIsRequest
    <3>. QED
      BY <1>2, <1>4, <2>1, <3>1, <3>2, PageSeesNothing
  <2>. QED
    BY <1>4, <2>2, <2>3, <2>4, StepKeeps
<1>6. CASE Mounted(i)
  <2>. DEFINE good == requests[i].state = "answered"
              list == [choice |-> requests[i].choice, changes |-> requests[i].changes]
              shown == IF good THEN list ELSE tab[t].shown
              latest == IF tab[t].latest < i THEN i ELSE tab[t].latest
              r == [tab[t] EXCEPT !.shown = shown, !.latest = latest]
              U == upset[t] \cup (IF good THEN {} ELSE {"failed"})
                            \cup (IF i < tab[t].latest THEN {"reordered"} ELSE {})
  <2>1. TabBecomes(t, r) /\ upset' = [upset EXCEPT ![t] = U]
    BY <1>2, <1>6 DEF Loaded, ConsoleTypeOK
  <2>2. tab[t] \in Tab /\ tab[t].latest \in Nat /\ i \in 1 .. Len(requests)
        /\ Len(requests) \in Nat
    BY <1>2, <1>4 DEF ConsoleTypeOK, Tab
  <2>3. shown \in [choice: 0 .. 2, changes: Nat] /\ latest \in Nat
    BY <1>2, <2>2 DEF Request, Tab
  <2>4. U \in SUBSET Causes
    BY <1>2 DEF ConsoleTypeOK, Causes
  <2>5. /\ r \in Tab /\ r.shown = shown /\ r.latest = latest /\ r.at = tab[t].at
        /\ r.visit = tab[t].visit /\ r.choice = tab[t].choice /\ r.own = tab[t].own
    <3>. HIDE DEF shown, latest
    <3>1. PICK m : m = [tab[t] EXCEPT !.shown = shown]
      OBVIOUS
    <3>2. /\ m \in Tab /\ m.shown = shown /\ m.at = tab[t].at /\ m.visit = tab[t].visit
          /\ m.choice = tab[t].choice /\ m.latest = tab[t].latest /\ m.own = tab[t].own
      BY <2>2, <2>3, <3>1, WithShown
    <3>3. r = [m EXCEPT !.latest = latest]
      BY <3>1
    <3>. HIDE DEF r
    <3>. QED
      BY <2>3, <3>2, <3>3, WithLatest
  <2>. HIDE DEF r, U
  <2>6. TabStep(t) /\ tab'[t] = r /\ upset'[t] = U
    BY <1>2, <2>1, <2>4, <2>5, TabGoes
  <2>7. TabOK(t)'
    <3>1. tab'[t].own <= changes'
      BY <1>1, <1>2, <2>5, <2>6 DEF TabOK
    <3>2. tab'[t].latest <= Len(requests')
      BY <1>2, <1>4, <2>2, <2>5, <2>6 DEF TabOK
    <3>3. ASSUME tab'[t].latest > 0 PROVE requests'[tab'[t].latest].tab = NoTab
      <4>1. CASE tab[t].latest < i
        BY <1>4, <2>5, <2>6, <4>1, EndedIsRequest
      <4>2. CASE ~(tab[t].latest < i)
        <5>1. PICK l \in 1 .. Len(requests) : l = tab[t].latest /\ l = tab'[t].latest
          BY <1>2, <2>2, <2>5, <2>6, <3>3, <4>2 DEF TabOK
        <5>2. requests[l].tab = NoTab /\ l > 0
          BY <1>2, <5>1 DEF TabOK
        <5>3. requests'[l].tab = NoTab
          BY <1>4, <5>2, EndedIsRequest
        <5>. QED
          BY <5>1, <5>3
      <4>. QED
        BY <4>1, <4>2
    <3>4. (tab[t].at # LoginPage => tab[t].choice \in On(t).choices)'
      BY <1>2, <2>5, <2>6 DEF TabOK, On
    <3>. QED
      BY <3>1, <3>2, <3>3, <3>4 DEF TabOK
  <2>8. PageKept(t)'
    <3>. SUFFICES ASSUME (tab[t].at # LoginPage)', upset'[t] = {},
                         (tab[t].choice \in On(t).loads)'
                  PROVE  /\ ShownRight(t)' \/ Coming(t, tab[t].latest)'
                         /\ \A j \in OfPage(t)' :
                               requests'[j].kind = "load" /\ j > tab'[t].latest =>
                                  Right(t, j)' \/ Coming(t, j)'
      BY Zenon DEF PageKept
    <3>1. good /\ ~(i < tab[t].latest) /\ upset[t] = {}
      BY <2>6 DEF U
    <3>2. i > tab[t].latest
      <4>1. i # tab[t].latest
        BY <1>2, <2>2, ConsoleAssumption DEF TabOK
      <4>. QED
        BY <2>2, <3>1, <4>1
    <3>3. tab'[t].latest = i /\ tab'[t].shown = list
      BY <2>5, <2>6, <3>1, <3>2
    <3>4. /\ \A j \in OfPage(t) :
                requests[j].kind = "load" /\ j > tab[t].latest => Right(t, j) \/ Coming(t, j)
      BY <1>2, <2>5, <2>6, <3>1 DEF PageKept, On
    <3>5. i \in OfPage(t)
      BY <1>2, <1>6 DEF OfPage, Mounted
    <3>6. \A k \in OfPage(t) : k # i =>
             k \in OfPage(t)' /\ requests'[k] = requests[k] /\ (Right(t, k) => Right(t, k)')
      BY <1>4, <2>5, <2>6 DEF OfPage, Right
    <3>7. \A j \in 1 .. Len(requests) : j >= i /\ Coming(t, j) => Coming(t, j)'
      <4>. SUFFICES ASSUME NEW j \in 1 .. Len(requests), j >= i, Coming(t, j)
                    PROVE  Coming(t, j)'
        OBVIOUS
      <4>1. PICK k \in OfPage(t) : Due(k) \/ (k > j /\ Right(t, k))
        BY DEF Coming
      <4>2. k # i
        BY <1>1, <2>2, <4>1 DEF Due
      <4>3. k \in OfPage(t)' /\ (Due(k)' \/ (k > j /\ Right(t, k)'))
        BY <3>6, <4>1, <4>2 DEF Due
      <4>. QED
        BY <4>3, Zenon DEF Coming
    <3>8. ShownRight(t)' \/ Coming(t, tab[t].latest)'
      <4>1. CASE Right(t, i)
        BY <2>5, <2>6, <3>1, <3>3, <4>1 DEF Right, ShownRight
      <4>2. CASE Coming(t, i)
        <5>1. Coming(t, i)'
          BY <2>2, <3>7, <4>2
        <5>. QED
          BY <3>3, <5>1 DEF Coming
      <4>. QED
        BY <1>1, <3>2, <3>4, <3>5, <4>1, <4>2
    <3>9. ASSUME NEW j \in OfPage(t)', requests'[j].kind = "load", j > tab'[t].latest
          PROVE  Right(t, j)' \/ Coming(t, j)'
      <4>1. j \in 1 .. Len(requests) /\ j # i /\ j > i /\ requests'[j] = requests[j]
        BY <1>4, <2>2, <3>3, <3>9 DEF OfPage
      <4>2. j \in OfPage(t) /\ requests[j].kind = "load" /\ j > tab[t].latest
        BY <1>4, <2>2, <2>5, <2>6, <3>2, <3>9, <4>1 DEF OfPage
      <4>. QED
        BY <3>4, <3>6, <3>7, <4>1, <4>2
    <3>. QED
      BY <3>8, <3>9
  <2>. QED
    BY <1>3, <1>4, <2>6, <2>7, <2>8, StepKeeps DEF StepOf
<1>. QED
  BY <1>5, <1>6

\* The load at the end of a handler, or of its timer.
LEMMA ReloadIsLoad ==
    ASSUME ConsoleInv, Room, NEW i \in DOMAIN requests,
           requests[i].state \in {"answered", "failed"}, requests[i].kind \in {"act", "timer"},
           NEW t \in Tabs, t = requests[i].tab, requests' = Reload(Over(i), i), CountStep,
           tab'[t].visit = tab[t].visit, tab'[t].at = tab[t].at
    PROVE  /\ RequestsStep(t) /\ requests' \in Seq(Request)
           /\ Len(requests') = Len(requests) + 1
           /\ DOMAIN requests' = 1 .. Len(requests) + 1 /\ DOMAIN requests = 1 .. Len(requests)
           /\ requests'[Len(requests) + 1].kind = "load"
           /\ requests'[Len(requests) + 1].state = "sent"
           /\ requests'[Len(requests) + 1].tab = t
           /\ requests'[Len(requests) + 1].visit = requests[i].visit
           /\ requests'[Len(requests) + 1].choice = requests[i].choice
           /\ requests'[i] = Ended
           /\ \A j \in 1 .. Len(requests) : j # i => requests'[j] = requests[j]
           /\ \A j \in 1 .. Len(requests') :
                 (j <= Len(requests) /\ requests'[j] = requests[j]) \/ RequestOK(requests[j])'
<1>1. /\ ConsoleTypeOK /\ RequestOK(requests[i]) /\ requests \in Seq(Request)
      /\ token \in 0 .. logins /\ logins \in Nat /\ Len(requests) \in Nat
  BY UnderWay DEF ConsoleTypeOK
<1>2. PICK q \in Request : q = requests[i]
  BY <1>1 DEF RequestOK
<1>3. PICK m : m = [q EXCEPT !.kind = "load"]
  OBVIOUS
<1>4. /\ m \in Request /\ m.kind = "load" /\ m.tab = q.tab /\ m.visit = q.visit
      /\ m.choice = q.choice /\ m.page = q.page /\ m.changes = q.changes
  BY <1>3, WithKind
<1>5. PICK l : l = [m EXCEPT !.state = "sent"]
  OBVIOUS
<1>6. l \in Request /\ l.state = "sent" /\ SameRequest(l, m) /\ l.changes = m.changes
  BY <1>4, <1>5, WithState
<1>7. PICK n : n = [l EXCEPT !.token = token]
  OBVIOUS
<1>8. n \in Request /\ n.state = "sent" /\ SameRequest(n, m) /\ n.changes = m.changes
      /\ n.token = token
  BY <1>1, <1>6, <1>7, WithToken DEF SameRequest
<1>9. /\ n.kind = "load" /\ n.tab = t /\ n.visit = requests[i].visit
      /\ n.choice = requests[i].choice /\ n.page = requests[i].page
      /\ n.changes = requests[i].changes
  BY <1>2, <1>4, <1>8 DEF SameRequest
<1>10. PICK rs : rs = Over(i)
  OBVIOUS
<1>11. /\ rs \in Seq(Request) /\ Len(rs) = Len(requests) /\ rs[i] = Ended
       /\ \A j \in 1 .. Len(requests) : j # i => rs[j] = requests[j]
  BY <1>1, <1>10, Replaced, EndedIsRequest DEF Over
<1>12. requests' = Append(rs, n)
  <2>1. [requests[i] EXCEPT !.kind = "load", !.state = "sent", !.token = token] = n
    BY <1>2, <1>3, <1>5, <1>7
  <2>. QED
    BY <1>10, <2>1 DEF Reload
<1>13. /\ RequestsStep(t) /\ requests' \in Seq(Request)
       /\ Len(requests') = Len(requests) + 1 /\ requests'[Len(requests) + 1] = n
       /\ DOMAIN requests' = 1 .. Len(requests) + 1 /\ DOMAIN requests = 1 .. Len(requests)
  <2>1. ConsoleTypeOK /\ Room /\ n.tab = t /\ n \in Request /\ Adds(rs, n)
    BY <1>1, <1>8, <1>9, <1>12 DEF Adds
  <2>2. Ends(t, rs)
    BY <1>1, <1>2, <1>11 DEF Ends
  <2>3. Grown(t, n)
    BY <2>1, <2>2, EndsAndAdds
  <2>. QED
    BY <2>3 DEF Grown
<1>14. \A j \in 1 .. Len(requests) : requests'[j] = rs[j]
  BY <1>8, <1>11, <1>12, Appended
<1>15. RequestOK(n)'
  <2>1. /\ n.visit <= tab[t].visit
        /\ n.visit = tab[t].visit => n.page = tab[t].at
        /\ n.page \in DOMAIN Pages /\ n.changes <= changes /\ NoTab # t
    BY <1>1, <1>9, ConsoleAssumption DEF RequestOK
  <2>2. n.changes \in Nat /\ changes \in Nat
    BY <1>1, <1>8 DEF ConsoleTypeOK, Request
  <2>3. n.token <= logins'
    BY <1>1, <1>8 DEF CountStep
  <2>4. n.changes <= changes'
    BY <2>1, <2>2 DEF CountStep
  <2>. QED
    BY <1>8, <1>9, <2>1, <2>3, <2>4 DEF RequestOK
<1>16. /\ Len(requests) + 1 \in 1 .. Len(requests')
       /\ \A j \in 1 .. Len(requests') :
             \/ j = Len(requests) + 1
             \/ j <= Len(requests) /\ (requests'[j] = requests[j] \/ requests'[j] = Ended)
  BY <1>1, <1>11, <1>13, <1>14
<1>17. \A j \in 1 .. Len(requests') :
          (j <= Len(requests) /\ requests'[j] = requests[j]) \/ RequestOK(requests[j])'
  BY <1>1, <1>13, <1>15, <1>16, OneIsNew
<1>18. requests'[i] = Ended /\ \A j \in 1 .. Len(requests) : j # i => requests'[j] = requests[j]
  BY <1>11, <1>13, <1>14
<1>. QED
  BY <1>8, <1>9, <1>13, <1>17, <1>18

LEMMA TimerFiresKeeps ==
    ASSUME ConsoleInv, NEW i \in DOMAIN requests, TimerFires(i)
    PROVE  ConsoleInv'
<1>1. /\ requests[i].state = "answered" /\ requests[i].kind = "timer" /\ Room
      /\ requests' = Reload(Over(i), i)
      /\ UNCHANGED <<token, logins, expired, changes, runs, tab, failures, upset>>
  BY DEF TimerFires
<1>2. PICK t \in Tabs : /\ t = requests[i].tab /\ ConsoleTypeOK /\ RequestOK(requests[i])
                        /\ requests[i] \in Request /\ TabOK(t) /\ PageKept(t)
  BY <1>1, UnderWay
<1>3. CountStep
  BY <1>1, <1>2, CountsRest DEF ConsoleTypeOK
<1>. DEFINE last == Len(requests) + 1
<1>4. /\ RequestsStep(t) /\ requests' \in Seq(Request) /\ Len(requests') = last
      /\ DOMAIN requests' = 1 .. last /\ DOMAIN requests = 1 .. Len(requests)
      /\ requests'[last].kind = "load" /\ requests'[last].state = "sent"
      /\ requests'[last].tab = t /\ requests'[last].visit = requests[i].visit
      /\ requests'[last].choice = requests[i].choice
      /\ requests'[i] = Ended
      /\ \A j \in 1 .. Len(requests) : j # i => requests'[j] = requests[j]
      /\ \A j \in 1 .. Len(requests') :
            (j <= Len(requests) /\ requests'[j] = requests[j]) \/ RequestOK(requests[j])'
  BY <1>1, <1>2, <1>3, ReloadIsLoad
<1>5. StepOf(t)
  BY <1>1, <1>2, <1>3, <1>4, TabsRest DEF StepOf
<1>6. TabOK(t)'
  BY <1>1, <1>2, <1>4, TabStays DEF TabOK
<1>7. PageKept(t)'
  <2>0. Len(requests) \in Nat /\ tab[t].latest \in Nat
    BY <1>2 DEF ConsoleTypeOK, Tab
  <2>1. CASE Mounted(i)
    <3>1. /\ requests[i].choice = 1 /\ requests[i].page \in DOMAIN Pages
          /\ requests[i].page \in Triggering
          /\ requests[i].page = tab[t].at
      BY <1>1, <1>2, <2>1, ConsoleAssumption DEF RequestOK, Mounted
    <3>2. tab[t].choice = 1
      BY <1>2, <3>1, PagesTell DEF TabOK, On
    <3>3. last \in DOMAIN requests' /\ last > tab'[t].latest /\ tab' \in [Tabs -> Tab]
      BY <1>1, <1>2, <1>4, <2>0 DEF TabOK, ConsoleTypeOK
    <3>. QED
      BY <1>1, <1>2, <1>4, <2>1, <3>1, <3>2, <3>3, PageRenewed DEF Mounted
  <2>2. CASE ~Mounted(i)
    <3>1. \A k \in OfPage(t) : requests'[k] = requests[k]
      BY <1>2, <1>4, <2>2 DEF OfPage, Mounted
    <3>2. \A j \in DOMAIN requests' :
             \/ j \in DOMAIN requests /\ requests'[j] = requests[j]
             \/ requests'[j].kind # "load"
             \/ requests'[j].visit # tab[t].visit
      BY <1>2, <1>4, <2>0, <2>2, EndedIsRequest DEF Mounted
    <3>. QED
      BY <1>1, <1>2, <1>4, <3>1, <3>2, PageSeesNothing
  <2>. QED
    BY <2>1, <2>2
<1>. QED
  BY <1>4, <1>5, <1>6, <1>7, StepKeeps

\* A handler that is over without having told its page anything.
LEMMA HandlerOver ==
    ASSUME ConsoleTypeOK, NEW i \in DOMAIN requests, requests[i].kind # "load", ~Due(i),
           NEW t \in Tabs, PageKept(t), RequestsStep(t), tab'[t] = tab[t],
           upset'[t] = upset[t], requests'[i] = Ended,
           DOMAIN requests' = 1 .. Len(requests), DOMAIN requests = 1 .. Len(requests),
           \A j \in 1 .. Len(requests) : j # i => requests'[j] = requests[j]
    PROVE  PageKept(t)'
<1>1. \A k \in OfPage(t) : requests[k].kind = "load" \/ Due(k) => requests'[k] = requests[k]
  BY DEF OfPage
<1>2. \A j \in DOMAIN requests' :
         (j \in DOMAIN requests /\ requests'[j] = requests[j]) \/ requests'[j].kind # "load"
  BY EndedIsRequest
<1>. QED
  BY <1>1, <1>2, PageSeesNothing

UpsetBecomes(t, U) == upset' = [upset EXCEPT ![t] = U]

\* A tab stays on its page.
LEMMA TabSame ==
    ASSUME ConsoleTypeOK, NEW t \in Tabs, NEW p \in Tab, TabBecomes(t, p),
           NEW U \in SUBSET Causes, UpsetBecomes(t, U),
           p.visit = tab[t].visit, p.at = tab[t].at
    PROVE  TabStep(t) /\ tab'[t] = p /\ upset'[t] = U
<1>1. tab' \in [Tabs -> Tab] /\ tab'[t] = p /\ \A u \in Tabs : u # t => tab'[u] = tab[u]
  BY DEF TabBecomes, ConsoleTypeOK
<1>2. /\ upset' \in [Tabs -> SUBSET Causes] /\ upset'[t] = U
      /\ \A u \in Tabs : u # t => upset'[u] = upset[u]
  BY DEF ConsoleTypeOK, UpsetBecomes
<1>3. p.visit \in Nat
  BY DEF Tab
<1>4. TabStep(t)
  BY <1>1, <1>2, <1>3 DEF TabStep
<1>. QED
  BY <1>1, <1>2, <1>4

\* A page is told, or not.
LEMMA ToldGoes ==
    ASSUME ConsoleInv, NEW i \in DOMAIN requests, requests[i].state # "over",
           NEW t \in Tabs, t = requests[i].tab, TabBecomes(t, Told(i)),
           NEW U \in SUBSET Causes, UpsetBecomes(t, U), changes' = changes
    PROVE  /\ TabStep(t) /\ upset'[t] = U
           /\ tab'[t].at = tab[t].at /\ tab'[t].visit = tab[t].visit
           /\ tab'[t].choice = tab[t].choice /\ tab'[t].latest = tab[t].latest
           /\ tab'[t].own <= changes'
           /\ ~(requests[i].state = "answered" /\ Mounted(i)) => tab'[t] = tab[t]
<1>. DEFINE good == requests[i].state = "answered"
            own == IF good /\ Mounted(i) /\ tab[t].own < requests[i].changes
                   THEN requests[i].changes ELSE tab[t].own
            r == [tab[t] EXCEPT !.own = own]
<1>1. ConsoleTypeOK /\ RequestOK(requests[i]) /\ requests[i] \in Request /\ TabOK(t)
  BY UnderWay
<1>2. /\ requests[i].changes \in Nat /\ requests[i].changes <= changes /\ changes \in Nat
      /\ tab[t] \in Tab /\ tab[t].own \in Nat /\ tab[t].own <= changes
  <2>1. tab[t] \in Tab /\ changes \in Nat
    BY <1>1 DEF ConsoleTypeOK
  <2>2. tab[t].own \in Nat /\ tab[t].own <= changes
    BY <1>1, <2>1 DEF TabOK, Tab
  <2>3. requests[i].changes \in Nat /\ requests[i].changes <= changes
    BY <1>1 DEF Request, RequestOK
  <2>. QED
    BY <2>1, <2>2, <2>3
<1>3. own \in Nat /\ own <= changes
  BY <1>2
<1>4. TabBecomes(t, r)
  BY DEF Told
<1>5. ~(good /\ Mounted(i)) => own = tab[t].own
  OBVIOUS
<1>6. /\ r \in Tab /\ r.own = own /\ r.at = tab[t].at /\ r.visit = tab[t].visit
      /\ r.choice = tab[t].choice /\ r.latest = tab[t].latest
      /\ own = tab[t].own => r = tab[t]
  <2>. HIDE DEF own
  <2>. QED
    BY <1>2, <1>3, WithOwn
<1>. HIDE DEF own, r
<1>7. PICK p \in Tab : p = r /\ p.visit = tab[t].visit /\ p.at = tab[t].at
  BY <1>6
<1>8. TabStep(t) /\ tab'[t] = p /\ upset'[t] = U
  <2>1. TabBecomes(t, p)
    BY <1>4, <1>7, Zenon
  <2>2. ConsoleTypeOK /\ p.visit = tab[t].visit /\ p.at = tab[t].at
    BY <1>1, <1>7, Zenon
  <2>. QED
    BY <2>1, <2>2, TabSame
<1>9. ~(good /\ Mounted(i)) => tab'[t] = tab[t]
  BY <1>5, <1>6, <1>7, <1>8
<1>. QED
  BY <1>3, <1>6, <1>7, <1>8, <1>9

LEMMA ActedKeeps ==
    ASSUME ConsoleInv, NEW i \in DOMAIN requests, Acted(i)
    PROVE  ConsoleInv'
<1>. DEFINE good == requests[i].state = "answered"
<1>1. /\ requests[i].state \in {"answered", "failed"} /\ requests[i].kind = "act" /\ Room
      /\ UNCHANGED <<token, logins, expired, changes, runs, failures>>
  BY DEF Acted
<1>2. PICK t \in Tabs : /\ t = requests[i].tab /\ ConsoleTypeOK /\ RequestOK(requests[i])
                        /\ requests[i] \in Request /\ TabOK(t) /\ PageKept(t)
  BY <1>1, UnderWay
<1>3. PICK reload \in Pages[requests[i].page].reload :
         LET again == reload = "always" \/ (good /\ reload = "done")
         IN  /\ requests' = IF again THEN Reload(Over(i), i) ELSE Over(i)
             /\ TabBecomes(t, Told(i))
             /\ upset' = [upset EXCEPT ![t] = @ \cup
                   (IF again THEN StaleClosure(i) ELSE {}) \cup
                   (IF good /\ Mounted(i) /\ ~again THEN {"unseen"} ELSE {})]
  BY <1>1, <1>2 DEF Acted
<1>. DEFINE again == reload = "always" \/ (good /\ reload = "done")
            U == upset[t] \cup (IF again THEN StaleClosure(i) ELSE {}) \cup
                   (IF good /\ Mounted(i) /\ ~again THEN {"unseen"} ELSE {})
<1>4. TabBecomes(t, Told(i)) /\ upset' = [upset EXCEPT ![t] = U]
  BY <1>2, <1>3 DEF ConsoleTypeOK
<1>5. Len(requests) \in Nat /\ tab[t].latest \in Nat
  BY <1>2 DEF ConsoleTypeOK, Tab
<1>7. U \in SUBSET Causes
  BY <1>2 DEF ConsoleTypeOK, Causes, StaleClosure
<1>9. /\ TabStep(t) /\ upset'[t] = U
      /\ tab'[t].at = tab[t].at /\ tab'[t].visit = tab[t].visit
      /\ tab'[t].choice = tab[t].choice /\ tab'[t].latest = tab[t].latest
      /\ tab'[t].own <= changes'
      /\ ~(good /\ Mounted(i)) => tab'[t] = tab[t]
  <2>1. PICK S \in SUBSET Causes : S = U
    BY <1>7
  <2>. HIDE DEF U
  <2>2. TabBecomes(t, Told(i)) /\ UpsetBecomes(t, S)
    BY <1>4, <2>1 DEF UpsetBecomes
  <2>3. requests[i].state # "over" /\ changes' = changes
    BY <1>1
  <2>4. requests[i].state = "answered" <=> good
    OBVIOUS
  <2>. HIDE DEF good
  <2>. QED
    BY <1>2, <2>1, <2>2, <2>3, <2>4, ToldGoes
<1>10. CountStep
  BY <1>1, <1>2, CountsRest DEF ConsoleTypeOK
<1>11. ~Mounted(i) => tab'[t] = tab[t] /\ upset'[t] = upset[t]
  BY <1>9 DEF StaleClosure
<1>12. ASSUME RequestsStep(t) PROVE TabOK(t)'
  BY <1>9, <1>12, TabStays
<1>13. CASE again
  <2>. DEFINE last == Len(requests) + 1
  <2>1. requests' = Reload(Over(i), i)
    BY <1>3, <1>13
  <2>2. /\ RequestsStep(t) /\ requests' \in Seq(Request) /\ Len(requests') = last
        /\ DOMAIN requests' = 1 .. last /\ DOMAIN requests = 1 .. Len(requests)
        /\ requests'[last].kind = "load" /\ requests'[last].state = "sent"
        /\ requests'[last].tab = t /\ requests'[last].visit = requests[i].visit
        /\ requests'[last].choice = requests[i].choice
        /\ requests'[i] = Ended
        /\ \A j \in 1 .. Len(requests) : j # i => requests'[j] = requests[j]
        /\ \A j \in 1 .. Len(requests') :
              (j <= Len(requests) /\ requests'[j] = requests[j]) \/ RequestOK(requests[j])'
    BY <1>1, <1>2, <1>9, <1>10, <2>1, ReloadIsLoad
  <2>3. PageKept(t)'
    <3>1. CASE Mounted(i) /\ requests[i].choice = tab[t].choice
      <4>1. last \in DOMAIN requests' /\ last > tab'[t].latest /\ tab' \in [Tabs -> Tab]
        BY <1>2, <1>5, <1>9, <2>2 DEF TabOK, TabStep
      <4>. QED
        BY <1>2, <1>9, <2>2, <3>1, <4>1, PageRenewed, SMTT(30) DEF Mounted
    <3>2. CASE Mounted(i) /\ requests[i].choice # tab[t].choice
      <4>1. upset'[t] # {}
        BY <1>2, <1>9, <1>13, <3>2 DEF StaleClosure
      <4>. QED
        BY <4>1 DEF PageKept
    <3>3. CASE ~Mounted(i)
      <4>1. \A k \in OfPage(t) : requests'[k] = requests[k]
        BY <1>2, <2>2, <3>3 DEF OfPage, Mounted
      <4>2. \A j \in DOMAIN requests' :
               \/ j \in DOMAIN requests /\ requests'[j] = requests[j]
               \/ requests'[j].kind # "load"
               \/ requests'[j].visit # tab[t].visit
        BY <1>2, <1>5, <2>2, <3>3, EndedIsRequest DEF Mounted
      <4>. QED
        BY <1>2, <1>11, <2>2, <3>3, <4>1, <4>2, PageSeesNothing
    <3>. QED
      BY <3>1, <3>2, <3>3
  <2>. QED
    BY <1>9, <1>10, <1>12, <2>2, <2>3, StepKeeps DEF StepOf
<1>14. CASE ~again
  <2>1. requests' = Over(i)
    BY <1>3, <1>14
  <2>2. /\ RequestsStep(t) /\ Len(requests') = Len(requests) /\ requests' \in Seq(Request)
        /\ DOMAIN requests' = 1 .. Len(requests) /\ DOMAIN requests = 1 .. Len(requests)
        /\ requests'[i] = Ended
        /\ \A j \in 1 .. Len(requests) : j # i => requests'[j] = requests[j]
        /\ \A j \in 1 .. Len(requests') :
              (j <= Len(requests) /\ requests'[j] = requests[j]) \/ RequestOK(requests[j])'
    BY <1>2, <1>10, <2>1, EndsOne
  <2>3. PageKept(t)'
    <3>1. CASE good /\ Mounted(i)
      <4>1. upset'[t] # {}
        BY <1>9, <1>14, <3>1
      <4>. QED
        BY <4>1 DEF PageKept
    <3>2. CASE ~(good /\ Mounted(i))
      <4>1. tab'[t] = tab[t] /\ upset'[t] = upset[t]
        BY <1>9, <1>14, <3>2
      <4>. QED
        BY <1>1, <1>2, <2>2, <4>1, HandlerOver DEF Due
    <3>. QED
      BY <3>1, <3>2
  <2>. QED
    BY <1>9, <1>10, <1>12, <2>2, <2>3, StepKeeps DEF StepOf
<1>. QED
  BY <1>13, <1>14

LEMMA TriggeredKeeps ==
    ASSUME ConsoleInv, NEW i \in DOMAIN requests, Triggered(i)
    PROVE  ConsoleInv'
<1>. DEFINE good == requests[i].state = "answered"
<1>1. /\ requests[i].state \in {"answered", "failed"} /\ requests[i].kind = "trigger"
      /\ UNCHANGED <<token, logins, expired, changes, runs, failures, upset>>
      /\ requests' = IF good THEN [requests EXCEPT ![i].kind = "timer"] ELSE Over(i)
      /\ TabBecomes(requests[i].tab, Told(i))
  BY DEF Triggered
<1>2. PICK t \in Tabs : /\ t = requests[i].tab /\ ConsoleTypeOK /\ RequestOK(requests[i])
                        /\ requests[i] \in Request /\ TabOK(t) /\ PageKept(t)
  BY <1>1, UnderWay
<1>3. /\ TabStep(t) /\ upset'[t] = upset[t]
      /\ tab'[t].at = tab[t].at /\ tab'[t].visit = tab[t].visit
      /\ tab'[t].choice = tab[t].choice /\ tab'[t].latest = tab[t].latest
      /\ tab'[t].own <= changes'
      /\ ~(good /\ Mounted(i)) => tab'[t] = tab[t]
  <2>1. PICK U \in SUBSET Causes : U = upset[t]
    BY <1>2 DEF ConsoleTypeOK
  <2>2. UpsetBecomes(t, U)
    BY <1>1, <1>2, <2>1 DEF ConsoleTypeOK, UpsetBecomes
  <2>3. requests[i].state # "over" /\ changes' = changes /\ TabBecomes(t, Told(i))
    BY <1>1, <1>2
  <2>. QED
    BY <1>2, <2>1, <2>2, <2>3, ToldGoes
<1>4. CountStep /\ Len(requests) \in Nat
  BY <1>1, <1>2, CountsRest DEF ConsoleTypeOK
<1>5. ASSUME RequestsStep(t) PROVE TabOK(t)'
  BY <1>3, <1>5, TabStays
<1>6. CASE good
  <2>1. PICK q \in Request : q = requests[i]
    BY <1>2
  <2>2. PICK n : n = [q EXCEPT !.kind = "timer"]
    OBVIOUS
  <2>3. /\ n \in Request /\ n.kind = "timer" /\ n.token = q.token /\ n.changes = q.changes
        /\ n.tab = q.tab /\ n.visit = q.visit /\ n.choice = q.choice
        /\ n.page = q.page /\ n.state = q.state
    BY <2>2, WithKind
  <2>4. requests' = [requests EXCEPT ![i] = n]
    BY <1>1, <1>2, <1>6, <2>1, <2>2 DEF ConsoleTypeOK
  <2>5. /\ RequestsStep(t) /\ requests' \in Seq(Request) /\ Len(requests') = Len(requests)
        /\ DOMAIN requests' = 1 .. Len(requests) /\ DOMAIN requests = 1 .. Len(requests)
        /\ requests'[i] = n /\ \A j \in 1 .. Len(requests) : j # i => requests'[j] = requests[j]
    BY <1>2, <2>1, <2>3, <2>4, ReplacesOne
  <2>6. RequestOK(n)'
    <3>1. n.choice = 1 /\ n.page \in Triggering /\ n.page \in DOMAIN Pages
      BY <1>1, <1>2, <2>1, <2>3 DEF RequestOK
    <3>2. n.state = "answered" /\ n.tab = t /\ t # NoTab
      BY <1>2, <1>6, <2>1, <2>3, ConsoleAssumption
    <3>3. /\ n.visit <= tab'[t].visit
          /\ n.visit = tab'[t].visit => n.page = tab'[t].at
      BY <1>2, <1>3, <2>1, <2>3, <3>2 DEF RequestOK
    <3>4. n.token <= logins' /\ n.changes <= changes'
      BY <1>1, <1>2, <2>1, <2>3 DEF RequestOK
    <3>. QED
      BY <2>3, <3>1, <3>2, <3>3, <3>4 DEF RequestOK
  <2>7. \A j \in 1 .. Len(requests') :
           (j <= Len(requests) /\ requests'[j] = requests[j]) \/ RequestOK(requests[j])'
    BY <1>2, <1>4, <2>5, <2>6, OneIsNew
  <2>8. PageKept(t)'
    <3>1. CASE Mounted(i)
      <4>1. i \in DOMAIN requests' /\ tab' \in [Tabs -> Tab] /\ Due(i)'
        BY <1>3, <1>6, <2>1, <2>3, <2>5 DEF TabStep, Due
      <4>. QED
        BY <1>2, <1>3, <2>1, <2>3, <2>5, <3>1, <4>1, PageRenewed DEF Mounted
    <3>2. CASE ~Mounted(i)
      <4>1. \A k \in OfPage(t) : requests'[k] = requests[k]
        BY <1>2, <2>5, <3>2 DEF OfPage, Mounted
      <4>2. \A j \in DOMAIN requests' :
               (j \in DOMAIN requests /\ requests'[j] = requests[j]) \/ requests'[j].kind # "load"
        BY <2>3, <2>5
      <4>. QED
        BY <1>2, <1>3, <2>5, <3>2, <4>1, <4>2, PageSeesNothing
    <3>. QED
      BY <3>1, <3>2
  <2>. QED
    BY <1>3, <1>4, <1>5, <2>5, <2>7, <2>8, StepKeeps DEF StepOf
<1>7. CASE ~good
  <2>1. requests' = Over(i) /\ tab'[t] = tab[t]
    BY <1>1, <1>3, <1>7
  <2>2. /\ RequestsStep(t) /\ Len(requests') = Len(requests) /\ requests' \in Seq(Request)
        /\ DOMAIN requests' = 1 .. Len(requests) /\ DOMAIN requests = 1 .. Len(requests)
        /\ requests'[i] = Ended
        /\ \A j \in 1 .. Len(requests) : j # i => requests'[j] = requests[j]
        /\ \A j \in 1 .. Len(requests') :
              (j <= Len(requests) /\ requests'[j] = requests[j]) \/ RequestOK(requests[j])'
    BY <1>2, <1>4, <2>1, EndsOne
  <2>3. PageKept(t)'
    BY <1>1, <1>2, <1>3, <1>7, <2>1, <2>2, HandlerOver DEF Due
  <2>. QED
    BY <1>3, <1>4, <1>5, <2>2, <2>3, StepKeeps DEF StepOf
<1>. QED
  BY <1>6, <1>7

\* A run of a page that is to load again will be seen; the others upset their page.
LEMMA RunEndsKeeps ==
    ASSUME ConsoleInv, NEW run \in runs, RunEnds(run)
    PROVE  ConsoleInv'
<1>1. /\ ConsoleTypeOK /\ changes \in Nat /\ runs \subseteq Tabs \X Nat \X Nat
      /\ requests \in Seq(Request) /\ Len(requests) \in Nat /\ Len(requests) <= MaxRequests
      /\ runs' = runs \ {run} /\ changes' = changes + 1
      /\ UNCHANGED <<token, logins, expired, requests, failures>>
  BY DEF RunEnds, ConsoleInv, ConsoleTypeOK
<1>2. PICK t \in Tabs : t = run[1]
  BY <1>1
<1>3. TabOK(t) /\ PageKept(t) /\ tab[t] \in Tab /\ tab[t].own \in Nat /\ tab[t].own <= changes
  BY <1>1 DEF ConsoleInv, ConsoleTypeOK, Tab, TabOK
<1>4. CountStep
  BY <1>1, ConsoleAssumption DEF CountStep, ConsoleTypeOK
<1>5. RequestsStep(t)
  BY <1>1, ConsoleAssumption DEF RequestsStep
<1>6. \A j \in 1 .. Len(requests') :
         (j <= Len(requests) /\ requests'[j] = requests[j]) \/ RequestOK(requests[j])'
  BY <1>1
<1>7. CASE tab[t].visit # run[2]
  <2>1. UNCHANGED <<tab, upset>>
    BY <1>2, <1>7 DEF RunEnds
  <2>2. TabOK(t)'
    BY <1>1, <1>3, <1>5, <2>1, TabStays
  <2>3. PageKept(t)'
    <3>1. \A j \in DOMAIN requests' : j \in DOMAIN requests /\ requests'[j] = requests[j]
      BY <1>1
    <3>2. \A k \in OfPage(t) : requests'[k] = requests[k]
      BY <1>1
    <3>. QED
      BY <1>1, <1>3, <1>5, <2>1, <3>1, <3>2, PageSeesNothing
  <2>4. TabStep(t)
    BY <1>1, <2>1, TabsRest
  <2>. QED
    BY <1>4, <1>5, <1>6, <2>2, <2>3, <2>4, StepKeeps DEF StepOf
<1>8. CASE tab[t].visit = run[2]
  <2>. DEFINE due == \E i \in Flying(t) : Mounted(i) /\ Due(i)
              U == IF due THEN upset[t] ELSE upset[t] \cup {"background"}
              r == [tab[t] EXCEPT !.own = changes + 1]
  <2>1. TabBecomes(t, r) /\ upset' = [upset EXCEPT ![t] = U]
    BY <1>1, <1>2, <1>8 DEF RunEnds, ConsoleTypeOK
  <2>2. U \in SUBSET Causes
    BY <1>1 DEF ConsoleTypeOK, Causes
  <2>3. /\ r \in Tab /\ r.own = changes + 1 /\ r.at = tab[t].at /\ r.visit = tab[t].visit
        /\ r.choice = tab[t].choice /\ r.latest = tab[t].latest
    <3>1. PICK own \in Nat : own = changes + 1
      BY <1>1
    <3>. QED
      BY <1>3, <3>1, WithOwn
  <2>. HIDE DEF r, U
  <2>4. TabStep(t) /\ tab'[t] = r /\ upset'[t] = U
    <3>1. PICK p \in Tab : p = r
      BY <2>3
    <3>2. PICK S \in SUBSET Causes : S = U
      BY <2>2
    <3>3. TabBecomes(t, p) /\ UpsetBecomes(t, S)
          /\ p.visit = tab[t].visit /\ p.at = tab[t].at
      BY <2>1, <2>3, <3>1, <3>2 DEF UpsetBecomes
    <3>. QED
      BY <1>1, <3>1, <3>2, <3>3, TabSame
  <2>5. TabOK(t)'
    BY <1>1, <1>5, <2>3, <2>4, TabStays
  <2>6. PageKept(t)'
    <3>1. CASE due
      <4>1. PICK k \in Flying(t) : Mounted(k) /\ Due(k)
        BY <3>1
      <4>2. k \in DOMAIN requests' /\ requests'[k].tab = t
            /\ requests'[k].visit = tab'[t].visit /\ Due(k)'
        BY <1>1, <2>3, <2>4, <4>1 DEF Flying, Mounted, Due
      <4>3. requests' \in Seq(Request) /\ tab' \in [Tabs -> Tab]
        BY <1>1, <2>4 DEF TabStep
      <4>. QED
        BY <4>2, <4>3, PageRenewed
    <3>2. CASE ~due
      <4>1. upset'[t] # {}
        BY <2>4, <3>2 DEF U
      <4>. QED
        BY <4>1 DEF PageKept
    <3>. QED
      BY <3>1, <3>2
  <2>. QED
    BY <1>4, <1>5, <1>6, <2>4, <2>5, <2>6, StepKeeps DEF StepOf
<1>. QED
  BY <1>7, <1>8

LEMMA ExpireKeeps ==
    ASSUME ConsoleInv, Expire
    PROVE  ConsoleInv'
<1>1. ConsoleTypeOK /\ expired \subseteq expired' /\ expired' \subseteq 1 .. logins
      /\ UNCHANGED <<token, logins, changes, runs, tab, requests, failures, upset>>
  BY DEF Expire, ConsoleInv, ConsoleTypeOK
<1>2. ConsoleTypeOK'
  BY <1>1 DEF ConsoleTypeOK
<1>3. ASSUME NEW i \in DOMAIN requests PROVE RequestOK(requests[i])'
  <2>1. RequestOK(requests[i])
    BY DEF ConsoleInv
  <2>2. requests[i].state = "refused" => requests[i].token \in expired' \cup {0}
    BY <1>1, <2>1 DEF RequestOK
  <2>3. requests'[i] = requests[i]
    BY <1>1
  <2>. QED
    BY <1>1, <2>1, <2>2, <2>3 DEF RequestOK
<1>4. \A t \in Tabs : TabOK(t)'
  BY <1>1 DEF TabOK, On, ConsoleInv
<1>5. \A t \in Tabs : PageKept(t)'
  BY <1>1 DEF PageKept, ShownRight, Coming, Due, Right, OfPage, On, ConsoleInv
<1>. QED
  BY <1>1, <1>2, <1>3, <1>4, <1>5 DEF ConsoleInv

LEMMA ConsoleRest ==
    ASSUME ConsoleInv, UNCHANGED consoleVars
    PROVE  ConsoleInv'
<1>1. UNCHANGED <<token, logins, expired, changes, runs, tab, requests, failures, upset>>
  BY DEF consoleVars
<1>2. ConsoleTypeOK'
  BY <1>1 DEF ConsoleTypeOK, ConsoleInv
<1>3. \A i \in DOMAIN requests' : RequestOK(requests[i])'
  BY <1>1 DEF RequestOK, ConsoleInv
<1>4. \A t \in Tabs : TabOK(t)'
  BY <1>1 DEF TabOK, On, ConsoleInv
<1>5. \A t \in Tabs : PageKept(t)'
  BY <1>1 DEF PageKept, ShownRight, Coming, Due, Right, OfPage, On, ConsoleInv
<1>. QED
  BY <1>2, <1>3, <1>4, <1>5 DEF ConsoleInv

LEMMA ConsoleStep ==
    ASSUME ConsoleInv, ConsoleNext
    PROVE  ConsoleInv'
<1>1. ASSUME NEW t \in Tabs, SignIn(t) \/ SignOut(t) \/ Act(t) PROVE ConsoleInv'
  BY <1>1, SignInKeeps, SignOutKeeps, ActKeeps
<1>2. ASSUME NEW t \in Tabs, NEW page \in Home[t], Visit(t, page) PROVE ConsoleInv'
  BY <1>2, VisitKeeps
<1>3. ASSUME NEW t \in Tabs, NEW choice \in 1 .. 2, Choose(t, choice) PROVE ConsoleInv'
  BY <1>3, ChooseKeeps
<1>4. ASSUME NEW i \in DOMAIN requests,
             \/ Answer(i) \/ AnswerLogin(i) \/ TurnedAway(i) \/ SignedIn(i)
             \/ Loaded(i) \/ Acted(i) \/ Triggered(i) \/ TimerFires(i)
      PROVE  ConsoleInv'
  BY <1>4, AnswerKeeps, AnswerLoginKeeps, TurnedAwayKeeps, SignedInKeeps, LoadedKeeps,
     ActedKeeps, TriggeredKeeps, TimerFiresKeeps
<1>5. CASE Expire
  BY <1>5, ExpireKeeps
<1>6. ASSUME NEW run \in runs, RunEnds(run) PROVE ConsoleInv'
  BY <1>6, RunEndsKeeps
<1>. QED
  BY <1>1, <1>2, <1>3, <1>4, <1>5, <1>6, Zenon DEF ConsoleNext

LEMMA ConsoleStarts ==
    ASSUME ConsoleInit
    PROVE  ConsoleInv
<1>1. /\ logins \in {0, 1} /\ token = logins /\ expired = {} /\ changes = 0 /\ runs = {}
      /\ requests = <<>> /\ failures = 0 /\ upset = [t \in Tabs |-> {}]
      /\ DOMAIN requests = {} /\ Len(requests) = 0
  BY DEF ConsoleInit
<1>2. ASSUME NEW t \in Tabs
      PROVE  /\ tab[t] \in Tab /\ tab[t].choice = 1 /\ tab[t].latest = 0 /\ tab[t].own = 0
             /\ tab[t].at # LoginPage =>
                   /\ tab[t].at \in DOMAIN Pages
                   /\ 1 \in On(t).loads => tab[t].shown = [choice |-> 1, changes |-> 0]
  <2>1. AtLogin \in Tab /\ AtLogin.at = LoginPage /\ AtLogin.choice = 1 /\ AtLogin.latest = 0
        /\ AtLogin.own = 0
    BY DEF AtLogin, Tab, Nothing
  <2>2. ASSUME NEW page \in DOMAIN Pages, tab[t] = AtPage(page)
        PROVE  /\ tab[t] \in Tab /\ tab[t].choice = 1 /\ tab[t].latest = 0 /\ tab[t].own = 0
               /\ tab[t].at = page
               /\ 1 \in Pages[page].loads => tab[t].shown = [choice |-> 1, changes |-> 0]
    <3>1. PICK first : first = [choice |-> 1, changes |-> 0]
      BY Zenon
    <3>2. first \in [choice: 0 .. 2, changes: Nat]
      BY <3>1
    <3>3. PICK shown : shown = IF 1 \in Pages[page].loads THEN first ELSE AtLogin.shown
      BY Zenon
    <3>4. shown \in [choice: 0 .. 2, changes: Nat]
      BY <2>1, <3>2, <3>3 DEF Tab
    <3>5. tab[t] = [AtLogin EXCEPT !.at = page, !.shown = shown]
      BY <2>2, <3>1, <3>3, Zenon DEF AtPage
    <3>6. tab[t] = [at |-> page, visit |-> 0, choice |-> 1, shown |-> shown, latest |-> 0,
                    own |-> 0]
      BY <3>5 DEF AtLogin
    <3>7. tab[t] \in Tab
      BY <3>4, <3>6 DEF Tab
    <3>8. /\ tab[t].choice = 1 /\ tab[t].latest = 0 /\ tab[t].own = 0
          /\ tab[t].at = page /\ tab[t].shown = shown
      BY <3>6
    <3>. QED
      BY <3>1, <3>3, <3>7, <3>8
  <2>3. tab[t] = AtLogin \/ \E page \in DOMAIN Pages : tab[t] = AtPage(page)
    BY DEF ConsoleInit
  <2>. QED
    BY <2>1, <2>2, <2>3 DEF On
<1>3. tab \in [Tabs -> Tab]
  <2>1. tab \in [Tabs -> {AtLogin} \cup {AtPage(page) : page \in DOMAIN Pages}]
    BY DEF ConsoleInit
  <2>. QED
    BY <1>2, <2>1
<1>4. ConsoleTypeOK
  <2>1. logins \in 0 .. MaxLogins /\ token \in 0 .. logins /\ failures \in 0 .. MaxFailures
    BY <1>1, ConsoleAssumption
  <2>2. expired \subseteq 1 .. logins /\ changes \in Nat /\ runs \subseteq Tabs \X Nat \X Nat
    BY <1>1
  <2>3. requests \in Seq(Request)
    BY <1>1
  <2>4. Len(requests) <= MaxRequests
    BY <1>1, ConsoleAssumption
  <2>5. upset \in [Tabs -> SUBSET Causes]
    BY <1>1
  <2>. QED
    BY <1>3, <2>1, <2>2, <2>3, <2>4, <2>5 DEF ConsoleTypeOK
<1>5. \A t \in Tabs : TabOK(t)
  BY <1>1, <1>2, PagesTell DEF TabOK, On
<1>6. \A t \in Tabs : PageKept(t)
  <2>. SUFFICES ASSUME NEW t \in Tabs, tab[t].at # LoginPage, tab[t].choice \in On(t).loads
                PROVE  ShownRight(t) /\ OfPage(t) = {}
    BY DEF PageKept
  <2>. QED
    BY <1>1, <1>2 DEF ShownRight, OfPage
<1>. QED
  BY <1>1, <1>4, <1>5, <1>6 DEF ConsoleInv

LEMMA ConsoleSafe ==
    ASSUME ConsoleInv
    PROVE  IdlePageIsCurrent
<1>. SUFFICES ASSUME NEW t \in Tabs, tab[t].at # LoginPage, Quiet(t), upset[t] = {},
                     tab[t].choice \in On(t).loads
              PROVE  ShownRight(t)
  BY DEF IdlePageIsCurrent, ShownRight
<1>1. ShownRight(t) \/ Coming(t, tab[t].latest)
  BY DEF ConsoleInv, PageKept
<1>2. OfPage(t) = {}
  BY DEF Quiet, Flying, OfPage
<1>. QED
  BY <1>1, <1>2 DEF Coming

\* The step of ValidTokenKept.
LEMMA TokenGivenUp ==
    ASSUME ConsoleInv, ConsoleNext, token \notin expired \cup {0}, token' = 0
    PROVE  \/ \E t \in Tabs : tab[t].at # LoginPage /\ tab'[t].at = LoginPage
                              /\ requests' = requests
           \/ \E i \in DOMAIN requests :
                 requests[i].state = "refused" /\ requests'[i].state = "over"
                 /\ requests[i].token # token
<1>. DEFINE goal == \/ \E t \in Tabs : tab[t].at # LoginPage /\ tab'[t].at = LoginPage
                                       /\ requests' = requests
                    \/ \E i \in DOMAIN requests :
                          requests[i].state = "refused" /\ requests'[i].state = "over"
                          /\ requests[i].token # token
<1>1. ASSUME NEW t \in Tabs, SignOut(t) PROVE goal
  <2>1. tab'[t] = Opened(t, LoginPage)
    BY <1>1 DEF SignOut, TabBecomes, ConsoleInv, ConsoleTypeOK
  <2>2. tab'[t].at = LoginPage
    BY <2>1 DEF Opened
  <2>. QED
    BY <1>1, <2>2 DEF SignOut
<1>2. ASSUME NEW i \in DOMAIN requests, TurnedAway(i) PROVE goal
  <2>1. requests[i].state = "refused" /\ RequestOK(requests[i])
    BY <1>2, UnderWay DEF TurnedAway
  <2>2. requests'[i] = Ended
    BY <1>2 DEF TurnedAway, Expelled
  <2>3. requests[i].token # token
    BY <2>1 DEF RequestOK
  <2>. QED
    BY <2>1, <2>2, <2>3, EndedIsRequest
<1>3. ASSUME NEW i \in DOMAIN requests, SignedIn(i) PROVE FALSE
  <2>1. RequestOK(requests[i]) /\ token' = requests[i].token
        /\ requests[i].kind = "login" /\ requests[i].state = "answered"
    BY <1>3, UnderWay DEF SignedIn
  <2>. QED
    BY <2>1 DEF RequestOK
<1>4. token' # token
  OBVIOUS
<1>5. ASSUME NEW t \in Tabs, SignIn(t) \/ Act(t) PROVE FALSE
  BY <1>4, <1>5 DEF SignIn, Act
<1>6. ASSUME NEW t \in Tabs, NEW page, Visit(t, page) PROVE FALSE
  BY <1>4, <1>6 DEF Visit
<1>7. ASSUME NEW t \in Tabs, NEW choice, Choose(t, choice) PROVE FALSE
  BY <1>4, <1>7 DEF Choose
<1>8. ASSUME NEW i \in DOMAIN requests,
             \/ Answer(i) \/ AnswerLogin(i) \/ Loaded(i) \/ Acted(i)
             \/ Triggered(i) \/ TimerFires(i)
      PROVE  FALSE
  BY <1>4, <1>8 DEF Answer, AnswerLogin, Loaded, Acted, Triggered, TimerFires
<1>9. ~Expire /\ ~\E run \in runs : RunEnds(run)
  BY <1>4 DEF Expire, RunEnds
<1>. HIDE DEF goal
<1>10. goal
  BY <1>1, <1>2, <1>3, <1>5, <1>6, <1>7, <1>8, <1>9, Zenon DEF ConsoleNext
<1>. QED
  BY <1>10 DEF goal
-----------------------------------------------------------------------------
(***************************************************************************)
(* The theorems.                                                           *)
(***************************************************************************)
LEMMA AccessStarts == AccessInit => AccessInv
  BY AccountsStarts, ConsoleStarts DEF AccessInit, AccessInv

LEMMA AccessStep == AccessInv /\ [AccessNext]_accessVars => AccessInv'
<1>. SUFFICES ASSUME AccessInv, [AccessNext]_accessVars PROVE AccessInv'
  OBVIOUS
<1>1. AccountsInv /\ ConsoleInv /\ side \in {"routes", "tabs"}
  BY DEF AccessInv
<1>2. CASE side = "routes" /\ AccountsNext /\ UNCHANGED <<consoleVars, side>>
  BY <1>1, <1>2, AccountsStep, ConsoleRest DEF AccessInv
<1>3. CASE side = "tabs" /\ ConsoleNext /\ UNCHANGED <<accountsVars, side>>
  BY <1>1, <1>3, ConsoleStep, AccountsRest DEF AccessInv
<1>4. CASE UNCHANGED accessVars
  BY <1>1, <1>4, ConsoleRest, AccountsRest DEF AccessInv, accessVars
<1>. QED
  BY <1>2, <1>3, <1>4 DEF AccessNext

LEMMA AccessHolds == AccessSpec => []AccessInv
  BY AccessStarts, AccessStep, PTL DEF AccessSpec

\* The cache, the requests of both sides and the tabs keep their types.
THEOREM AccessTypeCorrect == AccessSpec => []AccessTypeOK
<1>1. AccessInv => AccessTypeOK
  BY DEF AccessInv, AccountsInv, ConsoleInv, AccessTypeOK
<1>. QED
  BY <1>1, AccessHolds, PTL

(***************************************************************************)
(* A code is good for one verification, for MaxAttempts wrong guesses and  *)
(* for its life: sendOtp and verifyOtp, with any number of requests, codes,*)
(* ticks and switches of the store.                                        *)
(***************************************************************************)
THEOREM CodeTheorem == AccessSpec => []CodeIsLimited
<1>1. AccessInv => CodeIsLimited
  BY AccountsSafe DEF AccessInv
<1>. QED
  BY <1>1, AccessHolds, PTL

(***************************************************************************)
(* A refresh token that was rotated, replaced or logged out is not accepted*)
(* again, unless its text was made anew in the same second, requests with  *)
(* the token of the user overlapped or the store was another in between:   *)
(* the comparison in refresh finds only the token that is stored, and what *)
(* is stored is none of the spent ones.                                    *)
(***************************************************************************)
THEOREM TokenTheorem == AccessSpec => TokenIsRotated
<1>. DEFINE A == \A r \in Requests : At(r, "refresh") /\ At(r, "rotate")' =>
                    req[r].held.value \notin spent \/ "refresh_token" \in loose
<1>1. AccessInv /\ [AccessNext]_accessVars => [A]_accountsVars
  <2>. SUFFICES ASSUME AccessInv, [AccessNext]_accessVars, UNCHANGED accountsVars => FALSE
                PROVE  A
    OBVIOUS
  <2>1. AccountsInv /\ AccountsNext
    BY DEF AccessInv, AccessNext, accessVars
  <2>. QED
    BY <2>1, RefreshIsFresh
<1>. QED
  BY <1>1, AccessHolds, PTL DEF AccessSpec, TokenIsRotated

(***************************************************************************)
(* An idle page shows the list of its choice, with the changes of its own  *)
(* handlers and of the runs it triggered, unless something has upset it, as*)
(* a run does that ends when the page will not load again: every page of   *)
(* the dashboard, with any number of tabs, requests and visits.            *)
(***************************************************************************)
THEOREM IdleTheorem == AccessSpec => []IdlePageIsCurrent
<1>1. AccessInv => IdlePageIsCurrent
  BY ConsoleSafe DEF AccessInv
<1>. QED
  BY <1>1, AccessHolds, PTL

(***************************************************************************)
(* A valid token in localStorage is given up only by a logout or for a 401 *)
(* that was not about it: the interceptors of the API client.              *)
(***************************************************************************)
THEOREM ValidTokenTheorem == AccessSpec => ValidTokenKept
<1>. DEFINE A == token \notin expired \cup {0} /\ token' = 0 =>
                   \/ \E t \in Tabs : tab[t].at # LoginPage /\ tab'[t].at = LoginPage
                                      /\ requests' = requests
                   \/ \E i \in DOMAIN requests :
                         requests[i].state = "refused" /\ requests'[i].state = "over"
                         /\ requests[i].token # token
<1>1. AccessInv /\ [AccessNext]_accessVars => [A]_consoleVars
  <2>. SUFFICES ASSUME AccessInv, [AccessNext]_accessVars, UNCHANGED consoleVars => FALSE
                PROVE  A
    OBVIOUS
  <2>1. ConsoleInv /\ ConsoleNext
    BY DEF AccessInv, AccessNext, accessVars
  <2>. QED
    BY <2>1, TokenGivenUp
<1>. QED
  BY <1>1, AccessHolds, PTL DEF AccessSpec, ValidTokenKept
=============================================================================
