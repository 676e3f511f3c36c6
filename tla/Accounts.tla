------------------------------- MODULE Accounts -------------------------------
(***************************************************************************)
(* The routes under /auth that keep state: the refresh token of a user and *)
(* the one-time code of an identifier, each an entry of the cache, which is*)
(* Redis or, while that is away, a map in memory.  Every call of the cache *)
(* is a step; a comparison of hashes lies between reading and writing.     *)
(*                                                                         *)
(* One user and one identifier: no two users share a key.  A refresh token *)
(* is a signature over the user and the second it is made in, so those of  *)
(* one second are one text; the clock ticks in such seconds.  Codes are    *)
(* numbered.  Passwords, access tokens and roles decide whether a route is *)
(* reached at all and are not here.                                        *)
(***************************************************************************)
EXTENDS Naturals, FiniteSets

CONSTANTS
    Requests,     \* requests under way at a time
    MaxAttempts,  \* config.otp.maxAttempts
    CodeLife,     \* config.otp.expirySeconds, in ticks of the clock
    TokenLife,    \* the 7 days of a refresh token
    MemoryLife,   \* the hour that the map gives without a time to live
    MaxOps,       \* bound: requests
    MaxTicks,     \* bound: ticks of the clock
    MaxSwitches   \* bound: times that Redis goes or comes back

ASSUME AccountsAssumption ==
    /\ {MaxAttempts, CodeLife, TokenLife, MemoryLife} \subseteq Nat \ {0}
    /\ {MaxOps, MaxTicks, MaxSwitches} \subseteq Nat

VARIABLES
    store,    \* Redis and the map: the entry of each key
    redis,    \* redisAvailable
    req,      \* the requests
    issued,   \* refresh tokens that clients may have: the seconds of their iat
    codes,    \* codes so far
    ops, ticks, switches,
    spent,    \* history: those rotated, replaced or logged out, and not made again
    age,      \* history: ticks since the last code was sent
    wrong,    \* history: wrong guesses at the last code
    verified, \* history: times that the last code was verified
    loose     \* history: keys that two requests or stores have had, until one sets it alone

accountsVars == <<store, redis, req, issued, codes, ops, ticks, switches, spent, age,
                  wrong, verified, loose>>

Seconds == 1 .. MaxTicks + 1
Keys == {"refresh_token", "otp"}
Forever == 0
\* value: the token or the code, 0 if there is no entry; left: ticks to live.
Entry == [value: Nat, attempts: Nat, left: Nat]
None == [value |-> 0, attempts |-> 0, left |-> Forever]
Stages == {"idle", "login", "logout", "send", "drop", "refresh", "rotate", "verify",
           "compare"}
Idle == [pc |-> "idle", held |-> None]
KeyOf(pc) == IF pc \in {"login", "logout", "refresh", "rotate"} THEN "refresh_token" ELSE "otp"

AccountsTypeOK ==
    /\ store \in [{"redis", "memory"} -> [Keys -> Entry]]
    /\ redis \in BOOLEAN
    /\ req \in [Requests -> [pc: Stages, held: Entry]]
    /\ issued \subseteq Seconds /\ codes \in Nat
    /\ ops \in 0 .. MaxOps /\ ticks \in 0 .. MaxTicks /\ switches \in 0 .. MaxSwitches
    /\ spent \subseteq issued
    /\ age \in Nat /\ wrong \in Nat /\ verified \in Nat
    /\ loose \subseteq Keys

AccountsInit ==
    /\ store = [s \in {"redis", "memory"} |-> [k \in Keys |-> None]]
    /\ redis \in BOOLEAN
    /\ req = [r \in Requests |-> Idle]
    /\ issued = {} /\ codes = 0 /\ ops = 0 /\ ticks = 0 /\ switches = 0
    /\ spent = {} /\ age = 0 /\ wrong = 0 /\ verified = 0
    /\ loose = {}

\* cache.get, cache.set and cache.del, on the store that is there.
Where == IF redis THEN "redis" ELSE "memory"
Get(key) == store[Where][key]
Set(key, entry) == store' = [store EXCEPT ![Where] = [@ EXCEPT ![key] = entry]]
Del(key) == Set(key, None)

\* Mutant: Redis is told no mode.
PlainLeft(key) == IF redis THEN Forever ELSE MemoryLife

\* What KEEPTTL gives an entry: in Redis what is left of it, which is for ever if
\* it is gone; in memory the hour of an entry without a time to live.
KeptLeft(key) == IF redis THEN Get(key).left ELSE MemoryLife

At(r, pc) == req[r].pc = pc
Becomes(r, pc, held) == req' = [req EXCEPT ![r] = [pc |-> pc, held |-> held]]
Done(r) == Becomes(r, "idle", None)
Under(key, r) == \E q \in Requests \ {r} : ~At(q, "idle") /\ KeyOf(req[q].pc) = key

counters == <<ops, ticks, switches>>
-----------------------------------------------------------------------------
\* generateRefreshToken: iat in seconds and no jti.
Token == [None EXCEPT !.value = ticks + 1]

\* A request has come to its first call of the cache, with the token that it made
\* or was sent; routes that reach no call are left out.
Ask(r, pc) ==
    /\ At(r, "idle") /\ ops < MaxOps
    /\ ops' = ops + 1
    /\ CASE pc = "login" -> Becomes(r, pc, Token)
         [] pc = "refresh" -> \E sent \in issued : Becomes(r, pc, [None EXCEPT !.value = sent])
         [] pc = "logout" -> issued # {} /\ Becomes(r, pc, None)
         [] OTHER -> Becomes(r, pc, None)
    /\ loose' = IF Under(KeyOf(pc), r) THEN loose \cup {KeyOf(pc)} ELSE loose
    /\ UNCHANGED <<store, redis, issued, codes, ticks, switches, spent, age, wrong, verified>>

\* The token that the request has made replaces what there is.
Issue(r) ==
    LET new == req[r].held.value
    IN  /\ issued' = issued \cup {new}
        /\ Set("refresh_token", [value |-> new, attempts |-> 0, left |-> TokenLife])
        /\ spent' = issued \ {new}
        /\ Done(r)

LogIn(r) ==
    /\ At(r, "login")
    /\ Issue(r)
    /\ loose' = IF Under("refresh_token", r) THEN loose ELSE loose \ {"refresh_token"}
    /\ UNCHANGED <<redis, codes, counters, age, wrong, verified>>

\* Mutant: the stored token is only looked for.
RefreshAny(r) ==
    /\ At(r, "refresh")
    /\ IF Get("refresh_token").value # 0 THEN Becomes(r, "rotate", Token) ELSE Done(r)
    /\ UNCHANGED <<store, redis, issued, codes, counters, spent, age, wrong, verified, loose>>

\* refresh compares the token it was sent with the stored one and makes another ...
Refresh(r) ==
    /\ At(r, "refresh")
    /\ IF Get("refresh_token").value = req[r].held.value
       THEN Becomes(r, "rotate", Token) ELSE Done(r)
    /\ UNCHANGED <<store, redis, issued, codes, counters, spent, age, wrong, verified, loose>>

\* ... and stores that.
Rotate(r) ==
    /\ At(r, "rotate")
    /\ Issue(r)
    /\ UNCHANGED <<redis, codes, counters, age, wrong, verified, loose>>

LogOut(r) ==
    /\ At(r, "logout")
    /\ Del("refresh_token")
    /\ spent' = issued
    /\ Done(r)
    /\ UNCHANGED <<redis, issued, codes, counters, age, wrong, verified, loose>>

\* send-otp stores a fresh code over the one before; the row is for the audit.
SendCode(r) ==
    /\ At(r, "send")
    /\ codes' = codes + 1
    /\ Set("otp", [value |-> codes + 1, attempts |-> 0, left |-> CodeLife])
    /\ age' = 0 /\ wrong' = 0 /\ verified' = 0
    /\ loose' = IF Under("otp", r) THEN loose ELSE loose \ {"otp"}
    /\ Done(r)
    /\ UNCHANGED <<redis, issued, counters, spent>>

\* verify-otp reads the entry and its attempts ...
Verify(r) ==
    /\ At(r, "verify")
    /\ LET entry == Get("otp")
       IN  IF entry.value = 0 THEN Done(r)
           ELSE Becomes(r, IF entry.attempts >= MaxAttempts THEN "drop" ELSE "compare", entry)
    /\ UNCHANGED <<store, redis, issued, codes, counters, spent, age, wrong, verified, loose>>

\* ... deletes it when there were too many ...
Drop(r) ==
    /\ At(r, "drop")
    /\ Del("otp")
    /\ Done(r)
    /\ UNCHANGED <<redis, issued, codes, counters, spent, age, wrong, verified, loose>>

\* ... compares, and writes back what it read with one attempt more ...
WrongCode(r) ==
    /\ At(r, "compare")
    /\ Set("otp", [req[r].held EXCEPT !.attempts = @ + 1, !.left = KeptLeft("otp")])
    /\ wrong' = IF req[r].held.value = codes THEN wrong + 1 ELSE wrong
    /\ loose' = IF redis THEN loose ELSE loose \cup {"otp"}
    /\ Done(r)
    /\ UNCHANGED <<redis, issued, codes, counters, spent, age, verified>>

\* ... or deletes the entry; the rows of the identifier are marked after that.
RightCode(r) ==
    /\ At(r, "compare")
    /\ Del("otp")
    /\ verified' = IF req[r].held.value = codes THEN verified + 1 ELSE verified
    /\ Done(r)
    /\ UNCHANGED <<redis, issued, codes, counters, spent, age, wrong, loose>>
-----------------------------------------------------------------------------
\* Mutant: an entry without an expiry is taken for one with.
AgedAll(entry) ==
    IF entry.value = 0 THEN entry
    ELSE IF entry.left = 1 THEN None ELSE [entry EXCEPT !.left = @ - 1]

\* Time to live; a code that runs out between reading and writing is loose.
Aged(entry) ==
    IF entry.value = 0 \/ entry.left = Forever THEN entry
    ELSE IF entry.left = 1 THEN None ELSE [entry EXCEPT !.left = @ - 1]

Tick ==
    /\ ticks < MaxTicks
    /\ ticks' = ticks + 1
    /\ age' = age + 1
    /\ store' = [s \in DOMAIN store |-> [k \in Keys |-> Aged(store[s][k])]]
    /\ loose' = IF \E r \in Requests : At(r, "compare") THEN loose \cup {"otp"} ELSE loose
    /\ UNCHANGED <<redis, req, issued, codes, ops, switches, spent, wrong, verified>>

\* Redis goes, or comes back as it was.
Switch ==
    /\ switches < MaxSwitches
    /\ switches' = switches + 1
    /\ redis' = ~redis
    /\ loose' = Keys
    /\ UNCHANGED <<store, req, issued, codes, ops, ticks, spent, age, wrong, verified>>

Serve(r) ==
    \/ LogIn(r) \/ Refresh(r) \/ Rotate(r) \/ LogOut(r)
    \/ SendCode(r) \/ Verify(r) \/ Drop(r) \/ WrongCode(r) \/ RightCode(r)

AccountsNext ==
    \/ \E r \in Requests : Serve(r)
    \/ \E r \in Requests, pc \in {"login", "logout", "refresh", "send", "verify"} : Ask(r, pc)
    \/ Tick \/ Switch
-----------------------------------------------------------------------------
(***************************************************************************)
(* A code is good for one verification, for MaxAttempts wrong guesses and  *)
(* for its life, however guesses, new codes and time follow each other:    *)
(* unless two requests for the identifier overlapped, time passed under    *)
(* one, Redis went or came back, or a wrong guess was written to the map.  *)
(***************************************************************************)
CodeIsLimited ==
    "otp" \notin loose =>
        /\ verified <= 1
        /\ wrong <= MaxAttempts
        /\ Get("otp").value # 0 => /\ Get("otp").value = codes
                                   /\ age < CodeLife
                                   /\ verified = 0

(***************************************************************************)
(* A refresh token that was rotated, replaced by a login or logged out is  *)
(* not accepted again, unless a login or a refresh of the same second has  *)
(* made the same text anew, requests with the token of the user overlapped *)
(* or the store was another in between.                                    *)
(***************************************************************************)
TokenIsRotated ==
    [][\A r \in Requests : At(r, "refresh") /\ At(r, "rotate")' =>
          req[r].held.value \notin spent \/ "refresh_token" \in loose]_accountsVars
=============================================================================
