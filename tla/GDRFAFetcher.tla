---------------------------- MODULE GDRFAFetcher ----------------------------
(***************************************************************************)
(* GDRFAStatusFetcher: the public status inquiry, which needs no login.    *)
(* Calls share one browser and its context, launched by the first of them; *)
(* each attempt has a page of its own.  What the portal shows is read from *)
(* its labels and values, then from its text.                              *)
(*                                                                         *)
(* Of a label it matters whether it speaks of a status, of a text which    *)
(* keywords it contains: these are all that the parser looks at.  The      *)
(* other fields of a result are copied and are left out.                   *)
(***************************************************************************)
EXTENDS Naturals, Sequences, SequencesExt

CONSTANTS
    Callers,     \* calls of fetchByFileNumber, fetchByPassport and fetchBatch
    Asked,       \* by caller: the numbers it asks for, more than one in a batch
    ByPassport,  \* the callers that ask by passport number
    Pages,       \* pages for the parser
    Shown,       \* by number: those the portal shows for it
    FormPage,    \* the page before the answer
    GRetries,    \* attempts of one fetch
    MaxBreaks    \* bound: failing steps

\* A page: label and value pairs, in the order they are extracted (table rows,
\* labels, spans), and its text.
Word == STRING
Pair == [label: STRING, status: BOOLEAN, words: Seq(Word), raw: STRING]
Page == [pairs: Seq(Pair), words: Seq(Word), missing: BOOLEAN]

ASSUME GDRFAAssumption ==
    /\ ByPassport \subseteq Callers
    /\ FormPage \in Pages
    /\ \A c \in Callers :
          /\ Asked[c] \in Seq(DOMAIN Shown) /\ Asked[c] # <<>>
          /\ \A n \in DOMAIN Asked[c] : Shown[Asked[c][n]] \subseteq Pages
    /\ GRetries \in Nat \ {0} /\ MaxBreaks \in Nat

\* statusKeywords: the order of the table and what each stands for.
Keywords == <<"valid", "active", "in force", "expired", "cancelled", "canceled",
              "used", "closed", "pending", "under process", "rejected">>
Means(word) ==
    CASE word \in {"valid", "active", "in force"} -> "ACTIVE"
      [] word = "expired" -> "EXPIRED"
      [] word \in {"cancelled", "canceled"} -> "CANCELLED"
      [] word = "used" -> "USED"
      [] word = "closed" -> "CLOSED"
      [] word \in {"pending", "under process"} -> "PENDING"
      [] word = "rejected" -> "REJECTED"

Found(words) == {n \in DOMAIN Keywords : Keywords[n] \in ToSet(words)}
\* The first keyword of the table that a text contains.
Keyword(words) == Means(Keywords[CHOOSE n \in Found(words) : \A k \in Found(words) : n <= k])

\* The record of labels and values: a label that comes again keeps its place and
\* takes the later value.
AddPair(data, pair) ==
    IF \E n \in DOMAIN data : data[n].label = pair.label
    THEN [n \in DOMAIN data |-> IF data[n].label = pair.label THEN pair ELSE data[n]]
    ELSE Append(data, pair)
Extracted(page) == FoldLeft(AddPair, <<>>, page.pairs)

\* Mutant: a status that has been found is not looked at again.
ReadPairOnce(status, pair) ==
    IF ~pair.status \/ status # "UNKNOWN" THEN status
    ELSE IF Found(pair.words) # {} THEN Keyword(pair.words) ELSE pair.raw

\* A keyword always counts, another value only while nothing is known.
ReadPair(status, pair) ==
    IF ~pair.status THEN status
    ELSE IF Found(pair.words) # {} THEN Keyword(pair.words)
    ELSE IF status = "UNKNOWN" THEN pair.raw ELSE status

\* parseExtractedData.
Parse(page) ==
    LET status == FoldLeft(ReadPair, "UNKNOWN", Extracted(page))
    IN  IF status = "UNKNOWN" /\ Found(page.words) # {} THEN Keyword(page.words) ELSE status

\* extractStatusResult.
Extract(page) == IF page.missing THEN "NOT_FOUND" ELSE Parse(page)

\* What is read from each page.
Readings == [page \in Pages |-> Extract(page)]

VARIABLES
    browser,   \* the field: a browser by its number, 0 if null
    context,   \* the field: the browser it belongs to, 0 if null
    opened,    \* the browsers that are open
    launches,  \* browsers launched so far
    call,      \* the calls
    closer,    \* the call of close
    breaks,
    raced,     \* history: two calls launched at a time
    misled     \* history: numbers asked in the wrong form or read too early

gdrfaVars == <<browser, context, opened, launches, call, closer, breaks, raced, misled>>

CallStages == {"none", "init", "launch", "context", "page", "search",
               "extract", "leave", "over", "thrown"}
\* No result has been read.
Unread == ""

\* outer: in the initialize of fetchBatch; mine: the browser just launched; page:
\* the browser of the page that is open, 0 if none is; seen: what was read.
NoCall == [pc |-> "none", outer |-> FALSE, n |-> 1, attempt |-> 1, page |-> 0,
           mine |-> 0, seen |-> Unread, results |-> <<>>]

GDRFATypeOK ==
    /\ launches \in Nat /\ opened \subseteq 1 .. launches
    /\ {browser, context} \subseteq 0 .. launches
    /\ \A c \in Callers :
          /\ call[c].pc \in CallStages
          /\ call[c].attempt \in 1 .. GRetries
          /\ {call[c].page, call[c].mine} \subseteq 0 .. launches
          /\ call[c].n \in 1 .. Len(Asked[c]) + 1
          /\ Len(call[c].results) = call[c].n - 1
    /\ closer \in {"none", "closing", "over"}
    /\ breaks \in 0 .. MaxBreaks
    /\ raced \in BOOLEAN

GDRFAInit ==
    /\ browser = 0 /\ context = 0 /\ opened = {} /\ launches = 0
    /\ call = [c \in Callers |-> NoCall]
    /\ closer = "none" /\ breaks = 0
    /\ raced = FALSE /\ misled = {}

CallAt(c, pc) == call[c].pc = pc
Becomes(c, r) == call' = [call EXCEPT ![c] = r]
Leads(c, pc) == Becomes(c, [call[c] EXCEPT !.pc = pc])
Number(c) == Asked[c][call[c].n]
Batch(c) == Len(Asked[c]) > 1
Break == breaks < MaxBreaks /\ breaks' = breaks + 1
fields == <<browser, context, opened, launches>>

\* The next number of a batch, or the end of the call.
With(r, c, result) ==
    [r EXCEPT !.results = Append(@, result), !.n = @ + 1, !.attempt = 1, !.seen = Unread,
              !.pc = IF r.n < Len(Asked[c]) THEN "init" ELSE "over"]

\* The catch of an attempt: another one, or the result FETCH_FAILED.
Failed(r, c) ==
    IF r.attempt < GRetries THEN [r EXCEPT !.attempt = @ + 1, !.pc = "init", !.seen = Unread]
    ELSE With(r, c, "FETCH_FAILED")

\* An error before the page; nothing catches the one of fetchBatch itself.
Fails(c) ==
    Becomes(c, IF call[c].outer THEN [call[c] EXCEPT !.pc = "thrown"]
               ELSE Failed([call[c] EXCEPT !.mine = 0], c))
-----------------------------------------------------------------------------
\* fetchBatch initializes first, the single fetches in every attempt.
Call(c) ==
    /\ CallAt(c, "none")
    /\ Becomes(c, [NoCall EXCEPT !.pc = "init", !.outer = Batch(c)])
    /\ UNCHANGED <<fields, closer, breaks, raced, misled>>

Launching == {c \in Callers : CallAt(c, "launch")}

Initialized(c) == [call[c] EXCEPT !.pc = IF call[c].outer THEN "init" ELSE "page",
                                  !.outer = FALSE, !.mine = 0]

\* initialize: with a browser there is nothing to do, be its context there or not.
Initialize(c) ==
    /\ CallAt(c, "init")
    /\ \/ /\ browser # 0
          /\ Becomes(c, Initialized(c))
          /\ UNCHANGED raced
       \/ /\ browser = 0
          /\ Leads(c, "launch")
          /\ raced' = (raced \/ Launching # {})
    /\ UNCHANGED <<fields, closer, breaks, misled>>

Launch(c) ==
    /\ CallAt(c, "launch")
    /\ launches' = launches + 1
    /\ opened' = opened \cup {launches + 1}
    /\ browser' = launches + 1
    /\ Becomes(c, [call[c] EXCEPT !.pc = "context", !.mine = launches + 1])
    /\ UNCHANGED <<context, closer, breaks, raced, misled>>

\* No browser, or a browser without a context, which stays so until close.
LaunchFails(c) ==
    /\ call[c].pc \in {"launch", "context"}
    /\ Break
    /\ Fails(c)
    /\ UNCHANGED <<fields, closer, raced, misled>>

\* The context of the browser just launched, unless it has been closed meanwhile.
NewContext(c) ==
    /\ CallAt(c, "context")
    /\ \/ /\ call[c].mine \in opened
          /\ context' = call[c].mine
          /\ Becomes(c, Initialized(c))
       \/ /\ call[c].mine \notin opened
          /\ Fails(c)
          /\ UNCHANGED context
    /\ UNCHANGED <<browser, opened, launches, closer, breaks, raced, misled>>

\* doFetch: without a context, or with one whose browser is closed, it fails.
NewPage(c) ==
    /\ CallAt(c, "page")
    /\ \/ /\ context \in opened
          /\ Becomes(c, [call[c] EXCEPT !.pc = "search", !.page = context])
       \/ context \notin opened /\ Fails(c)
    /\ UNCHANGED <<fields, closer, breaks, raced, misled>>

\* Mutant: an error leaves the page open.
SearchFailsOpen(c) ==
    /\ CallAt(c, "search")
    /\ IF call[c].page \in opened THEN Break ELSE UNCHANGED breaks
    /\ Fails(c)
    /\ UNCHANGED <<fields, closer, raced, misled>>

\* The page or its form does not load, or there is no input to fill.
SearchFails(c) ==
    /\ CallAt(c, "search")
    /\ IF call[c].page \in opened THEN Break ELSE UNCHANGED breaks
    /\ Leads(c, "leave")
    /\ UNCHANGED <<fields, closer, raced, misled>>

\* The form is filled and sent, and the wait ends: what counts as a result may
\* have been on the form page all along, and a wait that times out is let go.
\* Without a toggle the search is by file number.
Searched(c) ==
    /\ CallAt(c, "search") /\ call[c].page \in opened
    /\ \/ /\ \E page \in Shown[Number(c)] :
                Becomes(c, [call[c] EXCEPT !.pc = "extract", !.seen = Readings[page]])
          /\ UNCHANGED misled
       \/ /\ Becomes(c, [call[c] EXCEPT !.pc = "extract", !.seen = Readings[FormPage]])
          /\ misled' = misled \cup {Number(c)}
       \/ /\ c \in ByPassport
          /\ Becomes(c, [call[c] EXCEPT !.pc = "extract", !.seen = "NOT_FOUND"])
          /\ misled' = misled \cup {Number(c)}
    /\ UNCHANGED <<fields, closer, breaks, raced>>

\* The result is read from the page, which must still be there.
ReadResult(c) ==
    /\ CallAt(c, "extract")
    /\ Becomes(c, IF call[c].page \in opened THEN [call[c] EXCEPT !.pc = "leave"]
                  ELSE [call[c] EXCEPT !.pc = "leave", !.seen = Unread])
    /\ UNCHANGED <<fields, closer, breaks, raced, misled>>

\* The page is closed in any case; then the attempt has a result, or fails.
Leave(c) ==
    /\ CallAt(c, "leave")
    /\ LET r == [call[c] EXCEPT !.page = 0]
       IN  Becomes(c, IF r.seen = Unread THEN Failed(r, c) ELSE With(r, c, r.seen))
    /\ UNCHANGED <<fields, closer, breaks, raced, misled>>

\* close: the browser, then the fields.
Closes ==
    /\ closer = "none" /\ browser # 0
    /\ closer' = "closing"
    /\ opened' = opened \ {browser}
    /\ UNCHANGED <<browser, context, launches, call, breaks, raced, misled>>

Closed ==
    /\ closer = "closing"
    /\ closer' = "over"
    /\ browser' = 0
    /\ context' = 0
    /\ UNCHANGED <<opened, launches, call, breaks, raced, misled>>

AdvanceCall(c) ==
    \/ Initialize(c) \/ Launch(c) \/ NewContext(c) \/ NewPage(c) \/ Searched(c)
    \/ ReadResult(c) \/ Leave(c)

GDRFANext ==
    \/ \E c \in Callers : Call(c) \/ AdvanceCall(c) \/ LaunchFails(c) \/ SearchFails(c)
    \/ Closes \/ Closed

GDRFASpec == GDRFAInit /\ [][GDRFANext]_gdrfaVars
-----------------------------------------------------------------------------
(***************************************************************************)
(* What is left of the fetcher when nothing runs: the page of an attempt   *)
(* is closed whatever became of it, also when the browser is closed under  *)
(* it, and at most one browser is open, unless two calls found none and    *)
(* both launched one.                                                      *)
(***************************************************************************)
FetcherTidy ==
    /\ \A c \in Callers : call[c].page # 0 => call[c].pc \in {"search", "extract", "leave"}
    /\ raced \/ \A a, b \in opened : a = b

\* What a page says: the last of its status values that has a keyword, else the
\* first status value, else the first keyword of its text.  The value of a
\* label is the last one given for it, its place the first one.
StatusLabels(page) == {page.pairs[n].label : n \in {k \in DOMAIN page.pairs : page.pairs[k].status}}
Place(page, label) ==
    CHOOSE n \in DOMAIN page.pairs :
        page.pairs[n].label = label /\ \A k \in 1 .. n - 1 : page.pairs[k].label # label
Value(page, label) ==
    page.pairs[CHOOSE n \in DOMAIN page.pairs :
        /\ page.pairs[n].label = label
        /\ \A k \in n + 1 .. Len(page.pairs) : page.pairs[k].label # label]
Says(page) ==
    LET all == StatusLabels(page)
        telling == {l \in all : Found(Value(page, l).words) # {}}
        LastOf(S) == CHOOSE l \in S : \A m \in S : Place(page, m) <= Place(page, l)
        FirstOf(S) == CHOOSE l \in S : \A m \in S : Place(page, l) <= Place(page, m)
    IN  IF page.missing THEN "NOT_FOUND"
        ELSE IF telling # {} THEN Keyword(Value(page, LastOf(telling)).words)
        ELSE IF all # {} THEN Value(page, FirstOf(all)).raw
        ELSE IF Found(page.words) # {} THEN Keyword(page.words)
        ELSE "UNKNOWN"

ParserTells == \A page \in Pages : Readings[page] = Says(page)

\* A result is read from a page of its own number, unless that number was read
\* before its answer came or asked for in the wrong form.
ReadFromOwnPage ==
    \A c \in Callers : \A n \in DOMAIN call[c].results :
        \/ call[c].results[n] \in {Readings[page] : page \in Shown[Asked[c][n]]}
        \/ call[c].results[n] = "FETCH_FAILED"
        \/ Asked[c][n] \in misled

(***************************************************************************)
(* The parser reads from every page what it says; and a result is what a   *)
(* page of its own number says, through retries, launches and a close under*)
(* way, but for the two ways a number is misled.                           *)
(***************************************************************************)
ResultsAreTold == ParserTells /\ ReadFromOwnPage
=============================================================================
