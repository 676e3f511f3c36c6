-------------------------- MODULE MCPortalFetchers --------------------------
(* A small instance of PortalFetchers for TLC. *)
EXTENDS PortalFetchers, TLC

CONSTANTS p1, p2, c1, c2

MCText == (p1 :> "VALID") @@ (p2 :> "LEFT")

MCAsked == (c1 :> <<"n1">>) @@ (c2 :> <<"n2", "n3">>)
PairOf(label, status, words, raw) == [label |-> label, status |-> status, words |-> words, raw |-> raw]
PageOf(pairs, words) == [pairs |-> pairs, words |-> words, missing |-> FALSE]
Blank == PageOf(<<PairOf("Status Inquiry", TRUE, <<>>, "SEARCH")>>, <<>>)
Missing == [Blank EXCEPT !.missing = TRUE]

Valid == PairOf("Status", TRUE, <<"valid">>, "VALID")
Invalid == PairOf("Status", TRUE, <<"valid", "used">>, "INVALID, USED")
Until == PairOf("Validity", TRUE, <<>>, "01/02/2027")
Gone == PairOf("File status", TRUE, <<"canceled", "expired">>, "CANCELED (EXPIRED)")
Name == PairOf("Name", FALSE, <<"active">>, "ACTIVE TRADING")

SomePairs == {Valid, Invalid, Until, Gone, Name}
Tables == UNION {[1 .. k -> SomePairs] : k \in 0 .. 3}
Texts == {<<>>, <<"pending", "closed">>}
MCPages == {PageOf(t, w) : t \in Tables, w \in Texts} \cup {Missing, Blank}
MCShown == ("n1" :> {PageOf(<<Until>>, <<"pending", "closed">>)}) @@ ("n2" :> {PageOf(<<Valid, Gone>>, <<>>)})
           @@ ("n3" :> {Missing})
=============================================================================
