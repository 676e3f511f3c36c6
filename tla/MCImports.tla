------------------------------ MODULE MCImports ------------------------------
(* A small instance of Imports for TLC. *)
EXTENDS Imports, TLC

CONSTANTS f1, f2, e1, p1, p2

MCCells == {"", "x", "a1", " A1", "b2", "valid", "approved", "expired", "exited"}
MCKey == [cell \in MCCells |->
            CASE cell \in {"a1", " A1"} -> p1
              [] cell = "b2" -> p2
              [] OTHER -> Unset]
MCInCapitals == [cell \in MCCells |-> IF cell = "approved" THEN "APPROVED" ELSE cell]

\* A file without a line below its header; one with two passports, a line that
\* says nothing of its status and one without a passport; and one with a
\* passport in two spellings, a second column called after passports and a text
\* the map does not know.
MCSheets ==
    { [header |-> <<{"passportNumber"}>>, lines |-> <<>>],
      [header |-> <<{"passportNumber"}, {"status"}>>,
       lines |-> << <<"b2", "expired">>, <<"x">>, <<"a1">> >>],
      [header |-> <<{"status"}, {"passportNumber"}, {"passportNumber"}>>,
       lines |-> << <<"valid", "a1", "b2">>, <<"approved", " A1">> >>] }
MCEntryRows == { [passport |-> p1, text |-> "exited"] }
MCCodes == {"EXITED"}
\* The two files are used alike.
MCSymmetry == Permutations(Files)
=============================================================================
