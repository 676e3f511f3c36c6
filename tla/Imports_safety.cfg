SPECIFICATION Spec
CONSTANTS
    f1 = f1
    f2 = f2
    e1 = e1
    p1 = p1
    p2 = p2
    Files = {f1, f2}
    Entries = {e1}
    Passports = {p1, p2}
    Sheets <- MCSheets
    Cells <- MCCells
    KeyOf <- MCKey
    InCapitals <- MCInCapitals
    EntryRows <- MCEntryRows
    Codes <- MCCodes
    Registered = {p1}
    MaxApps = 1
    MaxMoves = 1
    MaxFaults = 1
INVARIANTS TypeOK CountsMatchDatabase CompletedCovers LoneTaskKeepsPassport
    ImportSettles
SYMMETRY MCSymmetry
CHECK_DEADLOCK FALSE
