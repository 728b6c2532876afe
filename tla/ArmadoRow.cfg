\* Two requests on one row; the writes of notes, sections and archives are left out.
SPECIFICATION Spec
INVARIANT TypeOK
INVARIANT TicksBeforeListo
 
PROPERTY ListoIsEvidence
PROPERTY TicksSurvive
PROPERTY ActsAtOnce
CONSTANTS
    a1 = a1
    a2 = a2
    b = b
    r1 = r1
    r2 = r2
    None = None
    Requests = {r1, r2}
    Items <- Pack
    SameSku <- BySku
    Ops = {"state", "advance", "check", "courier", "dispatch", "unmark"}
    Counts = {3}
    PlacaFaults = FALSE
SYMMETRY Symmetry
