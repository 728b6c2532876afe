SPECIFICATION Spec
INVARIANT ConnectedIsReal
CONSTANTS
    s1 = s1
    s2 = s2
    s3 = s3
    a1 = a1
    None = None
    Sockets = {s1, s2, s3}
    Admins = {a1}
    Prompt = FALSE
    MaxLoadFaults = 1
    PhoneUnlinks = TRUE
SYMMETRY Symmetry
CHECK_DEADLOCK FALSE
