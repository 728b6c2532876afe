SPECIFICATION Spec
INVARIANT TypeOK
INVARIANT WaitingIsFlagged
INVARIANT SentIsLogged
CONSTANTS
    m1 = m1
    m2 = m2
    c1 = c1
    None = None
    Msgs = {m1, m2}
    Convs = {c1}
    Copies = {1}
    Kinds = {"complaint", "wholesale", "media", "ack"}
    History = 2
    MaxReplies = 1
    Serial = FALSE
    StartPaused = FALSE
    Panel = {"assign"}
    Echoes = FALSE
    Cron = TRUE
SYMMETRY Symmetry
