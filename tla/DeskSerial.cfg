SPECIFICATION Spec
INVARIANT SavedOnce
PROPERTY AnswersInTurn
CONSTANTS
    m1 = m1
    m2 = m2
    c1 = c1
    c2 = c2
    None = None
    Msgs = {m1, m2}
    Convs = {c1, c2}
    Copies = {1, 2}
    Kinds = {"plain", "wholesale", "media"}
    History = 2
    MaxReplies = 1
    Serial = TRUE
    StartPaused = FALSE
    Panel = {"pause"}
    Echoes = FALSE
    Cron = FALSE
SYMMETRY Symmetry
CHECK_DEADLOCK FALSE
