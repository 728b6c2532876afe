SPECIFICATION Spec
PROPERTY AckFollowsReply
CONSTANTS
    m1 = m1
    m2 = m2
    c1 = c1
    None = None
    Msgs = {m1, m2}
    Convs = {c1}
    Copies = {1}
    Kinds = {"plain", "ack"}
    History = 10
    MaxReplies = 1
    Serial = TRUE
    StartPaused = FALSE
    Panel = {}
    Echoes = FALSE
    Cron = FALSE
SYMMETRY Symmetry
CHECK_DEADLOCK FALSE
