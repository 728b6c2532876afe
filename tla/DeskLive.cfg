SPECIFICATION LiveSpec
PROPERTY StaleFlagGoesDown
CONSTANTS
    m1 = m1
    c1 = c1
    None = None
    Msgs = {m1}
    Convs = {c1}
    Copies = {1}
    Kinds = {"human", "delicate", "complaint", "wholesale", "media", "ack"}
    History = 2
    MaxReplies = 1
    Serial = FALSE
    StartPaused = FALSE
    Panel = {"status", "pause"}
    Echoes = TRUE
    Cron = TRUE
