\* Fair ticks, two notifications of one question, a restart at any await.
CONSTANTS
    Questions = {q1}
    Batches = {b1, b2}
    Cron = {cron}
    Forced = {}
    Pollers = {poll}
    Webhooks = {hook1, hook2}
    MinBatch = 2
    MaxBatch = 50
    MaxCrashes = 1
    None = None
SPECIFICATION FairSpec
INVARIANTS PostedIsLogged
PROPERTIES EventuallyClosed
