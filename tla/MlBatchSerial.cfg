\* One activation of each tick at a time, one webhook, no restart.
CONSTANTS
    Questions = {q1, q2}
    Batches = {b1, b2}
    Cron = {cron}
    Forced = {}
    Pollers = {poll}
    Webhooks = {hook}
    MinBatch = 2
    MaxBatch = 50
    MaxCrashes = 0
    None = None
SPECIFICATION Spec
INVARIANTS OneReply DispatchedInBatch
PROPERTIES ForwardOnly LivesOnce
SYMMETRY Symmetry
