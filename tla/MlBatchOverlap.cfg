\* Both ticks overlap with themselves and with the admin buttons.
CONSTANTS
    Questions = {q1}
    Batches = {b1, b2}
    Cron = {cron}
    Forced = {button}
    Pollers = {poll1, poll2}
    Webhooks = {hook}
    MinBatch = 2
    MaxBatch = 50
    MaxCrashes = 0
    None = None
SPECIFICATION Spec
INVARIANT ClosedIsBacked
SYMMETRY Symmetry
