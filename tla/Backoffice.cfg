\* Tabs, questions and leads share model values, and so on: each part uses its own sets.
SPECIFICATION PartsSpec
INVARIANT LinearFamilies
INVARIANT PasswordEndsSessions
INVARIANT StoredIsUsable
PROPERTY DeadStaysDead
PROPERTY SessionsInOrder
INVARIANT StreakLocks
PROPERTY LockHolds
PROPERTY LocksAtOnce
PROPERTY IdleIsMeasured
INVARIANT NudgesBounded
INVARIANT OneOpenLead
INVARIANT OrdersShow
CONSTANTS
    a1 = a1
    a2 = a2
    b1 = b1
    b2 = b2
    c1 = c1
    c2 = c2
    e1 = e1
    e2 = e2
    Tabs = {a1, a2}
    Calls = {b1, b2}
    Families = {c1, c2}
    Tokens = {e1, e2}
    MaxChanges = 1
    Nobody = Nobody
    Attempts = {a1, a2}
    Requests = {b1, b2}
    Threshold = 2
    Window = 2
    Duration = 3
    Timeout = 3
    Debounce = 1
    MaxClock = 5
    Leads = {a1, a2}
    Ticks = {b1, b2}
    Inbounds = {c1, c2}
    Writers = {e1, e2}
    MaxAttempts = 1
    MaxOrders = 2
    Nil = Nil
SYMMETRY Symmetry
CONSTRAINT Calm
CHECK_DEADLOCK FALSE
