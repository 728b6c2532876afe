\* Two of everything; whatever two activities overlap, up to the first mishap.
SPECIFICATION ReviewSpec
INVARIANT DraftFitsQuestion
INVARIANT NothingSlips
INVARIANT LogShowsAnswer
PROPERTY ReleasedStaysOut
PROPERTY BuyerReadsApproved
CONSTANTS
    q1 = q1
    q2 = q2
    m1 = m1
    m2 = m2
    h1 = h1
    h2 = h2
    p1 = p1
    p2 = p2
    Questions = {q1, q2}
    Second = {q2}
    Messages = {m1, m2}
    Handlers = {h1, h2}
    Panels = {p1, p2}
    None = None
SYMMETRY Symmetry
CONSTRAINT Calm
CHECK_DEADLOCK FALSE
