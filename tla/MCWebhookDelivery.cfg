CONSTANTS
    h1 = h1
    h2 = h2
    h3 = h3
    u1 = u1
    u2 = u2
    q1 = q1
    q2 = q2
    f1 = f1
    p1 = p1
    NotYet = NotYet
    Deleted = Deleted
    Keep = Keep
    NoUrl = NoUrl
    Webhook = {h1, h2, h3}
    Url = {u1, u2}
    Editor = {q1, q2}
    Limit = 1
    Firing = {f1, p1}
    Ping = {p1}
    Capacity = 1
    MaxAttempts = 2
    Crashes = TRUE
SPECIFICATION DFairSpec
INVARIANTS DTypeOK QueueHoldsWaiting FailuresCountJobs WithinLimit
PROPERTIES AcceptedIsSettled UndoesOnlyPatches
ACTION_CONSTRAINT MCStep
CHECK_DEADLOCK FALSE
