CONSTANTS
    k1 = k1
    k2 = k2
    r1 = r1
    r2 = r2
    Key = {k1, k2}
    Row = {r1, r2}
    KeyOf <- MCKeyOf
    Studied <- MCStudied
    MaxCalls = 2
    MaxInbox = 2
SPECIFICATION LSpec
CONSTRAINT MCRows
INVARIANTS  NoStrangers NeverStuck
CHECK_DEADLOCK FALSE
