CONSTANTS
    alice = alice
    bob = bob
    c1 = c1
    c2 = c2
    c3 = c3
    s1 = s1
    s2 = s2
    r1 = r1
    k1 = k1
    NoRow = NoRow
    NoServer = NoServer
    User = {alice, bob}
    Channel = {c1, c2, c3}
    Server = {s1, s2}
    Req = {r1}
    Conn = {k1}
    UserOf <- MCUserOf
    ServerOf <- MCServerOf
    Patient = TRUE
    Reliable = TRUE
SPECIFICATION PFairSpec
INVARIANTS VTypeOK PanelAgrees
PROPERTIES LeftIsHidden
CHECK_DEADLOCK FALSE
