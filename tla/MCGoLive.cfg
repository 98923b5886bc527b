CONSTANTS
    alice = alice
    bob = bob
    c1 = c1
    c2 = c2
    s1 = s1
    r1 = r1
    g1 = g1
    g2 = g2
    k1 = k1
    NoRow = NoRow
    NoServer = NoServer
    Nobody = Nobody
    User = {alice, bob}
    Server = {s1}
    Channel = {c1, c2}
    Req = {r1}
    Conn = {}
    GoReq = {g1, g2}
    UserOf <- MCUserOf
    ServerOf <- MCServerOf
    Patient = TRUE
    Reliable = TRUE
SPECIFICATION LSpec
INVARIANTS LTypeOK BannerAgrees
PROPERTIES NeverTakenOver
SYMMETRY MCSymmetry
CHECK_DEADLOCK FALSE
