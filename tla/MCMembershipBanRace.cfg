CONSTANTS
    olga = olga
    alice = alice
    bob = bob
    c1 = c1
    c2 = c2
    s1 = s1
    s2 = s2
    r1 = r1
    m1 = m1
    m2 = m2
    NoRow = NoRow
    NoServer = NoServer
    User = {olga, alice}
    Server = {s1}
    Channel = {c1}
    Req = {}
    MReq = {m1, m2}
    Conn = {}
    UserOf <- MCUserOf
    ServerOf <- MCServerOf
    Subject = {alice}
    Owner <- MCOwner
    Public = {s1}
    MaxUses = 1
    Kinds <- MCRaceKinds
    Patient = FALSE
    Reliable = TRUE
SPECIFICATION MSpec
INVARIANTS BannedNeverMember
CHECK_DEADLOCK FALSE
