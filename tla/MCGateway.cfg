CONSTANTS
    alice = alice
    c1 = c1
    c2 = c2
    s1 = s1
    k1 = k1
    k2 = k2
    r1 = r1
    NoRow = NoRow
    NoServer = NoServer
    NoConn = NoConn
    User = {alice}
    Channel = {c1, c2}
    Server = {s1}
    Req = {r1}
    Conn = {k1, k2}
    UserOf <- MCUserOf
    ServerOf <- MCServerOf
    Choices = {"away"}
    Patient = FALSE
    Reliable = FALSE
    Settled = FALSE
    Restarts = TRUE
    OverRest = TRUE
SPECIFICATION GFairSpec
INVARIANTS PresencePersists PeersAgree NoGhostParticipant
PROPERTIES ClosingEnds RemovalIsAimed
CHECK_DEADLOCK FALSE
