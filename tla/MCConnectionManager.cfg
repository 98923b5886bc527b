CONSTANTS
    alice = alice
    bob = bob
    a1 = a1
    a2 = a2
    b1 = b1
    e1 = e1
    e2 = e2
    e3 = e3
    NoConn = NoConn
    User = {alice, bob}
    Conn = {a1, a2}
    Event = {e1, e2}
    UserOf <- MCUserOf
    Recipients <- MCRecipients
SPECIFICATION FairSpec
INVARIANTS TypeOK EntryHasOwner InOrder
PROPERTIES NoEviction ImplementsMailbox ReplacedSessionEnds QueuedIsForwarded
CHECK_DEADLOCK FALSE
