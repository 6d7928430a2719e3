SPECIFICATION FairSpec
CONSTANTS
    Requests = {r1, r2, r3}
    Keys = {k1, k2}
    SshKeys = {k1}
    Entries = {e1, e2, e3}
    NoEntry = NoEntry
    LeakyRequests = {r3}
INVARIANTS
    HeldPoolIsOpen
    CacheSound
PROPERTIES
    ImplementsLease
    PoolsWindDown
    AcquireSettles
