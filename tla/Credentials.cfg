\* Two requests at once, one address, the limit after two wrong passwords.
SPECIFICATION Spec
CONSTANTS
    r1 = r1
    r2 = r2
    p1 = p1
    p2 = p2
    i1 = i1
    Req <- Requests
    Password <- Passwords
    IP <- Addresses
    Limit = 2
    LockFor = 1
    TTL = 1
    MaxTime = 2
    MaxEpoch = 2
SYMMETRY RequestsAlike
INVARIANTS
    GuessesBounded
    NoLoginUnderStandingLock
    RememberedIsProved
