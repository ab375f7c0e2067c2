\* Two overlapping heartbeats, a connection, a channel for two messages, and
\* the fairness of the heartbeat loop.
SPECIFICATION HeartbeatSpec
CONSTANTS
    b1 = b1
    b2 = b2
    p1 = p1
    Beat <- TwoBeats
    Player <- OnePlayer
    Cap = 2
INVARIANTS
    NobodyAdmittedLate
    LockedOnlyIfRevoked
PROPERTIES
    RevokedGateLocks
    
