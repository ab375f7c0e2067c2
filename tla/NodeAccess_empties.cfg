\* One heartbeat loop and one connection, with fairness.
SPECIFICATION FairSpec
CONSTANTS
    b1 = b1
    b2 = b2
    p1 = p1
    Beat <- OneBeat
    Player <- OnePlayer
    Cap = 1
PROPERTIES
    RevokedGateEmpties
