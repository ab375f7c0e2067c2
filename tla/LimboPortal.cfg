\* One connection, what another of its key leaves behind, one failing Core call,
\* one change by other hands, and fairness.
SPECIFICATION FairSpec
CONSTANTS
    c1 = c1
    c2 = c2
    Conn <- OneConn
    MaxProfile = 2
    MaxFault = 1
    MaxEdit = 1
    MaxKept = 1
INVARIANTS
    AfterLoginOnly
PROPERTIES
    ChatRecovers
CHECK_DEADLOCK FALSE
