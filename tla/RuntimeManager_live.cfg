\* Syncs of two threads overlap and overtake each other, with fairness.
SPECIFICATION FairSpec
CONSTANTS
    r1 = r1
    r2 = r2
    t1 = t1
    t2 = t2
    l1 = l1
    a1 = a1
    None = None
    Release <- TwoReleases
    Admin <- OneAdmin
    Thread <- TwoThreads
    Login <- NoLogin
    MaxJob = 3
    MaxEdit = 2
    MaxFault = 0
    MaxRestart = 0
PROPERTIES
    FollowsCore
\* With the bounds used up and no release configured, nothing is left to do.
CHECK_DEADLOCK FALSE
