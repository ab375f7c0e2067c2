\* Replacements, rollbacks, one fault and a restart while a player logs in.
SPECIFICATION Spec
CONSTANTS
    r1 = r1
    r2 = r2
    t1 = t1
    t2 = t2
    l1 = l1
    a1 = a1
    None = None
    Release <- TwoReleases
    Admin <- OneAdmin
    Thread <- OneThread
    Login <- OneLogin
    MaxJob = 3
    MaxEdit = 2
    MaxFault = 1
    MaxRestart = 1
SYMMETRY
    Symmetry
INVARIANTS
    ReadyMeansRunning
    AdmittedByOneRuntime
    ArtifactsKept
\* With the bounds used up and no release configured, nothing is left to do.
CHECK_DEADLOCK FALSE
