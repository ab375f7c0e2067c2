\* Two web requests over one passport with two profiles, one link, one session.
SPECIFICATION Spec
CONSTANTS
    r1 = r1
    r2 = r2
    f1 = f1
    f2 = f2
    l1 = l1
    s1 = s1
    Req <- Requests
    Profile <- Profiles
    Link <- Links
    Session <- Sessions
SYMMETRY Alike
INVARIANTS
    LinkSpentOnce
    SessionOfThisLife
PROPERTIES
    GoneStaysGone
    LastActiveKept
