\* Two requests of players or administrators over two passports and two profiles,
\* on either store.
SPECIFICATION Spec
CONSTANTS
    p1 = p1
    p2 = p2
    f1 = f1
    f2 = f2
    n1 = n1
    n2 = n2
    r1 = r1
    r2 = r2
    Passport <- Passports
    Profile <- ProfileIds
    Name <- Names
    Req <- Requests
    Max = 1
    Settable = {"active", "deleted"}
SYMMETRY Alike
INVARIANTS
    NamesDistinct
    LinksConsistent
    ProfilesBounded
    GrantMatchesPrimary
