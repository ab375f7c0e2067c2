\* One player, two servers with a gate each: sessions that follow each other
\* closely, consumes that overlap, presence checks of the conflict they find.
SPECIFICATION Spec
CONSTANTS
    n1 = n1
    n2 = n2
    srv1 = srv1
    srv2 = srv2
    Profile = {alex}
    Passport = {pass}
    Server <- TwoServers
    Gate <- TwoGates
    ServerOf <- TwoServersOf
    Presence = {p1, p2}
    Grant = {g1, g2}
    Ban = {}
    EndsOnce = TRUE
    Session = {c1, c2}
    NoPresence = NoPresence
    MaxSwap = 0
    Req = {r1, r2}
    Admin = {}
    Reconciler = reconciler
    Reconciles = FALSE
    ActionsLapse = TRUE
SYMMETRY Symmetry
INVARIANTS
    PresenceBackedByGrant
    OneActivePerServer
    LetThroughWasAdmitted
    UnvalidatedIsTimed
PROPERTIES
    NothingReopens
    ImplementsLedger
\* The supply of sessions and grants is bounded: a run may come to its end.
CHECK_DEADLOCK FALSE
