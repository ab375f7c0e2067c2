\* One session, everything that can go wrong with it, a replacement of the
\* runtime, a kick, a ban, and fairness; the Memory store, which ends a
\* presence more than once.
SPECIFICATION FairSpec
CONSTANTS
    n1 = n1
    n2 = n2
    srv1 = srv1
    srv2 = srv2
    Profile = {alex}
    Passport = {pass}
    Server <- OneServer
    Gate <- OneGate
    ServerOf <- OneServerOf
    Presence = {p1}
    Grant = {g1}
    Ban = {b1}
    EndsOnce = FALSE
    Session = {c1}
    NoPresence = NoPresence
    MaxSwap = 1
    Req = {r1}
    Admin = {a1}
    Reconciler = reconciler
    Reconciles = TRUE
    ActionsLapse = FALSE
INVARIANTS
    NoAdmissionUnderStandingBan
PROPERTIES
    DisconnectTakesEffect
    StalePresenceCleared
