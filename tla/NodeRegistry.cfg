\* The registry in Postgres, where two calls interleave statement by statement,
\* and in memory, where heartbeats in flight meet revocations.
SPECIFICATION Spec
CONSTANTS
    Node = {n1, n2}
    Token = {t1, t2, t3}
    Instance = {i1, i2}
    Server = {s1, s2}
    Call = {c1, c2}
    NoToken = NoToken
    NoInstance = NoInstance
SYMMETRY Symmetry
INVARIANTS
    RetiredTokensAreDead
    NamesOneNode
PROPERTIES
    RevokedStaysRevoked
    RevivedOnlyInFlight
    SecondGateOvertakes
\* Ids and tokens run out: a run may come to its end.
CHECK_DEADLOCK FALSE
