\* Two connections of one node and one of another, a request, and fairness.
SPECIFICATION FairSpec
CONSTANTS
    n1 = n1
    n2 = n2
    c1 = c1
    c2 = c2
    c3 = c3
    r1 = r1
    Node <- TwoNodes
    Conn <- ThreeConns
    NodeOf <- ThreeConnsOf
    Request <- OneRequest
    AskedOf <- OneAskedOf
    Cap = 1
    Sync = Sync
INVARIANTS
    ClientsAreOpen
    AnsweredByNodeAsked
    PendingIsAwaited
PROPERTIES
    ImplementsQuestions
    LostConnectionForgotten
