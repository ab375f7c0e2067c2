-------------------------- MODULE NodeRegistryProofs --------------------------
(***************************************************************************)
(* Revocation and rotation in the registry that Postgres keeps, for any    *)
(* number of nodes, tokens, instances and calls in flight.                 *)
(*                                                                         *)
(* That retired tokens are dead is not inductive alone: rotating one node  *)
(* retires a token that another node must not have, which is OneNodeEach. *)
(* That a second gate needs a call that was overtaken rests on GateLook:   *)
(* what a call saw of the gates of its server still holds until another    *)
(* gate arrives there.                                                     *)
(***************************************************************************)
EXTENDS NodeRegistry, TLAPS

\* Rows are never deleted, so the row of a heartbeat under way is still there.
HeartbeatOfRow ==
    \A c \in Call : calls[c].st = "heartbeat" => Exists(calls[c].node)

RegistryInv == RowsTyped /\ HeartbeatOfRow /\ RetiredAreDead /\ OneNodeEach

\* The empty registry.
LEMMA RegistryInit == Init => RegistryInv
BY DEF Init, RegistryInv, RowsTyped, HeartbeatOfRow, RetiredAreDead, OneNodeEach, Exists, None

\* A new row whose token was never used and whose instance no row has.
LEMMA NewNodeKeeps ==
  ASSUME RegistryInv, NEW n \in Node, NEW t \in Token \cup {NoToken},
         NEW k \in Kind, NEW s \in Server, NEW i \in Instance \cup {NoInstance},
         t = NoToken \/ Unused(t),
         i = NoInstance \/ Having(i) = {},
         NewNode(n, t, k, s, i), UNCHANGED retired
  PROVE  /\ nodes' \in [Node -> Row \cup {None}]
         /\ \A m \in Node : Exists(m) => nodes'[m] # None
         /\ RetiredAreDead'
         /\ OneNodeEach'
<1> DEFINE row == [st |-> "row", kind |-> k, server |-> s, disabled |-> FALSE,
                   token |-> t, instance |-> i]
<1>1. row \in Row
  BY DEF Row
<1>2. nodes' = [nodes EXCEPT ![n] = row] /\ nodes[n] = None
  BY DEF NewNode, Exists
<1>3. t \notin retired
  BY RegistryAssumption DEF Unused, RegistryInv, RowsTyped
<1>4. /\ row.token = t /\ row.instance = i
      /\ row # None
  BY DEF None
<1> HIDE DEF row
<1>5. /\ nodes'[n] = row
      /\ \A m \in Node : m # n => nodes'[m] = nodes[m]
  BY <1>2 DEF RegistryInv, RowsTyped
<1>6. RetiredAreDead'
  BY <1>3, <1>4, <1>5 DEF RegistryInv, RetiredAreDead, Exists
<1>7. OneNodeEach'
  <2> SUFFICES ASSUME NEW a \in Node, NEW b \in Node, nodes'[a] # None,
                      nodes'[b] # None, a # b
               PROVE  /\ nodes'[a].token = nodes'[b].token => nodes'[a].token = NoToken
                      /\ nodes'[a].instance = nodes'[b].instance
                           => nodes'[a].instance = NoInstance
    BY DEF OneNodeEach, Exists
  <2>1. CASE a = n
    BY <2>1, <1>4, <1>5 DEF Unused, Having, Exists
  <2>2. CASE b = n
    BY <2>2, <1>4, <1>5 DEF Unused, Having, Exists
  <2>3. CASE a # n /\ b # n
    BY <2>3, <1>5 DEF RegistryInv, OneNodeEach, Exists
  <2> QED
    BY <2>1, <2>2, <2>3
<1> QED
  BY <1>1, <1>2, <1>5, <1>6, <1>7 DEF RegistryInv, RowsTyped, Exists

\* A row that stays a row, keeps its token or loses it, and keeps its instance
\* or takes one that no row has.
LEMMA RowKeeps ==
  ASSUME RegistryInv, NEW n \in Node, Exists(n), NEW row \in Row,
         nodes' = [nodes EXCEPT ![n] = row],
         row.token \in {nodes[n].token, NoToken} \/ Unused(row.token),
         row.instance = nodes[n].instance \/ Having(row.instance) = {},
         retired' \in {retired, retired \cup ({nodes[n].token} \ {NoToken})},
         row.token = nodes[n].token /\ row.token # NoToken => retired' = retired
  PROVE  /\ nodes' \in [Node -> Row \cup {None}]
         /\ retired' \subseteq Token
         /\ RetiredAreDead'
         /\ OneNodeEach'
<1>1. /\ nodes'[n] = row
      /\ \A m \in Node : m # n => nodes'[m] = nodes[m]
      /\ nodes[n] \in Row
  BY DEF RegistryInv, RowsTyped, Exists
<1>2. row # None /\ row.token \in Token \cup {NoToken}
  BY DEF Row, None
<1>3. nodes[n].token \in Token \cup {NoToken}
  BY <1>1 DEF Row
<1>4. retired' \subseteq Token
  BY <1>3 DEF RegistryInv, RowsTyped
<1>5. nodes[n].token \notin retired
  BY DEF RegistryInv, RetiredAreDead
<1>6. row.token \notin retired'
  BY <1>2, <1>3, <1>4, <1>5, RegistryAssumption DEF Unused, Exists
<1>7. \A m \in Node : m # n /\ nodes[m] # None => nodes[m].token \notin retired'
  BY <1>3 DEF RegistryInv, RetiredAreDead, OneNodeEach, Exists
<1>8. RetiredAreDead'
  BY <1>1, <1>6, <1>7 DEF RetiredAreDead, Exists
<1>9. \A m \in Node : m # n /\ nodes[m] # None =>
          /\ row.token = nodes[m].token => row.token = NoToken
          /\ row.instance = nodes[m].instance => row.instance = NoInstance
  BY DEF RegistryInv, OneNodeEach, Unused, Having, Exists
<1>10. OneNodeEach'
  <2> SUFFICES ASSUME NEW a \in Node, NEW b \in Node, nodes'[a] # None,
                      nodes'[b] # None, a # b
               PROVE  /\ nodes'[a].token = nodes'[b].token => nodes'[a].token = NoToken
                      /\ nodes'[a].instance = nodes'[b].instance
                           => nodes'[a].instance = NoInstance
    BY DEF OneNodeEach, Exists
  <2>1. CASE a = n
    BY <2>1, <1>1, <1>9
  <2>2. CASE b = n
    BY <2>2, <1>1, <1>9
  <2>3. CASE a # n /\ b # n
    BY <2>3, <1>1 DEF RegistryInv, OneNodeEach, Exists
  <2> QED
    BY <2>1, <2>2, <2>3
<1> QED
  BY <1>4, <1>8, <1>10 DEF RegistryInv, RowsTyped

\* Moving a row to another kind and server changes nothing else about it.
LEMMA MoveKeeps ==
  ASSUME RegistryInv, NEW n \in Node, Exists(n), NEW k \in Kind, NEW s \in Server,
         Move(n, k, s), UNCHANGED retired
  PROVE  /\ nodes' \in [Node -> Row \cup {None}]
         /\ \A m \in Node : Exists(m) => nodes'[m] # None
         /\ RetiredAreDead'
         /\ OneNodeEach'
<1>1. nodes[n] \in Row
  BY DEF RegistryInv, RowsTyped, Exists
<1> DEFINE row == [nodes[n] EXCEPT !.kind = k, !.server = s]
<1>2. /\ row \in Row
      /\ row.token = nodes[n].token
      /\ row.instance = nodes[n].instance
  BY <1>1 DEF Row
<1>3. nodes' = [nodes EXCEPT ![n] = row]
  BY DEF Move
<1> HIDE DEF row
<1>4. \A m \in Node : Exists(m) => nodes'[m] # None
  BY <1>2, <1>3 DEF Exists, RegistryInv, RowsTyped, Row, None
<1> QED
  BY <1>2, <1>3, <1>4, RowKeeps

\* No step removes a row: the calls that are under way stay valid.
LEMMA CallsKeep ==
  ASSUME RegistryInv, nodes' \in [Node -> Row \cup {None}],
         \A n \in Node : Exists(n) => nodes'[n] # None,
         NEW c \in Call, NEW q \in CallRec \cup {None},
         q.st = "heartbeat" => Exists(q.node),
         calls' = [calls EXCEPT ![c] = q]
  PROVE  calls' \in [Call -> CallRec \cup {None}] /\ HeartbeatOfRow'
<1>1. /\ calls'[c] = q
      /\ \A d \in Call : d # c => calls'[d] = calls[d]
  BY DEF RegistryInv, RowsTyped
<1>2. ASSUME NEW d \in Call, calls'[d].st = "heartbeat"
      PROVE  nodes'[calls'[d].node] # None
  <2>1. calls'[d] \in CallRec /\ Exists(calls'[d].node)
    BY <1>1, <1>2 DEF RegistryInv, RowsTyped, HeartbeatOfRow, None
  <2>2. calls'[d].node \in Node
    BY <1>2, <2>1 DEF CallRec
  <2> QED
    BY <2>1, <2>2
<1> QED
  BY <1>2 DEF HeartbeatOfRow, Exists, RegistryInv, RowsTyped

(***************************************************************************)
(* The steps of Postgres.                                                  *)
(***************************************************************************)
\* What a step must establish, given that rows and calls keep their types.
RegistryStepGoal ==
    /\ RegistryInv'
    /\ KeepsRevoked

\* A step that leaves the rows alone and starts or moves on a call.
LEMMA CallOnly ==
  ASSUME RegistryInv, UNCHANGED <<nodes, retired>>,
         NEW c \in Call, NEW q \in CallRec \cup {None},
         q.st = "heartbeat" => Exists(q.node),
         calls' = [calls EXCEPT ![c] = q]
  PROVE  RegistryStepGoal
<1>1. calls' \in [Call -> CallRec \cup {None}] /\ HeartbeatOfRow'
  BY CallsKeep DEF RegistryInv, RowsTyped, Exists
<1> QED
  BY <1>1 DEF RegistryStepGoal, RegistryInv, RowsTyped, RetiredAreDead,
     OneNodeEach, KeepsRevoked, Exists

\* A call under way is one of the four records.
LEMMA CallTyped ==
  ASSUME RegistryInv, NEW c \in Call
  PROVE  /\ calls[c].st = "create" =>
               calls[c].kind \in Kind /\ calls[c].server \in Server
         /\ calls[c].st \in {"register", "upsert"} =>
               /\ calls[c] \in [st : {"register", "upsert"}, kind : Kind,
                                server : Server, instance : Instance]
               /\ calls[c].kind \in Kind /\ calls[c].server \in Server
               /\ calls[c].instance \in Instance
         /\ calls[c].st = "heartbeat" => calls[c].node \in Node
         /\ None \in CallRec \cup {None} /\ None.st # "heartbeat"
BY DEF RegistryInv, RowsTyped, CallRec, None

\* CreateKindForServer, statement by statement.
LEMMA CreateSteps ==
  ASSUME RegistryInv, NEW c \in Call,
         \/ \E k \in Kind, s \in Server : CreateCheck(c, k, s)
         \/ \E n \in Node, t \in Token : CreateInsert(c, n, t)
  PROVE  RegistryStepGoal
<1>1. ASSUME NEW k \in Kind, NEW s \in Server, CreateCheck(c, k, s)
      PROVE  RegistryStepGoal
  <2> DEFINE q == [st |-> "create", kind |-> k, server |-> s]
  <2>1. q \in CallRec /\ q.st # "heartbeat"
    BY DEF CallRec
  <2>2. calls' = [calls EXCEPT ![c] = q] /\ UNCHANGED <<nodes, retired>>
    BY <1>1 DEF CreateCheck
  <2> HIDE DEF q
  <2> QED
    BY <2>1, <2>2, CallOnly
<1>2. ASSUME NEW n \in Node, NEW t \in Token, CreateInsert(c, n, t)
      PROVE  RegistryStepGoal
  <2>1. /\ NewNode(n, t, calls[c].kind, calls[c].server, NoInstance)
        /\ Unused(t) /\ UNCHANGED retired
        /\ calls' = [calls EXCEPT ![c] = None]
        /\ calls[c].kind \in Kind /\ calls[c].server \in Server
    BY <1>2, CallTyped DEF CreateInsert
  <2>2. /\ nodes' \in [Node -> Row \cup {None}]
        /\ \A m \in Node : Exists(m) => nodes'[m] # None
        /\ RetiredAreDead' /\ OneNodeEach'
    BY <2>1, NewNodeKeeps
  <2>3. calls' \in [Call -> CallRec \cup {None}] /\ HeartbeatOfRow'
    BY <2>1, <2>2, CallsKeep, CallTyped
  <2>4. KeepsRevoked
    BY <2>1 DEF NewNode, KeepsRevoked, Exists, RegistryInv, RowsTyped
  <2> QED
    BY <2>1, <2>2, <2>3, <2>4 DEF RegistryStepGoal, RegistryInv, RowsTyped
<1> QED
  BY <1>1, <1>2

\* Register, statement by statement: the upsert may meet a row that was
\* revoked since the first statement, and leaves it revoked.
LEMMA RegisterSteps ==
  ASSUME RegistryInv, NEW c \in Call,
         \/ \E i \in Instance, k \in Kind, s \in Server : RegisterStart(c, i, k, s)
         \/ RegisterCheck(c)
         \/ RegisterUpsert(c)
  PROVE  RegistryStepGoal
<1>1. ASSUME NEW i \in Instance, NEW k \in Kind, NEW s \in Server,
             RegisterStart(c, i, k, s)
      PROVE  RegistryStepGoal
  <2> DEFINE q == [st |-> "register", kind |-> k, server |-> s, instance |-> i]
  <2>1. q \in CallRec /\ q.st # "heartbeat"
    BY DEF CallRec
  <2>2. calls' = [calls EXCEPT ![c] = q] /\ UNCHANGED <<nodes, retired>>
    BY <1>1 DEF RegisterStart
  <2> HIDE DEF q
  <2> QED
    BY <2>1, <2>2, CallOnly
<1>2. CASE RegisterCheck(c)
  <2> DEFINE q == [calls[c] EXCEPT !.st = "upsert"]
  <2>1. q \in CallRec /\ q.st # "heartbeat"
    BY <1>2, CallTyped DEF RegisterCheck, CallRec
  <2>2. /\ \/ calls' = [calls EXCEPT ![c] = q]
           \/ calls' = [calls EXCEPT ![c] = None]
        /\ UNCHANGED <<nodes, retired>>
    BY <1>2 DEF RegisterCheck
  <2> HIDE DEF q
  <2> QED
    BY <2>1, <2>2, CallOnly, CallTyped
<1>3. CASE RegisterUpsert(c)
  <2>1. /\ calls[c].kind \in Kind /\ calls[c].server \in Server
        /\ calls[c].instance \in Instance
        /\ UNCHANGED retired
        /\ calls' = [calls EXCEPT ![c] = None]
    BY <1>3, CallTyped DEF RegisterUpsert
  <2>2. CASE \E n \in Having(calls[c].instance) :
               Move(n, calls[c].kind, calls[c].server)
    <3>1. PICK n \in Node : Exists(n) /\ Move(n, calls[c].kind, calls[c].server)
      BY <2>2 DEF Having
    <3>2. /\ nodes' \in [Node -> Row \cup {None}]
          /\ \A m \in Node : Exists(m) => nodes'[m] # None
          /\ RetiredAreDead' /\ OneNodeEach'
      BY <2>1, <3>1, MoveKeeps
    <3>3. calls' \in [Call -> CallRec \cup {None}] /\ HeartbeatOfRow'
      BY <2>1, <3>2, CallsKeep, CallTyped
    <3>4. nodes[n] \in Row
      BY <3>1 DEF RegistryInv, RowsTyped, Exists
    <3>5. KeepsRevoked
      BY <3>1, <3>2, <3>4 DEF Move, KeepsRevoked, Exists, RegistryInv, RowsTyped, Row
    <3> QED
      BY <2>1, <3>2, <3>3, <3>5 DEF RegistryStepGoal, RegistryInv, RowsTyped
  <2>3. CASE /\ Having(calls[c].instance) = {}
             /\ \E n \in Node : NewNode(n, NoToken, calls[c].kind,
                                        calls[c].server, calls[c].instance)
    <3>1. PICK n \in Node : NewNode(n, NoToken, calls[c].kind,
                                    calls[c].server, calls[c].instance)
      BY <2>3
    <3>2. /\ nodes' \in [Node -> Row \cup {None}]
          /\ \A m \in Node : Exists(m) => nodes'[m] # None
          /\ RetiredAreDead' /\ OneNodeEach'
      BY <2>1, <2>3, <3>1, NewNodeKeeps
    <3>3. calls' \in [Call -> CallRec \cup {None}] /\ HeartbeatOfRow'
      BY <2>1, <3>2, CallsKeep, CallTyped
    <3>4. KeepsRevoked
      BY <3>1 DEF NewNode, KeepsRevoked, Exists, RegistryInv, RowsTyped
    <3> QED
      BY <2>1, <3>2, <3>3, <3>4 DEF RegistryStepGoal, RegistryInv, RowsTyped
  <2> QED
    BY <1>3, <2>2, <2>3 DEF RegisterUpsert
<1> QED
  BY <1>1, <1>2, <1>3

\* Heartbeat in Postgres writes one column of the row as it is by then.
LEMMA HeartbeatSteps ==
  ASSUME RegistryInv, postgres, NEW c \in Call,
         \/ \E t \in Token, n \in Node : Authenticate(c, t, n)
         \/ \E i \in Instance \cup {NoInstance} : Heartbeat(c, i)
  PROVE  RegistryStepGoal
<1>1. ASSUME NEW t \in Token, NEW n \in Node, Authenticate(c, t, n)
      PROVE  RegistryStepGoal
  <2> DEFINE q == [st |-> "heartbeat", node |-> n, copy |-> nodes[n]]
  <2>1. Exists(n) /\ nodes[n] \in Row
    BY <1>1 DEF Authenticate, Authenticates, Enabled, Exists, RegistryInv, RowsTyped
  <2>2. q \in CallRec /\ q.node = n
    BY <2>1 DEF CallRec
  <2>3. calls' = [calls EXCEPT ![c] = q] /\ UNCHANGED <<nodes, retired>>
    BY <1>1 DEF Authenticate
  <2> HIDE DEF q
  <2> QED
    BY <2>1, <2>2, <2>3, CallOnly
<1>2. ASSUME NEW i \in Instance \cup {NoInstance}, Heartbeat(c, i)
      PROVE  RegistryStepGoal
  <2> DEFINE n == calls[c].node
             row == Claimed(nodes[n], i)
  <2>1. /\ n \in Node /\ Exists(n) /\ nodes[n] \in Row
        /\ UNCHANGED retired
        /\ calls' = [calls EXCEPT ![c] = None]
    BY <1>2, CallTyped DEF Heartbeat, RegistryInv, HeartbeatOfRow, Exists, RowsTyped
  <2>2. \/ nodes' = nodes
        \/ /\ nodes' = [nodes EXCEPT ![n] = row]
           /\ i = NoInstance \/ nodes[n].instance # NoInstance \/ Having(i) = {}
    BY <1>2 DEF Heartbeat, HeartbeatWrite
  <2>3. CASE nodes' = nodes
    BY <2>1, <2>3, CallOnly, CallTyped
  <2>4. CASE /\ nodes' = [nodes EXCEPT ![n] = row]
             /\ i = NoInstance \/ nodes[n].instance # NoInstance \/ Having(i) = {}
    <3>1. /\ row \in Row /\ row # None
          /\ row.token = nodes[n].token /\ row.disabled = nodes[n].disabled
          /\ row.instance = IF nodes[n].instance = NoInstance THEN i
                                                             ELSE nodes[n].instance
      BY <2>1 DEF Claimed, Row, None
    <3> HIDE DEF row, n
    <3>2. row.instance = nodes[n].instance \/ Having(row.instance) = {}
      BY <2>4, <3>1
    <3>3. /\ nodes' \in [Node -> Row \cup {None}]
          /\ RetiredAreDead' /\ OneNodeEach'
      BY <2>1, <2>4, <3>1, <3>2, RowKeeps
    <3>4. \A m \in Node : Exists(m) => nodes'[m] # None
      BY <2>1, <2>4, <3>1 DEF Exists, RegistryInv, RowsTyped
    <3>5. calls' \in [Call -> CallRec \cup {None}] /\ HeartbeatOfRow'
      BY <2>1, <3>3, <3>4, CallsKeep, CallTyped
    <3>6. KeepsRevoked
      BY <2>1, <2>4, <3>1, <3>4 DEF KeepsRevoked, Exists, RegistryInv, RowsTyped
    <3> QED
      BY <2>1, <3>3, <3>5, <3>6 DEF RegistryStepGoal, RegistryInv, RowsTyped
  <2> QED
    BY <2>2, <2>3, <2>4
<1> QED
  BY <1>1, <1>2

\* Rotate and Delete retire the token they take away.
LEMMA AdminSteps ==
  ASSUME RegistryInv, NEW n \in Node,
         (\E t \in Token : Rotate(n, t)) \/ Delete(n)
  PROVE  RegistryStepGoal
<1>1. ASSUME NEW row \in Row, Exists(n), nodes' = [nodes EXCEPT ![n] = row],
             row.token = NoToken \/ Unused(row.token),
             row.instance = nodes[n].instance,
             nodes[n].disabled => row.disabled,
             Retire(n), UNCHANGED calls
      PROVE  RegistryStepGoal
  <2>1. row.token = nodes[n].token => row.token = NoToken
    BY <1>1 DEF Unused, Exists
  <2>2. /\ nodes' \in [Node -> Row \cup {None}] /\ retired' \subseteq Token
        /\ RetiredAreDead' /\ OneNodeEach'
    BY <1>1, <2>1, RowKeeps DEF Retire
  <2>3. row # None
    BY DEF Row, None
  <2>4. \A m \in Node : Exists(m) => nodes'[m] # None
    BY <1>1, <2>3 DEF Exists, RegistryInv, RowsTyped
  <2>5. \A c \in Call : calls[c].st = "heartbeat" => calls[c].node \in Node
    BY CallTyped
  <2>6. HeartbeatOfRow'
    BY <1>1, <2>4, <2>5 DEF HeartbeatOfRow, Exists, RegistryInv
  <2>7. KeepsRevoked
    BY <1>1, <2>4 DEF KeepsRevoked, Exists, RegistryInv, RowsTyped
  <2> QED
    BY <1>1, <2>2, <2>6, <2>7 DEF RegistryStepGoal, RegistryInv, RowsTyped
<1>2. ASSUME NEW t \in Token, Rotate(n, t)
      PROVE  RegistryStepGoal
  <2> DEFINE row == [nodes[n] EXCEPT !.token = t]
  <2>1. Exists(n) /\ nodes[n] \in Row
    BY <1>2 DEF Rotate, Enabled, Exists, RegistryInv, RowsTyped
  <2>2. /\ row \in Row /\ row.token = t /\ row.instance = nodes[n].instance
        /\ row.disabled = nodes[n].disabled
    BY <2>1 DEF Row
  <2>3. nodes' = [nodes EXCEPT ![n] = row] /\ Unused(t) /\ Retire(n) /\ UNCHANGED calls
    BY <1>2 DEF Rotate
  <2> HIDE DEF row
  <2> QED
    BY <1>1, <2>1, <2>2, <2>3
<1>3. CASE Delete(n)
  <2> DEFINE row == [nodes[n] EXCEPT !.disabled = TRUE, !.token = NoToken]
  <2>1. Exists(n) /\ nodes[n] \in Row
    BY <1>3 DEF Delete, Exists, RegistryInv, RowsTyped
  <2>2. /\ row \in Row /\ row.token = NoToken /\ row.instance = nodes[n].instance
        /\ row.disabled
    BY <2>1 DEF Row
  <2>3. nodes' = [nodes EXCEPT ![n] = row] /\ Retire(n) /\ UNCHANGED calls
    BY <1>3 DEF Delete
  <2> HIDE DEF row
  <2> QED
    BY <1>1, <2>1, <2>2, <2>3
<1> QED
  BY <1>2, <1>3

\* Every step that Postgres can take keeps the invariant and the revocations.
LEMMA RegistryStep ==
  ASSUME RegistryInv, postgres, [Next]_vars
  PROVE  RegistryStepGoal /\ postgres'
<1>1. CASE UNCHANGED vars
  BY <1>1 DEF vars, RegistryStepGoal, RegistryInv, RowsTyped, HeartbeatOfRow,
     RetiredAreDead, OneNodeEach, KeepsRevoked, Exists
<1>2. CASE NodeNext /\ UNCHANGED postgres
  BY <1>2, RegisterSteps, HeartbeatSteps DEF NodeNext, Register
<1>3. CASE AdminNext /\ UNCHANGED postgres
  BY <1>3, CreateSteps, AdminSteps DEF AdminNext, Create
<1> QED
  BY <1>1, <1>2, <1>3 DEF Next

\* The inductive invariant: it speaks of Postgres only, and Core keeps the
\* implementation it was started with.
LEMMA PostgresInductive ==
  ASSUME postgres => RegistryInv, postgres \in BOOLEAN, [Next]_vars
  PROVE  /\ (postgres => RegistryInv)'
         /\ (postgres \in BOOLEAN)'
         /\ postgres => KeepsRevoked
<1>1. UNCHANGED postgres
  BY DEF Next, vars
<1> QED
  BY <1>1, RegistryStep DEF RegistryStepGoal

\* Rotate and Delete in Postgres: a token that was replaced or destroyed opens no
\* node again, whatever was in flight.
THEOREM RetiredTokensStayDead == Spec => []RetiredTokensAreDead
<1> DEFINE IInv == postgres \in BOOLEAN /\ (postgres => RegistryInv)
<1>1. Init => IInv
  BY RegistryInit DEF Init
<1>2. IInv /\ [Next]_vars => IInv'
  BY PostgresInductive
<1>3. IInv => RetiredTokensAreDead
  BY DEF RegistryInv, RetiredTokensAreDead
<1> QED
  BY <1>1, <1>2, <1>3, PTL DEF Spec

\* requireNode: in Postgres a token or an instance names at most one node.
THEOREM CallerIsOneNode == Spec => []NamesOneNode
<1> DEFINE IInv == postgres \in BOOLEAN /\ (postgres => RegistryInv)
<1>1. Init => IInv
  BY RegistryInit DEF Init
<1>2. IInv /\ [Next]_vars => IInv'
  BY PostgresInductive
<1>3. IInv => NamesOneNode
  BY DEF RegistryInv, NamesOneNode
<1> QED
  BY <1>1, <1>2, <1>3, PTL DEF Spec

\* Disable and Delete in Postgres: no heartbeat, registration or call of an
\* administrator brings a revoked node back.
THEOREM RevocationIsFinal == Spec => RevokedStaysRevoked
<1> DEFINE IInv == postgres \in BOOLEAN /\ (postgres => RegistryInv)
<1>1. Init => IInv
  BY RegistryInit DEF Init
<1>2. IInv /\ [Next]_vars => IInv' /\ [postgres => KeepsRevoked]_vars
  BY PostgresInductive
<1> QED
  BY <1>1, <1>2, PTL DEF Spec, RevokedStaysRevoked

(***************************************************************************)
(* A second gate for a server, in Postgres.                                *)
(***************************************************************************)
\* What a call saw when it looked: no gate, or none but its own instance.
Clear(c) ==
    calls[c].kind = "downstream_velocity" =>
        \A n \in Gates(calls[c].server) :
            calls[c].st = "upsert" /\ nodes[n].instance = calls[c].instance

GateLook == \A c \in Call : Looked(c) /\ c \notin overtaken => Clear(c)

\* The instance of a row, once it has one, is never another.
Firm == \A n \in Node :
    Exists(n) /\ nodes[n].instance # NoInstance =>
        nodes'[n].instance = nodes[n].instance

\* A call that looks in this step sees what is there.
FreshLook == \A c \in Call : Looked(c)' => calls'[c] = calls[c] \/ Clear(c)'

GateGoal == Firm /\ FreshLook /\ JoinsByOvertaken

\* The gates of a server, row by row.
LEMMA GateRow ==
  ASSUME NEW n \in Node, NEW s
  PROVE  /\ n \in Gates(s) <=>
              /\ nodes[n] # None /\ ~nodes[n].disabled
              /\ nodes[n].server = s /\ nodes[n].kind = "downstream_velocity"
         /\ n \in Gates(s)' <=>
              /\ nodes'[n] # None /\ ~nodes'[n].disabled
              /\ nodes'[n].server = s /\ nodes'[n].kind = "downstream_velocity"
BY DEF Gates, Enabled, Exists

\* What was seen stays true of a call that no gate's arrival overtakes.
LEMMA LookStays ==
  ASSUME RegistryInv, GateLook, Overtake, Firm, FreshLook
  PROVE  GateLook'
<1> SUFFICES ASSUME NEW c \in Call, Looked(c)', c \notin overtaken'
             PROVE  Clear(c)'
  BY DEF GateLook
<1>1. CASE calls'[c] = calls[c]
  <2>1. Looked(c)
    BY <1>1 DEF Looked
  <2>2. PICK q \in CallRec : q = calls[c]
    BY <2>1 DEF Looked, RegistryInv, RowsTyped, None
  <2>3. q.server \in Server /\ (q.st = "upsert" => q.instance \in Instance)
    BY <2>1, <2>2 DEF Looked, CallRec
  <2>4. c \notin overtaken /\ ~GateArrives(q.server)
    BY <1>1, <2>1, <2>2, <2>3 DEF Overtake
  <2>5. Clear(c)
    BY <2>1, <2>4 DEF GateLook
  <2>6. ASSUME NEW n \in Node, q.kind = "downstream_velocity", n \in Gates(q.server)'
        PROVE  q.st = "upsert" /\ nodes'[n].instance = q.instance
    <3>1. n \in Gates(q.server)
      BY <2>4, <2>6 DEF GateArrives
    <3>2. q.st = "upsert" /\ nodes[n].instance = q.instance
      BY <2>2, <2>5, <2>6, <3>1 DEF Clear
    <3>3. Exists(n)
      BY <3>1, GateRow DEF Exists
    <3> QED
      BY <2>3, <3>2, <3>3, RegistryAssumption DEF Firm
  <2>7. \A n \in Gates(q.server)' : n \in Node
    BY DEF Gates
  <2>8. calls'[c] = q
    BY <1>1, <2>2
  <2> QED
    BY <2>6, <2>7, <2>8 DEF Clear, Gates, Enabled, Exists
<1>2. CASE calls'[c] # calls[c]
  BY <1>2 DEF FreshLook
<1> QED
  BY <1>1, <1>2

\* A step that writes no row.
LEMMA LookOnly ==
  ASSUME RegistryInv, UNCHANGED nodes, FreshLook
  PROVE  GateGoal
BY GateRow DEF GateGoal, Firm, JoinsByOvertaken

\* A call that ends, or moves on to anything but a write, has looked at nothing.
LEMMA NoLook ==
  ASSUME RegistryInv,
         \/ UNCHANGED calls
         \/ \E c \in Call : \E q : /\ q.st \notin {"create", "upsert"}
                                  /\ calls' = [calls EXCEPT ![c] = q]
  PROVE  FreshLook
BY DEF FreshLook, Looked, RegistryInv, RowsTyped

\* One row is written, and it is no new gate.
LEMMA NoArrival ==
  ASSUME RegistryInv, FreshLook, NEW n \in Node, NEW row, Exists(n),
         nodes' = [nodes EXCEPT ![n] = row],
         nodes[n].instance # NoInstance => row.instance = nodes[n].instance,
         row.server = nodes[n].server, row.kind = nodes[n].kind,
         nodes[n].disabled => row.disabled
  PROVE  GateGoal
<1>1. /\ nodes'[n] = row
      /\ \A m \in Node : m # n => nodes'[m] = nodes[m]
  BY DEF RegistryInv, RowsTyped
<1>2. Firm
  BY <1>1 DEF Firm
<1>3. \A m \in Node, s \in Server : m \in Gates(s)' => m \in Gates(s)
  <2> TAKE m \in Node, s \in Server
  <2> HAVE m \in Gates(s)'
  <2>1. CASE m = n
    BY <1>1, <2>1, GateRow DEF Exists
  <2>2. CASE m # n
    BY <1>1, <2>2, GateRow
  <2> QED
    BY <2>1, <2>2
<1> QED
  BY <1>2, <1>3 DEF GateGoal, JoinsByOvertaken

\* One row is written by a call that looked: every other gate of the server is
\* one the call would have seen.
LEMMA ArrivalOfCall ==
  ASSUME RegistryInv, GateLook, NEW c \in Call, Looked(c),
         calls' = [calls EXCEPT ![c] = None],
         NEW n \in Node, NEW row, nodes' = [nodes EXCEPT ![n] = row],
         row.kind = calls[c].kind, row.server = calls[c].server,
         Exists(n) => row.instance = nodes[n].instance,
         \A m \in Node : m # n /\ Exists(m) /\ calls[c].st = "upsert" =>
             nodes[m].instance # calls[c].instance
  PROVE  GateGoal
<1>1. /\ nodes'[n] = row
      /\ \A m \in Node : m # n => nodes'[m] = nodes[m]
  BY DEF RegistryInv, RowsTyped
<1>2. Firm
  BY <1>1 DEF Firm, Exists
<1>3. FreshLook /\ calls'[c] = None
  BY NoLook DEF None, RegistryInv, RowsTyped
<1>4. ASSUME NEW s \in Server, NEW a \in Node, NEW b \in Node, a # b,
             a \notin Gates(s), a \in Gates(s)', b \in Gates(s)'
      PROVE  c \in overtaken /\ calls[c].server = s
  <2>1. a = n
    BY <1>1, <1>4, GateRow
  <2>2. s = calls[c].server /\ calls[c].kind = "downstream_velocity"
    BY <1>1, <1>4, <2>1, GateRow
  <2>3. b \in Gates(s) /\ Exists(b)
    BY <1>1, <1>4, <2>1, GateRow DEF Exists
  <2>4. ~Clear(c)
    BY <1>4, <2>1, <2>2, <2>3 DEF Clear
  <2> QED
    BY <2>2, <2>4 DEF GateLook
<1> QED
  BY <1>2, <1>3, <1>4 DEF GateGoal, JoinsByOvertaken

\* CreateKindForServer: the look, and the insertion.
LEMMA CreateGates ==
  ASSUME RegistryInv, GateLook, NEW c \in Call,
         \/ \E k \in Kind, s \in Server : CreateCheck(c, k, s)
         \/ \E n \in Node, t \in Token : CreateInsert(c, n, t)
  PROVE  GateGoal
<1>1. ASSUME NEW k \in Kind, NEW s \in Server, CreateCheck(c, k, s)
      PROVE  GateGoal
  <2>1. /\ calls'[c] = [st |-> "create", kind |-> k, server |-> s]
        /\ \A d \in Call : d # c => calls'[d] = calls[d]
        /\ UNCHANGED nodes
    BY <1>1 DEF CreateCheck, RegistryInv, RowsTyped
  <2>2. k = "downstream_velocity" => Gates(s)' = {}
    BY <1>1, <2>1 DEF CreateCheck, Vacant, Gates, Enabled, Exists
  <2>3. Clear(c)'
    BY <2>1, <2>2 DEF Clear, Gates, Enabled, Exists
  <2> QED
    BY <2>1, <2>3, LookOnly DEF FreshLook
<1>2. ASSUME NEW n \in Node, NEW t \in Token, CreateInsert(c, n, t)
      PROVE  GateGoal
  <2> DEFINE row == [st |-> "row", kind |-> calls[c].kind, server |-> calls[c].server,
                     disabled |-> FALSE, token |-> t, instance |-> NoInstance]
  <2>1. /\ nodes' = [nodes EXCEPT ![n] = row] /\ ~Exists(n)
        /\ calls[c].st = "create" /\ calls' = [calls EXCEPT ![c] = None]
    BY <1>2 DEF CreateInsert, NewNode
  <2>2. row.kind = calls[c].kind /\ row.server = calls[c].server
    OBVIOUS
  <2> HIDE DEF row
  <2> QED
    BY <2>1, <2>2, ArrivalOfCall DEF Looked
<1> QED
  BY <1>1, <1>2

\* Register: the second statement looks, the third writes.
LEMMA RegisterGates ==
  ASSUME RegistryInv, GateLook, NEW c \in Call,
         \/ \E i \in Instance, k \in Kind, s \in Server : RegisterStart(c, i, k, s)
         \/ RegisterCheck(c)
         \/ RegisterUpsert(c)
  PROVE  GateGoal
<1>1. ASSUME NEW i \in Instance, NEW k \in Kind, NEW s \in Server,
             RegisterStart(c, i, k, s)
      PROVE  GateGoal
  <2>1. PICK q : /\ q = [st |-> "register", kind |-> k, server |-> s, instance |-> i]
                 /\ calls' = [calls EXCEPT ![c] = q]
    BY <1>1 DEF RegisterStart
  <2>2. q.st \notin {"create", "upsert"}
    BY <2>1
  <2>3. FreshLook
    BY <2>1, <2>2, NoLook
  <2> QED
    BY <1>1, <2>3, LookOnly DEF RegisterStart
<1>2. CASE RegisterCheck(c)
  <2>1. /\ \A d \in Call : d # c => calls'[d] = calls[d]
        /\ UNCHANGED nodes
    BY <1>2 DEF RegisterCheck, RegistryInv, RowsTyped
  <2>2. PICK q : q = calls[c] /\ q \in [st : {"register", "upsert"}, kind : Kind,
                                        server : Server, instance : Instance]
    BY <1>2, CallTyped DEF RegisterCheck
  <2>3. \/ calls'[c] = None
        \/ /\ calls'[c] = [q EXCEPT !.st = "upsert"]
           /\ q.kind = "downstream_velocity" =>
                \A n \in Gates(q.server) : nodes[n].instance = q.instance
    BY <1>2, <2>2 DEF RegisterCheck, RegistryInv, RowsTyped
  <2>4. CASE calls'[c] = None
    BY <2>1, <2>4, LookOnly DEF FreshLook, Looked, None
  <2>5. CASE /\ calls'[c] = [q EXCEPT !.st = "upsert"]
             /\ q.kind = "downstream_velocity" =>
                  \A n \in Gates(q.server) : nodes[n].instance = q.instance
    <3>1. /\ calls'[c].st = "upsert" /\ calls'[c].kind = q.kind
          /\ calls'[c].server = q.server /\ calls'[c].instance = q.instance
      BY <2>2, <2>5
    <3>2. Clear(c)'
      BY <2>1, <2>5, <3>1 DEF Clear, Gates, Enabled, Exists
    <3> QED
      BY <2>1, <3>2, LookOnly DEF FreshLook
  <2> QED
    BY <2>3, <2>4, <2>5
<1>3. CASE RegisterUpsert(c)
  <2>1. /\ calls[c].st = "upsert" /\ calls[c].instance \in Instance
        /\ calls' = [calls EXCEPT ![c] = None]
    BY <1>3, CallTyped DEF RegisterUpsert
  <2>2. CASE \E n \in Having(calls[c].instance) :
               Move(n, calls[c].kind, calls[c].server)
    <3>1. PICK n \in Node : /\ Exists(n) /\ nodes[n].instance = calls[c].instance
                            /\ Move(n, calls[c].kind, calls[c].server)
      BY <2>2 DEF Having
    <3> DEFINE row == [nodes[n] EXCEPT !.kind = calls[c].kind, !.server = calls[c].server]
    <3>2. nodes[n] \in Row
      BY <3>1 DEF RegistryInv, RowsTyped, Exists
    <3>3. /\ row.kind = calls[c].kind /\ row.server = calls[c].server
          /\ row.instance = nodes[n].instance
      BY <3>2 DEF Row
    <3>4. nodes' = [nodes EXCEPT ![n] = row]
      BY <3>1 DEF Move
    <3>5. \A m \in Node : m # n /\ Exists(m) => nodes[m].instance # calls[c].instance
      BY <2>1, <3>1, RegistryAssumption DEF RegistryInv, OneNodeEach
    <3> HIDE DEF row
    <3> QED
      BY <2>1, <3>3, <3>4, <3>5, ArrivalOfCall DEF Looked
  <2>3. CASE /\ Having(calls[c].instance) = {}
             /\ \E n \in Node : NewNode(n, NoToken, calls[c].kind,
                                        calls[c].server, calls[c].instance)
    <3>1. PICK n \in Node : NewNode(n, NoToken, calls[c].kind,
                                    calls[c].server, calls[c].instance)
      BY <2>3
    <3> DEFINE row == [st |-> "row", kind |-> calls[c].kind, server |-> calls[c].server,
                       disabled |-> FALSE, token |-> NoToken,
                       instance |-> calls[c].instance]
    <3>2. nodes' = [nodes EXCEPT ![n] = row] /\ ~Exists(n)
      BY <3>1 DEF NewNode
    <3>3. row.kind = calls[c].kind /\ row.server = calls[c].server
      OBVIOUS
    <3>4. \A m \in Node : Exists(m) => nodes[m].instance # calls[c].instance
      BY <2>3 DEF Having
    <3> HIDE DEF row
    <3> QED
      BY <2>1, <3>2, <3>3, <3>4, ArrivalOfCall DEF Looked
  <2> QED
    BY <1>3, <2>2, <2>3 DEF RegisterUpsert
<1> QED
  BY <1>1, <1>2, <1>3

\* Heartbeats move no node, and claim an instance only for a row without one.
LEMMA HeartbeatGates ==
  ASSUME RegistryInv, postgres, NEW c \in Call,
         \/ \E t \in Token, n \in Node : Authenticate(c, t, n)
         \/ \E i \in Instance \cup {NoInstance} : Heartbeat(c, i)
  PROVE  GateGoal
<1>1. ASSUME NEW t \in Token, NEW n \in Node, Authenticate(c, t, n)
      PROVE  GateGoal
  <2>1. PICK q : /\ q = [st |-> "heartbeat", node |-> n, copy |-> nodes[n]]
                 /\ calls' = [calls EXCEPT ![c] = q]
    BY <1>1 DEF Authenticate
  <2>2. q.st \notin {"create", "upsert"}
    BY <2>1
  <2>3. FreshLook
    BY <2>1, <2>2, NoLook
  <2> QED
    BY <1>1, <2>3, LookOnly DEF Authenticate
<1>2. ASSUME NEW i \in Instance \cup {NoInstance}, Heartbeat(c, i)
      PROVE  GateGoal
  <2> DEFINE n == calls[c].node
             row == Claimed(nodes[n], i)
  <2>1. /\ n \in Node /\ Exists(n) /\ nodes[n] \in Row
        /\ calls' = [calls EXCEPT ![c] = None]
    BY <1>2, CallTyped DEF Heartbeat, RegistryInv, HeartbeatOfRow, Exists, RowsTyped
  <2>2. nodes' = nodes \/ nodes' = [nodes EXCEPT ![n] = row]
    BY <1>2 DEF Heartbeat, HeartbeatWrite
  <2>3. /\ row.server = nodes[n].server /\ row.kind = nodes[n].kind
        /\ row.disabled = nodes[n].disabled
        /\ nodes[n].instance # NoInstance => row.instance = nodes[n].instance
    BY <2>1 DEF Claimed, Row
  <2>4. None.st \notin {"create", "upsert"}
    BY DEF None
  <2>5. FreshLook
    BY <2>1, <2>4, NoLook
  <2> HIDE DEF row, n
  <2> QED
    BY <2>1, <2>2, <2>3, <2>5, NoArrival, LookOnly
<1> QED
  BY <1>1, <1>2

\* Rotate and Delete bring no gate.
LEMMA AdminGates ==
  ASSUME RegistryInv, NEW n \in Node,
         (\E t \in Token : Rotate(n, t)) \/ Delete(n)
  PROVE  GateGoal
<1>1. Exists(n) /\ nodes[n] \in Row /\ UNCHANGED calls
  BY DEF Rotate, Delete, Enabled, Exists, RegistryInv, RowsTyped
<1>2. FreshLook
  BY <1>1, NoLook
<1>3. PICK row : /\ nodes' = [nodes EXCEPT ![n] = row]
                 /\ \/ \E t \in Token : row = [nodes[n] EXCEPT !.token = t]
                    \/ row = [nodes[n] EXCEPT !.disabled = TRUE, !.token = NoToken]
  BY DEF Rotate, Delete
<1>4. /\ row.instance = nodes[n].instance /\ row.server = nodes[n].server
      /\ row.kind = nodes[n].kind /\ (nodes[n].disabled => row.disabled)
  BY <1>1, <1>3 DEF Row
<1> QED
  BY <1>1, <1>2, <1>3, <1>4, NoArrival

LEMMA GateStep ==
  ASSUME RegistryInv, GateLook, postgres, [Next]_vars
  PROVE  GateLook' /\ [JoinsByOvertaken]_vars
<1>1. CASE UNCHANGED vars
  <2>1. GateLook'
    BY <1>1 DEF vars, GateLook, Clear, Looked, Gates, Enabled, Exists
  <2> QED
    BY <1>1, <2>1
<1>2. ASSUME NodeNext PROVE GateGoal
  BY <1>2, RegisterGates, HeartbeatGates DEF NodeNext, Register
<1>3. ASSUME AdminNext PROVE GateGoal
  BY <1>3, CreateGates, AdminGates DEF AdminNext, Create
<1>4. CASE Next
  <2>1. GateGoal /\ Overtake
    BY <1>2, <1>3, <1>4 DEF Next
  <2> QED
    BY <2>1, LookStays DEF GateGoal
<1> QED
  BY <1>1, <1>4

\* CreateKindForServer and Register in Postgres: a server gets a second gate only
\* from a call that another gate overtook between its look and its write, for
\* any number of calls in flight.
THEOREM SecondGateIsARace == Spec => SecondGateOvertakes
<1> DEFINE IInv == postgres \in BOOLEAN /\ (postgres => RegistryInv /\ GateLook)
<1>1. Init => IInv
  BY RegistryInit DEF Init, GateLook, Looked, None
<1>2. IInv /\ [Next]_vars => IInv' /\ [postgres => JoinsByOvertaken]_vars
  <2> SUFFICES ASSUME IInv, [Next]_vars
               PROVE  IInv' /\ [postgres => JoinsByOvertaken]_vars
    OBVIOUS
  <2>1. UNCHANGED postgres
    BY DEF Next, vars
  <2>2. CASE postgres
    BY <2>1, <2>2, PostgresInductive, GateStep
  <2>3. CASE ~postgres
    BY <2>1, <2>3
  <2> QED
    BY <2>2, <2>3
<1> QED
  BY <1>1, <1>2, PTL DEF Spec, SecondGateOvertakes

(***************************************************************************)
(* Both implementations.                                                   *)
(***************************************************************************)
TypedInv == postgres \in BOOLEAN /\ RowsTyped /\ HeartbeatOfRow

\* Where rows stay rows and one call moves on, types and rows of calls stay.
LEMMA TypedKeep ==
  ASSUME TypedInv, UNCHANGED postgres, retired' \subseteq Token,
         nodes' \in [Node -> Row \cup {None}],
         \A n \in Node : Exists(n) => nodes'[n] # None,
         \/ UNCHANGED calls
         \/ \E c \in Call, q \in CallRec \cup {None} :
               /\ q.st = "heartbeat" => Exists(q.node)
               /\ calls' = [calls EXCEPT ![c] = q]
  PROVE  TypedInv'
<1>1. calls' \in [Call -> CallRec \cup {None}]
  BY DEF TypedInv, RowsTyped
<1>2. ASSUME NEW d \in Call, calls'[d].st = "heartbeat"
      PROVE  nodes'[calls'[d].node] # None
  <2>1. Exists(calls'[d].node)
    BY <1>2 DEF TypedInv, RowsTyped, HeartbeatOfRow
  <2>2. calls'[d] \in CallRec
    BY <1>1, <1>2 DEF None
  <2>3. calls'[d].node \in Node
    BY <1>2, <2>2 DEF CallRec
  <2> QED
    BY <2>1, <2>3
<1>3. postgres' \in BOOLEAN
  BY DEF TypedInv
<1>4. HeartbeatOfRow'
  BY <1>2 DEF HeartbeatOfRow, Exists
<1> QED
  BY <1>1, <1>3, <1>4 DEF TypedInv, RowsTyped

\* A row that is written stays a row, and a row that is added was not there.
LEMMA RowsStay ==
  ASSUME TypedInv, NEW n \in Node, NEW row \in Row,
         nodes' = [nodes EXCEPT ![n] = row]
  PROVE  /\ nodes' \in [Node -> Row \cup {None}]
         /\ \A m \in Node : Exists(m) => nodes'[m] # None
<1>1. row # None
  BY DEF Row, None
<1> QED
  BY <1>1 DEF TypedInv, RowsTyped, Exists

\* What a step of either implementation must establish: rows are typed, and a
\* revoked row is revived by nothing but a heartbeat that is under way for it.
Revives(n) == \E c \in Call : calls[c].st = "heartbeat" /\ calls[c].node = n

TypedGoal ==
    /\ TypedInv'
    /\ \A n \in Node : Exists(n) /\ nodes[n].disabled =>
          nodes'[n].disabled \/ Revives(n)

\* A step that writes at most one row, and disabled only for a heartbeat.
LEMMA RowStep ==
  ASSUME TypedInv, UNCHANGED postgres, retired' \subseteq Token,
         NEW n \in Node, NEW row \in Row,
         Exists(n) /\ nodes[n].disabled => row.disabled \/ Revives(n),
         nodes' = nodes \/ nodes' = [nodes EXCEPT ![n] = row],
         \/ UNCHANGED calls
         \/ \E c \in Call, q \in CallRec \cup {None} :
               /\ q.st = "heartbeat" => Exists(q.node)
               /\ calls' = [calls EXCEPT ![c] = q]
  PROVE  TypedGoal
<1>1. /\ nodes' \in [Node -> Row \cup {None}]
      /\ \A m \in Node : Exists(m) => nodes'[m] # None
  BY RowsStay DEF TypedInv, RowsTyped, Exists
<1>2. TypedInv'
  BY <1>1, TypedKeep
<1>3. \A m \in Node : Exists(m) /\ nodes[m].disabled =>
          nodes'[m].disabled \/ Revives(m)
  BY DEF TypedInv, RowsTyped, Exists
<1> QED
  BY <1>2, <1>3 DEF TypedGoal

\* A step that writes no row.
LEMMA CallStep ==
  ASSUME TypedInv, UNCHANGED <<postgres, nodes, retired>>,
         NEW c \in Call, NEW q \in CallRec \cup {None},
         q.st = "heartbeat" => Exists(q.node),
         calls' = [calls EXCEPT ![c] = q]
  PROVE  TypedGoal
<1>1. /\ nodes' \in [Node -> Row \cup {None}]
      /\ \A m \in Node : Exists(m) => nodes'[m] # None
      /\ retired' \subseteq Token
  BY DEF TypedInv, RowsTyped, Exists
<1>2. TypedInv'
  BY <1>1, TypedKeep
<1> QED
  BY <1>2 DEF TypedGoal

\* A call that is under way carries what its kind of call carries.
LEMMA CallFields ==
  ASSUME TypedInv, NEW c \in Call
  PROVE  /\ calls[c].st = "create" =>
               calls[c].kind \in Kind /\ calls[c].server \in Server
         /\ calls[c].st \in {"register", "upsert"} =>
               /\ [calls[c] EXCEPT !.st = "upsert"] \in CallRec
               /\ [calls[c] EXCEPT !.st = "upsert"].st = "upsert"
               /\ calls[c].kind \in Kind /\ calls[c].server \in Server
               /\ calls[c].instance \in Instance
         /\ calls[c].st = "heartbeat" =>
               /\ calls[c].node \in Node /\ calls[c].copy \in Row
               /\ nodes[calls[c].node] \in Row
         /\ None \in CallRec \cup {None} /\ None.st # "heartbeat"
<1>1. calls[c] \in CallRec \cup {None}
  BY DEF TypedInv, RowsTyped
<1>2. calls[c].st = "heartbeat" => calls[c].node \in Node /\ calls[c].copy \in Row
  BY <1>1 DEF CallRec, None
<1>3. calls[c].st = "heartbeat" => nodes[calls[c].node] \in Row
  BY <1>2 DEF TypedInv, RowsTyped, HeartbeatOfRow, Exists
<1> QED
  BY <1>1, <1>2, <1>3 DEF CallRec, None

\* Rows written by a registration, in either implementation.
LEMMA NewNodeStep ==
  ASSUME TypedInv, UNCHANGED <<postgres, retired>>, NEW n \in Node,
         NEW t \in Token \cup {NoToken}, NEW k \in Kind, NEW s \in Server,
         NEW i \in Instance \cup {NoInstance}, NewNode(n, t, k, s, i),
         \/ UNCHANGED calls
         \/ \E c \in Call : calls' = [calls EXCEPT ![c] = None]
  PROVE  TypedGoal
<1> DEFINE row == [st |-> "row", kind |-> k, server |-> s, disabled |-> FALSE,
                   token |-> t, instance |-> i]
<1>1. row \in Row
  BY DEF Row
<1>2. nodes' = [nodes EXCEPT ![n] = row] /\ ~Exists(n)
  BY DEF NewNode
<1>3. retired' \subseteq Token /\ None.st # "heartbeat"
  BY DEF TypedInv, RowsTyped, None
<1> HIDE DEF row
<1> QED
  BY <1>1, <1>2, <1>3, RowStep

LEMMA MoveStep ==
  ASSUME TypedInv, UNCHANGED <<postgres, retired>>, NEW n \in Node, Exists(n),
         NEW k \in Kind, NEW s \in Server, Move(n, k, s),
         \/ UNCHANGED calls
         \/ \E c \in Call : calls' = [calls EXCEPT ![c] = None]
  PROVE  TypedGoal
<1> DEFINE row == [nodes[n] EXCEPT !.kind = k, !.server = s]
<1>1. nodes[n] \in Row
  BY DEF TypedInv, RowsTyped, Exists
<1>2. row \in Row /\ row.disabled = nodes[n].disabled
  BY <1>1 DEF Row
<1>3. nodes' = [nodes EXCEPT ![n] = row]
  BY DEF Move
<1>4. retired' \subseteq Token /\ None.st # "heartbeat"
  BY DEF TypedInv, RowsTyped, None
<1> HIDE DEF row
<1> QED
  BY <1>2, <1>3, <1>4, RowStep

\* A heartbeat writes the row of its call, from the row or from its copy.
LEMMA HeartbeatStep ==
  ASSUME TypedInv, UNCHANGED postgres, NEW c \in Call,
         NEW i \in Instance \cup {NoInstance}, Heartbeat(c, i)
  PROVE  TypedGoal
<1> DEFINE n == calls[c].node
           now == Claimed(nodes[n], i)
           old == Claimed(calls[c].copy, i)
<1>1. /\ n \in Node /\ Revives(n)
      /\ nodes[n] \in Row /\ calls[c].copy \in Row
  BY CallFields DEF Heartbeat, Revives
<1>2. now \in Row /\ old \in Row
  BY <1>1 DEF Claimed, Row
<1>3. \/ nodes' = nodes
      \/ nodes' = [nodes EXCEPT ![n] = now]
      \/ nodes' = [nodes EXCEPT ![n] = old]
  BY DEF Heartbeat, HeartbeatWrite
<1>4. calls' = [calls EXCEPT ![c] = None] /\ UNCHANGED retired
  BY DEF Heartbeat
<1>5. retired' \subseteq Token /\ None.st # "heartbeat"
  BY <1>4 DEF TypedInv, RowsTyped, None
<1> HIDE DEF n, now, old
<1> QED
  BY <1>1, <1>2, <1>3, <1>4, <1>5, RowStep

\* Rotate and Delete write one row, and never clear "disabled".
LEMMA AdminStep ==
  ASSUME TypedInv, UNCHANGED postgres, NEW n \in Node,
         (\E t \in Token : Rotate(n, t)) \/ Delete(n)
  PROVE  TypedGoal
<1>1. Exists(n) /\ nodes[n] \in Row /\ Retire(n) /\ UNCHANGED calls
  BY DEF Rotate, Delete, Enabled, Exists, TypedInv, RowsTyped
<1>2. nodes[n].token \in Token \cup {NoToken}
  BY <1>1 DEF Row
<1>3. retired' \subseteq Token
  BY <1>1, <1>2 DEF Retire, TypedInv, RowsTyped
<1>4. ASSUME NEW row \in Row, nodes[n].disabled => row.disabled,
             nodes' = [nodes EXCEPT ![n] = row]
      PROVE  TypedGoal
  BY <1>1, <1>3, <1>4, RowStep
<1>5. ASSUME NEW t \in Token, Rotate(n, t)
      PROVE  TypedGoal
  <2> DEFINE row == [nodes[n] EXCEPT !.token = t]
  <2>1. row \in Row /\ row.disabled = nodes[n].disabled
    BY <1>1 DEF Row
  <2>2. nodes' = [nodes EXCEPT ![n] = row]
    BY <1>5 DEF Rotate
  <2> HIDE DEF row
  <2> QED
    BY <1>4, <2>1, <2>2
<1>6. CASE Delete(n)
  <2> DEFINE row == [nodes[n] EXCEPT !.disabled = TRUE, !.token = NoToken]
  <2>1. row \in Row /\ row.disabled
    BY <1>1 DEF Row
  <2>2. nodes' = [nodes EXCEPT ![n] = row]
    BY <1>6 DEF Delete
  <2> HIDE DEF row
  <2> QED
    BY <1>4, <2>1, <2>2
<1> QED
  BY <1>5, <1>6

\* A node's steps.
LEMMA NodeSteps ==
  ASSUME TypedInv, UNCHANGED postgres, NodeNext
  PROVE  TypedGoal
<1>1. ASSUME NEW i \in Instance, NEW k \in Kind, NEW s \in Server, Register(i, k, s)
      PROVE  TypedGoal
  <2>1. CASE \E n \in Having(i) : ~nodes[n].disabled /\ Move(n, k, s)
    BY <1>1, <2>1, MoveStep DEF Register, Having
  <2>2. CASE \E n \in Node : NewNode(n, NoToken, k, s, i)
    BY <1>1, <2>2, NewNodeStep DEF Register
  <2> QED
    BY <1>1, <2>1, <2>2 DEF Register
<1>2. ASSUME NEW c \in Call, NEW i \in Instance, NEW k \in Kind, NEW s \in Server,
             RegisterStart(c, i, k, s)
      PROVE  TypedGoal
  <2> DEFINE q == [st |-> "register", kind |-> k, server |-> s, instance |-> i]
  <2>1. q \in CallRec /\ q.st # "heartbeat"
    BY DEF CallRec
  <2>2. calls' = [calls EXCEPT ![c] = q] /\ UNCHANGED <<nodes, retired>>
    BY <1>2 DEF RegisterStart
  <2> HIDE DEF q
  <2> QED
    BY <2>1, <2>2, CallStep
<1>3. ASSUME NEW c \in Call, RegisterCheck(c)
      PROVE  TypedGoal
  <2> DEFINE q == [calls[c] EXCEPT !.st = "upsert"]
  <2>1. q \in CallRec /\ q.st # "heartbeat" /\ None.st # "heartbeat"
    BY <1>3, CallFields DEF RegisterCheck
  <2>2. /\ calls' = [calls EXCEPT ![c] = q] \/ calls' = [calls EXCEPT ![c] = None]
        /\ UNCHANGED <<nodes, retired>>
    BY <1>3 DEF RegisterCheck
  <2> HIDE DEF q
  <2> QED
    BY <2>1, <2>2, CallStep
<1>4. ASSUME NEW c \in Call, RegisterUpsert(c)
      PROVE  TypedGoal
  <2>1. /\ calls[c].kind \in Kind /\ calls[c].server \in Server
        /\ calls[c].instance \in Instance
        /\ UNCHANGED retired /\ calls' = [calls EXCEPT ![c] = None]
    BY <1>4, CallFields DEF RegisterUpsert
  <2>2. CASE \E n \in Having(calls[c].instance) :
               Move(n, calls[c].kind, calls[c].server)
    BY <2>1, <2>2, MoveStep DEF Having
  <2>3. CASE \E n \in Node : NewNode(n, NoToken, calls[c].kind,
                                     calls[c].server, calls[c].instance)
    BY <2>1, <2>3, NewNodeStep
  <2> QED
    BY <1>4, <2>2, <2>3 DEF RegisterUpsert
<1>5. ASSUME NEW c \in Call, NEW t \in Token, NEW n \in Node, Authenticate(c, t, n)
      PROVE  TypedGoal
  <2> DEFINE q == [st |-> "heartbeat", node |-> n, copy |-> nodes[n]]
  <2>1. Exists(n) /\ nodes[n] \in Row
    BY <1>5 DEF Authenticate, Authenticates, Enabled, Exists, TypedInv, RowsTyped
  <2>2. q \in CallRec /\ q.node = n
    BY <2>1 DEF CallRec
  <2>3. calls' = [calls EXCEPT ![c] = q] /\ UNCHANGED <<nodes, retired>>
    BY <1>5 DEF Authenticate
  <2> HIDE DEF q
  <2> QED
    BY <2>1, <2>2, <2>3, CallStep
<1> QED
  BY <1>1, <1>2, <1>3, <1>4, <1>5, HeartbeatStep DEF NodeNext

\* An administrator's steps.
LEMMA AdminNextStep ==
  ASSUME TypedInv, UNCHANGED postgres, AdminNext
  PROVE  TypedGoal
<1>1. ASSUME NEW n \in Node, NEW t \in Token, NEW k \in Kind, NEW s \in Server,
             Create(n, t, k, s)
      PROVE  TypedGoal
  BY <1>1, NewNodeStep DEF Create
<1>2. ASSUME NEW c \in Call, NEW k \in Kind, NEW s \in Server, CreateCheck(c, k, s)
      PROVE  TypedGoal
  <2> DEFINE q == [st |-> "create", kind |-> k, server |-> s]
  <2>1. q \in CallRec /\ q.st # "heartbeat"
    BY DEF CallRec
  <2>2. calls' = [calls EXCEPT ![c] = q] /\ UNCHANGED <<nodes, retired>>
    BY <1>2 DEF CreateCheck
  <2> HIDE DEF q
  <2> QED
    BY <2>1, <2>2, CallStep
<1>3. ASSUME NEW c \in Call, NEW n \in Node, NEW t \in Token, CreateInsert(c, n, t)
      PROVE  TypedGoal
  BY <1>3, CallFields, NewNodeStep DEF CreateInsert
<1> QED
  BY <1>1, <1>2, <1>3, AdminStep DEF AdminNext

LEMMA TypedInit == Init => TypedInv
BY DEF Init, TypedInv, RowsTyped, HeartbeatOfRow, None

LEMMA TypedStep ==
  ASSUME TypedInv, [Next]_vars
  PROVE  TypedInv' /\ (vars' # vars => TypedGoal)
<1>1. CASE UNCHANGED vars
  BY <1>1 DEF vars, TypedInv, RowsTyped, HeartbeatOfRow, Exists
<1>2. CASE Next
  BY <1>2, NodeSteps, AdminNextStep DEF Next, TypedGoal
<1> QED
  BY <1>1, <1>2

\* Rows and calls keep their types in both implementations.
THEOREM RegistryTyped == Spec => []TypeOK
<1> DEFINE IInv == TypedInv /\ overtaken \subseteq Call
<1>1. Init => IInv
  BY TypedInit DEF Init
<1>2. IInv /\ [Next]_vars => IInv'
  <2>1. ASSUME IInv, [Next]_vars
        PROVE  overtaken' \subseteq Call
    BY <2>1 DEF Next, Overtake, vars
  <2> QED
    BY <2>1, TypedStep
<1>3. IInv => TypeOK
  BY DEF TypedInv, TypeOK
<1> QED
  BY <1>1, <1>2, <1>3, PTL DEF Spec

\* In either implementation the one step that can clear a revocation is the
\* write of a heartbeat that authenticated before the node was revoked.
THEOREM RevivalNeedsHeartbeat == Spec => RevivedOnlyInFlight
<1> DEFINE Kept == \A n \in Node : Exists(n) /\ nodes[n].disabled =>
                      nodes'[n].disabled \/ Revives(n)
<1>1. TypedInv /\ [Next]_vars => TypedInv' /\ [Kept]_vars
  BY TypedStep DEF TypedGoal
<1>2. [Kept]_vars <=>
        [\A n \in Node : Exists(n) /\ nodes[n].disabled =>
            \/ nodes'[n].disabled
            \/ \E c \in Call : calls[c].st = "heartbeat" /\ calls[c].node = n]_vars
  BY DEF Revives
<1> QED
  BY <1>1, <1>2, TypedInit, PTL DEF Spec, RevivedOnlyInFlight

===============================================================================
