----------------------------- MODULE NodeRegistry -----------------------------
(***************************************************************************)
(* The registry of portal and gate nodes: who may call Core as a node.     *)
(* Two implementations stand behind one interface.  node.Registry, used    *)
(* without a database, holds a mutex per method, except that Heartbeat     *)
(* authenticates under one lock and writes its copy back under another.    *)
(* Postgres runs one statement at a time, so CreateKindForServer, Register *)
(* and Heartbeat are several steps each.                                   *)
(*                                                                         *)
(* Names, versions, fingerprints of tokens, heartbeat times and the        *)
(* runtime configuration decide nothing here and are left out, and with    *)
(* them Update, which writes nothing else.                                 *)
(***************************************************************************)
CONSTANTS
    Node,        \* node ids
    Token,       \* node tokens; their hashes are as good as the tokens
    Instance,    \* instance fingerprints
    Server,      \* downstream servers
    Call,        \* bound: node and administrator calls in flight
    NoToken,     \* the empty token_hash
    NoInstance   \* the empty instance_fingerprint

ASSUME RegistryAssumption ==
    /\ NoToken \notin Token
    /\ NoInstance \notin Instance

VARIABLES
    postgres,    \* which implementation Core was started with: store.Postgres,
                 \* or node.Registry where there is no database
    nodes,       \* the rows, by id
    calls,       \* calls between two statements
    retired,     \* history: tokens that were rotated away or destroyed
    overtaken    \* history: calls whose server got a gate since they looked

vars == <<postgres, nodes, calls, retired, overtaken>>

None == [st |-> "none"]

Kind == {"limbo_portal", "downstream_velocity"}

Row == [st : {"row"}, kind : Kind, server : Server, disabled : BOOLEAN,
        token : Token \cup {NoToken}, instance : Instance \cup {NoInstance}]

CallRec == [st : {"create"}, kind : Kind, server : Server]
             \cup [st : {"register", "upsert"}, kind : Kind, server : Server,
                   instance : Instance]
             \cup [st : {"heartbeat"}, node : Node, copy : Row]

RowsTyped ==
    /\ nodes \in [Node -> Row \cup {None}]
    /\ calls \in [Call -> CallRec \cup {None}]
    /\ retired \subseteq Token

TypeOK == postgres \in BOOLEAN /\ RowsTyped /\ overtaken \subseteq Call

Init ==
    /\ postgres \in BOOLEAN
    /\ nodes = [n \in Node |-> None]
    /\ calls = [c \in Call |-> None]
    /\ retired = {}
    /\ overtaken = {}

(***************************************************************************)
(* Reads.                                                                  *)
(***************************************************************************)
Exists(n) == nodes[n] # None

Enabled(n) == Exists(n) /\ ~nodes[n].disabled

\* The active gates of a server.
Gates(s) == {n \in Node : Enabled(n) /\ nodes[n].server = s
                                     /\ nodes[n].kind = "downstream_velocity"}

\* The server is free for one more node of this kind.
Vacant(k, s) == k = "downstream_velocity" => Gates(s) = {}

Having(i) == {n \in Node : Exists(n) /\ nodes[n].instance = i}

\* Authenticate: revoked nodes are passed over.
Authenticates(t, n) == Enabled(n) /\ nodes[n].token = t

\* NewOpaqueToken never hands out a token twice.
Unused(t) == t \notin retired /\ \A n \in Node : Exists(n) => nodes[n].token # t

(***************************************************************************)
(* CreateKindForServer.                                                    *)
(***************************************************************************)
NewNode(n, t, k, s, i) ==
    /\ ~Exists(n)
    /\ nodes' = [nodes EXCEPT ![n] =
            [st |-> "row", kind |-> k, server |-> s, disabled |-> FALSE,
             token |-> t, instance |-> i]]

Create(n, t, k, s) ==
    /\ ~postgres
    /\ Unused(t)
    /\ Vacant(k, s)
    /\ NewNode(n, t, k, s, NoInstance)
    /\ UNCHANGED <<calls, retired>>

CreateCheck(c, k, s) ==
    /\ postgres
    /\ calls[c] = None
    /\ Vacant(k, s)
    /\ calls' = [calls EXCEPT ![c] = [st |-> "create", kind |-> k, server |-> s]]
    /\ UNCHANGED <<nodes, retired>>

CreateInsert(c, n, t) ==
    /\ calls[c].st = "create"
    /\ Unused(t)
    /\ NewNode(n, t, calls[c].kind, calls[c].server, NoInstance)
    /\ calls' = [calls EXCEPT ![c] = None]
    /\ UNCHANGED retired

(***************************************************************************)
(* Register: a heartbeat with the shared access token.  A row that has the *)
(* instance is moved to the server and kind it reports now.                *)
(***************************************************************************)
Move(n, k, s) == nodes' = [nodes EXCEPT ![n] = [@ EXCEPT !.kind = k, !.server = s]]

\* Fault: a revoked instance is welcomed back.
RegisterRevives(i, k, s) ==
    /\ ~postgres
    /\ \/ \E n \in Having(i) :
             nodes' = [nodes EXCEPT ![n].disabled = FALSE]
       \/ /\ Having(i) = {}
          /\ Vacant(k, s)
          /\ \E n \in Node : NewNode(n, NoToken, k, s, i)
    /\ UNCHANGED <<calls, retired>>

Register(i, k, s) ==
    /\ ~postgres
    /\ \/ \E n \in Having(i) : ~nodes[n].disabled /\ Move(n, k, s)
       \/ /\ Having(i) = {}
          /\ Vacant(k, s)
          /\ \E n \in Node : NewNode(n, NoToken, k, s, i)
    /\ UNCHANGED <<calls, retired>>

RegisterStart(c, i, k, s) ==
    /\ postgres
    /\ calls[c] = None
    /\ \A n \in Having(i) : ~nodes[n].disabled
    /\ calls' = [calls EXCEPT ![c] =
            [st |-> "register", kind |-> k, server |-> s, instance |-> i]]
    /\ UNCHANGED <<nodes, retired>>

\* Fault: the statement looks for the instance's own row.
RegisterCheckOwn(c) ==
    /\ calls[c].st = "register"
    /\ calls' = [calls EXCEPT ![c] =
            IF /\ calls[c].kind = "downstream_velocity"
               /\ \E n \in Gates(calls[c].server) :
                     nodes[n].instance = calls[c].instance
            THEN None
            ELSE [calls[c] EXCEPT !.st = "upsert"]]
    /\ UNCHANGED <<nodes, retired>>

\* Another gate holds the server, or the way is clear.
RegisterCheck(c) ==
    /\ calls[c].st = "register"
    /\ calls' = [calls EXCEPT ![c] =
            IF /\ calls[c].kind = "downstream_velocity"
               /\ \E n \in Gates(calls[c].server) :
                     nodes[n].instance # calls[c].instance
            THEN None
            ELSE [calls[c] EXCEPT !.st = "upsert"]]
    /\ UNCHANGED <<nodes, retired>>

\* INSERT ... ON CONFLICT (instance_fingerprint) DO UPDATE; the update leaves
\* "disabled" as it is.
RegisterUpsert(c) ==
    /\ calls[c].st = "upsert"
    /\ \/ \E n \in Having(calls[c].instance) :
             Move(n, calls[c].kind, calls[c].server)
       \/ /\ Having(calls[c].instance) = {}
          /\ \E n \in Node : NewNode(n, NoToken, calls[c].kind, calls[c].server,
                                     calls[c].instance)
    /\ calls' = [calls EXCEPT ![c] = None]
    /\ UNCHANGED retired

(***************************************************************************)
(* Heartbeat with a node's own token.                                      *)
(***************************************************************************)
Authenticate(c, t, n) ==
    /\ calls[c] = None
    /\ Authenticates(t, n)
    /\ calls' = [calls EXCEPT ![c] =
            [st |-> "heartbeat", node |-> n, copy |-> nodes[n]]]
    /\ UNCHANGED <<nodes, retired>>

\* The first instance a node reports stays.
Claimed(row, i) == [row EXCEPT !.instance = IF @ = NoInstance THEN i ELSE @]

\* Fault: Postgres writes the whole row back as well.
WriteCopy(c, i) ==
    nodes' = [nodes EXCEPT ![calls[c].node] = Claimed(calls[c].copy, i)]

\* Fault: two nodes may report one instance.
WriteUnchecked(c, i) ==
    nodes' = [nodes EXCEPT ![calls[c].node] = Claimed(@, i)]

\* node.Registry stores the copy it authenticated; Postgres updates the
\* column of the row as it is now, unless the unique index objects.
HeartbeatWrite(c, i) ==
    LET n == calls[c].node IN
    IF postgres
    THEN nodes' = IF i # NoInstance /\ nodes[n].instance = NoInstance /\ Having(i) # {}
                  THEN nodes
                  ELSE [nodes EXCEPT ![n] = Claimed(@, i)]
    ELSE nodes' = [nodes EXCEPT ![n] = Claimed(calls[c].copy, i)]

Heartbeat(c, i) ==
    /\ calls[c].st = "heartbeat"
    /\ HeartbeatWrite(c, i)
    /\ calls' = [calls EXCEPT ![c] = None]
    /\ UNCHANGED retired

(***************************************************************************)
(* Administrators.                                                         *)
(***************************************************************************)
Retire(n) == retired' = retired \cup ({nodes[n].token} \ {NoToken})

\* Fault: the old token is kept.
RotateForgets(n, t) ==
    /\ Enabled(n)
    /\ Unused(t)
    /\ Retire(n)
    /\ UNCHANGED <<nodes, calls>>

Rotate(n, t) ==
    /\ Enabled(n)
    /\ Unused(t)
    /\ nodes' = [nodes EXCEPT ![n].token = t]
    /\ Retire(n)
    /\ UNCHANGED calls

Delete(n) ==
    /\ Exists(n)
    /\ nodes' = [nodes EXCEPT ![n] = [@ EXCEPT !.disabled = TRUE, !.token = NoToken]]
    /\ Retire(n)
    /\ UNCHANGED calls

(***************************************************************************)
(* Specification.                                                          *)
(***************************************************************************)
NodeNext ==
    \/ \E i \in Instance, k \in Kind, s \in Server :
          \/ Register(i, k, s)
          \/ \E c \in Call : RegisterStart(c, i, k, s)
    \/ \E c \in Call :
          \/ RegisterCheck(c)
          \/ RegisterUpsert(c)
          \/ \E t \in Token, n \in Node : Authenticate(c, t, n)
          \/ \E i \in Instance \cup {NoInstance} : Heartbeat(c, i)

AdminNext ==
    \/ \E k \in Kind, s \in Server :
          \/ \E n \in Node, t \in Token : Create(n, t, k, s)
          \/ \E c \in Call : CreateCheck(c, k, s)
    \/ \E n \in Node, t \in Token :
          \/ Rotate(n, t)
          \/ \E c \in Call : CreateInsert(c, n, t)
    \/ \E n \in Node : Delete(n)

\* Between its look for the gates of a server and what it then writes.
Looked(c) == calls[c].st \in {"create", "upsert"}

GateArrives(s) == \E n \in Node : n \notin Gates(s) /\ n \in Gates(s)'

Overtake ==
    overtaken' = {c \in Call : /\ Looked(c) /\ calls'[c] = calls[c]
                              /\ \/ c \in overtaken
                                 \/ \E s \in Server : s = calls[c].server /\ GateArrives(s)}

Next == (NodeNext \/ AdminNext) /\ Overtake /\ UNCHANGED postgres

Spec == Init /\ [][Next]_vars

(***************************************************************************)
(* Properties.                                                             *)
(***************************************************************************)
\* handleAdminDeleteNode and handleAdminDisableNode against heartbeats and
\* registrations that are under way: in Postgres none of them brings a revoked
\* node back.  Nor does anything an administrator can do, for Core has no call
\* that enables a node; the interface promises one (strings.ts:789: "You can
\* re-enable them later").
KeepsRevoked == \A n \in Node :
    Exists(n) /\ nodes[n].disabled => nodes'[n] # None /\ nodes'[n].disabled

RevokedStaysRevoked == [][postgres => KeepsRevoked]_vars

\* Rotate and Delete in Postgres: a token that was replaced or destroyed opens
\* no node, whatever was read before and is written after.
RetiredAreDead == \A n \in Node : Exists(n) => nodes[n].token \notin retired

RetiredTokensAreDead == postgres => RetiredAreDead

\* requireNode identifies a caller by its token or by its instance: in Postgres
\* neither names two nodes.
OneNodeEach ==
    \A n, m \in Node : Exists(n) /\ Exists(m) /\ n # m =>
        /\ nodes[n].token = nodes[m].token => nodes[n].token = NoToken
        /\ nodes[n].instance = nodes[m].instance => nodes[n].instance = NoInstance

NamesOneNode == postgres => OneNodeEach

\* The registry without a database: the one thing that can bring a revoked
\* node back is a heartbeat that authenticated before the node was revoked.
RevivedOnlyInFlight ==
    [][\A n \in Node : Exists(n) /\ nodes[n].disabled =>
          \/ nodes'[n].disabled
          \/ \E c \in Call : calls[c].st = "heartbeat" /\ calls[c].node = n]_vars

\* CreateKindForServer and Register in Postgres, where the look for the gates of a
\* server and the write are separate statements: a gate comes to a server that
\* has another one only by a call that some other gate's arrival overtook.
JoinsByOvertaken ==
    \A s \in Server : \A n, m \in Node :
        n # m /\ n \notin Gates(s) /\ n \in Gates(s)' /\ m \in Gates(s)' =>
            \E c \in overtaken : calls[c].server = s /\ calls'[c] = None

SecondGateOvertakes == [][postgres => JoinsByOvertaken]_vars

===============================================================================
