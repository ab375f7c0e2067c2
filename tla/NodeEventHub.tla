----------------------------- MODULE NodeEventHub -----------------------------
(***************************************************************************)
(* Core's websocket hub for nodes (server/node_events.go): the goroutines  *)
(* of serveNodeEvents, a writer and a reader per connection; pushes from   *)
(* any handler; and requests that wait for a node's answer.                *)
(*                                                                         *)
(* h.mu guards clients and pending.  A send into a client's buffered       *)
(* channel from broadcast or request never blocks; the one that pushes the *)
(* first sync, before the writer runs, does.                               *)
(***************************************************************************)
EXTENDS Naturals, Sequences

CONSTANTS
    Node,       \* nodes
    Conn,       \* bound: websocket connections ever opened
    NodeOf,     \* the node that authenticated on a connection
    Request,    \* bound: request ids ever used
    AskedOf,    \* the node a request is for
    Cap,        \* capacity of a client's channel: 8
    Sync        \* every push that asks for no answer

ASSUME HubAssumption ==
    /\ NodeOf \in [Conn -> Node]
    /\ AskedOf \in [Request -> Node]
    /\ Cap \in Nat \ {0}
    /\ Sync \notin Request
    /\ "nobody" \notin Node
    /\ "idle" \notin Request

VARIABLES
    serve,      \* where the goroutine of a connection is
    clients,    \* h.clients
    send,       \* the channels
    cut,        \* connections the network has lost
    reader,     \* the request whose channel a reader has just looked up
    pending,    \* h.pending: requests that have an entry
    answer,     \* the one place in a request's channel: who answered
    caller      \* where the caller of request is

vars == <<serve, clients, send, cut, reader, pending, answer, caller>>

Nobody == "nobody"

Idle == "idle"

\* "registered": in clients, first sync not pushed; "serving": in the loop;
\* "leaving": the loop has returned; "removed": out of clients; "closed":
\* the channel is closed.
Place == {"none", "registered", "serving", "leaving", "removed", "closed"}

\* "taken" and "expired": out of the select, the deferred delete is ahead.
Wait == {"none", "waiting", "taken", "expired", "answered", "failed"}

TypeOK ==
    /\ serve \in [Conn -> Place]
    /\ clients \subseteq Conn
    /\ send \in [Conn -> Seq(Request \cup {Sync})]
    /\ \A c \in Conn : Len(send[c]) <= Cap
    /\ cut \subseteq Conn
    /\ reader \in [Conn -> Request \cup {Idle}]
    /\ pending \subseteq Request
    /\ answer \in [Request -> Node \cup {Nobody}]
    /\ caller \in [Request -> Wait]

Init ==
    /\ serve = [c \in Conn |-> "none"]
    /\ clients = {}
    /\ send = [c \in Conn |-> << >>]
    /\ cut = {}
    /\ reader = [c \in Conn |-> Idle]
    /\ pending = {}
    /\ answer = [r \in Request |-> Nobody]
    /\ caller = [r \in Request |-> "none"]

(***************************************************************************)
(* Channels.                                                               *)
(***************************************************************************)
HasRoom(c) == Len(send[c]) < Cap

\* The clients of a node that a push reaches.
Reachable(n) == {c \in clients : NodeOf[c] = n /\ HasRoom(c)}

\* select { case client.send <- payload: default: } for each client.
Push(n, m) ==
    send' = [c \in Conn |-> IF c \in Reachable(n) THEN Append(send[c], m)
                                                  ELSE send[c]]

(***************************************************************************)
(* serveNodeEvents.                                                        *)
(***************************************************************************)
Register(c) ==
    /\ serve[c] = "none"
    /\ serve' = [serve EXCEPT ![c] = "registered"]
    /\ clients' = clients \cup {c}
    /\ UNCHANGED <<send, cut, reader, pending, answer, caller>>

\* client.send <- payload, with nobody receiving yet.
FirstSync(c) ==
    /\ serve[c] = "registered"
    /\ HasRoom(c)
    /\ send' = [send EXCEPT ![c] = Append(@, Sync)]
    /\ serve' = [serve EXCEPT ![c] = "serving"]
    /\ UNCHANGED <<clients, cut, reader, pending, answer, caller>>

Write(c) ==
    /\ serve[c] = "serving"
    /\ send[c] # << >>
    /\ send' = [send EXCEPT ![c] = Tail(@)]
    /\ UNCHANGED <<serve, clients, cut, reader, pending, answer, caller>>

\* The network drops the connection: Receive and Write fail from now on.
Cut(c) ==
    /\ serve[c] \in {"registered", "serving"}
    /\ c \notin cut
    /\ cut' = cut \cup {c}
    /\ UNCHANGED <<serve, clients, send, reader, pending, answer, caller>>

\* Fault: the reader's end is not noticed, only a push that fails.
LeaveOnFailedPush(c) ==
    /\ serve[c] = "serving"
    /\ c \in cut
    /\ send[c] # << >>
    /\ serve' = [serve EXCEPT ![c] = "leaving"]
    /\ UNCHANGED <<clients, send, cut, reader, pending, answer, caller>>

\* done is closed, or a write failed.
LeaveLoop(c) ==
    /\ serve[c] = "serving"
    /\ c \in cut
    /\ serve' = [serve EXCEPT ![c] = "leaving"]
    /\ UNCHANGED <<clients, send, cut, reader, pending, answer, caller>>

\* Fault: close(client.send) before the client is out of the map.
CloseFirst(c) ==
    /\ serve[c] = "leaving"
    /\ serve' = [serve EXCEPT ![c] = "closed"]
    /\ UNCHANGED <<clients, send, cut, reader, pending, answer, caller>>

\* unregister, under the lock ...
Remove(c) ==
    /\ serve[c] = "leaving"
    /\ serve' = [serve EXCEPT ![c] = "removed"]
    /\ clients' = clients \ {c}
    /\ UNCHANGED <<send, cut, reader, pending, answer, caller>>

\* ... and close(client.send) after it.
Close(c) ==
    /\ serve[c] = "removed"
    /\ serve' = [serve EXCEPT ![c] = "closed"]
    /\ UNCHANGED <<clients, send, cut, reader, pending, answer, caller>>

(***************************************************************************)
(* Pushes and requests, from any handler of Core.                          *)
(***************************************************************************)
Broadcast(n) ==
    /\ Push(n, Sync)
    /\ UNCHANGED <<serve, clients, cut, reader, pending, answer, caller>>

\* Fault: the entry stays when nobody could be asked.
AskLeaks(r) ==
    /\ caller[r] = "none"
    /\ Push(AskedOf[r], r)
    /\ pending' = pending \cup {r}
    /\ caller' = [caller EXCEPT ![r] =
            IF Reachable(AskedOf[r]) = {} THEN "failed" ELSE "waiting"]
    /\ UNCHANGED <<serve, clients, cut, reader, answer>>

\* request up to its select; no live client is an error at once.
Ask(r) ==
    /\ caller[r] = "none"
    /\ Push(AskedOf[r], r)
    /\ IF Reachable(AskedOf[r]) = {}
       THEN /\ caller' = [caller EXCEPT ![r] = "failed"]
            /\ UNCHANGED pending
       ELSE /\ caller' = [caller EXCEPT ![r] = "waiting"]
            /\ pending' = pending \cup {r}
    /\ UNCHANGED <<serve, clients, cut, reader, answer>>

\* Fault: a caller whose time is up still takes an answer that comes in.
TakeLateAnswer(r) ==
    /\ caller[r] \in {"waiting", "expired"}
    /\ answer[r] # Nobody
    /\ caller' = [caller EXCEPT ![r] = "taken"]
    /\ UNCHANGED <<serve, clients, send, cut, reader, pending, answer>>

TakeAnswer(r) ==
    /\ caller[r] = "waiting"
    /\ answer[r] # Nobody
    /\ caller' = [caller EXCEPT ![r] = "taken"]
    /\ UNCHANGED <<serve, clients, send, cut, reader, pending, answer>>

\* The context is done; with an answer at hand, select picks either.
GiveUp(r) ==
    /\ caller[r] = "waiting"
    /\ caller' = [caller EXCEPT ![r] = "expired"]
    /\ UNCHANGED <<serve, clients, send, cut, reader, pending, answer>>

\* The deferred delete of the entry.
Forget(r) ==
    /\ caller[r] \in {"taken", "expired"}
    /\ caller' = [caller EXCEPT ![r] =
            IF @ = "taken" THEN "answered" ELSE "failed"]
    /\ pending' = pending \ {r}
    /\ UNCHANGED <<serve, clients, send, cut, reader, answer>>

(***************************************************************************)
(* The reader: handleNodeEventClientMessage.  A node may send any request  *)
(* id, as often and as late as it likes; a request went to every           *)
(* connection of its node.                                                 *)
(***************************************************************************)
\* Fault: the key of pending is the request id alone.
FoundByIdAlone(c, r) == r \in pending

\* nodeEventRequestKey: the entry of this node and this request id.
Found(c, r) == r \in pending /\ AskedOf[r] = NodeOf[c]

\* resolve looks the channel up under the lock.  The reader is not waited for:
\* it may be busy with its last message when the connection is long gone ...
LookUp(c, r) ==
    /\ serve[c] \notin {"none", "registered"}
    /\ reader[c] = Idle
    /\ Found(c, r)
    /\ reader' = [reader EXCEPT ![c] = r]
    /\ UNCHANGED <<serve, clients, send, cut, pending, answer, caller>>

\* ... and sends without it: a second answer finds no room and is dropped.
Resolve(c) ==
    /\ reader[c] # Idle
    /\ answer' = [answer EXCEPT ![reader[c]] =
            IF @ = Nobody THEN NodeOf[c] ELSE @]
    /\ reader' = [reader EXCEPT ![c] = Idle]
    /\ UNCHANGED <<serve, clients, send, cut, pending, caller>>

(***************************************************************************)
(* Specification.                                                          *)
(***************************************************************************)
Next ==
    \/ \E c \in Conn :
          \/ Register(c) \/ FirstSync(c) \/ Write(c) \/ Cut(c)
          \/ LeaveLoop(c) \/ Remove(c) \/ Close(c)
          \/ \E r \in Request : LookUp(c, r)
          \/ Resolve(c)
    \/ \E n \in Node : Broadcast(n)
    \/ \E r \in Request : Ask(r) \/ TakeAnswer(r) \/ GiveUp(r) \/ Forget(r)

Spec == Init /\ [][Next]_vars

\* Goroutines run; a request's context ends (1.5 seconds) and its caller goes on.
Fairness ==
    /\ \A c \in Conn :
          WF_vars(FirstSync(c) \/ LeaveLoop(c) \/ Remove(c) \/ Close(c))
    /\ \A r \in Request : WF_vars(GiveUp(r) \/ TakeAnswer(r)) /\ WF_vars(Forget(r))

FairSpec == Spec /\ Fairness

(***************************************************************************)
(* Properties.                                                             *)
(***************************************************************************)
\* unregister against broadcast and request: whatever is in the map of clients
\* has an open channel, so that no push ever sends on a closed one, which
\* would bring Core down.
ClientsAreOpen == \A c \in clients : serve[c] \in {"registered", "serving", "leaving"}

\* resolve: the answer a caller gets is one of the node it asked, however many
\* connections answer, late or with another node's request id.
AnsweredByNodeAsked ==
    \A r \in Request :
        /\ answer[r] \in {Nobody, AskedOf[r]}
        /\ caller[r] \in {"taken", "answered"} => answer[r] = AskedOf[r]

\* request: an entry of pending lives as long as its caller waits, on every
\* way out; none is left behind.
PendingIsAwaited ==
    pending = {r \in Request : caller[r] \in {"waiting", "taken", "expired"}}

\* What has become of a request for its caller, and who answered it: decided
\* when the caller leaves the select, whatever reaches the channel later.
OutcomeOf(r) ==
    CASE caller[r] = "none" -> "none"
      [] caller[r] = "waiting" -> "open"
      [] caller[r] \in {"taken", "answered"} -> "answered"
      [] caller[r] \in {"expired", "failed"} -> "failed"

AnswererOf(r) == IF OutcomeOf(r) = "answered" THEN answer[r] ELSE Nobody

Questions == INSTANCE NodeQuestions WITH
    outcome <- [r \in Request |-> OutcomeOf(r)],
    by <- [r \in Request |-> AnswererOf(r)]

\* request and resolve over the connections of the nodes: each question is
\* decided once and for all, answered by the node that was asked or given up,
\* whatever late, double or foreign answers the readers deliver.
ImplementsQuestions == Questions!Spec

\* serveNodeEvents: a lost connection is taken out of the hub, unless its
\* goroutine waits for room to push the first sync into a full channel.
Wedged(c) == serve[c] = "registered" /\ ~HasRoom(c)

LostConnectionForgotten == \A c \in Conn : c \in cut ~> (serve[c] = "closed" \/ Wedged(c))

===============================================================================
