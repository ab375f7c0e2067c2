------------------------------ MODULE NodeAccess ------------------------------
(***************************************************************************)
(* What becomes of a Velocity gate when Core revokes its node.  Core       *)
(* refuses every later call of the node and tries once to tell it over the *)
(* websocket, which stays open; the plugin keeps one flag, set by refusals *)
(* and by that message, and cleared by every accepted heartbeat and by     *)
(* every other message that comes over the websocket.                      *)
(*                                                                         *)
(* Core answers with the same status when it fails itself, and the plugin  *)
(* cannot tell: such an answer locks a gate nobody revoked.                *)
(*                                                                         *)
(* A heartbeat is sent by the loop, by a reload and after a change of the  *)
(* runtime, so that several may be under way.  Pings do not pass through   *)
(* the client's channel and may overtake what waits there.                 *)
(***************************************************************************)
EXTENDS Naturals, Sequences

CONSTANTS
    Beat,      \* bound: heartbeats under way
    Player,    \* connections; each logs in once
    Cap        \* capacity of the client's channel: 8

ASSUME AccessAssumption == Cap \in Nat \ {0}

VARIABLES
    revoked,   \* Core: the node's row is disabled
    notice,    \* Core: pushNodeRevoked of the revoking handler is ahead
    socket,    \* the websocket
    chan,      \* what waits in the client's channel
    beat,      \* heartbeats
    locked,    \* plugin: coreAccessRevoked
    st,        \* where a connection is
    attempt,   \* BootstrapGate: the attempt has an admission generation
    call,      \* the call of Core on behalf of a connection
    late,      \* history: connections that came in after the revocation
    mistaken   \* history: the lock comes from a failure inside Core

vars == <<revoked, notice, socket, chan, beat, locked, st, attempt, call, late, mistaken>>

coreVars == <<revoked, notice>>
socketVars == <<socket, chan>>
lockVars == <<locked, mistaken>>
playerVars == <<st, attempt, call, late>>

\* serveNodeEvents: requireNode has let the node in, the client is registered,
\* the first sync is in the channel and the loop runs.
Socket == {"down", "granted", "registered", "up"}

\* What Core answers with 401 or 403, which the plugin takes for a revocation:
\* the node is revoked, or the lookup, the write or the registration failed.
Refusal == {"refused", "failed"}

Answer == {"idle", "sent", "ok"} \cup Refusal

Stage == {"none", "profile", "resolved", "pending", "validating", "allowed",
          "playing", "gone"}

TypeOK ==
    /\ revoked \in BOOLEAN
    /\ notice \in BOOLEAN
    /\ socket \in Socket
    /\ chan \in Seq({"sync", "revoked"}) /\ Len(chan) <= Cap
    /\ beat \in [Beat -> Answer]
    /\ locked \in BOOLEAN
    /\ st \in [Player -> Stage]
    /\ attempt \in [Player -> BOOLEAN]
    /\ call \in [Player -> Answer]
    /\ late \subseteq Player
    /\ mistaken \in BOOLEAN

Init ==
    /\ revoked = FALSE
    /\ notice = FALSE
    /\ socket = "down"
    /\ chan = << >>
    /\ beat = [b \in Beat |-> "idle"]
    /\ locked = FALSE
    /\ st = [p \in Player |-> "none"]
    /\ attempt = [p \in Player |-> FALSE]
    /\ call = [p \in Player |-> "idle"]
    /\ late = {}
    /\ mistaken = FALSE

(***************************************************************************)
(* Core.                                                                   *)
(***************************************************************************)
\* Fault: the disabled flag is not looked at.
VerdictForAnyone == "ok"

\* requireNode and Heartbeat, as long as Core's store works.
Verdict == IF revoked THEN "refused" ELSE "ok"

\* broadcast: a full channel loses the message.
Pushed(m) ==
    IF socket \in {"registered", "up"} /\ Len(chan) < Cap
    THEN Append(chan, m) ELSE chan

\* handleAdminDisableNode and handleAdminDeleteNode ...
Revoke ==
    /\ ~revoked
    /\ revoked' = TRUE
    /\ notice' = TRUE
    /\ UNCHANGED <<socketVars, beat, lockVars, playerVars>>

\* ... tell the node.
PushRevoked ==
    /\ notice
    /\ notice' = FALSE
    /\ chan' = Pushed("revoked")
    /\ UNCHANGED <<revoked, socket, beat, lockVars, playerVars>>

\* pushNodeSync and pushAllNodeSync, whose list has the revoked nodes too.
PushSync ==
    /\ chan' = Pushed("sync")
    /\ UNCHANGED <<coreVars, socket, beat, lockVars, playerVars>>

\* serveNodeEvents; a refused node gets an error message, which the plugin
\* hands to its runtime and forgets.
Connect ==
    /\ socket = "down"
    /\ Verdict = "ok"
    /\ socket' = "granted"
    /\ UNCHANGED <<coreVars, chan, beat, lockVars, playerVars>>

RegisterClient ==
    /\ socket = "granted"
    /\ socket' = "registered"
    /\ UNCHANGED <<coreVars, chan, beat, lockVars, playerVars>>

FirstSync ==
    /\ socket = "registered"
    /\ Len(chan) < Cap
    /\ socket' = "up"
    /\ chan' = Append(chan, "sync")
    /\ UNCHANGED <<coreVars, beat, lockVars, playerVars>>

Disconnect ==
    /\ socket # "down"
    /\ socket' = "down"
    /\ chan' = << >>
    /\ UNCHANGED <<coreVars, beat, lockVars, playerVars>>

(***************************************************************************)
(* AuthmanBootstrapPlugin: onEventMessage and sendHeartbeat.               *)
(***************************************************************************)
\* lockCoreAccess for one of these reasons, or access restored.
LockIf(reasons) ==
    /\ locked' = (reasons # {})
    /\ mistaken' = (reasons \cap {"failed"} # {})

Deliver ==
    /\ socket = "up"
    /\ chan # << >>
    /\ LockIf({Head(chan)} \cap {"revoked"})
    /\ chan' = Tail(chan)
    /\ UNCHANGED <<coreVars, socket, beat, playerVars>>

Ping ==
    /\ socket = "up"
    /\ LockIf({})
    /\ UNCHANGED <<coreVars, socketVars, beat, playerVars>>

SendHeartbeat(b) ==
    /\ beat[b] = "idle"
    /\ beat' = [beat EXCEPT ![b] = "sent"]
    /\ UNCHANGED <<coreVars, socketVars, lockVars, playerVars>>

AnswerHeartbeat(b) ==
    /\ beat[b] = "sent"
    /\ beat' = [beat EXCEPT ![b] = Verdict]
    /\ UNCHANGED <<coreVars, socketVars, lockVars, playerVars>>

\* Core's store fails under Register, Heartbeat or Authenticate.
FailHeartbeat(b) ==
    /\ beat[b] = "sent"
    /\ beat' = [beat EXCEPT ![b] = "failed"]
    /\ UNCHANGED <<coreVars, socketVars, lockVars, playerVars>>

\* Fault: whatever goes wrong locks the gate.
LoseHeartbeatLocks(b) ==
    /\ beat[b] # "idle"
    /\ beat' = [beat EXCEPT ![b] = "idle"]
    /\ locked' = TRUE
    /\ UNCHANGED <<coreVars, socketVars, mistaken, playerVars>>

\* Core is out of reach: an exception, and nothing is known.
LoseHeartbeat(b) ==
    /\ beat[b] # "idle"
    /\ beat' = [beat EXCEPT ![b] = "idle"]
    /\ UNCHANGED <<coreVars, socketVars, lockVars, playerVars>>

\* Fault: 401 and 403 are treated like any other failure.
HeartbeatShrugs(b) ==
    /\ beat[b] \in {"ok"} \cup Refusal
    /\ beat' = [beat EXCEPT ![b] = "idle"]
    /\ LockIf(IF locked /\ beat[b] # "ok" THEN {"refused"} ELSE {})
    /\ UNCHANGED <<coreVars, socketVars, playerVars>>


HeartbeatReply(b) ==
    /\ beat[b] \in {"ok"} \cup Refusal
    /\ beat' = [beat EXCEPT ![b] = "idle"]
    /\ LockIf({beat[b]} \cap Refusal)
    /\ UNCHANGED <<coreVars, socketVars, playerVars>>

(***************************************************************************)
(* Connections: the events of DownstreamAuthListener and BootstrapGate     *)
(* that look at the lock, and the calls that may be refused.               *)
(***************************************************************************)
OnProxy(p) == st[p] \in {"pending", "validating", "allowed", "playing"}

LetThrough(p) == st[p] \in {"allowed", "playing"}

\* onGameProfileRequest of both: a locked gate asks nobody.
GameProfileRequest(p) ==
    /\ st[p] = "none"
    /\ st' = [st EXCEPT ![p] = IF locked THEN "resolved" ELSE "profile"]
    /\ call' = [call EXCEPT ![p] = IF locked THEN "idle" ELSE "sent"]
    /\ attempt' = [attempt EXCEPT ![p] = ~locked]
    /\ late' = IF revoked THEN late \cup {p} ELSE late
    /\ UNCHANGED <<coreVars, socketVars, beat, lockVars>>

\* onLogin of both.
LoginEvent(p) ==
    /\ st[p] = "resolved"
    /\ st' = [st EXCEPT ![p] = IF locked \/ ~attempt[p] THEN "gone" ELSE "pending"]
    /\ UNCHANGED <<coreVars, socketVars, beat, lockVars, attempt, call, late>>

\* onCookieReceive up to the consume call.
CookieReceive(p) ==
    /\ st[p] = "pending"
    /\ st' = [st EXCEPT ![p] = IF locked THEN "gone" ELSE "validating"]
    /\ call' = [call EXCEPT ![p] = IF locked THEN "idle" ELSE "sent"]
    /\ UNCHANGED <<coreVars, socketVars, beat, lockVars, attempt, late>>

\* onServerPreConnect: the first server and every change of server.
ServerPreConnect(p) ==
    /\ st[p] \in {"allowed", "playing"}
    /\ st' = [st EXCEPT ![p] = IF locked THEN "gone" ELSE "playing"]
    /\ UNCHANGED <<coreVars, socketVars, beat, lockVars, attempt, call, late>>

\* A command of a player that calls Core.
Command(p) ==
    /\ st[p] = "playing"
    /\ call[p] = "idle"
    /\ ~locked
    /\ call' = [call EXCEPT ![p] = "sent"]
    /\ UNCHANGED <<coreVars, socketVars, beat, lockVars, st, attempt, late>>

\* onDisconnect: a connection that was let through has a presence to end.
Leave(p) ==
    /\ OnProxy(p)
    /\ st' = [st EXCEPT ![p] = "gone"]
    /\ call' = [call EXCEPT ![p] =
            IF LetThrough(p) THEN "sent" ELSE @]
    /\ UNCHANGED <<coreVars, socketVars, beat, lockVars, attempt, late>>

AnswerCall(p) ==
    /\ call[p] = "sent"
    /\ call' = [call EXCEPT ![p] = Verdict]
    /\ UNCHANGED <<coreVars, socketVars, beat, lockVars, st, attempt, late>>

\* The lookup of requireNode fails, or does not find the node yet.
FailCall(p) ==
    /\ call[p] = "sent"
    /\ call' = [call EXCEPT ![p] = "failed"]
    /\ UNCHANGED <<coreVars, socketVars, beat, lockVars, st, attempt, late>>

\* Where a connection goes from here when its call is over.
Proceed(p, then) ==
    [st EXCEPT ![p] = IF @ = "profile" THEN "resolved"
                      ELSE IF @ = "validating" THEN then ELSE @]

CallAccepted(p) ==
    /\ call[p] = "ok"
    /\ st' = Proceed(p, "allowed")
    /\ call' = [call EXCEPT ![p] = "idle"]
    /\ UNCHANGED <<coreVars, socketVars, beat, lockVars, attempt, late>>

\* A time-out, or a refusal that has nothing to do with the node.
CallFails(p) ==
    /\ call[p] # "idle"
    /\ st' = Proceed(p, "gone")
    /\ call' = [call EXCEPT ![p] = "idle"]
    /\ UNCHANGED <<coreVars, socketVars, beat, lockVars, attempt, late>>

\* lockIfCoreRejected, lockFromCore: everybody on the proxy is dropped, and
\* their onDisconnect runs.
CallRefused(p) ==
    /\ call[p] \in Refusal
    /\ LockIf({call[p]})
    /\ st' = [q \in Player |-> IF OnProxy(q) THEN "gone" ELSE Proceed(p, "gone")[q]]
    /\ call' = [q \in Player |->
            IF LetThrough(q) THEN "sent" ELSE IF q = p THEN "idle" ELSE call[q]]
    /\ UNCHANGED <<coreVars, socketVars, beat, attempt, late>>

(***************************************************************************)
(* Specification.                                                          *)
(***************************************************************************)
CoreNext == Revoke \/ PushRevoked \/ PushSync

SocketNext == Connect \/ RegisterClient \/ FirstSync \/ Disconnect \/ Deliver \/ Ping

BeatNext ==
    \E b \in Beat : \/ SendHeartbeat(b) \/ AnswerHeartbeat(b) \/ FailHeartbeat(b)
                    \/ LoseHeartbeat(b) \/ HeartbeatReply(b)

PlayerNext ==
    \E p \in Player :
        \/ GameProfileRequest(p) \/ LoginEvent(p) \/ CookieReceive(p)
        \/ ServerPreConnect(p) \/ Command(p) \/ Leave(p)
        \/ AnswerCall(p) \/ FailCall(p) \/ CallAccepted(p) \/ CallFails(p) \/ CallRefused(p)

Next == CoreNext \/ SocketNext \/ BeatNext \/ PlayerNext

Spec == Init /\ [][Next]_vars

\* The heartbeat loop runs, and of heartbeats sent for ever some are answered
\* by a store that works, and their answers arrive.
HeartbeatFairness ==
    /\ WF_vars(\E b \in Beat : SendHeartbeat(b))
    /\ SF_vars(\E b \in Beat : AnswerHeartbeat(b))
    /\ \A a \in {"ok"} \cup Refusal :
          SF_vars(\E b \in Beat : beat[b] = a /\ HeartbeatReply(b))

HeartbeatSpec == Spec /\ HeartbeatFairness

\* Core's handlers run, and messages, answers and events at hand are handled.
Fairness ==
    /\ HeartbeatFairness
    /\ WF_vars(PushRevoked)
    /\ WF_vars(Deliver)
    /\ \A p \in Player :
          /\ WF_vars(AnswerCall(p) \/ CallAccepted(p) \/ CallRefused(p))
          /\ WF_vars(LoginEvent(p))
          /\ WF_vars(st[p] = "allowed" /\ ServerPreConnect(p))

FairSpec == Spec /\ Fairness

(***************************************************************************)
(* Properties.                                                             *)
(***************************************************************************)
\* requireNode behind a gate that does not know of its revocation yet, or was
\* unlocked again by a message: nobody who came in after the revocation is
\* let through.
NobodyAdmittedLate == \A p \in late : ~LetThrough(p)

\* sendHeartbeat and lockIfCoreRejected: a gate nobody revoked is locked only
\* by an answer that Core gave while it failed itself, never because Core
\* could not be reached or a message was lost.
LockedOnlyIfRevoked == locked => revoked \/ mistaken


\* The heartbeat loop: a revoked gate is locked again and again, whatever
\* messages unlock it in between and although the notice may be lost.
RevokedGateLocks == []<>(revoked => locked)

\* A revoked gate loses its players.
RevokedGateEmpties == revoked ~> \A p \in Player : st[p] # "playing"

===============================================================================
