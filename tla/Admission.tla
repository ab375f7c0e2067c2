------------------------------ MODULE Admission ------------------------------
(***************************************************************************)
(* How a player gets onto a downstream server and off it again.  Composes  *)
(* Core's store (CoreStore) and the Velocity gates (VelocityGate) with     *)
(* Core's HTTP handlers for nodes and administrators, the presence         *)
(* reconcile loop, and the queue of node actions.                          *)
(*                                                                         *)
(* A handler is a record with a program counter: between two calls of the  *)
(* store any other handler, gate event or timer may run.  The answer of a  *)
(* handler travels; the gate may stop waiting for it, and acknowledgements *)
(* of node actions may be lost.                                            *)
(***************************************************************************)
EXTENDS CoreStore, VelocityGate

CONSTANTS
    Req,         \* bound: consume requests in flight
    Admin,       \* bound: administrator requests in flight
    Reconciler,  \* the presence reconcile loop
    Reconciles,  \* whether it runs: PresenceReconcileInterval is positive
    ActionsLapse \* whether a node action may expire before the gate's sync

ASSUME AdmissionAssumption ==
    /\ Reconciler \notin Req
    /\ Reconciles \in BOOLEAN
    /\ ActionsLapse \in BOOLEAN

VARIABLES
    reqs,        \* running handleNodeConsumeTransferGrant calls
    probe,       \* websocket presence checks, by who asks
    sweep,       \* presences the reconcile loop still has to check
    acks,        \* acknowledgements of node actions, in flight
    admin        \* running ban and kick handlers

handlerVars == <<reqs, probe, sweep, acks, admin>>

vars == <<storeVars, gateVars, handlerVars>>

(***************************************************************************)
(* Types.                                                                  *)
(***************************************************************************)
Idle == [st |-> "idle"]

\* "sent": on the way to Core; "burned": grant consumed; "cleared": ban check
\* passed; "refresh": conflicting presences are being checked; "insert":
\* about to create the presence; "relist": creating it failed; "ok" and
\* "rejected": the answer; "accepting": the gate is halfway through it.
\* "standing" is a history of the bans that were active when the request
\* began and have been ever since.
Stage == {"sent", "burned", "cleared", "refresh", "insert", "relist", "ok",
          "accepting", "rejected"}

ReqRec == [st : Stage,
           waiting : BOOLEAN, sess : Session, slot : Slot, swap : Nat,
           grant : Grant, round : {1, 2}, todo : SUBSET Presence,
           fallback : SUBSET Presence, presence : Presence \cup {NoPresence},
           standing : SUBSET Ban]

ProbeRec == [st : {"asked", "online", "offline"}, presence : Presence]

AdminRec == [st : {"list", "end"}, target : Target]
              \cup [st : {"kicked"}, presence : Presence]

Ack == [action : NodeAction, absent : BOOLEAN]

TypeOK ==
    /\ StoreTypeOK
    /\ GateTypeOK
    /\ reqs \in [Req -> ReqRec \cup {Idle}]
    /\ probe \in [Req \cup {Reconciler} -> ProbeRec \cup {Idle}]
    /\ sweep \subseteq Presence
    /\ acks \subseteq Ack
    /\ admin \in [Admin -> AdminRec \cup {Idle}]

Init ==
    /\ StoreInit
    /\ GateInit
    /\ reqs = [r \in Req |-> Idle]
    /\ probe = [o \in Req \cup {Reconciler} |-> Idle]
    /\ sweep = {}
    /\ acks = {}
    /\ admin = [a \in Admin |-> Idle]

(***************************************************************************)
(* A portal node has a grant issued: writeNodeTransferGrant.  A ban that   *)
(* starts between its ban check and SaveTransferGrant is as one that       *)
(* starts right after, so the handler is one step.                         *)
(***************************************************************************)
IssueGrant(g, u, pp, s) ==
    /\ ~ActiveBanFor(u, pp)
    /\ SaveTransferGrant(g, u, pp, s)
    /\ UNCHANGED <<presences, bans, actions, gateVars, handlerVars>>

GrantExpires(g) ==
    /\ ExpireGrant(g)
    /\ UNCHANGED <<presences, bans, actions, gateVars, handlerVars>>

(***************************************************************************)
(* Gate events that do not involve Core.                                   *)
(***************************************************************************)
Login(c, x) == OnLogin(c, x) /\ UNCHANGED <<storeVars, handlerVars>>

CookieMissing(c) == OnCookieMissing(c) /\ UNCHANGED <<storeVars, handlerVars>>

TimedOut(c) == ValidationTimeout(c) /\ UNCHANGED <<storeVars, handlerVars>>

Leave(c) == ConnectionLost(c) /\ UNCHANGED <<storeVars, handlerVars>>

DisconnectEvent(c) ==
    /\ OnDisconnectSets(c) \/ OnDisconnectPresence(c)
    /\ UNCHANGED <<storeVars, handlerVars>>

ReplaceRuntime(n) == RuntimeSwap(n) /\ UNCHANGED <<storeVars, handlerVars>>

(***************************************************************************)
(* Consuming a grant: handleNodeConsumeTransferGrant, one step per call of *)
(* the store.  The client presents a token it was given at some time, used *)
(* or not, its own or not.                                                 *)
(***************************************************************************)
CookieReceive(c, g, r) ==
    /\ grants[g] # None
    /\ reqs[r] = Idle
    /\ OnCookieReceive(c)
    /\ reqs' = [reqs EXCEPT ![r] =
            [st |-> "sent", waiting |-> TRUE, sess |-> c, slot |-> sess[c].slot,
             swap |-> swaps[sess[c].slot[1]], grant |-> g, round |-> 1,
             todo |-> {}, fallback |-> {}, presence |-> NoPresence,
             standing |-> BansOn(grants[g].profile, grants[g].passport)]]
    /\ UNCHANGED <<storeVars, probe, sweep, acks, admin>>

\* The server is unknown or closed, the portal is not an allowed source, the
\* token does not fit, or the call never reaches Core.
Refuse(r) ==
    /\ reqs[r].st = "sent"
    /\ reqs' = [reqs EXCEPT ![r].st = "rejected"]
    /\ UNCHANGED <<storeVars, gateVars, probe, sweep, acks, admin>>

Consume(r) ==
    /\ reqs[r].st = "sent"
    /\ ConsumeTransferGrant(reqs[r].grant, reqs[r].slot[2],
                            ServerOf[reqs[r].slot[1]])
    /\ reqs' = [reqs EXCEPT ![r].st = "burned"]
    /\ UNCHANGED <<presences, bans, actions, gateVars, probe, sweep, acks, admin>>

\* The profile is gone, not bound to the passport any more, or locked, or
\* the server is hidden from it: the grant stays burned.
RefuseIdentity(r) ==
    /\ reqs[r].st = "burned"
    /\ reqs' = [reqs EXCEPT ![r].st = "rejected"]
    /\ UNCHANGED <<storeVars, gateVars, probe, sweep, acks, admin>>

CheckBan(r) ==
    /\ reqs[r].st = "burned"
    /\ reqs' = [reqs EXCEPT ![r].st =
            IF ActiveBanFor(grants[reqs[r].grant].profile,
                            grants[reqs[r].grant].passport)
            THEN "rejected" ELSE "cleared"]
    /\ UNCHANGED <<storeVars, gateVars, probe, sweep, acks, admin>>

\* The active presences that stand in the way of this request.
Conflicts(r) == ActivePresencesFor(reqs[r].slot[2], ServerOf[reqs[r].slot[1]])

ListExisting(r) ==
    /\ reqs[r].st = "cleared"
    /\ reqs' = [reqs EXCEPT ![r] = [@ EXCEPT
            !.st = IF Conflicts(r) = {} THEN "insert" ELSE "refresh",
            !.todo = Conflicts(r)]]
    /\ UNCHANGED <<storeVars, gateVars, probe, sweep, acks, admin>>

\* refreshProfileServerPresenceConflict once every conflict was asked about:
\* checks that got no answer are queued, and what is left is listed again.
RefreshDone(r) ==
    /\ reqs[r].st = "refresh"
    /\ reqs[r].todo = {}
    /\ EnqueueNodeActions("presence_check", reqs[r].fallback)
    /\ reqs' = [reqs EXCEPT ![r] = [@ EXCEPT
            !.st = IF Conflicts(r) = {} THEN "insert" ELSE "rejected",
            !.fallback = {}]]
    /\ UNCHANGED <<grants, presences, bans, gateVars, probe, sweep, acks, admin>>

Insert(r, p) ==
    /\ reqs[r].st = "insert"
    /\ UpsertPresence(p, reqs[r].slot[2], grants[reqs[r].grant].passport,
                      ServerOf[reqs[r].slot[1]], reqs[r].slot[1], reqs[r].grant)
    /\ reqs' = [reqs EXCEPT ![r] = [@ EXCEPT !.st = "ok", !.presence = p]]
    /\ UNCHANGED <<grants, bans, actions, gateVars, probe, sweep, acks, admin>>

\* UpsertPresence fails, for a conflict or for the database: the first time
\* the conflict is looked at once more.
InsertFails(r) ==
    /\ reqs[r].st = "insert"
    /\ reqs' = [reqs EXCEPT
            ![r].st = IF reqs[r].round = 1 THEN "relist" ELSE "rejected"]
    /\ UNCHANGED <<storeVars, gateVars, probe, sweep, acks, admin>>

Relist(r) ==
    /\ reqs[r].st = "relist"
    /\ reqs' = [reqs EXCEPT ![r] = [@ EXCEPT
            !.st = IF Conflicts(r) = {} THEN "rejected" ELSE "refresh",
            !.round = 2,
            !.todo = Conflicts(r)]]
    /\ UNCHANGED <<storeVars, gateVars, probe, sweep, acks, admin>>

(***************************************************************************)
(* The answer reaches the gate, or the gate stopped waiting.               *)
(***************************************************************************)
\* The listener that sent the request is still the registered one.
Current(r) == swaps[reqs[r].slot[1]] = reqs[r].swap

ReplyRejected(r) ==
    /\ reqs[r].st = "rejected"
    /\ reqs[r].waiting
    /\ RejectWith(reqs[r].sess, reqs[r].slot, Current(r))
    /\ reqs' = [reqs EXCEPT ![r] = Idle]
    /\ UNCHANGED <<storeVars, probe, sweep, acks, admin>>

\* Fault: the gate opens when Core does not answer.
GateFailsOpen(r) ==
    /\ reqs[r] # Idle
    /\ reqs[r].st \notin {"accepting", "rejected"}
    /\ reqs[r].waiting
    /\ AcceptAllow(reqs[r].slot)
    /\ reqs' = [reqs EXCEPT ![r].waiting = FALSE]
    /\ UNCHANGED <<storeVars, probe, sweep, acks, admin>>

\* The HTTP client times out while Core goes on with the request.
GateGivesUp(r) ==
    /\ reqs[r] # Idle
    /\ reqs[r].st \notin {"accepting", "rejected"}
    /\ reqs[r].waiting
    /\ RejectWith(reqs[r].sess, reqs[r].slot, Current(r))
    /\ reqs' = [reqs EXCEPT ![r].waiting = FALSE]
    /\ UNCHANGED <<storeVars, probe, sweep, acks, admin>>

ReplyAccepted(r) ==
    /\ reqs[r].st = "ok"
    /\ reqs[r].waiting
    /\ Current(r)
    /\ AcceptAllow(reqs[r].slot)
    /\ reqs' = [reqs EXCEPT ![r].st = "accepting"]
    /\ UNCHANGED <<storeVars, probe, sweep, acks, admin>>

RecordPresence(r) ==
    /\ reqs[r].st = "accepting"
    /\ Current(r)
    /\ AcceptRecord(reqs[r].sess, reqs[r].slot, reqs[r].presence)
    /\ reqs' = [reqs EXCEPT ![r] = Idle]
    /\ UNCHANGED <<storeVars, probe, sweep, acks, admin>>

\* Nobody waits, or the sets written to are those of a replaced listener.
DiscardReply(r) ==
    /\ \/ reqs[r].st \in {"ok", "rejected"} /\ ~reqs[r].waiting
       \/ reqs[r].st \in {"ok", "accepting"} /\ ~Current(r)
    /\ reqs' = [reqs EXCEPT ![r] = Idle]
    /\ UNCHANGED <<storeVars, gateVars, probe, sweep, acks, admin>>

(***************************************************************************)
(* Presence checks over the node websocket.                                *)
(***************************************************************************)
\* The live sessions that the node of presence p would answer for.
Holders(p) ==
    {c \in Matched(p) : presences[p] # None
        /\ sess[c].slot = <<presences[p].node, presences[p].profile>>}

ConflictAsk(r, p) ==
    /\ reqs[r].st = "refresh"
    /\ p \in reqs[r].todo
    /\ probe[r] = Idle
    /\ probe' = [probe EXCEPT ![r] = [st |-> "asked", presence |-> p]]
    /\ UNCHANGED <<storeVars, gateVars, reqs, sweep, acks, admin>>

\* reconcileActivePresences takes its list ...  It has room for 500, the
\* oldest on Postgres: any presence may have to wait for another list.
SweepStart ==
    /\ Reconciles
    /\ sweep = {}
    /\ probe[Reconciler] = Idle
    /\ sweep' \in SUBSET {p \in Presence : Active(p)}
    /\ UNCHANGED <<storeVars, gateVars, reqs, probe, acks, admin>>

\* ... and asks for one presence after the other.
SweepAsk(p) ==
    /\ p \in sweep
    /\ probe[Reconciler] = Idle
    /\ probe' = [probe EXCEPT ![Reconciler] = [st |-> "asked", presence |-> p]]
    /\ UNCHANGED <<storeVars, gateVars, reqs, sweep, acks, admin>>

GateAnswers(o) ==
    /\ probe[o].st = "asked"
    /\ probe' = [probe EXCEPT ![o].st =
            IF Holders(probe[o].presence) # {} THEN "online" ELSE "offline"]
    /\ UNCHANGED <<storeVars, gateVars, reqs, sweep, acks, admin>>

\* The asker goes on to its next presence; a request notes a failed check.
Advance(o, failed) ==
    /\ probe' = [probe EXCEPT ![o] = Idle]
    /\ sweep' = IF o = Reconciler THEN sweep \ {probe[o].presence} ELSE sweep
    /\ reqs' = [r \in Req |->
            IF r = o /\ reqs[r] # Idle
            THEN [reqs[r] EXCEPT
                    !.todo = @ \ {probe[o].presence},
                    !.fallback = @ \cup (IF failed THEN {probe[o].presence}
                                                   ELSE {})]
            ELSE reqs[r]]

\* processNodeActionAckResults on the answer: absence ends the presence.
ProbeAnswered(o) ==
    /\ probe[o].st \in {"online", "offline"}
    /\ IF probe[o].st = "offline" THEN EndPresence(probe[o].presence)
                                  ELSE UNCHANGED presences
    /\ Advance(o, FALSE)
    /\ UNCHANGED <<grants, bans, actions, gateVars, acks, admin>>

\* No live websocket, a full send buffer, or no answer within 1.5 seconds;
\* an answer that comes later finds no request and is dropped.
ProbeFails(o) ==
    /\ probe[o] # Idle
    /\ Advance(o, TRUE)
    /\ UNCHANGED <<storeVars, gateVars, acks, admin>>

(***************************************************************************)
(* The gate ends a presence, and works through the node actions it gets    *)
(* with every sync.  An unacknowledged action is delivered again.          *)
(***************************************************************************)
EndPresenceCall(p) ==
    /\ p \in ending
    /\ EndPresence(p)
    /\ ending' = ending \ {p}
    /\ UNCHANGED <<grants, bans, actions, handlerVars>>
    /\ UNCHANGED <<sess, pending, allowed, validating, gatePres, swaps, overtaken>>

\* Core is unreachable or the runtime is stopped before the task ran.
EndPresenceLost(p) ==
    /\ p \in ending
    /\ ending' = ending \ {p}
    /\ UNCHANGED <<storeVars, handlerVars>>
    /\ UNCHANGED <<sess, pending, allowed, validating, gatePres, swaps, overtaken>>

\* Fault: the action is acknowledged and not carried out.
AcknowledgeOnly(p) ==
    /\ <<"disconnect", p>> \in actions
    /\ acks' = acks \cup {[action |-> <<"disconnect", p>>, absent |-> FALSE]}
    /\ UNCHANGED <<storeVars, gateVars, reqs, probe, sweep, admin>>

ExecuteDisconnect(p) ==
    /\ <<"disconnect", p>> \in actions
    /\ Drop(Holders(p))
    /\ acks' = acks \cup {[action |-> <<"disconnect", p>>, absent |-> FALSE]}
    /\ UNCHANGED <<storeVars, reqs, probe, sweep, admin>>
    /\ UNCHANGED <<pending, allowed, validating, gatePres, ending, swaps, overtaken>>

ExecuteCheck(p) ==
    /\ <<"presence_check", p>> \in actions
    /\ acks' = acks \cup {[action |-> <<"presence_check", p>>,
                           absent |-> Holders(p) = {}]}
    /\ UNCHANGED <<storeVars, gateVars, reqs, probe, sweep, admin>>

\* handleNodeAckActions.
AckArrives(k) ==
    /\ k \in acks
    /\ IF k.absent THEN EndPresence(k.action[2]) ELSE UNCHANGED presences
    /\ AckNodeAction(k.action)
    /\ acks' = acks \ {k}
    /\ UNCHANGED <<grants, bans, gateVars, reqs, probe, sweep, admin>>

AckLost(k) ==
    /\ k \in acks
    /\ acks' = acks \ {k}
    /\ UNCHANGED <<storeVars, gateVars, reqs, probe, sweep, admin>>

ActionExpires(a) ==
    /\ ActionsLapse
    /\ ExpireAction(a)
    /\ UNCHANGED <<grants, presences, bans, gateVars, handlerVars>>

(***************************************************************************)
(* Administrators.                                                         *)
(***************************************************************************)
BanTarget(a, b, t) ==
    /\ admin[a] = Idle
    /\ CreateBan(b, t)
    /\ admin' = [admin EXCEPT ![a] = [st |-> "list", target |-> t]]
    /\ UNCHANGED <<grants, presences, actions, gateVars, reqs, probe, sweep, acks>>

KickTarget(a, t) ==
    /\ admin[a] = Idle
    /\ admin' = [admin EXCEPT ![a] = [st |-> "list", target |-> t]]
    /\ UNCHANGED <<storeVars, gateVars, reqs, probe, sweep, acks>>

\* The presences are listed and a disconnect is queued for each of them ...
ListAndDisconnect(a) ==
    /\ admin[a].st = "list"
    /\ EnqueueNodeActions("disconnect", ActivePresencesOf(admin[a].target))
    /\ admin' = [admin EXCEPT ![a].st = "end"]
    /\ UNCHANGED <<grants, presences, bans, gateVars, reqs, probe, sweep, acks>>

\* ... then whatever is active by now is ended.
EndListed(a) ==
    /\ admin[a].st = "end"
    /\ EndPresencesOf(admin[a].target)
    /\ admin' = [admin EXCEPT ![a] = Idle]
    /\ UNCHANGED <<grants, bans, actions, gateVars, reqs, probe, sweep, acks>>

KickPresence(a, p) ==
    /\ admin[a] = Idle
    /\ EndFinds(p)
    /\ EndPresence(p)
    /\ admin' = [admin EXCEPT ![a] = [st |-> "kicked", presence |-> p]]
    /\ UNCHANGED <<grants, bans, actions, gateVars, reqs, probe, sweep, acks>>

DisconnectKicked(a) ==
    /\ admin[a].st = "kicked"
    /\ EnqueueNodeActions("disconnect", {admin[a].presence})
    /\ admin' = [admin EXCEPT ![a] = Idle]
    /\ UNCHANGED <<grants, presences, bans, gateVars, reqs, probe, sweep, acks>>

\* A ban that ends no longer stands for any request.
NoLongerStanding(b) ==
    reqs' = [r \in Req |->
        IF reqs[r] = Idle THEN Idle ELSE [reqs[r] EXCEPT !.standing = @ \ {b}]]

BanExpires(b) ==
    /\ ExpireBan(b)
    /\ NoLongerStanding(b)
    /\ UNCHANGED <<grants, presences, actions, gateVars, probe, sweep, acks, admin>>

BanRevoked(b) ==
    /\ RevokeBan(b)
    /\ NoLongerStanding(b)
    /\ UNCHANGED <<grants, presences, actions, gateVars, probe, sweep, acks, admin>>

BanExtended(b) ==
    /\ ExtendBan(b)
    /\ UNCHANGED <<grants, presences, actions, gateVars, handlerVars>>

(***************************************************************************)
(* Specification.                                                          *)
(***************************************************************************)
PortalNext ==
    \E g \in Grant :
        \/ GrantExpires(g)
        \/ \E u \in Profile, pp \in Passport, s \in Server : IssueGrant(g, u, pp, s)

GateNext ==
    \/ \E c \in Session :
        \/ \E x \in Slot : Login(c, x)
        \/ CookieMissing(c)
        \/ TimedOut(c)
        \/ Leave(c)
        \/ DisconnectEvent(c)
        \/ \E g \in Grant, r \in Req : CookieReceive(c, g, r)
    \/ \E n \in Gate : ReplaceRuntime(n)

ConsumeStep(r) ==
    \/ Refuse(r)
    \/ Consume(r)
    \/ RefuseIdentity(r)
    \/ CheckBan(r)
    \/ ListExisting(r)
    \/ \E p \in Presence : ConflictAsk(r, p)
    \/ RefreshDone(r)
    \/ \E p \in Presence : Insert(r, p)
    \/ InsertFails(r)
    \/ Relist(r)
    \/ ReplyRejected(r)
    \/ GateGivesUp(r)
    \/ ReplyAccepted(r)
    \/ RecordPresence(r)
    \/ DiscardReply(r)

ConsumeNext == \E r \in Req : ConsumeStep(r)

PresenceNext ==
    \/ SweepStart
    \/ \E o \in Req \cup {Reconciler} :
        GateAnswers(o) \/ ProbeAnswered(o) \/ ProbeFails(o)
    \/ \E p \in Presence :
        \/ SweepAsk(p)
        \/ EndPresenceCall(p)
        \/ EndPresenceLost(p)
        \/ ExecuteDisconnect(p)
        \/ ExecuteCheck(p)
    \/ \E k \in acks : AckArrives(k) \/ AckLost(k)
    \/ \E a \in actions : ActionExpires(a)

AdminNext ==
    \/ \E a \in Admin :
        \/ \E b \in Ban, t \in Target : BanTarget(a, b, t)
        \/ \E t \in Target : KickTarget(a, t)
        \/ \E p \in Presence : KickPresence(a, p)
        \/ ListAndDisconnect(a)
        \/ EndListed(a)
        \/ DisconnectKicked(a)
    \/ \E b \in Ban : BanExpires(b) \/ BanRevoked(b) \/ BanExtended(b)

Next == PortalNext \/ GateNext \/ ConsumeNext \/ PresenceNext \/ AdminNext

Spec == Init /\ [][Next]_vars

(***************************************************************************)
(* Safety.                                                                 *)
(***************************************************************************)
\* ConsumeTransferGrant and the handler around it: a grant opens at most one
\* presence, whatever consumes run at once and however often the token is
\* presented; the presence is for the profile, passport and server the grant
\* was issued for, on a gate of that server.
PresenceBackedByGrant ==
    \A p \in Presence : presences[p] # None =>
        LET row == presences[p] IN
        /\ grants[row.grant].st = "consumed"
        /\ grants[row.grant].profile = row.profile
        /\ grants[row.grant].passport = row.passport
        /\ grants[row.grant].server = row.server
        /\ ServerOf[row.node] = row.server
        /\ \A q \in Presence \ {p} :
              presences[q] # None => presences[q].grant # row.grant

\* UpsertPresence against the list-then-insert of the handler: two consumes
\* that both found no conflict never leave a profile online twice on one
\* server in Core's books.
OneActivePerServer ==
    \A p, q \in Presence :
        /\ Active(p)
        /\ Active(q)
        /\ presences[p].profile = presences[q].profile
        /\ presences[p].server = presences[q].server
        => p = q

\* The ban check of handleNodeConsumeTransferGrant: a request under a ban of
\* the profile or of the passport that held all the while it ran never gets
\* to create a presence, nor to a positive answer.
Admitting == {"cleared", "refresh", "insert", "relist", "ok", "accepting"}

NoAdmissionUnderStandingBan ==
    \A r \in Req : reqs[r].st \in Admitting => reqs[r].standing = {}

\* The listener's allowed and presences: whoever a gate lets through to the
\* backend servers was admitted there by Core once, and the presence it keeps
\* for a slot is a presence of that player on that gate, whichever session's
\* handlers ran late.
PresenceOfSlot(p, x) ==
    /\ presences[p] # None
    /\ x = <<presences[p].node, presences[p].profile>>

LetThroughWasAdmitted ==
    /\ \A x \in allowed : \E p \in Presence : PresenceOfSlot(p, x)
    /\ \A x \in Slot : gatePres[x] # NoPresence => PresenceOfSlot(gatePres[x], x)

\* scheduleValidationTimeout: a connection on the proxy that is not validated
\* will be taken off by its timer, which looks for it in pending, whether its
\* cookie never comes, its grant is refused or Core's answer is lost.  Two
\* things disarm the timer: the runtime is replaced, and the next one knows
\* nothing of connections that wait; or a late handler of an earlier
\* connection of the player, its DisconnectEvent or its answer, removes the
\* UUID from the sets.
Unvalidated(c) == IsActive(c) /\ sess[c].slot \notin allowed

UnvalidatedIsTimed ==
    \A c \in Session : Unvalidated(c) =>
        \/ sess[c].slot \in pending
        \/ c \in overtaken
        \/ swaps[sess[c].slot[1]] # 0

\* onDisconnect, processNodeActionAckResults and the ban and kick handlers end
\* presences in any order, late and more than once; an ended presence is never
\* active again and never changes hands, and a spent grant stays spent.
StaysClosed ==
    /\ \A p \in Presence : presences[p] # None =>
          presences'[p] \in {presences[p], [presences[p] EXCEPT !.st = "ended"]}
    /\ \A g \in Grant : grants[g].st = "consumed" => grants'[g].st = "consumed"

NothingReopens == [][StaysClosed]_vars

(***************************************************************************)
(* The ledger that Core keeps.                                             *)
(***************************************************************************)
TicketOf(row) == CASE row = None -> "none"
                   [] row # None /\ row.st = "pending" -> "issued"
                   [] OTHER -> "spent"

SeatOf(row) == IF row = None THEN None
               ELSE [st |-> IF row.st = "active" THEN "held" ELSE "left",
                     profile |-> row.profile, server |-> row.server,
                     grant |-> row.grant]

Ledger == INSTANCE PresenceLedger WITH
    ticket <- [g \in Grant |-> TicketOf(grants[g])],
    seat <- [p \in Presence |-> SeatOf(presences[p])]

\* Core's store under its concurrent handlers, the gates' late and lost calls
\* and the administrators implements the atomic ledger of PresenceLedger.
ImplementsLedger == Ledger!Spec

(***************************************************************************)
(* Liveness.  The reconcile loop works through the lists it takes, and a   *)
(* gate's sync runs for ever; handlers and timers run; of the checks of    *)
(* one presence that are repeated for ever, some is answered in time.      *)
(* Players and administrators may stop.                                    *)
(***************************************************************************)
SweepOf(p) == GateAnswers(Reconciler) /\ probe[Reconciler].presence = p

SweepResultOf(p) == ProbeAnswered(Reconciler) /\ probe[Reconciler].presence = p

Handler(r) ==
    \/ Refuse(r) \/ Consume(r) \/ CheckBan(r) \/ ListExisting(r)
    \/ RefreshDone(r) \/ InsertFails(r) \/ Relist(r)
    \/ ProbeAnswered(r) \/ ProbeFails(r)
    \/ \E p \in Presence : Insert(r, p) \/ ConflictAsk(r, p)
    \/ ReplyRejected(r) \/ ReplyAccepted(r) \/ RecordPresence(r) \/ DiscardReply(r)

Fairness ==
    /\ \A p \in Presence :
          /\ WF_vars(SweepAsk(p))
          /\ SF_vars(SweepOf(p))
          /\ SF_vars(SweepResultOf(p))
          /\ WF_vars(ExecuteDisconnect(p))
    /\ \A r \in Req : WF_vars(Handler(r))

FairSpec == Spec /\ Fairness

\* A player is gone from the gate and Core still has it online: the call of
\* onDisconnect may be lost, but the reconcile loop ends such a presence, if
\* it is listed again and again.  Up to presenceReconcileBatchLimit active
\* presences are all listed; of more, Postgres lists the oldest, and no check
\* makes one younger: behind that many players who stay, a presence is never
\* listed.
Stale(p) == Active(p) /\ ~Online(<<presences[p].node, presences[p].profile>>)

StalePresenceCleared == \A p \in Presence : []<>(p \in sweep) => []<>~Stale(p)

\* A disconnect queued for a presence that the gate has on record takes the
\* player off the proxy, if the gate syncs before the action expires.
DisconnectTakesEffect ==
    \A c \in Session, p \in Presence :
        (/\ <<"disconnect", p>> \in actions
         /\ \A k \in acks : k.action # <<"disconnect", p>>
         /\ c \in Holders(p)) ~> c \notin Holders(p)

==============================================================================
