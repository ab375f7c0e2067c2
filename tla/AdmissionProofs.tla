--------------------------- MODULE AdmissionProofs ---------------------------
(***************************************************************************)
(* Machine-checked proofs about module Admission, for any number of        *)
(* players, gates, sessions, requests, grants, bans and presences.         *)
(*                                                                         *)
(* 1. TypeInv: TypeOK, strengthened by "a request presents a token that    *)
(*    was issued"; TypeOK alone is not inductive, since the presence a     *)
(*    request creates takes its passport from the grant.                   *)
(***************************************************************************)
EXTENDS Admission, TLAPS

USE DEF storeVars, gateVars, handlerVars

TokenIssued == \A r \in Req : reqs[r] # Idle => grants[reqs[r].grant] # None

TypeInv == TypeOK /\ TokenIssued

ReqsType == [Req -> ReqRec \cup {Idle}]

(***************************************************************************)
(* The updates of a request record, of a session and of a presence.        *)
(***************************************************************************)
\* A request record that is not Idle is one.
LEMMA ReqRunning ==
  ASSUME TypeOK, NEW r \in Req, reqs[r] # Idle
  PROVE  /\ reqs[r] \in ReqRec
         /\ reqs[r].st \in Stage
         /\ reqs[r].grant \in Grant
         /\ reqs[r].slot \in Slot
         /\ reqs[r].slot[1] \in Gate
         /\ reqs[r].slot[2] \in Profile
         /\ reqs[r].fallback \subseteq Presence
BY DEF TypeOK, ReqRec, Slot

\* Drop closes connections and does nothing else to them.
LEMMA DropType ==
  ASSUME TypeOK, NEW cs, Drop(cs)
  PROVE  sess' \in [Session -> SessionRec \cup {NoSession}]
BY DEF TypeOK, GateTypeOK, Drop, IsActive, SessionRec, NoSession

\* EndPresence changes at most the state of its row.
LEMMA EndPresenceType ==
  ASSUME TypeOK, NEW p \in Presence, EndPresence(p)
  PROVE  presences' \in [Presence -> PresenceRow \cup {None}]
BY DEF TypeOK, StoreTypeOK, EndPresence, EndFinds, Active, PresenceRow, None

(***************************************************************************)
(* Type correctness.                                                       *)
(***************************************************************************)
\* The empty store and the idle gates are well typed.
LEMMA TypeInit == Init => TypeInv
BY DomainAssumption, GateAssumption
   DEF Init, StoreInit, GateInit, TypeInv, TokenIssued, TypeOK, StoreTypeOK,
       GateTypeOK

\* The store's grants are typed after an issue, an expiry and a consume.
LEMMA TypePortal == TypeInv /\ PortalNext => TypeInv'
<1> SUFFICES ASSUME TypeInv, PortalNext PROVE TypeInv'
  OBVIOUS
<1> USE DEF TypeInv, TypeOK, StoreTypeOK, GateTypeOK
<1>1. ASSUME NEW g \in Grant, GrantExpires(g)
      PROVE  TypeInv'
  <2>1. grants[g] \in GrantRow
    BY <1>1 DEF GrantExpires, ExpireGrant
  <2>2. [grants[g] EXCEPT !.fresh = FALSE] \in GrantRow \ {None}
    BY <2>1 DEF GrantRow, None
  <2>3. grants' = [grants EXCEPT ![g] = [grants[g] EXCEPT !.fresh = FALSE]]
    BY <1>1 DEF GrantExpires, ExpireGrant
  <2>4. TokenIssued'
    BY <1>1, <2>2, <2>3 DEF GrantExpires, TokenIssued, ReqRec
  <2> QED
    BY <1>1, <2>2, <2>3, <2>4 DEF GrantExpires
<1>2. ASSUME NEW g \in Grant, NEW u \in Profile, NEW pp \in Passport,
             NEW s \in Server, IssueGrant(g, u, pp, s)
      PROVE  TypeInv'
  BY <1>2 DEF IssueGrant, SaveTransferGrant, GrantRow, None, TokenIssued, ReqRec
<1> QED
  BY <1>1, <1>2 DEF PortalNext

\* The listener's event handlers, and a hot swap, keep every type.
LEMMA TypeGate == TypeInv /\ GateNext => TypeInv'
<1> SUFFICES ASSUME TypeInv, GateNext PROVE TypeInv'
  OBVIOUS
<1> USE DEF TypeInv, TypeOK, StoreTypeOK, GateTypeOK
<1>1. ASSUME NEW c \in Session, NEW x \in Slot, Login(c, x)
      PROVE  TypeInv'
  BY <1>1 DEF Login, OnLogin, SessionRec, NoSession, TokenIssued
<1>2. ASSUME NEW c \in Session, CookieMissing(c) \/ TimedOut(c)
      PROVE  TypeInv'
  BY <1>2, DropType
     DEF CookieMissing, OnCookieMissing, TimedOut, ValidationTimeout, RejectWith,
         Others, TokenIssued
<1>3. ASSUME NEW c \in Session, Leave(c)
      PROVE  TypeInv'
  BY <1>3, DropType DEF Leave, ConnectionLost, TokenIssued
<1>4. ASSUME NEW c \in Session, DisconnectEvent(c)
      PROVE  TypeInv'
  BY <1>4 DEF DisconnectEvent, OnDisconnectSets, OnDisconnectPresence, Others,
              SessionRec, NoSession, TokenIssued
<1>5. ASSUME NEW c \in Session, NEW g \in Grant, NEW r \in Req,
             CookieReceive(c, g, r)
      PROVE  TypeInv'
  <2>1. sess[c].slot \in Slot
    BY <1>5 DEF CookieReceive, OnCookieReceive, IsActive, SessionRec, NoSession
  <2> DEFINE q == [st |-> "sent", waiting |-> TRUE, sess |-> c,
                   slot |-> sess[c].slot, swap |-> swaps[sess[c].slot[1]],
                   grant |-> g, round |-> 1, todo |-> {}, fallback |-> {},
                   presence |-> NoPresence,
                   standing |-> BansOn(grants[g].profile, grants[g].passport)]
  <2>2. swaps[sess[c].slot[1]] \in Nat
    BY <2>1 DEF Slot
  <2>3. q \in ReqRec
    BY <2>1, <2>2 DEF ReqRec, BansOn, Stage
  <2>4. reqs' = [reqs EXCEPT ![r] = q]
    BY <1>5 DEF CookieReceive
  <2> HIDE DEF q
  <2>5. reqs' \in ReqsType
    BY <2>3, <2>4 DEF ReqsType
  <2>6. TokenIssued'
    BY <1>5 DEF CookieReceive, TokenIssued
  <2> QED
    BY <1>5, <2>1, <2>5, <2>6 DEF CookieReceive, OnCookieReceive, ReqsType
<1>6. ASSUME NEW n \in Gate, ReplaceRuntime(n)
      PROVE  TypeInv'
  BY <1>6 DEF ReplaceRuntime, RuntimeSwap, TokenIssued
<1> QED
  BY <1>1, <1>2, <1>3, <1>4, <1>5, <1>6 DEF GateNext

\* Every step of a consume handler belongs to a request that runs.
LEMMA ConsumeStepRuns ==
  ASSUME NEW r, ConsumeStep(r)
  PROVE  reqs[r] # Idle
<1> SUFFICES ASSUME reqs[r] = Idle PROVE FALSE
  OBVIOUS
<1>1. reqs[r].st = "idle"
  BY DEF Idle
<1>2. ~GateGivesUp(r)
  BY DEF GateGivesUp
<1>3. ~(Refuse(r) \/ Consume(r) \/ RefuseIdentity(r) \/ CheckBan(r))
  BY <1>1 DEF Refuse, Consume, RefuseIdentity, CheckBan
<1>4. ~(ListExisting(r) \/ RefreshDone(r) \/ InsertFails(r) \/ Relist(r))
  BY <1>1 DEF ListExisting, RefreshDone, InsertFails, Relist
<1>5. ~\E p \in Presence : ConflictAsk(r, p) \/ Insert(r, p)
  BY <1>1 DEF ConflictAsk, Insert
<1>6. ~(ReplyRejected(r) \/ ReplyAccepted(r) \/ RecordPresence(r) \/ DiscardReply(r))
  BY <1>1 DEF ReplyRejected, ReplyAccepted, RecordPresence, DiscardReply
<1> QED
  BY <1>2, <1>3, <1>4, <1>5, <1>6 DEF ConsumeStep

\* So does every step of handleNodeConsumeTransferGrant and of its answer.
LEMMA TypeConsume == TypeInv /\ ConsumeNext => TypeInv'
<1> SUFFICES ASSUME TypeInv, NEW r \in Req, ConsumeStep(r) PROVE TypeInv'
  BY DEF ConsumeNext
<1>0. reqs[r] # Idle
  BY ConsumeStepRuns
<1> USE DEF TypeInv
<1>1. TypeOK /\ reqs[r] \in ReqRec /\ reqs[r].grant \in Grant
  BY <1>0, ReqRunning
\* A request that goes on with its token, or ends, keeps TokenIssued.
<1>2. ASSUME NEW q \in ReqRec, q.grant = reqs[r].grant, UNCHANGED grants,
             reqs' = [reqs EXCEPT ![r] = q]
      PROVE  reqs' \in ReqsType /\ TokenIssued'
  BY <1>0, <1>1, <1>2 DEF TypeOK, ReqsType, TokenIssued
<1>3. ASSUME reqs' = [reqs EXCEPT ![r] = Idle], UNCHANGED grants
      PROVE  reqs' \in ReqsType /\ TokenIssued'
  BY <1>1, <1>3 DEF TypeOK, ReqsType, TokenIssued
<1>4. CASE Refuse(r) \/ RefuseIdentity(r) \/ CheckBan(r) \/ InsertFails(r)
  <2>1. PICK st \in Stage : reqs' = [reqs EXCEPT ![r] = [reqs[r] EXCEPT !.st = st]]
    BY <1>4 DEF Refuse, RefuseIdentity, CheckBan, InsertFails, Stage
  <2> DEFINE q == [reqs[r] EXCEPT !.st = st]
  <2>2. q \in ReqRec /\ q.grant = reqs[r].grant
    BY <1>1 DEF ReqRec
  <2>3. UNCHANGED grants
    BY <1>4 DEF Refuse, RefuseIdentity, CheckBan, InsertFails
  <2> HIDE DEF q
  <2>4. reqs' \in ReqsType /\ TokenIssued'
    BY <1>2, <2>1, <2>2, <2>3 DEF q
  <2> QED
    BY <1>4, <2>4 DEF Refuse, RefuseIdentity, CheckBan, InsertFails, TypeOK,
                      StoreTypeOK, GateTypeOK, ReqsType
<1>5. CASE Consume(r)
  <2>1. grants' = [grants EXCEPT ![reqs[r].grant] =
                      [grants[reqs[r].grant] EXCEPT !.st = "consumed"]]
    BY <1>5 DEF Consume, ConsumeTransferGrant
  <2>2. grants[reqs[r].grant] \in GrantRow
    BY <1>1, <1>5 DEF Consume, ConsumeTransferGrant, Consumable, TypeOK,
                      StoreTypeOK, None
  <2>3. [grants[reqs[r].grant] EXCEPT !.st = "consumed"] \in GrantRow \ {None}
    BY <2>2 DEF GrantRow, None
  <2>4. reqs' = [reqs EXCEPT ![r] = [reqs[r] EXCEPT !.st = "burned"]]
    BY <1>5 DEF Consume
  <2>5. reqs' \in ReqsType
    <3>1. [reqs[r] EXCEPT !.st = "burned"] \in ReqRec
      BY <1>1 DEF ReqRec, Stage
    <3> QED
      BY <1>1, <2>4, <3>1 DEF TypeOK, ReqsType
  <2>6. \A q \in Req : reqs'[q] # Idle => reqs[q] # Idle /\ reqs'[q].grant = reqs[q].grant
    BY <1>0, <1>1, <2>4 DEF TypeOK, ReqRec
  <2>7. TokenIssued'
    BY <2>1, <2>3, <2>6, <1>1 DEF TokenIssued, TypeOK, StoreTypeOK, ReqRec
  <2> QED
    BY <1>1, <1>5, <2>1, <2>3, <2>5, <2>7
       DEF Consume, TypeOK, StoreTypeOK, GateTypeOK, ReqsType
<1>6. CASE ListExisting(r) \/ Relist(r)
  <2>1. Conflicts(r) \in SUBSET Presence
    BY DEF Conflicts, ActivePresencesFor
  <2>2. reqs' \in ReqsType /\ TokenIssued'
    <3>1. CASE ListExisting(r)
      <4>1. PICK st \in Stage : reqs' = [reqs EXCEPT ![r] =
                 [reqs[r] EXCEPT !.st = st, !.todo = Conflicts(r)]]
        BY <3>1 DEF ListExisting, Stage
      <4> DEFINE q == [reqs[r] EXCEPT !.st = st, !.todo = Conflicts(r)]
      <4>2. q \in ReqRec /\ q.grant = reqs[r].grant
        BY <1>1, <2>1 DEF ReqRec
      <4>3. UNCHANGED grants
        BY <3>1 DEF ListExisting
      <4> HIDE DEF q
      <4> QED
        BY <1>2, <4>1, <4>2, <4>3 DEF q
    <3>2. CASE Relist(r)
      <4>1. PICK st \in Stage : reqs' = [reqs EXCEPT ![r] =
                 [reqs[r] EXCEPT !.st = st, !.round = 2, !.todo = Conflicts(r)]]
        BY <3>2 DEF Relist, Stage
      <4> DEFINE q == [reqs[r] EXCEPT !.st = st, !.round = 2, !.todo = Conflicts(r)]
      <4>2. q \in ReqRec /\ q.grant = reqs[r].grant
        BY <1>1, <2>1 DEF ReqRec
      <4>3. UNCHANGED grants
        BY <3>2 DEF Relist
      <4> HIDE DEF q
      <4> QED
        BY <1>2, <4>1, <4>2, <4>3 DEF q
    <3> QED
      BY <1>6, <3>1, <3>2
  <2> QED
    BY <1>1, <1>6, <2>2 DEF ListExisting, Relist, TypeOK, StoreTypeOK, GateTypeOK,
                            ReqsType
<1>7. ASSUME NEW p \in Presence, ConflictAsk(r, p)
      PROVE  TypeInv'
  BY <1>1, <1>7 DEF ConflictAsk, ProbeRec, TypeOK, StoreTypeOK, GateTypeOK, TokenIssued
<1>8. CASE RefreshDone(r)
  <2>1. PICK st \in Stage : reqs' = [reqs EXCEPT ![r] =
             [reqs[r] EXCEPT !.st = st, !.fallback = {}]]
    BY <1>8 DEF RefreshDone, Stage
  <2>2. reqs' \in ReqsType /\ TokenIssued'
    <3> DEFINE q == [reqs[r] EXCEPT !.st = st, !.fallback = {}]
    <3>1. q \in ReqRec /\ q.grant = reqs[r].grant
      BY <1>1 DEF ReqRec
    <3> HIDE DEF q
    <3> QED
      BY <1>2, <1>8, <2>1, <3>1 DEF RefreshDone, q
  <2>3. actions' \subseteq NodeAction
    BY <1>0, <1>1, <1>8, ReqRunning
       DEF RefreshDone, EnqueueNodeActions, NodeAction, TypeOK, StoreTypeOK
  <2> QED
    BY <1>1, <1>8, <2>2, <2>3 DEF RefreshDone, TypeOK, StoreTypeOK, GateTypeOK, ReqsType
<1>9. ASSUME NEW p \in Presence, Insert(r, p)
      PROVE  TypeInv'
  <2>1. reqs' \in ReqsType /\ TokenIssued'
    <3> DEFINE q == [reqs[r] EXCEPT !.st = "ok", !.presence = p]
    <3>1. q \in ReqRec /\ q.grant = reqs[r].grant
      BY <1>1 DEF ReqRec, Stage
    <3>2. reqs' = [reqs EXCEPT ![r] = q]
      BY <1>9 DEF Insert
    <3> HIDE DEF q
    <3> QED
      BY <1>2, <1>9, <3>1, <3>2 DEF Insert
  <2>2. grants[reqs[r].grant].passport \in Passport
    BY <1>0, <1>1 DEF TypeOK, StoreTypeOK, TokenIssued, GrantRow
  <2>3. /\ reqs[r].slot[1] \in Gate
        /\ reqs[r].slot[2] \in Profile
        /\ ServerOf[reqs[r].slot[1]] \in Server
    BY <1>0, <1>1, ReqRunning, DomainAssumption
  <2>4. presences' \in [Presence -> PresenceRow \cup {None}]
    BY <1>1, <1>9, <2>2, <2>3
       DEF Insert, UpsertPresence, PresenceRow, TypeOK, StoreTypeOK
  <2> QED
    BY <1>1, <1>9, <2>1, <2>4 DEF Insert, TypeOK, StoreTypeOK, GateTypeOK, ReqsType
<1>10. CASE ReplyRejected(r)
  <2>1. reqs' \in ReqsType /\ TokenIssued'
    BY <1>3, <1>10 DEF ReplyRejected
  <2> QED
    BY <1>1, <1>10, <2>1, DropType DEF ReplyRejected, RejectWith, Others, TypeOK,
                                       StoreTypeOK, GateTypeOK, ReqsType
<1>11. CASE GateGivesUp(r)
  <2>1. reqs' = [reqs EXCEPT ![r] = [reqs[r] EXCEPT !.waiting = FALSE]]
    BY <1>11 DEF GateGivesUp
  <2>2. [reqs[r] EXCEPT !.waiting = FALSE] \in ReqRec
    BY <1>1 DEF ReqRec
  <2>3. [reqs[r] EXCEPT !.waiting = FALSE].grant = reqs[r].grant
    BY <1>1 DEF ReqRec
  <2>4. reqs' \in ReqsType /\ TokenIssued'
    BY <1>2, <1>11, <2>1, <2>2, <2>3 DEF GateGivesUp
  <2> QED
    BY <1>1, <1>11, <2>4, DropType DEF GateGivesUp, RejectWith, Others, TypeOK,
                                       StoreTypeOK, GateTypeOK, ReqsType
<1>12. CASE ReplyAccepted(r)
  <2>1. reqs' \in ReqsType /\ TokenIssued'
    <3> DEFINE q == [reqs[r] EXCEPT !.st = "accepting"]
    <3>1. q \in ReqRec /\ q.grant = reqs[r].grant
      BY <1>1 DEF ReqRec, Stage
    <3>2. reqs' = [reqs EXCEPT ![r] = q]
      BY <1>12 DEF ReplyAccepted
    <3> HIDE DEF q
    <3> QED
      BY <1>2, <1>12, <3>1, <3>2 DEF ReplyAccepted
  <2> QED
    BY <1>0, <1>1, <1>12, <2>1, ReqRunning DEF ReplyAccepted, AcceptAllow, TypeOK,
                                         StoreTypeOK, GateTypeOK, ReqsType
<1>13. CASE RecordPresence(r) \/ DiscardReply(r)
  <2>1. reqs' \in ReqsType /\ TokenIssued'
    BY <1>3, <1>13 DEF RecordPresence, DiscardReply
  <2>2. reqs[r].presence \in Presence \cup {NoPresence}
    BY <1>1 DEF ReqRec
  <2> QED
    BY <1>1, <1>13, <2>1, <2>2 DEF RecordPresence, DiscardReply, AcceptRecord,
                             Others, TypeOK, StoreTypeOK, GateTypeOK, ReqsType
<1> QED
  BY <1>4, <1>5, <1>6, <1>7, <1>8, <1>9, <1>10, <1>11, <1>12, <1>13 DEF ConsumeStep

\* A check that was answered or failed is struck off its request's list.
LEMMA AdvanceReqs ==
  ASSUME TypeOK, NEW o, NEW f \in BOOLEAN, probe[o].presence \in Presence,
         Advance(o, f)
  PROVE  /\ reqs' \in ReqsType
         /\ \A r \in Req : reqs'[r] # Idle =>
               reqs[r] # Idle /\ reqs'[r].grant = reqs[r].grant
<1> DEFINE qs == IF f THEN {probe[o].presence} ELSE {}
<1>1. ASSUME NEW q \in ReqRec
      PROVE  LET n == [q EXCEPT !.todo = @ \ {probe[o].presence},
                                !.fallback = @ \cup qs]
             IN  n \in ReqRec /\ n.grant = q.grant
  BY DEF ReqRec
<1> QED
  BY <1>1 DEF Advance, TypeOK, ReqsType

\* So do presence checks, endPresence calls and node actions.
LEMMA TypePresence == TypeInv /\ PresenceNext => TypeInv'
<1> SUFFICES ASSUME TypeInv, PresenceNext PROVE TypeInv'
  OBVIOUS
<1>0. TypeOK /\ TokenIssued
  BY DEF TypeInv
<1> USE DEF TypeInv, TypeOK, StoreTypeOK, GateTypeOK
<1>1. CASE SweepStart
  BY <1>1 DEF SweepStart, TokenIssued
<1>2. ASSUME NEW p \in Presence, SweepAsk(p)
      PROVE  TypeInv'
  BY <1>2 DEF SweepAsk, ProbeRec, TokenIssued
<1>3. ASSUME NEW o \in Req \cup {Reconciler}, GateAnswers(o)
      PROVE  TypeInv'
  BY <1>3 DEF GateAnswers, ProbeRec, Idle, TokenIssued
<1>4. ASSUME NEW o \in Req \cup {Reconciler}, ProbeAnswered(o) \/ ProbeFails(o)
      PROVE  TypeInv'
  <2>0. ProbeAnswered(o) => probe[o] # Idle
    BY DEF ProbeAnswered, Idle
  <2>1. probe[o] \in ProbeRec
    BY <1>4, <2>0 DEF ProbeFails
  <2>2. probe[o].presence \in Presence
    BY <2>1 DEF ProbeRec
  <2>3. PICK f \in BOOLEAN : Advance(o, f)
    BY <1>4 DEF ProbeAnswered, ProbeFails
  <2>4. /\ probe' \in [Req \cup {Reconciler} -> ProbeRec \cup {Idle}]
        /\ sweep' \subseteq Presence
    BY <2>3 DEF Advance
  <2>5. /\ reqs' \in ReqsType
        /\ \A r \in Req : reqs'[r] # Idle =>
              reqs[r] # Idle /\ reqs'[r].grant = reqs[r].grant
    BY <1>0, <2>2, <2>3, AdvanceReqs
  <2>6. UNCHANGED grants
    BY <1>4 DEF ProbeAnswered, ProbeFails
  <2>7. TokenIssued'
    BY <2>5, <2>6 DEF TokenIssued
  <2>8. presences' \in [Presence -> PresenceRow \cup {None}]
    BY <1>0, <1>4, <2>2, EndPresenceType DEF ProbeAnswered, ProbeFails
  <2> QED
    BY <1>4, <2>4, <2>5, <2>7, <2>8 DEF ProbeAnswered, ProbeFails, ReqsType
<1>5. ASSUME NEW p \in Presence, EndPresenceCall(p) \/ EndPresenceLost(p)
      PROVE  TypeInv'
  BY <1>0, <1>5, EndPresenceType DEF EndPresenceCall, EndPresenceLost, TokenIssued
<1>6. ASSUME NEW p \in Presence, ExecuteDisconnect(p)
      PROVE  TypeInv'
  <2>1. [action |-> <<"disconnect", p>>, absent |-> FALSE] \in Ack
    BY DEF Ack, NodeAction
  <2> QED
    BY <1>0, <1>6, <2>1, DropType DEF ExecuteDisconnect, TokenIssued
<1>7. ASSUME NEW p \in Presence, ExecuteCheck(p)
      PROVE  TypeInv'
  <2>1. [action |-> <<"presence_check", p>>, absent |-> Holders(p) = {}] \in Ack
    BY DEF Ack, NodeAction
  <2> QED
    BY <1>7, <2>1 DEF ExecuteCheck, TokenIssued
<1>8. ASSUME NEW k \in acks, AckArrives(k) \/ AckLost(k)
      PROVE  TypeInv'
  <2>1. k.action[2] \in Presence
    BY DEF Ack, NodeAction
  <2> QED
    BY <1>0, <1>8, <2>1, EndPresenceType
       DEF AckArrives, AckLost, AckNodeAction, TokenIssued
<1>9. ASSUME NEW a \in actions, ActionExpires(a)
      PROVE  TypeInv'
  BY <1>9 DEF ActionExpires, ExpireAction, TokenIssued
<1> QED
  BY <1>1, <1>2, <1>3, <1>4, <1>5, <1>6, <1>7, <1>8, <1>9 DEF PresenceNext

\* BanExpires and BanRevoked take a ban off the history of each request.
LEMMA StandingReqs ==
  ASSUME TypeOK, NEW b, NoLongerStanding(b)
  PROVE  /\ reqs' \in ReqsType
         /\ \A r \in Req : reqs'[r] # Idle =>
               reqs[r] # Idle /\ reqs'[r].grant = reqs[r].grant
<1>1. ASSUME NEW q \in ReqRec
      PROVE  /\ [q EXCEPT !.standing = @ \ {b}] \in ReqRec
             /\ [q EXCEPT !.standing = @ \ {b}].grant = q.grant
  BY DEF ReqRec
<1> QED
  BY <1>1 DEF NoLongerStanding, TypeOK, ReqsType

\* So do the ban and kick handlers.
LEMMA TypeAdmin == TypeInv /\ AdminNext => TypeInv'
<1> SUFFICES ASSUME TypeInv, AdminNext PROVE TypeInv'
  OBVIOUS
<1>0. TypeOK /\ TokenIssued
  BY DEF TypeInv
<1> USE DEF TypeInv, TypeOK, StoreTypeOK, GateTypeOK
<1>1. ASSUME NEW a \in Admin, NEW b \in Ban, NEW t \in Target, BanTarget(a, b, t)
      PROVE  TypeInv'
  BY <1>1 DEF BanTarget, CreateBan, BanRow, None, AdminRec, Idle, TokenIssued
<1>2. ASSUME NEW a \in Admin, NEW t \in Target, KickTarget(a, t)
      PROVE  TypeInv'
  BY <1>2 DEF KickTarget, AdminRec, Idle, TokenIssued
<1>3. ASSUME NEW a \in Admin, NEW p \in Presence, KickPresence(a, p)
      PROVE  TypeInv'
  BY <1>0, <1>3, EndPresenceType DEF KickPresence, AdminRec, TokenIssued
<1>4. ASSUME NEW a \in Admin, ListAndDisconnect(a)
      PROVE  TypeInv'
  BY <1>4 DEF ListAndDisconnect, EnqueueNodeActions, NodeAction, ActivePresencesOf,
              AdminRec, Idle, TokenIssued
<1>5. ASSUME NEW a \in Admin, EndListed(a)
      PROVE  TypeInv'
  <2>1. presences' \in [Presence -> PresenceRow \cup {None}]
    BY <1>5 DEF EndListed, EndPresencesOf, ActivePresencesOf, Active, PresenceRow, None
  <2> QED
    BY <1>5, <2>1 DEF EndListed, TokenIssued
<1>6. ASSUME NEW a \in Admin, DisconnectKicked(a)
      PROVE  TypeInv'
  BY <1>6 DEF DisconnectKicked, EnqueueNodeActions, NodeAction, AdminRec, Idle,
              TokenIssued
<1>7. ASSUME NEW b \in Ban, BanExpires(b) \/ BanRevoked(b)
      PROVE  TypeInv'
  <2>1. reqs' \in ReqsType /\ TokenIssued'
    BY <1>0, <1>7, StandingReqs DEF BanExpires, BanRevoked, TokenIssued
  <2>2. bans' \in [Ban -> BanRow \cup {None}]
    BY <1>7 DEF BanExpires, BanRevoked, ExpireBan, RevokeBan, BanRow, None
  <2> QED
    BY <1>7, <2>1, <2>2 DEF BanExpires, BanRevoked, ReqsType
<1>8. ASSUME NEW b \in Ban, BanExtended(b)
      PROVE  TypeInv'
  BY <1>8 DEF BanExtended, ExtendBan, BanRow, None, TokenIssued
<1> QED
  BY <1>1, <1>2, <1>3, <1>4, <1>5, <1>6, <1>7, <1>8 DEF AdminNext

\* Every step keeps the types.
LEMMA TypeStep == TypeInv /\ [Next]_vars => TypeInv'
<1> SUFFICES ASSUME TypeInv, [Next]_vars PROVE TypeInv'
  OBVIOUS
<1>1. CASE UNCHANGED vars
  BY <1>1 DEF vars, TypeInv, TokenIssued, TypeOK, StoreTypeOK, GateTypeOK
<1> QED
  BY <1>1, TypePortal, TypeGate, TypeConsume, TypePresence, TypeAdmin DEF Next

\* The types hold throughout, and a token in use was issued.
LEMMA TypeInvariance == Spec => []TypeInv
<1> QED
  BY TypeInit, TypeStep, PTL DEF Spec

\* Every variable of Core, of the gates and of the handlers keeps its type.
THEOREM TypeCorrect == Spec => []TypeOK
<1>1. TypeInv => TypeOK
  BY DEF TypeInv
<1> QED
  BY <1>1, TypeInvariance, PTL

(***************************************************************************)
(* 2. The inductive invariant.  What the store holds is tied to what the   *)
(* handlers carry between two of its calls: a request that has consumed    *)
(* its grant and not yet created its presence (Holding) owns that grant    *)
(* alone; one that has created it (Seated) carries a presence of its own   *)
(* slot; the bans on record for a request still stand.                     *)
(***************************************************************************)
Holding == {"burned", "cleared", "refresh", "insert", "relist"}

Seated == {"ok", "accepting"}

\* The consumed grant of a request fits it, and has opened nothing yet.
GrantInHand ==
    \A r \in Req : reqs[r].st \in Holding =>
        /\ grants[reqs[r].grant].st = "consumed"
        /\ grants[reqs[r].grant].profile = reqs[r].slot[2]
        /\ grants[reqs[r].grant].server = ServerOf[reqs[r].slot[1]]
        /\ \A p \in Presence :
              presences[p] # None => presences[p].grant # reqs[r].grant

GrantHeldOnce ==
    \A r, q \in Req :
        /\ reqs[r].st \in Holding
        /\ reqs[q].st \in Holding
        /\ reqs[r].grant = reqs[q].grant
        => r = q

SeatGiven ==
    \A r \in Req : reqs[r].st \in Seated =>
        /\ reqs[r].presence \in Presence
        /\ PresenceOfSlot(reqs[r].presence, reqs[r].slot)

StandingInForce ==
    \A r \in Req : reqs[r] # Idle =>
        reqs[r].standing \subseteq BansOn(grants[reqs[r].grant].profile,
                                          grants[reqs[r].grant].passport)

BooksInv == GrantInHand /\ GrantHeldOnce /\ PresenceBackedByGrant /\ OneActivePerServer

GateInv == SeatGiven /\ LetThroughWasAdmitted

BanInv == StandingInForce /\ NoAdmissionUnderStandingBan

IInv == TypeInv /\ BooksInv /\ GateInv /\ BanInv

(***************************************************************************)
(* 3. What a step can do.  Eight actions write what the invariant speaks   *)
(* of in a way of their own; every other step is Quiet: it ends presences, *)
(* lets requests go on or finish, takes entries out of the gates' sets,    *)
(* and lets a ban lapse only together with its mention in every request.   *)
(***************************************************************************)
Ends ==
    \A p \in Presence :
        \/ presences'[p] = presences[p]
        \/ /\ presences[p] # None
           /\ presences'[p] = [presences[p] EXCEPT !.st = "ended"]

Continues(r) ==
    \/ reqs'[r] = Idle
    \/ /\ reqs[r] # Idle
       /\ reqs'[r].grant = reqs[r].grant
       /\ reqs'[r].sess = reqs[r].sess
       /\ reqs'[r].slot = reqs[r].slot
       /\ reqs'[r].presence = reqs[r].presence
       /\ reqs'[r].standing \subseteq reqs[r].standing
       /\ reqs'[r].st \in Holding => reqs[r].st \in Holding
       /\ reqs'[r].st \in Seated => reqs[r].st \in Seated
       /\ reqs'[r].st \in Admitting => reqs[r].st \in Admitting
       /\ reqs'[r].st = "accepting" => reqs[r].st = "accepting"

GatesOnlyForget ==
    /\ allowed' \subseteq allowed
    /\ \A x \in Slot : gatePres'[x] \in {gatePres[x], NoPresence}

BansKept ==
    \A b \in Ban : bans[b].st = "active" =>
        \/ bans'[b].st = "active" /\ bans'[b].target = bans[b].target
        \/ \A r \in Req : reqs'[r] # Idle => b \notin reqs'[r].standing

Quiet ==
    /\ UNCHANGED grants
    /\ Ends
    /\ \A r \in Req : Continues(r)
    /\ GatesOnlyForget
    /\ BansKept

Special ==
    \/ \E g \in Grant : GrantExpires(g)
    \/ \E g \in Grant, u \in Profile, pp \in Passport, s \in Server :
          IssueGrant(g, u, pp, s)
    \/ \E c \in Session, g \in Grant, r \in Req : CookieReceive(c, g, r)
    \/ \E r \in Req :
          \/ Consume(r)
          \/ CheckBan(r)
          \/ \E p \in Presence : Insert(r, p)
          \/ ReplyAccepted(r)
          \/ RecordPresence(r)

\* A step that leaves the presences alone reopens and moves none.
LEMMA SameBooks == UNCHANGED presences => Ends
BY DEF Ends

\* A step that leaves the requests alone lets each of them continue.
LEMMA SameReqs == UNCHANGED reqs => \A r \in Req : Continues(r)
BY DEF Continues

\* A step that leaves the gates' books alone adds nothing to them.
LEMMA SameGates == UNCHANGED <<allowed, gatePres>> => GatesOnlyForget
BY DEF GatesOnlyForget

\* A step that leaves the bans alone keeps the standing ones.
LEMMA SameBans == UNCHANGED bans => BansKept
BY DEF BansKept

\* EndPresence and EndPresencesOf only end presences.
LEMMA EndPresenceEnds ==
  ASSUME TypeOK, NEW p \in Presence, EndPresence(p)
  PROVE  Ends
BY DEF EndPresence, EndFinds, Active, Ends, TypeOK, StoreTypeOK, None

\* A request that moves to another stage, within or out of its class.
LEMMA MovesOn ==
  ASSUME TypeOK, NEW r \in Req, reqs[r] # Idle, NEW q,
         reqs' = [reqs EXCEPT ![r] = q],
         \/ q = Idle
         \/ /\ q.grant = reqs[r].grant
            /\ q.sess = reqs[r].sess /\ q.slot = reqs[r].slot
            /\ q.presence = reqs[r].presence
            /\ q.standing = reqs[r].standing
            /\ q.st \in Holding => reqs[r].st \in Holding
            /\ q.st \in Seated => reqs[r].st \in Seated
            /\ q.st \in Admitting => reqs[r].st \in Admitting
            /\ q.st = "accepting" => reqs[r].st = "accepting"
  PROVE  \A s \in Req : Continues(s)
BY DEF TypeOK, Continues

\* Of the listener's handlers only the one that sends a consume is special.
LEMMA QuietGate == TypeInv /\ GateNext => Quiet \/ Special
<1> SUFFICES ASSUME TypeInv, GateNext PROVE Quiet \/ Special
  OBVIOUS
<1> USE SameBooks, SameReqs, SameGates, SameBans
<1>1. ASSUME NEW c \in Session, NEW x \in Slot, Login(c, x)
      PROVE  Quiet
  BY <1>1 DEF Login, OnLogin, Quiet
<1>2. ASSUME NEW c \in Session, CookieMissing(c) \/ TimedOut(c)
      PROVE  Quiet
  BY <1>2 DEF CookieMissing, OnCookieMissing, TimedOut, ValidationTimeout,
              RejectWith, Quiet, GatesOnlyForget
<1>3. ASSUME NEW c \in Session, Leave(c)
      PROVE  Quiet
  BY <1>3 DEF Leave, ConnectionLost, Quiet
<1>4. ASSUME NEW c \in Session, DisconnectEvent(c)
      PROVE  Quiet
  BY <1>4 DEF DisconnectEvent, OnDisconnectSets, OnDisconnectPresence, Quiet,
              GatesOnlyForget, TypeInv, TypeOK, GateTypeOK
<1>5. ASSUME NEW n \in Gate, ReplaceRuntime(n)
      PROVE  Quiet
  BY <1>5 DEF ReplaceRuntime, RuntimeSwap, Quiet, GatesOnlyForget
<1> QED
  BY <1>1, <1>2, <1>3, <1>4, <1>5 DEF GateNext, Special

\* Of a consume's steps those that burn a grant, pass the ban check, create
\* the presence or write the gate's books are special.
LEMMA QuietConsume ==
  ASSUME TypeInv, NEW r \in Req, ConsumeStep(r)
  PROVE  Quiet \/ Special
<1> USE SameBooks, SameReqs, SameGates, SameBans
<1>0. TypeOK /\ reqs[r] # Idle /\ reqs[r] \in ReqRec
  BY ConsumeStepRuns, ReqRunning DEF TypeInv
<1>1. CASE Refuse(r) \/ RefuseIdentity(r) \/ InsertFails(r)
  <2>1. PICK st \in {"rejected", "relist"} :
           /\ reqs' = [reqs EXCEPT ![r] = [reqs[r] EXCEPT !.st = st]]
           /\ st = "relist" => reqs[r].st = "insert"
    BY <1>1 DEF Refuse, RefuseIdentity, InsertFails
  <2> DEFINE q == [reqs[r] EXCEPT !.st = st]
  <2>2. /\ q.st = st /\ q.grant = reqs[r].grant
        /\ q.sess = reqs[r].sess /\ q.slot = reqs[r].slot
        /\ q.presence = reqs[r].presence /\ q.standing = reqs[r].standing
    BY <1>0 DEF ReqRec
  <2> HIDE DEF q
  <2>3. \A s \in Req : Continues(s)
    BY <1>0, <2>1, <2>2, MovesOn DEF q, Holding, Seated, Admitting
  <2> QED
    BY <1>1, <2>3 DEF Refuse, RefuseIdentity, InsertFails, Quiet
<1>2. CASE ListExisting(r) \/ Relist(r)
  <2>1. PICK q : /\ reqs' = [reqs EXCEPT ![r] = q]
                 /\ q.grant = reqs[r].grant /\ q.sess = reqs[r].sess /\ q.slot = reqs[r].slot
                 /\ q.presence = reqs[r].presence
                 /\ q.standing = reqs[r].standing
                 /\ q.st \in {"insert", "refresh", "rejected"}
    <3>1. CASE ListExisting(r)
      <4> DEFINE q == [reqs[r] EXCEPT
                 !.st = IF Conflicts(r) = {} THEN "insert" ELSE "refresh",
                 !.todo = Conflicts(r)]
      <4>1. /\ q.grant = reqs[r].grant /\ q.sess = reqs[r].sess /\ q.slot = reqs[r].slot
            /\ q.presence = reqs[r].presence /\ q.standing = reqs[r].standing
            /\ q.st \in {"insert", "refresh", "rejected"}
        BY <1>0 DEF ReqRec
      <4>2. reqs' = [reqs EXCEPT ![r] = q]
        BY <3>1 DEF ListExisting
      <4> HIDE DEF q
      <4> QED
        BY <4>1, <4>2
    <3>2. CASE Relist(r)
      <4> DEFINE q == [reqs[r] EXCEPT
                 !.st = IF Conflicts(r) = {} THEN "rejected" ELSE "refresh",
                 !.round = 2,
                 !.todo = Conflicts(r)]
      <4>1. /\ q.grant = reqs[r].grant /\ q.sess = reqs[r].sess /\ q.slot = reqs[r].slot
            /\ q.presence = reqs[r].presence /\ q.standing = reqs[r].standing
            /\ q.st \in {"insert", "refresh", "rejected"}
        BY <1>0 DEF ReqRec
      <4>2. reqs' = [reqs EXCEPT ![r] = q]
        BY <3>2 DEF Relist
      <4> HIDE DEF q
      <4> QED
        BY <4>1, <4>2
    <3> QED
      BY <1>2, <3>1, <3>2
  <2>2. reqs[r].st \in Holding \cap Admitting
    BY <1>2 DEF ListExisting, Relist, Holding, Admitting
  <2>3. \A s \in Req : Continues(s)
    BY <1>0, <2>1, <2>2, MovesOn DEF Holding, Seated, Admitting
  <2> QED
    BY <1>2, <2>3 DEF ListExisting, Relist, Quiet
<1>3. ASSUME NEW p \in Presence, ConflictAsk(r, p)
      PROVE  Quiet
  BY <1>3 DEF ConflictAsk, Quiet
<1>4. CASE RefreshDone(r)
  <2> DEFINE q == [reqs[r] EXCEPT
             !.st = IF Conflicts(r) = {} THEN "insert" ELSE "rejected",
             !.fallback = {}]
  <2>1. /\ q.grant = reqs[r].grant /\ q.sess = reqs[r].sess /\ q.slot = reqs[r].slot
        /\ q.presence = reqs[r].presence /\ q.standing = reqs[r].standing
        /\ q.st \in {"insert", "rejected"}
    BY <1>0 DEF ReqRec
  <2>2. reqs' = [reqs EXCEPT ![r] = q] /\ reqs[r].st \in Holding \cap Admitting
    BY <1>4 DEF RefreshDone, Holding, Admitting
  <2> HIDE DEF q
  <2>3. \A s \in Req : Continues(s)
    BY <1>0, <2>1, <2>2, MovesOn DEF Holding, Seated, Admitting
  <2> QED
    BY <1>4, <2>3 DEF RefreshDone, Quiet
<1>5. CASE ReplyRejected(r) \/ DiscardReply(r)
  <2>1. \A s \in Req : Continues(s)
    BY <1>0, <1>5, MovesOn DEF ReplyRejected, DiscardReply
  <2> QED
    BY <1>5, <2>1 DEF ReplyRejected, DiscardReply, RejectWith, Quiet,
                      GatesOnlyForget
<1>6. CASE GateGivesUp(r)
  <2> DEFINE q == [reqs[r] EXCEPT !.waiting = FALSE]
  <2>1. /\ q.grant = reqs[r].grant /\ q.sess = reqs[r].sess /\ q.slot = reqs[r].slot
        /\ q.presence = reqs[r].presence /\ q.standing = reqs[r].standing
        /\ q.st = reqs[r].st
    BY <1>0 DEF ReqRec
  <2>2. reqs' = [reqs EXCEPT ![r] = q]
    BY <1>6 DEF GateGivesUp
  <2> HIDE DEF q
  <2>3. \A s \in Req : Continues(s)
    BY <1>0, <2>1, <2>2, MovesOn
  <2> QED
    BY <1>6, <2>3 DEF GateGivesUp, RejectWith, Quiet, GatesOnlyForget
<1> QED
  BY <1>1, <1>2, <1>3, <1>4, <1>5, <1>6 DEF ConsumeStep, Special

\* Checks, endPresence calls and node actions only end and forget.
LEMMA QuietPresence == TypeInv /\ PresenceNext => Quiet
<1> SUFFICES ASSUME TypeInv, PresenceNext PROVE Quiet
  OBVIOUS
<1>0. TypeOK
  BY DEF TypeInv
<1> USE SameBooks, SameReqs, SameGates, SameBans
<1>1. CASE SweepStart
  BY <1>1 DEF SweepStart, Quiet
<1>2. ASSUME NEW p \in Presence, SweepAsk(p)
      PROVE  Quiet
  BY <1>2 DEF SweepAsk, Quiet
<1>3. ASSUME NEW o \in Req \cup {Reconciler}, GateAnswers(o)
      PROVE  Quiet
  BY <1>3 DEF GateAnswers, Quiet
<1>4. ASSUME NEW o \in Req \cup {Reconciler}, ProbeAnswered(o) \/ ProbeFails(o)
      PROVE  Quiet
  <2>1. ProbeAnswered(o) => probe[o] # Idle
    BY DEF ProbeAnswered, Idle
  <2>2. probe[o].presence \in Presence
    BY <1>0, <1>4, <2>1 DEF ProbeFails, TypeOK, ProbeRec
  <2>3. Ends
    BY <1>0, <1>4, <2>2, EndPresenceEnds DEF ProbeAnswered, ProbeFails
  <2>4. PICK f \in BOOLEAN : Advance(o, f)
    BY <1>4 DEF ProbeAnswered, ProbeFails
  <2>5. ASSUME NEW r \in Req PROVE Continues(r)
    <3> DEFINE q == [reqs[r] EXCEPT
             !.todo = @ \ {probe[o].presence},
             !.fallback = @ \cup (IF f THEN {probe[o].presence} ELSE {})]
    <3>1. reqs[r] # Idle => reqs[r] \in ReqRec
      BY <1>0, ReqRunning
    <3>2. reqs[r] \in ReqRec =>
             /\ q.st = reqs[r].st /\ q.grant = reqs[r].grant
             /\ q.sess = reqs[r].sess
            /\ q.slot = reqs[r].slot /\ q.presence = reqs[r].presence
             /\ q.standing = reqs[r].standing
      BY DEF ReqRec
    <3>3. reqs'[r] = reqs[r] \/ (reqs[r] # Idle /\ reqs'[r] = q)
      BY <2>4 DEF Advance
    <3> HIDE DEF q
    <3> QED
      BY <3>1, <3>2, <3>3 DEF Continues
  <2> QED
    BY <1>4, <2>3, <2>5 DEF ProbeAnswered, ProbeFails, Quiet
<1>5. ASSUME NEW p \in Presence, EndPresenceCall(p) \/ EndPresenceLost(p)
      PROVE  Quiet
  BY <1>0, <1>5, EndPresenceEnds DEF EndPresenceCall, EndPresenceLost, Quiet
<1>6. ASSUME NEW p \in Presence, ExecuteDisconnect(p) \/ ExecuteCheck(p)
      PROVE  Quiet
  BY <1>6 DEF ExecuteDisconnect, ExecuteCheck, Quiet
<1>7. ASSUME NEW k \in acks, AckArrives(k) \/ AckLost(k)
      PROVE  Quiet
  <2>1. k.action[2] \in Presence
    BY <1>0 DEF TypeOK, Ack, NodeAction
  <2> QED
    BY <1>0, <1>7, <2>1, EndPresenceEnds DEF AckArrives, AckLost, Quiet
<1>8. ASSUME NEW a \in actions, ActionExpires(a)
      PROVE  Quiet
  BY <1>8 DEF ActionExpires, Quiet
<1> QED
  BY <1>1, <1>2, <1>3, <1>4, <1>5, <1>6, <1>7, <1>8 DEF PresenceNext

\* Ban and kick handlers only end presences and queue actions.
LEMMA QuietAdmin == TypeInv /\ AdminNext => Quiet
<1> SUFFICES ASSUME TypeInv, AdminNext PROVE Quiet
  OBVIOUS
<1>0. TypeOK
  BY DEF TypeInv
<1> USE SameBooks, SameReqs, SameGates, SameBans
<1>1. ASSUME NEW a \in Admin, NEW b \in Ban, NEW t \in Target, BanTarget(a, b, t)
      PROVE  Quiet
  BY <1>0, <1>1 DEF BanTarget, CreateBan, BansKept, Quiet, TypeOK, StoreTypeOK, None
<1>2. ASSUME NEW a \in Admin, NEW t \in Target, KickTarget(a, t)
      PROVE  Quiet
  BY <1>2 DEF KickTarget, Quiet
<1>3. ASSUME NEW a \in Admin, NEW p \in Presence, KickPresence(a, p)
      PROVE  Quiet
  BY <1>0, <1>3, EndPresenceEnds DEF KickPresence, Quiet
<1>4. ASSUME NEW a \in Admin, ListAndDisconnect(a) \/ DisconnectKicked(a)
      PROVE  Quiet
  BY <1>4 DEF ListAndDisconnect, DisconnectKicked, Quiet
<1>5. ASSUME NEW a \in Admin, EndListed(a)
      PROVE  Quiet
  <2>1. Ends
    BY <1>5 DEF EndListed, EndPresencesOf, ActivePresencesOf, Active, None, Ends
  <2> QED
    BY <1>5, <2>1 DEF EndListed, Quiet
<1>6. ASSUME NEW b \in Ban, BanExpires(b) \/ BanRevoked(b)
      PROVE  Quiet
  <2>1. NoLongerStanding(b)
    BY <1>6 DEF BanExpires, BanRevoked
  <2>2. ASSUME NEW r \in Req
        PROVE  Continues(r) /\ (reqs'[r] # Idle => b \notin reqs'[r].standing)
    <3>1. CASE reqs[r] = Idle
      BY <2>1, <3>1 DEF NoLongerStanding, Continues
    <3>2. CASE reqs[r] # Idle
      <4> DEFINE q == [reqs[r] EXCEPT !.standing = @ \ {b}]
      <4>1. reqs[r] \in ReqRec
        BY <1>0, <3>2, ReqRunning
      <4>2. /\ q.st = reqs[r].st /\ q.grant = reqs[r].grant
            /\ q.sess = reqs[r].sess
            /\ q.slot = reqs[r].slot /\ q.presence = reqs[r].presence
            /\ q.standing = reqs[r].standing \ {b}
        BY <4>1 DEF ReqRec
      <4>3. reqs'[r] = q
        BY <2>1, <3>2 DEF NoLongerStanding
      <4> HIDE DEF q
      <4> QED
        BY <3>2, <4>2, <4>3 DEF Continues
    <3> QED
      BY <3>1, <3>2
  <2>3. \A d \in Ban : d # b => bans'[d] = bans[d]
    BY <1>0, <1>6 DEF BanExpires, BanRevoked, ExpireBan, RevokeBan, TypeOK,
                      StoreTypeOK
  <2>4. BansKept
    BY <2>2, <2>3 DEF BansKept
  <2> QED
    BY <1>6, <2>2, <2>4 DEF BanExpires, BanRevoked, Quiet
<1>7. ASSUME NEW b \in Ban, BanExtended(b)
      PROVE  Quiet
  BY <1>0, <1>7 DEF BanExtended, ExtendBan, BansKept, Quiet, TypeOK, StoreTypeOK,
                    BanRow, None
<1> QED
  BY <1>1, <1>2, <1>3, <1>4, <1>5, <1>6, <1>7 DEF AdminNext

\* Every step of the system is one of the eight, or quiet.
LEMMA StepKinds == TypeInv /\ [Next]_vars => Quiet \/ Special
<1> SUFFICES ASSUME TypeInv, [Next]_vars PROVE Quiet \/ Special
  OBVIOUS
<1>1. CASE UNCHANGED vars
  BY <1>1, SameBooks, SameReqs, SameGates, SameBans DEF vars, Quiet
<1>2. CASE PortalNext
  BY <1>2 DEF PortalNext, Special
<1>3. CASE ConsumeNext
  BY <1>3, QuietConsume DEF ConsumeNext
<1> QED
  BY <1>1, <1>2, <1>3, QuietGate, QuietPresence, QuietAdmin DEF Next

(***************************************************************************)
(* 4. The books: grants and presences.                                     *)
(***************************************************************************)
\* Ending a presence changes nothing else about it.
LEMMA EndsKeeps ==
  ASSUME TypeOK, Ends, NEW p \in Presence
  PROVE  /\ presences'[p] = None <=> presences[p] = None
         /\ presences[p] # None =>
               /\ presences'[p].profile = presences[p].profile
               /\ presences'[p].passport = presences[p].passport
               /\ presences'[p].server = presences[p].server
               /\ presences'[p].node = presences[p].node
               /\ presences'[p].grant = presences[p].grant
         /\ presences'[p].st = "active" => presences[p].st = "active"
<1>1. CASE presences'[p] = presences[p]
  BY <1>1
<1>2. CASE /\ presences[p] # None
           /\ presences'[p] = [presences[p] EXCEPT !.st = "ended"]
  <2>1. presences[p] \in PresenceRow
    BY <1>2 DEF TypeOK, StoreTypeOK
  <2>2. presences'[p].st = "ended"
    BY <1>2, <2>1 DEF PresenceRow
  <2>3. presences'[p] # None
    BY <2>2 DEF None
  <2> QED
    BY <1>2, <2>1, <2>2, <2>3 DEF PresenceRow
<1> QED
  BY <1>1, <1>2 DEF Ends

\* A presence that exists is a row of the table.
LEMMA PresenceExists ==
  ASSUME TypeOK, NEW p \in Presence, presences[p] # None
  PROVE  presences[p] \in PresenceRow /\ presences[p].grant \in Grant
BY DEF TypeOK, StoreTypeOK, PresenceRow

\* An idle request holds nothing and is at no stage of admission.
LEMMA IdleNowhere ==
  /\ Idle.st \notin Holding
  /\ Idle.st \notin Seated
  /\ Idle.st \notin Admitting
BY DEF Idle, Holding, Seated, Admitting

\* A quiet step keeps grants and presences in agreement.
LEMMA BooksQuiet == TypeInv /\ BooksInv /\ Quiet => BooksInv'
<1> SUFFICES ASSUME TypeInv, BooksInv, Quiet PROVE BooksInv'
  OBVIOUS
<1>0. TypeOK /\ Ends /\ UNCHANGED grants
  BY DEF TypeInv, Quiet
<1>1. ASSUME NEW r \in Req, reqs'[r].st \in Holding
      PROVE  /\ reqs[r].st \in Holding
             /\ reqs'[r].grant = reqs[r].grant
             /\ reqs'[r].slot = reqs[r].slot
  BY <1>1, IdleNowhere DEF Quiet, Continues
<1>2. GrantInHand'
  BY <1>0, <1>1, EndsKeeps DEF BooksInv, GrantInHand
<1>3. GrantHeldOnce'
  BY <1>1 DEF BooksInv, GrantHeldOnce
<1>4. PresenceBackedByGrant'
  BY <1>0, EndsKeeps DEF BooksInv, PresenceBackedByGrant
<1>5. OneActivePerServer'
  <2>1. \A p \in Presence : Active(p)' => Active(p) /\ presences[p] # None
    BY <1>0, EndsKeeps DEF Active, None
  <2> QED
    BY <1>0, <2>1, EndsKeeps DEF BooksInv, OneActivePerServer
<1> QED
  BY <1>2, <1>3, <1>4, <1>5 DEF BooksInv

\* The two actions that write grants and nothing else.
LEMMA BooksPortal ==
  ASSUME TypeInv, BooksInv, NEW g \in Grant,
         \/ GrantExpires(g)
         \/ \E u \in Profile, pp \in Passport, s \in Server : IssueGrant(g, u, pp, s)
  PROVE  BooksInv'
<1>0. TypeOK /\ UNCHANGED <<presences, reqs>>
  BY DEF TypeInv, GrantExpires, IssueGrant
\* Neither touches what the invariant says of a consumed grant.
<1>1. ASSUME NEW h \in Grant, grants[h].st = "consumed"
      PROVE  /\ grants'[h].st = "consumed"
             /\ grants'[h].profile = grants[h].profile
             /\ grants'[h].passport = grants[h].passport
             /\ grants'[h].server = grants[h].server
  <2>1. grants[h] \in GrantRow
    BY <1>0, <1>1 DEF TypeOK, StoreTypeOK, None
  <2> QED
    BY <1>0, <1>1, <2>1 DEF GrantExpires, ExpireGrant, IssueGrant,
                      SaveTransferGrant, TypeOK, StoreTypeOK, GrantRow, None
<1>2. \A r \in Req : reqs[r].st \in Holding => reqs[r].grant \in Grant
  BY <1>0, IdleNowhere, ReqRunning
<1>3. GrantInHand'
  BY <1>0, <1>1, <1>2 DEF BooksInv, GrantInHand
<1>4. PresenceBackedByGrant'
  BY <1>0, <1>1, PresenceExists DEF BooksInv, PresenceBackedByGrant
<1> QED
  BY <1>0, <1>3, <1>4 DEF BooksInv, GrantHeldOnce, OneActivePerServer, Active

\* Consume: the grant was pending, so no other request holds it and no
\* presence came of it.
LEMMA BooksConsume ==
  ASSUME TypeInv, BooksInv, NEW r \in Req, Consume(r)
  PROVE  BooksInv'
<1> DEFINE g == reqs[r].grant
<1>0. TypeOK /\ UNCHANGED presences /\ reqs[r] # Idle
  BY DEF TypeInv, Consume, Idle
<1>1. /\ g \in Grant /\ reqs[r] \in ReqRec
      /\ grants[g] \in GrantRow
      /\ grants[g].st = "pending"
      /\ grants[g].profile = reqs[r].slot[2]
      /\ grants[g].server = ServerOf[reqs[r].slot[1]]
  BY <1>0, ReqRunning DEF Consume, ConsumeTransferGrant, Consumable, TypeOK,
                          StoreTypeOK, None
<1>2. /\ \A h \in Grant : h # g => grants'[h] = grants[h]
      /\ grants'[g].st = "consumed"
      /\ grants'[g].profile = grants[g].profile
      /\ grants'[g].passport = grants[g].passport
      /\ grants'[g].server = grants[g].server
  BY <1>0, <1>1 DEF Consume, ConsumeTransferGrant, TypeOK, StoreTypeOK, GrantRow
<1>3. /\ reqs'[r].st = "burned"
      /\ reqs'[r].grant = g
      /\ reqs'[r].slot = reqs[r].slot
      /\ \A q \in Req : q # r => reqs'[q] = reqs[q]
  BY <1>0, <1>1 DEF Consume, TypeOK, ReqRec
<1>4. \A q \in Req : reqs[q].st \in Holding => reqs[q].grant \in Grant /\ reqs[q].grant # g
  BY <1>0, <1>1, IdleNowhere, ReqRunning DEF BooksInv, GrantInHand
<1>5. \A p \in Presence : presences[p] # None => presences[p].grant # g
  BY <1>1 DEF BooksInv, PresenceBackedByGrant
<1> HIDE DEF g
<1>6. GrantInHand'
  <2> SUFFICES ASSUME NEW q \in Req, reqs'[q].st \in Holding
               PROVE  /\ grants'[reqs'[q].grant].st = "consumed"
                      /\ grants'[reqs'[q].grant].profile = reqs'[q].slot[2]
                      /\ grants'[reqs'[q].grant].server = ServerOf[reqs'[q].slot[1]]
                      /\ \A p \in Presence : presences'[p] # None =>
                            presences'[p].grant # reqs'[q].grant
    BY DEF GrantInHand
  <2>1. CASE q = r
    BY <1>0, <1>1, <1>2, <1>3, <1>5, <2>1
  <2>2. CASE q # r
    BY <1>0, <1>2, <1>3, <1>4, <2>2 DEF BooksInv, GrantInHand
  <2> QED
    BY <2>1, <2>2
<1>7. GrantHeldOnce'
  BY <1>3, <1>4 DEF BooksInv, GrantHeldOnce
<1>8. PresenceBackedByGrant'
  BY <1>0, <1>2, <1>5, PresenceExists DEF BooksInv, PresenceBackedByGrant
<1> QED
  BY <1>0, <1>6, <1>7, <1>8 DEF BooksInv, OneActivePerServer, Active

\* Insert: the request passes the grant it alone held to the presence, and
\* UpsertPresence found no other active presence of the profile there.
LEMMA BooksInsert ==
  ASSUME TypeInv, BooksInv, NEW r \in Req, NEW p \in Presence, Insert(r, p)
  PROVE  BooksInv'
<1> DEFINE g == reqs[r].grant
           u == reqs[r].slot[2]
           n == reqs[r].slot[1]
<1>0. TypeOK /\ UNCHANGED grants /\ reqs[r] # Idle /\ reqs[r].st = "insert"
  BY DEF TypeInv, Insert, Idle
<1>1. g \in Grant /\ reqs[r] \in ReqRec
  BY <1>0, ReqRunning
<1>2. /\ presences[p] = None
      /\ ActivePresencesFor(u, ServerOf[n]) = {}
      /\ presences' = [presences EXCEPT ![p] =
            [st |-> "active", profile |-> u, passport |-> grants[g].passport,
             server |-> ServerOf[n], node |-> n, grant |-> g]]
  BY DEF Insert, UpsertPresence, UpsertAllowed
<1>3. /\ presences'[p].st = "active"
      /\ presences'[p].profile = u
      /\ presences'[p].passport = grants[g].passport
      /\ presences'[p].server = ServerOf[n]
      /\ presences'[p].node = n
      /\ presences'[p].grant = g
      /\ \A q \in Presence : q # p => presences'[q] = presences[q]
  BY <1>0, <1>2 DEF TypeOK, StoreTypeOK
<1>4. /\ reqs'[r].st = "ok"
      /\ \A q \in Req : q # r => reqs'[q] = reqs[q]
  BY <1>0, <1>1 DEF Insert, TypeOK, ReqRec
<1>5. /\ grants[g].st = "consumed"
      /\ grants[g].profile = u
      /\ grants[g].server = ServerOf[n]
      /\ \A q \in Presence : presences[q] # None => presences[q].grant # g
  BY <1>0 DEF BooksInv, GrantInHand, Holding
<1>6. \A q \in Req : q # r /\ reqs[q].st \in Holding => reqs[q].grant # g
  BY <1>0 DEF BooksInv, GrantHeldOnce, Holding
<1> HIDE DEF g, u, n
<1>7. GrantInHand'
  BY <1>0, <1>3, <1>4, <1>6 DEF BooksInv, GrantInHand, Holding
<1>8. GrantHeldOnce'
  BY <1>4 DEF BooksInv, GrantHeldOnce, Holding
<1>9. PresenceBackedByGrant'
  BY <1>0, <1>2, <1>3, <1>5 DEF BooksInv, PresenceBackedByGrant
<1>10. OneActivePerServer'
  <2>1. \A q \in Presence : q # p /\ presences[q].st = "active" =>
           ~(presences[q].profile = u /\ presences[q].server = ServerOf[n])
    BY <1>2 DEF ActivePresencesFor, Active
  <2> QED
    BY <1>3, <2>1 DEF BooksInv, OneActivePerServer, Active
<1> QED
  BY <1>7, <1>8, <1>9, <1>10 DEF BooksInv

\* The special actions that neither consume a grant nor create a presence.
LEMMA BooksOther ==
  ASSUME TypeInv, BooksInv, UNCHANGED <<grants, presences>>,
         \A r \in Req : reqs'[r].st \in Holding =>
            /\ reqs[r].st \in Holding
            /\ reqs'[r].grant = reqs[r].grant
            /\ reqs'[r].slot = reqs[r].slot
  PROVE  BooksInv'
<1>1. GrantInHand' /\ GrantHeldOnce'
  BY DEF BooksInv, GrantInHand, GrantHeldOnce
<1> QED
  BY <1>1 DEF BooksInv, PresenceBackedByGrant, OneActivePerServer, Active

\* What the other special actions do to requests.
LEMMA SpecialReqs ==
  ASSUME TypeInv, NEW r \in Req, reqs[r] # Idle, NEW st,
         reqs' = [reqs EXCEPT ![r].st = st]
  PROVE  /\ reqs[r] \in ReqRec
         /\ reqs'[r].st = st
         /\ reqs'[r].grant = reqs[r].grant
         /\ reqs'[r].slot = reqs[r].slot
         /\ reqs'[r].presence = reqs[r].presence
         /\ reqs'[r].standing = reqs[r].standing
         /\ \A q \in Req : q # r => reqs'[q] = reqs[q]
BY ReqRunning DEF TypeInv, TypeOK, ReqRec

\* Every step keeps grants and presences in agreement.
LEMMA BooksStep == TypeInv /\ BooksInv /\ [Next]_vars => BooksInv'
<1> SUFFICES ASSUME TypeInv, BooksInv, Quiet \/ Special PROVE BooksInv'
  BY StepKinds
<1>0. TypeOK
  BY DEF TypeInv
<1>1. ASSUME NEW c \in Session, NEW g \in Grant, NEW r \in Req,
             CookieReceive(c, g, r)
      PROVE  BooksInv'
  <2>1. reqs'[r].st = "sent" /\ \A q \in Req : q # r => reqs'[q] = reqs[q]
    BY <1>0, <1>1 DEF CookieReceive, TypeOK
  <2> QED
    BY <1>1, <2>1, BooksOther DEF CookieReceive, Holding
<1>2. ASSUME NEW r \in Req, CheckBan(r)
      PROVE  BooksInv'
  <2>1. reqs[r] # Idle /\ reqs[r].st \in Holding
    BY <1>2 DEF CheckBan, Idle, Holding
  <2> QED
    BY <1>2, <2>1, SpecialReqs, BooksOther DEF CheckBan
<1>3. ASSUME NEW r \in Req, ReplyAccepted(r)
      PROVE  BooksInv'
  <2>1. reqs[r] # Idle
    BY <1>3 DEF ReplyAccepted, Idle
  <2> QED
    BY <1>3, <2>1, SpecialReqs, BooksOther DEF ReplyAccepted, Holding
<1>4. ASSUME NEW r \in Req, RecordPresence(r)
      PROVE  BooksInv'
  <2>1. reqs'[r] = Idle /\ \A q \in Req : q # r => reqs'[q] = reqs[q]
    BY <1>0, <1>4 DEF RecordPresence, TypeOK
  <2> QED
    BY <1>4, <2>1, BooksOther, IdleNowhere DEF RecordPresence
<1> QED
  BY <1>1, <1>2, <1>3, <1>4, BooksQuiet, BooksPortal, BooksConsume, BooksInsert
     DEF Special

\* Empty books agree.
LEMMA BooksInit == Init => BooksInv
BY DEF Init, StoreInit, BooksInv, GrantInHand, GrantHeldOnce, PresenceBackedByGrant,
       OneActivePerServer, Active, Holding, Idle, None

\* Grants, requests and presences agree throughout.
LEMMA BooksInvariance == Spec => []BooksInv
<1> QED
  BY BooksInit, BooksStep, TypeInvariance, PTL DEF Spec

\* ConsumeTransferGrant and handleNodeConsumeTransferGrant: a grant opens at
\* most one presence, for the profile, passport and server it was issued for.
THEOREM GrantIsSingleUse == Spec => []PresenceBackedByGrant
<1>1. BooksInv => PresenceBackedByGrant
  BY DEF BooksInv
<1> QED
  BY <1>1, BooksInvariance, PTL

\* UpsertPresence: a profile has at most one active presence per server, with
\* any number of consumes, checks and administrators at work.
THEOREM OnlineOncePerServer == Spec => []OneActivePerServer
<1>1. BooksInv => OneActivePerServer
  BY DEF BooksInv
<1> QED
  BY <1>1, BooksInvariance, PTL

(***************************************************************************)
(* 5. The gates.                                                           *)
(***************************************************************************)
\* PresenceOfSlot in the next state, of values of either state.
OfSlotNext(p, x) ==
    /\ presences'[p] # None
    /\ x = <<presences'[p].node, presences'[p].profile>>

\* A presence stays the presence of its slot.
LEMMA SlotKept ==
  ASSUME TypeOK, Ends
  PROVE  \A p \in Presence : \A x : PresenceOfSlot(p, x) => OfSlotNext(p, x)
BY EndsKeeps DEF PresenceOfSlot, OfSlotNext

\* Every step keeps the gates' books backed by Core's.
LEMMA GateStep == TypeInv /\ GateInv /\ [Next]_vars => GateInv'
<1> SUFFICES ASSUME TypeInv, GateInv, Quiet \/ Special PROVE GateInv'
  BY StepKinds
<1>0. TypeOK
  BY DEF TypeInv
<1>1. CASE Quiet
  <2>1. Ends
    BY <1>1 DEF Quiet
  <2>2. ASSUME NEW r \in Req, reqs'[r].st \in Seated
        PROVE  /\ reqs'[r].presence \in Presence
               /\ OfSlotNext(reqs'[r].presence, reqs'[r].slot)
    <3>1. /\ reqs[r].st \in Seated
          /\ reqs'[r].presence = reqs[r].presence
          /\ reqs'[r].slot = reqs[r].slot
      BY <1>1, <2>2, IdleNowhere DEF Quiet, Continues
    <3> QED
      BY <1>0, <2>1, <3>1, SlotKept DEF GateInv, SeatGiven
  <2>3. SeatGiven'
    BY <2>2 DEF SeatGiven, PresenceOfSlot, OfSlotNext
  <2>4. \A x \in allowed' : \E p \in Presence : OfSlotNext(p, x)
    BY <1>0, <1>1, <2>1, SlotKept DEF Quiet, GatesOnlyForget, GateInv,
                                      LetThroughWasAdmitted
  <2>5. \A x \in Slot : gatePres'[x] # NoPresence => OfSlotNext(gatePres'[x], x)
    BY <1>0, <1>1, <2>1, SlotKept
       DEF Quiet, GatesOnlyForget, GateInv, LetThroughWasAdmitted, TypeOK, GateTypeOK
  <2> QED
    BY <2>3, <2>4, <2>5 DEF GateInv, LetThroughWasAdmitted, PresenceOfSlot, OfSlotNext
<1>2. CASE \/ \E g \in Grant : GrantExpires(g)
           \/ \E g \in Grant, u \in Profile, pp \in Passport, s \in Server :
                 IssueGrant(g, u, pp, s)
  BY <1>2 DEF GrantExpires, IssueGrant, GateInv, SeatGiven, LetThroughWasAdmitted,
              PresenceOfSlot
\* Neither of these reaches Seated.
<1>3. ASSUME UNCHANGED <<presences, allowed, gatePres>>,
             \A r \in Req : reqs'[r].st \in Seated => reqs'[r] = reqs[r]
      PROVE  GateInv'
  BY <1>3 DEF GateInv, SeatGiven, LetThroughWasAdmitted, PresenceOfSlot
<1>4. ASSUME NEW c \in Session, NEW g \in Grant, NEW r \in Req,
             CookieReceive(c, g, r)
      PROVE  GateInv'
  <2>1. reqs'[r].st = "sent" /\ \A q \in Req : q # r => reqs'[q] = reqs[q]
    BY <1>0, <1>4 DEF CookieReceive, TypeOK
  <2> QED
    BY <1>3, <1>4, <2>1 DEF CookieReceive, OnCookieReceive, Seated
<1>5. ASSUME NEW r \in Req, Consume(r) \/ CheckBan(r)
      PROVE  GateInv'
  <2>1. reqs[r] # Idle
    BY <1>5 DEF Consume, CheckBan, Idle
  <2>2. PICK st : st \notin Seated /\ reqs' = [reqs EXCEPT ![r].st = st]
    BY <1>5 DEF Consume, CheckBan, Seated
  <2> QED
    BY <1>3, <1>5, <2>1, <2>2, SpecialReqs DEF Consume, CheckBan
<1>6. ASSUME NEW r \in Req, NEW p \in Presence, Insert(r, p)
      PROVE  GateInv'
  <2>1. reqs[r] # Idle
    BY <1>6 DEF Insert, Idle
  <2>2. reqs[r] \in ReqRec /\ reqs[r].slot \in Slot
    BY <1>0, <2>1, ReqRunning
  <2>3. /\ reqs'[r].presence = p
        /\ reqs'[r].slot = reqs[r].slot
        /\ \A q \in Req : q # r => reqs'[q] = reqs[q]
    BY <1>0, <1>6, <2>2 DEF Insert, TypeOK, ReqRec
  <2>4. /\ presences[p] = None
        /\ presences'[p].st = "active"
        /\ presences'[p].node = reqs[r].slot[1]
        /\ presences'[p].profile = reqs[r].slot[2]
        /\ \A q \in Presence : q # p => presences'[q] = presences[q]
    BY <1>0, <1>6 DEF Insert, UpsertPresence, TypeOK, StoreTypeOK
  <2>5. PresenceOfSlot(p, reqs[r].slot)'
    <3>1. presences'[p] # None
      BY <2>4 DEF None
    <3>2. reqs[r].slot = <<reqs[r].slot[1], reqs[r].slot[2]>>
      BY <2>2 DEF Slot
    <3>3. (presences'[p].node = reqs[r].slot[1]) /\ (presences'[p].profile = reqs[r].slot[2])
      BY <2>4
    <3>4. reqs[r].slot = <<presences'[p].node, presences'[p].profile>>
      BY <3>2, <3>3
    <3>5. reqs'[r].slot = <<presences'[p].node, presences'[p].profile>>
      BY <3>4, <2>3
    <3> QED
      BY <3>1, <3>5 DEF PresenceOfSlot
  <2>6. \A q \in Presence, x \in Slot : PresenceOfSlot(q, x) => PresenceOfSlot(q, x)'
    BY <2>4 DEF PresenceOfSlot
  <2>7. SeatGiven'
    BY <1>0, <2>3, <2>5, <2>6, ReqRunning, IdleNowhere DEF GateInv, SeatGiven
  <2> QED
    BY <1>0, <1>6, <2>6, <2>7 DEF Insert, GateInv, LetThroughWasAdmitted, TypeOK,
                                  GateTypeOK
<1>7. ASSUME NEW r \in Req, ReplyAccepted(r)
      PROVE  GateInv'
  <2>1. reqs[r] # Idle /\ reqs[r].st \in Seated
    BY <1>7 DEF ReplyAccepted, Idle, Seated
  <2>2. SeatGiven'
    BY <1>7, <2>1, SpecialReqs DEF ReplyAccepted, GateInv, SeatGiven, PresenceOfSlot
  <2>3. LetThroughWasAdmitted'
    BY <1>7, <2>1 DEF ReplyAccepted, AcceptAllow, GateInv, SeatGiven,
                      LetThroughWasAdmitted, PresenceOfSlot
  <2> QED
    BY <2>2, <2>3 DEF GateInv
<1>8. ASSUME NEW r \in Req, RecordPresence(r)
      PROVE  GateInv'
  <2>1. reqs[r].st \in Seated
    BY <1>8 DEF RecordPresence, Seated
  <2>2. reqs'[r] = Idle /\ \A q \in Req : q # r => reqs'[q] = reqs[q]
    BY <1>0, <1>8 DEF RecordPresence, TypeOK
  <2>3. SeatGiven'
    BY <1>8, <2>2, IdleNowhere DEF RecordPresence, GateInv, SeatGiven, PresenceOfSlot
  <2>4. LetThroughWasAdmitted'
    BY <1>0, <1>8, <2>1 DEF RecordPresence, AcceptRecord, GateInv, SeatGiven,
                      LetThroughWasAdmitted, PresenceOfSlot, TypeOK, GateTypeOK
  <2> QED
    BY <2>3, <2>4 DEF GateInv
<1> QED
  BY <1>1, <1>2, <1>4, <1>5, <1>6, <1>7, <1>8 DEF Special

\* A gate that let nobody through owes nothing.
LEMMA GateInitInv == Init => GateInv
BY DEF Init, StoreInit, GateInit, GateInv, SeatGiven, LetThroughWasAdmitted, Seated, Idle

\* The listener's sets, keyed by UUID and written by handlers that may run
\* late, only ever let through whom Core admitted on that gate.
THEOREM OnlyAdmittedLetThrough == Spec => []LetThroughWasAdmitted
<1>1. GateInv => LetThroughWasAdmitted
  BY DEF GateInv
<1> QED
  BY <1>1, GateInitInv, GateStep, TypeInvariance, PTL DEF Spec

(***************************************************************************)
(* 6. The timer.  A connection that is not validated stays in pending, or  *)
(* is excused: overtaken, or on a gate whose runtime was replaced.  Only   *)
(* RecordPresence takes a connection out of pending and leaves it on the   *)
(* proxy unexcused; it has let it through a step before.                   *)
(***************************************************************************)
Excused(c) == c \in overtaken \/ swaps[sess[c].slot[1]] # 0

\* What every other step does to the connections: a new one is pending, and
\* none that stays leaves a set without an excuse.
KeepsTimers ==
    \A c \in Session :
        /\ sess[c] # NoSession => sess'[c] # NoSession /\ sess'[c].slot = sess[c].slot
        /\ IsActive(c)' =>
              \/ sess[c] = NoSession /\ sess'[c].slot \in pending'
              \/ /\ IsActive(c)
                 /\ Excused(c) => Excused(c)'
                 /\ sess[c].slot \in allowed => sess'[c].slot \in allowed' \/ Excused(c)'
                 /\ sess[c].slot \in pending => sess'[c].slot \in pending' \/ Excused(c)'

\* A request is about a connection that came in on its slot.
KnowsSession ==
    \A r \in Req : reqs[r] # Idle =>
        /\ sess[reqs[r].sess] # NoSession
        /\ sess[reqs[r].sess].slot = reqs[r].slot

\* Between its two writes the connection is let through or excused.
HalfAccepted ==
    \A r \in Req : reqs[r].st = "accepting" /\ IsActive(reqs[r].sess) =>
        reqs[r].slot \in allowed \/ Excused(reqs[r].sess)

TimerInv == KnowsSession /\ HalfAccepted /\ UnvalidatedIsTimed

SameSets == UNCHANGED <<sess, pending, allowed, swaps, overtaken>>

\* A connection on the proxy has come in, on some slot.
LEMMA CameIn ==
  ASSUME TypeOK, NEW c \in Session
  PROVE  /\ IsActive(c) => sess[c] # NoSession
         /\ sess[c] # NoSession => sess[c].slot \in Slot /\ sess[c].slot[1] \in Gate
BY DEF TypeOK, GateTypeOK, IsActive, SessionRec, NoSession, Slot

\* A step that leaves the connections and the sets alone stops no timer.
LEMMA SameTimers == SameSets => KeepsTimers
BY DEF SameSets, KeepsTimers, Excused, IsActive

\* rejectWith takes out of the sets one connection, which it disconnects, and
\* overtakes the others of the slot.
LEMMA RejectTimers ==
  ASSUME TypeOK, NEW c \in Session, NEW x \in Slot, NEW cur \in BOOLEAN,
         sess[c] # NoSession, RejectWith(c, x, cur)
  PROVE  KeepsTimers
<1> SUFFICES ASSUME NEW d \in Session
    PROVE /\ sess[d] # NoSession => sess'[d] # NoSession /\ sess'[d].slot = sess[d].slot
          /\ IsActive(d)' =>
                /\ IsActive(d)
                /\ Excused(d) => Excused(d)'
                /\ sess[d].slot \in allowed => sess'[d].slot \in allowed' \/ Excused(d)'
                /\ sess[d].slot \in pending => sess'[d].slot \in pending' \/ Excused(d)'
  BY DEF KeepsTimers
<1>1. sess[d] # NoSession => sess'[d] # NoSession /\ sess'[d].slot = sess[d].slot
  BY DEF RejectWith, Drop, IsActive, TypeOK, GateTypeOK, SessionRec, NoSession
<1>2. IsActive(d)' => IsActive(d) /\ d # c /\ sess'[d] = sess[d]
  BY DEF RejectWith, Drop, IsActive, TypeOK, GateTypeOK, SessionRec, NoSession
<1> QED
  BY <1>1, <1>2 DEF RejectWith, Others, Excused

\* The connections change only as onDisconnect lets them.
LEMMA LeaveTimers ==
  ASSUME TypeOK, NEW c \in Session, Leave(c) \/ DisconnectEvent(c)
  PROVE  KeepsTimers
<1>1. ASSUME NEW d \in Session
      PROVE /\ sess[d] # NoSession => sess'[d] # NoSession /\ sess'[d].slot = sess[d].slot
            /\ IsActive(d)' => IsActive(d) /\ d # c /\ sess'[d] = sess[d]
  <2>1. CASE Leave(c)
    BY <2>1 DEF Leave, ConnectionLost, Drop, IsActive, TypeOK, GateTypeOK,
                SessionRec, NoSession
  <2>2. CASE DisconnectEvent(c)
    BY <2>2 DEF DisconnectEvent, OnDisconnectSets, OnDisconnectPresence, IsActive,
                TypeOK, GateTypeOK, SessionRec, NoSession
  <2> QED
    BY <2>1, <2>2
<1>2. CASE Leave(c)
  BY <1>1, <1>2 DEF Leave, ConnectionLost, KeepsTimers, Excused
<1>3. CASE DisconnectEvent(c)
  BY <1>1, <1>3 DEF DisconnectEvent, OnDisconnectSets, OnDisconnectPresence, Others,
                    KeepsTimers, Excused
<1> QED
  BY <1>2, <1>3

\* Every event of a gate.
LEMMA GateTimers == TypeInv /\ GateNext => KeepsTimers
<1> SUFFICES ASSUME TypeInv, GateNext PROVE KeepsTimers
  OBVIOUS
<1>0. TypeOK
  BY DEF TypeInv
<1>1. ASSUME NEW c \in Session, NEW x \in Slot, Login(c, x)
      PROVE  KeepsTimers
  <2>1. /\ sess[c] = NoSession
        /\ sess'[c].slot = x
        /\ \A d \in Session : d # c => sess'[d] = sess[d]
    BY <1>0, <1>1 DEF Login, OnLogin, TypeOK, GateTypeOK
  <2> QED
    BY <1>1, <2>1 DEF Login, OnLogin, KeepsTimers, Excused, IsActive
<1>2. ASSUME NEW c \in Session, CookieMissing(c) \/ TimedOut(c)
      PROVE  KeepsTimers
  <2>1. sess[c] # NoSession /\ sess[c].slot \in Slot
    BY <1>0, <1>2, CameIn DEF CookieMissing, OnCookieMissing, TimedOut, ValidationTimeout
  <2> QED
    BY <1>0, <1>2, <2>1, RejectTimers
       DEF CookieMissing, OnCookieMissing, TimedOut, ValidationTimeout
<1>3. ASSUME NEW c \in Session, NEW g \in Grant, NEW r \in Req, CookieReceive(c, g, r)
      PROVE  KeepsTimers
  BY <1>3, SameTimers DEF CookieReceive, OnCookieReceive, SameSets
<1>4. ASSUME NEW n \in Gate, ReplaceRuntime(n)
      PROVE  KeepsTimers
  <2>1. ASSUME NEW c \in Session, IsActive(c)
        PROVE  /\ Excused(c) => Excused(c)'
               /\ sess[c].slot[1] = n => Excused(c)'
    <3>1. sess[c].slot[1] \in Gate
      BY <1>0, <2>1, CameIn
    <3> QED
      BY <1>0, <1>4, <3>1 DEF ReplaceRuntime, RuntimeSwap, Excused, TypeOK, GateTypeOK
  <2>2. ASSUME NEW c \in Session, sess[c].slot[1] # n
        PROVE  /\ sess[c].slot \in pending => sess[c].slot \in pending'
               /\ sess[c].slot \in allowed => sess[c].slot \in allowed'
    BY <1>4, <2>2 DEF ReplaceRuntime, RuntimeSwap
  <2> QED
    BY <1>4, <2>1, <2>2 DEF ReplaceRuntime, RuntimeSwap, KeepsTimers, IsActive
<1> QED
  BY <1>0, <1>1, <1>2, <1>3, <1>4, LeaveTimers DEF GateNext

\* Every step of a consume and of its answer but RecordPresence.
LEMMA ConsumeTimers ==
  ASSUME TypeInv, KnowsSession, NEW r \in Req, ConsumeStep(r)
  PROVE  KeepsTimers \/ RecordPresence(r)
<1>0. /\ TypeOK /\ reqs[r] # Idle
      /\ reqs[r].sess \in Session /\ reqs[r].slot \in Slot
      /\ sess[reqs[r].sess] # NoSession
  BY ConsumeStepRuns, ReqRunning DEF TypeInv, KnowsSession, ReqRec
<1>1. CASE \/ Refuse(r) \/ Consume(r) \/ RefuseIdentity(r) \/ CheckBan(r)
           \/ ListExisting(r) \/ RefreshDone(r) \/ InsertFails(r) \/ Relist(r)
           \/ DiscardReply(r)
  BY <1>1, SameTimers DEF SameSets, Refuse, Consume, RefuseIdentity, CheckBan,
     ListExisting, RefreshDone, InsertFails, Relist, DiscardReply
<1>2. ASSUME NEW p \in Presence, ConflictAsk(r, p) \/ Insert(r, p)
      PROVE  KeepsTimers
  BY <1>2, SameTimers DEF SameSets, ConflictAsk, Insert
<1>3. CASE ReplyRejected(r) \/ GateGivesUp(r)
  <2>1. Current(r) \in BOOLEAN
    BY DEF Current
  <2> QED
    BY <1>0, <1>3, <2>1, RejectTimers DEF ReplyRejected, GateGivesUp
<1>4. CASE ReplyAccepted(r)
  BY <1>4 DEF ReplyAccepted, AcceptAllow, KeepsTimers, Excused, IsActive
<1> QED
  BY <1>1, <1>2, <1>3, <1>4 DEF ConsumeStep

\* Checks, node actions and administrators at most drop connections.
LEMMA OtherTimers ==
  TypeInv /\ (PortalNext \/ PresenceNext \/ AdminNext \/ UNCHANGED vars) => KeepsTimers
<1> SUFFICES ASSUME TypeInv, PortalNext \/ PresenceNext \/ AdminNext \/ UNCHANGED vars
             PROVE  KeepsTimers
  OBVIOUS
<1>1. CASE PortalNext \/ UNCHANGED vars
  BY <1>1, SameTimers DEF SameSets, PortalNext, GrantExpires, IssueGrant, vars
<1>2. CASE AdminNext
  BY <1>2, SameTimers DEF SameSets, AdminNext, BanTarget, KickTarget, KickPresence,
     ListAndDisconnect, EndListed, DisconnectKicked, BanExpires, BanRevoked, BanExtended
<1>3. ASSUME NEW p \in Presence, ExecuteDisconnect(p)
      PROVE  KeepsTimers
  BY <1>3 DEF ExecuteDisconnect, Drop, KeepsTimers, Excused, IsActive, TypeInv, TypeOK,
              GateTypeOK, SessionRec, NoSession
<1>4. CASE PresenceNext
  <2>1. CASE SweepStart \/ \E o \in Req \cup {Reconciler} :
                GateAnswers(o) \/ ProbeAnswered(o) \/ ProbeFails(o)
    BY <2>1, SameTimers DEF SameSets, SweepStart, GateAnswers, ProbeAnswered, ProbeFails
  <2>2. CASE \E p \in Presence : SweepAsk(p) \/ EndPresenceCall(p) \/ EndPresenceLost(p)
                                 \/ ExecuteCheck(p)
    BY <2>2, SameTimers DEF SameSets, SweepAsk, EndPresenceCall, EndPresenceLost,
                            ExecuteCheck
  <2>3. CASE \/ \E k \in acks : AckArrives(k) \/ AckLost(k)
             \/ \E a \in actions : ActionExpires(a)
    BY <2>3, SameTimers DEF SameSets, AckArrives, AckLost, ActionExpires
  <2> QED
    BY <1>3, <1>4, <2>1, <2>2, <2>3 DEF PresenceNext
<1> QED
  BY <1>1, <1>2, <1>4

\* How a request is found again after a step.
LEMMA RequestFollows ==
  ASSUME TypeInv, [Next]_vars, NEW r \in Req, reqs'[r] # Idle
  PROVE  \/ /\ reqs[r] # Idle
            /\ reqs'[r].sess = reqs[r].sess
            /\ reqs'[r].slot = reqs[r].slot
            /\ reqs'[r].st = "accepting" => reqs[r].st = "accepting" \/ ReplyAccepted(r)
         \/ \E c \in Session, g \in Grant :
               CookieReceive(c, g, r) /\ reqs'[r].sess = c /\ reqs'[r].slot = sess[c].slot
                                      /\ reqs'[r].st = "sent"
<1>0. TypeOK
  BY DEF TypeInv
<1>1. CASE Quiet
  BY <1>1 DEF Quiet, Continues
<1>2. ASSUME UNCHANGED reqs
      PROVE  /\ reqs[r] # Idle /\ reqs'[r].sess = reqs[r].sess /\ reqs'[r].slot = reqs[r].slot
             /\ reqs'[r].st = "accepting" => reqs[r].st = "accepting" \/ ReplyAccepted(r)
  BY <1>2
<1>3. CASE \/ \E g \in Grant : GrantExpires(g)
           \/ \E g \in Grant, u \in Profile, pp \in Passport, s \in Server :
                 IssueGrant(g, u, pp, s)
  BY <1>2, <1>3 DEF GrantExpires, IssueGrant
<1>4. ASSUME NEW c \in Session, NEW g \in Grant, NEW q \in Req, CookieReceive(c, g, q)
      PROVE  \/ reqs'[r] = reqs[r]
             \/ /\ r = q /\ reqs'[r].st = "sent"
                /\ reqs'[r].sess = c /\ reqs'[r].slot = sess[c].slot
  BY <1>0, <1>4 DEF CookieReceive, TypeOK
<1>5. ASSUME NEW q \in Req, Consume(q) \/ CheckBan(q) \/ ReplyAccepted(q)
      PROVE  \/ reqs'[r] = reqs[r]
             \/ /\ r = q /\ reqs[r] # Idle
                /\ reqs'[r].sess = reqs[r].sess /\ reqs'[r].slot = reqs[r].slot
                /\ reqs'[r].st = "accepting" => ReplyAccepted(r)
  <2>1. reqs[q] # Idle
    BY <1>5 DEF Consume, CheckBan, ReplyAccepted, Idle
  <2>2. reqs[q] \in ReqRec
    BY <1>0, <2>1, ReqRunning
  <2>3. PICK st : /\ reqs' = [reqs EXCEPT ![q].st = st]
                  /\ st = "accepting" => ReplyAccepted(q)
    BY <1>5 DEF Consume, CheckBan, ReplyAccepted
  <2> QED
    BY <1>0, <2>1, <2>2, <2>3 DEF TypeOK, ReqRec
<1>6. ASSUME NEW q \in Req, NEW p \in Presence, Insert(q, p)
      PROVE  \/ reqs'[r] = reqs[r]
             \/ /\ r = q /\ reqs[r] # Idle
                /\ reqs'[r].sess = reqs[r].sess /\ reqs'[r].slot = reqs[r].slot
                /\ reqs'[r].st = "ok"
  <2>1. reqs[q] # Idle
    BY <1>6 DEF Insert, Idle
  <2>2. reqs[q] \in ReqRec
    BY <1>0, <2>1, ReqRunning
  <2> QED
    BY <1>0, <1>6, <2>1, <2>2 DEF Insert, TypeOK, ReqRec
<1>7. ASSUME NEW q \in Req, RecordPresence(q)
      PROVE  reqs'[r] = reqs[r]
  BY <1>0, <1>7 DEF RecordPresence, TypeOK
<1> QED
  BY <1>1, <1>3, <1>4, <1>5, <1>6, <1>7, StepKinds DEF Special

\* Each step but RecordPresence stops no timer.
LEMMA StepTimers ==
  ASSUME TypeInv, KnowsSession, [Next]_vars
  PROVE  KeepsTimers \/ \E r \in Req : RecordPresence(r)
BY GateTimers, ConsumeTimers, OtherTimers DEF Next, ConsumeNext

\* RecordPresence takes its own connection, which is let through or excused,
\* out of pending, and overtakes the others of the slot.
LEMMA TimersRecorded ==
  ASSUME TypeInv, TimerInv, NEW r \in Req, RecordPresence(r)
  PROVE  TimerInv'
<1>0. /\ TypeOK /\ reqs[r] # Idle /\ reqs[r].st = "accepting"
      /\ reqs[r].sess \in Session
      /\ sess[reqs[r].sess].slot = reqs[r].slot
  BY ReqRunning DEF TypeInv, RecordPresence, Idle, ReqRec, TimerInv, KnowsSession
<1>1. /\ UNCHANGED <<sess, allowed, swaps>>
      /\ pending' = pending \ {reqs[r].slot}
      /\ overtaken' = overtaken \cup Others(reqs[r].sess, reqs[r].slot)
  BY DEF RecordPresence, AcceptRecord
<1>2. \A q \in Req : reqs'[q] # Idle => reqs'[q] = reqs[q]
  BY <1>0 DEF RecordPresence, TypeOK
<1>3. \A c \in Session : Excused(c) => Excused(c)'
  BY <1>1 DEF Excused
<1>4. KnowsSession'
  BY <1>1, <1>2 DEF TimerInv, KnowsSession
<1>5. HalfAccepted'
  <2> SUFFICES ASSUME NEW q \in Req, NEW c, c = reqs'[q].sess,
                      reqs'[q].st = "accepting", IsActive(c)'
               PROVE  reqs'[q].slot \in allowed' \/ Excused(c)'
    BY DEF HalfAccepted, IsActive, Excused
  <2>1. reqs'[q] = reqs[q] /\ reqs[q] # Idle
    BY <1>2 DEF Idle
  <2>2. c = reqs[q].sess /\ c \in Session
    BY <1>0, <2>1, ReqRunning DEF ReqRec
  <2>3. IsActive(c)
    BY <1>1 DEF IsActive
  <2> QED
    BY <1>1, <1>3, <2>1, <2>2, <2>3 DEF TimerInv, HalfAccepted
<1>6. ASSUME NEW c \in Session, Unvalidated(c)'
      PROVE  sess'[c].slot \in pending' \/ Excused(c)'
  <2>1. Unvalidated(c) /\ IsActive(c) /\ (sess[c].slot \in pending \/ Excused(c))
    BY <1>1, <1>6 DEF Unvalidated, IsActive, TimerInv, UnvalidatedIsTimed, Excused
  <2>2. CASE c = reqs[r].sess
    BY <1>0, <1>3, <2>1, <2>2 DEF TimerInv, HalfAccepted, Unvalidated
  <2>3. CASE c # reqs[r].sess /\ sess[c].slot = reqs[r].slot
    BY <1>1, <2>1, <2>3 DEF Others, Excused
  <2>4. CASE sess[c].slot # reqs[r].slot
    BY <1>1, <1>3, <2>1, <2>4
  <2> QED
    BY <2>2, <2>3, <2>4
<1>7. UnvalidatedIsTimed'
  BY <1>6 DEF UnvalidatedIsTimed, Excused
<1> QED
  BY <1>4, <1>5, <1>7 DEF TimerInv

\* Every step keeps a timer, or an excuse, for who is not validated.
LEMMA TimerStep == TypeInv /\ TimerInv /\ [Next]_vars => TimerInv'
<1> SUFFICES ASSUME TypeInv, TimerInv, [Next]_vars, KeepsTimers PROVE TimerInv'
  BY StepTimers, TimersRecorded DEF TimerInv
<1>0. TypeOK
  BY DEF TypeInv
<1>1. ASSUME NEW r \in Req, reqs'[r] # Idle
      PROVE  /\ reqs'[r].sess \in Session
             /\ sess'[reqs'[r].sess] # NoSession
             /\ sess'[reqs'[r].sess].slot = reqs'[r].slot
             /\ sess[reqs'[r].sess] # NoSession
             /\ sess[reqs'[r].sess].slot = reqs'[r].slot
  <2>1. /\ reqs'[r].sess \in Session
        /\ sess[reqs'[r].sess] # NoSession
        /\ sess[reqs'[r].sess].slot = reqs'[r].slot
    <3>1. CASE reqs[r] # Idle /\ reqs'[r].sess = reqs[r].sess /\ reqs'[r].slot = reqs[r].slot
      BY <1>0, <3>1, ReqRunning DEF TimerInv, KnowsSession, ReqRec
    <3>2. ASSUME NEW c \in Session, NEW g \in Grant, CookieReceive(c, g, r),
                 reqs'[r].sess = c, reqs'[r].slot = sess[c].slot
          PROVE  sess[c] # NoSession
      BY <1>0, <3>2, CameIn DEF CookieReceive, OnCookieReceive
    <3> QED
      BY <1>1, <3>1, <3>2, RequestFollows
  <2> QED
    BY <2>1 DEF KeepsTimers
<1>2. KnowsSession'
  BY <1>1 DEF KnowsSession
<1>3. HalfAccepted'
  <2> SUFFICES ASSUME NEW r \in Req, NEW c, c = reqs'[r].sess,
                      reqs'[r].st = "accepting", IsActive(c)'
               PROVE  reqs'[r].slot \in allowed' \/ Excused(c)'
    BY DEF HalfAccepted, IsActive, Excused
  <2>1. reqs'[r] # Idle
    BY DEF Idle
  <2>2. /\ c \in Session /\ sess[c] # NoSession
        /\ sess[c].slot = reqs'[r].slot /\ sess'[c].slot = reqs'[r].slot
    BY <1>1, <2>1
  <2>3. \/ reqs[r].st = "accepting" /\ reqs[r].sess = c /\ reqs[r].slot = reqs'[r].slot
        \/ ReplyAccepted(r) /\ reqs[r].slot = reqs'[r].slot
    BY <2>1, RequestFollows
  <2>4. ASSUME reqs[r].st = "accepting", reqs[r].sess = c, reqs[r].slot = reqs'[r].slot
        PROVE  reqs'[r].slot \in allowed' \/ Excused(c)'
    <3>1. IsActive(c)
      BY <2>2 DEF KeepsTimers
    <3>2. reqs[r].slot \in allowed \/ Excused(c)
      BY <2>4, <3>1 DEF TimerInv, HalfAccepted
    <3> QED
      BY <2>2, <2>4, <3>2 DEF KeepsTimers
  <2>5. ASSUME ReplyAccepted(r), reqs[r].slot = reqs'[r].slot
        PROVE  reqs'[r].slot \in allowed'
    BY <2>5 DEF ReplyAccepted, AcceptAllow
  <2> QED
    BY <2>3, <2>4, <2>5
<1>4. ASSUME NEW c \in Session, Unvalidated(c)'
      PROVE  sess'[c].slot \in pending' \/ Excused(c)'
  <2>1. IsActive(c)' /\ sess'[c].slot \notin allowed'
    BY <1>4 DEF Unvalidated
  <2>2. CASE IsActive(c)
    <3>1. sess[c] # NoSession /\ sess'[c].slot = sess[c].slot
      BY <1>0, <2>2, CameIn DEF KeepsTimers
    <3>2. sess[c].slot \in allowed \/ sess[c].slot \in pending \/ Excused(c)
      BY <2>2 DEF TimerInv, UnvalidatedIsTimed, Unvalidated, Excused
    <3> QED
      BY <2>1, <3>1, <3>2 DEF KeepsTimers
  <2> QED
    BY <2>1, <2>2 DEF KeepsTimers
<1>5. UnvalidatedIsTimed'
  BY <1>4 DEF UnvalidatedIsTimed, Excused
<1> QED
  BY <1>2, <1>3, <1>5 DEF TimerInv

\* scheduleValidationTimeout finds a connection that is not validated in
\* pending, unless a late handler of the slot or a replacement of the runtime
\* took it out.
THEOREM UnvalidatedAreTimed == Spec => []UnvalidatedIsTimed
<1>1. Init => TimerInv
  BY DEF Init, GateInit, TimerInv, KnowsSession, HalfAccepted, UnvalidatedIsTimed,
         Unvalidated, IsActive, NoSession, Idle
<1>2. TimerInv => UnvalidatedIsTimed
  BY DEF TimerInv
<1> QED
  BY <1>1, <1>2, TimerStep, TypeInvariance, PTL DEF Spec

(***************************************************************************)
(* 7. Bans.                                                                *)
(***************************************************************************)
\* The bans on record for a request still stand after a step that keeps its
\* grant's identity and treats bans as Quiet does.
LEMMA StandingKept ==
  ASSUME TypeInv, StandingInForce, BansKept, NEW r \in Req, reqs[r] # Idle,
         reqs'[r] # Idle,
         reqs'[r].grant = reqs[r].grant,
         reqs'[r].standing \subseteq reqs[r].standing,
         grants'[reqs[r].grant].profile = grants[reqs[r].grant].profile,
         grants'[reqs[r].grant].passport = grants[reqs[r].grant].passport
  PROVE  reqs'[r].standing \subseteq BansOn(grants[reqs[r].grant].profile,
                                            grants[reqs[r].grant].passport)'
BY DEF StandingInForce, BansKept, BansOn

\* Every step keeps the standing bans in force and their requests out.
LEMMA BanStep == TypeInv /\ BanInv /\ [Next]_vars => BanInv'
<1> SUFFICES ASSUME TypeInv, BanInv, Quiet \/ Special PROVE BanInv'
  BY StepKinds
<1>0. TypeOK /\ StandingInForce /\ NoAdmissionUnderStandingBan /\ TokenIssued
  BY DEF TypeInv, BanInv
\* The shape of every step but CookieReceive and CheckBan.
<1>1. ASSUME BansKept,
             \A r \in Req : reqs'[r] # Idle =>
                /\ reqs[r] # Idle
                /\ reqs'[r].grant = reqs[r].grant
                /\ reqs'[r].standing \subseteq reqs[r].standing
                /\ reqs'[r].st \in Admitting => reqs[r].st \in Admitting
                /\ grants'[reqs[r].grant].profile = grants[reqs[r].grant].profile
                /\ grants'[reqs[r].grant].passport = grants[reqs[r].grant].passport
      PROVE  BanInv'
  <2>1. StandingInForce'
    BY <1>0, <1>1, StandingKept DEF StandingInForce
  <2>2. NoAdmissionUnderStandingBan'
    BY <1>0, <1>1, IdleNowhere DEF NoAdmissionUnderStandingBan
  <2> QED
    BY <2>1, <2>2 DEF BanInv
<1>2. CASE Quiet
  BY <1>1, <1>2 DEF Quiet, Continues
<1>3. ASSUME NEW g \in Grant,
             \/ GrantExpires(g)
             \/ \E u \in Profile, pp \in Passport, s \in Server : IssueGrant(g, u, pp, s)
      PROVE  BanInv'
  <2>1. UNCHANGED <<reqs, bans>>
    BY <1>3 DEF GrantExpires, IssueGrant
  <2>2. ASSUME NEW r \in Req, reqs[r] # Idle
        PROVE  /\ grants'[reqs[r].grant].profile = grants[reqs[r].grant].profile
               /\ grants'[reqs[r].grant].passport = grants[reqs[r].grant].passport
    <3>1. grants[reqs[r].grant] \in GrantRow /\ reqs[r].grant \in Grant
      BY <1>0, <2>2, ReqRunning DEF TokenIssued, TypeOK, StoreTypeOK
    <3> QED
      BY <1>0, <1>3, <3>1 DEF GrantExpires, ExpireGrant, IssueGrant,
                 SaveTransferGrant, TypeOK, StoreTypeOK, GrantRow, None
  <2> QED
    BY <1>1, <2>1, <2>2, SameBans
<1>4. ASSUME NEW c \in Session, NEW g \in Grant, NEW r \in Req,
             CookieReceive(c, g, r)
      PROVE  BanInv'
  <2>1. /\ UNCHANGED <<grants, bans>>
        /\ reqs'[r].st = "sent"
        /\ reqs'[r].grant = g
        /\ reqs'[r].standing = BansOn(grants[g].profile, grants[g].passport)
        /\ \A q \in Req : q # r => reqs'[q] = reqs[q]
    BY <1>0, <1>4 DEF CookieReceive, TypeOK
  <2>2. StandingInForce'
    BY <1>0, <2>1 DEF StandingInForce, BansOn
  <2>3. NoAdmissionUnderStandingBan'
    BY <1>0, <2>1 DEF NoAdmissionUnderStandingBan, Admitting
  <2> QED
    BY <2>2, <2>3 DEF BanInv
<1>5. ASSUME NEW r \in Req, Consume(r)
      PROVE  BanInv'
  <2>1. reqs[r] # Idle
    BY <1>5 DEF Consume, Idle
  <2>2. /\ reqs'[r].st = "burned"
        /\ reqs'[r].grant = reqs[r].grant
        /\ reqs'[r].standing = reqs[r].standing
        /\ \A q \in Req : q # r => reqs'[q] = reqs[q]
    BY <1>5, <2>1, SpecialReqs DEF Consume
  <2>3. ASSUME NEW q \in Req, reqs[q] # Idle
        PROVE  /\ grants'[reqs[q].grant].profile = grants[reqs[q].grant].profile
               /\ grants'[reqs[q].grant].passport = grants[reqs[q].grant].passport
    <3>1. grants[reqs[q].grant] \in GrantRow /\ reqs[q].grant \in Grant
      BY <1>0, <2>3, ReqRunning DEF TokenIssued, TypeOK, StoreTypeOK
    <3> QED
      BY <1>0, <1>5, <3>1 DEF Consume, ConsumeTransferGrant, TypeOK, StoreTypeOK,
                              GrantRow
  <2>4. BansKept
    BY <1>5, SameBans DEF Consume
  <2> QED
    BY <1>1, <2>1, <2>2, <2>3, <2>4 DEF Admitting
\* The check itself: a request is cleared when no ban at all stands.
<1>6. ASSUME NEW r \in Req, CheckBan(r)
      PROVE  BanInv'
  <2>1. reqs[r] # Idle
    BY <1>6 DEF CheckBan, Idle
  <2>2. /\ UNCHANGED <<grants, bans>>
        /\ reqs'[r].grant = reqs[r].grant
        /\ reqs'[r].standing = reqs[r].standing
        /\ reqs'[r].st \in Admitting =>
              ~ActiveBanFor(grants[reqs[r].grant].profile,
                            grants[reqs[r].grant].passport)
        /\ \A q \in Req : q # r => reqs'[q] = reqs[q]
    BY <1>6, <2>1, SpecialReqs DEF CheckBan, Admitting
  <2>3. StandingInForce'
    BY <1>0, <2>1, <2>2 DEF StandingInForce, BansOn
  <2>4. NoAdmissionUnderStandingBan'
    BY <1>0, <2>1, <2>2 DEF NoAdmissionUnderStandingBan, StandingInForce, ActiveBanFor
  <2> QED
    BY <2>3, <2>4 DEF BanInv
<1>7. ASSUME NEW r \in Req, NEW p \in Presence, Insert(r, p)
      PROVE  BanInv'
  <2>1. reqs[r] # Idle /\ reqs[r].st \in Admitting
    BY <1>7 DEF Insert, Idle, Admitting
  <2>2. reqs[r] \in ReqRec
    BY <1>0, <2>1, ReqRunning
  <2>3. /\ reqs'[r].grant = reqs[r].grant
        /\ reqs'[r].standing = reqs[r].standing
        /\ \A q \in Req : q # r => reqs'[q] = reqs[q]
    BY <1>0, <1>7, <2>2 DEF Insert, TypeOK, ReqRec
  <2>4. BansKept /\ UNCHANGED grants
    BY <1>7, SameBans DEF Insert
  <2> QED
    BY <1>1, <2>1, <2>3, <2>4
<1>8. ASSUME NEW r \in Req, ReplyAccepted(r)
      PROVE  BanInv'
  <2>1. reqs[r] # Idle /\ reqs[r].st \in Admitting
    BY <1>8 DEF ReplyAccepted, Idle, Admitting
  <2>2. /\ reqs'[r].grant = reqs[r].grant
        /\ reqs'[r].standing = reqs[r].standing
        /\ \A q \in Req : q # r => reqs'[q] = reqs[q]
    BY <1>8, <2>1, SpecialReqs DEF ReplyAccepted
  <2>3. BansKept /\ UNCHANGED grants
    BY <1>8, SameBans DEF ReplyAccepted
  <2> QED
    BY <1>1, <2>1, <2>2, <2>3
<1>9. ASSUME NEW r \in Req, RecordPresence(r)
      PROVE  BanInv'
  <2>1. reqs'[r] = Idle /\ \A q \in Req : q # r => reqs'[q] = reqs[q]
    BY <1>0, <1>9 DEF RecordPresence, TypeOK
  <2>2. BansKept /\ UNCHANGED grants
    BY <1>9, SameBans DEF RecordPresence
  <2> QED
    BY <1>1, <2>1, <2>2
<1> QED
  BY <1>2, <1>3, <1>4, <1>5, <1>6, <1>7, <1>8, <1>9 DEF Special

\* No request, no standing ban.
LEMMA BanInitInv == Init => BanInv
BY DEF Init, BanInv, StandingInForce, NoAdmissionUnderStandingBan, Admitting, Idle

\* The ban check of handleNodeConsumeTransferGrant: a ban that stands while a
\* request runs keeps that request from a presence and from a positive answer.
THEOREM StandingBanKeepsOut == Spec => []NoAdmissionUnderStandingBan
<1>1. BanInv => NoAdmissionUnderStandingBan
  BY DEF BanInv
<1> QED
  BY <1>1, BanInitInv, BanStep, TypeInvariance, PTL DEF Spec

(***************************************************************************)
(* 8. Steps that may never happen, and the ledger.                         *)
(***************************************************************************)
\* No step reopens a presence, moves it, or revives a consumed grant.
LEMMA ClosedStep == TypeInv /\ [Next]_vars => StaysClosed
<1> SUFFICES ASSUME TypeInv, Quiet \/ Special PROVE StaysClosed
  BY StepKinds
<1>0. TypeOK
  BY DEF TypeInv
<1>1. CASE Quiet
  BY <1>1 DEF Quiet, Ends, StaysClosed
<1>2. ASSUME NEW g \in Grant,
             \/ GrantExpires(g)
             \/ \E u \in Profile, pp \in Passport, s \in Server : IssueGrant(g, u, pp, s)
      PROVE  StaysClosed
  <2>1. UNCHANGED presences
    BY <1>2 DEF GrantExpires, IssueGrant
  <2>2. ASSUME NEW h \in Grant, grants[h].st = "consumed"
        PROVE  grants'[h].st = "consumed"
    <3>1. grants[h] \in GrantRow
      BY <1>0, <2>2 DEF TypeOK, StoreTypeOK, None
    <3> QED
      BY <1>0, <1>2, <2>2, <3>1 DEF GrantExpires, ExpireGrant, IssueGrant,
                      SaveTransferGrant, TypeOK, StoreTypeOK, GrantRow, None
  <2> QED
    BY <2>1, <2>2 DEF StaysClosed
<1>3. ASSUME NEW r \in Req, Consume(r)
      PROVE  StaysClosed
  BY <1>0, <1>3 DEF Consume, ConsumeTransferGrant, Consumable, StaysClosed, TypeOK,
                    StoreTypeOK
<1>4. ASSUME NEW r \in Req, NEW p \in Presence, Insert(r, p)
      PROVE  StaysClosed
  BY <1>0, <1>4 DEF Insert, UpsertPresence, StaysClosed, TypeOK, StoreTypeOK
<1> QED
  BY <1>1, <1>2, <1>3, <1>4
     DEF Special, CookieReceive, CheckBan, ReplyAccepted, RecordPresence, StaysClosed

\* Late, lost and repeated calls never reopen a presence or a grant.
THEOREM NothingIsReopened == Spec => NothingReopens
<1>1. TypeInv /\ [Next]_vars => [StaysClosed]_vars
  BY ClosedStep
<1> QED
  BY <1>1, TypeInvariance, PTL DEF Spec, NothingReopens

\* The empty store is the empty ledger.
LEMMA LedgerInit == Init => Ledger!Init
BY DEF Init, StoreInit, Ledger!Init, TicketOf, SeatOf, Ledger!Free, None

\* A step that leaves the mapped rows alone is a stutter of the ledger.
LEMMA LedgerStutter ==
  ASSUME \A g \in Grant : TicketOf(grants'[g]) = TicketOf(grants[g]),
         UNCHANGED presences
  PROVE  UNCHANGED Ledger!ledger
BY DEF Ledger!ledger

\* Every step of the system is a step of the ledger or a stutter.
LEMMA LedgerStep == TypeInv /\ BooksInv /\ [Next]_vars => [Ledger!Next]_(Ledger!ledger)
<1> SUFFICES ASSUME TypeInv, BooksInv, Quiet \/ Special
             PROVE  [Ledger!Next]_(Ledger!ledger)
  BY StepKinds
<1>0. TypeOK
  BY DEF TypeInv
<1> DEFINE tick == [g \in Grant |-> TicketOf(grants[g])]
           seats == [p \in Presence |-> SeatOf(presences[p])]
<1>1. CASE Quiet
  <2> DEFINE ps == {p \in Presence : presences[p].st = "active"
                                     /\ presences'[p] # presences[p]}
  <2>1. tick' = tick
    BY <1>1 DEF Quiet
  <2>2. \A p \in ps : seats[p].st = "held"
    BY DEF SeatOf, None
  <2>3. ASSUME NEW p \in Presence
        PROVE  SeatOf(presences'[p]) =
                  IF p \in ps THEN [SeatOf(presences[p]) EXCEPT !.st = "left"]
                              ELSE SeatOf(presences[p])
    <3>1. CASE presences'[p] = presences[p]
      BY <3>1
    <3>2. CASE presences'[p] # presences[p]
      <4>1. /\ presences[p] \in PresenceRow
            /\ presences'[p] = [presences[p] EXCEPT !.st = "ended"]
        BY <1>0, <1>1, <3>2 DEF Quiet, Ends, TypeOK, StoreTypeOK
      <4>2. presences[p].st = "active"
        BY <3>2, <4>1 DEF PresenceRow
      <4>3. presences[p] # None /\ presences'[p] # None
        BY <1>0, <1>1, <4>2, EndsKeeps DEF None, Quiet
      <4> QED
        BY <3>2, <4>1, <4>2, <4>3 DEF SeatOf, PresenceRow
    <3> QED
      BY <3>1, <3>2
  <2>4. Ledger!LeaveSeats(ps)
    BY <2>1, <2>2, <2>3 DEF Ledger!LeaveSeats
  <2> QED
    BY <2>4 DEF Ledger!Next
<1>2. ASSUME NEW g \in Grant, GrantExpires(g)
      PROVE  UNCHANGED Ledger!ledger
  <2>1. grants[g] \in GrantRow /\ grants' = [grants EXCEPT ![g].fresh = FALSE]
    BY <1>0, <1>2 DEF GrantExpires, ExpireGrant, TypeOK, StoreTypeOK
  <2>2. grants'[g] # None /\ grants'[g].st = grants[g].st /\ grants[g] # None
    BY <1>0, <2>1 DEF TypeOK, StoreTypeOK, GrantRow, None
  <2>3. \A h \in Grant : TicketOf(grants'[h]) = TicketOf(grants[h])
    BY <1>0, <2>1, <2>2 DEF TicketOf, TypeOK, StoreTypeOK
  <2> QED
    BY <1>2, <2>3, LedgerStutter DEF GrantExpires
<1>3. ASSUME NEW g \in Grant, NEW u \in Profile, NEW pp \in Passport,
             NEW s \in Server, IssueGrant(g, u, pp, s)
      PROVE  Ledger!Issue(g)
  <2>1. /\ grants[g] = None /\ grants'[g] # None /\ grants'[g].st = "pending"
        /\ \A h \in Grant : h # g => grants'[h] = grants[h]
    BY <1>0, <1>3 DEF IssueGrant, SaveTransferGrant, TypeOK, StoreTypeOK, None
  <2>2. UNCHANGED presences
    BY <1>3 DEF IssueGrant
  <2> QED
    BY <2>1, <2>2 DEF Ledger!Issue, TicketOf
<1>4. ASSUME NEW r \in Req, Consume(r)
      PROVE  Ledger!Next
  <2> DEFINE g == reqs[r].grant
  <2>1. g \in Grant
    <3>1. reqs[r] # Idle
      BY <1>4 DEF Consume, Idle
    <3> QED
      BY <1>0, <3>1, ReqRunning
  <2>2. /\ grants[g] # None /\ grants[g].st = "pending"
        /\ grants'[g] # None /\ grants'[g].st = "consumed"
        /\ \A h \in Grant : h # g => grants'[h] = grants[h]
    BY <1>0, <1>4, <2>1 DEF Consume, ConsumeTransferGrant, Consumable, TypeOK,
                            StoreTypeOK, GrantRow, None
  <2>3. UNCHANGED presences
    BY <1>4 DEF Consume
  <2> HIDE DEF g
  <2>4. Ledger!Spend(g)
    BY <2>1, <2>2, <2>3 DEF Ledger!Spend, TicketOf
  <2> QED
    BY <2>1, <2>4 DEF Ledger!Next
<1>5. ASSUME NEW r \in Req, NEW p \in Presence, Insert(r, p)
      PROVE  Ledger!Next
  <2> DEFINE g == reqs[r].grant
             u == reqs[r].slot[2]
             s == ServerOf[reqs[r].slot[1]]
  <2>1. reqs[r] # Idle /\ reqs[r].st = "insert"
    BY <1>5 DEF Insert, Idle
  <2>2. g \in Grant /\ u \in Profile /\ s \in Server
    BY <1>0, <2>1, ReqRunning, DomainAssumption
  <2>3. grants[g].st = "consumed"
        /\ \A q \in Presence : presences[q] # None => presences[q].grant # g
    BY <2>1 DEF BooksInv, GrantInHand, Holding
  <2>4. /\ presences[p] = None
        /\ ActivePresencesFor(u, s) = {}
        /\ presences'[p] # None
        /\ presences'[p].st = "active"
        /\ presences'[p].profile = u
        /\ presences'[p].server = s
        /\ presences'[p].grant = g
        /\ \A q \in Presence : q # p => presences'[q] = presences[q]
        /\ UNCHANGED grants
    BY <1>0, <1>5 DEF Insert, UpsertPresence, UpsertAllowed, TypeOK, StoreTypeOK, None
  <2> HIDE DEF g, u, s
  <2>5. tick[g] = "spent"
    BY <2>2, <2>3 DEF TicketOf, None
  <2>6. seats[p] = Ledger!Free
    BY <2>4 DEF SeatOf, Ledger!Free, None
  <2>7. \A q \in Presence : seats[q] # Ledger!Free => seats[q].grant # g
    BY <2>3 DEF SeatOf, Ledger!Free, None
  <2>8. \A q \in Presence : seats[q].st = "held" =>
           <<seats[q].profile, seats[q].server>> # <<u, s>>
    BY <2>4 DEF SeatOf, None, ActivePresencesFor, Active
  <2>9. seats' = [seats EXCEPT ![p] =
            [st |-> "held", profile |-> u, server |-> s, grant |-> g]]
    BY <2>4 DEF SeatOf
  <2>10. Ledger!TakeSeat(p, u, s, g)
    BY <2>4, <2>5, <2>6, <2>7, <2>8, <2>9 DEF Ledger!TakeSeat
  <2> QED
    BY <2>2, <2>10 DEF Ledger!Next
<1>6. ASSUME UNCHANGED <<grants, presences>>
      PROVE  UNCHANGED Ledger!ledger
  BY <1>6 DEF Ledger!ledger
<1> QED
  BY <1>1, <1>2, <1>3, <1>4, <1>5, <1>6
     DEF Special, Ledger!Next, CookieReceive, CheckBan, ReplyAccepted, RecordPresence

\* Core's store under its handlers implements the atomic ledger.
THEOREM LedgerImplemented == Spec => ImplementsLedger
<1> QED
  BY LedgerInit, LedgerStep, TypeInvariance, BooksInvariance, PTL
     DEF Spec, ImplementsLedger, Ledger!Spec

=============================================================================
