------------------------------ MODULE CoreStore ------------------------------
(***************************************************************************)
(* The part of Core's store (core/internal/store) that decides who may be  *)
(* online where: transfer grants, player presences, bans and the queue of  *)
(* actions for downstream nodes.  Every store method runs under one mutex  *)
(* (Memory) or in one statement or transaction (Postgres), so each of them *)
(* is one atomic fragment of an action here.  The handlers that call them  *)
(* one after the other are in module Admission.                            *)
(*                                                                         *)
(* Names, addresses, reasons and times are left out.  A deadline is a flag *)
(* that a separate action may lower at any moment.                         *)
(***************************************************************************)

EXTENDS Domain

CONSTANTS
    Grant,      \* transfer-grant tokens
    Ban,        \* ban ids
    EndsOnce    \* TRUE: Postgres, a presence row is ended at most once;
                \* FALSE: Memory, ending an ended presence succeeds again

ASSUME CoreAssumption == EndsOnce \in BOOLEAN

VARIABLES
    grants,     \* transfer_grants, by token
    presences,  \* player_presences, by id
    bans,       \* player_bans, by id
    actions     \* unacknowledged, unexpired node_actions

storeVars == <<grants, presences, bans, actions>>

(***************************************************************************)
(* Types.  A row that does not exist yet is the record None.               *)
(***************************************************************************)
None == [st |-> "none"]

Target == Profile \cup Passport

GrantRow == [st : {"pending", "consumed"}, fresh : BOOLEAN,
             profile : Profile, passport : Passport, server : Server]

\* "grant" is not a column: it is the grant the audit event
\* transfer_grant.consume ties to the presence.
PresenceRow == [st : {"active", "ended"}, profile : Profile,
                passport : Passport, server : Server, node : Gate,
                grant : Grant]

BanRow == [st : {"active", "expired", "revoked"}, target : Target]

\* Two rows of one kind for one presence are merged: executing the second
\* one repeats the first, as redelivery after a lost acknowledgement does.
NodeAction == {"disconnect", "presence_check"} \X Presence

StoreTypeOK ==
    /\ grants \in [Grant -> GrantRow \cup {None}]
    /\ presences \in [Presence -> PresenceRow \cup {None}]
    /\ bans \in [Ban -> BanRow \cup {None}]
    /\ actions \subseteq NodeAction

StoreInit ==
    /\ grants = [g \in Grant |-> None]
    /\ presences = [p \in Presence |-> None]
    /\ bans = [b \in Ban |-> None]
    /\ actions = {}

(***************************************************************************)
(* Reads.                                                                  *)
(***************************************************************************)
Active(p) == presences[p].st = "active"

\* ListProfilePresences followed by activePresencesForProfileServer.
ActivePresencesFor(u, s) ==
    {p \in Presence : Active(p) /\ presences[p].profile = u
                                /\ presences[p].server = s}

\* ListProfilePresences for a profile, ListPassportPresences for a passport.
ActivePresencesOf(t) ==
    {p \in Presence : Active(p) /\ t \in {presences[p].profile,
                                          presences[p].passport}}

BansOn(u, pp) == {b \in Ban : bans[b].st = "active" /\ bans[b].target \in {u, pp}}

\* Fault: bans of the passport are forgotten.
ActiveBanForProfileOnly(u, pp) ==
    \E b \in Ban : bans[b].st = "active" /\ bans[b].target = u

ActiveBanFor(u, pp) == BansOn(u, pp) # {}

(***************************************************************************)
(* Transfer grants.                                                        *)
(***************************************************************************)
SaveTransferGrant(g, u, pp, s) ==
    /\ grants[g] = None
    /\ grants' = [grants EXCEPT ![g] =
            [st |-> "pending", fresh |-> TRUE,
             profile |-> u, passport |-> pp, server |-> s]]

\* The deadline of a grant passes.
ExpireGrant(g) ==
    /\ grants[g] # None
    /\ grants[g].fresh
    /\ grants' = [grants EXCEPT ![g].fresh = FALSE]

\* Fault: a consumed grant is good for another use.
ConsumableAgain(g, u, s) ==
    /\ grants[g] # None
    /\ grants[g].fresh
    /\ grants[g].server = s
    /\ grants[g].profile = u

\* Every check of the method, then the row is marked, under one lock.
Consumable(g, u, s) ==
    /\ grants[g].st = "pending"
    /\ grants[g].fresh
    /\ grants[g].server = s
    /\ grants[g].profile = u

\* Fault: the consumed row is not written back.
ConsumeUnwritten(g, u, s) == Consumable(g, u, s) /\ UNCHANGED grants

ConsumeTransferGrant(g, u, s) ==
    /\ Consumable(g, u, s)
    /\ grants' = [grants EXCEPT ![g].st = "consumed"]

(***************************************************************************)
(* Presences.                                                              *)
(***************************************************************************)
\* Fault: the handler's list is taken to be enough.
UpsertUnchecked(u, s) == TRUE

UpsertAllowed(u, s) == ActivePresencesFor(u, s) = {}

\* Fault: the id of an existing row is taken again.
UpsertOverwrites(p, u, pp, s, n, g) ==
    /\ UpsertAllowed(u, s)
    /\ presences' = [presences EXCEPT ![p] =
            [st |-> "active", profile |-> u, passport |-> pp,
             server |-> s, node |-> n, grant |-> g]]

UpsertPresence(p, u, pp, s, n, g) ==
    /\ presences[p] = None
    /\ UpsertAllowed(u, s)
    /\ presences' = [presences EXCEPT ![p] =
            [st |-> "active", profile |-> u, passport |-> pp,
             server |-> s, node |-> n, grant |-> g]]

\* What EndPresence finds: the row, active if rows end only once.
EndFinds(p) == IF EndsOnce THEN Active(p) ELSE presences[p] # None

\* EndPresence where the caller ignores "presence not found".
EndPresence(p) ==
    presences' = IF EndFinds(p) THEN [presences EXCEPT ![p].st = "ended"]
                                ELSE presences

\* EndProfilePresences and EndPassportPresences.
EndPresencesOf(t) ==
    presences' = [p \in Presence |->
        IF p \in ActivePresencesOf(t) THEN [presences[p] EXCEPT !.st = "ended"]
                                      ELSE presences[p]]

(***************************************************************************)
(* Bans.                                                                   *)
(***************************************************************************)
CreateBan(b, t) ==
    /\ bans[b] = None
    /\ bans' = [bans EXCEPT ![b] = [st |-> "active", target |-> t]]

\* The deadline of a ban passes.
ExpireBan(b) ==
    /\ bans[b].st = "active"
    /\ bans' = [bans EXCEPT ![b].st = "expired"]

RevokeBan(b) ==
    /\ bans[b] # None
    /\ bans' = [bans EXCEPT ![b].st = "revoked"]

\* Extending an expired ban starts it again; a revoked one is refused.
ExtendBan(b) ==
    /\ bans[b].st \in {"active", "expired"}
    /\ bans' = [bans EXCEPT ![b].st = "active"]

(***************************************************************************)
(* Node actions.                                                           *)
(***************************************************************************)
EnqueueNodeActions(kind, ps) == actions' = actions \cup ({kind} \X ps)

AckNodeAction(a) == actions' = actions \ {a}

\* The ten (disconnect) or two (presence check) minutes of an action pass.
ExpireAction(a) ==
    /\ a \in actions
    /\ actions' = actions \ {a}

==============================================================================
