-------------------------------- MODULE Profiles --------------------------------
(***************************************************************************)
(* Passports, the profiles linked to them and the one that is primary, as  *)
(* administrators, limbo portals and the web portal change them.           *)
(*                                                                         *)
(* Without a database every store call is atomic.  Postgres runs a         *)
(* transaction: BindProfileToPassport locks the rows of the profile and of *)
(* the passport, looks, and writes; UnbindProfile and DeleteProfile do not *)
(* lock the passport and may come in between.  A transfer grant for a      *)
(* profile the player picked promotes that profile under a mutex per       *)
(* passport (passportLocks), which nothing else takes.                     *)
(***************************************************************************)
EXTENDS Naturals, FiniteSets

CONSTANTS
    Passport,   \* ids; a passport that is deleted may be registered again
    Profile,    \* ids, random: never used twice
    Name,       \* normalized protocol names
    Req,        \* requests that may be under way at once
    Max,        \* MaxProfilesPerPassport
    Settable    \* bound: statuses that administrators set

Status == {"active", "locked", "deleted"}
ASSUME ProfilesAssumption ==
    IsFiniteSet(Req) /\ Max \in Nat \ {0} /\ Settable \subseteq Status

None == "none"
Gone == "gone"
ASSUME ProfileNames == {None, Gone} \cap Name = {} /\ None \notin Req

VARIABLES
    postgres,   \* which store Core was started with
    status,     \* status of a passport, None when there is no row
    name,       \* name of a profile, None before and Gone after its life
    links,      \* links of a passport by linked_at: pairs of linked profiles of
                \* which the second is the first or was linked later
    primary,    \* those of them with is_primary
    mutex,      \* passportLocks: the request that holds it
    req,        \* requests
    owned,      \* history: profiles linked by the handler that created them,
    most,       \* history: how many such handlers were under way at once
    disturbed   \* history: grants whose promotion failed, or whose profile lost
                \* its link or its mark before they were saved

vars == <<postgres, status, name, links, primary, mutex, req, owned, most, disturbed>>

Linked(p) == {f \in Profile : <<f, f>> \in links[p]}

\* What a request does next; "bind" and "binding" are the two halves of
\* BindProfileToPassport, which several handlers call.
Handler == {"nodeCreate", "portalCreate", "adminCreate", "grant", "bind"}
Stage == {"create", "identified", "promoted", "undo", "delete", "bind", "binding"}
Request == [handler : Handler \cup {None}, stage : Stage \cup {None},
            p : Passport \cup {None}, f : Profile \cup {None},
            n : Name \cup {None}, prime : BOOLEAN, orphans : SUBSET Profile]
NoRequest == [handler |-> None, stage |-> None, p |-> None, f |-> None,
              n |-> None, prime |-> FALSE, orphans |-> {}]

TypeOK ==
    /\ postgres \in BOOLEAN
    /\ status \in [Passport -> Status \cup {None}]
    /\ name \in [Profile -> Name \cup {None, Gone}]
    /\ links \in [Passport -> SUBSET (Profile \X Profile)]
    /\ primary \in [Passport -> SUBSET Profile]
    /\ mutex \in [Passport -> Req \cup {None}]
    /\ req \in [Req -> Request]
    /\ owned \in [Passport -> SUBSET Profile]
    /\ most \in [Passport -> 0..Cardinality(Req)]
    /\ disturbed \subseteq Req

Init ==
    /\ postgres \in BOOLEAN
    /\ status = [p \in Passport |-> None]
    /\ name = [f \in Profile |-> None]
    /\ links = [p \in Passport |-> {}]
    /\ primary = [p \in Passport |-> {}]
    /\ mutex = [p \in Passport |-> None]
    /\ req = [r \in Req |-> NoRequest]
    /\ owned = [p \in Passport |-> {}]
    /\ most = [p \in Passport |-> 0]
    /\ disturbed = {}

(***************************************************************************)
(* The store.                                                              *)
(***************************************************************************)
Exists(f) == name[f] \in Name

\* ORDER BY linked_at LIMIT 1, over the links of a passport but those to gone.
Oldest(p, gone) ==
    {f \in Linked(p) \ gone : \A g \in Linked(p) \ gone : <<f, g>> \in links[p]}

\* GetPrimaryProfileForPassport: the primary profile, or else the oldest.
Resolves(p, f) == f \in IF primary[p] # {} THEN primary[p] ELSE Oldest(p, {})

NameTaken(p, f, n) == \E g \in Linked(p) \ {f} : name[g] = n

At(r, stage) == req[r].stage = stage

\* Postgres: rows locked by a request between the halves of its bind.
PassportLocked(p) == \E r \in Req : At(r, "binding") /\ req[r].p = p
ProfileLocked(f) == \E r \in Req : At(r, "binding") /\ req[r].f = f

\* Grants between promotion and SaveTransferGrant, whose profile is unlinked.
Unlinked(from, gone) ==
    {r \in Req : At(r, "promoted") /\ req[r].p \in from /\ req[r].f \in gone}

\* BindProfileToPassport: its conditions, whether the link will be primary ...
Bindable(p, f) ==
    /\ status[p] \notin {None, "deleted"}
    /\ Exists(f)
    /\ ~NameTaken(p, f, name[f])

\* Fault: the first link is not made primary.
BindsPrimaryIfAsked(p, f, prime) == prime \/ f \in primary[p]

BindsPrimary(p, f, prime) == prime \/ f \in primary[p] \/ primary[p] = {}

\* ... and what it writes: linked_at of an existing link is kept.
LinkProfile(p, f, prime) ==
    /\ links' = [links EXCEPT ![p] =
                    IF f \in Linked(p) THEN @ ELSE @ \cup ((Linked(p) \cup {f}) \X {f})]
    /\ primary' = [primary EXCEPT ![p] = IF prime THEN {f} ELSE @ \ {f}]

Without(p, gone) == {e \in links[p] : e[1] \notin gone /\ e[2] \notin gone}

\* unlinkProfileLocked and promotePrimaryProfileLocked over a set of links: a
\* passport that loses its primary profile gets the oldest of the others.
UnlinkProfiles(from, gone) ==
    /\ links' = [p \in Passport |-> IF p \in from THEN Without(p, gone) ELSE links[p]]
    /\ primary' = [p \in Passport |-> IF p \in from /\ primary[p] \cap gone # {}
                                      THEN Oldest(p, gone) ELSE primary[p]]
    /\ owned' = [p \in Passport |-> IF p \in from THEN owned[p] \ gone ELSE owned[p]]
    /\ disturbed' = disturbed \cup Unlinked(from, gone)

(***************************************************************************)
(* The halves of a bind, and what its callers do when it is over.          *)
(***************************************************************************)
Finish(r) == req' = [req EXCEPT ![r] = NoRequest]

\* handleAdminCreateProfile deletes the profile it could not bind, the others
\* leave it; a grant goes on either way (promoteGrantProfilePrimary).
AfterBind(r, q, done) ==
    req' = [req EXCEPT ![r] =
        IF q.handler = "grant" THEN [q EXCEPT !.stage = "promoted"]
        ELSE IF q.handler = "adminCreate" /\ ~done THEN [q EXCEPT !.stage = "undo"]
        ELSE NoRequest]

\* The grants whose profile is not primary after a bind of another handler: it
\* made another profile primary, or took the mark from theirs.
Displaced(q, prime) ==
    IF q.handler = "grant" THEN {}
    ELSE {o \in Req : At(o, "promoted") /\ req[o].p = q.p /\ (prime <=> req[o].f # q.f)}

Owning(q) ==
    IF q.handler \in {"nodeCreate", "portalCreate"} THEN owned[q.p] \cup {q.f} ELSE owned[q.p]

\* Fault: the rows are read without FOR UPDATE.
NoRowLocked(p, f) == TRUE

\* Postgres: no other request is between the halves of a bind of either row.
RowsFree(p, f) == ~PassportLocked(p) /\ ~ProfileLocked(f)

\* The call: all of it under the lock of the store in memory, the first half
\* in Postgres.
Bind(r, q) ==
    /\ RowsFree(q.p, q.f)
    /\ CASE ~Bindable(q.p, q.f) ->
              /\ AfterBind(r, q, FALSE)
              /\ disturbed' = disturbed \cup IF q.handler = "grant" THEN {r} ELSE {}
              /\ UNCHANGED <<links, primary, owned>>
         [] Bindable(q.p, q.f) /\ postgres ->
              /\ req' = [req EXCEPT ![r] = [q EXCEPT
                            !.stage = "binding", !.prime = BindsPrimary(q.p, q.f, q.prime)]]
              /\ UNCHANGED <<links, primary, owned, disturbed>>
         [] Bindable(q.p, q.f) /\ ~postgres ->
              /\ LinkProfile(q.p, q.f, BindsPrimary(q.p, q.f, q.prime))
              /\ owned' = [owned EXCEPT ![q.p] = Owning(q)]
              /\ disturbed' = disturbed \cup Displaced(q, BindsPrimary(q.p, q.f, q.prime))
              /\ AfterBind(r, q, TRUE)
    /\ UNCHANGED <<postgres, most, status, name, mutex>>

BindNext(r) == At(r, "bind") /\ Bind(r, req[r])

BindWrite(r) ==
    /\ At(r, "binding")
    /\ LET q == req[r] IN
       /\ LinkProfile(q.p, q.f, q.prime)
       /\ owned' = [owned EXCEPT ![q.p] = Owning(q)]
       /\ disturbed' = disturbed \cup Displaced(q, q.prime)
       /\ AfterBind(r, q, TRUE)
    /\ UNCHANGED <<postgres, most, status, name, mutex>>

(***************************************************************************)
(* Creating a profile: handleNodeCreateProfile, handlePortalCreateProfile, *)
(* handleAdminCreateProfile.                                               *)
(***************************************************************************)
Idle(r) == req[r] = NoRequest

Begin(r, q) == Idle(r) /\ req' = [req EXCEPT ![r] = q]

\* A random id.
Fresh(f) ==
    name[f] = None /\ \A r \in Req : At(r, "create") => req[r].f # f

\* Fault: the limit is compared with one profile more.
RoomForOneMore(p) == Cardinality(Linked(p)) <= Max

HasRoom(p) == Cardinality(Linked(p)) < Max

\* Handlers of players, which are limited, under way for a passport.
Creating(p) == {r \in Req : req[r].handler \in {"nodeCreate", "portalCreate"} /\ req[r].p = p}

\* A portal session needs a profile; administrators are not limited.
CreateCheck(r, h, p, f, n) ==
    /\ Fresh(f)
    /\ ~NameTaken(p, f, n)
    /\ h \in {"nodeCreate", "portalCreate"} => status[p] = "active" /\ HasRoom(p)
    /\ h = "portalCreate" => Linked(p) # {}
    /\ Begin(r, [NoRequest EXCEPT !.handler = h, !.stage = "create", !.p = p, !.f = f,
                                   !.n = n, !.prime = (h = "nodeCreate")])
    /\ most' = [most EXCEPT ![p] = IF Cardinality(Creating(p)') > @ THEN @ + 1 ELSE @]
    /\ UNCHANGED <<postgres, status, name, links, primary, mutex, owned, disturbed>>

\* CreateProfile.
CreateInsert(r) ==
    /\ At(r, "create")
    /\ name' = [name EXCEPT ![req[r].f] = req[r].n]
    /\ req' = [req EXCEPT ![r].stage = "bind", ![r].n = None]
    /\ UNCHANGED <<postgres, most, status, links, primary, mutex, owned, disturbed>>

(***************************************************************************)
(* Administrators: bind, unbind, delete.                                   *)
(***************************************************************************)
\* handleAdminBindProfile.
AdminBind(r, p, f, prime) ==
    /\ Exists(f)
    /\ Idle(r)
    /\ Bind(r, [NoRequest EXCEPT !.handler = "bind", !.p = p, !.f = f, !.prime = prime])

\* UnbindProfileFromPassport.
Unbind(p, f) ==
    /\ f \in Linked(p)
    /\ ~PassportLocked(p)
    /\ UnlinkProfiles({p}, {f})
    /\ UNCHANGED <<postgres, most, status, name, mutex, req>>

\* UnbindProfile: from every passport, without locking one.
UnbindAll(f) ==
    /\ \E p \in Passport : f \in Linked(p)
    /\ UnlinkProfiles(Passport, {f})
    /\ UNCHANGED <<postgres, most, status, name, mutex, req>>

\* DeleteProfile.
RemoveProfile(f) ==
    /\ Exists(f)
    /\ ~ProfileLocked(f)
    /\ name' = [name EXCEPT ![f] = Gone]
    /\ UnlinkProfiles(Passport, {f})
    /\ UNCHANGED <<postgres, most, status, mutex>>

DeleteProfile(f) == RemoveProfile(f) /\ UNCHANGED req

\* handleAdminCreateProfile takes back what it could not bind.
Undo(r) ==
    /\ At(r, "undo")
    /\ IF Exists(req[r].f) THEN RemoveProfile(req[r].f)
       ELSE UNCHANGED <<postgres, most, status, name, links, primary, mutex, owned, disturbed>>
    /\ Finish(r)

\* Profiles that are linked to this passport alone go with it.
Orphans(p) == {f \in Linked(p) : \A q \in Passport \ {p} : f \notin Linked(q)}

\* DeletePassport; Postgres reads the orphans in a statement of its own.
DeleteLook(r, p) ==
    /\ postgres
    /\ status[p] # None
    /\ Begin(r, [NoRequest EXCEPT !.stage = "delete", !.p = p, !.orphans = Orphans(p)])
    /\ UNCHANGED <<postgres, most, status, name, links, primary, mutex, owned, disturbed>>

\* The cascade promotes nothing.
RemovePassport(p, orphans) ==
    /\ status' = [status EXCEPT ![p] = None]
    /\ name' = [f \in Profile |-> IF f \in orphans THEN Gone ELSE name[f]]
    /\ links' = [q \in Passport |-> IF q = p THEN {} ELSE Without(q, orphans)]
    /\ primary' = [q \in Passport |-> IF q = p THEN {} ELSE primary[q] \ orphans]
    /\ owned' = [q \in Passport |-> IF q = p THEN {} ELSE owned[q] \ orphans]
    /\ disturbed' = disturbed \cup Unlinked({p}, Profile) \cup Unlinked(Passport, orphans)
    /\ UNCHANGED <<postgres, most, mutex>>

DeleteWrite(r) ==
    /\ At(r, "delete")
    /\ ~PassportLocked(req[r].p)
    /\ \A f \in req[r].orphans : ~ProfileLocked(f)
    /\ IF status[req[r].p] = None
       THEN UNCHANGED <<postgres, most, status, name, links, primary, mutex, owned, disturbed>>
       ELSE RemovePassport(req[r].p, req[r].orphans)
    /\ Finish(r)

DeleteAtOnce(p) ==
    /\ ~postgres
    /\ status[p] # None
    /\ RemovePassport(p, Orphans(p))
    /\ UNCHANGED req

\* CreateOfflinePassport, UpsertPremiumPassport.
CreatePassport(p) ==
    /\ status[p] = None
    /\ status' = [status EXCEPT ![p] = "active"]
    /\ UNCHANGED <<postgres, most, name, links, primary, mutex, req, owned, disturbed>>

\* CreateOfflinePassportProfile: the passport with its first profile.
CreatePassportProfile(p, f, n) ==
    /\ status[p] = None
    /\ Fresh(f)
    /\ status' = [status EXCEPT ![p] = "active"]
    /\ name' = [name EXCEPT ![f] = n]
    /\ links' = [links EXCEPT ![p] = {<<f, f>>}]
    /\ primary' = [primary EXCEPT ![p] = {f}]
    /\ UNCHANGED <<postgres, most, mutex, req, owned, disturbed>>

SetPassportStatus(p, s) ==
    /\ status[p] # None
    /\ ~PassportLocked(p)
    /\ status' = [status EXCEPT ![p] = s]
    /\ UNCHANGED <<postgres, most, name, links, primary, mutex, req, owned, disturbed>>

(***************************************************************************)
(* Renaming: handleNodeRenameProfile, handleAdminUpdateProfile.            *)
(***************************************************************************)
\* They look for the name first; UpdateProfileIdentity, for which Postgres
\* locks the rows of the profile and of its passports, looks again and decides.
Rename(f, n) ==
    /\ Exists(f)
    /\ ~ProfileLocked(f)
    /\ \A p \in Passport : f \in Linked(p) => ~PassportLocked(p) /\ ~NameTaken(p, f, n)
    /\ name' = [name EXCEPT ![f] = n]
    /\ UNCHANGED <<postgres, most, status, links, primary, mutex, req, owned, disturbed>>

(***************************************************************************)
(* A grant for a profile the player picked: createTransferGrantForNode.    *)
(***************************************************************************)
\* transferGrantIdentity and the checks up to the lock.
Identify(r, p, f) ==
    /\ f \in Linked(p)
    /\ status[p] # "locked"
    /\ Begin(r, [NoRequest EXCEPT !.handler = "grant", !.stage = "identified",
                                   !.p = p, !.f = f, !.prime = TRUE])
    /\ UNCHANGED <<postgres, most, status, name, links, primary, mutex, owned, disturbed>>

\* Fault: the promotion does not wait for the lock.
PromoteUnlocked(r) ==
    /\ At(r, "identified")
    /\ mutex' = [mutex EXCEPT ![req[r].p] = r]
    /\ req' = [req EXCEPT ![r].stage =
                 IF Resolves(req[r].p, req[r].f) THEN "promoted" ELSE "bind"]
    /\ UNCHANGED <<postgres, most, status, name, links, primary, owned, disturbed>>

\* promoteGrantProfilePrimary, under the lock: nothing to do, or a bind.
Promote(r) ==
    /\ At(r, "identified")
    /\ mutex[req[r].p] = None
    /\ mutex' = [mutex EXCEPT ![req[r].p] = r]
    /\ req' = [req EXCEPT ![r].stage =
                 IF Resolves(req[r].p, req[r].f) THEN "promoted" ELSE "bind"]
    /\ UNCHANGED <<postgres, most, status, name, links, primary, owned, disturbed>>

\* SaveTransferGrant, and the unlocking.
SaveGrant(r) ==
    /\ At(r, "promoted")
    /\ mutex' = [mutex EXCEPT ![req[r].p] = None]
    /\ disturbed' = disturbed \ {r}
    /\ Finish(r)
    /\ UNCHANGED <<postgres, most, status, name, links, primary, owned>>

(***************************************************************************)
(* Specification.                                                          *)
(***************************************************************************)
RequestNext(r) ==
    \/ BindNext(r) \/ BindWrite(r)
    \/ CreateInsert(r) \/ Undo(r) \/ DeleteWrite(r)
    \/ Promote(r) \/ SaveGrant(r)
    \/ \E p \in Passport, f \in Profile :
          \/ \E h \in {"nodeCreate", "portalCreate", "adminCreate"}, n \in Name :
                CreateCheck(r, h, p, f, n)
          \/ \E prime \in BOOLEAN : AdminBind(r, p, f, prime)
          \/ Identify(r, p, f)
    \/ \E p \in Passport : DeleteLook(r, p)

Next ==
    \/ \E r \in Req : RequestNext(r)
    \/ \E p \in Passport, f \in Profile : Unbind(p, f)
    \/ \E f \in Profile : UnbindAll(f) \/ DeleteProfile(f) \/ \E n \in Name : Rename(f, n)
    \/ \E p \in Passport : DeleteAtOnce(p) \/ CreatePassport(p)
    \/ \E p \in Passport, f \in Profile, n \in Name : CreatePassportProfile(p, f, n)
    \/ \E p \in Passport, s \in Settable : SetPassportStatus(p, s)

Spec == Init /\ [][Next]_vars

(***************************************************************************)
(* Properties.                                                             *)
(***************************************************************************)
\* BindProfileToPassport and UpdateProfileIdentity look for a name and take
\* it: however they interleave with each other, with unbinding and with
\* deletions, no two profiles of a passport have the same name.
NamesDistinct ==
    \A p \in Passport : \A f, g \in Linked(p) : f # g => name[f] # name[g]

\* The links: they join what exists, at most one of a passport is primary,
\* and without a database a passport with profiles always has a primary one.
\* Postgres may lose it to an unbinding that comes between the halves of a
\* bind; GetPrimaryProfileForPassport then falls back on the oldest.
LinksConsistent ==
    \A p \in Passport :
        /\ \A f \in Linked(p) : Exists(f) /\ status[p] # None
        /\ primary[p] \subseteq Linked(p)
        /\ Cardinality(primary[p]) <= 1
        /\ ~postgres /\ Linked(p) # {} => primary[p] # {}

\* MaxProfilesPerPassport, checked two store calls before the link is made:
\* players exceed it by as many profiles as they asked for at once, less one.
ProfilesBounded ==
    \A p \in Passport : owned[p] # {} => Cardinality(owned[p]) <= Max - 1 + most[p]

\* "two concurrent sessions of the same passport selecting different profiles
\* cannot interleave and leave the gate-resolved primary inconsistent with the
\* grant that was just issued" (node.go): between promotion and grant the
\* passport resolves to the profile picked, as far as the promotions of grants
\* go, and unless the promotion failed.  Others take no passportLocks and do
\* displace it: an administrator's bind, the loss of the link, and a player who
\* creates a profile in another session, which handleNodeCreateProfile makes
\* primary.
GrantMatchesPrimary ==
    \A r \in Req : At(r, "promoted") => Resolves(req[r].p, req[r].f) \/ r \in disturbed

=================================================================================
