--------------------------------- MODULE Portal ---------------------------------
(***************************************************************************)
(* The web portal of one passport: login links, web sessions, and what a   *)
(* player does in a session.                                               *)
(*                                                                         *)
(* A handler is a sequence of store calls with nothing held between them;  *)
(* what it reads before it first writes is one step here.  It reads the    *)
(* row of its session once, and writes the whole row back from that copy.  *)
(* The two stores agree on all calls modelled here.  The id of an offline  *)
(* passport is computed from its name, so a passport that is deleted and   *)
(* registered again has the id of the old one.                             *)
(***************************************************************************)
EXTENDS Naturals, FiniteSets

CONSTANTS
    Req,        \* requests that may be under way at once
    Profile, Link, Session      \* ids, random: never used twice

ASSUME PortalAssumption == IsFiniteSet(Req) /\ IsFiniteSet(Session)

None == "none"
ASSUME PortalNone == None \notin Profile \cup Link \cup Session

VARIABLES
    status,     \* status of the passport, None when there is no row
    profile,    \* status of each profile
    linked,     \* profiles bound to the passport
    link,       \* portal_login_links
    session,    \* web_sessions
    req,        \* requests
    overtaken   \* history: requests since whose look at the profiles one changed

vars == <<status, profile, linked, link, session, req, overtaken>>
profiles == <<profile, linked>>

\* Time passes as a link runs out.  mine and late are history: the row belongs
\* to the passport as registered last; it did not even when it was saved.
LinkRow == [state : {"new", "active", "used", "revoked", "gone"},
            profile : Profile \cup {None}, expired : BOOLEAN,
            mine : BOOLEAN, late : BOOLEAN]
NewLink == [state |-> "new", profile |-> None, expired |-> FALSE,
            mine |-> FALSE, late |-> FALSE]

\* from is history: the link the session is from.
SessionRow == [state : {"new", "live", "gone"}, profile : Profile \cup {None},
               from : Link \cup {None},
               mine : BOOLEAN, late : BOOLEAN]
NewSession == [state |-> "new", profile |-> None,
               from |-> None, mine |-> FALSE, late |-> FALSE]

\* mine is history: what the request read belongs to the passport as
\* registered last.
Stage == {"passport", "mark", "save", "issue", "repair", "rotate", "update",
          "create", "archive", "restore", "logout"}
Request == [stage : Stage \cup {None}, handler : {"me", "look", "create"} \cup {None},
            s : Session \cup {None}, sel : Profile \cup {None},  \* as read from s
            l : Link \cup {None}, f : Profile \cup {None}, g : Profile \cup {None},
            mine : BOOLEAN]
NoRequest == [stage |-> None, handler |-> None, s |-> None, sel |-> None,
              l |-> None, f |-> None, g |-> None, mine |-> FALSE]

TypeOK ==
    /\ status \in {"active", "locked", None}
    /\ profile \in [Profile -> {"new", "active", "archived", "gone"}]
    /\ linked \subseteq {f \in Profile : profile[f] \in {"active", "archived"}}
    /\ status = None => linked = {}
    /\ link \in [Link -> LinkRow]
    /\ session \in [Session -> SessionRow]
    /\ req \in [Req -> Request]
    /\ overtaken \subseteq Req

Init ==
    /\ status = None
    /\ profile = [f \in Profile |-> "new"] /\ linked = {}
    /\ link = [l \in Link |-> NewLink]
    /\ session = [s \in Session |-> NewSession]
    /\ req = [r \in Req |-> NoRequest]
    /\ overtaken = {}

(***************************************************************************)
(* Helpers.                                                                *)
(***************************************************************************)
At(r, stage) == req[r].stage = stage

Active == {f \in linked : profile[f] = "active"}

\* r becomes q.
Becomes(r, q) == req' = [req EXCEPT ![r] = q]
Ends(r) == Becomes(r, NoRequest)
Goes(r, stage) == Becomes(r, [req[r] EXCEPT !.stage = stage])
Begins(r, q) == At(r, None) /\ Becomes(r, q) /\ overtaken' = overtaken \ {r}

\* A profile changes: whoever has looked at them and is yet to write is overtaken.
ProfilesChange(by) == overtaken' = overtaken \cup {r \in Req \ by : At(r, "archive")}

\* Sessions whose selected profile is deleted have none.
Deselect(gone, rows) ==
    [s \in Session |-> IF rows[s].profile \in gone THEN [rows[s] EXCEPT !.profile = None] ELSE rows[s]]

Removed(row) == [NewSession EXCEPT !.state = "gone", !.from = row.from]

\* Fault: the row is written whether it is there or not, as SaveSession does.
UpdateSessionUpserts(s, f) ==
    session' = [session EXCEPT ![s].profile = f, ![s].state = "live"]

\* UpdateSession: nothing happens when the row is gone.  All of the row is
\* written, but the selected profile is what changes (and the CSRF token).
UpdateSession(s, f) ==
    session' = IF session[s].state = "live" THEN [session EXCEPT ![s].profile = f] ELSE session

(***************************************************************************)
(* Links: handleAdminCreatePortalLink, handleNodeCreatePortalLink,         *)
(* handleAdminRevokePortalLink.                                            *)
(***************************************************************************)
\* A node suggests any profile of the passport, an administrator an active one.
IssueLink(r, f) ==
    /\ status = "active"
    /\ f \in linked
    /\ Begins(r, [NoRequest EXCEPT !.stage = "issue", !.f = f, !.mine = TRUE])
    /\ UNCHANGED <<status, profiles, link, session>>

Spent(state) == [NewLink EXCEPT !.state = state]

SavePortalLink(r, l) ==
    /\ At(r, "issue")
    /\ link[l].state = "new"
    /\ link' = [link EXCEPT ![l] = [NewLink EXCEPT !.state = "active", !.profile = req[r].f,
                                     !.mine = req[r].mine, !.late = ~req[r].mine]]
    /\ Ends(r)
    /\ UNCHANGED <<status, profiles, session, overtaken>>

RevokePortalLink(l) ==
    /\ link[l].state = "active"
    /\ link' = [link EXCEPT ![l] = Spent("revoked")]
    /\ UNCHANGED <<status, profiles, session, req, overtaken>>

(***************************************************************************)
(* Logging in: handlePortalLinkLogin, and handlePortalLogin once the       *)
(* password is verified.                                                   *)
(***************************************************************************)
\* portalLinkProfile: the suggested profile, or another that is active.
LinkProfiles(f) == IF f \in Active THEN {f} ELSE Active

\* getPortalLink, Verify, the passport and the profile.
LinkLogin(r, l) ==
    /\ link[l].state = "active" /\ ~link[l].expired
    /\ status = "active"
    /\ \E f \in LinkProfiles(link[l].profile) :
          Begins(r, [NoRequest EXCEPT !.stage = "mark", !.l = l, !.f = f, !.mine = link[l].mine])
    /\ UNCHANGED <<status, profiles, link, session>>

\* The passport is read, its password verified (see Credentials) ...
Login(r) ==
    /\ status = "active"
    /\ Begins(r, [NoRequest EXCEPT !.stage = "passport", !.mine = TRUE])
    /\ UNCHANGED <<status, profiles, link, session>>

\* ... and its primary profile found: any of them.
LoginProfile(r) ==
    /\ At(r, "passport")
    /\ \/ linked = {} /\ Ends(r)
       \/ \E f \in linked : Becomes(r, [req[r] EXCEPT !.f = f, !.stage = "save"])
    /\ UNCHANGED <<status, profiles, link, session, overtaken>>

\* Fault: the update trusts the check that was made before.
MarkVerifiedLinkUsed(r) ==
    /\ At(r, "mark")
    /\ IF link[req[r].l].state # "gone"
       THEN link' = [link EXCEPT ![req[r].l] = Spent("used")] /\ Goes(r, "save")
       ELSE UNCHANGED link /\ Ends(r)
    /\ UNCHANGED <<status, profiles, session, overtaken>>

\* Compares and sets in one statement.  The time it compares with is the one
\* that Verify found early enough.
MarkPortalLinkUsed(r) ==
    /\ At(r, "mark")
    /\ IF link[req[r].l].state = "active"
       THEN link' = [link EXCEPT ![req[r].l] = Spent("used")] /\ Goes(r, "save")
       ELSE UNCHANGED link /\ Ends(r)
    /\ UNCHANGED <<status, profiles, session, overtaken>>

\* NewSession and SaveSession.
SaveSession(r, s) ==
    /\ At(r, "save")
    /\ session[s].state = "new"
    /\ session' = [session EXCEPT ![s] =
            [NewSession EXCEPT !.state = "live", !.profile = req[r].f, !.from = req[r].l,
                               !.mine = req[r].mine, !.late = ~req[r].mine]]
    /\ Ends(r)
    /\ UNCHANGED <<status, profiles, link, overtaken>>

(***************************************************************************)
(* Requests in a session.                                                  *)
(***************************************************************************)
\* requireSession.  It refuses a session that has expired, whose row stays:
\* to the rest that is a session nobody opens any more.
Opens(r, s, q) ==
    /\ session[s].state = "live"
    /\ Begins(r, [q EXCEPT !.s = s])
    /\ UNCHANGED <<status, profiles, link, session>>

\* What a handler goes on with once it has the identity: handlePortalMe,
\* handlePortalCreateProfile; those for skins, extensions and passwords only
\* look at it.
Identified(q) ==
    CASE q.handler = "me" -> [q EXCEPT !.stage = "rotate", !.f = None]
      [] q.handler = "create" -> [q EXCEPT !.stage = "create", !.f = None, !.sel = None]
      [] q.handler = "look" -> NoRequest

\* portalSessionIdentity: the selected profile if it is still bound to the
\* passport, or else the primary one, which becomes the selected one.
Open(r, s, h) ==
    LET goes == IF h = "create" /\ status # "active" THEN "look" ELSE h
        q == [NoRequest EXCEPT !.s = s, !.handler = goes, !.sel = session[s].profile]
    IN IF q.sel \in linked THEN goes # "look" /\ Opens(r, s, Identified(q))
       ELSE \E f \in linked : Opens(r, s, [q EXCEPT !.stage = "repair", !.f = f])

Repair(r) ==
    /\ At(r, "repair")
    /\ UpdateSession(req[r].s, req[r].f)
    /\ Becomes(r, Identified(req[r]))
    /\ UNCHANGED <<status, profiles, link, overtaken>>

\* rotateCSRF, with the row as the handler read it: a selection that
\* portalSessionIdentity has just made is overwritten.
RotateCSRF(r) ==
    /\ At(r, "rotate")
    /\ UpdateSession(req[r].s, req[r].sel)
    /\ Ends(r)
    /\ UNCHANGED <<status, profiles, link, overtaken>>

\* handlePortalSelectProfile: the profile is bound to the passport, and then ...
SelectProfile(r, s, f) ==
    f \in linked /\ Opens(r, s, [NoRequest EXCEPT !.stage = "update", !.f = f])

\* ... the session selects it.
Update(r) ==
    /\ At(r, "update")
    /\ UpdateSession(req[r].s, req[r].f)
    /\ Ends(r)
    /\ UNCHANGED <<status, profiles, link, overtaken>>

Bindable == status # None

\* CreateProfile and BindProfileToPassport, whose steps are those of Profiles.
CreateProfile(r, f) ==
    /\ At(r, "create")
    /\ profile[f] = "new"
    /\ profile' = [profile EXCEPT ![f] = "active"]
    /\ linked' = IF Bindable THEN linked \cup {f} ELSE linked
    /\ ProfilesChange({r})
    /\ IF Bindable THEN Becomes(r, [req[r] EXCEPT !.stage = "update", !.f = f]) ELSE Ends(r)
    /\ UNCHANGED <<status, link, session>>

\* The limit, or the name, is refused.
RefuseProfile(r) ==
    /\ At(r, "create")
    /\ Ends(r)
    /\ UNCHANGED <<status, profiles, link, session, overtaken>>

\* portalOwnedProfile.
Owned(f) == status = "active" /\ f \in linked

\* Fault: any other profile will do.
FallbacksOfAnyStatus(f) == linked \ {f}

Fallbacks(f) == Active \ {f}

\* handlePortalArchiveProfile: the profile that will be selected instead is
\* looked up first, and the last active profile is not archived.
LookForFallback(r, s, f) ==
    LET q == [NoRequest EXCEPT !.stage = "archive", !.f = f, !.sel = session[s].profile] IN
    /\ Owned(f)
    /\ \/ Fallbacks(f) = {} /\ f \notin Active /\ Opens(r, s, q)
       \/ \E g \in Fallbacks(f) : Opens(r, s, [q EXCEPT !.g = g])

\* SetProfileStatus, which needs no more than the profile.
SetProfileStatus(f, s) ==
    /\ profile' = IF profile[f] = "gone" THEN profile ELSE [profile EXCEPT ![f] = s]
    /\ UNCHANGED linked

ArchiveProfile(r) ==
    /\ At(r, "archive")
    /\ SetProfileStatus(req[r].f, "archived")
    /\ ProfilesChange({r})
    /\ IF profile[req[r].f] # "gone" /\ req[r].sel = req[r].f
       THEN Becomes(r, [req[r] EXCEPT !.stage = "update", !.f = req[r].g, !.g = None, !.sel = None])
       ELSE Ends(r)
    /\ UNCHANGED <<status, link, session>>

\* handlePortalRestoreProfile.
LookForArchived(r, s, f) ==
    Owned(f) /\ Opens(r, s, [NoRequest EXCEPT !.stage = "restore", !.f = f])

RestoreProfile(r) ==
    /\ At(r, "restore")
    /\ SetProfileStatus(req[r].f, "active")
    /\ ProfilesChange({r})
    /\ Ends(r)
    /\ UNCHANGED <<status, link, session>>

\* handlePortalLogout: requirePlayer, and then DeleteSession.
Logout(r, s) == Opens(r, s, [NoRequest EXCEPT !.stage = "logout"])

DeleteSession(r) ==
    /\ At(r, "logout")
    /\ session' = [session EXCEPT ![req[r].s] = Removed(@)]
    /\ Ends(r)
    /\ UNCHANGED <<status, profiles, link, overtaken>>

(***************************************************************************)
(* Administrators and time.                                                *)
(***************************************************************************)
\* A profile is created and bound, or bound again.
BindProfile(f) ==
    /\ status # None
    /\ f \notin linked /\ profile[f] # "gone"
    /\ linked' = linked \cup {f}
    /\ profile' = [profile EXCEPT ![f] = IF @ = "new" THEN "active" ELSE @]
    /\ ProfilesChange({})
    /\ UNCHANGED <<status, link, session, req>>

UnbindProfile(f) ==
    /\ f \in linked
    /\ linked' = linked \ {f}
    /\ ProfilesChange({})
    /\ UNCHANGED <<status, profile, link, session, req>>

DeleteProfile(f) ==
    /\ profile[f] \in {"active", "archived"}
    /\ linked' = linked \ {f}
    /\ profile' = [profile EXCEPT ![f] = "gone"]
    /\ session' = Deselect({f}, session)
    /\ ProfilesChange({})
    /\ UNCHANGED <<status, link, req>>

\* SetPassportStatus.
SetPassportStatus(s) ==
    /\ status # None
    /\ status' = s
    /\ UNCHANGED <<profiles, link, session, req, overtaken>>

Register ==
    /\ status = None
    /\ status' = "active"
    /\ UNCHANGED <<profiles, link, session, req, overtaken>>

\* handleOfflineRegister: passport and profile in one call, then a session.
OfflineRegister(r, f) ==
    /\ status = None
    /\ profile[f] = "new"
    /\ status' = "active"
    /\ linked' = {f}
    /\ profile' = [profile EXCEPT ![f] = "active"]
    /\ Begins(r, [NoRequest EXCEPT !.stage = "save", !.f = f, !.mine = TRUE])
    /\ UNCHANGED <<link, session>>

WithoutLinks == [l \in Link |-> IF link[l].state = "new" THEN NewLink ELSE Spent("gone")]

\* Fault: the sessions stay.
DropLinks ==
    /\ link' = WithoutLinks
    /\ session' = [s \in Session |-> [session[s] EXCEPT !.mine = FALSE]]

DropLinksAndSessions ==
    /\ link' = WithoutLinks
    /\ session' = [s \in Session |-> IF session[s].state = "new" THEN NewSession
                                     ELSE Removed(session[s])]

\* DeletePassport: its profiles, links and sessions go with it.
DeletePassport ==
    /\ status # None
    /\ status' = None
    /\ linked' = {}
    /\ profile' = [f \in Profile |-> IF f \in linked THEN "gone" ELSE profile[f]]
    /\ DropLinksAndSessions
    /\ req' = [r \in Req |-> [req[r] EXCEPT !.mine = FALSE]]
    /\ ProfilesChange({})

\* Time passes.
LinkExpires(l) ==
    /\ link[l].state = "active" /\ ~link[l].expired
    /\ link' = [link EXCEPT ![l].expired = TRUE]
    /\ UNCHANGED <<status, profiles, session, req, overtaken>>

RequestNext(r) ==
    \/ \E f \in Profile : IssueLink(r, f) \/ CreateProfile(r, f) \/ OfflineRegister(r, f)
    \/ \E l \in Link : SavePortalLink(r, l) \/ LinkLogin(r, l)
    \/ Login(r) \/ LoginProfile(r) \/ MarkPortalLinkUsed(r)
    \/ \E s \in Session :
          \/ SaveSession(r, s) \/ Logout(r, s)
          \/ \E h \in {"me", "look", "create"} : Open(r, s, h)
          \/ \E f \in Profile :
                SelectProfile(r, s, f) \/ LookForFallback(r, s, f) \/ LookForArchived(r, s, f)
    \/ Repair(r) \/ RotateCSRF(r) \/ Update(r) \/ RefuseProfile(r)
    \/ ArchiveProfile(r) \/ RestoreProfile(r) \/ DeleteSession(r)

Next ==
    \/ \E r \in Req : RequestNext(r)
    \/ \E l \in Link : RevokePortalLink(l) \/ LinkExpires(l)
    \/ \E f \in Profile : BindProfile(f) \/ UnbindProfile(f) \/ DeleteProfile(f)
    \/ \E s \in {"active", "locked"} : SetPassportStatus(s)
    \/ Register \/ DeletePassport

Spec == Init /\ [][Next]_vars

(***************************************************************************)
(* Properties.                                                             *)
(***************************************************************************)
Savers(l) == {r \in Req : At(r, "save") /\ req[r].l = l}

SessionsFrom(l) == {s \in Session : session[s].from = l}

From(l) == SessionsFrom(l) \cup {<<r, l>> : r \in Savers(l)}

\* A link is one login: however logins, revocation, expiry and the deletion of
\* the passport race, it yields one session, and none when it was revoked.
LinkSpentOnce ==
    \A l \in Link :
        Cardinality(From(l)) <= (IF link[l].state \in {"used", "gone"} THEN 1 ELSE 0)

\* Sessions and links belong to the passport as it was registered last; one of
\* an earlier registration was saved by a request that was under way when the
\* passport was deleted, or comes from such a link.
SessionOfThisLife ==
    /\ \A s \in Session : session[s].state = "live" => session[s].mine \/ session[s].late
    /\ \A l \in Link : link[l].state = "active" => link[l].mine \/ link[l].late

\* A session that was logged out of, or went with its passport, is not brought
\* back by a request that read it before.
GoneStaysGone ==
    [][\A s \in Session : session[s].state = "gone" => session'[s].state = "gone"]_vars

\* "cannot archive the last active profile" (portal.go): the look for another
\* one comes before the change, so this holds for requests that no change of
\* the profiles overtook.
LastActiveKept ==
    [][\A r \in Req :
          At(r, "archive") /\ req'[r].stage # "archive" /\ r \notin overtaken /\ Active # {}
             => Active' # {}]_vars

\* What the requests amount to, for LoginLedger: a login is due from when the
\* link is marked used until its session is saved.
TicketOf(l) ==
    CASE link[l].state = "new" -> "none"
      [] link[l].state = "active" -> "open"
      [] link[l].state \in {"used", "revoked", "gone"} -> "closed"

LoginOf(l) ==
    IF SessionsFrom(l) # {} THEN "done" ELSE IF Savers(l) # {} THEN "due" ELSE "no"

Ledger == INSTANCE LoginLedger WITH
    ticket <- [l \in Link |-> TicketOf(l)],
    login <- [l \in Link |-> LoginOf(l)],
    seat <- [s \in Session |-> session[s].state],
    origin <- [s \in Session |-> session[s].from],
    NoLink <- None

\* handlePortalLinkLogin, in its three calls, with everything that may come in
\* between: the portal implements the ledger in which a link is redeemed for a
\* login in one step, the login for one session, and a session begins and ends once.
ImplementsLogins == Ledger!Spec

=================================================================================
