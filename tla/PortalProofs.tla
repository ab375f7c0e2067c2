------------------------------ MODULE PortalProofs ------------------------------
(***************************************************************************)
(* Links, sessions and archived profiles of the web portal, for any number *)
(* of requests, profiles, links and sessions.                              *)
(*                                                                         *)
(* LinkSpentOnce counts sessions and requests together; what a step keeps  *)
(* is that they do not meet (LinksSpent).  That is also what the ledger of *)
(* logins needs, with two facts about sessions: one that was never saved   *)
(* is from no link (NewAreBlank), and no request is in it (Shaped).        *)
(* LastActiveKept needs what a request that is to archive a profile knows  *)
(* while nothing overtakes it (ArchiveSafe), and that the profile of such  *)
(* a request was there once (RequestsShaped): one that is registered with  *)
(* a new passport is not it.                                               *)
(***************************************************************************)
EXTENDS Portal, FiniteSetTheorems, TLAPS

InSession == {"repair", "rotate", "update", "create", "archive", "restore", "logout"}

\* What the fields of a request hold where it is.
Shaped(q) ==
    /\ q.stage = "mark" => q.l \in Link
    /\ q.stage = "passport" => q.l = None
    /\ q.stage \in InSession => q.s \in Session /\ session[q.s].state # "new"
    /\ q.stage \in {"archive", "restore"} => q.f \in Profile /\ profile[q.f] # "new"
    /\ q.stage = "repair" => q.handler \in {"me", "look", "create"}

RequestsShaped == \A r \in Req : Shaped(req[r])

\* A link that was not used has neither sessions nor requests about to save
\* one; a link that was used, or is gone, has one of the two, and of that one
\* at most one.
LinksSpent ==
    \A l \in Link :
        /\ link[l].state \in {"new", "active", "revoked"} =>
               Savers(l) = {} /\ SessionsFrom(l) = {}
        /\ link[l].state \in {"used", "gone"} =>
               /\ Savers(l) = {} \/ SessionsFrom(l) = {}
               /\ \A r, o \in Savers(l) : r = o
               /\ \A s, t \in SessionsFrom(l) : s = t

\* Archiving leaves an active profile, if there was one.
Safe(q) == q.f \notin Active \/ q.g \in Fallbacks(q.f)

ArchiveSafe ==
    \A r \in Req : At(r, "archive") /\ r \notin overtaken => Safe(req[r])

\* A session that was never saved is from no link.
NewAreBlank == \A s \in Session : session[s].state = "new" => session[s].from = None

PortalInv ==
    /\ TypeOK
    /\ NewAreBlank
    /\ RequestsShaped
    /\ LinksSpent
    /\ SessionOfThisLife
    /\ ArchiveSafe

\* What a step may not do: bring a session back, take the last active profile
\* away, or do anything with links and sessions that the ledger does not.
KeepsGone == \A s \in Session : session[s].state = "gone" => session'[s].state = "gone"

KeepsLastActive ==
    \A r \in Req :
        At(r, "archive") /\ req'[r].stage # "archive" /\ r \notin overtaken /\ Active # {}
           => Active' # {}

KeepsLedger == [Ledger!Next]_(Ledger!ledger)

GoodStep == KeepsGone /\ KeepsLastActive /\ KeepsLedger

--------------------------------------------------------------------------------
(***************************************************************************)
(* Requests that move, and what follows for each part of the invariant.    *)
(***************************************************************************)
LEMMA NoRequestTyped ==
  /\ NoRequest \in Request /\ NoRequest.stage = None
  /\ NoRequest.l = None /\ Shaped(NoRequest)
BY DEF NoRequest, Request, Shaped, InSession, None

LEMMA BecomesOne ==
  ASSUME PortalInv, NEW r \in Req, NEW q \in Request, Becomes(r, q)
  PROVE  /\ req' \in [Req -> Request]
         /\ req'[r] = q
         /\ \A o \in Req : o # r => req'[o] = req[o]
BY DEF PortalInv, TypeOK, Becomes

\* Links and sessions are where they were: the ledger does not see the step.
LEMMA LedgerStutter ==
  ASSUME \A l \in Link : /\ link'[l].state = link[l].state
                         /\ Savers(l)' = Savers(l) /\ SessionsFrom(l)' = SessionsFrom(l),
         \A s \in Session : /\ session'[s].from = session[s].from
                            /\ session'[s].state = session[s].state
  PROVE  KeepsLedger
<1>1. \A l \in Link : TicketOf(l)' = TicketOf(l)
  BY DEF TicketOf
<1>2. \A l \in Link : LoginOf(l)' = LoginOf(l)
  BY DEF LoginOf
<1> QED
  BY <1>1, <1>2 DEF KeepsLedger, Ledger!ledger

\* A request that was not to save a session, and now is not to save one from
\* a link, is none of the ledger's business.
LEMMA MovesUnseen ==
  ASSUME PortalInv, NEW r \in Req, NEW q \in Request, Becomes(r, q), ~At(r, "save"),
         q.stage = "save" => q.l = None,
         UNCHANGED link,
         \A s \in Session : /\ session'[s].from = session[s].from
                            /\ session'[s].state = session[s].state
  PROVE  KeepsLedger
<1>1. req'[r] = q /\ \A o \in Req : o # r => req'[o] = req[o]
  BY BecomesOne
<1>2. ASSUME NEW l \in Link
      PROVE  Savers(l)' = Savers(l) /\ SessionsFrom(l)' = SessionsFrom(l)
  BY <1>1, PortalNone DEF Savers, SessionsFrom, At
<1> QED
  BY <1>2, LedgerStutter

\* No link gains a session or a request that is to save one, unless r, which
\* now has one from no link.
LEMMA MovesKeepSpent ==
  ASSUME PortalInv, NEW r \in Req, NEW q \in Request, Becomes(r, q),
         q.stage = "save" => q.l = None,
         UNCHANGED link,
         \A s \in Session : session'[s].from = session[s].from
  PROVE  LinksSpent'
<1>1. \A o \in Req : o # r => req'[o] = req[o]
  BY BecomesOne
<1>2. req'[r] = q
  BY BecomesOne
<1>3. ASSUME NEW l \in Link
      PROVE  Savers(l)' \subseteq Savers(l) /\ SessionsFrom(l)' = SessionsFrom(l)
  BY <1>1, <1>2, PortalNone DEF Savers, SessionsFrom, At
<1> QED
  BY <1>3 DEF LinksSpent, PortalInv

\* Profiles as they were: requests other than r know what they knew.
LEMMA MovesKeepProfiles ==
  ASSUME PortalInv, NEW r \in Req, NEW q \in Request, Becomes(r, q), Shaped(q),
         UNCHANGED profiles,
         \A s \in Session : session[s].state # "new" => session'[s].state # "new",
         overtaken' = overtaken \/ overtaken' = overtaken \ {r},
         q.stage = "archive" => Safe(q),
         ~At(r, "archive")
  PROVE  RequestsShaped' /\ ArchiveSafe' /\ KeepsLastActive
<1>1. /\ req'[r] = q
      /\ \A o \in Req : o # r => req'[o] = req[o]
  BY BecomesOne
<1>2. \A o \in Req : Shaped(req[o])
  BY DEF PortalInv, RequestsShaped
<1>3. profile' = profile /\ linked' = linked /\ Active' = Active
  BY DEF profiles, Active
<1>4. RequestsShaped'
  BY <1>1, <1>2, <1>3 DEF RequestsShaped, Shaped
<1>5. ArchiveSafe'
  BY <1>1, <1>3 DEF ArchiveSafe, PortalInv, Safe, Fallbacks, At
<1>6. KeepsLastActive
  BY <1>1, <1>3 DEF KeepsLastActive, At
<1> QED
  BY <1>4, <1>5, <1>6

\* A request moves, and perhaps a session changes.
LEMMA MovesKeep ==
  ASSUME PortalInv, NEW r \in Req, NEW q \in Request, Becomes(r, q), Shaped(q),
         ~At(r, "archive"),
         q.stage = "archive" => Safe(q),
         q.stage = "save" => q.l = None,
         overtaken' = overtaken \/ overtaken' = overtaken \ {r},
         UNCHANGED <<status, profiles, link>>,
         session' \in [Session -> SessionRow],
         \A s \in Session :
            /\ session'[s].from = session[s].from
            /\ session'[s].state = "live" =>
                  /\ session[s].state = "live"
                  /\ session'[s].mine = session[s].mine /\ session'[s].late = session[s].late
            /\ session[s].state = "gone" => session'[s].state = "gone"
            /\ session[s].state # "new" => session'[s].state # "new"
  PROVE  PortalInv' /\ KeepsGone /\ KeepsLastActive
<1>1. TypeOK'
  BY BecomesOne DEF PortalInv, TypeOK, profiles
<1>2. LinksSpent'
  BY MovesKeepSpent
<1>3. RequestsShaped' /\ ArchiveSafe' /\ KeepsLastActive
  BY MovesKeepProfiles
<1>4. SessionOfThisLife'
  BY DEF SessionOfThisLife, PortalInv
<1>5. NewAreBlank'
  BY DEF PortalInv, NewAreBlank
<1> QED
  BY <1>1, <1>2, <1>3, <1>4, <1>5 DEF PortalInv, KeepsGone

\* A request moves, and perhaps what its session has selected.
LEMMA QuietMovesKeep ==
  ASSUME PortalInv, NEW r \in Req, NEW q \in Request, Becomes(r, q), Shaped(q),
         ~At(r, "archive"), ~At(r, "save"),
         q.stage = "archive" => Safe(q),
         q.stage = "save" => q.l = None,
         overtaken' = overtaken \/ overtaken' = overtaken \ {r},
         UNCHANGED <<status, profiles, link>>,
         session' \in [Session -> SessionRow],
         \A s \in Session :
            /\ session'[s].from = session[s].from /\ session'[s].state = session[s].state
            /\ session'[s].mine = session[s].mine /\ session'[s].late = session[s].late
  PROVE  PortalInv' /\ GoodStep
<1>1. PortalInv' /\ KeepsGone /\ KeepsLastActive
  BY MovesKeep
<1>2. KeepsLedger
  BY MovesUnseen
<1> QED
  BY <1>1, <1>2 DEF GoodStep

\* Only a request moves.
LEMMA OnlyMovesKeep ==
  ASSUME PortalInv, NEW r \in Req, NEW q \in Request, Becomes(r, q), Shaped(q),
         ~At(r, "archive"), ~At(r, "save"),
         q.stage = "archive" => Safe(q),
         q.stage = "save" => q.l = None,
         overtaken' = overtaken \/ overtaken' = overtaken \ {r},
         UNCHANGED <<status, profiles, link, session>>
  PROVE  PortalInv' /\ GoodStep
<1>1. session' = session /\ session \in [Session -> SessionRow]
  BY DEF PortalInv, TypeOK
<1> QED
  BY <1>1, QuietMovesKeep

\* Profiles change, and everyone who is to archive one but the requests of by
\* is overtaken.
LEMMA ChangeKeepsSafe ==
  ASSUME PortalInv, NEW by, ProfilesChange(by),
         \A r \in Req : req'[r].stage = "archive" => r \notin by /\ At(r, "archive")
  PROVE  ArchiveSafe' /\ overtaken' \subseteq Req
BY DEF ArchiveSafe, PortalInv, TypeOK, ProfilesChange, At

\* Requests that move keep their shape as long as no profile is new again.
LEMMA MovesKeepShape ==
  ASSUME PortalInv, NEW r \in Req, NEW q \in Request, Becomes(r, q), Shaped(q),
         UNCHANGED session,
         \A f \in Profile : profile[f] # "new" => profile'[f] # "new"
  PROVE  RequestsShaped'
<1>1. /\ req'[r] = q
      /\ \A o \in Req : o # r => req'[o] = req[o]
  BY BecomesOne
<1>2. \A o \in Req : Shaped(req[o])
  BY DEF PortalInv, RequestsShaped
<1> QED
  BY <1>1, <1>2 DEF RequestsShaped, Shaped

--------------------------------------------------------------------------------
(***************************************************************************)
(* Links and logins.                                                       *)
(***************************************************************************)
LEMMA IssueLinkKeeps ==
  ASSUME PortalInv, NEW r \in Req, NEW f \in Profile, IssueLink(r, f)
  PROVE  PortalInv' /\ GoodStep
<1> DEFINE q == [NoRequest EXCEPT !.stage = "issue", !.f = f, !.mine = TRUE]
<1>1. q \in Request /\ q.stage = "issue"
  BY DEF NoRequest, Request, Stage
<1>2. Becomes(r, q) /\ ~At(r, "archive") /\ ~At(r, "save") /\ overtaken' = overtaken \ {r}
  BY DEF IssueLink, Begins, At, None
<1>3. UNCHANGED <<status, profiles, link, session>>
  BY DEF IssueLink
<1> HIDE DEF q
<1>4. Shaped(q)
  BY <1>1 DEF Shaped, InSession
<1> QED
  BY <1>1, <1>2, <1>3, <1>4, OnlyMovesKeep

LEMMA LoginKeeps ==
  ASSUME PortalInv, NEW r \in Req, Login(r)
  PROVE  PortalInv' /\ GoodStep
<1> DEFINE q == [NoRequest EXCEPT !.stage = "passport", !.mine = TRUE]
<1>1. q \in Request /\ q.stage = "passport" /\ q.l = None
  BY DEF NoRequest, Request, Stage
<1>2. Becomes(r, q) /\ ~At(r, "archive") /\ ~At(r, "save") /\ overtaken' = overtaken \ {r}
  BY DEF Login, Begins, At, None
<1>3. UNCHANGED <<status, profiles, link, session>>
  BY DEF Login
<1> HIDE DEF q
<1>4. Shaped(q)
  BY <1>1 DEF Shaped, InSession
<1> QED
  BY <1>1, <1>2, <1>3, <1>4, OnlyMovesKeep

LEMMA LinkLoginKeeps ==
  ASSUME PortalInv, NEW r \in Req, NEW l \in Link, LinkLogin(r, l)
  PROVE  PortalInv' /\ GoodStep
<1>1. PICK f \in LinkProfiles(link[l].profile) :
         Begins(r, [NoRequest EXCEPT !.stage = "mark", !.l = l, !.f = f, !.mine = link[l].mine])
  BY DEF LinkLogin
<1> DEFINE q == [NoRequest EXCEPT !.stage = "mark", !.l = l, !.f = f, !.mine = link[l].mine]
<1>2. f \in Profile
  BY DEF LinkProfiles, Active, PortalInv, TypeOK
<1>3. link[l].mine \in BOOLEAN
  BY DEF PortalInv, TypeOK, LinkRow
<1>4. q \in Request /\ q.stage = "mark" /\ q.l = l
  BY <1>2, <1>3 DEF NoRequest, Request, Stage
<1>5. Becomes(r, q) /\ ~At(r, "archive") /\ ~At(r, "save") /\ overtaken' = overtaken \ {r}
  BY <1>1 DEF Begins, At, None
<1>6. UNCHANGED <<status, profiles, link, session>>
  BY DEF LinkLogin
<1> HIDE DEF q
<1>7. Shaped(q)
  BY <1>4 DEF Shaped, InSession
<1> QED
  BY <1>4, <1>5, <1>6, <1>7, OnlyMovesKeep

\* Only a request ends.
LEMMA EndsKeep ==
  ASSUME PortalInv, NEW r \in Req, Ends(r), ~At(r, "archive"), ~At(r, "save"),
         UNCHANGED <<status, profiles, link, session, overtaken>>
  PROVE  PortalInv' /\ GoodStep
<1>1. NoRequest.stage # "archive" /\ NoRequest.stage # "save"
  BY NoRequestTyped DEF None
<1> QED
  BY <1>1, NoRequestTyped, OnlyMovesKeep DEF Ends

LEMMA LoginProfileKeeps ==
  ASSUME PortalInv, NEW r \in Req, LoginProfile(r)
  PROVE  PortalInv' /\ GoodStep
<1>1. UNCHANGED <<status, profiles, link, session, overtaken>> /\ ~At(r, "archive") /\ ~At(r, "save")
  BY DEF LoginProfile, At
<1>2. CASE Ends(r)
  BY <1>1, <1>2, EndsKeep
<1>3. ASSUME NEW f \in linked, Becomes(r, [req[r] EXCEPT !.f = f, !.stage = "save"])
      PROVE  PortalInv' /\ GoodStep
  <2> DEFINE q == [req[r] EXCEPT !.f = f, !.stage = "save"]
  <2>1. f \in Profile /\ req[r] \in Request /\ req[r].l = None
    BY DEF PortalInv, TypeOK, RequestsShaped, Shaped, LoginProfile, At
  <2>2. q \in Request /\ q.stage = "save" /\ q.l = None
    BY <2>1 DEF Request, Stage
  <2>3. Becomes(r, q)
    BY <1>3
  <2> HIDE DEF q
  <2>4. Shaped(q)
    BY <2>2 DEF Shaped, InSession
  <2> QED
    BY <1>1, <2>2, <2>3, <2>4, OnlyMovesKeep
<1> QED
  BY <1>2, <1>3 DEF LoginProfile

LEMMA SavePortalLinkKeeps ==
  ASSUME PortalInv, NEW r \in Req, NEW l \in Link, SavePortalLink(r, l)
  PROVE  PortalInv' /\ GoodStep
<1> DEFINE row == [NewLink EXCEPT !.state = "active", !.profile = req[r].f,
                                  !.mine = req[r].mine, !.late = ~req[r].mine]
<1>1. req[r] \in Request /\ req[r].f \in Profile \cup {None} /\ req[r].mine \in BOOLEAN
  BY DEF PortalInv, TypeOK, Request
<1>2. row \in LinkRow /\ row.state = "active" /\ (row.mine \/ row.late)
  BY <1>1 DEF NewLink, LinkRow
<1>3. link' = [link EXCEPT ![l] = row] /\ link[l].state = "new"
  BY DEF SavePortalLink
<1> HIDE DEF row
<1>4. /\ link' \in [Link -> LinkRow] /\ link'[l] = row
      /\ \A m \in Link : m # l => link'[m] = link[m]
  BY <1>2, <1>3 DEF PortalInv, TypeOK
<1>5. Becomes(r, NoRequest) /\ ~At(r, "archive") /\ ~At(r, "save")
      /\ UNCHANGED <<status, profiles, session, overtaken>>
  BY DEF SavePortalLink, Ends, At
<1>6. NoRequest.stage # "archive" /\ NoRequest.stage # "save"
  BY NoRequestTyped DEF None
<1>7. TypeOK'
  BY <1>4, <1>5, NoRequestTyped, BecomesOne DEF PortalInv, TypeOK, profiles
<1>8. RequestsShaped' /\ ArchiveSafe' /\ KeepsLastActive
  BY <1>5, <1>6, NoRequestTyped, MovesKeepProfiles
<1>9. \A m \in Link : Savers(m)' = Savers(m) /\ SessionsFrom(m)' = SessionsFrom(m)
  <2>1. /\ req'[r] = NoRequest
        /\ \A o \in Req : o # r => req'[o] = req[o]
    BY <1>5, NoRequestTyped, BecomesOne
  <2> QED
    BY <2>1, <1>5, <1>6 DEF Savers, SessionsFrom, At
<1>10. LinksSpent'
  BY <1>2, <1>3, <1>4, <1>9 DEF LinksSpent, PortalInv
<1>11. KeepsLedger
  <2>1. \A m \in Link : LoginOf(m)' = LoginOf(m)
    BY <1>9 DEF LoginOf
  <2>2. TicketOf(l) = "none" /\ TicketOf(l)' = "open"
    BY <1>2, <1>3, <1>4 DEF TicketOf
  <2>3. \A m \in Link : m # l => TicketOf(m)' = TicketOf(m)
    BY <1>4 DEF TicketOf
  <2>4. Ledger!Issue(l)
    BY <1>5, <2>1, <2>2, <2>3 DEF Ledger!Issue
  <2> QED
    BY <2>4 DEF KeepsLedger, Ledger!Next
<1>12. SessionOfThisLife'
  BY <1>2, <1>4, <1>5 DEF SessionOfThisLife, PortalInv
<1>13. NewAreBlank'
  BY <1>5 DEF PortalInv, NewAreBlank
<1> QED
  BY <1>5, <1>7, <1>8, <1>10, <1>11, <1>12, <1>13 DEF PortalInv, GoodStep, KeepsGone

\* A link that is active or runs out, and is none of the others' business.
LEMMA LinkChangeKeeps ==
  ASSUME PortalInv, NEW l \in Link, NEW row \in LinkRow,
         link' = [link EXCEPT ![l] = row],
         link[l].state = "active",
         \/ row.state = "revoked"
         \/ row.state = "active" /\ row.mine = link[l].mine /\ row.late = link[l].late,
         UNCHANGED <<status, profiles, session, req, overtaken>>
  PROVE  PortalInv' /\ GoodStep
<1>1. /\ link' \in [Link -> LinkRow] /\ link'[l] = row
      /\ \A m \in Link : m # l => link'[m] = link[m]
  BY DEF PortalInv, TypeOK
<1>2. TypeOK'
  BY <1>1 DEF PortalInv, TypeOK, profiles
<1>3. RequestsShaped' /\ ArchiveSafe' /\ KeepsLastActive
  BY DEF PortalInv, RequestsShaped, Shaped, ArchiveSafe, Safe, Fallbacks, Active, At,
         KeepsLastActive, profiles
<1>4. \A m \in Link : Savers(m)' = Savers(m) /\ SessionsFrom(m)' = SessionsFrom(m)
  BY DEF Savers, SessionsFrom, At
<1>5. LinksSpent'
  BY <1>1, <1>4 DEF LinksSpent, PortalInv
<1>6. SessionOfThisLife'
  BY <1>1 DEF SessionOfThisLife, PortalInv
<1>7. ASSUME row.state = "revoked" PROVE KeepsLedger
  <2>1. \A m \in Link : LoginOf(m)' = LoginOf(m)
    BY <1>4 DEF LoginOf
  <2>2. TicketOf(l) = "open" /\ TicketOf(l)' = "closed"
    BY <1>1, <1>7 DEF TicketOf
  <2>3. \A m \in Link : m # l => TicketOf(m)' = TicketOf(m)
    BY <1>1 DEF TicketOf
  <2>4. Ledger!End({l}, {})
    BY <2>1, <2>2, <2>3 DEF Ledger!End
  <2> QED
    BY <2>4 DEF KeepsLedger, Ledger!Next
<1>8. ASSUME row.state = "active" PROVE KeepsLedger
  BY <1>1, <1>4, <1>8, LedgerStutter
<1>9. NewAreBlank'
  BY DEF PortalInv, NewAreBlank
<1> QED
  BY <1>2, <1>3, <1>5, <1>6, <1>7, <1>8, <1>9 DEF PortalInv, GoodStep, KeepsGone

LEMMA RevokePortalLinkKeeps ==
  ASSUME PortalInv, NEW l \in Link, RevokePortalLink(l)
  PROVE  PortalInv' /\ GoodStep
<1>1. Spent("revoked") \in LinkRow /\ Spent("revoked").state = "revoked"
  BY DEF Spent, NewLink, LinkRow
<1> QED
  BY <1>1, LinkChangeKeeps DEF RevokePortalLink

LEMMA LinkExpiresKeeps ==
  ASSUME PortalInv, NEW l \in Link, LinkExpires(l)
  PROVE  PortalInv' /\ GoodStep
<1> DEFINE row == [link[l] EXCEPT !.expired = TRUE]
<1>1. link[l] \in LinkRow
  BY DEF PortalInv, TypeOK
<1>2. /\ row \in LinkRow /\ row.state = link[l].state
      /\ row.mine = link[l].mine /\ row.late = link[l].late
  BY <1>1 DEF LinkRow
<1>3. link' = [link EXCEPT ![l] = row] /\ link[l].state = "active"
  BY DEF LinkExpires
<1>4. UNCHANGED <<status, profiles, session, req, overtaken>>
  BY DEF LinkExpires
<1> HIDE DEF row
<1> QED
  BY <1>2, <1>3, <1>4, LinkChangeKeeps

\* The link is used, and r alone is to save a session from it.
LEMMA MarkPortalLinkUsedKeeps ==
  ASSUME PortalInv, NEW r \in Req, MarkPortalLinkUsed(r)
  PROVE  PortalInv' /\ GoodStep
<1>0. PICK l \in Link : l = req[r].l
  BY DEF MarkPortalLinkUsed, At, PortalInv, RequestsShaped, Shaped
<1> DEFINE q == [req[r] EXCEPT !.stage = "save"]
<1>1. l = req[r].l /\ req[r] \in Request /\ ~At(r, "archive") /\ ~At(r, "save")
  BY <1>0 DEF MarkPortalLinkUsed, At, PortalInv, TypeOK
<1>2. UNCHANGED <<status, profiles, session, overtaken>>
  BY DEF MarkPortalLinkUsed
<1>3. CASE link[l].state # "active"
  BY <1>1, <1>2, <1>3, EndsKeep DEF MarkPortalLinkUsed
<1>4. CASE link[l].state = "active"
  <2>1. q \in Request /\ q.stage = "save" /\ q.l = l
    BY <1>1 DEF Request, Stage
  <2>2. link' = [link EXCEPT ![l] = Spent("used")] /\ Becomes(r, q)
    BY <1>1, <1>4 DEF MarkPortalLinkUsed, Goes
  <2>3. Spent("used") \in LinkRow /\ Spent("used").state = "used"
    BY DEF Spent, NewLink, LinkRow
  <2> HIDE DEF q
  <2>4. /\ link' \in [Link -> LinkRow] /\ link'[l].state = "used"
        /\ \A m \in Link : m # l => link'[m] = link[m]
    BY <1>1, <2>2, <2>3 DEF PortalInv, TypeOK
  <2>5. Shaped(q)
    BY <2>1 DEF Shaped, InSession
  <2>6. RequestsShaped' /\ ArchiveSafe' /\ KeepsLastActive
    BY <1>1, <1>2, <2>1, <2>2, <2>5, MovesKeepProfiles
  <2>7. /\ req' \in [Req -> Request] /\ req'[r] = q
        /\ \A o \in Req : o # r => req'[o] = req[o]
    BY <2>1, <2>2, BecomesOne
  <2>8. TypeOK'
    BY <1>2, <2>4, <2>7 DEF PortalInv, TypeOK, profiles
  <2>9. \A m \in Link : SessionsFrom(m)' = SessionsFrom(m)
    BY <1>2 DEF SessionsFrom
  <2>10. \A m \in Link : m # l => Savers(m)' = Savers(m)
    BY <1>1, <2>1, <2>7 DEF Savers, At
  <2>11. Savers(l) = {} /\ SessionsFrom(l) = {}
    BY <1>1, <1>4 DEF PortalInv, LinksSpent
  <2>12. Savers(l)' = {r}
    BY <2>1, <2>7, <2>11 DEF Savers, At
  <2>13. LinksSpent'
    BY <2>4, <2>9, <2>10, <2>11, <2>12 DEF PortalInv, LinksSpent
  <2>14. SessionOfThisLife'
    BY <1>2, <2>4 DEF PortalInv, SessionOfThisLife
  <2>15. Ledger!Redeem(l)
    <3>1. TicketOf(l) = "open" /\ TicketOf(l)' = "closed" /\ LoginOf(l)' = "due"
      BY <1>4, <2>4, <2>9, <2>11, <2>12 DEF TicketOf, LoginOf
    <3>2. \A m \in Link : m # l => TicketOf(m)' = TicketOf(m) /\ LoginOf(m)' = LoginOf(m)
      BY <2>4, <2>9, <2>10 DEF TicketOf, LoginOf
    <3> QED
      BY <1>2, <3>1, <3>2 DEF Ledger!Redeem
  <2>16. KeepsLedger
    BY <2>15 DEF KeepsLedger, Ledger!Next
  <2>17. NewAreBlank'
    BY <1>2 DEF PortalInv, NewAreBlank
  <2> QED
    BY <1>2, <2>6, <2>8, <2>13, <2>14, <2>16, <2>17 DEF PortalInv, GoodStep, KeepsGone
<1> QED
  BY <1>3, <1>4

\* What r was to save is saved: a session instead of a request.
LEMMA SaveSessionKeeps ==
  ASSUME PortalInv, NEW r \in Req, NEW s \in Session, SaveSession(r, s)
  PROVE  PortalInv' /\ GoodStep
<1> DEFINE row == [NewSession EXCEPT !.state = "live", !.profile = req[r].f, !.from = req[r].l,
                                     !.mine = req[r].mine, !.late = ~req[r].mine]
<1>1. /\ req[r] \in Request /\ req[r].f \in Profile \cup {None} /\ req[r].mine \in BOOLEAN
      /\ req[r].l \in Link \cup {None}
  BY DEF PortalInv, TypeOK, Request
<1>2. row \in SessionRow /\ row.state = "live" /\ (row.mine \/ row.late) /\ row.from = req[r].l
  BY <1>1 DEF NewSession, SessionRow
<1>3. session' = [session EXCEPT ![s] = row] /\ session[s].state = "new"
  BY DEF SaveSession
<1> HIDE DEF row
<1>4. /\ session' \in [Session -> SessionRow] /\ session'[s] = row
      /\ \A t \in Session : t # s => session'[t] = session[t]
  BY <1>2, <1>3 DEF PortalInv, TypeOK
<1>5. /\ Becomes(r, NoRequest) /\ ~At(r, "archive") /\ At(r, "save")
      /\ UNCHANGED <<status, profiles, link, overtaken>>
  BY DEF SaveSession, Ends, At
<1>6. NoRequest.stage # "archive" /\ NoRequest.stage # "save"
  BY NoRequestTyped DEF None
<1>7. TypeOK'
  BY <1>4, <1>5, NoRequestTyped, BecomesOne DEF PortalInv, TypeOK, profiles
<1>8. RequestsShaped' /\ ArchiveSafe' /\ KeepsLastActive
  <2>1. \A t \in Session : session[t].state # "new" => session'[t].state # "new"
    BY <1>2, <1>4
  <2> QED
    BY <1>5, <1>6, <2>1, NoRequestTyped, MovesKeepProfiles
<1>9. session[s].from = None
  BY <1>3 DEF PortalInv, NewAreBlank
<1>10. /\ req'[r] = NoRequest
       /\ \A o \in Req : o # r => req'[o] = req[o]
  BY <1>5, NoRequestTyped, BecomesOne
<1>11. ASSUME NEW m \in Link, m # req[r].l
       PROVE  Savers(m)' = Savers(m) /\ SessionsFrom(m)' = SessionsFrom(m)
  BY <1>2, <1>4, <1>6, <1>9, <1>10, <1>11, PortalNone DEF Savers, SessionsFrom, At
<1>12. ASSUME NEW m \in Link, m = req[r].l
       PROVE  /\ r \in Savers(m)
              /\ Savers(m)' = Savers(m) \ {r}
              /\ SessionsFrom(m)' = SessionsFrom(m) \cup {s}
  BY <1>2, <1>4, <1>5, <1>6, <1>10, <1>12 DEF Savers, SessionsFrom, At
<1>13. LinksSpent'
  BY <1>5, <1>11, <1>12 DEF LinksSpent, PortalInv
<1>14. \A m \in Link : TicketOf(m)' = TicketOf(m)
  BY <1>5 DEF TicketOf
<1>15. /\ session[s].state = "new" /\ session'[s].state = "live"
       /\ \A t \in Session : t # s => session'[t].state = session[t].state
  BY <1>2, <1>3, <1>4
<1>16. \A m \in Link : m # req[r].l => LoginOf(m)' = LoginOf(m)
  BY <1>11 DEF LoginOf
<1>17. /\ session[s].from = None /\ session'[s].from = req[r].l
       /\ \A t \in Session : t # s => session'[t].from = session[t].from
  BY <1>2, <1>4, <1>9
<1>18. ASSUME req[r].l \in Link PROVE KeepsLedger
  <2>1. PICK l \in Link : l = req[r].l
    BY <1>18
  <2>2. r \in Savers(l) /\ s \in SessionsFrom(l)'
    BY <2>1, <1>12
  <2>3. link[l].state \in {"new", "active", "used", "revoked", "gone"}
    BY DEF PortalInv, TypeOK, LinkRow
  <2>4. SessionsFrom(l) = {}
    BY <2>2, <2>3 DEF PortalInv, LinksSpent
  <2>5. LoginOf(l) = "due" /\ LoginOf(l)' = "done"
    BY <2>2, <2>4 DEF LoginOf
  <2>6. Ledger!BeginByLink(l, s)
    BY <2>1, <2>5, <1>14, <1>15, <1>16, <1>17 DEF Ledger!BeginByLink
  <2> QED
    BY <2>6 DEF KeepsLedger, Ledger!Next
<1>19. ASSUME req[r].l = None PROVE KeepsLedger
  <2>1. \A m \in Link : LoginOf(m)' = LoginOf(m)
    BY <1>16, <1>19, PortalNone
  <2>2. \A t \in Session : session'[t].from = session[t].from
    BY <1>17, <1>19
  <2>3. Ledger!BeginByPassword(s)
    BY <2>1, <2>2, <1>14, <1>15 DEF Ledger!BeginByPassword
  <2> QED
    BY <2>3 DEF KeepsLedger, Ledger!Next
<1>20. SessionOfThisLife'
  BY <1>2, <1>4, <1>5 DEF SessionOfThisLife, PortalInv
<1>21. NewAreBlank'
  BY <1>4, <1>15 DEF PortalInv, NewAreBlank
<1> QED
  BY <1>1, <1>3, <1>4, <1>7, <1>8, <1>13, <1>18, <1>19, <1>20, <1>21 DEF PortalInv, GoodStep, KeepsGone

--------------------------------------------------------------------------------
(***************************************************************************)
(* Requests in a session.                                                  *)
(***************************************************************************)
\* What UpdateSession does to the rows.
LEMMA UpdateSessionRows ==
  ASSUME PortalInv, NEW s \in Session, NEW f \in Profile \cup {None}, UpdateSession(s, f)
  PROVE  /\ session' \in [Session -> SessionRow]
         /\ \A t \in Session :
               /\ session'[t].from = session[t].from
               /\ session'[t].state = session[t].state
               /\ session'[t].mine = session[t].mine /\ session'[t].late = session[t].late
<1>1. session \in [Session -> SessionRow]
  BY DEF PortalInv, TypeOK
<1>2. CASE session' = session
  BY <1>1, <1>2
<1>3. CASE session' = [session EXCEPT ![s].profile = f]
  <2> DEFINE row == [session[s] EXCEPT !.profile = f]
  <2>1. /\ row \in SessionRow
        /\ row.from = session[s].from /\ row.state = session[s].state
        /\ row.mine = session[s].mine /\ row.late = session[s].late
    BY <1>1 DEF SessionRow
  <2>2. session' = [session EXCEPT ![s] = row]
    BY <1>3
  <2> HIDE DEF row
  <2> QED
    BY <1>1, <2>1, <2>2
<1> QED
  BY <1>2, <1>3 DEF UpdateSession

\* A request begins in a session.
LEMMA OpensKeep ==
  ASSUME PortalInv, NEW r \in Req, NEW s \in Session, NEW q \in Request, Opens(r, s, q),
         q.stage # "save", q.stage # "mark", q.stage # "passport",
         q.stage \in {"archive", "restore"} => q.f \in Profile /\ profile[q.f] # "new",
         q.stage = "repair" => q.handler \in {"me", "look", "create"},
         q.stage = "archive" => Safe(q)
  PROVE  PortalInv' /\ GoodStep
<1> DEFINE p == [q EXCEPT !.s = s]
<1>1. /\ p \in Request /\ p.s = s /\ p.stage = q.stage /\ p.f = q.f /\ p.g = q.g
      /\ p.handler = q.handler
  BY DEF Request
<1>2. Becomes(r, p) /\ ~At(r, "archive") /\ ~At(r, "save") /\ overtaken' = overtaken \ {r}
  BY DEF Opens, Begins, At, None
<1>3. UNCHANGED <<status, profiles, link, session>>
  BY DEF Opens
<1> HIDE DEF p
<1>4. Shaped(p)
  BY <1>1 DEF Shaped, InSession, Opens
<1>5. p.stage = "archive" => Safe(p)
  BY <1>1 DEF Safe
<1> QED
  BY <1>1, <1>2, <1>3, <1>4, <1>5, OnlyMovesKeep

LEMMA IdentifiedTyped ==
  ASSUME NEW q \in Request, q.handler \in {"me", "look", "create"}
  PROVE  /\ Identified(q) \in Request
         /\ q.handler = "me" => Identified(q).stage = "rotate" /\ Identified(q).s = q.s
         /\ q.handler = "create" => Identified(q).stage = "create" /\ Identified(q).s = q.s
         /\ q.handler = "look" => Identified(q) = NoRequest
<1>1. CASE q.handler = "me"
  <2>1. Identified(q) = [q EXCEPT !.stage = "rotate", !.f = None]
    BY <1>1 DEF Identified
  <2> QED
    BY <1>1, <2>1 DEF Request, Stage
<1>2. CASE q.handler = "create"
  <2>1. Identified(q) = [q EXCEPT !.stage = "create", !.f = None, !.sel = None]
    BY <1>2 DEF Identified
  <2> QED
    BY <1>2, <2>1 DEF Request, Stage
<1>3. CASE q.handler = "look"
  BY <1>3, NoRequestTyped DEF Identified
<1> QED
  BY <1>1, <1>2, <1>3

LEMMA OpenKeeps ==
  ASSUME PortalInv, NEW r \in Req, NEW s \in Session, NEW h \in {"me", "look", "create"},
         Open(r, s, h)
  PROVE  PortalInv' /\ GoodStep
<1> DEFINE goes == IF h = "create" /\ status # "active" THEN "look" ELSE h
           q == [NoRequest EXCEPT !.s = s, !.handler = goes, !.sel = session[s].profile]
<1>1. session[s].profile \in Profile \cup {None}
  BY DEF PortalInv, TypeOK, SessionRow
<1>2. goes \in {"me", "look", "create"}
  OBVIOUS
<1>3. q \in Request /\ q.handler = goes /\ q.s = s
  BY <1>1, <1>2 DEF NoRequest, Request
<1>4. IF q.sel \in linked THEN goes # "look" /\ Opens(r, s, Identified(q))
      ELSE \E f \in linked : Opens(r, s, [q EXCEPT !.stage = "repair", !.f = f])
  BY DEF Open
<1> HIDE DEF q, goes
<1>5. CASE q.sel \in linked
  <2>1. Identified(q) \in Request /\ Identified(q).stage \in {"rotate", "create"}
    BY <1>2, <1>3, <1>4, <1>5, IdentifiedTyped
  <2> QED
    BY <1>4, <1>5, <2>1, OpensKeep
<1>6. CASE q.sel \notin linked
  <2>1. PICK f \in linked : Opens(r, s, [q EXCEPT !.stage = "repair", !.f = f])
    BY <1>4, <1>6
  <2> DEFINE p == [q EXCEPT !.stage = "repair", !.f = f]
  <2>2. f \in Profile
    BY DEF PortalInv, TypeOK
  <2>3. p \in Request /\ p.stage = "repair" /\ p.handler = goes
    BY <1>3, <2>2 DEF Request, Stage
  <2>4. Opens(r, s, p)
    BY <2>1
  <2> HIDE DEF p
  <2> QED
    BY <1>2, <2>3, <2>4, OpensKeep
<1> QED
  BY <1>5, <1>6

LEMMA RepairKeeps ==
  ASSUME PortalInv, NEW r \in Req, Repair(r)
  PROVE  PortalInv' /\ GoodStep
<1>1. /\ req[r] \in Request /\ req[r].s \in Session /\ session[req[r].s].state # "new"
      /\ ~At(r, "archive") /\ ~At(r, "save")
      /\ req[r].handler \in {"me", "look", "create"} /\ req[r].f \in Profile \cup {None}
  BY DEF Repair, At, PortalInv, TypeOK, RequestsShaped, Shaped, InSession, Request
<1> DEFINE q == Identified(req[r])
<1>2. /\ UpdateSession(req[r].s, req[r].f) /\ Becomes(r, q)
      /\ UNCHANGED <<status, profiles, link, overtaken>>
  BY DEF Repair
<1>3. /\ q \in Request
      /\ \/ q.stage \in {"rotate", "create"} /\ q.s = req[r].s
         \/ q = NoRequest
  BY <1>1, IdentifiedTyped
<1> HIDE DEF q
<1>4. Shaped(q) /\ q.stage # "archive" /\ q.stage # "save"
  BY <1>1, <1>3, NoRequestTyped DEF Shaped, InSession, None
<1> QED
  BY <1>1, <1>2, <1>3, <1>4, UpdateSessionRows, QuietMovesKeep

LEMMA UpdatesKeep ==
  ASSUME PortalInv, NEW r \in Req, NEW f \in Profile \cup {None},
         At(r, "rotate") \/ At(r, "update"),
         UpdateSession(req[r].s, f), Ends(r),
         UNCHANGED <<status, profiles, link, overtaken>>
  PROVE  PortalInv' /\ GoodStep
<1>1. req[r].s \in Session /\ ~At(r, "archive") /\ ~At(r, "save")
  BY DEF At, PortalInv, RequestsShaped, Shaped, InSession
<1>2. NoRequest.stage # "archive" /\ NoRequest.stage # "save"
  BY NoRequestTyped DEF None
<1> QED
  BY <1>1, <1>2, NoRequestTyped, UpdateSessionRows, QuietMovesKeep DEF Ends

LEMMA RotateCSRFKeeps ==
  ASSUME PortalInv, NEW r \in Req, RotateCSRF(r)
  PROVE  PortalInv' /\ GoodStep
<1>1. req[r].sel \in Profile \cup {None}
  BY DEF PortalInv, TypeOK, Request
<1> QED
  BY <1>1, UpdatesKeep DEF RotateCSRF

LEMMA UpdateKeeps ==
  ASSUME PortalInv, NEW r \in Req, Update(r)
  PROVE  PortalInv' /\ GoodStep
<1>1. req[r].f \in Profile \cup {None}
  BY DEF PortalInv, TypeOK, Request
<1> QED
  BY <1>1, UpdatesKeep DEF Update

LEMMA SelectProfileKeeps ==
  ASSUME PortalInv, NEW r \in Req, NEW s \in Session, NEW f \in Profile, SelectProfile(r, s, f)
  PROVE  PortalInv' /\ GoodStep
<1> DEFINE q == [NoRequest EXCEPT !.stage = "update", !.f = f]
<1>1. q \in Request /\ q.stage = "update"
  BY DEF NoRequest, Request, Stage
<1>2. Opens(r, s, q)
  BY DEF SelectProfile
<1> HIDE DEF q
<1> QED
  BY <1>1, <1>2, OpensKeep

LEMMA LookForArchivedKeeps ==
  ASSUME PortalInv, NEW r \in Req, NEW s \in Session, NEW f \in Profile, LookForArchived(r, s, f)
  PROVE  PortalInv' /\ GoodStep
<1> DEFINE q == [NoRequest EXCEPT !.stage = "restore", !.f = f]
<1>1. q \in Request /\ q.stage = "restore" /\ q.f = f
  BY DEF NoRequest, Request, Stage
<1>2. Opens(r, s, q)
  BY DEF LookForArchived
<1>3. profile[f] # "new"
  BY DEF LookForArchived, Owned, PortalInv, TypeOK
<1> HIDE DEF q
<1> QED
  BY <1>1, <1>2, <1>3, OpensKeep

LEMMA LogoutKeeps ==
  ASSUME PortalInv, NEW r \in Req, NEW s \in Session, Logout(r, s)
  PROVE  PortalInv' /\ GoodStep
<1> DEFINE q == [NoRequest EXCEPT !.stage = "logout"]
<1>1. q \in Request /\ q.stage = "logout"
  BY DEF NoRequest, Request, Stage
<1>2. Opens(r, s, q)
  BY DEF Logout
<1> HIDE DEF q
<1> QED
  BY <1>1, <1>2, OpensKeep

LEMMA RefuseProfileKeeps ==
  ASSUME PortalInv, NEW r \in Req, RefuseProfile(r)
  PROVE  PortalInv' /\ GoodStep
BY EndsKeep DEF RefuseProfile, At

\* The request has found another active profile, or has none to take away.
LEMMA LookForFallbackKeeps ==
  ASSUME PortalInv, NEW r \in Req, NEW s \in Session, NEW f \in Profile, LookForFallback(r, s, f)
  PROVE  PortalInv' /\ GoodStep
<1> DEFINE q == [NoRequest EXCEPT !.stage = "archive", !.f = f, !.sel = session[s].profile]
<1>1. session[s].profile \in Profile \cup {None}
  BY DEF PortalInv, TypeOK, SessionRow
<1>2. q \in Request /\ q.stage = "archive" /\ q.f = f
  BY <1>1 DEF NoRequest, Request, Stage
<1>3. profile[f] # "new"
  BY DEF LookForFallback, Owned, PortalInv, TypeOK
<1>4. \/ f \notin Active /\ Opens(r, s, q)
      \/ \E g \in Fallbacks(f) : Opens(r, s, [q EXCEPT !.g = g])
  BY DEF LookForFallback
<1> HIDE DEF q
<1>5. CASE f \notin Active /\ Opens(r, s, q)
  BY <1>2, <1>3, <1>5, OpensKeep DEF Safe
<1>6. ASSUME NEW g \in Fallbacks(f), Opens(r, s, [q EXCEPT !.g = g])
      PROVE  PortalInv' /\ GoodStep
  <2> DEFINE p == [q EXCEPT !.g = g]
  <2>1. g \in Profile
    BY DEF Fallbacks, Active, PortalInv, TypeOK
  <2>2. p \in Request /\ p.stage = "archive" /\ p.f = f /\ p.g = g
    BY <1>2, <2>1 DEF Request
  <2>3. Opens(r, s, p)
    BY <1>6
  <2> HIDE DEF p
  <2> QED
    BY <1>3, <2>2, <2>3, OpensKeep DEF Safe
<1> QED
  BY <1>4, <1>5, <1>6

LEMMA DeleteSessionKeeps ==
  ASSUME PortalInv, NEW r \in Req, DeleteSession(r)
  PROVE  PortalInv' /\ GoodStep
<1>0. PICK s \in Session : s = req[r].s
  BY DEF DeleteSession, At, PortalInv, RequestsShaped, Shaped, InSession
<1>1. Removed(session[s]) \in SessionRow
      /\ Removed(session[s]).state = "gone" /\ Removed(session[s]).from = session[s].from
  BY DEF Removed, NewSession, SessionRow, PortalInv, TypeOK
<1>2. session' = [session EXCEPT ![s] = Removed(session[s])]
  BY <1>0 DEF DeleteSession
<1>3. /\ session' \in [Session -> SessionRow]
      /\ session'[s].state = "gone" /\ session'[s].from = session[s].from
      /\ \A t \in Session : t # s => session'[t] = session[t]
  BY <1>1, <1>2 DEF PortalInv, TypeOK
<1>4. Becomes(r, NoRequest) /\ ~At(r, "archive") /\ ~At(r, "save")
      /\ UNCHANGED <<status, profiles, link, overtaken>>
  BY DEF DeleteSession, Ends, At
<1>5. NoRequest.stage # "archive" /\ NoRequest.stage # "save"
  BY NoRequestTyped DEF None
<1>6. PortalInv' /\ KeepsGone /\ KeepsLastActive
  BY <1>3, <1>4, <1>5, NoRequestTyped, MovesKeep
<1>7. session[s].state \in {"live", "gone"}
  BY <1>0 DEF DeleteSession, At, PortalInv, TypeOK, SessionRow, RequestsShaped, Shaped, InSession
<1>8. CASE session[s].state = "gone"
  <2>1. \A t \in Session : /\ session'[t].from = session[t].from
                           /\ session'[t].state = session[t].state
    BY <1>3, <1>8
  <2> QED
    BY <1>4, <1>5, <1>6, <2>1, NoRequestTyped, MovesUnseen DEF GoodStep
<1>9. CASE session[s].state = "live"
  <2>1. req'[r] = NoRequest /\ \A o \in Req : o # r => req'[o] = req[o]
    BY <1>4, NoRequestTyped, BecomesOne
  <2>2. \A m \in Link : Savers(m)' = Savers(m) /\ SessionsFrom(m)' = SessionsFrom(m)
    BY <2>1, <1>3, <1>4, <1>5 DEF Savers, SessionsFrom, At
  <2>3. \A m \in Link : LoginOf(m)' = LoginOf(m) /\ TicketOf(m)' = TicketOf(m)
    BY <1>4, <2>2 DEF LoginOf, TicketOf
  <2>4. Ledger!End({}, {s})
    BY <1>3, <1>9, <2>3 DEF Ledger!End
  <2> QED
    BY <1>6, <2>4 DEF GoodStep, KeepsLedger, Ledger!Next
<1> QED
  BY <1>7, <1>8, <1>9

--------------------------------------------------------------------------------
(***************************************************************************)
(* Profiles that change.                                                   *)
(***************************************************************************)
\* What TypeOK says of passport and profiles.
ProfilesTyped ==
    /\ status \in {"active", "locked", None}
    /\ profile \in [Profile -> {"new", "active", "archived", "gone"}]
    /\ linked \subseteq {f \in Profile : profile[f] \in {"active", "archived"}}
    /\ status = None => linked = {}

\* A request changes profiles, and goes on.
LEMMA ChangesKeep ==
  ASSUME PortalInv, NEW r \in Req, NEW q \in Request, Becomes(r, q), ProfilesChange({r}),
         q.stage \notin {"archive", "restore", "save"}, Shaped(q), ~At(r, "save"),
         UNCHANGED <<link, session>>,
         ProfilesTyped',
         \A f \in Profile : profile[f] # "new" => profile'[f] # "new",
         At(r, "archive") /\ r \notin overtaken /\ Active # {} => Active' # {}
  PROVE  PortalInv' /\ GoodStep
<1>1. /\ req' \in [Req -> Request] /\ req'[r] = q
      /\ \A o \in Req : o # r => req'[o] = req[o]
  BY BecomesOne
<1>2. \A o \in Req : req'[o].stage = "archive" => o \notin {r} /\ At(o, "archive")
  BY <1>1 DEF At
<1>3. ArchiveSafe' /\ overtaken' \subseteq Req
  BY <1>2, ChangeKeepsSafe
<1>4. TypeOK'
  BY <1>1, <1>3 DEF PortalInv, TypeOK, ProfilesTyped
<1>5. RequestsShaped'
  BY MovesKeepShape
<1>6. LinksSpent'
  BY MovesKeepSpent
<1>7. SessionOfThisLife'
  BY DEF PortalInv, SessionOfThisLife
<1>8. KeepsLastActive
  BY <1>1 DEF KeepsLastActive, At
<1>9. KeepsLedger
  BY MovesUnseen
<1>10. NewAreBlank'
  BY DEF PortalInv, NewAreBlank
<1> QED
  BY <1>3, <1>4, <1>5, <1>6, <1>7, <1>8, <1>9, <1>10 DEF PortalInv, GoodStep, KeepsGone

LEMMA CreateProfileKeeps ==
  ASSUME PortalInv, NEW r \in Req, NEW f \in Profile, CreateProfile(r, f)
  PROVE  PortalInv' /\ GoodStep
<1>1. /\ req[r] \in Request /\ req[r].s \in Session /\ session[req[r].s].state # "new"
      /\ ~At(r, "archive") /\ ~At(r, "save") /\ profile[f] = "new"
  BY DEF CreateProfile, At, PortalInv, TypeOK, RequestsShaped, Shaped, InSession
<1>2. /\ profile' = [profile EXCEPT ![f] = "active"]
      /\ linked' = IF Bindable THEN linked \cup {f} ELSE linked
      /\ ProfilesChange({r}) /\ UNCHANGED <<status, link, session>>
  BY DEF CreateProfile
<1>3. ProfilesTyped' /\ \A e \in Profile : profile[e] # "new" => profile'[e] # "new"
  BY <1>2 DEF ProfilesTyped, PortalInv, TypeOK, Bindable
<1> DEFINE q == [req[r] EXCEPT !.stage = "update", !.f = f]
<1>4. q \in Request /\ q.stage = "update" /\ q.s = req[r].s
  BY <1>1 DEF Request, Stage
<1>5. Becomes(r, q) \/ Becomes(r, NoRequest)
  BY DEF CreateProfile, Ends
<1> HIDE DEF q
<1>6. Shaped(q)
  BY <1>1, <1>4 DEF Shaped, InSession
<1>7. NoRequest.stage \notin {"archive", "restore", "save"}
  BY NoRequestTyped DEF None
<1> QED
  BY <1>1, <1>2, <1>3, <1>4, <1>5, <1>6, <1>7, NoRequestTyped, ChangesKeep

\* What SetProfileStatus does to a profile that was there once.
LEMMA SetProfileStatusTyped ==
  ASSUME PortalInv, NEW f \in Profile, profile[f] # "new", NEW s \in {"active", "archived"},
         SetProfileStatus(f, s), UNCHANGED status
  PROVE  /\ ProfilesTyped' /\ \A e \in Profile : profile[e] # "new" => profile'[e] # "new"
         /\ \A e \in Profile : e # f => profile'[e] = profile[e]
         /\ linked' = linked
BY DEF SetProfileStatus, ProfilesTyped, PortalInv, TypeOK

LEMMA ArchiveProfileKeeps ==
  ASSUME PortalInv, NEW r \in Req, ArchiveProfile(r)
  PROVE  PortalInv' /\ GoodStep
<1>0. PICK f \in Profile : f = req[r].f /\ profile[f] # "new"
  BY DEF ArchiveProfile, At, PortalInv, RequestsShaped, Shaped
<1>1. /\ req[r] \in Request /\ req[r].s \in Session /\ session[req[r].s].state # "new"
      /\ req[r].g \in Profile \cup {None} /\ At(r, "archive") /\ ~At(r, "save")
  BY DEF ArchiveProfile, At, PortalInv, TypeOK, RequestsShaped, Shaped, InSession, Request
<1>2. SetProfileStatus(f, "archived") /\ ProfilesChange({r}) /\ UNCHANGED <<status, link, session>>
  BY <1>0 DEF ArchiveProfile
<1>3. /\ ProfilesTyped' /\ \A e \in Profile : profile[e] # "new" => profile'[e] # "new"
      /\ \A e \in Profile : e # f => profile'[e] = profile[e]
      /\ linked' = linked
  BY <1>0, <1>2, SetProfileStatusTyped
<1>4. r \notin overtaken /\ Active # {} => Active' # {}
  <2>1. SUFFICES ASSUME r \notin overtaken, Active # {}
                 PROVE  Active' # {}
    OBVIOUS
  <2>2. f \notin Active \/ req[r].g \in Active \ {f}
    BY <1>0, <1>1, <2>1 DEF PortalInv, ArchiveSafe, Safe, Fallbacks
  <2>3. \A e \in Active : e # f => e \in Active'
    BY <1>3 DEF Active, PortalInv, TypeOK
  <2> QED
    BY <2>1, <2>2, <2>3
<1> DEFINE q == [req[r] EXCEPT !.stage = "update", !.f = req[r].g, !.g = None, !.sel = None]
<1>5. q \in Request /\ q.stage = "update" /\ q.s = req[r].s
  BY <1>1 DEF Request, Stage
<1>6. Becomes(r, q) \/ Becomes(r, NoRequest)
  BY DEF ArchiveProfile, Ends
<1> HIDE DEF q
<1>7. Shaped(q)
  BY <1>1, <1>5 DEF Shaped, InSession
<1>8. NoRequest.stage \notin {"archive", "restore", "save"}
  BY NoRequestTyped DEF None
<1> QED
  BY <1>1, <1>2, <1>3, <1>4, <1>5, <1>6, <1>7, <1>8, NoRequestTyped, ChangesKeep

LEMMA RestoreProfileKeeps ==
  ASSUME PortalInv, NEW r \in Req, RestoreProfile(r)
  PROVE  PortalInv' /\ GoodStep
<1>0. PICK f \in Profile : f = req[r].f /\ profile[f] # "new"
  BY DEF RestoreProfile, At, PortalInv, RequestsShaped, Shaped
<1>1. /\ SetProfileStatus(f, "active") /\ ProfilesChange({r}) /\ UNCHANGED <<status, link, session>>
      /\ Becomes(r, NoRequest) /\ ~At(r, "archive") /\ ~At(r, "save")
  BY <1>0 DEF RestoreProfile, Ends, At
<1>2. ProfilesTyped' /\ \A e \in Profile : profile[e] # "new" => profile'[e] # "new"
  BY <1>0, <1>1, SetProfileStatusTyped
<1>3. NoRequest.stage \notin {"archive", "restore", "save"}
  BY NoRequestTyped DEF None
<1> QED
  BY <1>1, <1>2, <1>3, NoRequestTyped, ChangesKeep

\* An administrator changes profiles, and perhaps what sessions select.
LEMMA AdminChangesKeep ==
  ASSUME PortalInv, ProfilesChange({}), UNCHANGED <<link, req>>,
         session' \in [Session -> SessionRow],
         \A s \in Session :
            /\ session'[s].from = session[s].from
            /\ session'[s].state = session[s].state
            /\ session'[s].mine = session[s].mine /\ session'[s].late = session[s].late,
         ProfilesTyped',
         \A f \in Profile : profile[f] # "new" => profile'[f] # "new"
  PROVE  PortalInv' /\ GoodStep
<1>1. ArchiveSafe' /\ overtaken' \subseteq Req
  BY ChangeKeepsSafe DEF At
<1>2. TypeOK'
  BY <1>1 DEF PortalInv, TypeOK, ProfilesTyped
<1>3. RequestsShaped'
  BY DEF PortalInv, RequestsShaped, Shaped
<1>4. \A m \in Link : Savers(m)' = Savers(m) /\ SessionsFrom(m)' = SessionsFrom(m)
  BY DEF Savers, SessionsFrom, At
<1>5. LinksSpent'
  BY <1>4 DEF LinksSpent, PortalInv
<1>6. SessionOfThisLife'
  BY DEF PortalInv, SessionOfThisLife
<1>7. KeepsLastActive
  BY DEF KeepsLastActive, At
<1>8. KeepsLedger
  BY <1>4, LedgerStutter
<1>9. NewAreBlank'
  BY DEF PortalInv, NewAreBlank
<1> QED
  BY <1>1, <1>2, <1>3, <1>5, <1>6, <1>7, <1>8, <1>9 DEF PortalInv, GoodStep, KeepsGone

LEMMA BindProfileKeeps ==
  ASSUME PortalInv, NEW f \in Profile, BindProfile(f)
  PROVE  PortalInv' /\ GoodStep
<1>1. ProfilesTyped' /\ \A e \in Profile : profile[e] # "new" => profile'[e] # "new"
  BY DEF BindProfile, ProfilesTyped, PortalInv, TypeOK
<1>2. session' = session /\ session \in [Session -> SessionRow]
  BY DEF BindProfile, PortalInv, TypeOK
<1> QED
  BY <1>1, <1>2, AdminChangesKeep DEF BindProfile

LEMMA UnbindProfileKeeps ==
  ASSUME PortalInv, NEW f \in Profile, UnbindProfile(f)
  PROVE  PortalInv' /\ GoodStep
<1>1. ProfilesTyped' /\ \A e \in Profile : profile[e] # "new" => profile'[e] # "new"
  BY DEF UnbindProfile, ProfilesTyped, PortalInv, TypeOK
<1>2. session' = session /\ session \in [Session -> SessionRow]
  BY DEF UnbindProfile, PortalInv, TypeOK
<1> QED
  BY <1>1, <1>2, AdminChangesKeep DEF UnbindProfile

LEMMA DeleteProfileKeeps ==
  ASSUME PortalInv, NEW f \in Profile, DeleteProfile(f)
  PROVE  PortalInv' /\ GoodStep
<1>1. ProfilesTyped' /\ \A e \in Profile : profile[e] # "new" => profile'[e] # "new"
  BY DEF DeleteProfile, ProfilesTyped, PortalInv, TypeOK
<1>2. \A s \in Session :
         /\ session[s] \in SessionRow
         /\ session'[s] = IF session[s].profile \in {f} THEN [session[s] EXCEPT !.profile = None]
                          ELSE session[s]
  BY DEF DeleteProfile, Deselect, PortalInv, TypeOK
<1>3. ASSUME NEW s \in Session
      PROVE  /\ session'[s] \in SessionRow
             /\ session'[s].from = session[s].from /\ session'[s].state = session[s].state
             /\ session'[s].mine = session[s].mine /\ session'[s].late = session[s].late
  <2> DEFINE row == [session[s] EXCEPT !.profile = None]
  <2>1. /\ row \in SessionRow
        /\ row.from = session[s].from /\ row.state = session[s].state
        /\ row.mine = session[s].mine /\ row.late = session[s].late
    BY <1>2 DEF SessionRow
  <2>2. session'[s] = row \/ session'[s] = session[s]
    BY <1>2
  <2> HIDE DEF row
  <2> QED
    BY <1>2, <2>1, <2>2
<1>4. session' = [s \in Session |-> session'[s]]
  BY DEF DeleteProfile, Deselect
<1>5. session' \in [Session -> SessionRow]
  BY <1>3, <1>4
<1> QED
  BY <1>1, <1>3, <1>5, AdminChangesKeep DEF DeleteProfile

--------------------------------------------------------------------------------
(***************************************************************************)
(* The passport.                                                           *)
(***************************************************************************)
LEMMA StatusKeeps ==
  ASSUME PortalInv, status' \in {"active", "locked"},
         UNCHANGED <<profiles, link, session, req, overtaken>>
  PROVE  PortalInv' /\ GoodStep
<1>1. TypeOK'
  BY DEF PortalInv, TypeOK, profiles, None
<1>2. RequestsShaped' /\ ArchiveSafe' /\ KeepsLastActive
  BY DEF PortalInv, RequestsShaped, Shaped, ArchiveSafe, Safe, Fallbacks, Active, At,
         KeepsLastActive, profiles
<1>3. LinksSpent' /\ SessionOfThisLife'
  BY DEF PortalInv, LinksSpent, Savers, SessionsFrom, SessionOfThisLife, At
<1>4. \A m \in Link : Savers(m)' = Savers(m) /\ SessionsFrom(m)' = SessionsFrom(m)
  BY DEF Savers, SessionsFrom, At
<1>5. KeepsLedger
  BY <1>4, LedgerStutter
<1>6. NewAreBlank'
  BY DEF PortalInv, NewAreBlank
<1> QED
  BY <1>1, <1>2, <1>3, <1>5, <1>6 DEF PortalInv, GoodStep, KeepsGone

\* Without a passport there is no active profile, and the new one is that of
\* no request: none becomes unsafe although nobody is overtaken.
LEMMA OfflineRegisterKeeps ==
  ASSUME PortalInv, NEW r \in Req, NEW f \in Profile, OfflineRegister(r, f)
  PROVE  PortalInv' /\ GoodStep
<1> DEFINE q == [NoRequest EXCEPT !.stage = "save", !.f = f, !.mine = TRUE]
<1>1. q \in Request /\ q.stage = "save" /\ q.l = None
  BY DEF NoRequest, Request, Stage
<1>2. Becomes(r, q) /\ At(r, None) /\ overtaken' = overtaken \ {r}
  BY DEF OfflineRegister, Begins
<1> HIDE DEF q
<1>3. Shaped(q)
  BY <1>1 DEF Shaped, InSession
<1>4. /\ status = None /\ linked = {} /\ profile[f] = "new"
      /\ status' = "active" /\ linked' = {f} /\ profile' = [profile EXCEPT ![f] = "active"]
      /\ UNCHANGED <<link, session>>
  BY DEF OfflineRegister, PortalInv, TypeOK
<1>5. ProfilesTyped' /\ \A e \in Profile : profile[e] # "new" => profile'[e] # "new"
  BY <1>4 DEF ProfilesTyped, PortalInv, TypeOK, None
<1>6. /\ req' \in [Req -> Request] /\ req'[r] = q
      /\ \A o \in Req : o # r => req'[o] = req[o]
  BY <1>1, <1>2, BecomesOne
<1>7. TypeOK'
  BY <1>2, <1>4, <1>5, <1>6 DEF PortalInv, TypeOK, ProfilesTyped
<1>8. RequestsShaped'
  BY <1>1, <1>2, <1>3, <1>4, <1>5, MovesKeepShape
<1>9. LinksSpent'
  BY <1>1, <1>2, <1>4, MovesKeepSpent
<1>10. Active = {} /\ Active' \subseteq {f}
  BY <1>4 DEF Active
<1>11. ArchiveSafe'
  BY <1>1, <1>4, <1>6, <1>10 DEF ArchiveSafe, Safe, At, PortalInv, RequestsShaped, Shaped
<1>12. KeepsLastActive
  BY <1>10 DEF KeepsLastActive
<1>13. SessionOfThisLife'
  BY <1>4 DEF PortalInv, SessionOfThisLife
<1>14. ~At(r, "save")
  BY <1>2 DEF At, None
<1>15. KeepsLedger
  BY <1>1, <1>2, <1>4, <1>14, MovesUnseen
<1>16. NewAreBlank'
  BY <1>4 DEF PortalInv, NewAreBlank
<1> QED
  BY <1>4, <1>7, <1>8, <1>9, <1>11, <1>12, <1>13, <1>15, <1>16
     DEF PortalInv, GoodStep, KeepsGone

LEMMA DeletePassportKeeps ==
  ASSUME PortalInv, DeletePassport
  PROVE  PortalInv' /\ GoodStep
<1>1. ASSUME NEW r \in Req
      PROVE  /\ req'[r] \in Request /\ req'[r].stage = req[r].stage
             /\ req'[r].l = req[r].l /\ req'[r].s = req[r].s /\ req'[r].f = req[r].f
             /\ req'[r].handler = req[r].handler
  <2> DEFINE q == [req[r] EXCEPT !.mine = FALSE]
  <2>1. req[r] \in Request
    BY DEF PortalInv, TypeOK
  <2>2. /\ q \in Request /\ q.stage = req[r].stage /\ q.l = req[r].l
        /\ q.s = req[r].s /\ q.f = req[r].f /\ q.handler = req[r].handler
    BY <2>1 DEF Request
  <2>3. req'[r] = q
    BY DEF DeletePassport
  <2> HIDE DEF q
  <2> QED
    BY <2>2, <2>3
<1>2. req' \in [Req -> Request]
  <2>1. req' = [r \in Req |-> req'[r]]
    BY DEF DeletePassport
  <2> QED
    BY <1>1, <2>1
<1>3. ASSUME NEW s \in Session
      PROVE  /\ session'[s] \in SessionRow
             /\ session'[s].state = IF session[s].state = "new" THEN "new" ELSE "gone"
             /\ session'[s].from = session[s].from
  <2>1. session[s] \in SessionRow /\ session[s].from \in Link \cup {None}
    BY DEF PortalInv, TypeOK, SessionRow
  <2>2. NewSession \in SessionRow /\ NewSession.state = "new" /\ NewSession.from = None
    BY DEF NewSession, SessionRow
  <2>3. /\ Removed(session[s]) \in SessionRow /\ Removed(session[s]).state = "gone"
        /\ Removed(session[s]).from = session[s].from
    BY <2>1 DEF Removed, NewSession, SessionRow
  <2>4. session'[s] = IF session[s].state = "new" THEN NewSession ELSE Removed(session[s])
    BY DEF DeletePassport, DropLinksAndSessions
  <2> QED
    BY <2>2, <2>3, <2>4 DEF PortalInv, NewAreBlank
<1>4. session' \in [Session -> SessionRow]
  <2>1. session' = [s \in Session |-> session'[s]]
    BY DEF DeletePassport, DropLinksAndSessions
  <2> QED
    BY <1>3, <2>1
<1>5. ASSUME NEW l \in Link
      PROVE  /\ link'[l] \in LinkRow
             /\ link'[l].state = IF link[l].state = "new" THEN "new" ELSE "gone"
  <2>1. NewLink \in LinkRow /\ NewLink.state = "new"
    BY DEF NewLink, LinkRow
  <2>2. Spent("gone") \in LinkRow /\ Spent("gone").state = "gone"
    BY DEF Spent, NewLink, LinkRow
  <2>3. link'[l] = IF link[l].state = "new" THEN NewLink ELSE Spent("gone")
    BY DEF DeletePassport, DropLinksAndSessions, WithoutLinks
  <2> QED
    BY <2>1, <2>2, <2>3
<1>6. link' \in [Link -> LinkRow]
  <2>1. link' = [l \in Link |-> link'[l]]
    BY DEF DeletePassport, DropLinksAndSessions, WithoutLinks
  <2> QED
    BY <1>5, <2>1
<1>7. ProfilesTyped' /\ \A e \in Profile : profile[e] # "new" => profile'[e] # "new"
  BY DEF DeletePassport, ProfilesTyped, PortalInv, TypeOK
<1>8. ArchiveSafe' /\ overtaken' \subseteq Req
  BY <1>1, ChangeKeepsSafe DEF DeletePassport, At
<1>9. TypeOK'
  BY <1>2, <1>4, <1>6, <1>7, <1>8 DEF TypeOK, ProfilesTyped
<1>10. RequestsShaped'
  BY <1>1, <1>3, <1>7 DEF RequestsShaped, Shaped, PortalInv
<1>11. \A m \in Link : Savers(m)' = Savers(m) /\ SessionsFrom(m)' = SessionsFrom(m)
  BY <1>1, <1>3 DEF Savers, SessionsFrom, At
<1>12. LinksSpent'
  <2>1. \A l \in Link : link[l].state \in {"new", "active", "used", "revoked", "gone"}
    BY DEF PortalInv, TypeOK, LinkRow
  <2> QED
    BY <1>5, <1>11, <2>1 DEF LinksSpent, PortalInv
<1>13. SessionOfThisLife'
  BY <1>3, <1>5 DEF SessionOfThisLife
<1>14. KeepsLastActive /\ KeepsGone
  BY <1>1, <1>3 DEF KeepsLastActive, KeepsGone, At
<1>15. NewAreBlank'
  BY <1>3 DEF PortalInv, NewAreBlank
<1>16. KeepsLedger
  <2>0. PICK ls \in SUBSET Link, ss \in SUBSET Session :
           /\ ls = {l \in Link : link[l].state = "active"}
           /\ ss = {s \in Session : session[s].state = "live"}
    OBVIOUS
  <2>1. \A l \in Link : LoginOf(l)' = LoginOf(l)
    BY <1>11 DEF LoginOf
  <2>2. \A l \in Link : link[l].state \in {"new", "active", "used", "revoked", "gone"}
    BY DEF PortalInv, TypeOK, LinkRow
  <2>3. \A l \in Link : /\ l \in ls => TicketOf(l) = "open"
                        /\ TicketOf(l)' = IF l \in ls THEN "closed" ELSE TicketOf(l)
    BY <1>5, <2>0, <2>2 DEF TicketOf
  <2>4. \A s \in Session : session[s].state \in {"new", "live", "gone"}
    BY DEF PortalInv, TypeOK, SessionRow
  <2>5. \A s \in Session :
           session'[s].state = IF s \in ss THEN "gone" ELSE session[s].state
    BY <1>3, <2>0, <2>4
  <2>6. Ledger!End(ls, ss)
    BY <1>3, <2>0, <2>1, <2>3, <2>5 DEF Ledger!End
  <2> QED
    BY <2>6 DEF KeepsLedger, Ledger!Next
<1> QED
  BY <1>8, <1>9, <1>10, <1>12, <1>13, <1>14, <1>15, <1>16 DEF PortalInv, GoodStep

--------------------------------------------------------------------------------
(***************************************************************************)
(* The theorems.                                                           *)
(***************************************************************************)
LEMMA PortalInit == Init => PortalInv
<1> SUFFICES ASSUME Init PROVE PortalInv
  OBVIOUS
<1>1. NewLink \in LinkRow /\ NewLink.state = "new"
  BY DEF NewLink, LinkRow
<1>2. NewSession \in SessionRow /\ NewSession.state = "new" /\ NewSession.from = None
  BY DEF NewSession, SessionRow
<1>3. TypeOK
  BY <1>1, <1>2, NoRequestTyped DEF Init, TypeOK
<1>4. RequestsShaped
  BY NoRequestTyped DEF Init, RequestsShaped, Shaped, InSession, None
<1>5. ArchiveSafe /\ \A l \in Link : Savers(l) = {}
  BY NoRequestTyped DEF Init, ArchiveSafe, Savers, At, None
<1>6. \A l \in Link : SessionsFrom(l) = {} /\ link[l].state = "new"
  BY <1>1, <1>2, PortalNone DEF Init, SessionsFrom
<1>7. LinksSpent
  BY <1>5, <1>6 DEF LinksSpent
<1>8. SessionOfThisLife
  BY <1>1, <1>2 DEF Init, SessionOfThisLife
<1>9. NewAreBlank
  BY <1>2 DEF Init, NewAreBlank
<1> QED
  BY <1>3, <1>4, <1>5, <1>7, <1>8, <1>9 DEF PortalInv

LEMMA PortalStep ==
  ASSUME PortalInv, Next
  PROVE  PortalInv' /\ GoodStep
<1>1. ASSUME NEW r \in Req, RequestNext(r)
      PROVE  PortalInv' /\ GoodStep
  BY <1>1, IssueLinkKeeps, CreateProfileKeeps, OfflineRegisterKeeps, SavePortalLinkKeeps,
     LinkLoginKeeps, LoginKeeps, LoginProfileKeeps, MarkPortalLinkUsedKeeps, SaveSessionKeeps,
     LogoutKeeps, OpenKeeps, SelectProfileKeeps, LookForFallbackKeeps, LookForArchivedKeeps,
     RepairKeeps, RotateCSRFKeeps, UpdateKeeps, RefuseProfileKeeps, ArchiveProfileKeeps,
     RestoreProfileKeeps, DeleteSessionKeeps DEF RequestNext
<1>2. ASSUME \/ \E s \in {"active", "locked"} : SetPassportStatus(s)
             \/ Register
      PROVE  PortalInv' /\ GoodStep
  BY <1>2, StatusKeeps DEF SetPassportStatus, Register
<1> QED
  BY <1>1, <1>2, RevokePortalLinkKeeps, LinkExpiresKeeps, BindProfileKeeps, UnbindProfileKeeps,
     DeleteProfileKeeps, DeletePassportKeeps DEF Next

LEMMA PortalStutters ==
  ASSUME PortalInv, UNCHANGED vars
  PROVE  PortalInv'
<1>1. TypeOK' /\ RequestsShaped'
  BY DEF vars, PortalInv, TypeOK, RequestsShaped, Shaped
<1>2. LinksSpent' /\ SessionOfThisLife'
  BY DEF vars, PortalInv, LinksSpent, Savers, SessionsFrom, SessionOfThisLife, At
<1>3. ArchiveSafe'
  BY DEF vars, PortalInv, ArchiveSafe, Safe, Fallbacks, Active, At
<1>4. NewAreBlank'
  BY DEF vars, PortalInv, NewAreBlank
<1> QED
  BY <1>1, <1>2, <1>3, <1>4 DEF PortalInv

LEMMA PortalInvariant == Spec => []PortalInv
<1>1. PortalInv /\ [Next]_vars => PortalInv'
  BY PortalStep, PortalStutters
<1> QED
  BY <1>1, PortalInit, PTL DEF Spec

LEMMA AtMostOne ==
  ASSUME NEW S, \A x, y \in S : x = y
  PROVE  Cardinality(S) <= 1
<1>1. CASE S = {}
  BY <1>1, FS_EmptySet
<1>2. CASE S # {}
  <2>1. PICK x : x \in S
    BY <1>2
  <2>2. S = {x}
    BY <2>1
  <2> QED
    BY <2>2, FS_Singleton
<1> QED
  BY <1>1, <1>2

\* What the invariant says of a link, counted.
LEMMA SpentCounts ==
  ASSUME PortalInv
  PROVE  LinkSpentOnce
<1> SUFFICES ASSUME NEW l \in Link
             PROVE  Cardinality(From(l)) <=
                      (IF link[l].state \in {"used", "gone"} THEN 1 ELSE 0)
  BY DEF LinkSpentOnce
<1>1. link[l].state \in {"new", "active", "used", "revoked", "gone"}
  BY DEF PortalInv, TypeOK, LinkRow
<1>2. CASE link[l].state \notin {"used", "gone"}
  <2>1. From(l) = {}
    BY <1>1, <1>2 DEF PortalInv, LinksSpent, From
  <2> QED
    BY <1>2, <2>1, FS_EmptySet
<1>3. CASE link[l].state \in {"used", "gone"}
  <2>1. \A x, y \in From(l) : x = y
    BY <1>3 DEF PortalInv, LinksSpent, From
  <2> QED
    BY <1>3, <2>1, AtMostOne
<1> QED
  BY <1>2, <1>3

\* The rows of the passport, its profiles, links, sessions and requests keep
\* their types: only profiles that exist are bound, and none without a passport.
THEOREM PortalTyped == Spec => []TypeOK
<1>1. PortalInv => TypeOK
  BY DEF PortalInv
<1> QED
  BY <1>1, PortalInvariant, PTL

\* However many logins race with one another, with the revocation of the link,
\* its expiry and the deletion of its passport, MarkPortalLinkUsed lets a link
\* yield one session.
THEOREM LinksSpentOnce == Spec => []LinkSpentOnce
<1>1. PortalInv => LinkSpentOnce
  BY SpentCounts
<1> QED
  BY <1>1, PortalInvariant, PTL

\* DeletePassport takes sessions and links with it: one that is there now is of
\* the passport as registered last, or was saved by a request from before.
THEOREM SessionsOfThisLife == Spec => []SessionOfThisLife
<1>1. PortalInv => SessionOfThisLife
  BY DEF PortalInv
<1> QED
  BY <1>1, PortalInvariant, PTL

\* A request that read a session before it was deleted does not bring it back:
\* UpdateSession writes to a row that is there, SaveSession to a new id.
THEOREM GoneSessionsStayGone == Spec => GoneStaysGone
<1>1. PortalInv /\ [Next]_vars =>
         [\A s \in Session : session[s].state = "gone" => session'[s].state = "gone"]_vars
  BY PortalStep DEF GoodStep, KeepsGone
<1> QED
  BY <1>1, PortalInvariant, PTL DEF Spec, GoneStaysGone

\* handlePortalArchiveProfile leaves an active profile to a passport that had
\* one, as long as no change of the profiles overtakes its look for another.
THEOREM LastActiveIsKept == Spec => LastActiveKept
<1>1. PortalInv /\ [Next]_vars =>
         [\A r \in Req :
             At(r, "archive") /\ req'[r].stage # "archive" /\ r \notin overtaken /\ Active # {}
                => Active' # {}]_vars
  BY PortalStep DEF GoodStep, KeepsLastActive
<1> QED
  BY <1>1, PortalInvariant, PTL DEF Spec, LastActiveKept

\* No link was issued and no session begun.
LEMMA LedgerInit == Init => Ledger!Init
<1> SUFFICES ASSUME Init PROVE Ledger!Init
  OBVIOUS
<1>1. \A l \in Link : TicketOf(l) = "none"
  BY DEF Init, NewLink, TicketOf
<1>2. \A l \in Link : Savers(l) = {} /\ SessionsFrom(l) = {}
  BY NoRequestTyped, PortalNone DEF Init, Savers, SessionsFrom, At, NewSession, None
<1>3. \A s \in Session : session[s].state = "new" /\ session[s].from = None
  BY DEF Init, NewSession
<1>4. \A l \in Link : LoginOf(l) = "no"
  BY <1>2 DEF LoginOf
<1> QED
  BY <1>1, <1>3, <1>4 DEF Ledger!Init

\* handlePortalLinkLogin, step by step, against logout, revocation and the
\* deletion of the passport: the portal implements LoginLedger.  A step of a
\* request that is not seen there keeps who is to save a session from a link.
THEOREM LoginsImplemented == Spec => ImplementsLogins
<1>1. PortalInv /\ [Next]_vars => [Ledger!Next]_(Ledger!ledger)
  <2>1. ASSUME PortalInv, UNCHANGED vars
        PROVE  KeepsLedger
    <3>1. \A l \in Link : Savers(l)' = Savers(l) /\ SessionsFrom(l)' = SessionsFrom(l)
      BY <2>1 DEF vars, Savers, SessionsFrom, At
    <3> QED
      BY <2>1, <3>1, LedgerStutter DEF vars
  <2> QED
    BY <2>1, PortalStep DEF GoodStep, KeepsLedger
<1> QED
  BY <1>1, LedgerInit, PortalInvariant, PTL DEF Spec, ImplementsLogins, Ledger!Spec

================================================================================
