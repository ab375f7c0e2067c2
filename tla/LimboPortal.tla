----------------------------- MODULE LimboPortal -----------------------------
(***************************************************************************)
(* The login portal: connections of players who claim one name from one    *)
(* address, some with a verified Mojang session, against the dialogs, the  *)
(* logins the portal remembers, and what Core answers.                     *)
(*                                                                         *)
(* The handlers of one connection run one after another, so a connection   *)
(* is at one Core call at a time; a step here is one call and everything   *)
(* the handler does with its answer before the next call.  Other           *)
(* connections, expiry, administrators, the heartbeat loop and the event   *)
(* stream move in between.                                                 *)
(*                                                                         *)
(* The connections are of one player, as far as the portal can tell: they  *)
(* come from one address with one name, all with a verified Mojang session *)
(* or all without, so that they share a key.  A passport's id is derived   *)
(* from the offline name or from the Mojang UUID: "own" is the one that    *)
(* the connections resolve to, "other" the offline one that has the name   *)
(* of a verified player.  Profiles are counted.  Wording, worlds, targets  *)
(* and protocol packs are left out.                                        *)
(***************************************************************************)
EXTENDS Naturals, Sequences, LoginPromise

CONSTANTS
    MaxProfile,  \* MaxProfilesPerPassport
    MaxFault,    \* bound: Core calls that fail
    MaxEdit,     \* bound: changes made to Core by other hands
    MaxKept      \* bound: what other connections leave for the key

ASSUME LimboAssumption ==
    /\ MaxProfile \in Nat \ {0}
    /\ MaxFault \in Nat /\ MaxEdit \in Nat /\ MaxKept \in Nat

VARIABLES
    verified,  \* whether the player has a verified session
    account,   \* Core: status of the player's passport
    profiles,  \* Core: how many profiles the passport has
    barred,    \* Core: the passport's primary profile is locked
    cached,    \* Core: the passport has a portal auth cache entry for the address
    revoked,   \* Core: the portal's node is revoked
    faults,    \* Core calls that failed so far
    edits,     \* changes by other hands so far
    locked,    \* portal.locked
    wire,      \* what was under way to the portal when it was revoked
    authed,    \* portal.authed
    joins,     \* portal.verifiedJoins: whether the passport was there before
    early      \* portal.preJoinResolve: answers of the configuration phase

core == <<account, profiles, barred, cached>>
link == <<revoked, faults, locked, wire>>
vars == <<verified, account, profiles, barred, cached, revoked, faults, edits, locked,
          wire, authed, joins, early, conns>>

\* resolveResponse.  A passport that is locked, or whose primary profile is,
\* requires no password, nor does one that is remembered; of the others the
\* offline one does.
Answer == [auth : {"required", "remembered", "locked", "open"},
           profiles : 0 .. MaxProfile]

NotFound == [auth |-> "unknown", profiles |-> 0]

\* "show" and "retry" stand for showLoginDialogMessage without and with an
\* error line; the others are named after the handler that makes the call.
Stage == {"new", "config", "fast", "join", "show", "retry", "chat", "login",
          "auth", "remember", "register", "create", "creating", "select",
          "open", "transfer", "autherr", "idle", "gone", "sent"}

\* "entry" are the login and register dialogs, "profile" those that create
\* and select a profile.  "standing" is history: whether Core vouched for the
\* connection as its passport, or it got past the dialog of one whose login
\* Core called locked.
Place == [at : Stage, screen : {"none", "entry", "profile"},
          answer : Answer \cup {NotFound},
          standing : {"stranger", "waved", "vouched"}]

TypeOK ==
    /\ verified \in BOOLEAN
    /\ account \in {"none", "active", "locked"}
    /\ profiles \in 0 .. MaxProfile
    /\ barred \in BOOLEAN /\ (barred => profiles > 0)
    /\ cached \in BOOLEAN
    /\ edits \in 0 .. MaxEdit
    /\ revoked \in BOOLEAN /\ faults \in 0 .. MaxFault /\ locked \in BOOLEAN
    /\ wire \subseteq {"beat", "revoked"}
    /\ authed \in [Conn -> {"nobody", "own", "other"}]
    /\ joins \in Seq(BOOLEAN)
    /\ early \in Seq(Answer \cup {NotFound})
    /\ conns \in [Conn -> Place]

\* The passport may be there before the portal is; the portal starts locked
\* when its first heartbeat fails.
Init ==
    /\ verified \in BOOLEAN
    /\ account \in {"none", "active", "locked"}
    /\ profiles \in IF account = "none" THEN {0} ELSE 0 .. MaxProfile
    /\ barred \in IF profiles = 0 THEN {FALSE} ELSE BOOLEAN
    /\ cached \in IF account = "none" THEN {FALSE} ELSE BOOLEAN
    /\ edits = 0
    /\ revoked = FALSE /\ faults = 0
    /\ locked \in BOOLEAN
    /\ wire = {}
    /\ authed = [c \in Conn |-> "nobody"]
    /\ joins = <<>>
    /\ early = <<>>
    /\ conns = [c \in Conn |-> [at |-> "new", screen |-> "none",
                                answer |-> NotFound, standing |-> "stranger"]]

(***************************************************************************)
(* Core's side of a call.                                                  *)
(***************************************************************************)
\* The call fails on its way, or Core refuses the portal's token.
Fails ==
    \/ revoked /\ UNCHANGED faults
    \/ faults < MaxFault /\ faults' = faults + 1

Reaches == ~revoked /\ UNCHANGED faults

\* resolveNodePassport creates the passport of a verified session; an offline
\* name is looked up.
Upsert == account' = IF verified /\ account = "none" THEN "active" ELSE account

\* nodePassportResolveData, after Upsert.
Resolved ==
    IF account' = "none" THEN NotFound
    ELSE [auth |-> CASE account' = "locked" \/ barred -> "locked"
                     [] account' = "active" /\ ~barred /\ cached -> "remembered"
                     [] account' = "active" /\ ~barred /\ ~cached ->
                          IF verified THEN "open" ELSE "required",
          profiles |-> profiles]

\* handleNodeCreateTransferGrant, for a profile of the connection's passport and
\* the passport id the portal sends; without an id the profile's one binding
\* decides.  Only the chosen profile must not be locked.
Grantable(id) ==
    /\ account = "active" /\ id \in {"own", "nobody"}
    /\ profiles > (IF barred THEN 1 ELSE 0)

\* promoteGrantProfilePrimary makes the chosen profile the primary one, if it
\* does not fail.
Granted(id) ==
    /\ Grantable(id)
    /\ barred' \in {FALSE, barred}

(***************************************************************************)
(* What a handler does between two calls.                                  *)
(***************************************************************************)
At(c, stage) == conns[c].at = stage

GoTo(c, stage, answer) ==
    conns' = [conns EXCEPT ![c] = [@ EXCEPT !.at = stage, !.answer = answer]]

\* The handler is done, and the player sees this.
Seeing(place, screen) ==
    [place EXCEPT !.at = "idle", !.screen = screen, !.answer = NotFound]

Shows(c, screen) == conns' = [conns EXCEPT ![c] = Seeing(@, screen)]

MarkAuthed(c, p) == authed' = [authed EXCEPT ![c] = p]

ClearAuthed(c) == authed' = [authed EXCEPT ![c] = "nobody"]

\* routeProfiles: one profile is taken at once.
Routed(place, n) ==
    IF n = 1 THEN [place EXCEPT !.at = "transfer", !.answer = NotFound]
             ELSE Seeing(place, "profile")

RouteProfiles(c, n) == conns' = [conns EXCEPT ![c] = Routed(@, n)]

ShouldSkipLoginDialog(a, preexisting) ==
    a.auth = "remembered" \/ (preexisting /\ a.auth = "open")

\* The connection is in as its passport, by what Core said of it, or as
\* nobody said anything because the login is locked.
Enter(c, standing, n) ==
    /\ MarkAuthed(c, "own")
    /\ conns' = [conns EXCEPT ![c] =
            Routed([@ EXCEPT !.standing =
                        IF conns[c].standing = "vouched" THEN "vouched" ELSE standing], n)]

\* consumeVerifiedJoin: the oldest, whichever connection it was of.
ConsumeJoin == joins' = IF verified /\ joins # <<>> THEN Tail(joins) ELSE joins

\* peekVerifiedJoin.
Preexisting == verified /\ joins # <<>> /\ Head(joins)

(***************************************************************************)
(* Before the world: verifySession, handleConfiguration, handleJoin.       *)
(***************************************************************************)
\* A verified session is Mojang's word for the passport, which
\* handleNodeVerifyLimboSession makes if it is not there.
Connect(c) ==
    /\ At(c, "new")
    /\ IF verified
       THEN /\ Reaches
            /\ Upsert
            /\ joins' = Append(joins, account # "none")
            /\ conns' = [conns EXCEPT ![c] =
                            [@ EXCEPT !.at = "config", !.standing = "vouched"]]
       ELSE /\ GoTo(c, "config", NotFound)
            /\ UNCHANGED <<faults, account, joins>>
    /\ UNCHANGED <<profiles, barred, cached, revoked, locked, wire, authed, early>>

\* The way without interaction is for one profile and no dialog; any other
\* answer is kept for the join.
Configuration(c) ==
    /\ At(c, "config")
    /\ \/ /\ IF locked THEN UNCHANGED faults ELSE Fails
          /\ GoTo(c, "join", NotFound)
          /\ UNCHANGED <<account, early>>
       \/ /\ ~locked
          /\ Reaches
          /\ Upsert
          /\ LET a == Resolved IN
             IF ShouldSkipLoginDialog(a, Preexisting) /\ a.profiles = 1
             THEN GoTo(c, "fast", a) /\ UNCHANGED early
             ELSE GoTo(c, "join", NotFound) /\ early' = Append(early, a)
    /\ UNCHANGED <<profiles, barred, cached, revoked, locked, wire, authed, joins>>

\* resolveTarget and createGrant, with the passport that was resolved.
FastTransfer(c) ==
    /\ At(c, "fast")
    /\ \/ /\ Reaches
          /\ Granted("own")
          /\ conns' = [conns EXCEPT ![c] = [at |-> "sent", screen |-> "none",
                            answer |-> NotFound, standing |-> "vouched"]]
          /\ ConsumeJoin
          /\ UNCHANGED early
       \/ /\ Reaches \/ Fails
          /\ GoTo(c, "join", NotFound)
          /\ early' = Append(early, conns[c].answer)
          /\ UNCHANGED <<joins, barred>>
    /\ UNCHANGED <<account, profiles, cached, revoked, locked, wire, authed>>

Join(c) ==
    /\ At(c, "join")
    /\ IF locked THEN Shows(c, "none") ELSE GoTo(c, "show", NotFound)
    /\ UNCHANGED <<core, link, authed, joins, early>>

(***************************************************************************)
(* The dialogs.                                                            *)
(***************************************************************************)
\* The part of showLoginDialogMessage after the answer.
ShowAnswer(c, a) ==
    IF a = NotFound
    THEN Shows(c, "entry") /\ UNCHANGED <<authed, joins>>
    ELSE /\ ConsumeJoin
         /\ IF At(c, "show") /\ ShouldSkipLoginDialog(a, Preexisting)
            THEN Enter(c, "vouched", a.profiles)
            ELSE Shows(c, "entry") /\ UNCHANGED authed

\* An answer that was kept is used once, by whichever connection comes first.
\* When Core does not answer, there is a line in the chat and no dialog.
ShowLoginDialog(c) ==
    /\ At(c, "show") \/ At(c, "retry")
    /\ \/ /\ early # <<>>
          /\ early' = Tail(early)
          /\ ShowAnswer(c, Head(early))
          /\ UNCHANGED <<account, faults>>
       \/ /\ early = <<>>
          /\ Reaches
          /\ Upsert
          /\ ShowAnswer(c, Resolved)
          /\ UNCHANGED early
       \/ /\ early = <<>>
          /\ Fails
          /\ Shows(c, conns[c].screen)
          /\ UNCHANGED <<account, early, authed, joins>>
    /\ UNCHANGED <<profiles, barred, cached, revoked, locked, wire>>

\* Fault: the chat goes on to the profiles without a look at the login.
ChatAnybody(c) ==
    /\ At(c, "idle")
    /\ ~locked
    /\ GoTo(c, "chat", NotFound)
    /\ UNCHANGED <<core, link, authed, joins, early>>

\* handleChat brings the dialog back.
Chat(c) ==
    /\ At(c, "idle")
    /\ ~locked
    /\ GoTo(c, IF authed[c] = "nobody" THEN "show" ELSE "chat", NotFound)
    /\ UNCHANGED <<core, link, authed, joins, early>>

\* Fault: when the player cannot be resolved, the handler just ends.
ChatResolveStrands(c) ==
    /\ At(c, "chat")
    /\ \/ /\ Reaches
          /\ Upsert
          /\ LET a == Resolved IN
             IF a = NotFound THEN Shows(c, conns[c].screen)
                             ELSE RouteProfiles(c, a.profiles)
       \/ Fails /\ Shows(c, conns[c].screen) /\ UNCHANGED account
    /\ UNCHANGED <<profiles, barred, cached, revoked, locked, wire, authed, joins, early>>

ChatResolve(c) ==
    /\ At(c, "chat")
    /\ \/ /\ Reaches
          /\ Upsert
          /\ LET a == Resolved IN
             IF a = NotFound THEN GoTo(c, "show", NotFound)
                             ELSE RouteProfiles(c, a.profiles)
       \/ Fails /\ GoTo(c, "show", NotFound) /\ UNCHANGED account
    /\ UNCHANGED <<profiles, barred, cached, revoked, locked, wire, authed, joins, early>>

\* handleDialogClick: a client may send any of these, whatever it was shown,
\* and waits for the next dialog.
Click(c, stage) ==
    /\ At(c, "idle")
    /\ conns' = [conns EXCEPT ![c] = [@ EXCEPT !.at = stage, !.screen = "none"]]
    /\ UNCHANGED <<core, link, authed, joins, early>>

\* authenticateAndTransfer up to its second call.
LoginSubmit(c) ==
    /\ At(c, "login")
    /\ \/ /\ Reaches
          /\ Upsert
          /\ LET a == Resolved IN
             \/ /\ a.auth \in {"unknown", "required"}     \* nobody, or no password
                /\ GoTo(c, "retry", NotFound)
                /\ UNCHANGED authed
             \/ /\ a.auth = "required"
                /\ GoTo(c, "auth", a)
                /\ UNCHANGED authed
             \/ /\ a.auth = "open"
                /\ GoTo(c, "remember", a)
                /\ UNCHANGED authed
             \/ a.auth = "remembered" /\ Enter(c, "vouched", a.profiles)
             \/ a.auth = "locked" /\ Enter(c, "waved", a.profiles)
       \/ /\ Fails
          /\ GoTo(c, "retry", NotFound)
          /\ UNCHANGED <<account, authed>>
    /\ UNCHANGED <<profiles, barred, cached, revoked, locked, wire, joins, early>>

\* authenticate: Core checks the password of an active passport, and caches
\* when the policy has it.
Authenticate(c) ==
    /\ At(c, "auth")
    /\ \/ /\ Reaches
          /\ account = "active"
          /\ cached' \in {cached, TRUE}
          /\ Enter(c, "vouched", conns[c].answer.profiles)
       \/ /\ Reaches \/ Fails
          /\ GoTo(c, "retry", NotFound)
          /\ UNCHANGED <<cached, authed>>
    /\ UNCHANGED <<account, profiles, barred, revoked, locked, wire, joins, early>>

\* rememberAuth; a failure is logged and forgotten.
RememberAuth(c) ==
    /\ At(c, "remember")
    /\ \/ (Reaches \/ Fails) /\ UNCHANGED cached
       \/ Reaches /\ account = "active" /\ cached' = TRUE
    /\ Enter(c, "vouched", conns[c].answer.profiles)
    /\ UNCHANGED <<account, profiles, barred, revoked, locked, wire, joins, early>>

\* registerAndTransfer makes the offline passport of the name, for a verified
\* session too: then it is not the one the connection resolves to.
RegisterSubmit(c) ==
    /\ At(c, "register")
    /\ \/ /\ Reaches
          /\ ~verified /\ account = "none"
          /\ account' = "active"
          /\ cached' \in BOOLEAN
          /\ Enter(c, "vouched", 0)
       \/ /\ Reaches
          /\ verified
          /\ MarkAuthed(c, "other")
          /\ RouteProfiles(c, 0)
          /\ UNCHANGED <<account, cached>>
       \/ /\ Reaches \/ Fails
          /\ Shows(c, "entry")
          /\ UNCHANGED <<account, cached, authed>>
    /\ UNCHANGED <<profiles, barred, revoked, locked, wire, joins, early>>

(***************************************************************************)
(* The profile dialogs.                                                    *)
(***************************************************************************)
\* What the three submits do with the answer of requireAuthedResolve: a
\* choice may be of no profile of the answer.
Submit(c, a) ==
    \/ At(c, "create") /\ GoTo(c, "creating", a)
    \/ At(c, "select") /\ a.profiles > 0 /\ GoTo(c, "transfer", NotFound)
    \/ At(c, "select") /\ Shows(c, "profile")
    \/ At(c, "open") /\ Shows(c, "profile")
    \/ At(c, "open") /\ RouteProfiles(c, a.profiles)

\* requireAuthedResolve.
ProfileSubmit(c) ==
    /\ conns[c].at \in {"create", "select", "open"}
    /\ \/ /\ authed[c] = "nobody"
          /\ GoTo(c, "show", NotFound)
          /\ UNCHANGED <<account, faults, authed>>
       \/ /\ authed[c] # "nobody"
          /\ Fails
          /\ GoTo(c, "retry", NotFound)
          /\ UNCHANGED <<account, authed>>
       \/ /\ authed[c] # "nobody"
          /\ Reaches
          /\ Upsert
          /\ LET a == Resolved IN
             CASE a = NotFound ->
                    GoTo(c, "retry", NotFound) /\ UNCHANGED authed
               [] a # NotFound /\ authed[c] = "other" ->
                    GoTo(c, "show", NotFound) /\ ClearAuthed(c)
               [] a # NotFound /\ authed[c] = "own" ->
                    Submit(c, a) /\ UNCHANGED authed
    /\ UNCHANGED <<profiles, barred, cached, revoked, locked, wire, joins, early>>

\* createProfile, with the passport that authenticated; the new profile is
\* the primary one from then on.
CreateProfile(c) ==
    /\ At(c, "creating")
    /\ \/ /\ Reaches
          /\ account = "active" /\ profiles < MaxProfile
          /\ profiles' = profiles + 1
          /\ barred' = FALSE
          /\ RouteProfiles(c, profiles + 1)
       \/ (Reaches \/ Fails) /\ Shows(c, "profile") /\ UNCHANGED <<profiles, barred>>
    /\ UNCHANGED <<account, cached, revoked, locked, wire, authed, joins, early>>

\* transferProfile: resolveTarget, then createGrant with the passport of the
\* login, if it has not expired by then.
TransferProfile(c) ==
    /\ At(c, "transfer")
    /\ \/ /\ Reaches
          /\ Granted(authed[c])
          /\ conns' = [conns EXCEPT ![c] = [@ EXCEPT !.at = "sent", !.screen = "none"]]
          /\ ClearAuthed(c)
       \/ /\ Reaches \/ Fails
          /\ GoTo(c, "autherr", NotFound)
          /\ UNCHANGED <<authed, barred>>
    /\ UNCHANGED <<account, profiles, cached, revoked, locked, wire, joins, early>>

\* showAuthDialogError on the profile selection.
ShowAuthDialogError(c) ==
    /\ At(c, "autherr")
    /\ \/ /\ Reaches
          /\ Upsert
          /\ IF Resolved = NotFound THEN GoTo(c, "retry", NotFound)
                                    ELSE Shows(c, "profile")
       \/ Fails /\ GoTo(c, "retry", NotFound) /\ UNCHANGED account
    /\ UNCHANGED <<profiles, barred, cached, revoked, locked, wire, authed, joins, early>>

\* The login of a connection that is gone is of no use to any other.
Leave(c) ==
    /\ At(c, "idle")
    /\ conns' = [conns EXCEPT ![c] = [@ EXCEPT !.at = "gone", !.screen = "none"]]
    /\ ClearAuthed(c)
    /\ UNCHANGED <<core, link, joins, early>>

(***************************************************************************)
(* Expiry: ten minutes, two minutes, thirty seconds; the oldest goes first. *)
(***************************************************************************)
AuthedExpires(c) ==
    /\ authed[c] # "nobody"
    /\ ClearAuthed(c)
    /\ UNCHANGED <<core, link, joins, early, conns>>

JoinExpires ==
    /\ joins # <<>>
    /\ joins' = Tail(joins)
    /\ UNCHANGED <<core, link, authed, early, conns>>

EarlyExpires ==
    /\ early # <<>>
    /\ early' = Tail(early)
    /\ UNCHANGED <<core, link, authed, joins, conns>>

(***************************************************************************)
(* The heartbeat loop and the event stream.                                *)
(***************************************************************************)
\* heartbeat and applyHeartbeat, and the "sync" event, while the node stands.
Heartbeat ==
    /\ Reaches
    /\ locked' = FALSE
    /\ UNCHANGED <<core, revoked, wire, authed, joins, early, conns>>

\* Core revokes the node and tells the portal.  The answer to a heartbeat may
\* be under way at that time.
Revoke ==
    /\ ~revoked
    /\ revoked' = TRUE
    /\ wire' \in {{"revoked"}, {"revoked", "beat"}}
    /\ UNCHANGED <<core, faults, locked, authed, joins, early, conns>>

\* applyHeartbeat of an answer from before the revocation.
ApplyHeartbeat ==
    /\ "beat" \in wire
    /\ wire' = wire \ {"beat"}
    /\ locked' = FALSE
    /\ UNCHANGED <<core, revoked, faults, authed, joins, early, conns>>

EventRevoked ==
    /\ "revoked" \in wire
    /\ wire' = wire \ {"revoked"}
    /\ locked' = TRUE
    /\ UNCHANGED <<core, revoked, faults, authed, joins, early, conns>>

(***************************************************************************)
(* Connections of the same key that are not in Conn: what their            *)
(* verifySession and handleConfiguration leave.  That they take the oldest *)
(* entry looks like its expiry, and what they do to Core is done by other  *)
(* hands below.                                                            *)
(***************************************************************************)
OtherVerifies ==
    /\ verified
    /\ Len(joins) < MaxKept
    /\ Reaches
    /\ Upsert
    /\ joins' = Append(joins, account # "none")
    /\ UNCHANGED <<profiles, barred, cached, revoked, locked, wire, authed, early, conns>>

OtherResolves ==
    /\ ~locked
    /\ Len(early) < MaxKept
    /\ Reaches
    /\ Upsert
    /\ early' = Append(early, Resolved)
    /\ UNCHANGED <<profiles, barred, cached, revoked, locked, wire, authed, joins, conns>>

(***************************************************************************)
(* Core by other hands: administrators, the web portal, other connections, *)
(* expiry.                                                                 *)
(***************************************************************************)
Registered ==
    /\ account = "none"
    /\ account' = "active"
    /\ UNCHANGED <<profiles, barred, cached, link, authed, joins, early, conns>>

SetPassportStatus(status) ==
    /\ account \notin {"none", status}
    /\ account' = status
    /\ UNCHANGED <<profiles, barred, cached, link, authed, joins, early, conns>>

DeletePassport ==
    /\ account # "none"
    /\ account' = "none"
    /\ profiles' = 0
    /\ barred' = FALSE
    /\ cached' = FALSE
    /\ UNCHANGED <<link, authed, joins, early, conns>>

\* handleAdminSetPlayerLocked for the primary profile.
SetPrimaryLocked ==
    /\ profiles > 0
    /\ barred' = ~barred
    /\ UNCHANGED <<account, profiles, cached, link, authed, joins, early, conns>>

\* A login makes the cache entry; a new password, or its time, ends it.
SetCache(entry) ==
    /\ cached # entry
    /\ entry => account = "active"
    /\ cached' = entry
    /\ UNCHANGED <<account, profiles, barred, link, authed, joins, early, conns>>

\* Any of the profiles that are left may be the primary one.
SetProfiles(n) ==
    /\ account # "none"
    /\ profiles # n
    /\ profiles' = n
    /\ barred' \in IF n = 0 THEN {FALSE} ELSE BOOLEAN
    /\ UNCHANGED <<account, cached, link, authed, joins, early, conns>>

(***************************************************************************)
(* Specification.                                                          *)
(***************************************************************************)
\* The step of the handler that is running for the connection.
Handler(c) ==
    \/ Configuration(c) \/ FastTransfer(c) \/ Join(c) \/ ShowLoginDialog(c)
    \/ ChatResolve(c) \/ LoginSubmit(c) \/ Authenticate(c) \/ RememberAuth(c)
    \/ RegisterSubmit(c) \/ ProfileSubmit(c) \/ CreateProfile(c)
    \/ TransferProfile(c) \/ ShowAuthDialogError(c)

Player(c) ==
    \/ Connect(c) \/ Chat(c) \/ Leave(c)
    \/ \E stage \in {"show", "login", "register", "create", "select", "open"} :
          Click(c, stage)

Expiry == (\E c \in Conn : AuthedExpires(c)) \/ JoinExpires \/ EarlyExpires

Node == Heartbeat \/ Revoke \/ ApplyHeartbeat \/ EventRevoked

Others == OtherVerifies \/ OtherResolves

Elsewhere ==
    \/ SetPassportStatus("locked") \/ SetPassportStatus("active")
    \/ Registered \/ DeletePassport \/ SetPrimaryLocked \/ SetCache(TRUE) \/ SetCache(FALSE)
    \/ \E n \in 0 .. MaxProfile : SetProfiles(n)

Within(A) == A /\ UNCHANGED <<verified, edits>>

Next ==
    \/ \E c \in Conn : Within(Handler(c)) \/ Within(Player(c))
    \/ Within(Expiry)
    \/ Within(Node)
    \/ Within(Others)
    \/ Elsewhere /\ edits < MaxEdit /\ edits' = edits + 1 /\ UNCHANGED verified

Spec == Init /\ [][Next]_vars

\* Handlers run to their end, the portal keeps sending heartbeats, and a player
\* who is left without a dialog types in the chat.
FairSpec ==
    /\ Spec
    /\ \A c \in Conn : WF_vars(Within(Handler(c))) /\ WF_vars(Within(Chat(c)))
    /\ WF_vars(Within(Heartbeat))

(***************************************************************************)
(* Properties, besides the one of LoginPromise.                            *)
(***************************************************************************)
\* "handleChat is the universal recovery path": unless Core revokes the portal,
\* no player stays without a dialog for good.
ChatRecovers ==
    \A c \in Conn :
        []<>(\/ conns[c].at \in {"new", "gone", "sent"}
             \/ conns[c].screen # "none"
             \/ revoked)

==============================================================================
