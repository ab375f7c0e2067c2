------------------------------ MODULE Credentials ------------------------------
(***************************************************************************)
(* The password of one offline passport: logging in from the game (a limbo *)
(* portal) and from the web portal, the lock after too many failures, the  *)
(* lock an administrator sets, changes and resets of the password, and the *)
(* remembered logins (portal_auth_cache) that let a player at the same     *)
(* address skip the password for a while.                                  *)
(*                                                                         *)
(* A handler is a sequence of store calls with nothing held between them.  *)
(* The id of an offline passport is computed from its name, so a passport  *)
(* that is deleted and registered again has the id of the old one.  The    *)
(* clock does not advance between the reading of a row and the comparison  *)
(* of the row's times with it, and a store call that was begun is carried  *)
(* out.                                                                    *)
(***************************************************************************)
EXTENDS Naturals, FiniteSets

CONSTANTS
    Req,        \* requests that may be under way at once
    Password,
    IP,         \* addresses players come from
    Limit,      \* failures that lock: 5
    LockFor,    \* how long: 15 minutes
    TTL,        \* how long a login is remembered
    MaxTime,    \* bound: the clock
    MaxEpoch    \* bound: passwords that are set

ASSUME CredentialsAssumption ==
    /\ IsFiniteSet(Req)
    /\ {Limit, LockFor, TTL} \subseteq Nat \ {0}
    /\ {MaxTime, MaxEpoch} \subseteq Nat

None == "none"
ASSUME NoneAssumption ==
    None \notin Password /\ Password # {} /\ IP # {}

VARIABLES
    now,        \* the clock
    status,     \* status of the passport, None when there is no row
    hash,       \* the credential: its password, None when there is no row,
    failed,     \*     failed_attempts
    until,      \*     and locked_until, 0 for NULL
    cache,      \* portal_auth_cache of the passport
    autoAuth,   \* settings: AutoAuthTTLSeconds > 0
    req,        \* requests
    epoch,      \* history: how many passwords were set
    lapses,     \* history: how often a lock ran out since failed was 0
    overtaken   \* history: requests under way when a password was last set

vars == <<now, status, hash, failed, until, cache, autoAuth, req,
          epoch, lapses, overtaken>>

credential == <<hash, failed, until, lapses>>
passport == <<status, credential>>

Status == {"active", "locked", "deleted"}

\* A row of portal_auth_cache; history: the password that was proved, and
\* whether by a request that a change of the password overtook.
Entry == [until : 0..MaxTime + TTL, epoch : 0..MaxEpoch, late : BOOLEAN]
NoEntry == [until |-> 0, epoch |-> 0, late |-> FALSE]

\* A request: its handler, how far it is, what it was sent and what it read;
\* history: the password it met, and which locks it has seen open.
Handler == {"game", "portal", "resolve"}
Stage == {"idle", "found", "wrong", "right", "proved", "checked", "told"}
Request == [handler : Handler, stage : Stage, pw : Password, ip : IP,
            status : Status, epoch : 0..MaxEpoch, saw : SUBSET {"status", "time"}]

Idle == [handler |-> "resolve", stage |-> "idle",
         pw |-> CHOOSE p \in Password : TRUE, ip |-> CHOOSE i \in IP : TRUE,
         status |-> "deleted", epoch |-> 0, saw |-> {}]

TypeOK ==
    /\ now \in 0..MaxTime
    /\ status \in Status \cup {None}
    /\ hash \in Password \cup {None}
    /\ failed \in Nat
    /\ until \in 0..MaxTime + LockFor
    /\ cache \in [IP -> Entry]
    /\ autoAuth \in BOOLEAN
    /\ req \in [Req -> Request]
    /\ epoch \in 0..MaxEpoch
    /\ lapses \in Nat
    /\ overtaken \subseteq Req

Init ==
    /\ now = 0
    /\ status = None
    /\ hash = None
    /\ failed = 0
    /\ until = 0
    /\ cache = [i \in IP |-> NoEntry]
    /\ autoAuth = TRUE
    /\ req = [r \in Req |-> Idle]
    /\ epoch = 0
    /\ lapses = 0
    /\ overtaken = {}

(***************************************************************************)
(* The two locks, and the store.                                           *)
(***************************************************************************)
\* passportCredentialLocked.
TimeLocked == until > now

OpenLocks ==
    (IF status = "locked" THEN {} ELSE {"status"}) \cup
    (IF TimeLocked THEN {} ELSE {"time"})

InFlight == {r \in Req : req[r].stage # "idle"}

\* The requests become next; those that are yet to look at the locks take note
\* of the ones that are open.
Moves(next) ==
    req' = [r \in Req |->
              CASE next[r].stage = "idle" -> Idle
                [] next[r].stage = "found" -> [next[r] EXCEPT !.saw = @ \cup OpenLocks']
                [] OTHER -> next[r]]

Goes(r, stage) == Moves([req EXCEPT ![r].stage = stage])

\* Fault: the lock is set one failure late.
RecordFailureLate ==
    /\ failed' = IF hash = None THEN failed ELSE failed + 1
    /\ until' = IF hash # None /\ failed > Limit THEN now + LockFor ELSE until
    /\ UNCHANGED <<hash, lapses>>

\* RecordPassportLoginFailure.
RecordPassportLoginFailure ==
    /\ failed' = IF hash = None THEN failed ELSE failed + 1
    /\ until' = IF hash # None /\ failed + 1 >= Limit THEN now + LockFor ELSE until
    /\ UNCHANGED <<hash, lapses>>

\* RecordPassportLoginSuccess.
RecordPassportLoginSuccess ==
    /\ failed' = 0 /\ until' = 0 /\ lapses' = 0
    /\ UNCHANGED hash

\* CreateOfflinePassport: a credential is written.
SetCredential(p) ==
    /\ hash' = p /\ failed' = 0 /\ until' = 0 /\ lapses' = 0
    /\ epoch' = epoch + 1

\* Fault: the remembered logins stay.
SetPasswordOnly(p) == SetCredential(p) /\ UNCHANGED cache

\* UpdatePassportPassword: ... and nobody is remembered any more.
SetPassword(p) == SetCredential(p) /\ cache' = [i \in IP |-> NoEntry]

(***************************************************************************)
(* Logging in: handleNodeAuthenticatePlayer and handlePortalLogin.         *)
(***************************************************************************)
Start(r, h, p, i) ==
    /\ req[r].stage = "idle"
    /\ overtaken' = overtaken \ {r}
    /\ Moves([req EXCEPT ![r] = [Idle EXCEPT !.handler = h, !.stage = "found",
                                             !.pw = p, !.ip = i, !.status = status]])

\* GetPassportCredential reads the passport ...
Login(r, h, p, i) ==
    /\ h \in {"game", "portal"}
    /\ status # None
    /\ UNCHANGED <<now, passport, cache, autoAuth, epoch>>
    /\ Start(r, h, p, i)

\* Fault: the lock is looked for only where the web portal logs in.
RejectedByPortal(r) ==
    \/ req[r].status = "locked"
    \/ req[r].handler = "portal" /\ (req[r].status = "deleted" \/ TimeLocked)

\* The two handlers differ on a passport that is marked as deleted.
Rejected(r) ==
    \/ req[r].status = "locked"
    \/ req[r].handler = "portal" /\ req[r].status = "deleted"
    \/ TimeLocked

\* ... and then its credential, which VerifyPassword is run on.
Verify(r) ==
    /\ req[r].stage = "found"
    /\ req[r].handler \in {"game", "portal"}
    /\ UNCHANGED <<now, passport, cache, autoAuth, epoch, overtaken>>
    /\ Moves([req EXCEPT
            ![r].stage = IF hash = None \/ Rejected(r) THEN "idle"
                         ELSE IF req[r].pw = hash THEN "right" ELSE "wrong",
            ![r].epoch = epoch, ![r].pw = Idle.pw, ![r].status = Idle.status])

CountFailure(r) ==
    /\ req[r].stage = "wrong"
    /\ RecordPassportLoginFailure
    /\ UNCHANGED <<now, status, cache, autoAuth, epoch, overtaken>>
    /\ Goes(r, "idle")

\* The portal goes on to create a session, the game to remember the login.
CountSuccess(r) ==
    /\ req[r].stage = "right"
    /\ RecordPassportLoginSuccess
    /\ UNCHANGED <<now, status, cache, autoAuth, epoch, overtaken>>
    /\ Moves([req EXCEPT
            ![r].stage = IF req[r].handler = "game" THEN "proved" ELSE "idle",
            ![r].saw = {}])

\* rememberPortalAuthCache.
Remember(r) ==
    /\ req[r].stage = "proved"
    /\ cache' = IF autoAuth /\ status # None
                THEN [cache EXCEPT ![req[r].ip] =
                        [until |-> now + TTL, epoch |-> req[r].epoch, late |-> r \in overtaken]]
                ELSE cache
    /\ UNCHANGED <<now, passport, autoAuth, epoch, overtaken>>
    /\ Goes(r, "idle")

(***************************************************************************)
(* Setting a password.                                                     *)
(***************************************************************************)
\* handlePortalChangePassword and handleAdminResetOfflinePassword, up to the
\* update.  A wrong current password ends the request: it is not counted, and
\* neither lock is looked at before.
ChangePassword(r, h, old, new) ==
    /\ h \in {"change", "reset"}
    /\ status # None
    /\ req[r].stage = "idle"
    /\ IF h = "change" /\ hash # old THEN UNCHANGED vars
       ELSE /\ UNCHANGED <<now, passport, cache, autoAuth, epoch>>
            /\ overtaken' = overtaken \ {r}
            /\ Moves([req EXCEPT ![r] = [Idle EXCEPT !.stage = "checked", !.pw = new]])

UpdatePassword(r) ==
    /\ req[r].stage = "checked"
    /\ epoch < MaxEpoch
    /\ IF status = None THEN UNCHANGED <<credential, cache, epoch, overtaken>>
       ELSE /\ SetPassword(req[r].pw)
            /\ overtaken' = InFlight \ {r}
    /\ UNCHANGED <<now, status, autoAuth>>
    /\ Goes(r, "idle")

\* handleNodeRegisterOfflinePlayer, which remembers the player, and
\* handleAdminCreateOfflinePassport, which does not.
Register(r, p, i, byPlayer) ==
    /\ req[r].stage = "idle"
    /\ status = None
    /\ epoch < MaxEpoch
    /\ status' = "active"
    /\ SetCredential(p)
    /\ overtaken' = InFlight \ {r}
    /\ UNCHANGED <<now, cache, autoAuth>>
    /\ Moves([req EXCEPT ![r] = [Idle EXCEPT
            !.handler = "game", !.stage = IF byPlayer THEN "proved" ELSE "idle",
            !.ip = i, !.epoch = epoch']])

(***************************************************************************)
(* handleNodeResolvePlayer: must this player give a password?              *)
(***************************************************************************)
Resolve(r, i) ==
    /\ status # None
    /\ UNCHANGED <<now, passport, cache, autoAuth, epoch>>
    /\ Start(r, "resolve", Idle.pw, i)

\* nodePassportResolveDataWithPlayer; a primary profile may be locked too.
Tells(r, profileLocked) ==
    /\ autoAuth /\ ~profileLocked /\ req[r].status # "locked"
    /\ cache[req[r].ip].until > now

\* UsePortalAuthCache drops an entry that has run out.
UsePortalAuthCache(r, profileLocked) ==
    /\ req[r].stage = "found"
    /\ req[r].handler = "resolve"
    /\ cache' = IF autoAuth /\ ~profileLocked /\ req[r].status # "locked"
                       /\ cache[req[r].ip].until <= now
                THEN [cache EXCEPT ![req[r].ip] = NoEntry] ELSE cache
    /\ UNCHANGED <<now, passport, autoAuth, epoch, overtaken>>
    /\ Goes(r, IF Tells(r, profileLocked) THEN "told" ELSE "idle")

\* The player who was told so goes on without a password.
Skip(r) ==
    /\ req[r].stage = "told"
    /\ UNCHANGED <<now, passport, cache, autoAuth, epoch, overtaken>>
    /\ Goes(r, "idle")

(***************************************************************************)
(* Administrators and time.                                                *)
(***************************************************************************)
\* SetPassportStatus.
SetPassportStatus(s) ==
    /\ status # None
    /\ status' = s
    /\ UNCHANGED <<now, credential, cache, autoAuth, epoch, overtaken>>
    /\ Moves(req)

\* DeletePassport takes the credential and the remembered logins with it.
DeletePassport ==
    /\ status # None
    /\ status' = None /\ hash' = None
    /\ failed' = 0 /\ until' = 0 /\ lapses' = 0
    /\ cache' = [i \in IP |-> NoEntry]
    /\ UNCHANGED <<now, autoAuth, epoch, overtaken>>
    /\ Moves(req)

\* The setting auto_auth_ttl_seconds is changed to or from 0.
SetAutoAuth ==
    /\ autoAuth' = ~autoAuth
    /\ UNCHANGED <<now, passport, cache, epoch, overtaken>>
    /\ Moves(req)

Tick ==
    /\ now < MaxTime
    /\ now' = now + 1
    /\ lapses' = IF until = now' THEN lapses + 1 ELSE lapses
    /\ UNCHANGED <<status, hash, failed, until, cache, autoAuth, epoch, overtaken>>
    /\ Moves(req)

Next ==
    \/ \E r \in Req :
          \/ \E h \in {"game", "portal"}, p \in Password, i \in IP : Login(r, h, p, i)
          \/ Verify(r) \/ CountFailure(r) \/ CountSuccess(r) \/ Remember(r)
          \/ \E h \in {"change", "reset"}, old, new \in Password : ChangePassword(r, h, old, new)
          \/ UpdatePassword(r)
          \/ \E p \in Password, i \in IP, byPlayer \in BOOLEAN : Register(r, p, i, byPlayer)
          \/ \E i \in IP : Resolve(r, i)
          \/ \E profileLocked \in BOOLEAN : UsePortalAuthCache(r, profileLocked)
          \/ Skip(r)
    \/ \E s \in Status : SetPassportStatus(s)
    \/ DeletePassport \/ SetAutoAuth \/ Tick

Spec == Init /\ [][Next]_vars

(***************************************************************************)
(* Properties.                                                             *)
(***************************************************************************)
\* The lock after Limit failures: the check of the lock and the count of a
\* failure are separate calls, so that requests already past the check still
\* count when the lock is set, and one more round of them each time the lock
\* runs out; but never more than that between two correct passwords.  This is
\* the bound on guesses at the two logins, which are counted; those of a
\* logged-in player at handlePortalChangePassword are not, and have none.
GuessesBounded ==
    failed <= Limit - 1 + Cardinality(Req) * (1 + lapses)

\* Both locks, which are read one after the other: a password is verified only
\* for a login during which each of them was open at some moment, and a player
\* skips it only if the passport was not locked throughout.  A player who is
\* logged in changes the password under either lock.
NoLoginUnderStandingLock ==
    \A r \in Req :
        /\ req[r].stage \in {"wrong", "right"} => req[r].saw = {"status", "time"}
        /\ req[r].stage = "told" => "status" \in req[r].saw

\* A remembered login rests on the password the passport has now, however
\* requests, changes, deletions and registrations interleave; the exception is
\* a request that was under way when the password was set, which may still
\* remember the password it proved before.
RememberedIsProved ==
    \A i \in IP : cache[i].until > 0 => cache[i].epoch = epoch \/ cache[i].late

================================================================================
