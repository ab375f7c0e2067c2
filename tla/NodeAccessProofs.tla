--------------------------- MODULE NodeAccessProofs ---------------------------
(***************************************************************************)
(* Who gets past a node: a gate that Core may have revoked, and the login  *)
(* portal.                                                                 *)
(*                                                                         *)
(* First, what a gate may know of its own revocation, for any number of    *)
(* heartbeats and connections and any channel.  LockedOnlyIfRevoked is not *)
(* inductive: the lock follows messages and answers that were made         *)
(* earlier, so that each of them, wherever it is, must be true (Truthful). *)
(* NobodyAdmittedLate needs that no acceptance is on its way to a          *)
(* connection that came in late (LateIsRefused).  The login portal has its *)
(* own invariant in the second half.                                       *)
(***************************************************************************)
EXTENDS NodeAccess, LoginPromise, SequenceTheorems, TLAPS

\* Every notice, refusal and lock tells of a revocation that has happened,
\* unless it comes from a failure inside Core.
Truthful ==
    /\ LockedOnlyIfRevoked
    /\ notice => revoked
    /\ ~revoked => chan \in Seq({"sync"})
    /\ \A b \in Beat : beat[b] = "refused" => revoked
    /\ \A p \in Player : call[p] = "refused" => revoked

\* A connection that came in late has no acceptance under way.
LateIsRefused ==
    /\ late # {} => revoked
    /\ \A p \in late : call[p] # "ok"

AccessInv == TypeOK /\ Truthful /\ LateIsRefused /\ NobodyAdmittedLate

\* The gate starts unlocked, with no call under way.
LEMMA AccessInit == Init => AccessInv
<1> SUFFICES ASSUME Init PROVE AccessInv
  OBVIOUS
<1>1. /\ chan \in Seq({"sync", "revoked"})
      /\ chan \in Seq({"sync"})
      /\ Len(chan) = 0
  BY EmptySeq DEF Init
<1>2. Len(chan) <= Cap
  BY <1>1, AccessAssumption
<1>3. TypeOK
  BY <1>1, <1>2 DEF Init, TypeOK, Socket, Answer, Refusal, Stage
<1>4. Truthful
  BY <1>1 DEF Init, Truthful, LockedOnlyIfRevoked
<1> QED
  BY <1>3, <1>4 DEF Init, AccessInv, LateIsRefused, NobodyAdmittedLate

\* A push keeps the channel typed and within its capacity, and a channel
\* without a notice takes a sync as that.
LEMMA PushTyped ==
  ASSUME TypeOK, NEW m \in {"sync", "revoked"}
  PROVE  /\ Pushed(m) \in Seq({"sync", "revoked"})
         /\ Len(Pushed(m)) <= Cap
         /\ chan \in Seq({"sync"}) /\ m = "sync" => Pushed(m) \in Seq({"sync"})
<1>1. chan \in Seq({"sync", "revoked"}) /\ Len(chan) <= Cap
  BY DEF TypeOK
<1>2. CASE socket \in {"registered", "up"} /\ Len(chan) < Cap
  <2>1. /\ Append(chan, m) \in Seq({"sync", "revoked"})
        /\ Len(Append(chan, m)) = Len(chan) + 1
    BY <1>1, AppendProperties
  <2>2. Len(chan) \in Nat /\ Cap \in Nat
    BY <1>1, LenProperties, AccessAssumption
  <2>3. chan \in Seq({"sync"}) /\ m = "sync" => Append(chan, m) \in Seq({"sync"})
    BY AppendProperties
  <2> QED
    BY <1>2, <2>1, <2>2, <2>3 DEF Pushed
<1> QED
  BY <1>1, <1>2 DEF Pushed

\* A lock keeps its type, and is a mistake only if Core failed.
LEMMA LockTyped ==
  ASSUME NEW reasons, LockIf(reasons)
  PROVE  /\ locked' \in BOOLEAN /\ mistaken' \in BOOLEAN
         /\ locked' => reasons # {}
         /\ "failed" \in reasons => mistaken'
<1>1. locked' \in BOOLEAN /\ (locked' <=> reasons # {})
  BY Zenon DEF LockIf
<1>2. mistaken' \in BOOLEAN /\ (mistaken' <=> reasons \cap {"failed"} # {})
  BY Zenon DEF LockIf
<1> QED
  BY <1>1, <1>2

\* Core and the websocket keep the invariant.
LEMMA CoreStep == ASSUME AccessInv, CoreNext PROVE AccessInv'
<1> USE DEF AccessInv
<1>1. CASE Revoke
  BY <1>1 DEF Revoke, TypeOK, Truthful, LockedOnlyIfRevoked, LateIsRefused,
     NobodyAdmittedLate, LetThrough, socketVars, playerVars, lockVars
<1>2. CASE PushRevoked
  BY <1>2, PushTyped DEF PushRevoked, TypeOK, Truthful, LockedOnlyIfRevoked,
     LateIsRefused, NobodyAdmittedLate, LetThrough, playerVars, lockVars
<1>3. CASE PushSync
  BY <1>3, PushTyped DEF PushSync, TypeOK, Truthful, LockedOnlyIfRevoked,
     LateIsRefused, NobodyAdmittedLate, LetThrough, coreVars, playerVars, lockVars
<1> QED
  BY <1>1, <1>2, <1>3 DEF CoreNext

LEMMA SocketStep == ASSUME AccessInv, SocketNext PROVE AccessInv'
<1> USE DEF AccessInv
<1>1. CASE Connect \/ RegisterClient \/ Ping
  <2>1. TypeOK'
    BY <1>1, LockTyped DEF Connect, RegisterClient, Ping, TypeOK, Socket, coreVars, socketVars,
       playerVars, lockVars
  <2>2. Truthful'
    BY <1>1 DEF Connect, RegisterClient, Ping, LockIf, Truthful, LockedOnlyIfRevoked, coreVars,
       socketVars, playerVars, lockVars
  <2> QED
    BY <1>1, <2>1, <2>2 DEF Connect, RegisterClient, Ping, LateIsRefused, NobodyAdmittedLate,
       LetThrough, coreVars, playerVars, lockVars
<1>2. CASE FirstSync
  <2>1. chan \in Seq({"sync", "revoked"}) /\ Len(chan) < Cap
    BY <1>2 DEF FirstSync, TypeOK
  <2>2. /\ chan' \in Seq({"sync", "revoked"})
        /\ Len(chan') = Len(chan) + 1
        /\ Len(chan) \in Nat
    BY <1>2, <2>1, AppendProperties, LenProperties DEF FirstSync
  <2>3. ~revoked => chan' \in Seq({"sync"})
    BY <1>2, AppendProperties DEF FirstSync, Truthful
  <2>4. Len(chan') <= Cap
    BY <2>1, <2>2, AccessAssumption
  <2>5. TypeOK'
    BY <1>2, <2>2, <2>4 DEF FirstSync, TypeOK, Socket, coreVars, playerVars, lockVars
  <2> QED
    BY <1>2, <2>3, <2>5 DEF FirstSync, Truthful, LockedOnlyIfRevoked, LateIsRefused,
       NobodyAdmittedLate, LetThrough, coreVars, playerVars, lockVars
<1>3. CASE Deliver
  <2>1. chan \in Seq({"sync", "revoked"}) /\ Len(chan) <= Cap /\ chan # << >>
    BY <1>3 DEF Deliver, TypeOK
  <2>2. /\ Tail(chan) \in Seq({"sync", "revoked"})
        /\ Len(Tail(chan)) = Len(chan) - 1
        /\ Len(chan) \in Nat
    BY <2>1, HeadTailProperties, LenProperties
  <2>3. ~revoked => Head(chan) = "sync" /\ Tail(chan) \in Seq({"sync"})
    BY <2>1, HeadTailProperties DEF Truthful
  <2>4. Len(Tail(chan)) <= Cap
    BY <2>1, <2>2, AccessAssumption
  <2>5. TypeOK'
    BY <1>3, <2>2, <2>4 DEF Deliver, LockIf, TypeOK, coreVars, playerVars, lockVars
  <2> QED
    BY <1>3, <2>3, <2>5 DEF Deliver, LockIf, Truthful, LockedOnlyIfRevoked, LateIsRefused,
       NobodyAdmittedLate, LetThrough, coreVars, playerVars, lockVars
<1>4. CASE Disconnect
  <2>1. chan' \in Seq({"sync"}) /\ chan' \in Seq({"sync", "revoked"}) /\ Len(chan') = 0
    BY <1>4, EmptySeq DEF Disconnect
  <2>2. Len(chan') <= Cap
    BY <2>1, AccessAssumption
  <2>3. TypeOK'
    BY <1>4, <2>1, <2>2 DEF Disconnect, TypeOK, Socket, coreVars, playerVars, lockVars
  <2> QED
    BY <1>4, <2>1, <2>3 DEF Disconnect, Truthful, LockedOnlyIfRevoked, LateIsRefused,
       NobodyAdmittedLate, LetThrough, coreVars, playerVars, lockVars
<1> QED
  BY <1>1, <1>2, <1>3, <1>4 DEF SocketNext

\* Heartbeats keep the invariant.
LEMMA BeatStep == ASSUME AccessInv, BeatNext PROVE AccessInv'
<1> USE DEF AccessInv
<1>1. PICK b \in Beat : \/ SendHeartbeat(b) \/ AnswerHeartbeat(b) \/ FailHeartbeat(b)
                        \/ LoseHeartbeat(b) \/ HeartbeatReply(b)
  BY DEF BeatNext
<1> DEFINE told == {beat[b]} \cap Refusal
<1>2. ASSUME HeartbeatReply(b)
      PROVE  /\ locked' \in BOOLEAN /\ mistaken' \in BOOLEAN
             /\ locked' => revoked \/ mistaken'
  <2>1. LockIf(told)
    BY <1>2 DEF HeartbeatReply
  <2>2. told # {} => beat[b] = "refused" \/ "failed" \in told
    BY DEF Refusal
  <2>3. beat[b] = "refused" => revoked
    BY DEF Truthful
  <2> HIDE DEF told
  <2> QED
    BY <2>1, <2>2, <2>3, LockTyped
<1>3. TypeOK'
  <2>1. CASE HeartbeatReply(b)
    BY <2>1, <1>2 DEF HeartbeatReply, TypeOK, Answer, coreVars, socketVars, playerVars
  <2> QED
    BY <1>1, <2>1 DEF SendHeartbeat, AnswerHeartbeat, FailHeartbeat, LoseHeartbeat, Verdict,
       TypeOK, Answer, Refusal, coreVars, socketVars, playerVars, lockVars
<1>4. Truthful'
  <2>1. CASE HeartbeatReply(b)
    BY <2>1, <1>2 DEF HeartbeatReply, TypeOK, Truthful, LockedOnlyIfRevoked, coreVars,
       socketVars, playerVars
  <2> QED
    BY <1>1, <2>1 DEF SendHeartbeat, AnswerHeartbeat, FailHeartbeat, LoseHeartbeat, Verdict,
       TypeOK, Truthful, LockedOnlyIfRevoked, coreVars, socketVars, playerVars, lockVars
<1> QED
  BY <1>1, <1>3, <1>4 DEF SendHeartbeat, AnswerHeartbeat, FailHeartbeat, LoseHeartbeat,
     HeartbeatReply, LateIsRefused, NobodyAdmittedLate, LetThrough, coreVars,
     playerVars, lockVars

\* A connection and its calls keep the invariant.
LEMMA PlayerStep == ASSUME AccessInv, PlayerNext PROVE AccessInv'
<1> USE DEF AccessInv
<1>1. PICK p \in Player :
        \/ GameProfileRequest(p) \/ LoginEvent(p) \/ CookieReceive(p)
        \/ ServerPreConnect(p) \/ Command(p) \/ Leave(p)
        \/ AnswerCall(p) \/ FailCall(p) \/ CallAccepted(p) \/ CallFails(p) \/ CallRefused(p)
  BY DEF PlayerNext
<1>2. CASE GameProfileRequest(p)
  BY <1>2 DEF GameProfileRequest, TypeOK, Stage, Answer, Refusal, Truthful,
     LockedOnlyIfRevoked, LateIsRefused, NobodyAdmittedLate, LetThrough, coreVars,
     socketVars, lockVars
<1>3. CASE LoginEvent(p) \/ CookieReceive(p) \/ ServerPreConnect(p)
  <2>1. TypeOK'
    BY <1>3 DEF LoginEvent, CookieReceive, ServerPreConnect, TypeOK, Stage, Answer, Refusal,
       coreVars, socketVars, lockVars
  <2>2. Truthful'
    BY <1>3 DEF LoginEvent, CookieReceive, ServerPreConnect, TypeOK, Truthful,
       LockedOnlyIfRevoked, coreVars, socketVars, lockVars
  <2>3. LateIsRefused' /\ NobodyAdmittedLate'
    BY <1>3 DEF LoginEvent, CookieReceive, ServerPreConnect, TypeOK, LateIsRefused,
       NobodyAdmittedLate, LetThrough, coreVars, lockVars
  <2> QED
    BY <2>1, <2>2, <2>3
<1>4. CASE Command(p) \/ Leave(p) \/ AnswerCall(p) \/ FailCall(p)
  <2>1. TypeOK'
    BY <1>4 DEF Command, Leave, AnswerCall, FailCall, Verdict, TypeOK, Stage, Answer,
       Refusal, coreVars,
       socketVars, lockVars
  <2>2. Truthful'
    BY <1>4 DEF Command, Leave, AnswerCall, FailCall, Verdict, TypeOK, Truthful,
       LockedOnlyIfRevoked, coreVars, socketVars, lockVars
  <2>3. LateIsRefused' /\ NobodyAdmittedLate'
    BY <1>4 DEF Command, Leave, AnswerCall, FailCall, Verdict, TypeOK, LateIsRefused,
       NobodyAdmittedLate, LetThrough, coreVars, lockVars
  <2> QED
    BY <2>1, <2>2, <2>3
<1>5. CASE CallAccepted(p) \/ CallFails(p)
  <2>1. TypeOK'
    BY <1>5 DEF CallAccepted, CallFails, Proceed, TypeOK, Stage, Answer, Refusal, coreVars,
       socketVars, lockVars
  <2>2. Truthful'
    BY <1>5 DEF CallAccepted, CallFails, TypeOK, Truthful, LockedOnlyIfRevoked,
       coreVars, socketVars, lockVars
  <2>3. LateIsRefused' /\ NobodyAdmittedLate'
    BY <1>5 DEF CallAccepted, CallFails, Proceed, TypeOK, LateIsRefused,
       NobodyAdmittedLate, LetThrough, coreVars, lockVars
  <2> QED
    BY <2>1, <2>2, <2>3
<1>6. CASE CallRefused(p)
  <2>1. UNCHANGED <<revoked, late>>
    BY <1>6 DEF CallRefused, coreVars
  <2>2. /\ locked' \in BOOLEAN /\ mistaken' \in BOOLEAN
        /\ locked' => revoked \/ mistaken'
    <3> DEFINE told == {call[p]}
    <3>1. LockIf(told)
      BY <1>6 DEF CallRefused
    <3>2. revoked \/ "failed" \in told
      BY <1>6 DEF CallRefused, Truthful, Refusal
    <3> HIDE DEF told
    <3> QED
      BY <3>1, <3>2, LockTyped
  <2>3. TypeOK'
    BY <1>6, <2>2 DEF CallRefused, Proceed, OnProxy, LetThrough, TypeOK, Stage, Answer,
       coreVars, socketVars
  <2>4. \A q \in Player : LetThrough(q)' => FALSE
    BY <1>6 DEF CallRefused, Proceed, OnProxy, LetThrough, TypeOK
  <2>5. \A q \in Player : call'[q] = "ok" => call[q] = "ok"
    BY <1>6 DEF CallRefused, TypeOK
  <2>6. LateIsRefused' /\ NobodyAdmittedLate'
    BY <2>1, <2>4, <2>5 DEF LateIsRefused, NobodyAdmittedLate, TypeOK
  <2>7. \A q \in Player : call'[q] = "refused" => call[q] = "refused"
    BY <1>6 DEF CallRefused, TypeOK
  <2> QED
    BY <1>6, <2>1, <2>2, <2>3, <2>6, <2>7 DEF CallRefused, Truthful, LockedOnlyIfRevoked,
       coreVars, socketVars
<1> QED
  BY <1>1, <1>2, <1>3, <1>4, <1>5, <1>6

\* The invariant of every behaviour.
LEMMA AccessInvariant == Spec => []AccessInv
<1>1. AccessInv /\ UNCHANGED vars => AccessInv'
  BY DEF AccessInv, TypeOK, Truthful, LockedOnlyIfRevoked, LateIsRefused,
     NobodyAdmittedLate, LetThrough, vars
<1>2. AccessInv /\ [Next]_vars => AccessInv'
  BY <1>1, CoreStep, SocketStep, BeatStep, PlayerStep DEF Next
<1> QED
  BY <1>2, AccessInit, PTL DEF Spec

\* The gate's lock, its calls and the bounded channel of its websocket keep
\* their types, however pushes and heartbeats overlap.
THEOREM AccessTyped == Spec => []TypeOK
<1>1. AccessInv => TypeOK
  BY DEF AccessInv
<1> QED
  BY <1>1, AccessInvariant, PTL

\* The footnote of the nodes page: a lost heartbeat or message locks no gate,
\* however heartbeats, pings and pushes overlap; a gate nobody revoked is
\* locked only by an answer that Core gave because it failed itself.
THEOREM OnlyRevocationLocks == Spec => []LockedOnlyIfRevoked
<1>1. AccessInv => LockedOnlyIfRevoked
  BY DEF AccessInv, Truthful
<1> QED
  BY <1>1, AccessInvariant, PTL

\* Though messages of the websocket unlock a revoked gate, nobody who comes in
\* after the revocation is let through.
THEOREM RevokedGateAdmitsNobody == Spec => []NobodyAdmittedLate
<1>1. AccessInv => NobodyAdmittedLate
  BY DEF AccessInv
<1> QED
  BY <1>1, AccessInvariant, PTL

--------------------------------------------------------------------------------
(***************************************************************************)
(* The login portal, which Core revokes like a gate: any number of         *)
(* connections of a player, of profiles, failures, edits and answers that  *)
(* other connections leave.                                                *)
(*                                                                         *)
(* AfterLoginOnly is not inductive: a handler that goes on to the profiles *)
(* looked at the login one or more calls ago, and the login may have       *)
(* expired since.  So whatever comes after such a look, and every login    *)
(* that is kept, belongs to a connection that Core vouched for or that     *)
(* clicked through a dialog while Core called the login locked (Entered);  *)
(* and so does every connection with a verified session.                   *)
(***************************************************************************)
CONSTANTS MaxProfile, MaxFault, MaxEdit, MaxKept

VARIABLES verified, account, profiles, barred, cached, portalRevoked, faults, edits, portalLocked,
          wire, authed, joins, early

Limbo == INSTANCE LimboPortal WITH revoked <- portalRevoked, locked <- portalLocked

\* A place has its four fields, whatever is in them.
Placed(r) ==
    r = [at |-> r.at, screen |-> r.screen, answer |-> r.answer, standing |-> r.standing]

\* The changes the handlers make to a place.
LEMMA AtReplaced ==
  ASSUME NEW place, Placed(place), NEW stage, NEW answer
  PROVE  [place EXCEPT !.at = stage, !.answer = answer] =
           [at |-> stage, screen |-> place.screen, answer |-> answer,
            standing |-> place.standing]
<1> DEFINE W == [at : {place.at, stage}, screen : {place.screen},
                 answer : {place.answer, answer}, standing : {place.standing}]
           r == [place EXCEPT !.at = stage, !.answer = answer]
<1>1. place \in W
  BY DEF Placed
<1>2. /\ r \in W /\ r.at = stage /\ r.screen = place.screen
      /\ r.answer = answer /\ r.standing = place.standing
  BY <1>1
<1> HIDE DEF r
<1>3. r = [at |-> stage, screen |-> place.screen, answer |-> answer,
           standing |-> place.standing]
  BY <1>2
<1> QED
  BY <1>3 DEF r

LEMMA ScreenReplaced ==
  ASSUME NEW place, Placed(place), NEW stage, NEW screen
  PROVE  [place EXCEPT !.at = stage, !.screen = screen] =
           [at |-> stage, screen |-> screen, answer |-> place.answer,
            standing |-> place.standing]
<1> DEFINE W == [at : {place.at, stage}, screen : {place.screen, screen},
                 answer : {place.answer}, standing : {place.standing}]
           r == [place EXCEPT !.at = stage, !.screen = screen]
<1>1. place \in W
  BY DEF Placed
<1>2. /\ r \in W /\ r.at = stage /\ r.screen = screen
      /\ r.answer = place.answer /\ r.standing = place.standing
  BY <1>1
<1> HIDE DEF r
<1>3. r = [at |-> stage, screen |-> screen, answer |-> place.answer,
           standing |-> place.standing]
  BY <1>2
<1> QED
  BY <1>3 DEF r

LEMMA AllReplaced ==
  ASSUME NEW place, Placed(place), NEW stage, NEW screen, NEW answer
  PROVE  [place EXCEPT !.at = stage, !.screen = screen, !.answer = answer] =
           [at |-> stage, screen |-> screen, answer |-> answer,
            standing |-> place.standing]
<1> DEFINE W == [at : {place.at, stage}, screen : {place.screen, screen},
                 answer : {place.answer, answer}, standing : {place.standing}]
           r == [place EXCEPT !.at = stage, !.screen = screen, !.answer = answer]
<1>1. place \in W
  BY DEF Placed
<1>2. /\ r \in W /\ r.at = stage /\ r.screen = screen
      /\ r.answer = answer /\ r.standing = place.standing
  BY <1>1
<1> HIDE DEF r
<1>3. r = [at |-> stage, screen |-> screen, answer |-> answer,
           standing |-> place.standing]
  BY <1>2
<1> QED
  BY <1>3 DEF r

LEMMA ConnectReplaced ==
  ASSUME NEW place, Placed(place), NEW stage, NEW standing
  PROVE  [place EXCEPT !.at = stage, !.standing = standing] =
           [at |-> stage, screen |-> place.screen, answer |-> place.answer,
            standing |-> standing]
<1> DEFINE W == [at : {place.at, stage}, screen : {place.screen},
                 answer : {place.answer}, standing : {place.standing, standing}]
           r == [place EXCEPT !.at = stage, !.standing = standing]
<1>1. place \in W
  BY DEF Placed
<1>2. /\ r \in W /\ r.at = stage /\ r.screen = place.screen
      /\ r.answer = place.answer /\ r.standing = standing
  BY <1>1
<1> HIDE DEF r
<1>3. r = [at |-> stage, screen |-> place.screen, answer |-> place.answer,
           standing |-> standing]
  BY <1>2
<1> QED
  BY <1>3 DEF r

LEMMA StandingReplaced ==
  ASSUME NEW place, Placed(place), NEW standing
  PROVE  [place EXCEPT !.standing = standing] =
           [at |-> place.at, screen |-> place.screen, answer |-> place.answer,
            standing |-> standing]
BY DEF Placed

Entered(r) == r.standing # "stranger"

\* Where only those are who got past the login.
Past(r) ==
    \/ r.at \in {"chat", "creating", "transfer", "autherr", "sent"}
    \/ r.screen = "profile"
    \/ verified /\ r.at # "new"

\* Whose login is kept.
Login == {"nobody", "own", "other"}

LoginInv ==
    /\ conns = [c \in Conn |-> conns[c]]
    /\ authed \in [Conn -> Login]
    /\ \A c \in Conn :
          /\ Placed(conns[c])
          /\ Past(conns[c]) \/ authed[c] # "nobody" => Entered(conns[c])

\* A login is kept for a connection that got past it, or is forgotten.
LoginKept(c) ==
    \/ authed' = authed
    \/ authed' = [authed EXCEPT ![c] = "nobody"]
    \/ Entered(conns[c]) /\ \E p \in Login : authed' = [authed EXCEPT ![c] = p]

\* A connection goes on, and nobody's standing is lost.
LEMMA PlaceMoves ==
  ASSUME LoginInv, NEW c \in Conn, NEW r, Placed(r), conns' = [conns EXCEPT ![c] = r],
         verified' = verified, authed' = [authed EXCEPT ![c] = authed'[c]],
         authed'[c] \in Login, authed'[c] # "nobody" => Entered(r), Past(r) => Entered(r)
  PROVE  LoginInv'
<1>1. /\ conns' = [o \in Conn |-> conns'[o]] /\ conns'[c] = r
      /\ \A o \in Conn : o # c => conns'[o] = conns[o]
  BY DEF LoginInv
<1>2. /\ authed' \in [Conn -> Login]
      /\ \A o \in Conn : o # c => authed'[o] = authed[o]
  BY DEF LoginInv
<1>3. ASSUME NEW o \in Conn
      PROVE  /\ Placed(conns'[o])
             /\ Past(conns[o])' \/ authed'[o] # "nobody" => Entered(conns'[o])
  <2>1. CASE o = c
    BY <1>1, <2>1 DEF Past
  <2>2. CASE o # c
    BY <1>1, <1>2, <2>2 DEF LoginInv, Past
  <2> QED
    BY <2>1, <2>2
<1> QED
  BY <1>1, <1>2, <1>3 DEF LoginInv, Placed, Entered

\* The same, in the words of LoginKept.
LEMMA ConnMoves ==
  ASSUME LoginInv, NEW c \in Conn, NEW r, Placed(r), conns' = [conns EXCEPT ![c] = r],
         verified' = verified, LoginKept(c), Entered(conns[c]) => Entered(r),
         Past(r) => Entered(r)
  PROVE  LoginInv'
<1>1. authed' = [authed EXCEPT ![c] = authed'[c]] /\ authed'[c] \in Login
  BY DEF LoginInv, LoginKept, Login
<1>2. authed'[c] # "nobody" => Entered(r)
  BY DEF LoginInv, LoginKept
<1> QED
  BY <1>1, <1>2, PlaceMoves

LEMMA GoToKeeps ==
  ASSUME LoginInv, NEW c \in Conn, NEW stage, NEW answer, Limbo!GoTo(c, stage, answer),
         verified' = verified, LoginKept(c), ~verified \/ conns[c].at # "new",
         stage \notin {"chat", "creating", "transfer", "autherr", "sent"} \/ Entered(conns[c])
  PROVE  LoginInv'
<1> DEFINE r == [conns[c] EXCEPT !.at = stage, !.answer = answer]
<1>1. Placed(conns[c]) /\ (Past(conns[c]) => Entered(conns[c]))
  BY DEF LoginInv
<1>2. r = [at |-> stage, screen |-> conns[c].screen, answer |-> answer,
           standing |-> conns[c].standing]
  BY <1>1, AtReplaced
<1>3. conns' = [conns EXCEPT ![c] = r]
  BY DEF Limbo!GoTo
<1> HIDE DEF r
<1>4. /\ Placed(r) /\ r.at = stage /\ r.screen = conns[c].screen
      /\ r.standing = conns[c].standing
  BY <1>2 DEF Placed
<1> QED
  BY <1>1, <1>3, <1>4, ConnMoves DEF Past, Entered

LEMMA ShowsKeeps ==
  ASSUME LoginInv, NEW c \in Conn, NEW screen, Limbo!Shows(c, screen),
         verified' = verified, LoginKept(c), conns[c].at # "new",
         screen \in {"none", "entry", conns[c].screen} \/ Entered(conns[c])
  PROVE  LoginInv'
<1> DEFINE r == Limbo!Seeing(conns[c], screen)
<1>1. Placed(conns[c]) /\ (Past(conns[c]) => Entered(conns[c]))
  BY DEF LoginInv
<1>2. r = [at |-> "idle", screen |-> screen, answer |-> Limbo!NotFound,
           standing |-> conns[c].standing]
  BY <1>1, AllReplaced DEF Limbo!Seeing
<1>3. conns' = [conns EXCEPT ![c] = r]
  BY DEF Limbo!Shows
<1> HIDE DEF r
<1>4. Placed(r) /\ r.at = "idle" /\ r.screen = screen /\ r.standing = conns[c].standing
  BY <1>2 DEF Placed
<1> QED
  BY <1>1, <1>3, <1>4, ConnMoves DEF Past, Entered

\* routeProfiles.
LEMMA RoutedPlace ==
  ASSUME NEW place, NEW n, Placed(place)
  PROVE  Placed(Limbo!Routed(place, n)) /\ Limbo!Routed(place, n).standing = place.standing
BY AtReplaced, AllReplaced DEF Limbo!Routed, Limbo!Seeing, Placed

LEMMA RouteKeeps ==
  ASSUME LoginInv, NEW c \in Conn, NEW n, Limbo!RouteProfiles(c, n),
         verified' = verified, LoginKept(c), Entered(conns[c])
  PROVE  LoginInv'
<1>1. PICK r : r = Limbo!Routed(conns[c], n)
  OBVIOUS
<1>2. Placed(r) /\ r.standing = conns[c].standing
  BY <1>1, RoutedPlace DEF LoginInv
<1>3. conns' = [conns EXCEPT ![c] = r]
  BY <1>1 DEF Limbo!RouteProfiles
<1> QED
  BY <1>2, <1>3, ConnMoves DEF Entered

LEMMA EnterKeeps ==
  ASSUME LoginInv, NEW c \in Conn, NEW standing \in {"vouched", "waved"}, NEW n,
         Limbo!Enter(c, standing, n), verified' = verified
  PROVE  LoginInv'
<1> DEFINE s == IF conns[c].standing = "vouched" THEN "vouched" ELSE standing
           e == [conns[c] EXCEPT !.standing = s]
           r == Limbo!Routed(e, n)
<1>1. conns' = [conns EXCEPT ![c] = r]
  BY DEF Limbo!Enter
<1>2. s \in {"vouched", "waved"}
  OBVIOUS
<1> HIDE DEF s
<1>3. e = [at |-> conns[c].at, screen |-> conns[c].screen, answer |-> conns[c].answer,
           standing |-> s]
  BY StandingReplaced DEF LoginInv
<1> HIDE DEF e
<1>4. Placed(e) /\ e.standing # "stranger"
  BY <1>2, <1>3 DEF Placed
<1>5. Placed(r) /\ Entered(r)
  BY <1>4, RoutedPlace DEF Entered
<1> HIDE DEF r
<1>6. authed' = [authed EXCEPT ![c] = authed'[c]] /\ authed'[c] \in Login
  BY DEF Limbo!Enter, Limbo!MarkAuthed, LoginInv, Login
<1> QED
  BY <1>1, <1>5, <1>6, PlaceMoves

\* Nothing happens to a connection.
LEMMA AsideKeeps ==
  ASSUME LoginInv, UNCHANGED <<verified, conns, authed>>
  PROVE  LoginInv'
BY DEF LoginInv, Placed, Past, Entered

\* Who is past the login, or has a login that is kept, got in.
LEMMA PastEntered ==
  ASSUME LoginInv, NEW c \in Conn
  PROVE  /\ Placed(conns[c])
         /\ conns[c].at \in {"chat", "creating", "transfer", "autherr", "sent"} =>
              Entered(conns[c])
         /\ verified /\ conns[c].at # "new" => Entered(conns[c])
         /\ authed[c] # "nobody" => Entered(conns[c])
         /\ conns[c].screen = "profile" => Entered(conns[c])
BY DEF LoginInv, Past

\* A handler that leaves the logins alone, or clears its own, keeps them.
LEMMA KeptLogins ==
  ASSUME NEW c \in Conn, UNCHANGED authed \/ Limbo!ClearAuthed(c)
  PROVE  LoginKept(c)
BY DEF LoginKept, Limbo!ClearAuthed

LEMMA ConnectKeeps ==
  ASSUME LoginInv, NEW c \in Conn, Limbo!Connect(c), verified' = verified
  PROVE  LoginInv'
<1>1. LoginKept(c)
  BY KeptLogins DEF Limbo!Connect
<1>2. CASE verified
  <2> DEFINE r == [conns[c] EXCEPT !.at = "config", !.standing = "vouched"]
  <2>1. conns' = [conns EXCEPT ![c] = r]
    BY <1>2 DEF Limbo!Connect
  <2>2. r = [at |-> "config", screen |-> conns[c].screen, answer |-> conns[c].answer,
             standing |-> "vouched"]
    BY PastEntered, ConnectReplaced
  <2> HIDE DEF r
  <2>3. Placed(r) /\ Entered(r)
    BY <2>2 DEF Placed, Entered
  <2> QED
    BY <1>1, <2>1, <2>3, ConnMoves
<1>3. CASE ~verified
  <2>1. Limbo!GoTo(c, "config", Limbo!NotFound)
    BY <1>3 DEF Limbo!Connect
  <2> QED
    BY <1>1, <1>3, <2>1, GoToKeeps
<1> QED
  BY <1>2, <1>3

LEMMA ConfigurationKeeps ==
  ASSUME LoginInv, NEW c \in Conn, Limbo!Configuration(c), verified' = verified
  PROVE  LoginInv'
<1>1. LoginKept(c) /\ conns[c].at # "new"
  BY KeptLogins DEF Limbo!Configuration, Limbo!At
<1>2. PICK a : Limbo!GoTo(c, "join", Limbo!NotFound) \/ Limbo!GoTo(c, "fast", a)
  BY DEF Limbo!Configuration
<1> QED
  BY <1>1, <1>2, GoToKeeps

LEMMA FastTransferKeeps ==
  ASSUME LoginInv, NEW c \in Conn, Limbo!FastTransfer(c), verified' = verified
  PROVE  LoginInv'
<1>1. LoginKept(c) /\ conns[c].at # "new"
  BY KeptLogins DEF Limbo!FastTransfer, Limbo!At
<1> DEFINE r == [at |-> "sent", screen |-> "none", answer |-> Limbo!NotFound,
                 standing |-> "vouched"]
<1>2. CASE conns' = [conns EXCEPT ![c] = r]
  <2>1. Placed(r) /\ Entered(r)
    BY DEF Placed, Entered
  <2> HIDE DEF r
  <2> QED
    BY <1>1, <1>2, <2>1, ConnMoves
<1>3. CASE Limbo!GoTo(c, "join", Limbo!NotFound)
  BY <1>1, <1>3, GoToKeeps
<1> QED
  BY <1>2, <1>3 DEF Limbo!FastTransfer

LEMMA JoinKeeps ==
  ASSUME LoginInv, NEW c \in Conn, Limbo!Join(c), verified' = verified
  PROVE  LoginInv'
<1>1. LoginKept(c) /\ conns[c].at # "new"
  BY KeptLogins DEF Limbo!Join, Limbo!At
<1>2. CASE Limbo!Shows(c, "none")
  BY <1>1, <1>2, ShowsKeeps
<1>3. CASE Limbo!GoTo(c, "show", Limbo!NotFound)
  BY <1>1, <1>3, GoToKeeps
<1> QED
  BY <1>2, <1>3 DEF Limbo!Join

LEMMA ShowAnswerKeeps ==
  ASSUME LoginInv, NEW c \in Conn, NEW a, Limbo!ShowAnswer(c, a), conns[c].at # "new",
         verified' = verified
  PROVE  LoginInv'
<1>1. CASE Limbo!Shows(c, "entry") /\ UNCHANGED authed
  BY <1>1, KeptLogins, ShowsKeeps
<1>2. CASE Limbo!Enter(c, "vouched", a.profiles)
  BY <1>2, EnterKeeps
<1> QED
  BY <1>1, <1>2 DEF Limbo!ShowAnswer

LEMMA ShowLoginDialogKeeps ==
  ASSUME LoginInv, NEW c \in Conn, Limbo!ShowLoginDialog(c), verified' = verified
  PROVE  LoginInv'
<1>1. conns[c].at # "new"
  BY DEF Limbo!ShowLoginDialog, Limbo!At
<1>2. CASE \E a : Limbo!ShowAnswer(c, a)
  BY <1>1, <1>2, ShowAnswerKeeps
<1>3. CASE Limbo!Shows(c, conns[c].screen) /\ UNCHANGED authed
  BY <1>1, <1>3, KeptLogins, ShowsKeeps
<1> QED
  BY <1>2, <1>3 DEF Limbo!ShowLoginDialog

LEMMA ChatKeeps ==
  ASSUME LoginInv, NEW c \in Conn, Limbo!Chat(c), verified' = verified
  PROVE  LoginInv'
<1>1. LoginKept(c) /\ conns[c].at # "new"
  BY KeptLogins DEF Limbo!Chat, Limbo!At
<1>2. PICK stage : /\ stage = IF authed[c] = "nobody" THEN "show" ELSE "chat"
                   /\ Limbo!GoTo(c, stage, Limbo!NotFound)
  BY DEF Limbo!Chat
<1>3. stage \notin {"chat", "creating", "transfer", "autherr", "sent"} \/ Entered(conns[c])
  BY <1>2, PastEntered
<1> QED
  BY <1>1, <1>2, <1>3, GoToKeeps

LEMMA ChatResolveKeeps ==
  ASSUME LoginInv, NEW c \in Conn, Limbo!ChatResolve(c), verified' = verified
  PROVE  LoginInv'
<1>1. LoginKept(c) /\ conns[c].at # "new" /\ Entered(conns[c])
  BY KeptLogins, PastEntered DEF Limbo!ChatResolve, Limbo!At
<1>2. CASE Limbo!GoTo(c, "show", Limbo!NotFound)
  BY <1>1, <1>2, GoToKeeps
<1>3. CASE \E n : Limbo!RouteProfiles(c, n)
  BY <1>1, <1>3, RouteKeeps
<1> QED
  BY <1>2, <1>3 DEF Limbo!ChatResolve

LEMMA ClickKeeps ==
  ASSUME LoginInv, NEW c \in Conn,
         NEW stage \in {"show", "login", "register", "create", "select", "open"},
         Limbo!Click(c, stage), verified' = verified
  PROVE  LoginInv'
<1> DEFINE r == [conns[c] EXCEPT !.at = stage, !.screen = "none"]
<1>1. LoginKept(c) /\ conns[c].at # "new" /\ conns' = [conns EXCEPT ![c] = r]
  BY KeptLogins DEF Limbo!Click, Limbo!At
<1>2. r = [at |-> stage, screen |-> "none", answer |-> conns[c].answer,
           standing |-> conns[c].standing]
  BY PastEntered, ScreenReplaced
<1> HIDE DEF r
<1>3. Placed(r) /\ r.at = stage /\ r.screen = "none" /\ r.standing = conns[c].standing
  BY <1>2 DEF Placed
<1>4. Past(r) => Entered(r)
  BY <1>1, <1>3, PastEntered DEF Past, Entered
<1> QED
  BY <1>1, <1>3, <1>4, ConnMoves DEF Entered

LEMMA LoginSubmitKeeps ==
  ASSUME LoginInv, NEW c \in Conn, Limbo!LoginSubmit(c), verified' = verified
  PROVE  LoginInv'
<1>1. conns[c].at # "new"
  BY DEF Limbo!LoginSubmit, Limbo!At
<1>2. ASSUME NEW a, NEW stage \in {"retry", "auth", "remember"},
             Limbo!GoTo(c, stage, a), UNCHANGED authed
      PROVE  LoginInv'
  BY <1>1, <1>2, KeptLogins, GoToKeeps
<1>3. ASSUME NEW n, NEW standing \in {"vouched", "waved"}, Limbo!Enter(c, standing, n)
      PROVE  LoginInv'
  BY <1>3, EnterKeeps
<1> QED
  BY <1>2, <1>3 DEF Limbo!LoginSubmit

LEMMA AuthenticateKeeps ==
  ASSUME LoginInv, NEW c \in Conn, Limbo!Authenticate(c), verified' = verified
  PROVE  LoginInv'
<1>1. conns[c].at # "new"
  BY DEF Limbo!Authenticate, Limbo!At
<1>2. CASE \E n : Limbo!Enter(c, "vouched", n)
  BY <1>2, EnterKeeps
<1>3. CASE Limbo!GoTo(c, "retry", Limbo!NotFound) /\ UNCHANGED authed
  BY <1>1, <1>3, KeptLogins, GoToKeeps
<1> QED
  BY <1>2, <1>3 DEF Limbo!Authenticate

LEMMA RememberAuthKeeps ==
  ASSUME LoginInv, NEW c \in Conn, Limbo!RememberAuth(c), verified' = verified
  PROVE  LoginInv'
BY EnterKeeps DEF Limbo!RememberAuth

\* A verified session that registers the offline passport of its name is in
\* by its own one.
LEMMA RegisterSubmitKeeps ==
  ASSUME LoginInv, NEW c \in Conn, Limbo!RegisterSubmit(c), verified' = verified
  PROVE  LoginInv'
<1>1. conns[c].at # "new"
  BY DEF Limbo!RegisterSubmit, Limbo!At
<1>2. CASE Limbo!Enter(c, "vouched", 0)
  BY <1>2, EnterKeeps
<1>3. CASE verified /\ Limbo!MarkAuthed(c, "other") /\ Limbo!RouteProfiles(c, 0)
  <2>1. Entered(conns[c])
    BY <1>1, <1>3, PastEntered
  <2>2. LoginKept(c)
    BY <1>3, <2>1 DEF LoginKept, Limbo!MarkAuthed, Login
  <2> QED
    BY <1>3, <2>1, <2>2, RouteKeeps
<1>4. CASE Limbo!Shows(c, "entry") /\ UNCHANGED authed
  BY <1>1, <1>4, KeptLogins, ShowsKeeps
<1> QED
  BY <1>2, <1>3, <1>4 DEF Limbo!RegisterSubmit

\* The three submits of the profile dialogs, after requireAuthedResolve.
LEMMA SubmitKeeps ==
  ASSUME LoginInv, NEW c \in Conn, NEW a, Limbo!Submit(c, a), UNCHANGED authed,
         Entered(conns[c]), verified' = verified
  PROVE  LoginInv'
<1>1. LoginKept(c) /\ conns[c].at # "new"
  BY KeptLogins DEF Limbo!Submit, Limbo!At
<1>2. ASSUME NEW stage, NEW answer, Limbo!GoTo(c, stage, answer)
      PROVE  LoginInv'
  BY <1>1, <1>2, GoToKeeps
<1>3. CASE Limbo!Shows(c, "profile")
  BY <1>1, <1>3, ShowsKeeps
<1>4. CASE \E n : Limbo!RouteProfiles(c, n)
  BY <1>1, <1>4, RouteKeeps
<1> QED
  BY <1>2, <1>3, <1>4 DEF Limbo!Submit

LEMMA ProfileSubmitKeeps ==
  ASSUME LoginInv, NEW c \in Conn, Limbo!ProfileSubmit(c), verified' = verified
  PROVE  LoginInv'
<1>1. conns[c].at # "new"
  BY DEF Limbo!ProfileSubmit
<1>2. ASSUME NEW stage \in {"show", "retry"}, Limbo!GoTo(c, stage, Limbo!NotFound),
             UNCHANGED authed \/ Limbo!ClearAuthed(c)
      PROVE  LoginInv'
  BY <1>1, <1>2, KeptLogins, GoToKeeps
<1>3. CASE authed[c] = "own" /\ (\E a : Limbo!Submit(c, a)) /\ UNCHANGED authed
  <2>1. Entered(conns[c])
    BY <1>3, PastEntered
  <2> QED
    BY <1>3, <2>1, SubmitKeeps
<1>4. CASE authed[c] = "nobody"
  BY <1>2, <1>4 DEF Limbo!ProfileSubmit
<1>5. CASE Limbo!GoTo(c, "retry", Limbo!NotFound) /\ UNCHANGED authed
  BY <1>2, <1>5
<1>6. CASE Limbo!GoTo(c, "show", Limbo!NotFound) /\ Limbo!ClearAuthed(c)
  BY <1>2, <1>6
<1> QED
  BY <1>3, <1>4, <1>5, <1>6, authed[c] \in Login DEF Limbo!ProfileSubmit, LoginInv, Login

LEMMA CreateProfileKeeps ==
  ASSUME LoginInv, NEW c \in Conn, Limbo!CreateProfile(c), verified' = verified
  PROVE  LoginInv'
<1>1. LoginKept(c) /\ conns[c].at # "new" /\ Entered(conns[c])
  BY KeptLogins, PastEntered DEF Limbo!CreateProfile, Limbo!At
<1>2. CASE Limbo!Shows(c, "profile")
  BY <1>1, <1>2, ShowsKeeps
<1>3. CASE \E n : Limbo!RouteProfiles(c, n)
  BY <1>1, <1>3, RouteKeeps
<1> QED
  BY <1>2, <1>3 DEF Limbo!CreateProfile

\* A connection whose screen is cleared, and which is past the login or gone.
LEMMA ClearedKeeps ==
  ASSUME LoginInv, NEW c \in Conn, NEW stage, LoginKept(c), conns[c].at # "new",
         conns' = [conns EXCEPT ![c] = [conns[c] EXCEPT !.at = stage, !.screen = "none"]],
         stage = "gone" \/ Entered(conns[c]), verified' = verified
  PROVE  LoginInv'
<1> DEFINE r == [conns[c] EXCEPT !.at = stage, !.screen = "none"]
<1>1. conns' = [conns EXCEPT ![c] = r]
  OBVIOUS
<1>2. r = [at |-> stage, screen |-> "none", answer |-> conns[c].answer,
           standing |-> conns[c].standing]
  BY PastEntered, ScreenReplaced
<1> HIDE DEF r
<1>3. Placed(r) /\ r.at = stage /\ r.screen = "none" /\ r.standing = conns[c].standing
  BY <1>2 DEF Placed
<1>4. Past(r) => Entered(r)
  BY <1>3, PastEntered DEF Past, Entered
<1> QED
  BY <1>1, <1>3, <1>4, ConnMoves DEF Entered

LEMMA TransferProfileKeeps ==
  ASSUME LoginInv, NEW c \in Conn, Limbo!TransferProfile(c), verified' = verified
  PROVE  LoginInv'
<1>1. LoginKept(c) /\ conns[c].at # "new" /\ Entered(conns[c])
  BY KeptLogins, PastEntered DEF Limbo!TransferProfile, Limbo!At
<1>2. CASE Limbo!GoTo(c, "autherr", Limbo!NotFound)
  BY <1>1, <1>2, GoToKeeps
<1>3. CASE conns' = [conns EXCEPT ![c] = [conns[c] EXCEPT !.at = "sent", !.screen = "none"]]
  BY <1>1, <1>3, ClearedKeeps
<1> QED
  BY <1>2, <1>3 DEF Limbo!TransferProfile

LEMMA ShowAuthDialogErrorKeeps ==
  ASSUME LoginInv, NEW c \in Conn, Limbo!ShowAuthDialogError(c), verified' = verified
  PROVE  LoginInv'
<1>1. LoginKept(c) /\ conns[c].at # "new" /\ Entered(conns[c])
  BY KeptLogins, PastEntered DEF Limbo!ShowAuthDialogError, Limbo!At
<1>2. CASE Limbo!GoTo(c, "retry", Limbo!NotFound)
  BY <1>1, <1>2, GoToKeeps
<1>3. CASE Limbo!Shows(c, "profile")
  BY <1>1, <1>3, ShowsKeeps
<1> QED
  BY <1>2, <1>3 DEF Limbo!ShowAuthDialogError

LEMMA LeaveKeeps ==
  ASSUME LoginInv, NEW c \in Conn, Limbo!Leave(c), verified' = verified
  PROVE  LoginInv'
<1>1. LoginKept(c) /\ conns[c].at # "new"
  BY KeptLogins DEF Limbo!Leave, Limbo!At
<1>2. conns' = [conns EXCEPT ![c] = [conns[c] EXCEPT !.at = "gone", !.screen = "none"]]
  BY DEF Limbo!Leave
<1> QED
  BY <1>1, <1>2, ClearedKeeps

LEMMA AuthedExpiresKeeps ==
  ASSUME LoginInv, NEW c \in Conn, Limbo!AuthedExpires(c), verified' = verified
  PROVE  LoginInv'
<1>1. conns' = conns /\ authed' = [authed EXCEPT ![c] = "nobody"]
  BY DEF Limbo!AuthedExpires, Limbo!ClearAuthed
<1> QED
  BY <1>1 DEF LoginInv, Placed, Past, Entered, Login

\* The steps of no connection.
LEMMA OthersAside ==
  ASSUME Limbo!JoinExpires \/ Limbo!EarlyExpires \/ Limbo!Node \/ Limbo!Others \/ Limbo!Elsewhere
  PROVE  UNCHANGED <<conns, authed>>
BY DEF Limbo!JoinExpires, Limbo!EarlyExpires, Limbo!Node, Limbo!Others, Limbo!Elsewhere,
       Limbo!Heartbeat, Limbo!Revoke, Limbo!ApplyHeartbeat, Limbo!EventRevoked,
       Limbo!OtherVerifies, Limbo!OtherResolves, Limbo!SetPassportStatus, Limbo!Registered,
       Limbo!DeletePassport, Limbo!SetPrimaryLocked, Limbo!SetCache, Limbo!SetProfiles

LEMMA LoginStep ==
  ASSUME LoginInv, [Limbo!Next]_Limbo!vars
  PROVE  LoginInv'
<1>1. ASSUME NEW c \in Conn, Limbo!Handler(c), verified' = verified
      PROVE  LoginInv'
  BY <1>1, ConfigurationKeeps, FastTransferKeeps, JoinKeeps, ShowLoginDialogKeeps,
     ChatResolveKeeps, LoginSubmitKeeps, AuthenticateKeeps, RememberAuthKeeps,
     RegisterSubmitKeeps, ProfileSubmitKeeps, CreateProfileKeeps, TransferProfileKeeps,
     ShowAuthDialogErrorKeeps DEF Limbo!Handler
<1>2. ASSUME NEW c \in Conn, Limbo!Player(c), verified' = verified
      PROVE  LoginInv'
  BY <1>2, ConnectKeeps, ChatKeeps, LeaveKeeps, ClickKeeps DEF Limbo!Player
<1>3. ASSUME NEW c \in Conn, Limbo!AuthedExpires(c), verified' = verified
      PROVE  LoginInv'
  BY <1>3, AuthedExpiresKeeps
<1>4. ASSUME Limbo!JoinExpires \/ Limbo!EarlyExpires \/ Limbo!Node \/ Limbo!Others \/ Limbo!Elsewhere,
             verified' = verified
      PROVE  LoginInv'
  BY <1>4, OthersAside, AsideKeeps
<1>5. CASE UNCHANGED Limbo!vars
  BY <1>5, AsideKeeps DEF Limbo!vars
<1> QED
  BY <1>1, <1>2, <1>3, <1>4, <1>5 DEF Limbo!Next, Limbo!Within, Limbo!Expiry

LEMMA LoginInit == Limbo!Init => LoginInv
BY DEF Limbo!Init, LoginInv, Placed, Past, Entered, Login

LEMMA LoginInvariance == Limbo!Spec => []LoginInv
BY LoginInit, LoginStep, PTL DEF Limbo!Spec

\* requireAuthedResolve and handleChat: whatever the client sends and in
\* whatever order answers, expiries and failures come, the profiles are shown
\* and the player sent on only after Core vouched for the connection, or it
\* clicked through a dialog while Core called the login locked, for the
\* passport or for its primary profile.
THEOREM OnlyAfterLogin == Limbo!Spec => []AfterLoginOnly
<1>1. LoginInv => AfterLoginOnly
  BY DEF LoginInv, Past, Entered, AfterLoginOnly
<1> QED
  BY <1>1, LoginInvariance, PTL

================================================================================
