--------------------------- MODULE CredentialsProofs ---------------------------
(***************************************************************************)
(* Password, locks and remembered logins, for any number of requests,      *)
(* addresses and passwords and any limit.                                  *)
(*                                                                         *)
(* None of the three properties is inductive.  NoLoginUnderStandingLock    *)
(* needs to know what a request has seen before it verifies (LocksSeen);   *)
(* RememberedIsProved, which password a request has proved (ProvedNow);    *)
(* GuessesBounded, how many requests are past the check of the lock while  *)
(* it is shut, and that fewer failures are on record while it is open      *)
(* (GuessBudget).                                                          *)
(***************************************************************************)
EXTENDS Credentials, FiniteSetTheorems, TLAPS

\* Before its look at the locks a request has taken note of every lock that is
\* open now, and of the status if it read one that is not locked.
LocksSeen ==
    \A r \in Req : req[r].stage = "found" =>
        /\ OpenLocks \subseteq req[r].saw
        /\ req[r].status # "locked" => "status" \in req[r].saw

\* What a request has proved is the password there is, or it was overtaken.
ProvedNow ==
    \A r \in Req : req[r].stage \in {"right", "proved"} =>
        req[r].epoch = epoch \/ r \in overtaken

\* Requests past the check of the lock, whose failure is yet to be counted.
Guessing == {r \in Req : req[r].stage = "wrong"}

Round == Cardinality(Req)

\* While the lock is shut nobody joins the guessing; while it is open the
\* failures on record are those below the limit and a round for each lapse.
GuessBudget ==
    /\ TimeLocked => failed + Cardinality(Guessing) <= Limit - 1 + Round * lapses + Round
    /\ ~TimeLocked => failed <= Limit - 1 + Round * lapses

\* Deletion forgets the remembered logins, and registration relies on it.
NobodyRemembered == status = None => \A i \in IP : cache[i].until = 0

CredentialsInv ==
    /\ TypeOK
    /\ LocksSeen
    /\ NoLoginUnderStandingLock
    /\ ProvedNow
    /\ RememberedIsProved
    /\ GuessBudget

--------------------------------------------------------------------------------
(***************************************************************************)
(* Requests that move.                                                     *)
(***************************************************************************)
LEMMA IdleTyped == Idle \in Request /\ Idle.stage = "idle" /\ Idle.saw = {}
<1>1. (CHOOSE p \in Password : TRUE) \in Password /\ (CHOOSE i \in IP : TRUE) \in IP
  BY NoneAssumption
<1>2. 0 \in 0..MaxEpoch
  BY CredentialsAssumption
<1> QED
  BY <1>1, <1>2 DEF Idle, Request, Handler, Stage, Status

\* The fields of a request.
LEMMA Fields ==
  ASSUME NEW q \in Request
  PROVE  /\ q.handler \in Handler /\ q.stage \in Stage /\ q.pw \in Password /\ q.ip \in IP
         /\ q.status \in Status /\ q.epoch \in 0..MaxEpoch
         /\ q.saw \subseteq {"status", "time"}
BY DEF Request

\* What Moves does to one request.
LEMMA MovesOne ==
  ASSUME NEW next \in [Req -> Request], Moves(next), NEW r \in Req
  PROVE  /\ next[r].stage = "idle" => req'[r] = Idle
         /\ next[r].stage = "found" =>
                req'[r] = [next[r] EXCEPT !.saw = next[r].saw \cup OpenLocks']
         /\ next[r].stage \notin {"idle", "found"} => req'[r] = next[r]
         /\ req'[r] \in Request
         /\ req'[r].stage = next[r].stage
<1>1. next[r] \in Request
  OBVIOUS
<1>2. OpenLocks' \subseteq {"status", "time"}
  BY DEF OpenLocks
<1>3. next[r].stage = "idle" => req'[r] = Idle
  BY DEF Moves
<1>4. next[r].stage = "found" =>
         req'[r] = [next[r] EXCEPT !.saw = next[r].saw \cup OpenLocks']
  BY DEF Moves
<1>5. next[r].stage \notin {"idle", "found"} => req'[r] = next[r]
  BY DEF Moves
<1>6. [next[r] EXCEPT !.saw = next[r].saw \cup OpenLocks'] \in Request
  BY <1>1, <1>2 DEF Request
<1>7. [next[r] EXCEPT !.saw = next[r].saw \cup OpenLocks'].stage = next[r].stage
  BY <1>1 DEF Request
<1> QED
  BY <1>1, <1>3, <1>4, <1>5, <1>6, <1>7, IdleTyped

\* A request that may go on: what it saw allows for where it is.
Allowed(q) ==
    /\ q.stage = "found" /\ q.status # "locked" => "status" \in q.saw \cup OpenLocks'
    /\ q.stage \in {"wrong", "right"} => q.saw = {"status", "time"}
    /\ q.stage = "told" => "status" \in q.saw

\* If every request may go on, the locks were seen as they should.
LEMMA MovesKeepLocks ==
  ASSUME NEW next \in [Req -> Request], Moves(next),
         \A r \in Req : Allowed(next[r])
  PROVE  /\ req' \in [Req -> Request]
         /\ \A r \in Req : req'[r].stage = next[r].stage
         /\ LocksSeen' /\ NoLoginUnderStandingLock'
<1>1. req' \in [Req -> Request]
  <2>1. \A r \in Req : req'[r] \in Request
    BY MovesOne
  <2>2. req' = [r \in Req |-> req'[r]]
    BY DEF Moves
  <2> QED
    BY <2>1, <2>2
<1>2. ASSUME NEW r \in Req
      PROVE  /\ req'[r].stage = "found" =>
                  /\ OpenLocks' \subseteq req'[r].saw
                  /\ req'[r].status # "locked" => "status" \in req'[r].saw
             /\ req'[r].stage \in {"wrong", "right"} => req'[r].saw = {"status", "time"}
             /\ req'[r].stage = "told" => "status" \in req'[r].saw
  <2>1. next[r] \in Request
    OBVIOUS
  <2>2. CASE next[r].stage = "found"
    <3> DEFINE q == [next[r] EXCEPT !.saw = next[r].saw \cup OpenLocks']
    <3>1. q.saw = next[r].saw \cup OpenLocks' /\ q.status = next[r].status /\ q.stage = "found"
      BY <2>1, <2>2 DEF Request
    <3> QED
      BY <3>1, <2>2, MovesOne DEF Allowed
  <2>3. CASE next[r].stage # "found"
    BY <2>1, <2>3, MovesOne, IdleTyped DEF Allowed
  <2> QED
    BY <2>2, <2>3
<1> QED
  BY <1>1, <1>2, MovesOne DEF LocksSeen, NoLoginUnderStandingLock

\* Requests that do not move may go on whatever happens around them.
LEMMA StillAllowed ==
  ASSUME CredentialsInv, NEW r \in Req
  PROVE  Allowed(req[r])
BY DEF CredentialsInv, LocksSeen, NoLoginUnderStandingLock, Allowed

\* What a request may have proved, whatever happens around it.
Proving(r, q) ==
    q.stage \in {"right", "proved"} => q.epoch = epoch' \/ r \in overtaken'

LEMMA MovesKeep ==
  ASSUME NEW next \in [Req -> Request], Moves(next),
         \A r \in Req : Allowed(next[r]) /\ Proving(r, next[r])
  PROVE  /\ req' \in [Req -> Request]
         /\ LocksSeen' /\ NoLoginUnderStandingLock' /\ ProvedNow'
         /\ Guessing' = {r \in Req : next[r].stage = "wrong"}
<1>1. ProvedNow'
  BY MovesOne DEF ProvedNow, Proving
<1>2. Guessing' = {r \in Req : next[r].stage = "wrong"}
  BY MovesOne DEF Guessing
<1> QED
  BY <1>1, <1>2, MovesKeepLocks

\* A step that leaves the requests alone, or ends one of them.
LEMMA EndsOrStays ==
  ASSUME CredentialsInv, NEW r \in Req, UNCHANGED epoch, UNCHANGED overtaken,
         Moves(req) \/ Goes(r, "idle")
  PROVE  /\ req' \in [Req -> Request]
         /\ LocksSeen' /\ NoLoginUnderStandingLock' /\ ProvedNow'
         /\ Guessing' = IF Moves(req) THEN Guessing ELSE Guessing \ {r}
<1>1. req \in [Req -> Request]
  BY DEF CredentialsInv, TypeOK
<1>2. CASE Moves(req)
  <2>1. \A x \in Req : Allowed(req[x]) /\ Proving(x, req[x])
    BY StillAllowed DEF Proving, CredentialsInv, ProvedNow
  <2> QED
    BY <1>1, <1>2, <2>1, MovesKeep DEF Guessing
<1>3. CASE Goes(r, "idle")
  <2> DEFINE next == [req EXCEPT ![r].stage = "idle"]
  <2>1. /\ next \in [Req -> Request]
        /\ next[r].stage = "idle"
        /\ \A x \in Req : x # r => next[x] = req[x]
    BY <1>1 DEF Request, Stage
  <2>2. \A x \in Req : Allowed(next[x]) /\ Proving(x, next[x])
    BY <2>1, StillAllowed DEF Proving, Allowed, CredentialsInv, ProvedNow
  <2>3. Moves(next)
    BY <1>3 DEF Goes
  <2>4. {x \in Req : next[x].stage = "wrong"} = Guessing \ {r}
    BY <2>1 DEF Guessing
  <2> HIDE DEF next
  <2>5. /\ req' \in [Req -> Request]
        /\ LocksSeen' /\ NoLoginUnderStandingLock' /\ ProvedNow'
        /\ Guessing' = Guessing \ {r}
    BY <2>1, <2>2, <2>3, <2>4, MovesKeep
  <2>6. Moves(req) => Guessing' = Guessing
    BY <1>1, MovesOne DEF Guessing
  <2> QED
    BY <2>5, <2>6
<1> QED
  BY <1>2, <1>3

--------------------------------------------------------------------------------
(***************************************************************************)
(* The budget of guesses.                                                  *)
(***************************************************************************)
LEMMA GuessingCounted ==
  ASSUME NEW S \in SUBSET Req
  PROVE  /\ IsFiniteSet(S) /\ Cardinality(S) \in Nat /\ Cardinality(S) <= Round
         /\ Round \in Nat
BY CredentialsAssumption, FS_Subset, FS_CardinalityType DEF Round

LEMMA ConstantsTyped ==
  /\ Limit \in Nat /\ Limit > 0 /\ LockFor \in Nat /\ LockFor > 0
  /\ TTL \in Nat /\ TTL > 0 /\ MaxTime \in Nat /\ MaxEpoch \in Nat /\ Round \in Nat
BY CredentialsAssumption, FS_CardinalityType DEF Round

\* Rounds are counted in naturals.
LEMMA RoundsTyped ==
  ASSUME NEW n \in Nat
  PROVE  /\ Round * n \in Nat
         /\ Round * (n + 1) = Round * n + Round
BY ConstantsTyped

\* Nothing is counted and nobody starts to guess while the lock is shut.
LEMMA BudgetKept ==
  ASSUME CredentialsInv, UNCHANGED <<now, failed, until, lapses>>,
         TimeLocked => Guessing' \subseteq Guessing
  PROVE  GuessBudget'
<1>1. Guessing' \subseteq Req /\ Guessing \subseteq Req
  BY DEF Guessing
<1>2. TimeLocked => Cardinality(Guessing') <= Cardinality(Guessing)
  BY <1>1, FS_Subset, GuessingCounted
<1>3. TimeLocked' = TimeLocked
  BY DEF TimeLocked
<1>4. failed \in Nat /\ lapses \in Nat /\ Round * lapses \in Nat
  BY RoundsTyped DEF CredentialsInv, TypeOK
<1>5. Cardinality(Guessing') \in Nat /\ Cardinality(Guessing) \in Nat /\ Round \in Nat
  BY <1>1, GuessingCounted
<1>6. GuessBudget
  BY DEF CredentialsInv
<1>7. (Round * lapses)' = Round * lapses
  BY DEF Round
<1> DEFINE R == Round * lapses
<1> HIDE DEF R
<1> QED
  BY <1>2, <1>3, <1>4, <1>5, <1>6, <1>7, ConstantsTyped DEF GuessBudget, R, Round

\* The count starts again.
LEMMA BudgetReset ==
  ASSUME CredentialsInv, failed' = 0, until' = 0, lapses' = 0, now' \in Nat
  PROVE  GuessBudget'
<1>1. ~TimeLocked'
  BY DEF TimeLocked
<1>2. Round' * 0 = 0
  BY ConstantsTyped DEF Round
<1> QED
  BY <1>1, <1>2, ConstantsTyped DEF GuessBudget

--------------------------------------------------------------------------------
(***************************************************************************)
(* One lemma per action.                                                   *)
(***************************************************************************)
LEMMA CredentialsInit == Init => CredentialsInv
<1> SUFFICES ASSUME Init PROVE CredentialsInv
  OBVIOUS
<1> USE DEF Init
<1>1. \A r \in Req : req[r] = Idle
  OBVIOUS
<1>2. cache \in [IP -> Entry] /\ \A i \in IP : cache[i].until = 0
  <2>1. NoEntry \in Entry /\ NoEntry.until = 0
    BY ConstantsTyped DEF NoEntry, Entry
  <2> QED
    BY <2>1
<1>3. TypeOK
  BY <1>2, IdleTyped, ConstantsTyped DEF TypeOK
<1>4. LocksSeen /\ NoLoginUnderStandingLock /\ ProvedNow
  BY <1>1, IdleTyped DEF LocksSeen, NoLoginUnderStandingLock, ProvedNow
<1>5. RememberedIsProved
  BY <1>2 DEF RememberedIsProved
<1>6. ~TimeLocked /\ Round * 0 = 0
  BY ConstantsTyped DEF TimeLocked
<1>7. GuessBudget
  BY <1>6, ConstantsTyped DEF GuessBudget
<1> QED
  BY <1>3, <1>4, <1>5, <1>7 DEF CredentialsInv

\* A request that begins: Start, and the beginning of ChangePassword.
LEMMA BeginKeeps ==
  ASSUME CredentialsInv, NEW r \in Req, NEW q \in Request,
         q.stage \in {"found", "checked"},
         q.stage = "found" => q.status = status,
         Moves([req EXCEPT ![r] = q]), req[r].stage = "idle",
         overtaken' = overtaken \ {r},
         UNCHANGED <<now, passport, cache, autoAuth, epoch>>
  PROVE  CredentialsInv'
<1> DEFINE next == [req EXCEPT ![r] = q]
<1>0. req \in [Req -> Request]
  BY DEF CredentialsInv, TypeOK
<1>1. /\ next \in [Req -> Request]
      /\ next[r] = q
      /\ \A x \in Req : x # r => next[x] = req[x]
  BY <1>0
<1>2. UNCHANGED <<status, hash, failed, until, lapses>>
  BY DEF passport, credential
<1>3. Allowed(q) /\ Proving(r, q)
  BY <1>2 DEF Allowed, Proving, OpenLocks
<1>4. \A x \in Req : Allowed(next[x]) /\ Proving(x, next[x])
  BY <1>1, <1>3, StillAllowed DEF Proving, CredentialsInv, ProvedNow
<1>5. {x \in Req : next[x].stage = "wrong"} = Guessing
  BY <1>1 DEF Guessing
<1> HIDE DEF next
<1>6. /\ req' \in [Req -> Request]
      /\ LocksSeen' /\ NoLoginUnderStandingLock' /\ ProvedNow'
      /\ Guessing' = Guessing
  BY <1>1, <1>4, <1>5, MovesKeep DEF next
<1>7. GuessBudget'
  BY <1>2, <1>6, BudgetKept
<1>8. TypeOK'
  BY <1>2, <1>6 DEF CredentialsInv, TypeOK
<1>9. RememberedIsProved'
  BY DEF CredentialsInv, RememberedIsProved
<1> QED
  BY <1>6, <1>7, <1>8, <1>9 DEF CredentialsInv

LEMMA LoginKeeps ==
  ASSUME CredentialsInv, NEW r \in Req, NEW h \in Handler, NEW p \in Password, NEW i \in IP,
         status # None, Start(r, h, p, i),
         UNCHANGED <<now, passport, cache, autoAuth, epoch>>
  PROVE  CredentialsInv'
<1> DEFINE q == [Idle EXCEPT !.handler = h, !.stage = "found", !.pw = p, !.ip = i,
                             !.status = status]
<1>1. status \in Status
  BY DEF CredentialsInv, TypeOK
<1>2. q \in Request /\ q.stage = "found" /\ q.status = status
  BY <1>1, IdleTyped DEF Request, Stage
<1>3. Moves([req EXCEPT ![r] = q]) /\ req[r].stage = "idle" /\ overtaken' = overtaken \ {r}
  BY DEF Start
<1> HIDE DEF q
<1> QED
  BY <1>2, <1>3, BeginKeeps

LEMMA StutterKeeps ==
  ASSUME CredentialsInv, UNCHANGED vars
  PROVE  CredentialsInv'
BY DEF vars, CredentialsInv, TypeOK, LocksSeen, OpenLocks, TimeLocked,
       NoLoginUnderStandingLock, ProvedNow, RememberedIsProved, GuessBudget,
       Guessing, Round

LEMMA ChangePasswordKeeps ==
  ASSUME CredentialsInv, NEW r \in Req, NEW h, NEW old \in Password, NEW new \in Password,
         ChangePassword(r, h, old, new)
  PROVE  CredentialsInv'
<1>1. CASE h = "change" /\ hash # old
  BY <1>1, StutterKeeps DEF ChangePassword
<1>2. CASE ~(h = "change" /\ hash # old)
  <2> DEFINE q == [Idle EXCEPT !.stage = "checked", !.pw = new]
  <2>1. q \in Request /\ q.stage = "checked"
    BY IdleTyped DEF Request, Stage
  <2>2. /\ Moves([req EXCEPT ![r] = q]) /\ req[r].stage = "idle" /\ overtaken' = overtaken \ {r}
        /\ UNCHANGED <<now, passport, cache, autoAuth, epoch>>
    BY <1>2 DEF ChangePassword
  <2> HIDE DEF q
  <2> QED
    BY <2>1, <2>2, BeginKeeps
<1> QED
  BY <1>1, <1>2

\* The check of the locks and of the password.
LEMMA VerifyKeeps ==
  ASSUME CredentialsInv, NEW r \in Req, Verify(r)
  PROVE  CredentialsInv'
<1> DEFINE stage == IF hash = None \/ Rejected(r) THEN "idle"
                    ELSE IF req[r].pw = hash THEN "right" ELSE "wrong"
           next == [req EXCEPT ![r].stage = stage, ![r].epoch = epoch,
                               ![r].pw = Idle.pw, ![r].status = Idle.status]
<1>0. /\ req \in [Req -> Request] /\ epoch \in 0..MaxEpoch
      /\ req[r].stage = "found"
      /\ UNCHANGED <<now, status, hash, failed, until, lapses, cache, autoAuth, epoch, overtaken>>
      /\ Moves(next)
  BY DEF CredentialsInv, TypeOK, Verify, passport, credential
<1>1. Idle.pw \in Password /\ Idle.status \in Status
  BY IdleTyped, Fields
<1>2. /\ next \in [Req -> Request]
      /\ next[r].stage = stage /\ next[r].epoch = epoch /\ next[r].saw = req[r].saw
      /\ \A x \in Req : x # r => next[x] = req[x]
  BY <1>0, <1>1 DEF Request, Stage
<1>3. stage \in {"right", "wrong"} => ~TimeLocked /\ req[r].saw = {"status", "time"}
  <2>1. SUFFICES ASSUME ~Rejected(r) PROVE ~TimeLocked /\ req[r].saw = {"status", "time"}
    OBVIOUS
  <2>2. ~TimeLocked /\ req[r].status # "locked"
    BY <2>1 DEF Rejected
  <2>3. OpenLocks \subseteq req[r].saw /\ "status" \in req[r].saw
    BY <1>0, <2>2 DEF CredentialsInv, LocksSeen
  <2>4. "time" \in OpenLocks
    BY <2>2 DEF OpenLocks
  <2>5. req[r].saw \subseteq {"status", "time"}
    BY <1>0, Fields
  <2> QED
    BY <2>2, <2>3, <2>4, <2>5
<1>4. stage \in {"idle", "right", "wrong"}
  OBVIOUS
<1> HIDE DEF stage, next
<1>5. \A x \in Req : Allowed(next[x]) /\ Proving(x, next[x])
  BY <1>0, <1>2, <1>3, <1>4, StillAllowed DEF Allowed, Proving, CredentialsInv, ProvedNow
<1>6. {x \in Req : next[x].stage = "wrong"} \subseteq Guessing \/ ~TimeLocked
  BY <1>2, <1>3 DEF Guessing
<1>7. /\ req' \in [Req -> Request]
      /\ LocksSeen' /\ NoLoginUnderStandingLock' /\ ProvedNow'
      /\ TimeLocked => Guessing' \subseteq Guessing
  BY <1>0, <1>2, <1>5, <1>6, MovesKeep
<1>8. GuessBudget'
  BY <1>0, <1>7, BudgetKept
<1>9. TypeOK' /\ RememberedIsProved'
  BY <1>0, <1>7 DEF CredentialsInv, TypeOK, RememberedIsProved
<1> QED
  BY <1>7, <1>8, <1>9 DEF CredentialsInv

\* A failure is counted: the one who guessed makes place for it.
LEMMA CountFailureKeeps ==
  ASSUME CredentialsInv, NEW r \in Req, CountFailure(r)
  PROVE  CredentialsInv'
<1>0. /\ req[r].stage = "wrong"
      /\ RecordPassportLoginFailure
      /\ UNCHANGED <<now, status, cache, autoAuth, epoch, overtaken>>
      /\ Goes(r, "idle")
  BY DEF CountFailure
<1>1. /\ now \in 0..MaxTime /\ failed \in Nat /\ lapses \in Nat /\ until \in 0..MaxTime + LockFor
      /\ now \in Nat /\ until \in Nat /\ req \in [Req -> Request]
  BY ConstantsTyped DEF CredentialsInv, TypeOK
<1>2. /\ req' \in [Req -> Request]
      /\ LocksSeen' /\ NoLoginUnderStandingLock' /\ ProvedNow'
  BY <1>0, EndsOrStays
<1>3. /\ Guessing' = Guessing \ {r}
      /\ r \in Guessing
      /\ Guessing \subseteq Req
  <2>1. ~Moves(req)
    <3>1. [req EXCEPT ![r].stage = "idle"] \in [Req -> Request]
      BY <1>1 DEF Request, Stage
    <3>2. [req EXCEPT ![r].stage = "idle"][r].stage = "idle"
      BY <1>1 DEF Request
    <3>3. req'[r].stage = "idle"
      BY <1>0, <3>1, <3>2, MovesOne DEF Goes
    <3> QED
      BY <1>0, <1>1, <3>3, MovesOne
  <2> QED
    BY <1>0, <2>1, EndsOrStays DEF Guessing
<1>4. /\ Cardinality(Guessing') = Cardinality(Guessing) - 1
      /\ Cardinality(Guessing) \in Nat /\ Cardinality(Guessing) <= Round /\ Round \in Nat
  BY <1>3, GuessingCounted, FS_RemoveElement
<1>5. Round * lapses \in Nat /\ (Round * lapses)' = Round * lapses
  BY <1>0, <1>1, RoundsTyped DEF RecordPassportLoginFailure, Round
<1>6. GuessBudget'
  <2> DEFINE R == Round * lapses
  <2>1. /\ TimeLocked => failed + Cardinality(Guessing) <= Limit - 1 + R + Round
        /\ ~TimeLocked => failed <= Limit - 1 + R
    BY DEF CredentialsInv, GuessBudget
  <2>2. Round' = Round
    BY DEF Round
  <2>3. R \in Nat /\ R' = R
    BY <1>5
  <2> HIDE DEF R
  <2>4. CASE hash = None
    <3>1. failed' = failed /\ TimeLocked' = TimeLocked
      BY <1>0, <2>4 DEF RecordPassportLoginFailure, TimeLocked
    <3>2. /\ TimeLocked' => failed' + Cardinality(Guessing') <= Limit - 1 + R' + Round'
          /\ ~TimeLocked' => failed' <= Limit - 1 + R'
      BY <1>1, <1>4, <2>1, <2>2, <2>3, <3>1, ConstantsTyped
    <3> QED
      BY <3>2 DEF GuessBudget, R
  <2>5. CASE hash # None /\ failed + 1 >= Limit
    <3>1. failed' = failed + 1 /\ until' = now + LockFor
      BY <1>0, <2>5 DEF RecordPassportLoginFailure
    <3>2. TimeLocked'
      BY <1>0, <1>1, <3>1, ConstantsTyped DEF TimeLocked
    <3>3. failed' + Cardinality(Guessing') <= Limit - 1 + R' + Round'
      BY <1>1, <1>4, <2>1, <2>2, <2>3, <3>1, ConstantsTyped
    <3> QED
      BY <3>2, <3>3 DEF GuessBudget, R
  <2>6. CASE hash # None /\ ~(failed + 1 >= Limit)
    <3>1. failed' = failed + 1 /\ TimeLocked' = TimeLocked
      BY <1>0, <2>6 DEF RecordPassportLoginFailure, TimeLocked
    <3>2. /\ TimeLocked' => failed' + Cardinality(Guessing') <= Limit - 1 + R' + Round'
          /\ ~TimeLocked' => failed' <= Limit - 1 + R'
      BY <1>1, <1>4, <2>1, <2>2, <2>3, <2>6, <3>1, ConstantsTyped
    <3> QED
      BY <3>2 DEF GuessBudget, R
  <2> QED
    BY <2>4, <2>5, <2>6
<1>7. TypeOK'
  <2>1. failed' \in Nat /\ until' \in 0..MaxTime + LockFor /\ UNCHANGED <<hash, lapses>>
    BY <1>0, <1>1, ConstantsTyped DEF RecordPassportLoginFailure
  <2> QED
    BY <1>0, <1>2, <2>1 DEF CredentialsInv, TypeOK
<1>8. RememberedIsProved'
  BY <1>0 DEF CredentialsInv, RememberedIsProved
<1> QED
  BY <1>2, <1>6, <1>7, <1>8 DEF CredentialsInv

LEMMA CountSuccessKeeps ==
  ASSUME CredentialsInv, NEW r \in Req, CountSuccess(r)
  PROVE  CredentialsInv'
<1> DEFINE stage == IF req[r].handler = "game" THEN "proved" ELSE "idle"
           next == [req EXCEPT ![r].stage = stage, ![r].saw = {}]
<1>0. /\ req \in [Req -> Request] /\ req[r].stage = "right"
      /\ RecordPassportLoginSuccess
      /\ UNCHANGED <<now, status, cache, autoAuth, epoch, overtaken>>
      /\ Moves(next)
  BY DEF CredentialsInv, TypeOK, CountSuccess
<1>1. /\ next \in [Req -> Request]
      /\ next[r].stage = stage /\ next[r].epoch = req[r].epoch
      /\ \A x \in Req : x # r => next[x] = req[x]
  BY <1>0 DEF Request, Stage
<1>2. stage \in {"proved", "idle"}
  OBVIOUS
<1> HIDE DEF stage, next
<1>3. \A x \in Req : Allowed(next[x]) /\ Proving(x, next[x])
  BY <1>0, <1>1, <1>2, StillAllowed DEF Allowed, Proving, CredentialsInv, ProvedNow
<1>4. /\ req' \in [Req -> Request]
      /\ LocksSeen' /\ NoLoginUnderStandingLock' /\ ProvedNow'
  BY <1>0, <1>1, <1>3, MovesKeep
<1>5. GuessBudget'
  BY <1>0, BudgetReset, ConstantsTyped DEF RecordPassportLoginSuccess, CredentialsInv, TypeOK
<1>6. TypeOK' /\ RememberedIsProved'
  BY <1>0, <1>4, ConstantsTyped
  DEF RecordPassportLoginSuccess, CredentialsInv, TypeOK, RememberedIsProved
<1> QED
  BY <1>4, <1>5, <1>6 DEF CredentialsInv

\* A request ends, and nothing but the remembered logins may change.
LEMMA EndKeeps ==
  ASSUME CredentialsInv, NEW r \in Req, Goes(r, "idle"),
         UNCHANGED <<now, status, hash, failed, until, lapses, autoAuth, epoch, overtaken>>,
         cache' \in [IP -> Entry], RememberedIsProved'
  PROVE  CredentialsInv'
<1>1. /\ req' \in [Req -> Request]
      /\ LocksSeen' /\ NoLoginUnderStandingLock' /\ ProvedNow'
      /\ Guessing' \subseteq Guessing
  BY EndsOrStays
<1>2. GuessBudget'
  BY <1>1, BudgetKept
<1>3. TypeOK'
  BY <1>1 DEF CredentialsInv, TypeOK
<1> QED
  BY <1>1, <1>2, <1>3 DEF CredentialsInv

LEMMA RememberKeeps ==
  ASSUME CredentialsInv, NEW r \in Req, Remember(r)
  PROVE  CredentialsInv'
<1> DEFINE row == [until |-> now + TTL, epoch |-> req[r].epoch, late |-> r \in overtaken]
<1>0. /\ req[r].stage = "proved" /\ req[r] \in Request
      /\ cache' = IF autoAuth /\ status # None THEN [cache EXCEPT ![req[r].ip] = row] ELSE cache
      /\ UNCHANGED <<now, status, hash, failed, until, lapses, autoAuth, epoch, overtaken>>
      /\ Goes(r, "idle")
      /\ now \in 0..MaxTime /\ cache \in [IP -> Entry]
  BY DEF Remember, CredentialsInv, TypeOK, passport, credential
<1>1. row \in Entry /\ row.epoch = req[r].epoch /\ row.late = (r \in overtaken)
  BY <1>0, Fields, ConstantsTyped DEF Entry
<1> HIDE DEF row
<1>2. cache' \in [IP -> Entry]
  BY <1>0, <1>1
<1>3. row.epoch = epoch \/ row.late
  BY <1>0, <1>1 DEF CredentialsInv, ProvedNow
<1>4. RememberedIsProved'
  BY <1>0, <1>3 DEF CredentialsInv, RememberedIsProved
<1> QED
  BY <1>0, <1>2, <1>4, EndKeeps

LEMMA NoEntryTyped ==
  /\ NoEntry \in Entry /\ NoEntry.until = 0
  /\ [i \in IP |-> NoEntry] \in [IP -> Entry]
  /\ \A i \in IP : [j \in IP |-> NoEntry][i].until = 0
BY ConstantsTyped DEF NoEntry, Entry

\* A password is set while nobody is remembered, and whoever was under way is
\* overtaken.
LEMMA SetCredentialKeeps ==
  ASSUME CredentialsInv, NEW r \in Req, NEW p \in Password, SetCredential(p), epoch < MaxEpoch,
         cache' \in [IP -> Entry], \A i \in IP : cache'[i].until = 0,
         NEW q \in Request, Moves([req EXCEPT ![r] = q]),
         q.stage = "idle" \/ (q.stage = "proved" /\ q.epoch = epoch'),
         overtaken' = InFlight \ {r},
         status' \in Status \cup {None}, UNCHANGED <<now, autoAuth>>
  PROVE  CredentialsInv'
<1> DEFINE next == [req EXCEPT ![r] = q]
<1>0. req \in [Req -> Request] /\ epoch \in 0..MaxEpoch /\ now \in Nat
  BY ConstantsTyped DEF CredentialsInv, TypeOK
<1>1. /\ next \in [Req -> Request]
      /\ next[r] = q
      /\ \A x \in Req : x # r => next[x] = req[x]
  BY <1>0
<1>2. \A x \in Req : Allowed(next[x])
  BY <1>1, StillAllowed DEF Allowed
<1>3. \A x \in Req : Proving(x, next[x])
  BY <1>1 DEF Proving, InFlight
<1> HIDE DEF next
<1>4. /\ req' \in [Req -> Request]
      /\ LocksSeen' /\ NoLoginUnderStandingLock' /\ ProvedNow'
  BY <1>1, <1>2, <1>3, MovesKeep DEF next
<1>5. GuessBudget'
  BY <1>0, BudgetReset DEF SetCredential
<1>6. RememberedIsProved' /\ cache' \in [IP -> Entry]
  BY DEF RememberedIsProved
<1>7. epoch' \in 0..MaxEpoch
  BY <1>0, ConstantsTyped DEF SetCredential
<1>8. TypeOK'
  BY <1>4, <1>6, <1>7, ConstantsTyped DEF SetCredential, CredentialsInv, TypeOK, InFlight
<1> QED
  BY <1>4, <1>5, <1>6, <1>8 DEF CredentialsInv

LEMMA UpdatePasswordKeeps ==
  ASSUME CredentialsInv, NEW r \in Req, UpdatePassword(r)
  PROVE  CredentialsInv'
<1>0. /\ req \in [Req -> Request] /\ req[r] \in Request /\ cache \in [IP -> Entry]
      /\ status \in Status \cup {None}
  BY DEF CredentialsInv, TypeOK
<1>1. CASE status = None
  <2>1. /\ Goes(r, "idle") /\ cache' = cache
        /\ UNCHANGED <<now, status, hash, failed, until, lapses, autoAuth, epoch, overtaken>>
    BY <1>1 DEF UpdatePassword, credential
  <2>2. RememberedIsProved'
    BY <2>1 DEF CredentialsInv, RememberedIsProved
  <2> QED
    BY <1>0, <2>1, <2>2, EndKeeps
<1>2. CASE status # None
  <2> DEFINE q == [req[r] EXCEPT !.stage = "idle"]
  <2>1. q \in Request /\ q.stage = "idle"
    BY <1>0 DEF Request, Stage
  <2>2. [req EXCEPT ![r].stage = "idle"] = [req EXCEPT ![r] = q]
    BY <1>0
  <2>3. Moves([req EXCEPT ![r] = q])
    BY <2>2 DEF UpdatePassword, Goes
  <2> HIDE DEF q
  <2>4. req[r].pw \in Password
    BY <1>0, Fields
  <2>5. SetPassword(req[r].pw) /\ epoch < MaxEpoch /\ overtaken' = InFlight \ {r}
        /\ UNCHANGED <<now, status, autoAuth>>
    BY <1>2 DEF UpdatePassword
  <2>6. /\ SetCredential(req[r].pw) /\ cache' \in [IP -> Entry]
        /\ \A i \in IP : cache'[i].until = 0
    BY <2>5, NoEntryTyped DEF SetPassword
  <2> QED
    BY <1>0, <2>1, <2>3, <2>4, <2>5, <2>6, SetCredentialKeeps
<1> QED
  BY <1>1, <1>2

LEMMA RegisterKeeps ==
  ASSUME CredentialsInv, NobodyRemembered, NEW r \in Req, NEW p \in Password, NEW i \in IP,
         NEW byPlayer \in BOOLEAN, Register(r, p, i, byPlayer)
  PROVE  CredentialsInv'
<1> DEFINE stage == IF byPlayer THEN "proved" ELSE "idle"
           q == [Idle EXCEPT !.handler = "game", !.stage = stage, !.ip = i, !.epoch = epoch']
<1>1. epoch' \in 0..MaxEpoch
  BY ConstantsTyped DEF Register, SetCredential, CredentialsInv, TypeOK
<1>2. stage \in Stage /\ stage \in {"idle", "proved"}
  BY DEF Stage
<1> HIDE DEF stage
<1>3. q \in Request /\ q.stage = stage /\ q.epoch = epoch'
  BY <1>1, <1>2, IdleTyped DEF Request, Handler
<1>4. /\ Moves([req EXCEPT ![r] = q]) /\ SetCredential(p) /\ epoch < MaxEpoch
      /\ overtaken' = InFlight \ {r} /\ status' = "active" /\ UNCHANGED <<now, autoAuth>>
  BY DEF Register, stage
<1> HIDE DEF q
<1>5. cache' \in [IP -> Entry] /\ \A a \in IP : cache'[a].until = 0
  BY DEF Register, NobodyRemembered, CredentialsInv, TypeOK
<1> QED
  BY <1>2, <1>3, <1>4, <1>5, SetCredentialKeeps DEF Status

LEMMA UsePortalAuthCacheKeeps ==
  ASSUME CredentialsInv, NEW r \in Req, NEW profileLocked \in BOOLEAN,
         UsePortalAuthCache(r, profileLocked)
  PROVE  CredentialsInv'
<1>0. /\ req \in [Req -> Request] /\ req[r] \in Request /\ req[r].stage = "found"
      /\ cache \in [IP -> Entry] /\ req[r].ip \in IP
      /\ UNCHANGED <<now, status, hash, failed, until, lapses, autoAuth, epoch, overtaken>>
  BY Fields DEF CredentialsInv, TypeOK, UsePortalAuthCache, passport, credential
<1>1. cache' \in {cache, [cache EXCEPT ![req[r].ip] = NoEntry]}
  BY DEF UsePortalAuthCache
<1>2. cache' \in [IP -> Entry] /\ RememberedIsProved'
  BY <1>0, <1>1, NoEntryTyped DEF CredentialsInv, RememberedIsProved
<1>3. CASE Goes(r, "idle")
  BY <1>0, <1>2, <1>3, EndKeeps
<1>4. CASE Goes(r, "told") /\ Tells(r, profileLocked)
  <2> DEFINE next == [req EXCEPT ![r].stage = "told"]
  <2>1. /\ next \in [Req -> Request]
        /\ next[r].stage = "told" /\ next[r].saw = req[r].saw
        /\ \A x \in Req : x # r => next[x] = req[x]
        /\ Moves(next)
    BY <1>0, <1>4 DEF Request, Stage, Goes
  <2>2. "status" \in req[r].saw
    BY <1>0, <1>4 DEF Tells, CredentialsInv, LocksSeen
  <2> HIDE DEF next
  <2>3. \A x \in Req : Allowed(next[x]) /\ Proving(x, next[x])
    BY <1>0, <2>1, <2>2, StillAllowed DEF Allowed, Proving, CredentialsInv, ProvedNow
  <2>4. {x \in Req : next[x].stage = "wrong"} \subseteq Guessing
    BY <2>1 DEF Guessing
  <2>5. /\ req' \in [Req -> Request]
        /\ LocksSeen' /\ NoLoginUnderStandingLock' /\ ProvedNow'
        /\ Guessing' \subseteq Guessing
    BY <2>1, <2>3, <2>4, MovesKeep
  <2>6. GuessBudget'
    BY <1>0, <2>5, BudgetKept
  <2>7. TypeOK'
    BY <1>0, <1>2, <2>5 DEF CredentialsInv, TypeOK
  <2> QED
    BY <1>2, <2>5, <2>6, <2>7 DEF CredentialsInv
<1> QED
  BY <1>3, <1>4 DEF UsePortalAuthCache

LEMMA SkipKeeps ==
  ASSUME CredentialsInv, NEW r \in Req, Skip(r)
  PROVE  CredentialsInv'
<1>1. /\ Goes(r, "idle") /\ cache' = cache
      /\ UNCHANGED <<now, status, hash, failed, until, lapses, autoAuth, epoch, overtaken>>
  BY DEF Skip, passport, credential
<1>2. RememberedIsProved' /\ cache' \in [IP -> Entry]
  BY <1>1 DEF CredentialsInv, TypeOK, RememberedIsProved
<1> QED
  BY <1>1, <1>2, EndKeeps

\* Requests stay where they are while something else changes.
LEMMA StayKeeps ==
  ASSUME CredentialsInv, Moves(req), UNCHANGED <<epoch, overtaken>>,
         GuessBudget' \/ UNCHANGED <<now, failed, until, lapses>>,
         (/\ now \in 0..MaxTime
          /\ status \in Status \cup {None}
          /\ hash \in Password \cup {None}
          /\ failed \in Nat
          /\ until \in 0..MaxTime + LockFor
          /\ cache \in [IP -> Entry]
          /\ autoAuth \in BOOLEAN
          /\ lapses \in Nat)',
         cache' = cache \/ \A i \in IP : cache'[i].until = 0
  PROVE  CredentialsInv'
<1>0. req \in [Req -> Request]
  BY DEF CredentialsInv, TypeOK
<1>1. \A x \in Req : Allowed(req[x]) /\ Proving(x, req[x])
  BY StillAllowed DEF Proving, CredentialsInv, ProvedNow
<1>2. /\ req' \in [Req -> Request]
      /\ LocksSeen' /\ NoLoginUnderStandingLock' /\ ProvedNow'
      /\ Guessing' = Guessing
  BY <1>0, <1>1, MovesKeep DEF Guessing
<1>3. GuessBudget'
  BY <1>2, BudgetKept
<1>4. RememberedIsProved'
  BY ConstantsTyped DEF CredentialsInv, RememberedIsProved
<1>5. TypeOK'
  BY <1>2 DEF CredentialsInv, TypeOK
<1> QED
  BY <1>2, <1>3, <1>4, <1>5 DEF CredentialsInv

LEMMA SetPassportStatusKeeps ==
  ASSUME CredentialsInv, NEW s \in Status, SetPassportStatus(s)
  PROVE  CredentialsInv'
BY StayKeeps DEF SetPassportStatus, credential, CredentialsInv, TypeOK

LEMMA DeletePassportKeeps ==
  ASSUME CredentialsInv, DeletePassport
  PROVE  CredentialsInv'
<1>1. GuessBudget'
  BY BudgetReset, ConstantsTyped DEF DeletePassport, CredentialsInv, TypeOK
<1>2. cache' \in [IP -> Entry] /\ \A i \in IP : cache'[i].until = 0
  BY NoEntryTyped DEF DeletePassport
<1> QED
  BY <1>1, <1>2, StayKeeps, ConstantsTyped DEF DeletePassport, CredentialsInv, TypeOK

LEMMA SetAutoAuthKeeps ==
  ASSUME CredentialsInv, SetAutoAuth
  PROVE  CredentialsInv'
<1>1. autoAuth' \in BOOLEAN
  BY DEF SetAutoAuth, CredentialsInv, TypeOK
<1>2. UNCHANGED <<now, status, hash, failed, until, lapses, cache, epoch, overtaken>> /\ Moves(req)
  BY DEF SetAutoAuth, passport, credential
<1> QED
  BY <1>1, <1>2, StayKeeps DEF CredentialsInv, TypeOK

\* The lock runs out: a lapse is counted, which pays for those who guess.
LEMMA TickKeeps ==
  ASSUME CredentialsInv, Tick
  PROVE  CredentialsInv'
<1>0. /\ now \in 0..MaxTime /\ until \in 0..MaxTime + LockFor
      /\ now \in Nat /\ until \in Nat /\ failed \in Nat /\ lapses \in Nat
      /\ now' = now + 1 /\ now < MaxTime
      /\ lapses' = IF until = now' THEN lapses + 1 ELSE lapses
      /\ UNCHANGED <<status, hash, failed, until, cache, autoAuth, epoch, overtaken>>
      /\ Moves(req) /\ req \in [Req -> Request]
  BY ConstantsTyped DEF Tick, CredentialsInv, TypeOK
<1>1. Guessing' = Guessing /\ Guessing \subseteq Req
  BY <1>0, MovesOne DEF Guessing
<1>2. Cardinality(Guessing) \in Nat /\ Round \in Nat /\ Round' = Round
  BY <1>1, GuessingCounted DEF Round
<1>3. GuessBudget'
  <2> DEFINE R == Round * lapses
             S == Round * (lapses + 1)
  <2>1. R \in Nat /\ S = R + Round
    BY <1>0, RoundsTyped
  <2>2. (Round * lapses)' = IF until = now' THEN S ELSE R
    BY <1>0, <1>2
  <2>3. /\ TimeLocked => failed + Cardinality(Guessing) <= Limit - 1 + R + Round
        /\ ~TimeLocked => failed <= Limit - 1 + R
    BY DEF CredentialsInv, GuessBudget
  <2> HIDE DEF R, S
  <2> DEFINE Q == (Round * lapses)'
  <2>4. Q = IF until = now' THEN S ELSE R
    BY <2>2
  <2> HIDE DEF Q
  <2>5. /\ until' > now' => failed' + Cardinality(Guessing') <= Limit - 1 + Q + Round'
        /\ ~(until' > now') => failed' <= Limit - 1 + Q
    BY <1>0, <1>1, <1>2, <2>1, <2>3, <2>4, ConstantsTyped DEF TimeLocked
  <2> QED
    BY <2>5 DEF GuessBudget, TimeLocked, Q
<1>4. now' \in 0..MaxTime /\ lapses' \in Nat
  BY <1>0, ConstantsTyped
<1> QED
  BY <1>0, <1>3, <1>4, StayKeeps DEF CredentialsInv, TypeOK

--------------------------------------------------------------------------------
(***************************************************************************)
(* The theorems.                                                           *)
(***************************************************************************)
LEMMA NobodyRememberedInit == Init => NobodyRemembered
BY NoEntryTyped DEF Init, NobodyRemembered

\* No action remembers a login while there is no passport.
LEMMA NobodyRememberedStep ==
  ASSUME TypeOK, NobodyRemembered, [Next]_vars
  PROVE  NobodyRemembered'
<1>1. CASE status' # None
  BY <1>1 DEF NobodyRemembered
<1>2. ASSUME status' = status, cache' = cache
      PROVE  NobodyRemembered'
  BY <1>2 DEF NobodyRemembered
<1>3. ASSUME status' = None, \A i \in IP : cache'[i].until = 0
      PROVE  NobodyRemembered'
  BY <1>3 DEF NobodyRemembered
<1>4. CASE UNCHANGED vars
  BY <1>2, <1>4 DEF vars
<1>5. ASSUME NEW r \in Req, NEW h, NEW p, NEW i, Login(r, h, p, i) \/ Resolve(r, i)
      PROVE  NobodyRemembered'
  BY <1>2, <1>5 DEF Login, Resolve, passport
<1>6. ASSUME NEW r \in Req, Verify(r) \/ CountFailure(r) \/ CountSuccess(r) \/ Skip(r)
      PROVE  NobodyRemembered'
  BY <1>2, <1>6 DEF Verify, CountFailure, CountSuccess, Skip, passport
<1>7. ASSUME NEW r \in Req, Remember(r), status' = None
      PROVE  NobodyRemembered'
  <2>1. status' = status
    BY <1>7 DEF Remember, passport
  <2> QED
    BY <1>2, <1>7, <2>1 DEF Remember
<1>8. ASSUME NEW r \in Req, NEW h, NEW old, NEW new, ChangePassword(r, h, old, new)
      PROVE  NobodyRemembered'
  BY <1>2, <1>8 DEF ChangePassword, passport, vars
<1>9. ASSUME NEW r \in Req, UpdatePassword(r), status' = None
      PROVE  NobodyRemembered'
  <2>1. status' = status
    BY <1>9 DEF UpdatePassword
  <2>2. cache' = cache
    BY <1>9, <2>1 DEF UpdatePassword
  <2> QED
    BY <1>2, <2>1, <2>2
<1>10. ASSUME NEW r \in Req, NEW profileLocked, UsePortalAuthCache(r, profileLocked), status' = None
       PROVE  NobodyRemembered'
  <2>1. status' = status
    BY <1>10 DEF UsePortalAuthCache, passport
  <2>2. cache' \in {cache, [cache EXCEPT ![req[r].ip] = NoEntry]}
    BY <1>10 DEF UsePortalAuthCache
  <2>3. cache \in [IP -> Entry] /\ \A i \in IP : cache[i].until = 0
    BY <1>10, <2>1 DEF TypeOK, NobodyRemembered
  <2>4. \A i \in IP : cache'[i].until = 0
    BY <2>2, <2>3, NoEntryTyped
  <2> QED
    BY <1>3, <1>10, <2>4
<1>11. ASSUME NEW r \in Req, NEW p, NEW i, NEW byPlayer, Register(r, p, i, byPlayer)
       PROVE  status' # None
  BY <1>11 DEF Register, None
<1>12. ASSUME NEW s \in Status, SetPassportStatus(s)
       PROVE  status' # None
  BY <1>12 DEF SetPassportStatus, Status, None
<1>13. CASE DeletePassport
  BY <1>13, <1>3, NoEntryTyped DEF DeletePassport
<1>14. CASE SetAutoAuth \/ Tick
  BY <1>2, <1>14 DEF SetAutoAuth, Tick, passport
<1> QED
  BY <1>1, <1>4, <1>5, <1>6, <1>7, <1>8, <1>9, <1>10, <1>11, <1>12, <1>13, <1>14 DEF Next

LEMMA CredentialsStep ==
  ASSUME CredentialsInv, NobodyRemembered, [Next]_vars
  PROVE  CredentialsInv'
<1>1. CASE UNCHANGED vars
  BY <1>1, StutterKeeps
<1>2. ASSUME NEW r \in Req, NEW h \in {"game", "portal"}, NEW p \in Password, NEW i \in IP,
             Login(r, h, p, i)
      PROVE  CredentialsInv'
  BY <1>2, LoginKeeps DEF Login, Handler
<1>3. ASSUME NEW r \in Req, NEW i \in IP, Resolve(r, i)
      PROVE  CredentialsInv'
  <2>1. Idle.pw \in Password /\ "resolve" \in Handler
    BY IdleTyped, Fields DEF Handler
  <2> QED
    BY <1>3, <2>1, LoginKeeps DEF Resolve
<1> QED
  BY <1>1, <1>2, <1>3, VerifyKeeps, CountFailureKeeps, CountSuccessKeeps, RememberKeeps,
     ChangePasswordKeeps, UpdatePasswordKeeps, RegisterKeeps, UsePortalAuthCacheKeeps,
     SkipKeeps, SetPassportStatusKeeps, DeletePassportKeeps, SetAutoAuthKeeps, TickKeeps
  DEF Next

LEMMA CredentialsInvariant == Spec => []CredentialsInv
<1>1. Init => CredentialsInv /\ NobodyRemembered
  BY CredentialsInit, NobodyRememberedInit
<1>2. CredentialsInv /\ NobodyRemembered /\ [Next]_vars => (CredentialsInv /\ NobodyRemembered)'
  BY CredentialsStep, NobodyRememberedStep DEF CredentialsInv
<1> QED
  BY <1>1, <1>2, PTL DEF Spec

\* The credential, the remembered logins and the requests keep their types.
THEOREM CredentialsTyped == Spec => []TypeOK
<1>1. CredentialsInv => TypeOK
  BY DEF CredentialsInv
<1> QED
  BY <1>1, CredentialsInvariant, PTL

\* handleNodeAuthenticatePlayer, handlePortalLogin: however many requests pass
\* the check of the lock before their failures are counted, the wrong guesses
\* between two correct passwords stay below the limit, and a round of requests
\* for each time the lock has run out.
THEOREM GuessesStayBounded == Spec => []GuessesBounded
<1>1. CredentialsInv => GuessesBounded
  <2> SUFFICES ASSUME CredentialsInv PROVE GuessesBounded
    OBVIOUS
  <2>1. failed \in Nat /\ lapses \in Nat
    BY DEF CredentialsInv, TypeOK
  <2>2. Cardinality(Guessing) \in Nat /\ Round \in Nat
    BY GuessingCounted DEF Guessing
  <2> DEFINE R == Round * lapses
  <2>3. R \in Nat /\ Round * (1 + lapses) = R + Round
    BY <2>1, RoundsTyped
  <2>4. failed + Cardinality(Guessing) <= Limit - 1 + R + Round \/ failed <= Limit - 1 + R
    BY DEF CredentialsInv, GuessBudget
  <2> HIDE DEF R
  <2>5. failed <= Limit - 1 + (R + Round)
    BY <2>1, <2>2, <2>3, <2>4, ConstantsTyped
  <2> QED
    BY <2>3, <2>5 DEF GuessesBounded, Round
<1> QED
  BY <1>1, CredentialsInvariant, PTL

\* The two locks, read one after the other: no password is verified, and no
\* login skipped, for a request during all of which a lock stood.
THEOREM StandingLockKeepsOut == Spec => []NoLoginUnderStandingLock
<1>1. CredentialsInv => NoLoginUnderStandingLock
  BY DEF CredentialsInv
<1> QED
  BY <1>1, CredentialsInvariant, PTL

\* rememberPortalAuthCache: what is remembered rests on the password there is,
\* but for a request that a change of the password overtook.
THEOREM RememberedRestsOnPassword == Spec => []RememberedIsProved
<1>1. CredentialsInv => RememberedIsProved
  BY DEF CredentialsInv
<1> QED
  BY <1>1, CredentialsInvariant, PTL

================================================================================
