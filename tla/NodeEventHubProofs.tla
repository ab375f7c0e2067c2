-------------------------- MODULE NodeEventHubProofs --------------------------
(***************************************************************************)
(* The safety of the hub for any number of nodes, connections and          *)
(* requests and any channel capacity.                                      *)
(*                                                                         *)
(* The three safety properties are not inductive without the types and     *)
(* ReaderOfNodeAsked: a reader that has looked up a channel delivers into  *)
(* it later, when the entry may be gone.                                   *)
(***************************************************************************)
EXTENDS NodeEventHub, SequenceTheorems, TLAPS

\* A reader that looked a channel up belongs to the node that was asked.
ReaderOfNodeAsked ==
    \A c \in Conn : reader[c] # Idle => AskedOf[reader[c]] = NodeOf[c]

HubInv ==
    /\ TypeOK
    /\ ReaderOfNodeAsked
    /\ ClientsAreOpen
    /\ AnsweredByNodeAsked
    /\ PendingIsAwaited

\* The hub starts empty.
LEMMA HubInit == Init => HubInv
<1> SUFFICES ASSUME Init PROVE HubInv
  OBVIOUS
<1>1. send \in [Conn -> Seq(Request \cup {Sync})] /\ \A c \in Conn : Len(send[c]) <= Cap
  BY HubAssumption, EmptySeq DEF Init
<1> QED
  BY <1>1, HubAssumption
     DEF Init, HubInv, TypeOK, ReaderOfNodeAsked, ClientsAreOpen,
         AnsweredByNodeAsked, PendingIsAwaited, Place, Wait, Nobody, Idle

\* Push keeps every channel typed and within its capacity.
LEMMA PushTyped ==
  ASSUME TypeOK, NEW n \in Node, NEW m \in Request \cup {Sync}, Push(n, m)
  PROVE  /\ send' \in [Conn -> Seq(Request \cup {Sync})]
         /\ \A c \in Conn : Len(send'[c]) <= Cap
<1> DEFINE after(c) == IF c \in Reachable(n) THEN Append(send[c], m) ELSE send[c]
<1>1. ASSUME NEW c \in Conn
      PROVE  after(c) \in Seq(Request \cup {Sync}) /\ Len(after(c)) <= Cap
  <2>1. send[c] \in Seq(Request \cup {Sync}) /\ Len(send[c]) <= Cap
    BY DEF TypeOK
  <2>2. CASE c \in Reachable(n)
    <3>1. Len(send[c]) < Cap /\ Len(send[c]) \in Nat /\ Cap \in Nat
      BY <2>1, <2>2, HubAssumption, LenProperties DEF Reachable, HasRoom
    <3>2. /\ Append(send[c], m) \in Seq(Request \cup {Sync})
          /\ Len(Append(send[c], m)) = Len(send[c]) + 1
      BY <2>1, AppendProperties
    <3> QED
      BY <2>2, <3>1, <3>2
  <2> QED
    BY <2>1, <2>2
<1>2. send' = [c \in Conn |-> after(c)]
  BY DEF Push
<1> HIDE DEF after
<1> QED
  BY <1>1, <1>2

\* The connection's own goroutine keeps the invariant.
LEMMA ServeStep ==
  ASSUME HubInv, NEW c \in Conn,
         Register(c) \/ FirstSync(c) \/ Write(c) \/ Cut(c) \/ LeaveLoop(c)
           \/ Remove(c) \/ Close(c)
  PROVE  HubInv'
<1> USE DEF HubInv
<1>1. CASE Register(c) \/ Cut(c) \/ LeaveLoop(c) \/ Remove(c) \/ Close(c)
  <2>1. TypeOK'
    BY <1>1 DEF Register, Cut, LeaveLoop, Remove, Close, TypeOK, Place
  <2>2. ClientsAreOpen'
    BY <1>1 DEF Register, Cut, LeaveLoop, Remove, Close, TypeOK, ClientsAreOpen
  <2> QED
    BY <1>1, <2>1, <2>2 DEF Register, Cut, LeaveLoop, Remove, Close,
       ReaderOfNodeAsked, AnsweredByNodeAsked, PendingIsAwaited
<1>2. CASE FirstSync(c)
  <2>1. send[c] \in Seq(Request \cup {Sync}) /\ Len(send[c]) < Cap
    BY <1>2 DEF FirstSync, HasRoom, TypeOK
  <2>2. /\ Append(send[c], Sync) \in Seq(Request \cup {Sync})
        /\ Len(Append(send[c], Sync)) <= Cap
    BY <2>1, HubAssumption, AppendProperties, LenProperties
  <2>3. TypeOK'
    BY <1>2, <2>2 DEF FirstSync, TypeOK, Place
  <2> QED
    BY <1>2, <2>3 DEF FirstSync, TypeOK, ClientsAreOpen, ReaderOfNodeAsked,
       AnsweredByNodeAsked, PendingIsAwaited
<1>3. CASE Write(c)
  <2>1. send[c] \in Seq(Request \cup {Sync}) /\ Len(send[c]) <= Cap /\ send[c] # << >>
    BY <1>3 DEF Write, TypeOK
  <2>2. /\ Tail(send[c]) \in Seq(Request \cup {Sync})
        /\ Len(Tail(send[c])) <= Cap
    BY <2>1, HubAssumption, HeadTailProperties, LenProperties, EmptySeq
  <2>3. TypeOK'
    BY <1>3, <2>2 DEF Write, TypeOK
  <2> QED
    BY <1>3, <2>3 DEF Write, ClientsAreOpen, ReaderOfNodeAsked,
       AnsweredByNodeAsked, PendingIsAwaited
<1> QED
  BY <1>1, <1>2, <1>3

\* Readers: the answer goes to the request whose channel was looked up.
LEMMA ReaderStep ==
  ASSUME HubInv, NEW c \in Conn,
         (\E r \in Request : LookUp(c, r)) \/ Resolve(c)
  PROVE  HubInv'
<1> USE DEF HubInv
<1>1. ASSUME NEW r \in Request, LookUp(c, r)
      PROVE  HubInv'
  BY <1>1, HubAssumption DEF LookUp, Found, TypeOK, ReaderOfNodeAsked, ClientsAreOpen,
     AnsweredByNodeAsked, PendingIsAwaited, Idle
<1>2. CASE Resolve(c)
  <2>1. reader[c] \in Request /\ AskedOf[reader[c]] = NodeOf[c]
    BY <1>2 DEF Resolve, TypeOK, ReaderOfNodeAsked
  <2>2. TypeOK'
    BY <1>2, <2>1, HubAssumption DEF Resolve, TypeOK
  <2>3. AnsweredByNodeAsked'
    BY <1>2, <2>1, HubAssumption DEF Resolve, TypeOK, AnsweredByNodeAsked, Nobody
  <2> QED
    BY <1>2, <2>2, <2>3 DEF Resolve, TypeOK, ReaderOfNodeAsked, ClientsAreOpen,
       PendingIsAwaited
<1> QED
  BY <1>1, <1>2

\* Handlers of Core: pushes, and requests from the first lock to the last.
LEMMA HandlerStep ==
  ASSUME HubInv,
         \/ \E n \in Node : Broadcast(n)
         \/ \E r \in Request : Ask(r) \/ TakeAnswer(r) \/ GiveUp(r) \/ Forget(r)
  PROVE  HubInv'
<1> USE DEF HubInv
<1>1. ASSUME NEW n \in Node, Broadcast(n)
      PROVE  HubInv'
  <2>1. TypeOK'
    BY <1>1, PushTyped DEF Broadcast, TypeOK
  <2> QED
    BY <1>1, <2>1 DEF Broadcast, ClientsAreOpen, ReaderOfNodeAsked,
       AnsweredByNodeAsked, PendingIsAwaited
<1>2. ASSUME NEW r \in Request, Ask(r)
      PROVE  HubInv'
  <2>1. AskedOf[r] \in Node
    BY HubAssumption
  <2>2. TypeOK'
    BY <1>2, <2>1, PushTyped DEF Ask, TypeOK, Wait
  <2>3. PendingIsAwaited'
    BY <1>2 DEF Ask, TypeOK, PendingIsAwaited
  <2>4. AnsweredByNodeAsked'
    BY <1>2 DEF Ask, TypeOK, AnsweredByNodeAsked
  <2> QED
    BY <1>2, <2>2, <2>3, <2>4 DEF Ask, ClientsAreOpen, ReaderOfNodeAsked
<1>3. ASSUME NEW r \in Request, TakeAnswer(r) \/ GiveUp(r) \/ Forget(r)
      PROVE  HubInv'
  <2>1. TypeOK'
    BY <1>3 DEF TakeAnswer, GiveUp, Forget, TypeOK, Wait
  <2>2. PendingIsAwaited'
    BY <1>3 DEF TakeAnswer, GiveUp, Forget, TypeOK, PendingIsAwaited
  <2>3. AnsweredByNodeAsked'
    BY <1>3 DEF TakeAnswer, GiveUp, Forget, TypeOK, AnsweredByNodeAsked
  <2> QED
    BY <1>3, <2>1, <2>2, <2>3 DEF TakeAnswer, GiveUp, Forget, ClientsAreOpen,
       ReaderOfNodeAsked
<1> QED
  BY <1>1, <1>2, <1>3

\* No step of the hub breaks the invariant.
LEMMA HubStep == HubInv /\ [Next]_vars => HubInv'
<1> SUFFICES ASSUME HubInv, [Next]_vars PROVE HubInv'
  OBVIOUS
<1>1. CASE UNCHANGED vars
  BY <1>1 DEF vars, HubInv, TypeOK, ReaderOfNodeAsked, ClientsAreOpen,
     AnsweredByNodeAsked, PendingIsAwaited
<1>2. CASE Next
  BY <1>2, ServeStep, ReaderStep, HandlerStep DEF Next
<1> QED
  BY <1>1, <1>2

\* The invariant holds throughout.
LEMMA HubInvariance == Spec => []HubInv
BY HubInit, HubStep, PTL DEF Spec

\* register, broadcast, request and unregister: whatever they do to it, the hub
\* stays well formed, and no channel holds more than its capacity.
THEOREM HubTyped == Spec => []TypeOK
<1>1. HubInv => TypeOK
  BY DEF HubInv
<1> QED
  BY <1>1, HubInvariance, PTL

\* unregister against broadcast and request: no push ever meets the closed
\* channel of a connection that is gone.
THEOREM PushesMeetOpenChannels == Spec => []ClientsAreOpen
<1>1. HubInv => ClientsAreOpen
  BY DEF HubInv
<1> QED
  BY <1>1, HubInvariance, PTL

\* resolve and nodeEventRequestKey: no caller gets the answer of a node it did
\* not ask.
THEOREM AnswersComeFromNodeAsked == Spec => []AnsweredByNodeAsked
<1>1. HubInv => AnsweredByNodeAsked
  BY DEF HubInv
<1> QED
  BY <1>1, HubInvariance, PTL

\* request: no entry of pending outlives its request, on any way out.
THEOREM NoEntryLeftBehind == Spec => []PendingIsAwaited
<1>1. HubInv => PendingIsAwaited
  BY DEF HubInv
<1> QED
  BY <1>1, HubInvariance, PTL

--------------------------------------------------------------------------------
(***************************************************************************)
(* The hub implements NodeQuestions.  Of all steps only those of the       *)
(* caller decide anything: a reader that delivers late, into a channel     *)
(* whose caller has left the select, finds an answer there or changes what *)
(* nobody reads.                                                           *)
(***************************************************************************)
outcomes == [r \in Request |-> OutcomeOf(r)]

answerers == [r \in Request |-> AnswererOf(r)]

\* No request has been made.
LEMMA QuestionsInit == Init => Questions!Init
BY DEF Init, Questions!Init, OutcomeOf, AnswererOf

\* A step that leaves outcomes and answerers alone is a stutter.
LEMMA QuestionsStutter ==
  ASSUME \A r \in Request : OutcomeOf(r)' = OutcomeOf(r) /\ AnswererOf(r)' = AnswererOf(r)
  PROVE  UNCHANGED Questions!questions
BY DEF Questions!questions

\* A delivery changes the channel of a request only while it is empty, and
\* a caller that took an answer found it full.
LEMMA ResolveStutters ==
  ASSUME HubInv, NEW c \in Conn, Resolve(c)
  PROVE  UNCHANGED Questions!questions
<1>1. reader[c] \in Request /\ caller' = caller
  BY DEF Resolve, HubInv, TypeOK
<1>2. ASSUME NEW r \in Request
      PROVE  OutcomeOf(r)' = OutcomeOf(r) /\ AnswererOf(r)' = AnswererOf(r)
  <2>1. OutcomeOf(r)' = OutcomeOf(r)
    BY <1>1 DEF OutcomeOf
  <2>2. CASE answer[r] = Nobody
    <3>1. caller[r] \in Wait /\ caller[r] \notin {"taken", "answered"}
      BY <2>2, HubAssumption DEF HubInv, TypeOK, AnsweredByNodeAsked, Nobody
    <3>2. OutcomeOf(r) # "answered"
      BY <3>1 DEF OutcomeOf, Wait
    <3> QED
      BY <2>1, <3>2 DEF AnswererOf
  <2>3. CASE answer[r] # Nobody
    <3>1. answer'[r] = answer[r]
      BY <1>1, <2>3 DEF Resolve, HubInv, TypeOK
    <3> QED
      BY <2>1, <3>1 DEF AnswererOf
  <2> QED
    BY <2>2, <2>3
<1> QED
  BY <1>2, QuestionsStutter

\* The step of one caller, with the outcome and the answerer of its request.
LEMMA CallerMoves ==
  ASSUME HubInv, NEW r \in Request, NEW w \in Wait,
         caller' = [caller EXCEPT ![r] = w], answer' = answer
  PROVE  /\ caller'[r] = w
         /\ \A o \in Request : o # r =>
               OutcomeOf(o)' = OutcomeOf(o) /\ AnswererOf(o)' = AnswererOf(o)
         /\ outcomes' = [outcomes EXCEPT ![r] = OutcomeOf(r)']
         /\ answerers' = [answerers EXCEPT ![r] = AnswererOf(r)']
<1>1. /\ caller'[r] = w
      /\ \A o \in Request : o # r => caller'[o] = caller[o]
  BY DEF HubInv, TypeOK
<1>2. \A o \in Request : o # r =>
         OutcomeOf(o)' = OutcomeOf(o) /\ AnswererOf(o)' = AnswererOf(o)
  BY <1>1 DEF OutcomeOf, AnswererOf
<1>3. outcomes' = [outcomes EXCEPT ![r] = OutcomeOf(r)']
  BY <1>2 DEF outcomes
<1>4. answerers' = [answerers EXCEPT ![r] = AnswererOf(r)']
  BY <1>2 DEF answerers
<1> QED
  BY <1>1, <1>2, <1>3, <1>4

\* Nothing but Ask, TakeAnswer and GiveUp decides anything.
LEMMA CallerStep ==
  ASSUME HubInv, NEW r \in Request,
         Ask(r) \/ TakeAnswer(r) \/ GiveUp(r) \/ Forget(r)
  PROVE  [Questions!Next]_(Questions!questions)
<1>0. caller[r] \in Wait
  BY DEF HubInv, TypeOK
<1>1. PICK w \in Wait : caller' = [caller EXCEPT ![r] = w] /\ answer' = answer
  BY <1>0 DEF Ask, TakeAnswer, GiveUp, Forget, Wait
<1>2. /\ caller'[r] = w
      /\ \A o \in Request : o # r =>
            OutcomeOf(o)' = OutcomeOf(o) /\ AnswererOf(o)' = AnswererOf(o)
      /\ outcomes' = [outcomes EXCEPT ![r] = OutcomeOf(r)']
      /\ answerers' = [answerers EXCEPT ![r] = AnswererOf(r)']
  BY <1>1, CallerMoves
<1>3. CASE Ask(r)
  <2>1. OutcomeOf(r) = "none" /\ OutcomeOf(r)' \in {"open", "failed"}
    BY <1>2, <1>3, <1>1 DEF Ask, OutcomeOf, HubInv, TypeOK
  <2>2. AnswererOf(r) = Nobody /\ AnswererOf(r)' = Nobody
    BY <2>1 DEF AnswererOf
  <2>3. UNCHANGED answerers
    BY <1>2, <2>2 DEF answerers
  <2>4. Questions!Put(r) \/ Questions!Fail(r)
    BY <1>2, <2>1, <2>3 DEF Questions!Put, Questions!Fail, outcomes, answerers
  <2> QED
    BY <2>4 DEF Questions!Next
<1>4. CASE TakeAnswer(r)
  <2>1. OutcomeOf(r) = "open" /\ OutcomeOf(r)' = "answered"
    BY <1>2, <1>4, <1>1 DEF TakeAnswer, OutcomeOf, HubInv, TypeOK
  <2>2. answer[r] = AskedOf[r]
    BY <1>4 DEF TakeAnswer, HubInv, AnsweredByNodeAsked
  <2>3. AnswererOf(r)' = AskedOf[r]
    BY <1>1, <2>1, <2>2 DEF AnswererOf
  <2>4. Questions!Answer(r)
    BY <1>2, <2>1, <2>3 DEF Questions!Answer, outcomes, answerers
  <2> QED
    BY <2>4 DEF Questions!Next
<1>5. CASE GiveUp(r)
  <2>1. OutcomeOf(r) = "open" /\ OutcomeOf(r)' = "failed"
    BY <1>2, <1>5, <1>1 DEF GiveUp, OutcomeOf, HubInv, TypeOK
  <2>2. AnswererOf(r) = Nobody /\ AnswererOf(r)' = Nobody
    BY <2>1 DEF AnswererOf
  <2>3. UNCHANGED answerers
    BY <1>2, <2>2 DEF answerers
  <2>4. Questions!Fail(r)
    BY <1>2, <2>1, <2>3 DEF Questions!Fail, outcomes, answerers
  <2> QED
    BY <2>4 DEF Questions!Next
<1>6. CASE Forget(r)
  <2>1. OutcomeOf(r)' = OutcomeOf(r)
    BY <1>2, <1>6, <1>1 DEF Forget, OutcomeOf, HubInv, TypeOK
  <2>2. AnswererOf(r)' = AnswererOf(r)
    BY <1>1, <2>1 DEF AnswererOf
  <2> QED
    BY <1>2, <2>1, <2>2, QuestionsStutter
<1> QED
  BY <1>3, <1>4, <1>5, <1>6

\* Every other step of the hub leaves callers and answers alone.
LEMMA QuestionsStep == HubInv /\ [Next]_vars => [Questions!Next]_(Questions!questions)
<1> SUFFICES ASSUME HubInv, [Next]_vars PROVE [Questions!Next]_(Questions!questions)
  OBVIOUS
<1>1. CASE UNCHANGED <<answer, caller>>
  <2>1. \A r \in Request : OutcomeOf(r)' = OutcomeOf(r) /\ AnswererOf(r)' = AnswererOf(r)
    BY <1>1 DEF OutcomeOf, AnswererOf
  <2> QED
    BY <2>1, QuestionsStutter
<1>2. CASE \E c \in Conn : Resolve(c)
  BY <1>2, ResolveStutters
<1>3. CASE \E r \in Request : Ask(r) \/ TakeAnswer(r) \/ GiveUp(r) \/ Forget(r)
  BY <1>3, CallerStep
<1> QED
  BY <1>1, <1>2, <1>3 DEF Next, vars, Register, FirstSync, Write, Cut, LeaveLoop,
     Remove, Close, LookUp, Broadcast

\* request and resolve: the hub implements NodeQuestions, so that a question is
\* decided once, by the node that was asked, and stays decided.
THEOREM QuestionsImplemented == Spec => ImplementsQuestions
<1> QED
  BY QuestionsInit, QuestionsStep, HubInvariance, PTL
     DEF Spec, ImplementsQuestions, Questions!Spec

===============================================================================
