---------------------------- MODULE NodeQuestions ----------------------------
(***************************************************************************)
(* What the hub promises the handlers of Core that ask a node, without     *)
(* connections, channels or readers: a question is put once or refused at  *)
(* once, and decided once; it is answered by the node that was asked; a    *)
(* question that was given up is never answered, and an answer that was    *)
(* given stays as it is.                                                   *)
(***************************************************************************)
CONSTANTS Request, AskedOf, Nobody

VARIABLES outcome, by

questions == <<outcome, by>>

Init ==
    /\ outcome = [r \in Request |-> "none"]
    /\ by = [r \in Request |-> Nobody]

Put(r) ==
    /\ outcome[r] = "none"
    /\ outcome' = [outcome EXCEPT ![r] = "open"]
    /\ UNCHANGED by

Answer(r) ==
    /\ outcome[r] = "open"
    /\ outcome' = [outcome EXCEPT ![r] = "answered"]
    /\ by' = [by EXCEPT ![r] = AskedOf[r]]

\* Nobody could be asked, or nobody answered in time.
Fail(r) ==
    /\ outcome[r] \in {"none", "open"}
    /\ outcome' = [outcome EXCEPT ![r] = "failed"]
    /\ UNCHANGED by

Next == \E r \in Request : Put(r) \/ Answer(r) \/ Fail(r)

Spec == Init /\ [][Next]_questions

===============================================================================
