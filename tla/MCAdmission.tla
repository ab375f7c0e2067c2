----------------------------- MODULE MCAdmission -----------------------------
(***************************************************************************)
(* Small instances of Admission.  One gate per server, as the registry     *)
(* keeps it; the sets of grants, sessions, requests and bans bound a run.  *)
(***************************************************************************)
EXTENDS Admission, TLC

CONSTANTS n1, n2, srv1, srv2

OneGate == {n1}
OneServer == {srv1}
OneServerOf == [n \in OneGate |-> srv1]

TwoGates == {n1, n2}
TwoServers == {srv1, srv2}
TwoServersOf == (n1 :> srv1) @@ (n2 :> srv2)

Symmetry == Permutations(Grant) \cup Permutations(Presence)
              \cup Permutations(Session) \cup Permutations(Req)

==============================================================================
