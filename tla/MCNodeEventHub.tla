---------------------------- MODULE MCNodeEventHub ----------------------------
(***************************************************************************)
(* A small instance of NodeEventHub: one node with two connections, and    *)
(* one with a single connection that may answer out of turn.               *)
(***************************************************************************)
EXTENDS NodeEventHub, TLC

CONSTANTS n1, n2, c1, c2, c3, r1

TwoNodes == {n1, n2}
ThreeConns == {c1, c2, c3}
ThreeConnsOf == (c1 :> n1) @@ (c2 :> n1) @@ (c3 :> n2)
OneRequest == {r1}
OneAskedOf == (r1 :> n1)

===============================================================================
