----------------------------- MODULE MCNodeAccess -----------------------------
(***************************************************************************)
(* Small instances of NodeAccess: one heartbeat loop, or two heartbeats    *)
(* that overlap, and one connection.                                       *)
(***************************************************************************)
EXTENDS NodeAccess, TLC

CONSTANTS b1, b2, p1

TwoBeats == {b1, b2}
OneBeat == {b1}
OnePlayer == {p1}

===============================================================================
