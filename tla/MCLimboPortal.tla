---------------------------- MODULE MCLimboPortal ----------------------------
(***************************************************************************)
(* Small instances of LimboPortal: one connection, or two of one key.      *)
(***************************************************************************)
EXTENDS LimboPortal

CONSTANTS c1, c2

OneConn == {c1}
TwoConns == {c1, c2}

==============================================================================
