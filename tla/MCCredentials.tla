---------------------------- MODULE MCCredentials ----------------------------
(***************************************************************************)
(* Small instances of Credentials.                                         *)
(***************************************************************************)
EXTENDS Credentials, TLC

CONSTANTS r1, r2, p1, p2, i1

Requests == {r1, r2}
Passwords == {p1, p2}
Addresses == {i1}
RequestsAlike == Permutations(Requests)

===============================================================================
