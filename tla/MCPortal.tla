------------------------------- MODULE MCPortal -------------------------------
(***************************************************************************)
(* Small instances of Portal.                                              *)
(***************************************************************************)
EXTENDS Portal, TLC

CONSTANTS r1, r2, f1, f2, l1, s1

Requests == {r1, r2}
Profiles == {f1, f2}
Links == {l1}
Sessions == {s1}

Alike == Permutations(Requests) \cup Permutations(Profiles)

===============================================================================
