------------------------------ MODULE MCProfiles ------------------------------
(***************************************************************************)
(* Small instances of Profiles.                                            *)
(***************************************************************************)
EXTENDS Profiles, TLC

CONSTANTS p1, p2, f1, f2, n1, n2, r1, r2

Passports == {p1, p2}
ProfileIds == {f1, f2}
Names == {n1, n2}
Requests == {r1, r2}
Alike == Permutations(Passports) \cup Permutations(ProfileIds)
            \cup Permutations(Names) \cup Permutations(Requests)

===============================================================================
