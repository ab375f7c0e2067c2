--------------------------- MODULE MCRuntimeManager ---------------------------
(***************************************************************************)
(* Small instances of RuntimeManager: two releases, one administrator, one *)
(* or two threads that apply syncs.                                        *)
(***************************************************************************)
EXTENDS RuntimeManager, TLC

CONSTANTS r1, r2, t1, t2, l1, a1

TwoReleases == {r1, r2}
OneAdmin == {a1}
OneThread == {t1}
TwoThreads == {t1, t2}
OneLogin == {l1}
NoLogin == {}

Symmetry == Permutations(TwoReleases)

===============================================================================
