---------------------------- MODULE MCNodeRegistry ----------------------------
(***************************************************************************)
(* Small instances of NodeRegistry, over either implementation.            *)
(***************************************************************************)
EXTENDS NodeRegistry, TLC

Symmetry == Permutations(Node) \cup Permutations(Token) \cup Permutations(Call)
              \cup Permutations(Instance) \cup Permutations(Server)

===============================================================================
