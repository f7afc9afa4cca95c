--------------------------- MODULE MCCommitPoint ---------------------------
(* Small replica sets for TLC. *)
EXTENDS CommitPoint, TLC

CONSTANTS n1, n2, n3

Symmetry == Permutations(DataMember)
=============================================================================
