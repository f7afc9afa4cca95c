----------------------------- MODULE MCElection -----------------------------
(* Small instances of Election for TLC. *)
EXTENDS Election, TLC

DataNodes == Node \ Arbiter
Symmetry == Permutations(DataNodes)

=============================================================================
