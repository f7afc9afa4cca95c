------------------------ MODULE MCPrimaryTransition ------------------------
(* Small instances of PrimaryTransition for TLC. *)
EXTENDS PrimaryTransition
=============================================================================
