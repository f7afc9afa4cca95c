------------------------ MODULE MCDeadlockDetector ------------------------
(* Instances of DeadlockDetector for TLC. *)
EXTENDS DeadlockDetector, TLC

CONSTANTS l1, l2, l3, p1, p2

(* Two lockers share a partition, the third has its own. *)
SharedPartition == (l1 :> p1) @@ (l2 :> p1) @@ (l3 :> p2)
=============================================================================
