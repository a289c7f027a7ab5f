------------------------- MODULE MCSysPropOpsClient -------------------------
(* Small instances of SysPropOpsClient for TLC. *)
EXTENDS SysPropOpsClient, TLC

CONSTANTS t1, t2

Symmetry == Permutations(Threads)

=============================================================================
