--------------------------- MODULE MCSysPropStore ---------------------------
(* Instances of SysPropStore for TLC. *)
EXTENDS SysPropStore, TLC

\* Sound for the safety runs: keys, and values, are only compared for equality.
Symmetry == Permutations(Keys) \cup Permutations(Values)

=============================================================================
