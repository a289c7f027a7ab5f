----------------------------- MODULE MCMediaSrv -----------------------------
(* Instances of MediaSrv for TLC. *)
EXTENDS MediaSrv, TLC

\* Sound for the safety runs: sources are only compared for equality.
Symmetry == Permutations(Urls)

=============================================================================
