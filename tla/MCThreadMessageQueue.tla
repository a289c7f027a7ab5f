------------------------ MODULE MCThreadMessageQueue ------------------------
(* Instances of ThreadMessageQueue for TLC. *)
EXTENDS ThreadMessageQueue, TLC

\* Sound for the safety runs: nothing distinguishes two senders, receivers or items.
Symmetry == Permutations(Senders) \cup Permutations(Receivers) \cup Permutations(Items)

=============================================================================
