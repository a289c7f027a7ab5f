-------------------------- MODULE MCPlaybackControl --------------------------
(* A small instance of PlaybackControl for TLC. *)
EXTENDS PlaybackControl

\* A timed video the interface plays twice, one the player plays twice, and one pass more.
ShortList == <<[timed |-> TRUE, loops |-> 2], [timed |-> FALSE, loops |-> 2], [times |-> 2]>>

TwoFiles == {[loops |-> 2, timed |-> FALSE], [loops |-> 2, timed |-> TRUE]}

=============================================================================
