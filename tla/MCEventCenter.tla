--------------------------- MODULE MCEventCenter ---------------------------
(* Small instances of EventCenter for TLC. *)
EXTENDS EventCenter

CONSTANTS t1, t2

BackAndForth == {-2, 1}

=============================================================================
