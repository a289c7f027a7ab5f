-------------------------- MODULE MCVideoSyncRoles --------------------------
(* A small instance of VideoSyncRoles for TLC. *)
EXTENDS VideoSyncRoles

CONSTANTS d1, d2, d3

\* The players are alike: of the initial states that differ by their names, take one.
Rank(mode) == CASE mode = "MASTER" -> 1 [] mode = "SLAVE" -> 2 [] mode = "DISABLED" -> 3
MCInit ==
    /\ Init
    /\ Rank(m_eVideoSyncMode[d1]) <= Rank(m_eVideoSyncMode[d2])
    /\ d3 \in Devices => Rank(m_eVideoSyncMode[d2]) <= Rank(m_eVideoSyncMode[d3])

MCSpec == MCInit /\ [][Next]_vars /\ Fairness
=============================================================================
