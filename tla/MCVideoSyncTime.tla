--------------------------- MODULE MCVideoSyncTime ---------------------------
EXTENDS VideoSyncTime
=============================================================================
