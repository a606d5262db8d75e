--------------------------- MODULE MCSwarmRecovery ---------------------------
EXTENDS SwarmRecovery
=============================================================================
