--------------------------- MODULE MCAccountStatus ---------------------------
EXTENDS AccountStatus
=============================================================================
