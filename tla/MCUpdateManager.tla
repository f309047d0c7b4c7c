-------------------------- MODULE MCUpdateManager --------------------------
EXTENDS UpdateManager, TLC
=============================================================================
