---------------------------- MODULE MCSelfUpdate ----------------------------
EXTENDS SelfUpdate, TLC
=============================================================================
