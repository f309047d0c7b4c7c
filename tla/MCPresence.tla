----------------------------- MODULE MCPresence -----------------------------
EXTENDS Presence, TLC
=============================================================================
