--------------------------- MODULE MCResultChunks ---------------------------
EXTENDS ResultChunks
=============================================================================
