--------------------------- MODULE MCSessionQueue ---------------------------
EXTENDS SessionQueue
=============================================================================
