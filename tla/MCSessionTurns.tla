--------------------------- MODULE MCSessionTurns ---------------------------
EXTENDS SessionTurns
=============================================================================
