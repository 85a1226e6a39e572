-------------------------- MODULE MCSessionPersistence --------------------------
EXTENDS SessionPersistence

MCPanes == 1 .. 2
=============================================================================
