----------------------------- MODULE MCAltScreenRead ----------------------------
EXTENDS AltScreenRead
=============================================================================
