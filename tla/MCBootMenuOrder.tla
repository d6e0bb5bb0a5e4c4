--------------------------- MODULE MCBootMenuOrder ---------------------------
EXTENDS BootMenuOrder
=============================================================================
