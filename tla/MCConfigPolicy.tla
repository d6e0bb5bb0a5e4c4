---------------------------- MODULE MCConfigPolicy ----------------------------
EXTENDS ConfigPolicy

MCValues == {"first", "second"}
=============================================================================
