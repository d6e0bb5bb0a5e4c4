---------------------------- MODULE MCRebootReason ----------------------------
EXTENDS RebootReason
=============================================================================
