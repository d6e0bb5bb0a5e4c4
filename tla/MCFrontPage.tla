------------------------------ MODULE MCFrontPage ------------------------------
EXTENDS FrontPageSession

MCPasswords == {"pw1", "pw2"}
=============================================================================
