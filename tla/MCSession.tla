------------------------------ MODULE MCSession ------------------------------
EXTENDS Session
=============================================================================
