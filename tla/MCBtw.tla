------------------------------- MODULE MCBtw -------------------------------
EXTENDS Btw
=============================================================================
