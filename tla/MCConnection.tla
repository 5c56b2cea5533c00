---------------------------- MODULE MCConnection ----------------------------
EXTENDS Connection
CONSTANT t1
=============================================================================
