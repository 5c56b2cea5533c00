---------------------------- MODULE MCWorkQueue ----------------------------
EXTENDS WorkQueue
CONSTANT r1
=============================================================================
