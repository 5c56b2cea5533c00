------------------------------ MODULE MCThread ------------------------------
EXTENDS Thread
=============================================================================
