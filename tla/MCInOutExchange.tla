--------------------------- MODULE MCInOutExchange ---------------------------
EXTENDS InOutExchange
CONSTANTS p1, p2
=============================================================================
