--------------------------- MODULE MCCreditManager ---------------------------
\* CreditManager for TLC: the constants are given in the cfg files.
EXTENDS CreditManager
=============================================================================
