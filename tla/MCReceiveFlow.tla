---------------------------- MODULE MCReceiveFlow ----------------------------
\* ReceiveFlow for TLC: the constants are given in the cfg files.
EXTENDS ReceiveFlow
=============================================================================
