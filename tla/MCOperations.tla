---------------------------- MODULE MCOperations ----------------------------
EXTENDS Operations, TLC

CONSTANTS k1, k2, w1
=============================================================================
