------------------------------- MODULE MCVoyage -------------------------------
EXTENDS Voyage

CONSTANTS t1, t2, s1, s2
=============================================================================
