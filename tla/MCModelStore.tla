---------------------------- MODULE MCModelStore ----------------------------
EXTENDS ModelStore
CONSTANTS c1, t1, m1, m2, i1
=============================================================================
