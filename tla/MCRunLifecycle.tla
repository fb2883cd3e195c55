--------------------------- MODULE MCRunLifecycle ---------------------------
EXTENDS RunLifecycle, TLC
CONSTANTS r1, r2, s1, s2
Symmetry == Permutations(Runs \ BareRuns) \cup Permutations(Servers)
=============================================================================
