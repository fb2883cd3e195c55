--------------------------- MODULE MCBrowserStore ---------------------------
EXTENDS BrowserStore, TLC
CONSTANTS t1, t2

\* No tab is special, and the run's properties say the same of each.
TabSymmetry == Permutations(Tab)
=============================================================================
