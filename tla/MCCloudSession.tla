--------------------------- MODULE MCCloudSession ---------------------------
EXTENDS CloudSession, TLC
Symmetric == Permutations(Wakes)
=============================================================================
