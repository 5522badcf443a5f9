---------------------------- MODULE MCHttpClient ----------------------------
EXTENDS HttpClient, TLC

Alike == Permutations(Calls)
=============================================================================
