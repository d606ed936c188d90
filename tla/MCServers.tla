----------------------------- MODULE MCServers -----------------------------
EXTENDS Servers, TLC
Interchangeable == Permutations(Names) \cup Permutations(Tokens) \cup Permutations(Hosts)
=============================================================================
